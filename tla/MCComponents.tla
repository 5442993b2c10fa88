---------------------------- MODULE MCComponents ----------------------------
(***************************************************************************)
(* Components for TLC.                                                     *)
(***************************************************************************)
EXTENDS Components

\* Ten requests for sites a, b and c; a and c have one host, and each kind
\* that counts comes more often than its limit.
TenRequests == 1..10
Kinds == <<"manual", "manual", "manual", "public", "public",
           "email", "email", "schedule", "delete", "retain">>
Users == <<"u", "v", "u", "u", "v", "u", "v", "u", "u", "u">>
SitesAsked == <<"a", "a", "b", "a", "c", "a", "a", "a", "a", "a">>
OrgOf == [a |-> "o", b |-> "o", c |-> "p"]
HostOf == [a |-> "h", b |-> "i", c |-> "h"]
OneRecipient == [r \in TenRequests |-> "x"]

\* Files with a new site, with several, with duplicates and with a bad line.
SiteFiles == {<<"a">>, <<"a", "b">>, <<"b", "a", "b">>, <<"a", "bad">>}

\* Weeks of two short days; one slot is in the hour that is skipped, the other
\* in the hour that is repeated.
TwoSlots == {[day |-> 1, time |-> 1], [day |-> 0, time |-> 2]}

\* 1.10 comes after 1.9.
ThreeReleases == {<<1, 9, 0>>, <<1, 10, 0>>, <<2, 0, 0>>}

\* Files of up to three lines, those of one more that begin with the agent or
\* "*", and one rule of up to four signs.
Line(k, v) == [key |-> k, value |-> v]
Agents == {Line("agent", "us"), Line("agent", "*")}
Lines == Agents \cup {Line("agent", "other")}
                \cup {Line("disallow", p) : p \in {<<>>, <<"a">>, <<"*", "b">>}}
                \cup {Line("allow", p) : p \in {<<"a", "b">>, <<"b", "$">>}}
ShortFiles ==
  SeqOf(Lines, 3) \cup {<<l>> \o f : l \in Agents, f \in SeqOf(Lines, 3)}
  \cup {<<Line("agent", "us"), Line("disallow", p)>> : p \in SeqOf({"a", "b", "*", "$"}, 4)}
ShortPaths == SeqOf({"a", "b"}, 3)

\* Pages of the site, of its "www." form and of another site.
OriginOf == [p \in {"a", "b", "c", "d", "w", "x"} |-> IF p \in {"w", "x"} THEN p ELSE "s"]
LinkLists == {<<"c", "b">>, <<"d", "w">>}

\* Where names may be exchanged, one order of them is enough.  Requests 1 and 2
\* differ in a user that manual scans do not read, and 6 and 7 may exchange
\* theirs; 3 and 5, of other sites, matter together with 1 and 4.  The first
\* attempt of a grant is a's, the first tick and the first cycle v's, the first
\* call is 1, the first resource r and the first scan that of s.
Canonical ==
  /\ part = "quotas" => \A pair \in {<<1, 2>>, <<1, 3>>, <<4, 5>>, <<6, 7>>} :
                          pc[pair[2]] # "new" => pc[pair[1]] # "new"
  /\ part = "grants" => attempt["b"] = G!Fresh \/ attempt["a"] # G!Fresh
  /\ part = "creation" => \A c \in {2, 3} : creation[c] # D!Fresh => creation[c - 1] # D!Fresh
  /\ part = "schedule" /\ since = 0 => tick["w"] = W!NoTick \/ tick["v"] # W!NoTick
  /\ part = "network" => \A p \in {<<"r", "s">>, <<"s", "t">>} :
                           request[p[2]].pc # "none" => request[p[1]].pc # "none"
  /\ part = "sync" /\ cycles = 1 => worker["w"].pc = "idle"
  /\ part = "reviews" => observation[1] = R!Gone \/ observation[1].site = "s"
  /\ part = "performance" /\ "v" \in outside => address["b"] = "v"

\* What has no part in an interesting case is left out of it.  Requests 8 to 10
\* count nothing: they come before time passes.  An audit that is not secure, or
\* whose time runs out, has two resources beside its document.  Who disables a
\* schedule does so before a run.  Whether the analysis of a scan is complete
\* matters where it did not observe the finding.  The deadline of a crawl, which
\* has nothing to do with robots.txt, passes in those that are not public.  An
\* advisory without rules is ignored unless KEV lists it, and is published while
\* one worker synchronizes.
Focused ==
  /\ part = "quotas" /\ now > 0 => \A r \in 8..10 : pc[r] \in {"new", "done"}
  /\ part = "network" /\ (over \/ ~secure) => request["t"].pc = "none"
  /\ part = "schedule" /\ ~schedule.enabled => runs = <<>>
  /\ part = "followup" => \A r \in scan : r.observed => r.complete
  /\ part = "crawl" => ~(public /\ expired)
  /\ part \in {"sync", "long sync"} =>
       \A c \in DOMAIN nvd : nvd[c] = S!None \/ nvd[c].rules \/ (part = "long sync" /\ c = "c")
=============================================================================
