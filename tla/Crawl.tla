-------------------------------- MODULE Crawl --------------------------------
(***************************************************************************)
(* The browser crawl of a V2 scan: runBrowserScan of                       *)
(* apps/worker/src/browser-scan.ts with the tracker of                     *)
(* scanner-v2/crawl.ts.  One page after the other is taken from a queue,   *)
(* navigated to, perhaps redirected, and read for links.  A public audit   *)
(* asks the robots.txt of an origin before each document it requests.  The *)
(* route handler sees the first request of a navigation only: Playwright   *)
(* follows redirects without it, so that requestPolicy's branch for a      *)
(* redirected request (redirectedFromUrl) is never reached, and what a     *)
(* redirect leads to is judged when it has come.                           *)
(*                                                                         *)
(* A page is a URL without its fragment.  What a site answers is chosen    *)
(* when it is asked; what robots.txt says is RobotsPolicy's.               *)
(***************************************************************************)
EXTENDS Naturals, Sequences, FiniteSets

CONSTANTS Pages, Start,
          Origin,       \* of each page
          Family,       \* the origins that differ by "www." or the scheme only
          Hrefs,        \* the lists of links a page may have
          MaxPages,
          MaxRedirects  \* bound: redirects of one navigation

VARIABLES public,       \* scanMode is "public_audit"
          phase,        \* what runBrowserScan does next, or how it ended
          home,         \* crawlOrigin
          loaded,       \* the origins whose robots.txt was read ...
          forbidden,    \* ... and the pages they forbid
          queue,        \* pending
          seen,
          entry,        \* the tracker: the state of each URL ...
          alias,        \* ... and the page that rendered a redirect's target
          flags,        \* why the crawl is not complete
          target,       \* the page that is navigated to ...
          url,          \* ... and where the navigation is
          via,          \* after so many redirects
          hrefs,        \* the links that are being looked at
          observed,     \* the number of observations
          analyzed,     \* some page of the site was analyzed
          late,         \* the deadline of the scan has passed
          requested,    \* history: the documents that were requested
          published     \* history: the links that were read

vars == <<public, phase, home, loaded, forbidden, queue, seen, entry, alias, flags, target,
          url, via, hrefs, observed, analyzed, late, requested, published>>
policies == <<loaded, forbidden>>
tracker == <<entry, alias>>
navigation == <<target, url, via>>
history == <<requested, published>>

Nowhere == "nowhere"
Flags == {"budget", "restricted", "unavailable", "stop", "blocked", "exhausted", "unread"}
States == {"none", "queued", "visited", "failed", "ignored", "disallowed", "over"}

Init ==
  /\ public \in BOOLEAN
  /\ phase = IF public THEN "robots" ELSE "next"
  /\ home = Origin[Start] /\ loaded = {} /\ forbidden = {}
  /\ queue = <<Start>> /\ seen = {}
  /\ entry = [p \in Pages |-> IF p = Start THEN "queued" ELSE "none"]
  /\ alias = [p \in Pages |-> p] /\ flags = {}
  /\ target = Nowhere /\ url = Nowhere /\ via = 0 /\ hrefs = <<>>
  /\ observed = 0 /\ analyzed = FALSE /\ late = FALSE
  /\ requested = {} /\ published = {}

Same(o, p) == o = p \/ {o, p} \subseteq Family

-----------------------------------------------------------------------------
(* robots.txt.                                                             *)

\* loadPublicRobotsPolicy: what it forbids, or FALSE when it is unavailable.
Policy(o) ==
  \E pages \in SUBSET {p \in Pages : Origin[p] = o} :
    loaded' = loaded \cup {o} /\ forbidden' = forbidden \cup pages

\* Before Chromium starts.
ReadRobots ==
  /\ phase = "robots"
  /\ \/ /\ UNCHANGED <<policies, entry>>
        /\ flags' = flags \cup {"unavailable"} /\ phase' = "refused"
     \/ /\ Policy(home)
        /\ IF Start \in forbidden'
           THEN /\ flags' = flags \cup {"restricted"} /\ phase' = "refused"
                /\ entry' = [entry EXCEPT ![Start] = "disallowed"]
           ELSE phase' = "next" /\ UNCHANGED <<flags, entry>>
  /\ UNCHANGED <<public, home, queue, seen, alias, navigation, hrefs, observed, analyzed, late,
                 history>>

-----------------------------------------------------------------------------
(* Navigation.                                                             *)

Take ==
  /\ phase = "next" /\ queue # <<>> /\ observed < MaxPages
  /\ queue' = Tail(queue)
  /\ IF Head(queue) \in seen THEN UNCHANGED <<phase, seen, navigation>>
     ELSE /\ phase' = "request" /\ seen' = seen \cup {Head(queue)}
          /\ target' = Head(queue) /\ url' = Head(queue) /\ via' = 0
  /\ UNCHANGED <<public, home, policies, tracker, flags, hrefs, observed, analyzed, late, history>>

\* requestPolicy, first half: the origin of page p may be asked at all.
Within(p) == Origin[p] \in {home, Origin[Start]}

\* Second half.
Permitted(p, origins, pages) == Origin[p] \in origins /\ p \notin pages

Blocked(reasons) == flags' = flags \cup reasons /\ UNCHANGED requested
Sent(p) == requested' = requested \cup {p} /\ UNCHANGED flags

\* A document is let through by the route handler of the session, or is not.
Document(p, sent) ==
  \/ ~public /\ sent /\ Sent(p) /\ UNCHANGED policies
  \/ public /\ ~sent /\ Blocked({"exhausted"}) /\ UNCHANGED policies
  \/ public /\ ~Within(p) /\ ~sent /\ Blocked({"blocked"}) /\ UNCHANGED policies
  \/ /\ public /\ Within(p)
     /\ IF Origin[p] \in loaded THEN UNCHANGED policies
        ELSE UNCHANGED policies \/ Policy(Origin[p])
     /\ sent = Permitted(p, loaded', forbidden')
     /\ IF sent THEN Sent(p)
        ELSE Blocked({"blocked"} \cup IF Origin[p] \in loaded' THEN {"restricted"}
                                      ELSE {"unavailable", "stop"})

Request ==
  /\ phase = "request"
  /\ \E sent \in BOOLEAN :
       Document(url, sent) /\ phase' = IF sent THEN "answer" ELSE "fails"
  /\ UNCHANGED <<public, home, queue, seen, tracker, navigation, hrefs, observed, analyzed,
                 late, published>>

\* The page that comes shows another one in a frame.
Frame ==
  /\ phase = "answer" /\ public
  /\ \E p \in Pages \ {url}, sent \in BOOLEAN : Document(p, sent)
  /\ UNCHANGED <<public, phase, home, queue, seen, tracker, navigation, hrefs, observed, analyzed,
                 late, published>>

\* The browser follows a redirect, wherever it leads.
Redirected ==
  /\ phase = "answer" /\ via < MaxRedirects
  /\ \E p \in Pages : url' = p
  /\ via' = via + 1
  /\ UNCHANGED <<public, phase, home, policies, queue, seen, tracker, flags, target, hrefs, observed,
                 analyzed, late, history>>

\* No answer, or none in time.  After the deadline goto is not even called.
Unanswered ==
  /\ phase \in {"request", "answer"} /\ phase' = "fails"
  /\ UNCHANGED <<public, home, policies, queue, seen, tracker, flags, navigation, hrefs,
                 observed, analyzed, late, history>>

Fail ==
  /\ phase = "fails"
  /\ IF target = Start
     THEN /\ phase' = IF public /\ "blocked" \in flags THEN "refused" ELSE "error"
          /\ UNCHANGED <<entry, observed>>
     ELSE /\ phase' = "next" /\ observed' = observed + 1
          /\ entry' = [entry EXCEPT ![target] = IF @ = "none" THEN @ ELSE "failed"]
  /\ UNCHANGED <<public, home, policies, queue, seen, alias, flags, navigation, hrefs, analyzed,
                 late, history>>

-----------------------------------------------------------------------------
(* A page has come.                                                        *)

\* markVisited.  A redirect takes over the URL it led to while that one is
\* still queued, and leaves alone what was settled before.
Visit ==
  IF entry[target] = "none" THEN UNCHANGED tracker
  ELSE /\ entry' = [entry EXCEPT ![target] = "visited",
                                 ![url] = IF url # target /\ @ = "queued" THEN "none"
                                          ELSE IF url = target THEN "visited" ELSE @]
       /\ alias' = IF url # target /\ entry[url] \in {"none", "queued"}
                   THEN [alias EXCEPT ![url] = target] ELSE alias

\* The first page may move the crawl to the other form of its host; a public
\* audit that a redirect took to another site ends there.
Shifts == target = Start /\ Origin[url] # home
Moves == Shifts /\ Same(Origin[Start], Origin[url])
Strays == public /\ Shifts /\ ~Moves
NewHome == IF Moves THEN Origin[url] ELSE home

\* A public audit that moves to where it has not read the rules explores no
\* further.  A URL with a fragment is not the one that links are compared
\* with.
Arrive ==
  /\ phase = "answer"
  /\ \E healthy, fragment \in BOOLEAN :
       LET ours == healthy /\ Origin[url] = NewHome
       IN  /\ late => ~ours
           /\ seen' = IF fragment THEN seen ELSE seen \cup {url}
           /\ IF Strays
              THEN phase' = "refused" /\ UNCHANGED <<home, flags, analyzed, hrefs, observed, tracker>>
              ELSE /\ home' = NewHome
                   /\ flags' = IF public /\ Moves /\ NewHome \notin loaded
                               THEN flags \cup {"unavailable", "stop"} ELSE flags
                   /\ analyzed' = (analyzed \/ ours) /\ observed' = observed + 1 /\ Visit
                   /\ IF ours /\ observed + 1 < MaxPages
                      THEN phase' = "links" /\ hrefs' \in Hrefs
                      ELSE phase' = "next" /\ UNCHANGED hrefs
  /\ UNCHANGED <<public, policies, queue, navigation, late, history>>

\* Its address is not public, or its analysis fails, as after the deadline.
Collapse ==
  /\ phase = "answer" /\ phase' = "error"
  /\ UNCHANGED <<public, home, policies, queue, seen, tracker, flags, navigation, hrefs,
                 observed, analyzed, late, history>>

\* extractPageHrefs.
Extract ==
  /\ phase = "links"
  /\ \/ /\ flags' = flags \cup {"unread"} /\ phase' = "next" /\ hrefs' = <<>>
        /\ UNCHANGED published
     \/ /\ ~late /\ phase' = "candidates"
        /\ published' = published \cup {hrefs[i] : i \in DOMAIN hrefs}
        /\ UNCHANGED <<flags, hrefs>>
  /\ UNCHANGED <<public, home, policies, queue, seen, tracker, navigation, observed, analyzed,
                 late, requested>>

\* discover, with the state of an entry that is new.
Discovered(p, state) ==
  entry' = [entry EXCEPT ![p] = IF alias[p] = p /\ @ = "none" THEN state ELSE @]

OverBudget == observed + Len(queue) >= MaxPages
Refused(p) == Discovered(p, "over") /\ flags' = flags \cup {"budget"} /\ UNCHANGED queue

\* markRobotsDisallowed.  Mutated, the page is noted but the crawl still complete.
LeftOutSilently(p) == Discovered(p, "disallowed") /\ UNCHANGED <<flags, queue>>
LeftOut(p) == Discovered(p, "disallowed") /\ flags' = flags \cup {"restricted"} /\ UNCHANGED queue

\* A public audit takes up no more links: some rules could not be read.
\* Mutated, rules that were not read forbid nothing.
NeverStopped == FALSE
Stopped == "stop" \in flags \/ home \notin loaded

Known(p) == p \in seen \/ \E i \in DOMAIN queue : queue[i] = p
Candidate ==
  /\ phase = "candidates"
  /\ IF hrefs = <<>> THEN phase' = "next" /\ UNCHANGED <<hrefs, entry, flags, queue>>
     ELSE LET p == Head(hrefs)
          IN /\ hrefs' = Tail(hrefs) /\ UNCHANGED phase
             /\ CASE Origin[p] # home ->
                       /\ entry' = [entry EXCEPT ![p] = IF @ = "none" THEN "ignored" ELSE @]
                       /\ UNCHANGED <<flags, queue>>
                  [] Origin[p] = home /\ public /\ Stopped -> UNCHANGED <<entry, flags, queue>>
                  [] Origin[p] = home /\ public /\ ~Stopped /\ p \in forbidden -> LeftOut(p)
                  [] OTHER ->
                       IF Known(p) THEN Discovered(p, "queued") /\ UNCHANGED <<flags, queue>>
                       ELSE IF OverBudget THEN Refused(p)
                       ELSE Discovered(p, "queued") /\ queue' = Append(queue, p) /\ UNCHANGED flags
  /\ UNCHANGED <<public, home, policies, seen, alias, navigation, observed, analyzed, late,
                 history>>

-----------------------------------------------------------------------------
(* The end: markRemainingBudgetExceeded and the status of the crawl.       *)

Left == {p \in Pages : entry[p] = "queued"}
Finish ==
  /\ phase = "next" /\ (queue = <<>> \/ observed >= MaxPages)
  /\ IF observed >= MaxPages \/ queue # <<>>
     THEN /\ entry' = [p \in Pages |-> IF p \in Left THEN "over" ELSE entry[p]]
          /\ flags' = IF Left = {} THEN flags ELSE flags \cup {"budget"}
     ELSE UNCHANGED <<entry, flags>>
  /\ phase' = IF ~analyzed THEN "unavailable"
              ELSE IF flags' \cap {"unread", "budget", "restricted", "unavailable",
                                   "exhausted"} # {} THEN "partial" ELSE "complete"
  /\ UNCHANGED <<public, home, policies, queue, seen, alias, navigation, hrefs, observed,
                 analyzed, late, history>>

Over == phase \in {"refused", "error", "unavailable", "partial", "complete"}
DeadlinePasses ==
  /\ ~Over /\ ~late /\ late' = TRUE
  /\ UNCHANGED <<public, phase, home, policies, queue, seen, tracker, flags, navigation, hrefs,
                 observed, analyzed, history>>

Next == \/ ReadRobots \/ Take \/ Request \/ Frame \/ Redirected \/ Unanswered \/ Fail
        \/ Arrive \/ Collapse \/ Extract \/ Candidate \/ Finish \/ DeadlinePasses
Spec == Init /\ [][Next]_vars

-----------------------------------------------------------------------------
TypeOK ==
  /\ public \in BOOLEAN /\ late \in BOOLEAN /\ analyzed \in BOOLEAN
  /\ phase \in {"robots", "next", "request", "answer", "fails", "links", "candidates"} \/ Over
  /\ loaded \subseteq {Origin[p] : p \in Pages}
  /\ \A p \in forbidden : Origin[p] \in loaded
  /\ entry \in [Pages -> States] /\ alias \in [Pages -> Pages] /\ flags \subseteq Flags
  /\ observed \in 0..MaxPages /\ Len(queue) <= MaxPages

\* A public audit keeps to the rules it has read.  No document that the route
\* handler lets through, in whatever frame, is forbidden by the robots.txt of
\* its origin, of an origin whose robots.txt was not read, or of another site;
\* and what the audit will still navigate to is of its present home, whose
\* rules it has read and which allow it, wherever redirects have moved it.
\* (The documents that redirects lead to are requested unasked.)
LetThrough == \A p \in requested : /\ Origin[p] \in loaded /\ p \notin forbidden
                                   /\ Same(Origin[Start], Origin[p])
Ahead == phase \notin {"robots", "refused"} =>
           \A i \in DOMAIN queue : Origin[queue[i]] = home /\ home \in loaded /\ queue[i] \notin forbidden
PublicAuditsKeepRobots == public => LetThrough /\ Ahead

\* A page that was navigated to, or that a navigation led to.  (A URL that is
\* visited again, under a redirect that added a fragment, and redirects
\* elsewhere the second time has no entry any more: the page it leads to may
\* then stay "queued" for ever.)
Settled(p) == p \in seen \/ entry[alias[p]] \in {"visited", "failed"}

\* A crawl that is called complete has settled every link of the site that it
\* read, and left no page out.  (The links of the page that uses up the budget
\* are not read, and a page is also settled by a failure.)
CompleteCrawlIsWhole ==
  phase = "complete" =>
    /\ \A p \in published : Origin[p] = home => Settled(p)
    /\ \A p \in Pages : /\ entry[p] \notin {"over", "disallowed"}
                         /\ entry[p] = "queued" => p \in seen
=============================================================================
