------------------------- MODULE ObservedPerformance -------------------------
(***************************************************************************)
(* What a Deep audit tells of the loading of its page: the events of the   *)
(* requests, the metadata read behind them, the one wait for what is still *)
(* being read, the snapshot of the page's own timings, and the analysis    *)
(* that brings them together by URL (observeGuardedBrowserTarget of        *)
(* guarded-browser-transport.ts, readLabPerformanceSnapshot of             *)
(* performance-runtime.ts, analyzeObservedPerformance of                   *)
(* performance-analysis.ts).                                               *)
(*                                                                         *)
(* A size of 0 stands for one that is not known.  An observation that the  *)
(* signal, the navigation or the scope ends tells nothing: the behaviour   *)
(* may end at any state before the analysis.                               *)
(***************************************************************************)
EXTENDS Integers, FiniteSets, Functions

CONSTANTS Requests,   \* the requests of the page, by the order of their names
          Urls,       \* the URLs without the query
          Size,       \* of each, what its transfer takes
          MaxItems, MaxEntries   \* resources and timings kept: 120 of each

VARIABLES phase,      \* "loading", "waiting", "reading", "read", "done"
          url,        \* of each request, its URL without the query
          outside,    \* the URLs that are not in the scope
          wire,       \* of each request, how far it is
          item,       \* of each request, what was noted
          headers, sizes,   \* of each request, the two reads behind its events
          awaited,    \* the reads the wait is about
          truncated,  \* performanceResourcesTruncated
          timings,    \* the snapshot of the page
          analysis    \* what is told

vars == <<phase, url, outside, wire, item, headers, sizes, awaited, truncated, timings, analysis>>

NoItem == [kept |-> FALSE, status |-> FALSE, size |-> 0, blocked |-> FALSE]
NoTimings == [valid |-> FALSE, entries |-> {}, sized |-> {}, full |-> FALSE]
NoAnalysis == [coverage |-> "none", timing |-> {}, bytes |-> 0, known |-> {}]

Init ==
  /\ phase = "loading" /\ url \in [Requests -> Urls] /\ outside \in SUBSET Urls
  /\ wire = [r \in Requests |-> "none"]
  /\ item = [r \in Requests |-> NoItem]
  /\ headers = [r \in Requests |-> "none"] /\ sizes = [r \in Requests |-> "none"]
  /\ awaited = {} /\ truncated = FALSE
  /\ timings = NoTimings /\ analysis = NoAnalysis

Open == phase \in {"loading", "waiting", "reading", "read"}
Sent == {r \in Requests : wire[r] # "none"}
Kept == {r \in Requests : item[r].kept}
InScope(r) == url[r] \notin outside
Pending == {<<r, "headers">> : r \in {q \in Requests : headers[q] = "pending"}}
           \cup {<<r, "sizes">> : r \in {q \in Requests : sizes[q] = "pending"}}
Rest == <<url, outside, awaited, timings, analysis>>

-----------------------------------------------------------------------------
(* The events of the page.                                                 *)

\* "request": what is out of the scope is noted as blocked at once.
RequestSeen(r) ==
  /\ Open /\ wire[r] = "none"
  /\ wire' = [wire EXCEPT ![r] = "sent"]
  /\ IF Cardinality(Kept) < MaxItems
     THEN item' = [item EXCEPT ![r] = [NoItem EXCEPT !.kept = TRUE, !.blocked = ~InScope(r)]]
          /\ UNCHANGED truncated
     ELSE truncated' = TRUE /\ UNCHANGED item
  /\ UNCHANGED <<Rest, phase, headers, sizes>>

\* "response": the status is noted, the headers are read behind it.
ResponseSeen(r) ==
  /\ Open /\ wire[r] = "sent" /\ InScope(r)
  /\ wire' = [wire EXCEPT ![r] = "answered"]
  /\ IF item[r].kept
     THEN item' = [item EXCEPT ![r].status = TRUE] /\ headers' = [headers EXCEPT ![r] = "pending"]
     ELSE UNCHANGED <<item, headers>>
  /\ UNCHANGED <<Rest, phase, sizes, truncated>>

\* "requestfinished": the sizes are read behind it.
RequestFinished(r) ==
  /\ Open /\ wire[r] = "answered"
  /\ wire' = [wire EXCEPT ![r] = "finished"]
  /\ sizes' = IF item[r].kept THEN [sizes EXCEPT ![r] = "pending"] ELSE sizes
  /\ UNCHANGED <<Rest, phase, item, headers, truncated>>

\* "requestfailed": the guard lets nothing out of the scope pass.
RequestFailed(r) ==
  /\ Open /\ wire[r] \in {"sent", "answered"}
  /\ wire' = [wire EXCEPT ![r] = "failed"]
  /\ item' = IF item[r].kept THEN [item EXCEPT ![r].blocked = TRUE] ELSE item
  /\ UNCHANGED <<Rest, phase, headers, sizes, truncated>>

\* The headers are read; headers that cannot be read make the record partial,
\* sizes that cannot, or that say nothing, are left unknown.
HeadersRead(r) ==
  /\ Open /\ headers[r] = "pending"
  /\ headers' = [headers EXCEPT ![r] = "read"]
  /\ UNCHANGED <<Rest, phase, wire, item, sizes, truncated>>
HeadersLost(r) ==
  /\ Open /\ headers[r] = "pending"
  /\ headers' = [headers EXCEPT ![r] = "lost"] /\ truncated' = TRUE
  /\ UNCHANGED <<Rest, phase, wire, item, sizes>>
SizesRead(r) ==
  /\ Open /\ sizes[r] = "pending"
  /\ sizes' = [sizes EXCEPT ![r] = "read"]
  /\ \/ item' = [item EXCEPT ![r].size = Size[r]]
     \/ UNCHANGED item
  /\ UNCHANGED <<Rest, phase, wire, headers, truncated>>

-----------------------------------------------------------------------------
(* The observation.                                                        *)

\* The navigation is over: the reads begun so far are awaited, for a while.
Wait ==
  /\ phase = "loading" /\ phase' = "waiting" /\ awaited' = Pending
  /\ UNCHANGED <<url, outside, wire, item, headers, sizes, truncated, timings, analysis>>
WaitEnds ==
  /\ phase = "waiting" /\ awaited \cap Pending = {} /\ phase' = "reading"
  /\ UNCHANGED <<Rest, wire, item, headers, sizes, truncated>>
WaitTimesOut ==
  /\ phase = "waiting" /\ phase' = "reading" /\ truncated' = TRUE
  /\ UNCHANGED <<Rest, wire, item, headers, sizes>>

\* The page has entries, with their sizes or not; those of its frames are not
\* there, and when its buffer is full, there may have been more.  Or there is no
\* snapshot: it was not installed, its time is over, or the page is silent.
Snapshot ==
  /\ phase = "reading" /\ phase' = "read"
  /\ \/ \E entries \in SUBSET {r \in Requests : wire[r] \in {"finished", "failed"}} :
          \E sized \in {{}, entries} :
            /\ Cardinality(entries) <= MaxEntries
            /\ timings' = [valid |-> TRUE, entries |-> entries, sized |-> sized,
                           full |-> Cardinality(entries) = MaxEntries]
     \/ UNCHANGED timings
  /\ UNCHANGED <<url, outside, wire, item, headers, sizes, awaited, truncated, analysis>>

-----------------------------------------------------------------------------
(* The analysis.                                                           *)

\* A timing belongs to a resource when each is the only one with its URL, and
\* nothing was left out on either side.
Timed(r) == {e \in timings.entries : url[e] = url[r]}
MatchedByUrl(r) == IF Cardinality(Timed(r)) = 1 /\ ~truncated /\ ~timings.full THEN Timed(r) ELSE {}
Matched(r) ==
  LET alone == Cardinality({q \in Kept : url[q] = url[r]}) = 1
  IN  IF alone /\ Cardinality(Timed(r)) = 1 /\ ~truncated /\ ~timings.full THEN Timed(r) ELSE {}

\* The size that was read, or else that of the timing.
Transfer(r) ==
  IF item[r].size > 0 THEN item[r].size
  ELSE IF Matched(r) \cap timings.sized = {} THEN 0
  ELSE Size[CHOOSE e \in Matched(r) : TRUE]

\* Why the record is limited: what was left out, what is unknown, what did not
\* come through.  (A hidden page, an observer that is full or not supported and
\* a paint that was not seen limit it too, whatever the requests did.)
LeftOutByPage == timings.full
LeftOut == timings.full \/ truncated
Unknown == \E r \in Kept : ~item[r].blocked /\ (Transfer(r) = 0 \/ ~item[r].status)
Blocked == (\E r \in Kept : item[r].blocked) \/ (\E r \in Sent : ~InScope(r))
Coverage ==
  IF ~timings.valid THEN "unavailable"
  ELSE IF LeftOut \/ Unknown \/ Blocked THEN "limited" ELSE "observed"

\* The total of the sizes that are known, of what was not blocked.
Known == {r \in Kept : ~item[r].blocked /\ Transfer(r) > 0}

Analyze ==
  /\ phase = "read" /\ phase' = "done"
  /\ analysis' = [coverage |-> Coverage, known |-> Known,
                  bytes |-> SumFunction([r \in Known |-> Transfer(r)]),
                  timing |-> {pair \in Kept \X Requests : pair[2] \in Matched(pair[1])}]
  /\ UNCHANGED <<url, outside, wire, item, headers, sizes, awaited, truncated, timings>>

Next ==
  \/ \E r \in Requests : \/ RequestSeen(r) \/ ResponseSeen(r) \/ RequestFinished(r) \/ RequestFailed(r)
                         \/ HeadersRead(r) \/ HeadersLost(r) \/ SizesRead(r)
  \/ Wait \/ WaitEnds \/ WaitTimesOut \/ Snapshot \/ Analyze
Spec == Init /\ [][Next]_vars

-----------------------------------------------------------------------------

TypeOK ==
  /\ phase \in {"loading", "waiting", "reading", "read", "done"}
  /\ wire \in [Requests -> {"none", "sent", "answered", "finished", "failed"}]
  /\ \A r \in Requests : headers[r] # "none" \/ sizes[r] # "none" => item[r].kept
  /\ Cardinality(Kept) <= MaxItems
  /\ analysis.coverage \in {"none", "unavailable", "limited", "observed"}

\* A record that is called "observed" tells of every request the page made, all
\* of them answered and in scope, with the total of their sizes; and every
\* header that the wait was about was read.
ObservedIsWhole ==
  analysis.coverage = "observed" =>
    /\ Kept = Sent /\ analysis.known = Sent
    /\ \A r \in Sent : InScope(r) /\ wire[r] \in {"answered", "finished"}
    /\ analysis.bytes = SumFunction([r \in Sent |-> Size[r]])
    /\ \A r \in Requests : <<r, "headers">> \in awaited => headers[r] = "read"

\* The timing of one request is never told of another one, though both have the
\* same URL without the query.
TimingsBelong == \A pair \in analysis.timing : pair[1] = pair[2]

PerformanceIsObserved == ObservedIsWhole /\ TimingsBelong
=============================================================================
