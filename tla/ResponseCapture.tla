--------------------------- MODULE ResponseCapture ---------------------------
(***************************************************************************)
(* The network metadata of a browser scan: every response of a page        *)
(* reserves a slot and is read in the background while the crawl goes on   *)
(* (NetworkObservationCollector of scanner-v2/network.ts, the listeners    *)
(* and the final wait of runBrowserScan in browser-scan.ts).  The last     *)
(* reads are awaited for a while, then the collection is called complete   *)
(* or partial.                                                             *)
(***************************************************************************)
EXTENDS Naturals, FiniteSets

CONSTANTS Responses, Slots

VARIABLES phase,     \* "crawl", "waiting", "error", or the status of the network part
          capture,   \* of each response
          errors,    \* slots taken by failed requests and console errors
          dropped,   \* an observation found no slot
          failures,  \* networkCaptureFailureCount
          awaited,   \* the reads the final wait is about
          due        \* history: the responses that came before the crawl ended

vars == <<phase, capture, errors, dropped, failures, awaited, due>>

Init == /\ phase = "crawl" /\ capture = [r \in Responses |-> "none"]
        /\ errors = 0 /\ dropped = FALSE /\ failures = 0 /\ awaited = {} /\ due = {}

In(states) == {r \in Responses : capture[r] \in states}
Pending == In({"pending"})
Reserved == errors + Cardinality(In({"pending", "recorded", "failed"}))
Open == phase \in {"crawl", "waiting"}

\* The "response" event.
Respond(r) ==
  /\ Open /\ capture[r] = "none"
  /\ IF Reserved < Slots THEN capture' = [capture EXCEPT ![r] = "pending"] /\ UNCHANGED dropped
     ELSE capture' = [capture EXCEPT ![r] = "dropped"] /\ dropped' = TRUE
  /\ due' = IF phase = "crawl" THEN due \cup {r} ELSE due
  /\ UNCHANGED <<phase, errors, failures, awaited>>

\* The "requestfailed", "console" and "pageerror" events.
ErrorSeen ==
  /\ Open
  /\ IF Reserved < Slots THEN errors' = errors + 1 /\ UNCHANGED dropped
     ELSE dropped' = TRUE /\ UNCHANGED errors
  /\ UNCHANGED <<phase, capture, failures, awaited, due>>

Record(r) ==
  /\ Open /\ capture[r] = "pending"
  /\ capture' = [capture EXCEPT ![r] = "recorded"]
  /\ UNCHANGED <<phase, errors, dropped, failures, awaited, due>>

\* trackPromise: the read failed or took longer than its time.
CaptureFails(r) ==
  /\ Open /\ capture[r] = "pending"
  /\ capture' = [capture EXCEPT ![r] = "failed"] /\ failures' = failures + 1
  /\ UNCHANGED <<phase, errors, dropped, awaited, due>>

Status(count) ==
  \/ phase' = "unavailable"            \* no page of the site was analyzed
  \/ phase' = "partial"                \* the requests of a public audit were used up
  \/ phase' = IF count > 0 \/ dropped THEN "partial" ELSE "complete"

\* After the deadline remainingScanTime throws before the wait begins.
CrawlEnds ==
  /\ phase = "crawl"
  /\ \/ Pending = {} /\ Status(failures) /\ UNCHANGED awaited
     \/ Pending # {} /\ phase' = "waiting" /\ awaited' = Pending
     \/ Pending # {} /\ phase' = "error" /\ UNCHANGED awaited
  /\ UNCHANGED <<capture, errors, dropped, failures, due>>

WaitEnds ==
  /\ phase = "waiting" /\ awaited \cap Pending = {} /\ Status(failures)
  /\ UNCHANGED <<capture, errors, dropped, failures, awaited, due>>

\* Mutated, what is still under way is not counted.
WaitGivesUp ==
  /\ phase = "waiting" /\ Status(failures)
  /\ UNCHANGED <<capture, errors, dropped, failures, awaited, due>>
WaitTimesOut ==
  /\ phase = "waiting"
  /\ failures' = failures + Cardinality(Pending) /\ Status(failures')
  /\ UNCHANGED <<capture, errors, dropped, awaited, due>>

Next == \/ \E r \in Responses : Respond(r) \/ Record(r) \/ CaptureFails(r)
        \/ ErrorSeen \/ CrawlEnds \/ WaitEnds \/ WaitTimesOut
Spec == Init /\ [][Next]_vars

TypeOK ==
  /\ phase \in {"crawl", "waiting", "error", "unavailable", "partial", "complete"}
  /\ capture \in [Responses -> {"none", "pending", "recorded", "failed", "dropped"}]
  /\ dropped \in BOOLEAN /\ failures \in Nat /\ awaited \subseteq due /\ due \subseteq Responses
  /\ Reserved \in 0..Slots

\* A collection that is called complete holds every response that came before
\* the crawl ended.  (One that comes during the final wait is neither awaited
\* nor counted.)
CompleteNetworkIsWhole == phase = "complete" => due \subseteq In({"recorded"})
=============================================================================
