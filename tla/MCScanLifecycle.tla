--------------------------- MODULE MCScanLifecycle ---------------------------
(* Instances of ScanLifecycle for TLC.                                       *)
EXTENDS ScanLifecycle, TLC

CONSTANTS s1, s2, s3, x1, x2

SlotSymmetry == Permutations(Slots)

OneScheduled == [s \in Scans |-> "scheduled"]
EachKind == [s \in Scans |->
  IF s = s1 THEN "manual" ELSE IF s = s2 THEN "scheduled" ELSE "public"]

\* The safety run visits three regions of the state space, each large where
\* the others are small:
\*   dispatch races    one manual scan, one slot, two claims in flight
\*   executions        one manual scan, two slots, two attempts, a site that
\*                     stays current
\*   the active place  a scheduled scan, tried twice, and a public audit, one
\*                     slot, one claim, one fault, a site of any eligibility
Created == {s \in Scans : scan[s] # "absent"}
Busy == {x \in Slots : exec[x] # Idle}
DispatchRaces ==
  /\ Created \subseteq {s1} /\ Cardinality(Busy) <= 1
  /\ \A s \in Scans : dispatch[s].count <= 2
  /\ site \in {"current", "stale", "invalid"} /\ schedule
Executions ==
  /\ Created \subseteq {s1} /\ Cardinality(claims) <= 1
  /\ site = "current" /\ schedule
  /\ \A s \in Scans : dispatch[s].count <= 2 /\ Len(attempts[s]) <= 2
ActivePlace ==
  /\ Created \subseteq {s2, s3} /\ Cardinality(Busy) <= 1
  /\ Cardinality(claims) <= 1 /\ faults <= 1
  /\ Len(attempts[s2]) <= 2 /\ Len(attempts[s3]) <= 1
  /\ \A s \in Scans : dispatch[s].count <= 2
InRegion == DispatchRaces \/ Executions \/ ActivePlace
==============================================================================
