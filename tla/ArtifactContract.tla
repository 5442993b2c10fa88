--------------------------- MODULE ArtifactContract ---------------------------
(***************************************************************************)
(* What the screenshots promise those who show them (scan-artifact-service *)
(* of the web application): a screenshot that is shown has its bytes on    *)
(* disk from the moment it is shown to the moment it is withdrawn, and     *)
(* that of a deleted scan is never shown again.                            *)
(***************************************************************************)
CONSTANT Scans
VARIABLES
  shown,    \* scans whose screenshot is shown
  bytes,    \* scans whose screenshot is on disk
  deleted   \* scans that are deleted

vars == <<shown, bytes, deleted>>

Init == shown = {} /\ bytes = {} /\ deleted = {}

Write(s) ==
  /\ s \notin shown /\ bytes' = bytes \union {s}
  /\ UNCHANGED <<shown, deleted>>

Publish(s) ==
  /\ s \in bytes \ deleted /\ shown' = shown \union {s}
  /\ UNCHANGED <<bytes, deleted>>

Withdraw(D) ==
  /\ deleted' = deleted \union D /\ shown' = shown \ D
  /\ UNCHANGED bytes

Erase(s) ==
  /\ s \notin shown /\ bytes' = bytes \ {s}
  /\ UNCHANGED <<shown, deleted>>

Next == \/ \E s \in Scans : Write(s) \/ Publish(s) \/ Erase(s)
        \/ \E D \in SUBSET Scans : Withdraw(D)

Spec == Init /\ [][Next]_vars
==============================================================================
