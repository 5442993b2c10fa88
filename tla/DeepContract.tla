---------------------------- MODULE DeepContract ----------------------------
(***************************************************************************)
(* What a Deep audit promises whatever its workers, leases and queue do    *)
(* (docs/architecture/v3-scan-engine.md, "Lease et fencing"): executions   *)
(* hold the scan one after the other, each under a newer epoch; only the   *)
(* execution that holds the scan writes its results; somebody else closes  *)
(* the scan only when nobody holds it; and a closed scan is never touched  *)
(* again.                                                                  *)
(***************************************************************************)
EXTENDS Naturals

CONSTANT MaxEpochs
VARIABLES
  status,  \* of the scan
  epoch,   \* number of executions that held the scan so far
  holder,  \* epoch of the execution that holds it now, 0 when none does
  author   \* epoch of the execution whose results were written, 0 when none

vars == <<status, epoch, holder, author>>

Init == status = "queued" /\ epoch = 0 /\ holder = 0 /\ author = 0

Start ==
  /\ status = "queued" /\ status' = "running"
  /\ UNCHANGED <<epoch, holder, author>>

Acquire ==
  /\ status = "running" /\ holder = 0 /\ epoch < MaxEpochs
  /\ epoch' = epoch + 1 /\ holder' = epoch + 1
  /\ UNCHANGED <<status, author>>

Lose == holder # 0 /\ holder' = 0 /\ UNCHANGED <<status, epoch, author>>

Finish ==
  /\ status = "running" /\ holder # 0
  /\ status' \in {"completed", "failed"} /\ author' = holder /\ holder' = 0
  /\ UNCHANGED epoch

GiveUp ==
  /\ status = "running" /\ holder = 0
  /\ status' = "failed"
  /\ UNCHANGED <<epoch, holder, author>>

Next == Start \/ Acquire \/ Lose \/ Finish \/ GiveUp

Spec == Init /\ [][Next]_vars
==============================================================================
