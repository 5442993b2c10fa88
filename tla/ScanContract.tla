---------------------------- MODULE ScanContract -----------------------------
(***************************************************************************)
(* What the scans of one site promise to those who only read their status  *)
(* (history pages, reports, alerts, retention): at most one scan is queued *)
(* or running, a scan is scanned only after it was queued, and a completed *)
(* or cancelled scan never changes again.  A failed scan may be run again  *)
(* by a retry of its job, and a running one may be queued again when its   *)
(* job is lost; both still occupy the site's single active place.          *)
(***************************************************************************)
CONSTANT Scans
VARIABLE status

Active == {"queued", "running"}
OthersInactive(s) == \A t \in Scans \ {s} : status[t] \notin Active
Becomes(s, value) == status' = [status EXCEPT ![s] = value]

Init == status = [s \in Scans |-> "absent"]

Request(s) == status[s] = "absent" /\ OthersInactive(s) /\ Becomes(s, "queued")
Run(s) ==
  status[s] \in {"queued", "failed"} /\ OthersInactive(s) /\ Becomes(s, "running")
Requeue(s)  == status[s] = "running" /\ Becomes(s, "queued")
Complete(s) == status[s] = "running" /\ Becomes(s, "completed")
Fail(s)     == status[s] \in Active /\ Becomes(s, "failed")
Cancel(s)   == status[s] = "queued" /\ Becomes(s, "cancelled")

Next == \E s \in Scans : \/ Request(s) \/ Run(s) \/ Requeue(s)
                         \/ Complete(s) \/ Fail(s) \/ Cancel(s)

Spec == Init /\ [][Next]_status
==============================================================================
