------------------------- MODULE ScanLifecycleProofs -------------------------
(* Theorems about ScanLifecycle, for every set of scans and slots and every  *)
(* value of the limits and bounds.                                           *)
EXTENDS ScanLifecycle, TLAPS, SequenceTheorems

\* A slot that is not idle works on a scan of the site.
ExecutesScans == \A x \in Slots : exec[x].pc # "idle" => exec[x].scan \in Scans

TypedExec == exec \in [Slots -> ExecRecords] /\ ExecutesScans

Typed == TypeOK /\ ExecutesScans

USE DEF Fault, NoFault, JobRecords, ExecRecords, DispatchRecords

LEMMA InitTyped == Init => Typed
BY KindAssumption, BoundsAssumption, NullsAssumption
   DEF Init, Typed, TypeOK, ExecutesScans, Idle, NoJob, Claims, Probes, Pcs,
       Sites, ScanStatuses, DispatchStatuses, OpenDispatch, JobStates, Active,
       Terminal

LEMMA EnvironmentTyped == Typed /\ Environment => Typed'
BY BoundsAssumption
   DEF Environment, SiteVerified, ProofExpires, ProofRefreshed, ProofRevoked,
       SitePaused, ScheduleSet, Typed, TypeOK, ExecutesScans, Sites

LEMMA CreateTyped ==
  ASSUME Typed, NEW s \in Scans,
         CreateManual(s) \/ CreatePublic(s) \/ CreateScheduled(s)
  PROVE  Typed'
<1>1. Insert(s)
  BY DEF CreateManual, CreatePublic, CreateScheduled
<1> QED
  BY <1>1 DEF Insert, Typed, TypeOK, ExecutesScans, ScanStatuses,
              DispatchStatuses, OpenDispatch, Active

LEMMA ClaimTyped ==
  ASSUME Typed, NEW s \in Scans,
         \/ ClaimSettled(s) \/ ClaimDeferred(s) \/ ClaimReadsInvalid(s)
         \/ ClaimCancelled(s) \/ ClaimTaken(s)
  PROVE  Typed'
<1> USE BoundsAssumption
    DEF Typed, TypeOK, ExecutesScans, Claimable, SetDispatch, ScanStatuses,
        DispatchStatuses, OpenDispatch, Active, Terminal
<1>1. CASE ClaimSettled(s)
  BY <1>1 DEF ClaimSettled
<1>2. CASE ClaimDeferred(s)
  BY <1>2 DEF ClaimDeferred
<1>3. CASE ClaimReadsInvalid(s)
  BY <1>3 DEF ClaimReadsInvalid
<1>4. CASE ClaimCancelled(s)
  <2>1. scan' \in [Scans -> ScanStatuses]
    BY <1>4 DEF ClaimCancelled
  <2>2. dispatch' \in [Scans -> DispatchRecords]
    <3>1. dispatch' = [dispatch EXCEPT ![s].status = "cancelled"]
      BY <1>4 DEF ClaimCancelled
    <3>2. dispatch \in [Scans -> DispatchRecords]
      OBVIOUS
    <3> HIDE DEF Typed
    <3> QED BY <3>1, <3>2
  <2>3. cancelling' \subseteq Scans
    BY <1>4 DEF ClaimCancelled
  <2> QED BY <1>4, <2>1, <2>2, <2>3 DEF ClaimCancelled
<1>5. CASE ClaimTaken(s)
  <2>1. dispatch[s].count \in Nat
    OBVIOUS
  <2>2. dispatch' \in [Scans -> DispatchRecords]
    BY <1>5, <2>1 DEF ClaimTaken
  <2>3. claims' \in SUBSET Claims
    BY <1>5, <2>1 DEF ClaimTaken, Claims
  <2>4. accepted' \in [Scans -> BOOLEAN] /\ faults' \in Nat
    BY <1>5 DEF ClaimTaken
  <2> QED BY <1>5, <2>2, <2>3, <2>4 DEF ClaimTaken
<1> QED BY <1>1, <1>2, <1>3, <1>4, <1>5

LEMMA ClaimStepTyped ==
  ASSUME Typed, NEW c \in claims,
         \/ Enqueue(c) \/ EnqueueFails(c)
         \/ MarkDispatched(c) \/ MarkFails(c) \/ MarkRetry(c)
  PROVE  Typed'
<1> DEFINE AddedOrNot == Add(c.scan) \/ UNCHANGED job
<1>c. c \in Claims
  BY DEF Typed, TypeOK
<1>a. AddedOrNot => job' \in [Scans -> JobRecords]
  <2>1. c.scan \in Scans
    BY <1>c DEF Claims
  <2>2. [NoJob EXCEPT !.state = "waiting"]
          \in JobRecords
    BY DEF NoJob, JobStates
  <2>3. Add(c.scan) => \/ job' = job
                       \/ job' = [job EXCEPT ![c.scan] =
                                    [NoJob EXCEPT !.state = "waiting"]]
    BY DEF Add
  <2> QED
    BY <2>1, <2>2, <2>3 DEF Typed, TypeOK
<1>b. ASSUME NEW step \in {"mark", "retry"}
      PROVE  (claims \ {c}) \union {[c EXCEPT !.step = step]} \in SUBSET Claims
  BY <1>c DEF Typed, TypeOK, Claims
<1>d. ASSUME NEW status \in DispatchStatuses, SetDispatch(c.scan, status)
      PROVE  dispatch' \in [Scans -> DispatchRecords]
  <2>1. c.scan \in Scans
    BY <1>c DEF Claims
  <2>2. dispatch \in [Scans -> DispatchRecords]
    BY DEF Typed, TypeOK
  <2> QED BY <1>d, <2>1, <2>2 DEF SetDispatch
<1> USE DEF Typed, TypeOK, ExecutesScans
<1>1. CASE Enqueue(c)
  BY <1>1, <1>a, <1>b, <1>c DEF Enqueue, ClaimGoes, Claims
<1>2. CASE EnqueueFails(c)
  <2>1. c.scan \in Scans
    BY <1>c DEF Claims
  <2>2. accepted' \in [Scans -> BOOLEAN]
    BY <1>2, <2>1 DEF EnqueueFails
  <2> QED
    BY <1>2, <2>2, <1>a, <1>b DEF EnqueueFails, ClaimGoes
<1>3. CASE MarkDispatched(c)
  BY <1>3, <1>d DEF MarkDispatched, ClaimEnds, DispatchStatuses, OpenDispatch,
                    HoldsDispatch
<1>4. CASE MarkFails(c)
  BY <1>4, <1>b DEF MarkFails, ClaimGoes
<1>5. CASE MarkRetry(c)
  BY <1>5, <1>d DEF MarkRetry, ClaimEnds, DispatchStatuses, OpenDispatch,
                    HoldsDispatch
<1> QED BY <1>1, <1>2, <1>3, <1>4, <1>5

LEMMA ReconcileTyped ==
  ASSUME Typed, NEW p \in probes,
         CountAttempts(p) \/ Reconcile(p) \/ ProbeLost(p)
  PROVE  Typed'
<1>p. p.scan \in Scans
  BY DEF Typed, TypeOK, Probes
<1> USE DEF Typed, TypeOK, ExecutesScans
<1>d. ASSUME NEW status \in DispatchStatuses, SetDispatch(p.scan, status)
      PROVE  dispatch' \in [Scans -> DispatchRecords]
  BY <1>p, <1>d DEF SetDispatch
<1>s. ASSUME NEW status \in ScanStatuses
      PROVE  [scan EXCEPT ![p.scan] = status] \in [Scans -> ScanStatuses]
  BY <1>s, <1>p
<1>f. FailStale(p.scan) => /\ scan' \in [Scans -> ScanStatuses]
                           /\ dispatch' \in [Scans -> DispatchRecords]
  BY <1>d, <1>s DEF FailStale, ScanStatuses, Terminal, DispatchStatuses
<1>a. CloseLatestAttempt(p.scan) => attempts' \in [Scans -> Seq(AttemptStatuses)]
  BY <1>p DEF CloseLatestAttempt, AttemptStatuses
<1>1. CASE RestoreDispatch(p) /\ Reconcile(p)
  BY <1>1, <1>d DEF RestoreDispatch, Reconcile, DispatchStatuses, OpenDispatch
<1>2. CASE FailFinished(p) /\ Reconcile(p)
  BY <1>2, <1>f, <1>a DEF FailFinished, Reconcile
<1>3. CASE RecoverMissing(p) /\ Reconcile(p)
  BY <1>3, <1>d, <1>f, <1>s
     DEF RecoverMissing, Requeue, Reconcile, DispatchStatuses, OpenDispatch,
         ScanStatuses, Active
<1>4. CASE ProbeLost(p)
  BY <1>4, BoundsAssumption DEF ProbeLost
<1>5. CASE CountAttempts(p)
  <2>1. PICK verdict \in {"exhausted", "recover"} :
          probes' = (probes \ {p}) \union {[p EXCEPT !.verdict = verdict]}
    BY <1>5 DEF CountAttempts
  <2>2. p \in Probes
    OBVIOUS
  <2>3. [p EXCEPT !.verdict = verdict] \in Probes
    BY <2>2 DEF Probes
  <2>4. probes' \in SUBSET Probes
    BY <2>1, <2>3
  <2> QED BY <1>5, <2>4 DEF CountAttempts
<1> QED BY <1>1, <1>2, <1>3, <1>4, <1>5 DEF Reconcile

LEMMA InspectTyped ==
  ASSUME Typed, NEW s \in Scans,
         InspectQueued(s) \/ InspectRunning(s) \/ CancelInvalid(s)
  PROVE  Typed'
<1> USE DEF Typed, TypeOK, ExecutesScans
<1>1. ASSUME NEW verdict \in {"restore", "missing", "finished"},
             Probe(s, verdict)
      PROVE  Typed'
  <2>1. probes' \in SUBSET Probes
    BY <1>1 DEF Probe, Probes
  <2> QED BY <1>1, <2>1 DEF Probe
<1>2. CASE InspectQueued(s)
  BY <1>1, <1>2 DEF InspectQueued
<1>3. CASE InspectRunning(s)
  BY <1>1, <1>3 DEF InspectRunning
<1>4. CASE CancelInvalid(s)
  BY <1>4 DEF CancelInvalid, ScanStatuses, Terminal
<1> QED BY <1>2, <1>3, <1>4

LEMMA QueueTyped == Typed /\ Queue => Typed'
<1> SUFFICES ASSUME Typed, NEW s \in Scans, Queue,
                    Stall(s) \/ Evict(s) \/ LoseJob(s)
             PROVE  Typed'
  BY DEF Queue
<1> USE DEF Queue, Typed, TypeOK, ExecutesScans, JobStates, NoJob
<1>1. CASE Stall(s)
  <2>1. PICK state \in JobStates :
          job' = [job EXCEPT ![s] =
            [state |-> state, made |-> job[s].made,
             stalled |-> job[s].stalled + 1, owner |-> NoSlot]]
    BY <1>1 DEF Stall
  <2>2. job' \in [Scans -> JobRecords]
    BY <2>1
  <2>3. faults' \in Nat
    BY <1>1 DEF Stall
  <2> QED BY <2>2, <2>3
<1>2. CASE Evict(s)
  BY <1>2 DEF Evict
<1>3. CASE LoseJob(s)
  BY <1>3 DEF LoseJob
<1> QED BY <1>1, <1>2, <1>3

\* An execution that goes on keeps its scan.
LEMMA GotoTyped ==
  ASSUME Typed, NEW x \in Slots, exec[x].pc # "idle",
         NEW pc \in Pcs, Goto(x, pc)
  PROVE  TypedExec'
BY DEF TypedExec, Typed, TypeOK, ExecutesScans, Goto

LEMMA RaiseTyped ==
  ASSUME Typed, NEW x \in Slots, exec[x].pc # "idle",
         NEW fatal \in BOOLEAN, Raise(x, fatal)
  PROVE  TypedExec'
<1>1. PICK pc \in Pcs :
        exec' = [exec EXCEPT ![x] = [[exec[x] EXCEPT !.fatal = fatal]
                                       EXCEPT !.pc = pc]]
  BY DEF Raise, Pcs
<1> QED
  BY <1>1 DEF TypedExec, Typed, TypeOK, ExecutesScans

LEMMA CloseAttemptTyped ==
  ASSUME Typed, NEW x \in Slots, exec[x].pc # "idle",
         NEW status \in AttemptStatuses, CloseAttempt(x, status)
  PROVE  attempts' \in [Scans -> Seq(AttemptStatuses)]
<1>1. /\ exec[x].scan \in Scans
      /\ attempts[exec[x].scan] \in Seq(AttemptStatuses)
  BY DEF Typed, TypeOK, ExecutesScans
<1>2. [attempts[exec[x].scan] EXCEPT ![exec[x].attempt] = status]
         \in Seq(AttemptStatuses)
  <2> DEFINE seq == attempts[exec[x].scan]
             n == exec[x].attempt
  <2>1. CASE n \in 1..Len(seq)
    BY <1>1, <2>1, ExceptSeq
  <2>2. CASE n \notin DOMAIN seq
    <3>1. [seq EXCEPT ![n] = status] = seq
      BY <1>1, <2>2
    <3> QED BY <1>1, <3>1
  <2> QED BY <1>1, <2>1, <2>2
<1> QED
  BY <1>1, <1>2 DEF CloseAttempt, Typed, TypeOK

LEMMA AcknowledgeTyped ==
  ASSUME Typed, NEW x \in Slots, exec[x].pc # "idle",
         NEW state \in JobStates, Acknowledge(x, state), Worker
  PROVE  Typed'
<1>1. job' \in [Scans -> JobRecords]
  BY DEF Acknowledge, Typed, TypeOK, ExecutesScans
<1>2. TypedExec'
  BY DEF TypedExec, Acknowledge, Typed, TypeOK, ExecutesScans, Idle, Pcs
<1> QED
  BY <1>1, <1>2 DEF TypedExec, Acknowledge, Worker, Typed, TypeOK

LEMMA WorkerTyped == Typed /\ Worker => Typed'
<1> SUFFICES ASSUME Typed, Worker, NEW x \in Slots,
                    \/ \E s \in Scans : Fetch(x, s)
                    \/ RouteFails(x) \/ BeginAttempt(x) \/ StartScan(x)
                    \/ CollectPasses(x) \/ CollectFails(x)
                    \/ PersistCompletion(x) \/ StatementFails(x)
                    \/ CompleteAttempt(x) \/ FailAttempt(x) \/ PersistFailure(x)
                    \/ Succeed(x) \/ Reject(x) \/ Crash(x)
             PROVE  Typed'
  BY DEF Worker
<1>w. UNCHANGED <<accepted, claims, cancelling, probes, schedule>>
  BY DEF Worker
<1>s. exec[x].pc # "idle" => exec[x].scan \in Scans
  BY DEF Typed, ExecutesScans
<1>g. ASSUME NEW pc \in Pcs, exec[x].pc # "idle", Goto(x, pc)
      PROVE  TypedExec'
  BY <1>g, GotoTyped
<1>r. ASSUME NEW fatal \in BOOLEAN, exec[x].pc # "idle", Raise(x, fatal)
      PROVE  TypedExec'
  BY <1>r, RaiseTyped
<1>p. {"start", "collect", "persist", "complete", "ackOk", "failAttempt",
       "persistFailure", "ackFail"} \subseteq Pcs
  BY DEF Pcs
<1> USE <1>w DEF Executing, TypedExec
<1>1. CASE \E s \in Scans : Fetch(x, s)
  <2>1. PICK s \in Scans : Fetch(x, s)
    BY <1>1
  <2>2. job' \in [Scans -> JobRecords]
    <3>1. job' = [job EXCEPT ![s] = [[@ EXCEPT !.state = "active"]
                                        EXCEPT !.owner = x]]
      BY <2>1 DEF Fetch
    <3>2. job[s] \in JobRecords /\ job \in [Scans -> JobRecords]
      BY DEF Typed, TypeOK
    <3>3. [[job[s] EXCEPT !.state = "active"] EXCEPT !.owner = x] \in JobRecords
      BY <3>2 DEF JobStates
    <3> QED BY <3>1, <3>2, <3>3
  <2>3. TypedExec'
    <3>1. job[s].made \in Nat
      BY DEF Typed, TypeOK
    <3> QED BY <2>1, <3>1 DEF Fetch, Typed, TypeOK, ExecutesScans, Pcs
  <2> QED BY <2>1, <2>2, <2>3 DEF Fetch, Typed, TypeOK
<1>2. CASE RouteFails(x)
  BY <1>2, <1>g, <1>p, BoundsAssumption DEF RouteFails, Typed, TypeOK
<1>3. CASE BeginAttempt(x)
  <2> DEFINE s == exec[x].scan
             n == Len(attempts[s])
             closed == IF n > 0 /\ attempts[s][n] = "running"
                         THEN [attempts[s] EXCEPT ![n] = "retrying"]
                         ELSE attempts[s]
  <2>s. s \in Scans /\ attempts[s] \in Seq(AttemptStatuses)
    BY <1>3, <1>s DEF BeginAttempt, Typed, TypeOK
  <2>1. TypedExec'
    <3>1. n \in Nat /\ exec[x].made \in Nat
      BY <2>s DEF Typed, TypeOK
    <3> QED BY <1>3, <1>p, <2>s, <3>1 DEF BeginAttempt, Typed, TypeOK, ExecutesScans
  <2>2. attempts' \in [Scans -> Seq(AttemptStatuses)]
    <3>1. closed \in Seq(AttemptStatuses)
      BY <2>s, ExceptSeq DEF AttemptStatuses
    <3>2. Append(closed, "running") \in Seq(AttemptStatuses)
      BY <3>1 DEF AttemptStatuses
    <3>3. attempts' = [attempts EXCEPT ![s] = Append(closed, "running")]
      BY <1>3 DEF BeginAttempt
    <3> QED BY <3>2, <3>3, <2>s DEF Typed, TypeOK
  <2> QED BY <1>3, <2>1, <2>2 DEF BeginAttempt, TypedExec, Typed, TypeOK
<1>4. CASE StartScan(x)
  BY <1>4, <1>g, <1>r, <1>p, <1>s
     DEF StartScan, Typed, TypeOK, ScanStatuses, Active
<1>5. CASE CollectPasses(x)
  BY <1>5, <1>g, <1>p DEF CollectPasses, Typed, TypeOK, Sites
<1>6. CASE CollectFails(x)
  BY <1>6, <1>r DEF CollectFails, Typed, TypeOK, Sites
<1>7. CASE PersistCompletion(x)
  BY <1>7, <1>g, <1>r, <1>p, <1>s
     DEF PersistCompletion, Typed, TypeOK, ScanStatuses, Terminal
<1>8. CASE StatementFails(x)
  <2>1. TypedExec'
    BY <1>8, <1>r DEF StatementFails
  <2>2. faults' \in Nat /\ UNCHANGED <<scan, dispatch, attempts, job, site>>
    BY <1>8, BoundsAssumption DEF StatementFails, Typed, TypeOK
  <2> QED BY <2>1, <2>2 DEF Typed, TypeOK
<1>9. CASE CompleteAttempt(x)
  <2>1. attempts' \in [Scans -> Seq(AttemptStatuses)]
    BY <1>9, CloseAttemptTyped DEF CompleteAttempt, Typed, TypeOK, AttemptStatuses
  <2>2. TypedExec' /\ faults' \in Nat
    BY <1>9, <1>g, <1>p, BoundsAssumption DEF CompleteAttempt, Typed, TypeOK
  <2> QED BY <1>9, <2>1, <2>2 DEF CompleteAttempt, Typed, TypeOK
<1>10. CASE FailAttempt(x)
  <2>1. attempts' \in [Scans -> Seq(AttemptStatuses)]
    <3>1. PICK status \in {"retrying", "failed"} :
            CloseAttempt(x, status) \/ UNCHANGED attempts
      BY <1>10 DEF FailAttempt
    <3>2. exec[x].pc # "idle"
      BY <1>10 DEF FailAttempt
    <3> QED BY <3>1, <3>2, CloseAttemptTyped DEF Typed, TypeOK, AttemptStatuses
  <2>2. TypedExec'
    <3>1. PICK pc \in Pcs : Goto(x, pc)
      BY <1>10, <1>p DEF FailAttempt
    <3> QED BY <1>10, <3>1, <1>g DEF FailAttempt
  <2>3. faults' \in Nat /\ UNCHANGED <<scan, dispatch, job, site>>
    BY <1>10, BoundsAssumption DEF FailAttempt, Typed, TypeOK
  <2> QED BY <2>1, <2>2, <2>3 DEF Typed, TypeOK
<1>11. CASE PersistFailure(x)
  <2>1. scan' \in [Scans -> ScanStatuses]
    BY <1>11, <1>s DEF PersistFailure, Typed, TypeOK, ScanStatuses, Terminal
  <2>2. TypedExec'
    BY <1>11, <1>g, <1>p DEF PersistFailure
  <2>3. faults' \in Nat /\ UNCHANGED <<dispatch, attempts, job, site>>
    BY <1>11, BoundsAssumption DEF PersistFailure, Typed, TypeOK
  <2> QED BY <2>1, <2>2, <2>3 DEF Typed, TypeOK
<1>12. CASE Succeed(x)
  BY <1>12, AcknowledgeTyped DEF Succeed, JobStates
<1>13. CASE Reject(x)
  BY <1>13, AcknowledgeTyped DEF Reject, JobStates
<1>14. CASE Crash(x)
  <2>1. job' \in [Scans -> JobRecords]
    <3>1. \/ job' = job
          \/ job' = [job EXCEPT ![exec[x].scan].owner = NoSlot]
      BY <1>14 DEF Crash
    <3>2. job \in [Scans -> JobRecords] /\ exec[x].scan \in Scans
      BY <1>14, <1>s DEF Crash, Typed, TypeOK
    <3> QED BY <3>1, <3>2
  <2>2. TypedExec'
    BY <1>14 DEF Crash, Typed, TypeOK, ExecutesScans, Idle, Pcs
  <2>3. faults' \in Nat /\ UNCHANGED <<scan, dispatch, attempts, site>>
    BY <1>14, BoundsAssumption DEF Crash, Typed, TypeOK
  <2> QED BY <2>1, <2>2, <2>3 DEF Typed, TypeOK
<1> QED BY <1>1, <1>2, <1>3, <1>4, <1>5, <1>6, <1>7, <1>8, <1>9, <1>10, <1>11,
           <1>12, <1>13, <1>14

LEMMA NextTyped == Typed /\ [Next]_vars => Typed'
<1> SUFFICES ASSUME Typed, [Next]_vars PROVE Typed'
  OBVIOUS
<1>1. CASE Environment
  BY <1>1, EnvironmentTyped
<1>2. CASE \E s \in Scans : CreateManual(s) \/ CreatePublic(s) \/ CreateScheduled(s)
  BY <1>2, CreateTyped
<1>3. CASE Dispatcher
  <2>1. CASE DispatcherAborts
    BY <2>1, BoundsAssumption
       DEF DispatcherAborts, Typed, TypeOK, ExecutesScans
  <2> QED BY <1>3, <2>1, ClaimTyped, ClaimStepTyped DEF Dispatcher
<1>4. CASE Reconcilers
  BY <1>4, InspectTyped, ReconcileTyped DEF Reconcilers
<1>5. CASE Worker
  BY <1>5, WorkerTyped
<1>6. CASE Queue
  BY <1>6, QueueTyped
<1>7. CASE UNCHANGED vars
  BY <1>7 DEF vars, Typed, TypeOK, ExecutesScans
<1> QED BY <1>1, <1>2, <1>3, <1>4, <1>5, <1>6, <1>7 DEF Next

LEMMA AlwaysTyped == Spec => []Typed
BY InitTyped, NextTyped, PTL DEF Spec

\* Every variable of the life of the scans keeps its type.
THEOREM TypeCorrect == Spec => []TypeOK
<1>1. Typed => TypeOK
  BY DEF Typed
<1> QED BY <1>1, AlwaysTyped, PTL

-----------------------------------------------------------------------------
(* The attempts of a scan.                                                   *)

LEMMA AttemptsStep ==
  ASSUME Typed, OneRunningAttempt, [Next]_vars
  PROVE  OneRunningAttempt'
<1> USE DEF OneRunningAttempt
<1>1. ASSUME NEW p \in probes, CloseLatestAttempt(p.scan)
      PROVE  OneRunningAttempt'
  <2>1. p.scan \in Scans
    BY DEF Typed, TypeOK, Probes
  <2>2. attempts[p.scan] \in Seq(AttemptStatuses)
    BY <2>1 DEF Typed, TypeOK
  <2> QED BY <1>1, <2>1, <2>2 DEF CloseLatestAttempt, Typed, TypeOK
<1>2. ASSUME NEW x \in Slots, BeginAttempt(x)
      PROVE  OneRunningAttempt'
  <2> DEFINE s == exec[x].scan
             n == Len(attempts[s])
             closed == IF n > 0 /\ attempts[s][n] = "running"
                         THEN [attempts[s] EXCEPT ![n] = "retrying"]
                         ELSE attempts[s]
  <2>1. s \in Scans /\ attempts[s] \in Seq(AttemptStatuses)
    BY <1>2 DEF BeginAttempt, Executing, Typed, TypeOK, ExecutesScans
  <2>2. /\ closed \in Seq(AttemptStatuses)
        /\ Len(closed) = n
        /\ \A i \in 1..n : closed[i] # "running"
    BY <2>1, ExceptSeq DEF AttemptStatuses
  <2>3. attempts' = [attempts EXCEPT ![s] = Append(closed, "running")]
    BY <1>2 DEF BeginAttempt
  <2>4. /\ Len(Append(closed, "running")) = n + 1
        /\ \A i \in 1..n : Append(closed, "running")[i] # "running"
    BY <2>2 DEF AttemptStatuses
  <2> HIDE DEF closed
  <2> QED BY <2>1, <2>3, <2>4 DEF Typed, TypeOK
<1>3. ASSUME NEW x \in Slots, exec[x].pc # "idle",
             NEW status \in AttemptStatuses \ {"running"},
             CloseAttempt(x, status)
      PROVE  OneRunningAttempt'
  <2>1. exec[x].scan \in Scans
    BY <1>3 DEF Typed, ExecutesScans
  <2>2. attempts[exec[x].scan] \in Seq(AttemptStatuses)
    BY <2>1 DEF Typed, TypeOK
  <2> QED BY <1>3, <2>1, <2>2 DEF CloseAttempt, Typed, TypeOK
<1>4. ASSUME attempts' = attempts
      PROVE  OneRunningAttempt'
  BY <1>4
<1>5. CASE Worker
  <2>1. PICK x \in Slots :
          \/ \E s \in Scans : Fetch(x, s)
          \/ RouteFails(x) \/ BeginAttempt(x) \/ StartScan(x)
          \/ CollectPasses(x) \/ CollectFails(x) \/ PersistCompletion(x)
          \/ StatementFails(x) \/ CompleteAttempt(x) \/ FailAttempt(x)
          \/ PersistFailure(x) \/ Succeed(x) \/ Reject(x) \/ Crash(x)
    BY <1>5 DEF Worker
  <2>2. CASE CompleteAttempt(x)
    BY <2>2, <1>3, <1>4 DEF CompleteAttempt, Executing, AttemptStatuses
  <2>3. CASE FailAttempt(x)
    <3>1. PICK status \in {"retrying", "failed"} :
            CloseAttempt(x, status) \/ UNCHANGED attempts
      BY <2>3 DEF FailAttempt
    <3> QED BY <3>1, <2>3, <1>3, <1>4 DEF FailAttempt, Executing, AttemptStatuses
  <2>4. CASE BeginAttempt(x)
    BY <2>4, <1>2
  <2> QED
    BY <2>1, <2>2, <2>3, <2>4, <1>4
       DEF Fetch, RouteFails, StartScan, CollectPasses, CollectFails,
           PersistCompletion, StatementFails, PersistFailure, Succeed, Reject,
           Acknowledge, Crash
<1>6. CASE Reconcilers
  BY <1>6, <1>1, <1>4
     DEF Reconcilers, InspectQueued, InspectRunning, Probe, CancelInvalid,
         CountAttempts, Reconcile, ProbeLost, RestoreDispatch, FailFinished,
         RecoverMissing
<1>7. CASE Dispatcher
  BY <1>7, <1>4
     DEF Dispatcher, ClaimSettled, ClaimDeferred, ClaimReadsInvalid,
         ClaimCancelled, ClaimTaken, Enqueue, EnqueueFails, MarkDispatched,
         MarkFails, MarkRetry, DispatcherAborts
<1>8. CASE \E s \in Scans : CreateManual(s) \/ CreatePublic(s) \/ CreateScheduled(s)
  BY <1>8, <1>4 DEF CreateManual, CreatePublic, CreateScheduled, Insert
<1> QED BY <1>4, <1>5, <1>6, <1>7, <1>8 DEF Next, Environment, Queue, vars

\* Interrupted executions may overlap their successors, yet only the newest
\* attempt of a scan can read "running".
THEOREM AttemptsCorrect == Spec => []OneRunningAttempt
<1>1. Init => OneRunningAttempt
  BY DEF Init, OneRunningAttempt
<1>2. Typed /\ OneRunningAttempt /\ [Next]_vars => OneRunningAttempt'
  BY AttemptsStep
<1> QED BY <1>1, <1>2, AlwaysTyped, PTL DEF Spec

-----------------------------------------------------------------------------
(* Scans and their dispatches.                                               *)

\* Why a late mark does no harm: a claim in flight never has a newer count
\* than its dispatch, and while it holds the dispatch at its "mark" step, the
\* queue has accepted the job it enqueued.
ClaimsFenced ==
  \A c \in claims :
    /\ scan[c.scan] # "absent"
    /\ c.count <= dispatch[c.scan].count
    /\ c.step = "mark" /\ HoldsDispatch(c) => accepted[c.scan]

DispatchInv == QueuedHasOpenDispatch /\ DispatchedWasAccepted /\ ClaimsFenced

LEMMA DispatchInit == Init => DispatchInv
BY DEF Init, DispatchInv, QueuedHasOpenDispatch, DispatchedWasAccepted,
       ClaimsFenced

\* The worker leaves the dispatches alone and never queues a scan, nor moves
\* one that is completed or cancelled.
LEMMA WorkerMoves ==
  ASSUME Typed, Worker
  PROVE  /\ UNCHANGED <<dispatch, claims, accepted>>
         /\ \A s \in Scans :
              \/ scan'[s] = scan[s]
              \/ /\ scan[s] \in {"queued", "running", "failed"}
                 /\ scan'[s] \in {"running", "completed", "failed"}
<1>1. PICK x \in Slots :
        \/ \E s \in Scans : Fetch(x, s)
        \/ RouteFails(x) \/ BeginAttempt(x) \/ StartScan(x)
        \/ CollectPasses(x) \/ CollectFails(x) \/ PersistCompletion(x)
        \/ StatementFails(x) \/ CompleteAttempt(x) \/ FailAttempt(x)
        \/ PersistFailure(x) \/ Succeed(x) \/ Reject(x) \/ Crash(x)
  BY DEF Worker
<1>2. exec[x].pc # "idle" => exec[x].scan \in Scans
  BY DEF Typed, ExecutesScans
<1>u. UNCHANGED <<claims, accepted>>
  BY DEF Worker
<1> USE DEF Typed, TypeOK, Executing
<1>3. CASE StartScan(x)
  BY <1>3, <1>2, <1>u DEF StartScan, Runnable
<1>4. CASE PersistCompletion(x)
  BY <1>4, <1>2, <1>u DEF PersistCompletion
<1>5. CASE PersistFailure(x)
  BY <1>5, <1>2, <1>u DEF PersistFailure
<1>6. CASE ~StartScan(x) /\ ~PersistCompletion(x) /\ ~PersistFailure(x)
  <2>1. UNCHANGED <<scan, dispatch>>
    BY <1>1, <1>6
       DEF Fetch, RouteFails, BeginAttempt, CollectPasses, CollectFails,
           StatementFails, CompleteAttempt, FailAttempt, Succeed, Reject,
           Acknowledge, Crash
  <2> QED BY <2>1, <1>u
<1> QED BY <1>3, <1>4, <1>5, <1>6

\* A step that gives a scan and its dispatch new statuses, and leaves the
\* dispatch held by no claim, preserves the invariant under these conditions.
LEMMA DispatchMoves ==
  ASSUME Typed, DispatchInv, NEW s \in Scans, NEW v \in ScanStatuses,
         v = "absent" => scan[s] = "absent",
         NEW status \in DispatchStatuses \ {"dispatching"},
         scan' = [scan EXCEPT ![s] = v], SetDispatch(s, status),
         claims' \subseteq claims, accepted' = accepted,
         v = "queued" => status \in OpenDispatch,
         v = "queued" /\ status = "dispatched" => accepted[s]
  PROVE  DispatchInv'
<1> USE DEF Typed, TypeOK, DispatchInv
<1>1. /\ \A t \in Scans : scan'[t] = IF t = s THEN v ELSE scan[t]
      /\ \A t \in Scans : dispatch'[t].status =
                           IF t = s THEN status ELSE dispatch[t].status
      /\ \A t \in Scans : dispatch'[t].count = dispatch[t].count
      /\ \A t \in Scans \ {s} : dispatch'[t] = dispatch[t]
  BY DEF SetDispatch
<1>2. QueuedHasOpenDispatch' /\ DispatchedWasAccepted'
  BY <1>1 DEF QueuedHasOpenDispatch, DispatchedWasAccepted
<1>3. ClaimsFenced'
  <2> SUFFICES ASSUME NEW c \in claims
               PROVE  /\ scan'[c.scan] # "absent"
                      /\ c.count <= dispatch'[c.scan].count
                      /\ c.step = "mark" /\ HoldsDispatch(c)' => accepted[c.scan]
    BY DEF ClaimsFenced, HoldsDispatch
  <2>1. /\ c.scan \in Scans /\ scan[c.scan] # "absent"
        /\ c.count <= dispatch[c.scan].count
        /\ c.step = "mark" /\ HoldsDispatch(c) => accepted[c.scan]
    BY DEF ClaimsFenced, Claims
  <2>2. CASE c.scan = s
    <3>1. dispatch'[s].status # "dispatching"
      BY <1>1
    <3> QED BY <1>1, <2>1, <2>2, <3>1 DEF HoldsDispatch
  <2>3. CASE c.scan # s
    BY <1>1, <2>1, <2>3 DEF HoldsDispatch
  <2> QED BY <2>2, <2>3
<1> QED BY <1>2, <1>3

LEMMA DispatchClaims ==
  ASSUME Typed, DispatchInv, NEW s \in Scans,
         \/ ClaimSettled(s) \/ ClaimDeferred(s) \/ ClaimReadsInvalid(s)
         \/ ClaimCancelled(s) \/ ClaimTaken(s)
  PROVE  DispatchInv'
<1> USE DEF Typed, TypeOK, DispatchInv, QueuedHasOpenDispatch,
            DispatchedWasAccepted, ClaimsFenced, HoldsDispatch, OpenDispatch,
            SetDispatch, Claims
<1>1. CASE ClaimSettled(s)
  BY <1>1 DEF ClaimSettled
<1>2. CASE ClaimDeferred(s)
  BY <1>2 DEF ClaimDeferred
<1>3. CASE ClaimReadsInvalid(s)
  BY <1>3 DEF ClaimReadsInvalid
<1>4. CASE ClaimCancelled(s)
  <2>1. /\ \A t \in Scans : scan'[t] = "queued" => t # s /\ scan[t] = "queued"
        /\ \A t \in Scans : scan'[t] = "absent" => scan[t] = "absent"
        /\ \A t \in Scans \ {s} : dispatch'[t] = dispatch[t]
        /\ dispatch'[s] = [dispatch[s] EXCEPT !.status = "cancelled"]
        /\ UNCHANGED <<claims, accepted>>
    BY <1>4 DEF ClaimCancelled
  <2>2. QueuedHasOpenDispatch' /\ DispatchedWasAccepted'
    BY <2>1
  <2>3. ClaimsFenced'
    <3> SUFFICES ASSUME NEW c \in claims
                 PROVE  /\ scan'[c.scan] # "absent"
                        /\ c.count <= dispatch'[c.scan].count
                        /\ c.step = "mark" /\ HoldsDispatch(c)'
                             => accepted[c.scan]
      BY <2>1
    <3>1. /\ c.scan \in Scans /\ scan[c.scan] # "absent"
          /\ c.count <= dispatch[c.scan].count
          /\ c.step = "mark" /\ HoldsDispatch(c) => accepted[c.scan]
      OBVIOUS
    <3>2. scan'[c.scan] # "absent"
      BY <2>1, <3>1
    <3>3. CASE c.scan = s
      <4>1. dispatch'[s].status = "cancelled" /\ dispatch'[s].count = dispatch[s].count
        BY <2>1
      <4> QED BY <3>1, <3>2, <3>3, <4>1
    <3>4. CASE c.scan # s
      BY <2>1, <3>1, <3>2, <3>4
    <3> QED BY <3>3, <3>4
  <2> QED BY <2>2, <2>3
<1>5. CASE ClaimTaken(s)
  BY <1>5 DEF ClaimTaken
<1> QED BY <1>1, <1>2, <1>3, <1>4, <1>5

LEMMA DispatchMarks ==
  ASSUME Typed, DispatchInv, NEW c \in claims,
         \/ Enqueue(c) \/ EnqueueFails(c)
         \/ MarkDispatched(c) \/ MarkFails(c) \/ MarkRetry(c)
  PROVE  DispatchInv'
<1> USE DEF Typed, TypeOK, DispatchInv, QueuedHasOpenDispatch,
            DispatchedWasAccepted, ClaimsFenced, HoldsDispatch, OpenDispatch,
            Claims, ClaimGoes, ClaimEnds
<1>m. ASSUME NEW status \in {"pending", "dispatched"},
             SetDispatch(c.scan, status), ClaimEnds(c), accepted' = accepted,
             scan' = scan, status = "dispatched" => accepted[c.scan]
      PROVE  DispatchInv'
  <2>1. /\ c.scan \in Scans /\ scan[c.scan] # "absent"
        /\ scan[c.scan] \in ScanStatuses
        /\ scan' = [scan EXCEPT ![c.scan] = scan[c.scan]]
    BY <1>m
  <2>2. status \in OpenDispatch /\ status \in DispatchStatuses \ {"dispatching"}
    BY DEF DispatchStatuses
  <2> HIDE DEF DispatchInv, QueuedHasOpenDispatch,
               DispatchedWasAccepted, ClaimsFenced, Typed, TypeOK
  <2> QED BY <1>m, <2>1, <2>2, DispatchMoves
<1>n. ASSUME ClaimEnds(c), UNCHANGED <<scan, dispatch, accepted>>
      PROVE  DispatchInv'
  BY <1>n
<1>1. CASE Enqueue(c)
  BY <1>1 DEF Enqueue
<1>2. CASE EnqueueFails(c)
  <2>1. /\ UNCHANGED <<scan, dispatch>>
        /\ \A s \in Scans : accepted[s] => accepted'[s]
        /\ \A d \in claims' : d \in claims \/ d = [c EXCEPT !.step = "retry"]
    BY <1>2 DEF EnqueueFails
  <2>2. QueuedHasOpenDispatch' /\ DispatchedWasAccepted'
    BY <2>1
  <2>3. ClaimsFenced'
    <3> SUFFICES ASSUME NEW d \in claims'
                 PROVE  /\ scan[d.scan] # "absent"
                        /\ d.count <= dispatch[d.scan].count
                        /\ d.step = "mark" /\ HoldsDispatch(d) => accepted'[d.scan]
      BY <2>1
    <3>1. CASE d \in claims
      BY <2>1, <3>1
    <3>2. CASE d = [c EXCEPT !.step = "retry"]
      BY <3>2
    <3> QED BY <2>1, <3>1, <3>2
  <2> QED BY <2>2, <2>3
<1>3. CASE MarkDispatched(c)
  <2>1. CASE HoldsDispatch(c)
    BY <1>3, <1>m, <2>1 DEF MarkDispatched, DispatchStatuses
  <2>2. CASE ~HoldsDispatch(c)
    BY <1>3, <1>n, <2>2 DEF MarkDispatched
  <2> QED BY <2>1, <2>2
<1>4. CASE MarkFails(c)
  BY <1>4 DEF MarkFails
<1>5. CASE MarkRetry(c)
  <2>1. CASE HoldsDispatch(c)
    BY <1>5, <1>m, <2>1 DEF MarkRetry, DispatchStatuses
  <2>2. CASE ~HoldsDispatch(c)
    BY <1>5, <1>n, <2>2 DEF MarkRetry
  <2> QED BY <2>1, <2>2
<1> QED BY <1>1, <1>2, <1>3, <1>4, <1>5

LEMMA DispatchReconciles ==
  ASSUME Typed, DispatchInv, Reconcilers
  PROVE  DispatchInv'
<1> USE DEF Typed, TypeOK, DispatchInv, QueuedHasOpenDispatch,
            DispatchedWasAccepted, ClaimsFenced, HoldsDispatch, OpenDispatch,
            Claims
<1>1. ASSUME NEW s \in Scans,
             InspectQueued(s) \/ InspectRunning(s) \/ CancelInvalid(s)
      PROVE  DispatchInv'
  BY <1>1 DEF InspectQueued, InspectRunning, Probe, CancelInvalid
<1>2. ASSUME NEW p \in probes, Reconcile(p)
      PROVE  DispatchInv'
  <2>p. p.scan \in Scans /\ scan[p.scan] \in ScanStatuses
    BY DEF Probes
  <2>u. UNCHANGED <<accepted, claims>>
    BY <1>2 DEF Reconcile
  <2>n. CASE UNCHANGED <<scan, dispatch>>
    BY <2>u, <2>n
  <2>m. ASSUME NEW v \in {"queued", "failed"}, NEW status \in {"pending", "failed"},
               v = "queued" => status = "pending",
               scan' = [scan EXCEPT ![p.scan] = v], SetDispatch(p.scan, status)
        PROVE  DispatchInv'
    <3>1. v \in ScanStatuses /\ v # "absent"
          /\ status \in DispatchStatuses \ {"dispatching"}
      BY DEF ScanStatuses, Active, Terminal, DispatchStatuses
    <3>2. v = "queued" => status \in OpenDispatch
      BY <2>m
    <3> HIDE DEF DispatchInv, QueuedHasOpenDispatch,
                 DispatchedWasAccepted, ClaimsFenced, Typed, TypeOK
    <3> QED BY <2>m, <2>p, <2>u, <3>1, <3>2, DispatchMoves
  <2>1. CASE RestoreDispatch(p) /\ dispatch[p.scan].status = "dispatched"
    <3>1. /\ scan' = [scan EXCEPT ![p.scan] = scan[p.scan]]
          /\ SetDispatch(p.scan, "pending")
      BY <2>1, <2>p DEF RestoreDispatch
    <3>2. "pending" \in OpenDispatch /\ "pending" \in DispatchStatuses
      BY DEF DispatchStatuses
    <3> HIDE DEF DispatchInv, QueuedHasOpenDispatch,
                 DispatchedWasAccepted, ClaimsFenced, Typed, TypeOK
    <3> QED BY <2>p, <2>u, <3>1, <3>2, DispatchMoves
  <2>2. CASE FailFinished(p) /\ scan[p.scan] = "running"
    BY <2>2, <2>m DEF FailFinished, FailStale
  <2>3. CASE RecoverMissing(p) /\ scan[p.scan] = "running"
    BY <2>3, <2>m DEF RecoverMissing, FailStale, Requeue
  <2> QED
    BY <1>2, <2>n, <2>1, <2>2, <2>3
       DEF Reconcile, RestoreDispatch, FailFinished, RecoverMissing
<1>3. ASSUME NEW p \in probes, CountAttempts(p) \/ ProbeLost(p)
      PROVE  DispatchInv'
  BY <1>3 DEF CountAttempts, ProbeLost
<1> QED BY <1>1, <1>2, <1>3 DEF Reconcilers

LEMMA DispatchStep == Typed /\ DispatchInv /\ [Next]_vars => DispatchInv'
<1> SUFFICES ASSUME Typed, DispatchInv, [Next]_vars PROVE DispatchInv'
  OBVIOUS
<1> USE DEF DispatchInv, QueuedHasOpenDispatch,
            DispatchedWasAccepted, ClaimsFenced, HoldsDispatch
<1>1. CASE UNCHANGED <<scan, dispatch, accepted, claims>>
  BY <1>1
<1>2. CASE \E s \in Scans : CreateManual(s) \/ CreatePublic(s) \/ CreateScheduled(s)
  <2>1. PICK s \in Scans : Insert(s)
    BY <1>2 DEF CreateManual, CreatePublic, CreateScheduled
  <2> USE DEF Typed, TypeOK
  <2>2. /\ \A t \in Scans : scan'[t] = IF t = s THEN "queued" ELSE scan[t]
        /\ dispatch'[s].status = "pending"
        /\ \A t \in Scans \ {s} : dispatch'[t] = dispatch[t]
        /\ UNCHANGED <<claims, accepted>>
    BY <2>1 DEF Insert
  <2>3. \A c \in claims : c.scan \in Scans /\ c.scan # s
    BY <2>1 DEF Claims, Insert
  <2>4. QueuedHasOpenDispatch' /\ DispatchedWasAccepted'
    BY <2>2 DEF OpenDispatch
  <2>5. ClaimsFenced'
    BY <2>2, <2>3
  <2> QED BY <2>4, <2>5
<1>3. CASE DispatcherAborts
  BY <1>3 DEF DispatcherAborts
<1>4. CASE Worker
  <2>1. \A c \in claims : c.scan \in Scans
    BY DEF Typed, TypeOK, Claims
  <2> QED BY <1>4, <2>1, WorkerMoves
<1> QED
  BY <1>1, <1>2, <1>3, <1>4, DispatchClaims, DispatchMarks, DispatchReconciles
     DEF Next, Environment, Dispatcher, Queue, vars

\* No order of claims, marks, repairs, failures and executions leaves a queued
\* scan without an open dispatch.
THEOREM QueuedScansAreDispatched == Spec => []QueuedHasOpenDispatch
<1>1. DispatchInv => QueuedHasOpenDispatch
  BY DEF DispatchInv
<1> QED BY <1>1, DispatchInit, DispatchStep, AlwaysTyped, PTL DEF Spec

\* The attempt count fences late marks: a queued scan reads "dispatched" only
\* if the queue accepted the job of its latest claim.
THEOREM DispatchesAreAccepted == Spec => []DispatchedWasAccepted
<1>1. DispatchInv => DispatchedWasAccepted
  BY DEF DispatchInv
<1> QED BY <1>1, DispatchInit, DispatchStep, AlwaysTyped, PTL DEF Spec

-----------------------------------------------------------------------------
(* The scan rows implement ScanContract.                                     *)

LEMMA ContractStep ==
  ASSUME Typed, [Next]_vars
  PROVE  [Contract!Next]_scan
<1> USE DEF Typed, TypeOK, Contract!Next, Contract!OthersInactive,
            Contract!Becomes, Contract!Active, Active
<1>0. CASE UNCHANGED scan
  BY <1>0
<1>1. CASE \E s \in Scans : CreateManual(s) \/ CreatePublic(s) \/ CreateScheduled(s)
  BY <1>1 DEF CreateManual, CreatePublic, CreateScheduled, Insert, NoActiveScan,
              Contract!Request
<1>2. CASE Dispatcher
  <2>1. ASSUME NEW s \in Scans, ClaimCancelled(s)
        PROVE  UNCHANGED scan \/ Contract!Cancel(s)
    BY <2>1 DEF ClaimCancelled, Contract!Cancel
  <2>2. CASE \A s \in Scans : ~ClaimCancelled(s)
    <3>1. UNCHANGED scan
      BY <1>2, <2>2
         DEF Dispatcher, ClaimSettled, ClaimDeferred, ClaimReadsInvalid,
             ClaimTaken, Enqueue, EnqueueFails, MarkDispatched, MarkFails,
             MarkRetry, DispatcherAborts
    <3> QED BY <3>1
  <2> QED BY <2>1, <2>2
<1>3. CASE Reconcilers
  <2>1. ASSUME NEW s \in Scans, CancelInvalid(s)
        PROVE  Contract!Cancel(s)
    BY <2>1 DEF CancelInvalid, Contract!Cancel
  <2>2. ASSUME NEW s \in Scans, InspectQueued(s) \/ InspectRunning(s)
        PROVE  UNCHANGED scan
    BY <2>2 DEF InspectQueued, InspectRunning, Probe
  <2>3. ASSUME NEW p \in probes, Reconcile(p)
        PROVE  \/ UNCHANGED scan
               \/ Contract!Fail(p.scan) \/ Contract!Requeue(p.scan)
    BY <2>3 DEF Reconcile, RestoreDispatch, FailFinished, RecoverMissing,
                FailStale, Requeue, Contract!Fail, Contract!Requeue
  <2>4. ASSUME NEW p \in probes, CountAttempts(p) \/ ProbeLost(p)
        PROVE  UNCHANGED scan
    BY <2>4 DEF CountAttempts, ProbeLost
  <2>5. \A p \in probes : p.scan \in Scans
    BY DEF Probes
  <2> QED BY <1>3, <2>1, <2>2, <2>3, <2>4, <2>5 DEF Reconcilers
<1>4. CASE Worker
  <2>1. PICK x \in Slots :
          \/ \E s \in Scans : Fetch(x, s)
          \/ RouteFails(x) \/ BeginAttempt(x) \/ StartScan(x)
          \/ CollectPasses(x) \/ CollectFails(x) \/ PersistCompletion(x)
          \/ StatementFails(x) \/ CompleteAttempt(x) \/ FailAttempt(x)
          \/ PersistFailure(x) \/ Succeed(x) \/ Reject(x) \/ Crash(x)
    BY <1>4 DEF Worker
  <2>2. exec[x].pc # "idle" => exec[x].scan \in Scans
    BY DEF ExecutesScans
  <2>3. ASSUME StartScan(x)
        PROVE  UNCHANGED scan \/ Contract!Run(exec[x].scan)
    <3>1. exec[x].scan \in Scans /\ scan \in [Scans -> ScanStatuses]
      BY <2>3, <2>2 DEF StartScan, Executing
    <3>2. CASE UNCHANGED scan
      BY <3>2
    <3>3. CASE /\ Runnable(exec[x].scan)
               /\ \A t \in Scans \ {exec[x].scan} : scan[t] \notin Active
               /\ scan' = [scan EXCEPT ![exec[x].scan] = "running"]
      BY <3>1, <3>3 DEF Runnable, Contract!Run
    <3> QED BY <2>3, <3>2, <3>3 DEF StartScan
  <2>4. ASSUME PersistCompletion(x)
        PROVE  UNCHANGED scan \/ Contract!Complete(exec[x].scan)
    BY <2>4, <2>2 DEF PersistCompletion, Executing, Contract!Complete
  <2>5. ASSUME PersistFailure(x)
        PROVE  UNCHANGED scan \/ Contract!Fail(exec[x].scan)
    BY <2>5, <2>2 DEF PersistFailure, Executing, Contract!Fail
  <2>6. ASSUME ~StartScan(x), ~PersistCompletion(x), ~PersistFailure(x)
        PROVE  UNCHANGED scan
    BY <2>1, <2>6
       DEF Fetch, RouteFails, BeginAttempt, CollectPasses, CollectFails,
           StatementFails, CompleteAttempt, FailAttempt, Succeed, Reject,
           Acknowledge, Crash
  <2>7. StartScan(x) \/ PersistCompletion(x) \/ PersistFailure(x)
          => exec[x].scan \in Scans
    BY <2>2 DEF StartScan, PersistCompletion, PersistFailure, Executing
  <2> QED BY <2>3, <2>4, <2>5, <2>6, <2>7
<1> QED
  BY <1>0, <1>1, <1>2, <1>3, <1>4 DEF Next, Environment, Queue, vars

\* Whatever the order of claims, executions, repairs and failures, the scan
\* rows of a site only move as ScanContract says: one active scan at a time,
\* completed and cancelled for good.
THEOREM LifecycleImplementsContract == Spec => ImplementsContract
<1>1. Init => Contract!Init
  BY DEF Init, Contract!Init
<1>2. Typed /\ [Next]_vars => [Contract!Next]_scan
  BY ContractStep
<1> QED
  BY <1>1, <1>2, AlwaysTyped, PTL DEF Spec, ImplementsContract, Contract!Spec
==============================================================================
