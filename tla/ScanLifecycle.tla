---------------------------- MODULE ScanLifecycle ----------------------------
(***************************************************************************)
(* The life of the V2 scans of one site (manual and scheduled monitoring   *)
(* scans, public audits) from the row that requests one to its final       *)
(* status.  The actors share a Postgres database and a BullMQ queue, and   *)
(* nothing makes a step in one atomic with a step in the other:            *)
(*                                                                         *)
(*   the web application and the scheduler     insert scans and dispatches *)
(*   the dispatch coordinator (scan-dispatch)  claims a dispatch, enqueues *)
(*                                             the job, marks the dispatch *)
(*   the reconcilers                           repair what the others left *)
(*   the worker (index.ts)                     runs the jobs, in Slots     *)
(*   BullMQ                                    retries, stalls, evicts     *)
(*                                                                         *)
(* One database transaction is one action.  Leases, due times and the      *)
(* fifteen minutes of a stale scan may end at any moment: a timed guard is *)
(* a choice.  Every failure the environment may inject costs one of        *)
(* MaxFaults: a statement that errors, a lost answer, a crash, a stall.    *)
(***************************************************************************)
EXTENDS Naturals, Sequences, FiniteSets

CONSTANTS
  Scans,        \* scan identifiers, all of the same site
  Kind,         \* what each scan is: "manual", "scheduled" or "public"
  Slots,        \* places of the workers where a job can execute
  MaxAttempts,  \* BullMQ executions of a job (3 in index.ts)
  MaxStalled,   \* stalls BullMQ forgives a job (maxStalledCount, 2)
  MaxRecovery,  \* MAX_STALE_RECOVERY_ATTEMPTS (5)
  MaxClaims,    \* bound: dispatcher claims in flight at once
  MaxProbes,    \* bound: queue inspections in flight at once
  MaxFaults,    \* bound: failures of the environment in one behaviour
  SiteValues,   \* bound: the values of `site` a behaviour may move to
  NoScan,       \* not a scan: what an idle slot works on
  NoSlot        \* not a slot: the owner of a job nobody holds

Kinds == {"manual", "scheduled", "public"}

ASSUME KindAssumption == Kind \in [Scans -> Kinds]
ASSUME BoundsAssumption ==
  /\ MaxAttempts \in Nat /\ MaxStalled \in Nat /\ MaxRecovery \in Nat
  /\ MaxClaims \in Nat /\ MaxProbes \in Nat /\ MaxFaults \in Nat
  /\ SiteValues \subseteq {"pending", "current", "stale", "invalid", "paused"}
ASSUME NullsAssumption == NoScan \notin Scans /\ NoSlot \notin Slots

VARIABLES
  scan,      \* scans.status of each scan, "absent" before its insert
  dispatch,  \* its scan_dispatches row: status and attemptCount
  accepted,  \* history: the queue took the scan's job since the last claim
  attempts,  \* its scan_attempts rows in attemptNumber order, by status
  job,       \* BullMQ's job whose jobId is the scan
  claims,    \* claims the dispatchers hold between claim and mark
  cancelling, \* scans whose dispatch row a claim holds locked, to cancel it
  probes,    \* "this scan's job is gone" answers not yet acted upon
  exec,      \* what each slot is executing
  site,      \* eligibility of the site: see Sites
  schedule,  \* whether the site's weekly schedule is enabled
  faults     \* failures injected so far

jobVars  == <<job, exec>>
siteVars == <<site, schedule>>
vars == <<scan, dispatch, accepted, attempts, job, claims, cancelling, probes,
          exec, site, schedule, faults>>

Active    == {"queued", "running"}
Terminal  == {"completed", "failed", "cancelled"}
ScanStatuses == {"absent"} \union Active \union Terminal
OpenDispatch == {"pending", "dispatching", "dispatched"}
DispatchStatuses == {"none", "cancelled", "failed"} \union OpenDispatch
AttemptStatuses == {"running", "retrying", "completed", "failed"}
JobStates == {"missing", "waiting", "active", "completed", "failed"}
\* "pending": not verified.  "current", "stale": active, with a proof of
\* ownership that is valid or expired.  "invalid": active, proof revoked.
Sites == {"pending", "current", "stale", "invalid", "paused"}

Pcs == {"idle", "begin", "start", "collect", "persist", "complete",
        "ackOk", "failAttempt", "persistFailure", "ackFail"}
Idle == [pc |-> "idle", scan |-> NoScan, attempt |-> 0, made |-> 0,
         fatal |-> FALSE]
NoJob == [state |-> "missing", made |-> 0, stalled |-> 0, owner |-> NoSlot]

JobRecords == [state : JobStates, made : Nat, stalled : Nat,
               owner : Slots \union {NoSlot}]
ExecRecords == [pc : Pcs, scan : Scans \union {NoScan}, attempt : Nat,
                made : Nat, fatal : BOOLEAN]
DispatchRecords == [status : DispatchStatuses, count : Nat]
Claims == [scan : Scans, count : Nat, step : {"enqueue", "mark", "retry"}]
Probes == [scan : Scans,
           verdict : {"restore", "finished", "missing", "recover", "exhausted"}]

TypeOK ==
  /\ scan \in [Scans -> ScanStatuses]
  /\ dispatch \in [Scans -> DispatchRecords]
  /\ accepted \in [Scans -> BOOLEAN]
  /\ attempts \in [Scans -> Seq(AttemptStatuses)]
  /\ job \in [Scans -> JobRecords]
  /\ claims \in SUBSET Claims
  /\ cancelling \subseteq Scans
  /\ probes \in SUBSET Probes
  /\ exec \in [Slots -> ExecRecords]
  /\ site \in Sites
  /\ schedule \in BOOLEAN
  /\ faults \in Nat

Init ==
  /\ scan = [s \in Scans |-> "absent"]
  /\ dispatch = [s \in Scans |-> [status |-> "none", count |-> 0]]
  /\ accepted = [s \in Scans |-> FALSE]
  /\ attempts = [s \in Scans |-> <<>>]
  /\ job = [s \in Scans |-> NoJob]
  /\ claims = {}
  /\ cancelling = {}
  /\ probes = {}
  /\ exec = [x \in Slots |-> Idle]
  /\ site \in {"pending", "current"} \intersect SiteValues
  /\ schedule = (site = "current")
  /\ faults = 0

Fault == faults < MaxFaults /\ faults' = faults + 1
NoFault == UNCHANGED faults

-----------------------------------------------------------------------------
(* The site and its schedule, written by the web application, by ownership  *)
(* refreshes and by the operator.                                           *)

SiteVerified ==
  /\ site \in {"pending", "stale", "invalid"}
  /\ site' = "current"
  /\ UNCHANGED schedule

ProofExpires == site = "current" /\ site' = "stale" /\ UNCHANGED schedule

\* ensureSiteOwnershipProof on a stale proof: the TXT record still matches,
\* or it does not; when DNS does not answer nothing changes.
ProofRefreshed ==
  /\ site = "stale"
  /\ site' \in {"current", "invalid"}
  /\ UNCHANGED schedule

\* A forced re-check (before a Deep run) revokes a proof that is current.
ProofRevoked == site = "current" /\ site' = "invalid" /\ UNCHANGED schedule

SitePaused ==
  site \notin {"paused", "pending"} /\ site' = "paused" /\ UNCHANGED schedule

\* Enabling needs a proof that was current when checked, before the upsert.
ScheduleSet ==
  /\ \E s \in Scans : Kind[s] = "scheduled"
  /\ schedule' = ~schedule
  /\ schedule' => site # "pending"
  /\ UNCHANGED site

Environment ==
  /\ \/ SiteVerified \/ ProofExpires \/ ProofRefreshed \/ ProofRevoked
     \/ SitePaused \/ ScheduleSet
  /\ site' \in SiteValues
  /\ UNCHANGED <<scan, dispatch, accepted, attempts, job, claims, cancelling,
                 probes, exec, faults>>

-----------------------------------------------------------------------------
(* Creation.  The partial unique index scans_site_active_unique admits one   *)
(* queued or running scan per site; a conflicting insert changes nothing.    *)

NoActiveScan == \A t \in Scans : scan[t] \notin Active

Insert(s) ==
  /\ scan[s] = "absent"
  /\ NoActiveScan
  /\ scan' = [scan EXCEPT ![s] = "queued"]
  /\ dispatch' = [dispatch EXCEPT ![s] = [status |-> "pending", count |-> 0]]
  /\ UNCHANGED <<accepted, attempts, job, claims, cancelling, probes, exec,
                 site, schedule, faults>>

\* The web application checks the proof BEFORE its transaction: by the time
\* the insert commits the site may have left "current" (never for "pending").
CreateManual(s) == Kind[s] = "manual" /\ site # "pending" /\ Insert(s)

\* Likewise, a public audit is refused on a site that is paused when read.
CreatePublic(s) == Kind[s] = "public" /\ Insert(s)

\* claimDueScheduledScans reads site and schedule in its own transaction.
CreateScheduled(s) ==
  Kind[s] = "scheduled" /\ schedule /\ site = "current" /\ Insert(s)

-----------------------------------------------------------------------------
(* The dispatch coordinator.  A claim is one transaction.  Its select locks  *)
(* the dispatch rows and skips those another claim holds; the scan it only   *)
(* reads.  It settles a dispatch whose scan moved on, defers one whose proof *)
(* is stale, cancels one whose context is invalid, or takes it.              *)
(* Settling, deferring and taking write nothing but the locked row, so the   *)
(* read and the write are one action.  Cancelling also writes the scan, and  *)
(* a worker may have started it since the select: two actions.               *)

\* A "dispatching" row is due again when its lease ends; while the claim that
\* took the lease is still in flight, that is a dispatcher gone slow.
Claimable(s) ==
  /\ s \notin cancelling
  /\ \/ dispatch[s].status = "pending" /\ NoFault
     \/ /\ dispatch[s].status = "dispatching"
        /\ IF \E c \in claims : c.scan = s /\ c.count = dispatch[s].count
             THEN Fault ELSE NoFault

SetDispatch(s, status) == dispatch' = [dispatch EXCEPT ![s].status = status]

ProofToRefresh(s) == Kind[s] # "public" /\ site = "stale"

ValidToDispatch(s) ==
  /\ IF Kind[s] = "public" THEN site # "paused" ELSE site = "current"
  /\ Kind[s] = "scheduled" => schedule

\* Mutant: only cancelled scans are settled.
ClaimSettledWhenCancelled(s) ==
  /\ Claimable(s)
  /\ scan[s] = "cancelled"
  /\ SetDispatch(s, "cancelled")
  /\ UNCHANGED <<scan, accepted, attempts, job, claims, cancelling, probes,
                 exec, site, schedule>>

ClaimSettled(s) ==
  /\ Claimable(s)
  /\ scan[s] # "queued"
  /\ SetDispatch(s, IF scan[s] = "cancelled" THEN "cancelled" ELSE "dispatched")
  /\ UNCHANGED <<scan, accepted, attempts, job, claims, cancelling, probes,
                 exec, site, schedule>>

ClaimDeferred(s) ==
  /\ Claimable(s)
  /\ scan[s] = "queued"
  /\ ProofToRefresh(s)
  /\ SetDispatch(s, "pending")
  /\ UNCHANGED <<scan, accepted, attempts, job, claims, cancelling, probes,
                 exec, site, schedule>>

\* The select of a claim that will cancel: the dispatch row is locked, the
\* scan was queued and its context invalid when read.
ClaimReadsInvalid(s) ==
  /\ Claimable(s)
  /\ scan[s] = "queued"
  /\ ~ProofToRefresh(s)
  /\ ~ValidToDispatch(s)
  /\ cancelling' = cancelling \union {s}
  /\ UNCHANGED <<scan, dispatch, accepted, attempts, job, claims, probes, exec,
                 site, schedule>>

\* Mutant: the dispatch is cancelled and the scan is forgotten.
ClaimCancelledAlone(s) ==
  /\ s \in cancelling
  /\ SetDispatch(s, "cancelled")
  /\ cancelling' = cancelling \ {s}
  /\ NoFault
  /\ UNCHANGED <<scan, accepted, attempts, job, claims, probes, exec, site,
                 schedule>>

\* The scan is cancelled if it still waits, the dispatch in any case: a scan
\* that a worker started in between runs on with a cancelled dispatch.
ClaimCancelled(s) ==
  /\ s \in cancelling
  /\ scan' = IF scan[s] = "queued" THEN [scan EXCEPT ![s] = "cancelled"] ELSE scan
  /\ SetDispatch(s, "cancelled")
  /\ cancelling' = cancelling \ {s}
  /\ NoFault
  /\ UNCHANGED <<accepted, attempts, job, claims, probes, exec, site, schedule>>

ClaimTaken(s) ==
  /\ Claimable(s)
  /\ scan[s] = "queued"
  /\ ~ProofToRefresh(s)
  /\ ValidToDispatch(s)
  /\ Cardinality(claims) < MaxClaims
  /\ dispatch' = [dispatch EXCEPT ![s] = [status |-> "dispatching",
                                          count |-> dispatch[s].count + 1]]
  /\ accepted' = [accepted EXCEPT ![s] = FALSE]
  /\ claims' = claims \union
       {[scan |-> s, count |-> dispatch[s].count + 1, step |-> "enqueue"]}
  /\ UNCHANGED <<scan, attempts, job, cancelling, probes, exec, site,
                 schedule>>

\* The claim moves on to another step of dispatchDueScanJobs.
ClaimGoes(c, step) == claims' = (claims \ {c}) \union {[c EXCEPT !.step = step]}
ClaimEnds(c) == claims' = claims \ {c}

\* scanQueue.add with jobId = scanId: BullMQ ignores the id of a job it has.
Add(s) == job' = IF job[s].state = "missing"
                   THEN [job EXCEPT ![s] = [NoJob EXCEPT !.state = "waiting"]]
                   ELSE job

Enqueue(c) ==
  /\ c.step = "enqueue"
  /\ Add(c.scan)
  /\ accepted' = [accepted EXCEPT ![c.scan] = TRUE]
  /\ ClaimGoes(c, "mark")
  /\ NoFault
  /\ UNCHANGED <<scan, dispatch, attempts, cancelling, probes, exec, site,
                 schedule>>

\* The add fails, or the queue takes the job and its answer is lost.
EnqueueFails(c) ==
  /\ c.step = "enqueue"
  /\ Fault
  /\ \/ UNCHANGED <<job, accepted>>
     \/ Add(c.scan) /\ accepted' = [accepted EXCEPT ![c.scan] = TRUE]
  /\ ClaimGoes(c, "retry")
  /\ UNCHANGED <<scan, dispatch, attempts, cancelling, probes, exec, site,
                 schedule>>

\* Mutant: any claim of the scan may mark the dispatch.
HoldsAnyDispatch(c) == dispatch[c.scan].status = "dispatching"

\* The fence of both marks: the row is still the one this claim took.
HoldsDispatch(c) ==
  dispatch[c.scan] = [status |-> "dispatching", count |-> c.count]

\* A write of a dispatch row waits for the claim that holds it locked.
Unlocked(s) == s \notin cancelling

MarkDispatched(c) ==
  /\ c.step = "mark"
  /\ IF HoldsDispatch(c)
       THEN Unlocked(c.scan) /\ SetDispatch(c.scan, "dispatched")
       ELSE UNCHANGED dispatch
  /\ ClaimEnds(c)
  /\ NoFault
  /\ UNCHANGED <<scan, accepted, attempts, job, cancelling, probes, exec, site,
                 schedule>>

MarkFails(c) ==
  /\ c.step = "mark"
  /\ Fault
  /\ ClaimGoes(c, "retry")
  /\ UNCHANGED <<scan, dispatch, accepted, attempts, job, cancelling, probes,
                 exec, site, schedule>>

MarkRetry(c) ==
  /\ c.step = "retry"
  /\ IF HoldsDispatch(c)
       THEN Unlocked(c.scan) /\ SetDispatch(c.scan, "pending")
       ELSE UNCHANGED dispatch
  /\ ClaimEnds(c)
  /\ NoFault
  /\ UNCHANGED <<scan, accepted, attempts, job, cancelling, probes, exec, site,
                 schedule>>

\* A dispatcher dies, or its tick throws from markScanDispatchRetry: every
\* claim of that batch is dropped and waits for its lease to end; a transaction
\* that is open is rolled back.
DispatcherAborts ==
  /\ Fault
  /\ claims' \in SUBSET claims
  /\ cancelling' \in SUBSET cancelling
  /\ <<claims, cancelling>>' # <<claims, cancelling>>
  /\ UNCHANGED <<scan, dispatch, accepted, attempts, job, probes, exec, site,
                 schedule>>

Dispatcher ==
  \/ \E s \in Scans : \/ ClaimSettled(s) \/ ClaimDeferred(s)
                      \/ ClaimReadsInvalid(s) \/ ClaimCancelled(s)
                      \/ ClaimTaken(s)
  \/ \E c \in claims : \/ Enqueue(c) \/ EnqueueFails(c)
                       \/ MarkDispatched(c) \/ MarkFails(c) \/ MarkRetry(c)
  \/ DispatcherAborts

-----------------------------------------------------------------------------
(* The reconcilers.  Each reads the database, asks BullMQ, and only then     *)
(* writes: the answer may be old when it is acted upon.                      *)

Probe(s, verdict) ==
  /\ Cardinality(probes) < MaxProbes
  /\ probes' = probes \union {[scan |-> s, verdict |-> verdict]}
  /\ UNCHANGED <<scan, dispatch, accepted, attempts, job, claims, cancelling,
                 exec, site, schedule, faults>>

\* reconcileQueuedScanDispatches: any job, finished or not, counts as present.
InspectQueued(s) ==
  /\ scan[s] = "queued" /\ dispatch[s].status = "dispatched"
  /\ job[s].state = "missing"
  /\ Probe(s, "restore")

\* recoverOrphanedRunningScans: a job waiting or active counts as present.
InspectRunning(s) ==
  /\ scan[s] = "running"
  /\ \/ job[s].state = "missing" /\ Probe(s, "missing")
     \/ job[s].state \in {"completed", "failed"} /\ Probe(s, "finished")

\* Mutant: the dispatch is given the status of the scan.
RestoreDispatchAsScan(p) ==
  /\ p.verdict = "restore"
  /\ IF dispatch[p.scan].status = "dispatched"
       THEN SetDispatch(p.scan, "queued") ELSE UNCHANGED dispatch
  /\ UNCHANGED <<scan, attempts>>

RestoreDispatch(p) ==
  /\ p.verdict = "restore"
  /\ IF dispatch[p.scan].status = "dispatched"
       THEN SetDispatch(p.scan, "pending") ELSE UNCHANGED dispatch
  /\ UNCHANGED <<scan, attempts>>

CloseLatestAttempt(s) ==
  attempts' = IF attempts[s] # <<>>
                /\ attempts[s][Len(attempts[s])] \in {"running", "retrying"}
              THEN [attempts EXCEPT ![s][Len(attempts[s])] = "failed"]
              ELSE attempts

FailStale(s) ==
  /\ Unlocked(s)
  /\ scan' = [scan EXCEPT ![s] = "failed"]
  /\ SetDispatch(s, "failed")

\* reconcileStaleV2TerminalScan
FailFinished(p) ==
  /\ p.verdict = "finished"
  /\ IF scan[p.scan] = "running"
       THEN FailStale(p.scan) /\ CloseLatestAttempt(p.scan)
       ELSE UNCHANGED <<scan, dispatch, attempts>>

\* The job is gone.  How often the scan was tried is counted before the
\* transaction that acts on it: give up after MaxRecovery attempts, or start
\* over.
CountAttempts(p) ==
  /\ p.verdict = "missing"
  /\ probes' = (probes \ {p}) \union
       {[p EXCEPT !.verdict = IF Len(attempts[p.scan]) >= MaxRecovery
                                THEN "exhausted" ELSE "recover"]}
  /\ UNCHANGED <<scan, dispatch, accepted, attempts, job, claims, cancelling,
                 exec, site, schedule, faults>>

Requeue(s) ==
  /\ Unlocked(s)
  /\ scan' = [scan EXCEPT ![s] = "queued"]
  /\ SetDispatch(s, "pending")

\* Mutant: at the limit of attempts the scan is left as it is.
RecoverMissingBelowLimit(p) ==
  /\ p.verdict \in {"recover", "exhausted"}
  /\ UNCHANGED attempts
  /\ IF scan[p.scan] # "running" \/ p.verdict = "exhausted"
       THEN UNCHANGED <<scan, dispatch>> ELSE Requeue(p.scan)

RecoverMissing(p) ==
  /\ p.verdict \in {"recover", "exhausted"}
  /\ UNCHANGED attempts
  /\ IF scan[p.scan] # "running" THEN UNCHANGED <<scan, dispatch>>
     ELSE IF p.verdict = "exhausted" THEN FailStale(p.scan)
     ELSE Requeue(p.scan)

Reconcile(p) ==
  /\ \/ RestoreDispatch(p) \/ FailFinished(p) \/ RecoverMissing(p)
  /\ probes' = probes \ {p}
  /\ UNCHANGED <<accepted, job, claims, cancelling, exec, site, schedule,
                 faults>>

\* The reconciler fails, or its process dies, between the answer and the write.
ProbeLost(p) ==
  /\ Fault
  /\ probes' = probes \ {p}
  /\ UNCHANGED <<scan, dispatch, accepted, attempts, job, claims, cancelling,
                 exec, site, schedule>>

\* cancelInvalidQueuedScheduledScans leaves the dispatch to ClaimSettled.
CancelInvalid(s) ==
  /\ Kind[s] = "scheduled" /\ scan[s] = "queued"
  /\ ~schedule \/ site \in {"pending", "paused"}
  /\ scan' = [scan EXCEPT ![s] = "cancelled"]
  /\ UNCHANGED <<dispatch, accepted, attempts, job, claims, cancelling, probes,
                 exec, site, schedule, faults>>

Reconcilers ==
  \/ \E s \in Scans : InspectQueued(s) \/ InspectRunning(s) \/ CancelInvalid(s)
  \/ \E p \in probes : CountAttempts(p) \/ Reconcile(p) \/ ProbeLost(p)

-----------------------------------------------------------------------------
(* The worker: one execution of the handler of index.ts in a slot.           *)

Executing(x, pc) == exec[x].pc = pc
Goto(x, pc) == exec' = [exec EXCEPT ![x].pc = pc]

\* job.attemptsMade + 1 < attempts, unless an UnrecoverableError ends the job.
WillRetry(e) == ~e.fatal /\ e.made + 1 < MaxAttempts

\* The catch of the handler: classifyScanError decided `fatal`.  Without an
\* attempt there is no attempt row to close.
Raise(x, fatal) ==
  LET e == [exec[x] EXCEPT !.fatal = fatal]
  IN  exec' = [exec EXCEPT ![x] =
        [e EXCEPT !.pc = IF e.attempt # 0 THEN "failAttempt"
                         ELSE IF WillRetry(e) THEN "ackFail"
                         ELSE "persistFailure"]]

\* BullMQ hands a waiting job (or a delayed one that is due) to a free slot.
Fetch(x, s) ==
  /\ Executing(x, "idle")
  /\ job[s].state = "waiting"
  /\ job' = [job EXCEPT ![s].state = "active", ![s].owner = x]
  /\ exec' = [exec EXCEPT ![x] = [pc |-> "begin", scan |-> s, attempt |-> 0,
                                  made |-> job[s].made, fatal |-> FALSE]]
  /\ NoFault
  /\ UNCHANGED <<scan, dispatch, attempts, site>>

\* The mode is read before the try block: its failure reaches BullMQ as is.
RouteFails(x) ==
  /\ Executing(x, "begin")
  /\ Fault
  /\ Goto(x, "ackFail")
  /\ UNCHANGED <<scan, dispatch, attempts, job, site>>

\* Mutant: the interrupted attempt is not closed.
BeginAnotherAttempt(x) ==
  /\ Executing(x, "begin")
  /\ LET s == exec[x].scan
     IN  /\ attempts' = [attempts EXCEPT ![s] = Append(@, "running")]
         /\ exec' = [exec EXCEPT ![x] =
              [pc |-> "start", scan |-> s, attempt |-> Len(attempts[s]) + 1,
               made |-> exec[x].made, fatal |-> FALSE]]
  /\ NoFault
  /\ UNCHANGED <<scan, dispatch, job, site>>

\* beginScanAttempt: whatever the scan's status, a latest attempt still
\* running was interrupted, and a new one follows it.
BeginAttempt(x) ==
  /\ Executing(x, "begin")
  /\ LET s == exec[x].scan
         n == Len(attempts[s])
         closed == IF n > 0 /\ attempts[s][n] = "running"
                     THEN [attempts[s] EXCEPT ![n] = "retrying"]
                     ELSE attempts[s]
     IN  /\ attempts' = [attempts EXCEPT ![s] = Append(closed, "running")]
         /\ exec' = [exec EXCEPT ![x] =
              [pc |-> "start", scan |-> s, attempt |-> n + 1,
               made |-> exec[x].made, fatal |-> FALSE]]
  /\ NoFault
  /\ UNCHANGED <<scan, dispatch, job, site>>

\* validateScanContext, checked again by the conditional UPDATE of
\* markScanRunning: neither asks whether the proof of ownership is current.
Runnable(s) ==
  /\ scan[s] \in {"queued", "running", "failed"}
  /\ IF Kind[s] = "public" THEN site # "paused"
                           ELSE site \notin {"pending", "paused"}
  /\ Kind[s] = "scheduled" => schedule

\* Mutant: the unique index covers queued scans only.
StartAnyScan(x) ==
  /\ Executing(x, "start")
  /\ IF Runnable(exec[x].scan)
       THEN scan' = [scan EXCEPT ![exec[x].scan] = "running"] /\ Goto(x, "collect")
       ELSE Raise(x, TRUE) /\ UNCHANGED scan
  /\ NoFault
  /\ UNCHANGED <<dispatch, attempts, job, site>>

\* A failed scan re-enters the unique index: another active scan refuses it.
StartScan(x) ==
  /\ Executing(x, "start")
  /\ LET s == exec[x].scan
     IN  IF /\ Runnable(s)
            /\ \A t \in Scans \ {s} : scan[t] \notin Active
         THEN scan' = [scan EXCEPT ![s] = "running"] /\ Goto(x, "collect")
         ELSE Raise(x, TRUE) /\ UNCHANGED scan
  /\ NoFault
  /\ UNCHANGED <<dispatch, attempts, job, site>>

\* ensureSiteOwnershipProof, then the HTTP probe and the browser.  A proof
\* that is stale may be found valid again, found gone, or DNS is unavailable.
CollectPasses(x) ==
  /\ Executing(x, "collect")
  /\ \/ Kind[exec[x].scan] = "public" /\ UNCHANGED site
     \/ Kind[exec[x].scan] # "public" /\ site \in {"current", "stale"}
        /\ site' = "current"
  /\ Goto(x, "persist")
  /\ NoFault
  /\ UNCHANGED <<scan, dispatch, attempts, job>>

\* The proof is refused (never retryable), or the pages could not be read.
CollectFails(x) ==
  /\ Executing(x, "collect")
  /\ \/ /\ Kind[exec[x].scan] # "public" /\ site # "current"
        /\ IF site = "stale" THEN site' \in {"stale", "invalid"}
                             ELSE UNCHANGED site
        /\ Raise(x, TRUE)
     \/ /\ Kind[exec[x].scan] = "public" \/ site = "current"
        /\ UNCHANGED site
        /\ \E fatal \in BOOLEAN : Raise(x, fatal)
  /\ NoFault
  /\ UNCHANGED <<scan, dispatch, attempts, job>>

\* persistScanCompletion: the whole result, or nothing, while still running.
PersistCompletion(x) ==
  /\ Executing(x, "persist")
  /\ IF scan[exec[x].scan] = "running"
       THEN /\ scan' = [scan EXCEPT ![exec[x].scan] = "completed"]
            /\ Goto(x, "complete")
       ELSE Raise(x, TRUE) /\ UNCHANGED scan
  /\ NoFault
  /\ UNCHANGED <<dispatch, attempts, job, site>>

\* A statement of the handler's try block errors: retryable or not by its code.
StatementFails(x) ==
  /\ exec[x].pc \in {"begin", "start", "collect", "persist"}
  /\ Fault
  /\ \E fatal \in BOOLEAN : Raise(x, fatal)
  /\ UNCHANGED <<scan, dispatch, attempts, job, site>>

\* An attempt row is closed only while it still reads "running".
CloseAttempt(x, status) ==
  LET s == exec[x].scan
      n == exec[x].attempt
  IN  attempts' = IF attempts[s][n] = "running"
                    THEN [attempts EXCEPT ![s][n] = status] ELSE attempts

\* Errors of completeScanAttempt, failScanAttempt and persistScanFailureForJob
\* are logged and the handler goes on.
CompleteAttempt(x) ==
  /\ Executing(x, "complete")
  /\ \/ CloseAttempt(x, "completed") /\ NoFault
     \/ UNCHANGED attempts /\ Fault
  /\ Goto(x, "ackOk")
  /\ UNCHANGED <<scan, dispatch, job, site>>

FailAttempt(x) ==
  /\ Executing(x, "failAttempt")
  /\ LET retry == WillRetry(exec[x])
     IN  /\ \/ CloseAttempt(x, IF retry THEN "retrying" ELSE "failed") /\ NoFault
            \/ UNCHANGED attempts /\ Fault
         /\ Goto(x, IF retry THEN "ackFail" ELSE "persistFailure")
  /\ UNCHANGED <<scan, dispatch, job, site>>

\* Mutant: the failure is written whatever the scan's status.
PersistAnyFailure(x) ==
  /\ Executing(x, "persistFailure")
  /\ \/ NoFault /\ scan' = [scan EXCEPT ![exec[x].scan] = "failed"]
     \/ UNCHANGED scan /\ Fault
  /\ Goto(x, "ackFail")
  /\ UNCHANGED <<dispatch, attempts, job, site>>

\* persistScanFailureForJob knows its scan, not its attempt.
PersistFailure(x) ==
  /\ Executing(x, "persistFailure")
  /\ \/ /\ NoFault
        /\ IF scan[exec[x].scan] \in {"queued", "running", "failed"}
             THEN scan' = [scan EXCEPT ![exec[x].scan] = "failed"]
             ELSE UNCHANGED scan
     \/ UNCHANGED scan /\ Fault
  /\ Goto(x, "ackFail")
  /\ UNCHANGED <<dispatch, attempts, job, site>>

\* BullMQ accepts the outcome from the execution that holds the job's lock.
Acknowledge(x, state) ==
  LET s == exec[x].scan
  IN  /\ job' = IF job[s].owner = x
                  THEN [job EXCEPT ![s] =
                         [state   |-> state,
                          made    |-> job[s].made + 1,
                          stalled |-> job[s].stalled,
                          owner   |-> NoSlot]]
                  ELSE job
      /\ exec' = [exec EXCEPT ![x] = Idle]
      /\ NoFault
      /\ UNCHANGED <<scan, dispatch, attempts, site>>

Succeed(x) == Executing(x, "ackOk") /\ Acknowledge(x, "completed")
Reject(x) ==
  /\ Executing(x, "ackFail")
  /\ Acknowledge(x, IF WillRetry(exec[x]) THEN "waiting" ELSE "failed")

\* The worker process dies; its job keeps the "active" state, held by nobody.
Crash(x) ==
  /\ ~Executing(x, "idle")
  /\ Fault
  /\ job' = IF job[exec[x].scan].owner = x
              THEN [job EXCEPT ![exec[x].scan].owner = NoSlot] ELSE job
  /\ exec' = [exec EXCEPT ![x] = Idle]
  /\ UNCHANGED <<scan, dispatch, attempts, site>>

Worker ==
  /\ \E x \in Slots :
       \/ \E s \in Scans : Fetch(x, s)
       \/ RouteFails(x) \/ BeginAttempt(x) \/ StartScan(x)
       \/ CollectPasses(x) \/ CollectFails(x) \/ PersistCompletion(x)
       \/ StatementFails(x) \/ CompleteAttempt(x) \/ FailAttempt(x)
       \/ PersistFailure(x) \/ Succeed(x) \/ Reject(x) \/ Crash(x)
  /\ UNCHANGED <<accepted, claims, cancelling, probes, schedule>>

-----------------------------------------------------------------------------
(* BullMQ on its own.                                                        *)

\* A job whose lock was not renewed goes back to waiting, or fails for good
\* without the handler's knowledge; a live execution goes on as a zombie.
Stall(s) ==
  /\ job[s].state = "active"
  /\ IF job[s].owner = NoSlot THEN NoFault ELSE Fault
  /\ job' = [job EXCEPT ![s] =
       [state   |-> IF job[s].stalled < MaxStalled THEN "waiting" ELSE "failed",
        made    |-> job[s].made,
        stalled |-> job[s].stalled + 1,
        owner   |-> NoSlot]]

\* removeOnComplete and removeOnFail, after a day or a week.
Evict(s) ==
  /\ job[s].state \in {"completed", "failed"}
  /\ job' = [job EXCEPT ![s] = NoJob]
  /\ NoFault

\* Redis loses the job (an eviction, a restore from an older snapshot).
LoseJob(s) ==
  /\ job[s].state \in {"waiting", "active"}
  /\ Fault
  /\ job' = [job EXCEPT ![s] = NoJob]

Queue ==
  /\ \E s \in Scans : Stall(s) \/ Evict(s) \/ LoseJob(s)
  /\ UNCHANGED <<scan, dispatch, accepted, attempts, claims, cancelling,
                 probes, exec, site, schedule>>

Next ==
  \/ Environment
  \/ \E s \in Scans : CreateManual(s) \/ CreatePublic(s) \/ CreateScheduled(s)
  \/ Dispatcher
  \/ Reconcilers
  \/ Worker
  \/ Queue

Spec == Init /\ [][Next]_vars

\* What the scheduling of the code justifies.  The coordinators run every 2
\* and 30 seconds and repeat a tick that failed; DNS eventually answers a
\* refresh; the worker goes on with what it executes and BullMQ serves,
\* recovers and evicts jobs.  A claim needs strong fairness because the proof
\* may keep expiring: each tick refreshes due proofs just before it claims.
ClaimProgress(s) == ClaimSettled(s) \/ ClaimReadsInvalid(s) \/ ClaimTaken(s)
ClaimStep(s) == \E c \in claims : c.scan = s /\
                  (Enqueue(c) \/ MarkDispatched(c) \/ MarkRetry(c))
InspectStep(s) == InspectQueued(s) \/ InspectRunning(s)
ReconcileStep(s) ==
  \E p \in probes : p.scan = s /\ (CountAttempts(p) \/ Reconcile(p))
WorkerStep(x) ==
  /\ \/ BeginAttempt(x) \/ StartScan(x) \/ CollectPasses(x) \/ CollectFails(x)
     \/ PersistCompletion(x) \/ CompleteAttempt(x) \/ FailAttempt(x)
     \/ PersistFailure(x) \/ Succeed(x) \/ Reject(x)
  /\ UNCHANGED <<accepted, claims, cancelling, probes, schedule>>
FetchStep(s) ==
  /\ \E x \in Slots : Fetch(x, s)
  /\ UNCHANGED <<accepted, claims, cancelling, probes, schedule>>
QueueStep(s) ==
  /\ Evict(s) \/ (job[s].owner = NoSlot /\ Stall(s))
  /\ UNCHANGED <<scan, dispatch, accepted, attempts, claims, cancelling,
                 probes, exec, site, schedule>>
RefreshStep ==
  /\ ProofRefreshed
  /\ UNCHANGED <<scan, dispatch, accepted, attempts, job, claims, cancelling,
                 probes, exec, faults>>

Fairness ==
  /\ \A s \in Scans : /\ SF_vars(ClaimProgress(s)) /\ WF_vars(ClaimStep(s))
                      /\ WF_vars(ClaimCancelled(s))
                      /\ WF_vars(InspectStep(s)) /\ WF_vars(ReconcileStep(s))
                      /\ SF_vars(FetchStep(s)) /\ WF_vars(QueueStep(s))
  /\ \A x \in Slots : WF_vars(WorkerStep(x))
  /\ WF_vars(RefreshStep)

FairSpec == Spec /\ Fairness

-----------------------------------------------------------------------------
(* Properties.                                                               *)

\* The scan row behaves as its readers are promised, whatever order claims,
\* executions, reconcilers and failures run in: see ScanContract.
Contract == INSTANCE ScanContract WITH status <- scan
ImplementsContract == Contract!Spec

\* Of a scan's attempts only the newest may read "running", although an
\* interrupted execution and its successor run at the same time and each
\* closes its own row (beginScanAttempt, completeScanAttempt, failScanAttempt).
OneRunningAttempt ==
  \A s \in Scans : \A n \in 1..Len(attempts[s]) :
    attempts[s][n] = "running" => n = Len(attempts[s])

\* A queued scan always has a dispatch that some coordinator will still look
\* at: no order of cancelled, failed and recovered dispatches strands it, nor
\* a claim that cancels the dispatch of a scan it read before a worker started
\* it (claimDueScanDispatches) and that is recovered later.
QueuedHasOpenDispatch ==
  \A s \in Scans : scan[s] = "queued" => dispatch[s].status \in OpenDispatch

\* When a queued scan's dispatch reads "dispatched", the queue did take the
\* job since the last claim: a mark that comes late, from a claim whose lease
\* ended, cannot vouch for the claim that followed it.
DispatchedWasAccepted ==
  \A s \in Scans :
    scan[s] = "queued" /\ dispatch[s].status = "dispatched" => accepted[s]

\* Every scan leaves the active place of its site, and the place is never
\* held for ever: retries, stalls, lost jobs and failed statements included.
ScansSettle ==
  \A s \in Scans : scan[s] \in Active ~> scan[s] \in Terminal

\* No dispatch row is polled for ever: once its scan is over, however it got
\* there, a claim settles what a crashed dispatcher, a lost answer or
\* cancelInvalidQueuedScheduledScans left "pending" or "dispatching".
DispatchesSettle ==
  \A s \in Scans :
    scan[s] \in Terminal
      ~> \/ dispatch[s].status \in {"dispatched", "cancelled", "failed"}
         \/ scan[s] \in Active
==============================================================================
