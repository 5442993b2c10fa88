------------------------------ MODULE DeepLease ------------------------------
(***************************************************************************)
(* One Deep audit executed under a lease (scan-engine/deep-lease.ts).      *)
(*                                                                         *)
(* BullMQ may hand the scan's job to a second worker while the first still *)
(* executes it, so the executions exclude each other in Postgres: a worker *)
(* claims an attempt row with a token and an end date, a monitor in its    *)
(* process renews the date and aborts the execution by its own watch when  *)
(* it cannot, and the last transaction checks token and date again.  The   *)
(* scheduler's reconciler closes scans whose executions are gone.          *)
(*                                                                         *)
(* Time is what is left: of each lease in the database, of each watch in a *)
(* worker.  Tick is the only action that takes time.  One database         *)
(* transaction is one action; the answer of a claim or of a renewal comes  *)
(* up to AnswerDelay after the statement took effect.                      *)
(***************************************************************************)
EXTENDS Naturals, Sequences

CONSTANTS
  Workers,         \* places of the worker processes where a job can execute
  LeaseTime,       \* LEASE_MS, in units of time
  RenewTime,       \* RENEW_MS: the watch ends that much before the lease
  AnswerDelay,     \* bound: time between a statement's effect and its answer
  MaxDeepAttempts, \* MAX_DEEP_ATTEMPTS (5)
  MaxJobAttempts,  \* BullMQ executions of a job (3)
  MaxStalled,      \* maxStalledCount (2)
  MaxFaults,       \* bound: failures and changes of the site in one behaviour
  NoWorker         \* not a worker: the owner of a job nobody holds

ASSUME TimesAssumption ==
  /\ LeaseTime \in Nat /\ RenewTime \in Nat /\ AnswerDelay \in Nat
  /\ 0 < RenewTime /\ RenewTime < LeaseTime
ASSUME LimitsAssumption ==
  /\ MaxDeepAttempts \in Nat /\ MaxJobAttempts \in Nat /\ MaxStalled \in Nat
  /\ MaxFaults \in Nat
ASSUME NullAssumption == NoWorker \notin Workers

VARIABLES
  scan,      \* scans.status
  attempts,  \* scan_attempts in attemptNumber order: status, time left of lease
  results,   \* number of the attempt whose scan_check_runs exist, 0 when none
  job,       \* BullMQ's job of the scan
  worker,    \* what each worker executes: runInternalDeepWorkerJob
  monitor,   \* the DeepLeaseMonitor of each worker's execution
  site,      \* the site's row: eligibility and proof of ownership
  seen,      \* state of the job the reconciler read and has not used yet
  faults     \* failures and changes of the site so far

vars == <<scan, attempts, results, job, worker, monitor, site, seen, faults>>

ScanStatuses == {"queued", "running", "completed", "failed"}
AttemptStatuses == {"running", "retrying", "completed", "failed"}
JobStates == {"missing", "waiting", "active", "completed", "failed"}
Pcs == {"idle", "prepare", "claim", "claimed", "held", "lookup", "confirm",
        "decided", "collect", "persist", "persisted", "release", "record",
        "settle"}
Decisions == {"none", "allowed", "denied", "outage"}
Failures == {"none", "retry", "final"}
Renewals == {"no", "asserted", "updated"}

AttemptRecords == [status : AttemptStatuses, left : Nat]
JobRecords == [state : JobStates, made : Nat, stalled : Nat,
               owner : Workers \union {NoWorker}]
WorkerRecords ==
  [pc : Pcs, made : Nat, attempt : Nat, decision : Decisions, generation : Nat,
   checked : BOOLEAN, transport : BOOLEAN, failure : Failures,
   shutdown : BOOLEAN]
MonitorRecords == [armed : BOOLEAN, aborted : BOOLEAN, watch : Nat,
                   renewal : Renewals, waited : Nat]
SiteRecords == [active : BOOLEAN, valid : BOOLEAN, generation : Nat, by : Nat]

NoJob == [state |-> "missing", made |-> 0, stalled |-> 0, owner |-> NoWorker]
Idle == [pc |-> "idle", made |-> 0, attempt |-> 0, decision |-> "none",
         generation |-> 0, checked |-> FALSE, transport |-> FALSE,
         failure |-> "none", shutdown |-> FALSE]
NoMonitor == [armed |-> FALSE, aborted |-> FALSE, watch |-> 0,
              renewal |-> "no", waited |-> 0]

TypeOK ==
  /\ scan \in ScanStatuses
  /\ attempts \in Seq(AttemptRecords)
  /\ results \in Nat
  /\ job \in JobRecords
  /\ worker \in [Workers -> WorkerRecords]
  /\ monitor \in [Workers -> MonitorRecords]
  /\ site \in SiteRecords
  /\ seen \in JobStates \union {"nothing"}
  /\ faults \in Nat

Init ==
  /\ scan = "queued" /\ attempts = <<>> /\ results = 0
  /\ job = NoJob
  /\ worker = [w \in Workers |-> Idle]
  /\ monitor = [w \in Workers |-> NoMonitor]
  /\ site = [active |-> TRUE, valid |-> TRUE, generation |-> 1, by |-> 0]
  /\ seen = "nothing"
  /\ faults = 0

Fault == faults < MaxFaults /\ faults' = faults + 1
At(w, pc) == worker[w].pc = pc
\* The worker's next step is at `pc`; the rest of its record stays.
Goes(w, pc) == worker' = [worker EXCEPT ![w].pc = pc]
\* Its job ends, with an error unless `failure` is "none".
Ends(w, failure) ==
  worker' = [worker EXCEPT ![w] = [@ EXCEPT !.pc = "settle",
                                            !.failure = failure]]

Live(n) == attempts[n].status = "running" /\ attempts[n].left > 0
Latest == Len(attempts)

\* The execution throws: the finally block stops the monitor and is about to
\* release the lease.  `failure` is how the error will be classified.
Throws(w, failure) ==
  /\ worker' = [worker EXCEPT ![w] = [@ EXCEPT
       !.pc = "release", !.failure = failure, !.checked = FALSE,
       !.transport = FALSE]]
  /\ monitor' = [monitor EXCEPT ![w].armed = FALSE]

-----------------------------------------------------------------------------
(* The queue: BullMQ, and the dispatch of queued scans.                      *)

\* The scan's dispatch puts the job in the queue (module ScanLifecycle).
Enqueue ==
  /\ scan = "queued" /\ job.state = "missing"
  /\ job' = [NoJob EXCEPT !.state = "waiting"]
  /\ UNCHANGED <<scan, attempts, results, worker, monitor, site, seen, faults>>

Fetch(w) ==
  /\ At(w, "idle") /\ job.state = "waiting"
  /\ job' = [job EXCEPT !.state = "active", !.owner = w]
  /\ worker' = [worker EXCEPT ![w] = [Idle EXCEPT !.pc = "prepare",
                                                  !.made = job.made]]
  /\ UNCHANGED <<scan, attempts, results, monitor, site, seen, faults>>

\* The job's lock ends and BullMQ takes the job back.
TakenBack ==
  /\ job' = [job EXCEPT !.stalled = @ + 1, !.owner = NoWorker,
               !.state = IF job.stalled < MaxStalled THEN "waiting"
                                                     ELSE "failed"]
  /\ UNCHANGED <<scan, attempts, results, worker, monitor, site, seen>>

\* Its worker is gone.
Abandoned ==
  job.state = "active" /\ At(job.owner, "idle") /\ TakenBack /\ UNCHANGED faults

\* Its worker lost the queue for a while and works on without noticing.
Stall == job.state = "active" /\ ~At(job.owner, "idle") /\ Fault /\ TakenBack

JobLost ==
  /\ job.state # "missing" /\ Fault
  /\ job' = NoJob
  /\ UNCHANGED <<scan, attempts, results, worker, monitor, site, seen>>

\* How the processor's promise ended, for the job if the worker still owns it.
AfterExecution(w) ==
  LET ended(state) == [job EXCEPT !.state = state, !.owner = NoWorker]
      retried == [job EXCEPT !.state = "waiting", !.owner = NoWorker,
                             !.made = job.made + 1]
  IN IF job.owner # w THEN job
     ELSE CASE worker[w].failure = "none" -> ended("completed")
            [] worker[w].failure = "retry" /\ job.made + 1 < MaxJobAttempts -> retried
            [] OTHER -> ended("failed")

Settle(w) ==
  /\ At(w, "settle")
  /\ job' = AfterExecution(w)
  /\ worker' = [worker EXCEPT ![w] = Idle]
  /\ monitor' = [monitor EXCEPT ![w] = NoMonitor]
  /\ UNCHANGED <<scan, attempts, results, site, seen, faults>>

-----------------------------------------------------------------------------
(* Taking the lease.                                                         *)

\* prepareDeepScan: the scan's row decides whether this job runs at all.
Prepare(w) ==
  /\ At(w, "prepare")
  /\ \/ /\ scan = "completed"
        /\ Goes(w, "settle") /\ UNCHANGED scan
     \/ /\ scan \in {"queued", "running"} /\ site.active
        /\ scan' = "running" /\ Goes(w, "claim")
     \/ /\ scan = "failed" \/ (scan # "completed" /\ ~site.active)
        /\ Ends(w, "final")
        /\ UNCHANGED scan
  /\ UNCHANGED <<attempts, results, job, monitor, site, seen, faults>>

\* The row of an attempt that was given up: a null lease has no time left.
\* Mutated, the row gets the name the queue has for it.
ReleasedAsWaiting == [status |-> "waiting", left |-> 0]
Released == [status |-> "retrying", left |-> 0]

\* The attempts when the newest is found expired.  Mutated, it is not closed.
LeftRunning == attempts
NewestExpires ==
  [n \in 1..Latest |->
     IF n = Latest /\ attempts[n].status = "running"
     THEN Released ELSE attempts[n]]

MayClaim ==
  /\ scan = "running" /\ results = 0
  /\ Latest > 0 => ~Live(Latest) /\ attempts[Latest].status # "completed"
  /\ Latest < MaxDeepAttempts

\* claimDeepLease: an expired attempt is closed and the next one opened.
Claim(w) ==
  /\ At(w, "claim") /\ MayClaim
  /\ attempts' = Append(NewestExpires,
                        [status |-> "running", left |-> LeaseTime])
  /\ worker' = [worker EXCEPT ![w] = [@ EXCEPT
       !.pc = "claimed", !.attempt = Latest + 1]]
  /\ monitor' = [monitor EXCEPT ![w].waited = 0]
  /\ UNCHANGED <<scan, results, job, site, seen, faults>>

\* DeepLeaseBusyError: the job waits for the lease and prepares again, or its
\* 35 seconds are over and it fails, to be retried.
ClaimBusy(w) ==
  /\ At(w, "claim") /\ scan = "running" /\ results = 0
  /\ Latest > 0 /\ Live(Latest)
  /\ \/ ~worker[w].shutdown /\ Goes(w, "prepare")
     \/ Ends(w, "retry")
  /\ UNCHANGED <<scan, attempts, results, job, monitor, site, seen, faults>>

\* Any other refusal is a DeepLeaseError, of an execution without a lease.
ClaimRefused(w) ==
  /\ At(w, "claim") /\ ~MayClaim
  /\ scan = "running" /\ results = 0 /\ Latest > 0 => ~Live(Latest)
  /\ Ends(w, "retry")
  /\ UNCHANGED <<scan, attempts, results, job, monitor, site, seen, faults>>

\* The claim's answer arrives, and monitorDeepLease starts its watch then.
ClaimAnswered(w) ==
  /\ At(w, "claimed")
  /\ Goes(w, "held")
  /\ monitor' = [monitor EXCEPT ![w] =
       [NoMonitor EXCEPT !.armed = TRUE, !.aborted = worker[w].shutdown,
                         !.watch = LeaseTime - RenewTime]]
  /\ UNCHANGED <<scan, attempts, results, job, site, seen, faults>>

-----------------------------------------------------------------------------
(* Under the lease: authorization, transports, results.                      *)

GrantHolds(w) == site.valid /\ site.generation = worker[w].generation
                            /\ site.by = worker[w].attempt

\* What assertDeepLease reads.  The grant is known once it was allowed.
Current(w) ==
  /\ scan = "running" /\ Live(worker[w].attempt) /\ site.active
  /\ worker[w].decision = "allowed" => GrantHolds(w)

Works(w, pc) == At(w, pc) /\ ~monitor[w].aborted

Decides(w, decision) ==
  worker' = [worker EXCEPT ![w] = [@ EXCEPT
       !.pc = "decided", !.decision = decision]]

\* revalidateDeepAuditAuthorization reads the site, then asks the DNS.
Look(w) ==
  /\ Works(w, "held") /\ Current(w)
  /\ IF site.active /\ site.valid
     THEN worker' = [worker EXCEPT ![w] = [@ EXCEPT
                       !.pc = "lookup", !.generation = site.generation]]
     ELSE Decides(w, "denied")
  /\ UNCHANGED <<scan, attempts, results, job, monitor, site, seen, faults>>

SameProof(w) ==
  site.active /\ site.valid /\ site.generation = worker[w].generation

\* The record is there: ensureSiteOwnershipProof refreshes the proof.
ProofFound(w) ==
  /\ Works(w, "lookup") /\ SameProof(w)
  /\ site' = [site EXCEPT !.by = worker[w].attempt]
  /\ Goes(w, "confirm")
  /\ UNCHANGED <<scan, attempts, results, job, monitor, seen, faults>>

\* The record is gone: the proof is invalidated, if it is still the one read.
ProofMissing(w) ==
  /\ Works(w, "lookup") /\ Fault
  /\ site' = IF site.generation = worker[w].generation
             THEN [site EXCEPT !.valid = FALSE] ELSE site
  /\ Decides(w, "denied")
  /\ UNCHANGED <<scan, attempts, results, job, monitor, seen>>

\* The proof changed during the lookup.
ProofRefused(w) ==
  /\ Works(w, "lookup") /\ ~SameProof(w)
  /\ Decides(w, "denied")
  /\ UNCHANGED <<scan, attempts, results, job, monitor, site, seen, faults>>

\* SERVFAIL or a timeout: the proof stays as it is.
ProofUnavailable(w) ==
  /\ Works(w, "lookup") /\ Fault
  /\ Decides(w, "outage")
  /\ UNCHANGED <<scan, attempts, results, job, monitor, site, seen>>

\* The second transaction reads the site again under its lock.
Confirm(w) ==
  /\ Works(w, "confirm")
  /\ Decides(w, IF site.active /\ GrantHolds(w) THEN "allowed" ELSE "denied")
  /\ UNCHANGED <<scan, attempts, results, job, monitor, site, seen, faults>>

Decided(w) ==
  /\ Works(w, "decided") /\ Current(w)
  /\ Goes(w, IF worker[w].decision = "allowed" THEN "collect" ELSE "persist")
  /\ UNCHANGED <<scan, attempts, results, job, monitor, site, seen, faults>>

\* beforeNetwork: the lease is read, and its answer opens a transport.
Check(w) ==
  /\ Works(w, "collect") /\ ~worker[w].checked /\ Current(w)
  /\ worker' = [worker EXCEPT ![w].checked = TRUE]
  /\ UNCHANGED <<scan, attempts, results, job, monitor, site, seen, faults>>

Contact(w) ==
  /\ Works(w, "collect") /\ worker[w].checked
  /\ worker' = [worker EXCEPT ![w] = [@ EXCEPT
       !.checked = FALSE, !.transport = TRUE]]
  /\ UNCHANGED <<scan, attempts, results, job, monitor, site, seen, faults>>

\* The site answered, failed or exhausted the budget: the checks analyse it.
Collected(w) ==
  /\ Works(w, "collect")
  /\ worker' = [worker EXCEPT ![w] = [@ EXCEPT
       !.pc = "persist", !.checked = FALSE, !.transport = FALSE]]
  /\ UNCHANGED <<scan, attempts, results, job, monitor, site, seen, faults>>

\* assertCurrent finds the lease, the site or the grant gone and aborts.
CheckFails(w) ==
  /\ \/ Works(w, "held") \/ Works(w, "decided") \/ Works(w, "collect")
  /\ ~Current(w)
  /\ Throws(w, IF At(w, "collect") THEN "final" ELSE "retry")
  /\ UNCHANGED <<scan, attempts, results, job, site, seen, faults>>

\* An aborted execution throws: a DeepLeaseError where assertCurrent comes
\* next, a plain error in the DNS lookup, the transports and the persistence.
Abandon(w) ==
  /\ monitor[w].armed /\ monitor[w].aborted
  /\ worker[w].pc \in {"held", "lookup", "confirm", "decided", "collect",
                       "persist"}
  /\ Throws(w, IF worker[w].pc \in {"held", "decided"}
               THEN "retry" ELSE "final")
  /\ UNCHANGED <<scan, attempts, results, job, site, seen, faults>>

\* What the last transaction checks.  Mutated, it trusts the lease the
\* execution once had.
MayPersistUnfenced(w) ==
  /\ scan = "running" /\ site.active /\ results = 0
  /\ worker[w].decision = "allowed" => GrantHolds(w)
MayPersist(w) == Current(w) /\ results = 0

Verdict(w) == IF worker[w].decision = "allowed" THEN "completed" ELSE "failed"

\* persistDeepCheckRuns: check runs, scan and attempt in one transaction.
Persist(w) ==
  /\ Works(w, "persist") /\ MayPersist(w)
  /\ scan' = Verdict(w)
  /\ attempts' = [attempts EXCEPT ![worker[w].attempt] =
                    [status |-> Verdict(w), left |-> 0]]
  /\ results' = worker[w].attempt
  /\ Goes(w, "persisted")
  /\ UNCHANGED <<job, monitor, site, seen, faults>>

PersistRefused(w) ==
  /\ Works(w, "persist") /\ ~MayPersist(w)
  /\ Throws(w, "final")
  /\ UNCHANGED <<scan, attempts, results, job, site, seen, faults>>

\* A refused authorization is stored first and thrown afterwards.
Persisted(w) ==
  /\ At(w, "persisted")
  /\ Throws(w, IF worker[w].decision = "allowed" THEN "none" ELSE "final")
  /\ UNCHANGED <<scan, attempts, results, job, site, seen, faults>>

-----------------------------------------------------------------------------
(* Giving the lease back.                                                    *)

\* The row of an attempt its execution gives up, unless it is closed already.
\* Mutated, a closed attempt is given up too.
AfterReleaseOfAny(n) == [attempts EXCEPT ![n] = Released]
AfterRelease(n) ==
  IF attempts[n].status = "running"
  THEN [attempts EXCEPT ![n] = Released] ELSE attempts

\* releaseDeepLease, then the classification of the error, if there is one.
Release(w) ==
  LET n == worker[w].attempt
      failure == IF worker[w].failure = "final" /\ worker[w].shutdown
                 THEN "retry" ELSE worker[w].failure
  IN /\ At(w, "release")
     /\ attempts' = AfterRelease(n)
     /\ worker' = [worker EXCEPT ![w] = [@ EXCEPT
          !.pc = IF failure = "none" THEN "settle" ELSE "record",
          !.failure = failure]]
     /\ UNCHANGED <<scan, results, job, monitor, site, seen, faults>>

\* The newest attempt bears this execution's token and is released.  Mutated,
\* nobody asks whose attempt is the newest.
OwnsAnyFailure(w) ==
  scan = "running" /\ attempts[worker[w].attempt].status = "retrying"
OwnsFailure(w) ==
  /\ scan = "running" /\ worker[w].attempt = Latest
  /\ attempts[Latest].status = "retrying"

LastTry(w) == \/ worker[w].failure = "final"
              \/ worker[w].made + 1 >= MaxJobAttempts

\* recordDeepFailure
Record(w) ==
  /\ At(w, "record")
  /\ \/ /\ OwnsFailure(w) /\ LastTry(w)
        /\ scan' = "failed"
        /\ attempts' = [attempts EXCEPT ![worker[w].attempt].status = "failed"]
     \/ ~(OwnsFailure(w) /\ LastTry(w)) /\ UNCHANGED <<scan, attempts>>
  /\ Goes(w, "settle")
  /\ UNCHANGED <<results, job, monitor, site, seen, faults>>

-----------------------------------------------------------------------------
(* The monitor and the clock.                                                *)

Watching(w) == monitor[w].armed /\ ~monitor[w].aborted
\* The signal every transport listens to.
Aborts(w) ==
  /\ monitor' = [monitor EXCEPT ![w] = [@ EXCEPT
       !.aborted = TRUE, !.renewal = "no"]]
  /\ worker' = [worker EXCEPT ![w].transport = FALSE]

RenewChecks(w) ==
  /\ Watching(w) /\ monitor[w].renewal = "no"
  /\ IF Current(w)
     THEN /\ monitor' = [monitor EXCEPT ![w].renewal = "asserted"]
          /\ UNCHANGED worker
     ELSE Aborts(w)
  /\ UNCHANGED <<scan, attempts, results, job, site, seen, faults>>

\* The update of renewDeepLease.  It is not recalled when the monitor stops.
Renew(w) ==
  LET n == worker[w].attempt
  IN /\ monitor[w].renewal = "asserted"
     /\ IF Live(n)
        THEN /\ attempts' = [attempts EXCEPT ![n].left = LeaseTime]
             /\ monitor' = [monitor EXCEPT ![w] = [@ EXCEPT
                  !.renewal = "updated", !.waited = 0]]
             /\ UNCHANGED worker
        ELSE Aborts(w) /\ UNCHANGED attempts
     /\ UNCHANGED <<scan, results, job, site, seen, faults>>

\* armDeadline counts from the answer, not from the update.  Mutated, the
\* watch is as long as the lease.
FullWatch == LeaseTime
RearmedWatch == LeaseTime - RenewTime

RenewAnswered(w) ==
  /\ monitor[w].renewal = "updated"
  /\ monitor' = [monitor EXCEPT ![w] = [@ EXCEPT
       !.renewal = "no",
       !.watch = IF Watching(w) THEN RearmedWatch ELSE monitor[w].watch]]
  /\ UNCHANGED <<scan, attempts, results, job, worker, site, seen, faults>>

RenewFails(w) ==
  /\ Watching(w) /\ monitor[w].renewal # "no" /\ Fault
  /\ Aborts(w)
  /\ UNCHANGED <<scan, attempts, results, job, site, seen>>

WatchEnds(w) ==
  /\ Watching(w) /\ monitor[w].watch = 0
  /\ Aborts(w)
  /\ UNCHANGED <<scan, attempts, results, job, site, seen, faults>>

AwaitsAnswer(w) == At(w, "claimed") \/ monitor[w].renewal = "updated"
Less(t) == IF t = 0 THEN 0 ELSE t - 1

\* Timers fire when they are due and answers are AnswerDelay late at most.
Tick ==
  /\ \A w \in Workers :
       /\ Watching(w) => monitor[w].watch > 0
       /\ AwaitsAnswer(w) => monitor[w].waited < AnswerDelay
  /\ attempts' = [n \in 1..Latest |->
                    [attempts[n] EXCEPT !.left = Less(attempts[n].left)]]
  /\ monitor' = [w \in Workers |->
       [monitor[w] EXCEPT
          !.watch = Less(monitor[w].watch),
          !.waited = IF AwaitsAnswer(w) THEN monitor[w].waited + 1 ELSE 0]]
  /\ UNCHANGED <<scan, results, job, worker, site, seen, faults>>

-----------------------------------------------------------------------------
(* The reconciler, the site and the failures.                                *)

Inspect ==
  /\ scan = "running" /\ seen = "nothing"
  /\ seen' = job.state
  /\ UNCHANGED <<scan, attempts, results, job, worker, monitor, site, faults>>

\* Nobody has the lease.
Unleased == Latest = 0 \/ ~Live(Latest)

\* A job that is still to be executed.  Mutated, one that failed counts too.
ComesAgainOrFailed(state) == state \in {"waiting", "failed"}
ComesAgain(state) == state = "waiting"

\* reconcileStaleDeepScan
Reconcile ==
  /\ seen # "nothing" /\ seen' = "nothing"
  /\ IF scan = "running" /\ Unleased /\ ~ComesAgain(seen)
     THEN /\ scan' = "failed"
          /\ attempts' = [n \in 1..Latest |->
               IF n = Latest /\ attempts[n].status \in {"running", "retrying"}
               THEN [status |-> "failed", left |-> 0] ELSE attempts[n]]
     ELSE UNCHANGED <<scan, attempts>>
  /\ UNCHANGED <<results, job, worker, monitor, site, faults>>

\* Elsewhere the site is paused or resumed, its proof revoked, given again
\* under a new generation, or refreshed by the scheduler.
SiteChanges ==
  /\ Fault
  /\ \/ site' = [site EXCEPT !.active = ~@]
     \/ site.valid /\ site' = [site EXCEPT !.valid = FALSE]
     \/ site' = [site EXCEPT !.valid = TRUE, !.by = 0,
                             !.generation = site.generation + 1]
     \/ site.valid /\ site' = [site EXCEPT !.by = 0]
  /\ UNCHANGED <<scan, attempts, results, job, worker, monitor, seen>>

\* A statement of the execution fails or its answer is lost, transiently
\* ("retry") or not.  revalidateDeepAuditAuthorization makes of it a refusal,
\* and assertCurrent in the collection an abort.
StatementFails(w) ==
  /\ Fault
  /\ \E failure \in {"retry", "final"} :
       \/ /\ worker[w].pc \in {"prepare", "claim", "claimed"}
          /\ worker' = [worker EXCEPT ![w] = [@ EXCEPT
               !.pc = "settle", !.attempt = 0, !.failure = failure]]
          /\ UNCHANGED monitor
       \/ /\ worker[w].pc \in {"held", "confirm", "decided", "persist",
                               "persisted"}
          /\ Throws(w, failure)
       \/ At(w, "lookup") /\ Decides(w, "denied") /\ UNCHANGED monitor
       \/ At(w, "collect") /\ failure = "final" /\ Throws(w, failure)
       \/ /\ At(w, "release")
          /\ worker' = [worker EXCEPT ![w] = [@ EXCEPT
               !.pc = "record", !.failure = failure]]
          /\ UNCHANGED monitor
       \/ At(w, "record") /\ Ends(w, "retry") /\ UNCHANGED monitor
  /\ UNCHANGED <<scan, attempts, results, job, site, seen>>

\* SIGTERM aborts the execution and lets it unwind.
Shutdown(w) ==
  /\ ~At(w, "idle") /\ ~worker[w].shutdown /\ Fault
  /\ worker' = [worker EXCEPT ![w] = [@ EXCEPT
       !.shutdown = TRUE, !.transport = FALSE]]
  /\ monitor' = [monitor EXCEPT ![w].aborted = monitor[w].armed]
  /\ UNCHANGED <<scan, attempts, results, job, site, seen>>

\* An execution that has no lease yet finds its signal aborted.
Interrupted(w) ==
  /\ worker[w].shutdown /\ worker[w].pc \in {"prepare", "claim"}
  /\ Ends(w, "retry")
  /\ UNCHANGED <<scan, attempts, results, job, monitor, site, seen, faults>>

Crash(w) ==
  /\ ~At(w, "idle") /\ Fault
  /\ worker' = [worker EXCEPT ![w] = Idle]
  /\ monitor' = [monitor EXCEPT ![w] = NoMonitor]
  /\ UNCHANGED <<scan, attempts, results, job, site, seen>>

-----------------------------------------------------------------------------
\* What a worker does by itself, except for more requests to the site.
Execute(w) ==
  \/ Settle(w) \/ Prepare(w) \/ Claim(w) \/ ClaimBusy(w) \/ ClaimRefused(w)
  \/ ClaimAnswered(w) \/ Look(w) \/ ProofFound(w) \/ ProofRefused(w)
  \/ Confirm(w) \/ Decided(w)
  \/ Collected(w) \/ CheckFails(w) \/ Abandon(w) \/ Persist(w)
  \/ PersistRefused(w) \/ Persisted(w) \/ Release(w) \/ Record(w)
  \/ Interrupted(w)
Browse(w) == Check(w) \/ Contact(w)
Watch(w) == RenewChecks(w) \/ Renew(w) \/ RenewAnswered(w) \/ WatchEnds(w)
Trouble(w) ==
  \/ ProofMissing(w) \/ ProofUnavailable(w)
  \/ RenewFails(w) \/ StatementFails(w) \/ Shutdown(w) \/ Crash(w)

Next ==
  \/ \E w \in Workers :
       Fetch(w) \/ Execute(w) \/ Browse(w) \/ Watch(w) \/ Trouble(w)
  \/ Enqueue \/ Abandoned \/ Stall \/ JobLost
  \/ Tick \/ Inspect \/ Reconcile \/ SiteChanges

Spec == Init /\ [][Next]_vars

\* What goes on without a failure: processes run, the clock runs, the queue
\* hands out waiting jobs, finds the locks of dead workers expired, and the
\* scheduler's coordinator comes round.  Requests to the site end (the budget
\* of the profile bounds them), so collecting does not go on for ever.
Fairness ==
  /\ \A w \in Workers : WF_vars(Execute(w)) /\ WF_vars(Watch(w))
  /\ WF_vars(\E w \in Workers : Fetch(w))
  /\ WF_vars(Abandoned)
  /\ WF_vars(Tick)
  /\ WF_vars(Inspect \/ Reconcile)

FairSpec == Spec /\ Fairness

-----------------------------------------------------------------------------
(* Properties.                                                               *)

\* Executions hold the scan one after the other and only the holder's results
\* are written; nobody closes a scan somebody holds, and a closed scan stays
\* as it is: see DeepContract (claim, persistDeepCheckRuns, recordDeepFailure
\* and reconcileStaleDeepScan together).
Contract == INSTANCE DeepContract WITH
  MaxEpochs <- MaxDeepAttempts, status <- scan, epoch <- Latest,
  holder <- IF Latest > 0 /\ Live(Latest) THEN Latest ELSE 0,
  author <- results
ImplementsContract == Contract!Spec

\* Only the newest attempt may read "running", and none does once the scan is
\* closed, although expired, released and reconciled attempts are each closed
\* by somebody else (claimDeepLease, releaseDeepLease, reconcileStaleDeepScan).
OneRunningAttempt ==
  \A n \in 1..Latest :
    attempts[n].status = "running" => n = Latest /\ scan = "running"

\* Check runs exist only of the last attempt, together with the final status
\* they justify; a scan is not completed without them.
ResultsAreFinal ==
  /\ scan = "completed" => results > 0
  /\ results > 0 => /\ results = Latest /\ scan \in {"completed", "failed"}
                    /\ attempts[results].status = scan

\* A transport to the site is open only while its execution has the lease, so
\* no two executions contact the site at once (v3-deep-activation.md, "Lease
\* perdu": an execution without a valid lease must abandon its transports).
TransportsUnderLease ==
  \A w \in Workers : worker[w].transport => Live(worker[w].attempt)

\* A DNS outage postpones the scan (v3-deep-activation.md): it is not what
\* closes it.
OutagePostpones ==
  \A w \in Workers :
    worker[w].decision = "outage" => results # worker[w].attempt

\* A running Deep scan is closed in the end: by its execution, by the failure
\* of the last one, or by the reconciler.
DeepScansSettle == scan = "running" ~> scan \in {"completed", "failed"}
==============================================================================
