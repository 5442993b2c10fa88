--------------------------- MODULE DeepLeaseProofs ---------------------------
(***************************************************************************)
(* Proofs about DeepLease, for any number of workers, attempts and         *)
(* failures and for any lease, margin and delay.                           *)
(***************************************************************************)
EXTENDS DeepLease, SequenceTheorems, TLAPS

-----------------------------------------------------------------------------
(* Records keep their types field by field.                                  *)

LEMMA WorkerField ==
  ASSUME NEW r \in WorkerRecords
  PROVE  /\ \A x \in Pcs : [r EXCEPT !.pc = x] \in WorkerRecords
         /\ \A x \in Nat : [r EXCEPT !.made = x] \in WorkerRecords
         /\ \A x \in Nat : [r EXCEPT !.attempt = x] \in WorkerRecords
         /\ \A x \in Decisions : [r EXCEPT !.decision = x] \in WorkerRecords
         /\ \A x \in Nat : [r EXCEPT !.generation = x] \in WorkerRecords
         /\ \A x \in BOOLEAN : [r EXCEPT !.checked = x] \in WorkerRecords
         /\ \A x \in BOOLEAN : [r EXCEPT !.transport = x] \in WorkerRecords
         /\ \A x \in Failures : [r EXCEPT !.failure = x] \in WorkerRecords
         /\ \A x \in BOOLEAN : [r EXCEPT !.shutdown = x] \in WorkerRecords
  BY SMTT(30) DEF WorkerRecords

LEMMA MonitorField ==
  ASSUME NEW r \in MonitorRecords
  PROVE  /\ \A x \in BOOLEAN : [r EXCEPT !.armed = x] \in MonitorRecords
         /\ \A x \in BOOLEAN : [r EXCEPT !.aborted = x] \in MonitorRecords
         /\ \A x \in Nat : [r EXCEPT !.watch = x] \in MonitorRecords
         /\ \A x \in Renewals : [r EXCEPT !.renewal = x] \in MonitorRecords
         /\ \A x \in Nat : [r EXCEPT !.waited = x] \in MonitorRecords
  BY SMTT(30) DEF MonitorRecords

LEMMA JobField ==
  ASSUME NEW r \in JobRecords
  PROVE  /\ \A x \in JobStates : [r EXCEPT !.state = x] \in JobRecords
         /\ \A x \in Nat : [r EXCEPT !.made = x] \in JobRecords
         /\ \A x \in Nat : [r EXCEPT !.stalled = x] \in JobRecords
         /\ \A x \in Workers \union {NoWorker} :
              [r EXCEPT !.owner = x] \in JobRecords
  BY SMTT(30) DEF JobRecords

LEMMA SiteField ==
  ASSUME NEW r \in SiteRecords
  PROVE  /\ \A x \in BOOLEAN : [r EXCEPT !.active = x] \in SiteRecords
         /\ \A x \in BOOLEAN : [r EXCEPT !.valid = x] \in SiteRecords
         /\ \A x \in Nat : [r EXCEPT !.generation = x] \in SiteRecords
         /\ \A x \in Nat : [r EXCEPT !.by = x] \in SiteRecords
  BY SMTT(30) DEF SiteRecords

LEMMA NullRecords ==
  /\ Idle \in WorkerRecords /\ NoMonitor \in MonitorRecords
  /\ NoJob \in JobRecords /\ Released \in AttemptRecords
  BY DEF Idle, WorkerRecords, Pcs, Decisions, Failures, NoMonitor,
         MonitorRecords, Renewals, NoJob, JobRecords, JobStates, Released,
         AttemptRecords, AttemptStatuses

\* A failing execution keeps the types of both records it touches.
LEMMA ThrowsTyped ==
  ASSUME TypeOK, NEW w \in Workers, NEW failure \in Failures, Throws(w, failure)
  PROVE  /\ worker' \in [Workers -> WorkerRecords]
         /\ monitor' \in [Workers -> MonitorRecords]
<1> DEFINE r1 == [worker[w] EXCEPT !.pc = "release"]
           r2 == [r1 EXCEPT !.failure = failure]
           r3 == [r2 EXCEPT !.checked = FALSE]
           r4 == [r3 EXCEPT !.transport = FALSE]
<1>1. worker \in [Workers -> WorkerRecords] /\ worker[w] \in WorkerRecords
  BY DEF TypeOK
<1>2. r1 \in WorkerRecords BY <1>1, WorkerField DEF Pcs
<1>3. r2 \in WorkerRecords BY <1>2, WorkerField
<1>4. r3 \in WorkerRecords BY <1>3, WorkerField
<1>5. r4 \in WorkerRecords BY <1>4, WorkerField
<1>6. worker' = [worker EXCEPT ![w] = r4] BY DEF Throws
<1>7. [monitor[w] EXCEPT !.armed = FALSE] \in MonitorRecords
  BY MonitorField DEF TypeOK
<1> HIDE DEF r4
<1> QED BY <1>1, <1>5, <1>6, <1>7 DEF TypeOK, Throws

\* So does an abort.
LEMMA AbortsTyped ==
  ASSUME TypeOK, NEW w \in Workers, Aborts(w)
  PROVE  /\ worker' \in [Workers -> WorkerRecords]
         /\ monitor' \in [Workers -> MonitorRecords]
<1> DEFINE m1 == [monitor[w] EXCEPT !.aborted = TRUE]
           m2 == [m1 EXCEPT !.renewal = "no"]
<1>1. monitor \in [Workers -> MonitorRecords] /\ monitor[w] \in MonitorRecords
  BY DEF TypeOK
<1>2. m1 \in MonitorRecords BY <1>1, MonitorField
<1>3. m2 \in MonitorRecords BY <1>2, MonitorField DEF Renewals
<1>4. monitor' = [monitor EXCEPT ![w] = m2] BY DEF Aborts
<1>5. [worker[w] EXCEPT !.transport = FALSE] \in WorkerRecords
  BY WorkerField DEF TypeOK
<1> HIDE DEF m2
<1> QED BY <1>1, <1>3, <1>4, <1>5 DEF TypeOK, Aborts

\* And every single-step change of a worker's place.
LEMMA GoesTyped ==
  ASSUME TypeOK, NEW w \in Workers, NEW pc \in Pcs, Goes(w, pc)
  PROVE  worker' \in [Workers -> WorkerRecords]
  BY WorkerField DEF TypeOK, Goes

LEMMA EndsTyped ==
  ASSUME TypeOK, NEW w \in Workers, NEW failure \in Failures, Ends(w, failure)
  PROVE  worker' \in [Workers -> WorkerRecords]
<1> DEFINE r1 == [worker[w] EXCEPT !.pc = "settle"]
           r2 == [r1 EXCEPT !.failure = failure]
<1>1. r1 \in WorkerRecords BY WorkerField DEF TypeOK, Pcs
<1>2. r2 \in WorkerRecords BY <1>1, WorkerField
<1>3. worker' = [worker EXCEPT ![w] = r2] BY DEF Ends
<1> HIDE DEF r2
<1> QED BY <1>2, <1>3 DEF TypeOK

LEMMA DecidesTyped ==
  ASSUME TypeOK, NEW w \in Workers, NEW decision \in Decisions,
         Decides(w, decision)
  PROVE  worker' \in [Workers -> WorkerRecords]
<1> DEFINE r1 == [worker[w] EXCEPT !.pc = "decided"]
           r2 == [r1 EXCEPT !.decision = decision]
<1>1. r1 \in WorkerRecords BY WorkerField DEF TypeOK, Pcs
<1>2. r2 \in WorkerRecords BY <1>1, WorkerField
<1>3. worker' = [worker EXCEPT ![w] = r2] BY DEF Decides
<1> HIDE DEF r2
<1> QED BY <1>2, <1>3 DEF TypeOK

-----------------------------------------------------------------------------
(* The invariants.                                                           *)

\* Where an execution has an attempt of its own.
Leased == {"claimed", "held", "lookup", "confirm", "decided", "collect",
           "persist", "persisted", "release", "record"}
\* Where its monitor may run.
Monitored == {"held", "lookup", "confirm", "decided", "collect", "persist",
              "persisted"}
Unmonitored == {"idle", "prepare", "claim", "claimed"}

\* Executions and renewals refer to attempts that exist.
Pointer(w) ==
  /\ worker[w].attempt <= Latest
  /\ worker[w].pc \in Leased => worker[w].attempt > 0
  /\ monitor[w].armed => worker[w].pc \in Monitored
  /\ monitor[w].renewal # "no" =>
       worker[w].attempt > 0 /\ worker[w].pc \notin Unmonitored

Typed == TypeOK /\ \A w \in Workers : Pointer(w)

\* What makes OneRunningAttempt and ResultsAreFinal inductive is each other:
\* a claim needs a scan without results, results need a live lease, and only
\* the newest attempt can have one.
Fenced == Typed /\ OneRunningAttempt /\ ResultsAreFinal

-----------------------------------------------------------------------------
(* How the actions change the attempts.                                      *)

LEMMA FunctionIsSequence ==
  ASSUME NEW S, NEW n \in Nat, NEW f \in [1..n -> S]
  PROVE  f \in Seq(S) /\ Len(f) = n
<1>1. f \in Seq(S) BY SeqDef
<1>2. DOMAIN f = 1..Len(f) /\ Len(f) \in Nat BY <1>1, LenProperties
<1>3. DOMAIN f = 1..n OBVIOUS
<1>4. 1..n = 1..Len(f) BY <1>2, <1>3
<1> QED BY <1>1, <1>2, <1>4

LEMMA LatestTyped ==
  ASSUME TypeOK
  PROVE  /\ attempts \in Seq(AttemptRecords) /\ Latest \in Nat
         /\ \A n \in 1..Latest : /\ attempts[n] \in AttemptRecords
                                 /\ attempts[n].status \in AttemptStatuses
                                 /\ attempts[n].left \in Nat
<1>1. attempts \in Seq(AttemptRecords) BY DEF TypeOK
<1>2. attempts \in [1..Latest -> AttemptRecords] /\ Latest \in Nat
  BY <1>1, LenProperties DEF Latest
<1> QED BY <1>1, <1>2 DEF AttemptRecords

LEMMA AttemptReplaced ==
  ASSUME TypeOK, NEW n \in 1..Latest, NEW r \in AttemptRecords,
         attempts' = [attempts EXCEPT ![n] = r]
  PROVE  /\ attempts' \in Seq(AttemptRecords)
         /\ Latest' = Latest
         /\ \A k \in 1..Latest : attempts'[k] = IF k = n THEN r ELSE attempts[k]
  BY LatestTyped, ExceptSeq DEF Latest

LEMMA AttemptField ==
  ASSUME NEW r \in AttemptRecords
  PROVE  /\ \A x \in AttemptStatuses :
              [r EXCEPT !.status = x] = [status |-> x, left |-> r.left]
         /\ \A x : [r EXCEPT !.left = x] = [status |-> r.status, left |-> x]
         /\ \A x \in AttemptStatuses, y \in Nat :
              [status |-> x, left |-> y] \in AttemptRecords
         /\ r.status \in AttemptStatuses /\ r.left \in Nat
  BY DEF AttemptRecords

LEMMA ClaimAttempts ==
  ASSUME TypeOK, NEW w \in Workers, Claim(w)
  PROVE  /\ attempts' \in Seq(AttemptRecords)
         /\ Latest' = Latest + 1
         /\ attempts'[Latest + 1] = [status |-> "running", left |-> LeaseTime]
         /\ \A n \in 1..Latest : attempts'[n] =
              IF n = Latest /\ attempts[n].status = "running"
              THEN Released ELSE attempts[n]
<1> DEFINE fresh == [status |-> "running", left |-> LeaseTime]
<1>1. fresh \in AttemptRecords
  BY TimesAssumption DEF AttemptRecords, AttemptStatuses
<1>2. NewestExpires \in [1..Latest -> AttemptRecords]
  BY LatestTyped, NullRecords DEF NewestExpires
<1>3. NewestExpires \in Seq(AttemptRecords) /\ Len(NewestExpires) = Latest
  BY <1>2, LatestTyped, FunctionIsSequence
<1>4. attempts' = Append(NewestExpires, fresh) BY DEF Claim
<1>5. \A n \in 1..Latest : NewestExpires[n] =
        IF n = Latest /\ attempts[n].status = "running"
        THEN Released ELSE attempts[n]
  BY DEF NewestExpires
<1> HIDE DEF fresh
<1>6. /\ attempts' \in Seq(AttemptRecords) /\ Len(attempts') = Latest + 1
      /\ attempts'[Latest + 1] = fresh
      /\ \A n \in 1..Latest : attempts'[n] = NewestExpires[n]
  BY <1>1, <1>3, <1>4, AppendProperties
<1> QED BY <1>5, <1>6 DEF Latest, fresh

LEMMA TickAttempts ==
  ASSUME TypeOK, Tick
  PROVE  /\ attempts' \in Seq(AttemptRecords)
         /\ Latest' = Latest
         /\ \A n \in 1..Latest :
              /\ attempts'[n].status = attempts[n].status
              /\ attempts'[n].left = Less(attempts[n].left)
<1> DEFINE f == [n \in 1..Latest |->
                   [attempts[n] EXCEPT !.left = Less(attempts[n].left)]]
<1>1. \A n \in 1..Latest :
        /\ f[n] = [status |-> attempts[n].status,
                   left |-> Less(attempts[n].left)]
        /\ f[n] \in AttemptRecords
  <2> TAKE n \in 1..Latest
  <2>1. attempts[n] \in AttemptRecords BY LatestTyped
  <2>2. Less(attempts[n].left) \in Nat BY LatestTyped DEF Less
  <2>3. f[n] = [attempts[n] EXCEPT !.left = Less(attempts[n].left)] OBVIOUS
  <2> QED BY <2>1, <2>2, <2>3, AttemptField
<1>2. f \in [1..Latest -> AttemptRecords] BY <1>1
<1>3. attempts' = f BY DEF Tick
<1> HIDE DEF f
<1>4. f \in Seq(AttemptRecords) /\ Len(f) = Latest
  BY <1>2, LatestTyped, FunctionIsSequence
<1>5. ASSUME NEW n \in 1..Latest
      PROVE  /\ attempts'[n].status = attempts[n].status
             /\ attempts'[n].left = Less(attempts[n].left)
  <2> DEFINE left == Less(attempts[n].left)
  <2>1. attempts'[n] = [status |-> attempts[n].status, left |-> left]
    BY <1>1, <1>3
  <2> HIDE DEF left
  <2>2. attempts'[n].status = attempts[n].status /\ attempts'[n].left = left
    BY <2>1
  <2> QED BY <2>2 DEF left
<1> QED BY <1>3, <1>4, <1>5 DEF Latest

\* A reconciler that closes the scan closes the newest attempt with it.
Closes == scan = "running" /\ Unleased /\ ~ComesAgain(seen)

LEMMA ReconcileAttempts ==
  ASSUME TypeOK, Reconcile, Closes
  PROVE  /\ attempts' \in Seq(AttemptRecords)
         /\ Latest' = Latest
         /\ \A n \in 1..Latest : attempts'[n] =
              IF n = Latest /\ attempts[n].status \in {"running", "retrying"}
              THEN [status |-> "failed", left |-> 0] ELSE attempts[n]
<1> DEFINE f == [n \in 1..Latest |->
               IF n = Latest /\ attempts[n].status \in {"running", "retrying"}
               THEN [status |-> "failed", left |-> 0] ELSE attempts[n]]
<1>1. f \in [1..Latest -> AttemptRecords]
  BY LatestTyped DEF AttemptRecords, AttemptStatuses
<1>2. attempts' = f BY DEF Reconcile, Closes
<1>3. \A n \in 1..Latest : f[n] =
        IF n = Latest /\ attempts[n].status \in {"running", "retrying"}
        THEN [status |-> "failed", left |-> 0] ELSE attempts[n]
  OBVIOUS
<1> HIDE DEF f
<1>4. f \in Seq(AttemptRecords) /\ Len(f) = Latest
  BY <1>1, LatestTyped, FunctionIsSequence
<1> QED BY <1>2, <1>3, <1>4 DEF Latest

LEMMA PersistAttempts ==
  ASSUME Typed, NEW w \in Workers, Persist(w)
  PROVE  LET n == worker[w].attempt
         IN /\ n \in 1..Latest /\ Live(n)
            /\ attempts' \in Seq(AttemptRecords)
            /\ Latest' = Latest
            /\ \A k \in 1..Latest : attempts'[k] =
                 IF k = n THEN [status |-> scan', left |-> 0] ELSE attempts[k]
            /\ scan' \in {"completed", "failed"}
<1> DEFINE n == worker[w].attempt
<1>1. n \in 1..Latest
  BY LatestTyped DEF Typed, Pointer, Persist, Works, At, Leased, TypeOK,
                     WorkerRecords
<1>2. Live(n) BY DEF Persist, MayPersist, Current
<1>3. scan' \in {"completed", "failed"} BY DEF Persist, Verdict
<1>4. attempts' = [attempts EXCEPT ![n] = [status |-> scan', left |-> 0]]
  BY DEF Persist
<1>5. [status |-> scan', left |-> 0] \in AttemptRecords
  BY <1>3 DEF AttemptRecords, AttemptStatuses
<1> HIDE DEF n
<1>6. /\ attempts' \in Seq(AttemptRecords) /\ Latest' = Latest
      /\ \A k \in 1..Latest : attempts'[k] =
           IF k = n THEN [status |-> scan', left |-> 0] ELSE attempts[k]
  BY <1>1, <1>4, <1>5, AttemptReplaced DEF Typed
<1> QED BY <1>1, <1>2, <1>3, <1>6 DEF n

LEMMA ReleaseAttempts ==
  ASSUME Typed, NEW w \in Workers, Release(w)
  PROVE  LET n == worker[w].attempt
         IN /\ n \in 1..Latest
            /\ attempts' \in Seq(AttemptRecords)
            /\ Latest' = Latest
            /\ \A k \in 1..Latest : attempts'[k] =
                 IF k = n /\ attempts[n].status = "running"
                 THEN Released ELSE attempts[k]
<1> DEFINE n == worker[w].attempt
<1>1. n \in 1..Latest
  BY LatestTyped DEF Typed, Pointer, Release, At, Leased, TypeOK, WorkerRecords
<1>2. CASE attempts[n].status = "running"
  <2>1. attempts' = [attempts EXCEPT ![n] = Released] BY <1>2 DEF Release, AfterRelease
  <2> HIDE DEF n
  <2>2. /\ attempts' \in Seq(AttemptRecords) /\ Latest' = Latest
        /\ \A k \in 1..Latest : attempts'[k] =
             IF k = n THEN Released ELSE attempts[k]
    BY <1>1, <2>1, NullRecords, AttemptReplaced DEF Typed
  <2> QED BY <1>1, <1>2, <2>2 DEF n
<1>3. CASE attempts[n].status # "running"
  <2>1. attempts' = attempts BY <1>3 DEF Release, AfterRelease
  <2> QED BY <1>1, <1>3, <2>1, LatestTyped DEF Typed, Latest
<1> QED BY <1>2, <1>3

LEMMA RecordAttempts ==
  ASSUME Typed, NEW w \in Workers, Record(w), OwnsFailure(w), LastTry(w)
  PROVE  LET n == worker[w].attempt
         IN /\ n \in 1..Latest /\ n = Latest /\ attempts[n].status = "retrying"
            /\ attempts' \in Seq(AttemptRecords)
            /\ Latest' = Latest
            /\ \A k \in 1..Latest : attempts'[k] =
                 IF k = n THEN [status |-> "failed", left |-> attempts[n].left]
                 ELSE attempts[k]
            /\ scan = "running" /\ scan' = "failed"
<1> DEFINE n == worker[w].attempt
           r == [status |-> "failed", left |-> attempts[n].left]
<1>1. n \in 1..Latest
  BY LatestTyped DEF Typed, Pointer, Record, At, Leased, TypeOK, WorkerRecords
<1>2. /\ n = Latest /\ attempts[n].status = "retrying"
      /\ scan = "running" /\ scan' = "failed"
  BY DEF OwnsFailure, Record
<1>3. attempts[n] \in AttemptRecords BY <1>1, LatestTyped DEF Typed
<1>4. r \in AttemptRecords /\ r = [attempts[n] EXCEPT !.status = "failed"]
  BY <1>3, AttemptField DEF AttemptStatuses
<1>5. attempts' = [attempts EXCEPT ![n] = r] BY <1>4 DEF Record
<1> HIDE DEF n, r
<1>6. /\ attempts' \in Seq(AttemptRecords) /\ Latest' = Latest
      /\ \A k \in 1..Latest : attempts'[k] = IF k = n THEN r ELSE attempts[k]
  BY <1>1, <1>4, <1>5, AttemptReplaced DEF Typed
<1> QED BY <1>1, <1>2, <1>6 DEF n, r

LEMMA RenewAttempts ==
  ASSUME Typed, NEW w \in Workers, Renew(w), Live(worker[w].attempt)
  PROVE  LET n == worker[w].attempt
         IN /\ n \in 1..Latest
            /\ attempts' \in Seq(AttemptRecords)
            /\ Latest' = Latest
            /\ \A k \in 1..Latest : attempts'[k] =
                 IF k = n THEN [status |-> "running", left |-> LeaseTime]
                 ELSE attempts[k]
<1> DEFINE n == worker[w].attempt
           r == [status |-> "running", left |-> LeaseTime]
<1>1. n \in 1..Latest
  <2>1. Pointer(w) /\ monitor[w].renewal # "no" BY DEF Typed, Renew
  <2>2. n > 0 /\ n <= Latest BY <2>1 DEF Pointer
  <2>3. n \in Nat /\ Latest \in Nat
    BY LatestTyped DEF Typed, TypeOK, WorkerRecords
  <2> QED BY <2>2, <2>3
<1>2. attempts[n] \in AttemptRecords BY <1>1, LatestTyped DEF Typed
<1>3. attempts[n].status = "running" BY DEF Live
<1>4. r \in AttemptRecords /\ r = [attempts[n] EXCEPT !.left = LeaseTime]
  BY <1>2, <1>3, AttemptField, TimesAssumption DEF AttemptStatuses
<1>5. attempts' = [attempts EXCEPT ![n] = r]
  <2>1. attempts' = [attempts EXCEPT ![n].left = LeaseTime] BY DEF Renew
  <2> HIDE DEF r
  <2> QED BY <1>4, <2>1
<1> HIDE DEF n, r
<1>6. /\ attempts' \in Seq(AttemptRecords) /\ Latest' = Latest
      /\ \A k \in 1..Latest : attempts'[k] = IF k = n THEN r ELSE attempts[k]
  BY <1>1, <1>4, <1>5, AttemptReplaced DEF Typed
<1> QED BY <1>1, <1>6 DEF n, r

-----------------------------------------------------------------------------
(* Type correctness.                                                         *)

LEMMA QueueTyped ==
  ASSUME TypeOK, Enqueue \/ TakenBack \/ JobLost
  PROVE  job' \in JobRecords
<1>1. job \in JobRecords /\ job.stalled \in Nat BY DEF TypeOK, JobRecords
<1>2. CASE Enqueue
  BY <1>2, NullRecords, JobField DEF Enqueue, JobStates
<1>3. CASE TakenBack
  <2> DEFINE state == IF job.stalled < MaxStalled THEN "waiting" ELSE "failed"
             j1 == [job EXCEPT !.stalled = @ + 1]
             j2 == [j1 EXCEPT !.owner = NoWorker]
             j3 == [j2 EXCEPT !.state = state]
  <2>1. j1 \in JobRecords BY <1>1, JobField
  <2>2. j2 \in JobRecords BY <2>1, JobField
  <2>3. j3 \in JobRecords BY <2>2, JobField DEF JobStates
  <2> QED BY <1>3, <2>3 DEF TakenBack
<1>4. CASE JobLost BY <1>4, NullRecords DEF JobLost
<1> QED BY <1>2, <1>3, <1>4

LEMMA JobTyped ==
  ASSUME TypeOK, NEW w \in Workers, Fetch(w) \/ Settle(w)
  PROVE  job' \in JobRecords
<1>1. job \in JobRecords /\ job.made \in Nat BY DEF TypeOK, JobRecords
<1>2. CASE Fetch(w)
  <2>1. [job EXCEPT !.state = "active"] \in JobRecords
    BY <1>1, JobField DEF JobStates
  <2>2. [[job EXCEPT !.state = "active"] EXCEPT !.owner = w] \in JobRecords
    BY <2>1, JobField
  <2> QED BY <1>2, <2>2 DEF Fetch
<1>3. CASE Settle(w)
  <2>1. \A state \in {"completed", "failed"} :
          [job EXCEPT !.state = state, !.owner = NoWorker] \in JobRecords
    <3> TAKE state \in {"completed", "failed"}
    <3>1. [job EXCEPT !.state = state] \in JobRecords
      BY <1>1, JobField DEF JobStates
    <3>2. [[job EXCEPT !.state = state] EXCEPT !.owner = NoWorker] \in JobRecords
      BY <3>1, JobField
    <3> QED BY <3>2
  <2>2. [job EXCEPT !.state = "waiting", !.owner = NoWorker,
                    !.made = job.made + 1] \in JobRecords
    <3> DEFINE more == job.made + 1
               j1 == [job EXCEPT !.state = "waiting"]
               j2 == [j1 EXCEPT !.owner = NoWorker]
               j3 == [j2 EXCEPT !.made = more]
    <3>0. more \in Nat BY <1>1
    <3> HIDE DEF more
    <3>1. j1 \in JobRecords BY <1>1, JobField DEF JobStates
    <3>2. j2 \in JobRecords BY <3>1, JobField
    <3>3. j3 \in JobRecords BY <3>0, <3>2, JobField
    <3> QED BY <3>3 DEF more
  <2> QED BY <1>1, <1>3, <2>1, <2>2 DEF Settle, AfterExecution
<1> QED BY <1>2, <1>3

LEMMA SiteTyped ==
  ASSUME TypeOK, NEW w \in Workers, ProofFound(w) \/ ProofMissing(w)
  PROVE  site' \in SiteRecords
<1>1. site \in SiteRecords /\ worker[w].attempt \in Nat
  BY DEF TypeOK, WorkerRecords
<1>2. CASE ProofFound(w) BY <1>1, <1>2, SiteField DEF ProofFound
<1>3. CASE ProofMissing(w) BY <1>1, <1>3, SiteField DEF ProofMissing
<1> QED BY <1>2, <1>3

LEMMA SiteChangesTyped ==
  ASSUME TypeOK, SiteChanges
  PROVE  site' \in SiteRecords
<1>s. site \in SiteRecords /\ site.active \in BOOLEAN /\ site.generation \in Nat
  BY DEF TypeOK, SiteRecords
<1>1. [site EXCEPT !.active = ~@] \in SiteRecords
  <2>1. (~site.active) \in BOOLEAN BY <1>s
  <2> QED BY <1>s, <2>1, SiteField
<1>2. [site EXCEPT !.valid = FALSE] \in SiteRecords BY <1>s, SiteField
<1>3. [site EXCEPT !.by = 0] \in SiteRecords BY <1>s, SiteField
<1>4. [site EXCEPT !.valid = TRUE, !.by = 0,
                   !.generation = site.generation + 1] \in SiteRecords
  <2> DEFINE next == site.generation + 1
             s1 == [site EXCEPT !.valid = TRUE]
             s2 == [s1 EXCEPT !.by = 0]
             s3 == [s2 EXCEPT !.generation = next]
  <2>0. next \in Nat BY <1>s
  <2> HIDE DEF next
  <2>1. s1 \in SiteRecords BY <1>s, SiteField
  <2>2. s2 \in SiteRecords BY <2>1, SiteField
  <2>3. s3 \in SiteRecords BY <2>0, <2>2, SiteField
  <2> QED BY <2>3 DEF next
<1> QED BY <1>1, <1>2, <1>3, <1>4 DEF SiteChanges

LEMMA MonitorTyped ==
  ASSUME TypeOK, NEW w \in Workers,
         NEW m \in MonitorRecords, monitor' = [monitor EXCEPT ![w] = m]
  PROVE  monitor' \in [Workers -> MonitorRecords]
  BY DEF TypeOK

LEMMA WorkerTyped ==
  ASSUME TypeOK, NEW w \in Workers,
         NEW r \in WorkerRecords, worker' = [worker EXCEPT ![w] = r]
  PROVE  worker' \in [Workers -> WorkerRecords]
  BY DEF TypeOK

LEMMA ExecuteTyped ==
  ASSUME Typed, NEW w \in Workers, Execute(w)
  PROVE  TypeOK'
<1> USE LatestTyped DEF Typed
<1>t. /\ worker[w] \in WorkerRecords /\ monitor[w] \in MonitorRecords
      /\ worker[w].attempt \in Nat /\ worker[w].shutdown \in BOOLEAN
      /\ worker[w].failure \in Failures /\ site.generation \in Nat
      /\ LeaseTime - RenewTime \in Nat
  BY TimesAssumption DEF TypeOK, WorkerRecords, SiteRecords
<1>1. CASE Settle(w)
  BY <1>1, JobTyped, NullRecords, WorkerTyped, MonitorTyped DEF Settle, TypeOK
<1>2. CASE Prepare(w)
  <2>1. worker' \in [Workers -> WorkerRecords]
    BY <1>2, GoesTyped, EndsTyped DEF Prepare, Pcs, Failures
  <2>2. scan' \in ScanStatuses BY <1>2 DEF Prepare, TypeOK, ScanStatuses
  <2> QED BY <1>2, <2>1, <2>2 DEF Prepare, TypeOK
<1>3. CASE Claim(w)
  <2>1. [[worker[w] EXCEPT !.pc = "claimed"] EXCEPT !.attempt = Latest + 1]
          \in WorkerRecords
    <3> DEFINE next == Latest + 1
    <3>1. [worker[w] EXCEPT !.pc = "claimed"] \in WorkerRecords
      BY <1>t, WorkerField DEF Pcs
    <3>2. next \in Nat OBVIOUS
    <3> HIDE DEF next
    <3>3. [[worker[w] EXCEPT !.pc = "claimed"] EXCEPT !.attempt = next]
            \in WorkerRecords
      BY <3>1, <3>2, WorkerField
    <3> QED BY <3>3 DEF next
  <2>2. worker' \in [Workers -> WorkerRecords]
    BY <1>3, <2>1, WorkerTyped DEF Claim
  <2>3. monitor' \in [Workers -> MonitorRecords]
    BY <1>3, <1>t, MonitorField, MonitorTyped DEF Claim
  <2>4. attempts' \in Seq(AttemptRecords) BY <1>3, ClaimAttempts
  <2> QED BY <1>3, <2>2, <2>3, <2>4 DEF Claim, TypeOK
<1>4. CASE ClaimBusy(w)
  BY <1>4, GoesTyped, EndsTyped DEF ClaimBusy, TypeOK, Pcs, Failures
<1>5. CASE ClaimRefused(w)
  BY <1>5, EndsTyped DEF ClaimRefused, TypeOK, Failures
<1>6. CASE ClaimAnswered(w)
  <2> DEFINE m1 == [NoMonitor EXCEPT !.armed = TRUE]
             m2 == [m1 EXCEPT !.aborted = worker[w].shutdown]
             m == [m2 EXCEPT !.watch = LeaseTime - RenewTime]
  <2>0. m1 \in MonitorRecords /\ m2 \in MonitorRecords
    <3>1. m1 \in MonitorRecords BY NullRecords, MonitorField
    <3> QED BY <1>t, <3>1, MonitorField
  <2>1. m \in MonitorRecords BY <1>t, <2>0, MonitorField
  <2>2. monitor' = [monitor EXCEPT ![w] = m] BY <1>6 DEF ClaimAnswered
  <2> HIDE DEF m
  <2>3. worker' \in [Workers -> WorkerRecords]
    BY <1>6, GoesTyped DEF ClaimAnswered, Pcs
  <2>4. monitor' \in [Workers -> MonitorRecords] BY <2>1, <2>2, MonitorTyped
  <2> QED BY <1>6, <2>3, <2>4 DEF ClaimAnswered, TypeOK
<1>7. CASE Look(w)
  <2>1. [[worker[w] EXCEPT !.pc = "lookup"] EXCEPT !.generation = site.generation]
          \in WorkerRecords
    <3>1. [worker[w] EXCEPT !.pc = "lookup"] \in WorkerRecords
      BY <1>t, WorkerField DEF Pcs
    <3> QED BY <1>t, <3>1, WorkerField
  <2>2. worker' \in [Workers -> WorkerRecords]
    BY <1>7, <2>1, WorkerTyped, DecidesTyped DEF Look, Decisions
  <2> QED BY <1>7, <2>2 DEF Look, TypeOK
<1>8. CASE ProofFound(w)
  BY <1>8, SiteTyped, GoesTyped DEF ProofFound, TypeOK, Pcs
<1>9. CASE ProofRefused(w)
  BY <1>9, DecidesTyped DEF ProofRefused, TypeOK, Decisions
<1>10. CASE Confirm(w)
  BY <1>10, DecidesTyped DEF Confirm, TypeOK, Decisions
<1>11. CASE Decided(w)
  BY <1>11, GoesTyped DEF Decided, TypeOK, Pcs
<1>12. CASE Collected(w)
  <2> DEFINE r1 == [worker[w] EXCEPT !.pc = "persist"]
             r2 == [r1 EXCEPT !.checked = FALSE]
             r3 == [r2 EXCEPT !.transport = FALSE]
  <2>1. r1 \in WorkerRecords BY <1>t, WorkerField DEF Pcs
  <2>2. r2 \in WorkerRecords BY <2>1, WorkerField
  <2>3. r3 \in WorkerRecords BY <2>2, WorkerField
  <2>4. worker' = [worker EXCEPT ![w] = r3] BY <1>12 DEF Collected
  <2> HIDE DEF r3
  <2> QED BY <1>12, <2>3, <2>4, WorkerTyped DEF Collected, TypeOK
<1>13. CASE CheckFails(w) \/ Abandon(w) \/ PersistRefused(w) \/ Persisted(w)
  <2>1. \E failure \in Failures : Throws(w, failure)
    BY <1>13 DEF CheckFails, Abandon, PersistRefused, Persisted, Failures
  <2> QED BY <1>13, <2>1, ThrowsTyped
        DEF CheckFails, Abandon, PersistRefused, Persisted, TypeOK
<1>14. CASE Persist(w)
  <2>1. attempts' \in Seq(AttemptRecords) /\ scan' \in ScanStatuses
    BY <1>14, PersistAttempts DEF ScanStatuses
  <2>2. worker' \in [Workers -> WorkerRecords]
    BY <1>14, GoesTyped DEF Persist, Pcs
  <2> QED BY <1>14, <1>t, <2>1, <2>2 DEF Persist, TypeOK
<1>15. CASE Release(w)
  <2> DEFINE failure == IF worker[w].failure = "final" /\ worker[w].shutdown
                        THEN "retry" ELSE worker[w].failure
             pc == IF failure = "none" THEN "settle" ELSE "record"
             r1 == [worker[w] EXCEPT !.pc = pc]
             r2 == [r1 EXCEPT !.failure = failure]
  <2>1. failure \in Failures /\ pc \in Pcs BY <1>t DEF Failures, Pcs
  <2>2. worker' = [worker EXCEPT ![w] = r2] BY <1>15 DEF Release
  <2> HIDE DEF failure, pc
  <2>3. r1 \in WorkerRecords BY <1>t, <2>1, WorkerField
  <2>4. r2 \in WorkerRecords BY <2>1, <2>3, WorkerField
  <2> HIDE DEF r2
  <2> QED BY <1>15, <2>2, <2>4, WorkerTyped, ReleaseAttempts DEF Release, TypeOK
<1>16. CASE Record(w)
  <2>1. scan' \in ScanStatuses /\ attempts' \in Seq(AttemptRecords)
    BY <1>16, RecordAttempts DEF Record, TypeOK, ScanStatuses
  <2> QED BY <1>16, <2>1, GoesTyped DEF Record, TypeOK, Pcs
<1>17. CASE Interrupted(w)
  BY <1>17, EndsTyped DEF Interrupted, TypeOK, Failures
<1> QED
  BY <1>1, <1>2, <1>3, <1>4, <1>5, <1>6, <1>7, <1>8, <1>9, <1>10, <1>11,
     <1>12, <1>13, <1>14, <1>15, <1>16, <1>17 DEF Execute

LEMMA WorkerStepTyped ==
  ASSUME Typed, NEW w \in Workers,
         Fetch(w) \/ Browse(w) \/ Watch(w) \/ Trouble(w)
  PROVE  TypeOK'
<1> USE LatestTyped DEF Typed
<1>t. /\ worker[w] \in WorkerRecords /\ monitor[w] \in MonitorRecords
      /\ monitor[w].armed \in BOOLEAN /\ monitor[w].watch \in Nat
      /\ job.made \in Nat /\ faults \in Nat
      /\ LeaseTime - RenewTime \in Nat
  BY TimesAssumption DEF TypeOK, MonitorRecords, JobRecords
<1>f. ASSUME Fault PROVE faults' \in Nat BY <1>t, <1>f DEF Fault
<1>1. CASE Fetch(w)
  <2> DEFINE r1 == [Idle EXCEPT !.pc = "prepare"]
             r2 == [r1 EXCEPT !.made = job.made]
  <2>1. r1 \in WorkerRecords BY NullRecords, WorkerField DEF Pcs
  <2>2. r2 \in WorkerRecords BY <1>t, <2>1, WorkerField
  <2>3. worker' = [worker EXCEPT ![w] = r2] BY <1>1 DEF Fetch
  <2> HIDE DEF r2
  <2> QED BY <1>1, <2>2, <2>3, JobTyped, WorkerTyped DEF Fetch, TypeOK
<1>2. CASE Check(w)
  <2>1. [worker[w] EXCEPT !.checked = TRUE] \in WorkerRecords
    BY <1>t, WorkerField
  <2> QED BY <1>2, <2>1, WorkerTyped DEF Check, TypeOK
<1>3. CASE Contact(w)
  <2> DEFINE r1 == [worker[w] EXCEPT !.checked = FALSE]
             r2 == [r1 EXCEPT !.transport = TRUE]
  <2>1. r1 \in WorkerRecords BY <1>t, WorkerField
  <2>2. r2 \in WorkerRecords BY <2>1, WorkerField
  <2>3. worker' = [worker EXCEPT ![w] = r2] BY <1>3 DEF Contact
  <2> HIDE DEF r2
  <2> QED BY <1>3, <2>2, <2>3, WorkerTyped DEF Contact, TypeOK
<1>4. CASE RenewChecks(w)
  <2>1. [monitor[w] EXCEPT !.renewal = "asserted"] \in MonitorRecords
    BY <1>t, MonitorField DEF Renewals
  <2> QED BY <1>4, <2>1, MonitorTyped, AbortsTyped DEF RenewChecks, TypeOK
<1>5. CASE Renew(w)
  <2>1. CASE Live(worker[w].attempt)
    <3> DEFINE m1 == [monitor[w] EXCEPT !.renewal = "updated"]
               m2 == [m1 EXCEPT !.waited = 0]
    <3>1. m1 \in MonitorRecords BY <1>t, MonitorField DEF Renewals
    <3>2. m2 \in MonitorRecords BY <3>1, MonitorField
    <3>3. monitor' = [monitor EXCEPT ![w] = m2] BY <1>5, <2>1 DEF Renew
    <3>4. attempts' \in Seq(AttemptRecords) BY <1>5, <2>1, RenewAttempts
    <3> HIDE DEF m2
    <3> QED BY <1>5, <2>1, <3>2, <3>3, <3>4, MonitorTyped DEF Renew, TypeOK
  <2>2. CASE ~Live(worker[w].attempt)
    BY <1>5, <2>2, AbortsTyped DEF Renew, TypeOK
  <2> QED BY <2>1, <2>2
<1>6. CASE RenewAnswered(w)
  <2> DEFINE m1 == [monitor[w] EXCEPT !.renewal = "no"]
             watch == IF Watching(w) THEN RearmedWatch ELSE monitor[w].watch
             m2 == [m1 EXCEPT !.watch = watch]
  <2>2. monitor' = [monitor EXCEPT ![w] = m2] BY <1>6 DEF RenewAnswered
  <2>3. m1 \in MonitorRecords BY <1>t, MonitorField DEF Renewals
  <2>1. watch \in Nat BY <1>t DEF RearmedWatch
  <2> HIDE DEF m1
  <2> HIDE DEF watch
  <2>4. m2 \in MonitorRecords BY <2>1, <2>3, MonitorField
  <2> HIDE DEF m2
  <2> QED BY <1>6, <2>2, <2>4, MonitorTyped DEF RenewAnswered, TypeOK
<1>7. CASE WatchEnds(w) BY <1>7, AbortsTyped DEF WatchEnds, TypeOK
<1>8. CASE ProofMissing(w)
  BY <1>8, <1>f, SiteTyped, DecidesTyped DEF ProofMissing, TypeOK, Decisions
<1>9. CASE ProofUnavailable(w)
  BY <1>9, <1>f, DecidesTyped DEF ProofUnavailable, TypeOK, Decisions
<1>10. CASE RenewFails(w)
  BY <1>10, <1>f, AbortsTyped DEF RenewFails, TypeOK
<1>11. CASE StatementFails(w)
  <2>1. PICK failure \in {"retry", "final"} :
       \/ /\ worker' = [worker EXCEPT ![w] = [@ EXCEPT
               !.pc = "settle", !.attempt = 0, !.failure = failure]]
          /\ UNCHANGED monitor
       \/ Throws(w, failure)
       \/ Decides(w, "denied") /\ UNCHANGED monitor
       \/ /\ worker' = [worker EXCEPT ![w] = [@ EXCEPT
               !.pc = "record", !.failure = failure]]
          /\ UNCHANGED monitor
       \/ Ends(w, "retry") /\ UNCHANGED monitor
    BY <1>11 DEF StatementFails
  <2>2. failure \in Failures BY DEF Failures
  <2> DEFINE r1 == [worker[w] EXCEPT !.pc = "settle"]
             r2 == [r1 EXCEPT !.attempt = 0]
             r3 == [r2 EXCEPT !.failure = failure]
             q1 == [worker[w] EXCEPT !.pc = "record"]
             q2 == [q1 EXCEPT !.failure = failure]
  <2>3. r1 \in WorkerRecords /\ q1 \in WorkerRecords
    BY <1>t, WorkerField DEF Pcs
  <2>4. r2 \in WorkerRecords BY <2>3, WorkerField
  <2>5. r3 \in WorkerRecords /\ q2 \in WorkerRecords
    BY <2>2, <2>3, <2>4, WorkerField
  <2>6. \/ worker' = [worker EXCEPT ![w] = r3] /\ UNCHANGED monitor
        \/ Throws(w, failure)
        \/ Decides(w, "denied") /\ UNCHANGED monitor
        \/ worker' = [worker EXCEPT ![w] = q2] /\ UNCHANGED monitor
        \/ Ends(w, "retry") /\ UNCHANGED monitor
    BY <2>1
  <2> HIDE DEF r3, q2
  <2>7. /\ worker' \in [Workers -> WorkerRecords]
        /\ monitor' \in [Workers -> MonitorRecords]
    <3>1. CASE worker' = [worker EXCEPT ![w] = r3] /\ UNCHANGED monitor
      BY <2>5, <3>1, WorkerTyped DEF TypeOK
    <3>2. CASE Throws(w, failure) BY <2>2, <3>2, ThrowsTyped
    <3>3. CASE Decides(w, "denied") /\ UNCHANGED monitor
      BY <3>3, DecidesTyped DEF TypeOK, Decisions
    <3>4. CASE worker' = [worker EXCEPT ![w] = q2] /\ UNCHANGED monitor
      BY <2>5, <3>4, WorkerTyped DEF TypeOK
    <3>5. CASE Ends(w, "retry") /\ UNCHANGED monitor
      BY <3>5, EndsTyped DEF TypeOK, Failures
    <3> QED BY <2>6, <3>1, <3>2, <3>3, <3>4, <3>5
  <2> QED BY <1>11, <1>f, <2>7 DEF StatementFails, TypeOK
<1>12. CASE Shutdown(w)
  <2> DEFINE r1 == [worker[w] EXCEPT !.shutdown = TRUE]
             r2 == [r1 EXCEPT !.transport = FALSE]
  <2>1. r1 \in WorkerRecords BY <1>t, WorkerField
  <2>2. r2 \in WorkerRecords BY <2>1, WorkerField
  <2>3. worker' = [worker EXCEPT ![w] = r2] BY <1>12 DEF Shutdown
  <2>4. [monitor[w] EXCEPT !.aborted = monitor[w].armed] \in MonitorRecords
    BY <1>t, MonitorField
  <2> HIDE DEF r2
  <2>5. worker' \in [Workers -> WorkerRecords] BY <2>2, <2>3, WorkerTyped
  <2>6. monitor' \in [Workers -> MonitorRecords]
    BY <1>12, <2>4, MonitorTyped DEF Shutdown
  <2> QED BY <1>12, <1>f, <2>5, <2>6 DEF Shutdown, TypeOK
<1>13. CASE Crash(w)
  BY <1>13, <1>f, NullRecords, WorkerTyped, MonitorTyped DEF Crash, TypeOK
<1> QED
  BY <1>1, <1>2, <1>3, <1>4, <1>5, <1>6, <1>7, <1>8, <1>9, <1>10, <1>11,
     <1>12, <1>13 DEF Browse, Watch, Trouble

LEMMA SystemStepTyped ==
  ASSUME Typed, \/ Enqueue \/ Abandoned \/ Stall \/ JobLost
                \/ Tick \/ Inspect \/ Reconcile \/ SiteChanges
  PROVE  TypeOK'
<1> USE DEF Typed
<1>f. ASSUME Fault PROVE faults' \in Nat BY <1>f DEF Fault, TypeOK
<1>1. CASE Enqueue \/ Abandoned \/ Stall \/ JobLost
  <2>1. job' \in JobRecords BY <1>1, QueueTyped DEF Abandoned, Stall
  <2> QED BY <1>1, <1>f, <2>1
        DEF Enqueue, Abandoned, Stall, TakenBack, JobLost, TypeOK
<1>2. CASE Tick
  <2>1. \A w \in Workers : monitor'[w] \in MonitorRecords
    <3> TAKE w \in Workers
    <3> DEFINE watch == Less(monitor[w].watch)
               waited == IF AwaitsAnswer(w) THEN monitor[w].waited + 1 ELSE 0
               m1 == [monitor[w] EXCEPT !.watch = watch]
               m2 == [m1 EXCEPT !.waited = waited]
    <3>1. watch \in Nat /\ waited \in Nat BY DEF TypeOK, MonitorRecords, Less
    <3>2. monitor'[w] = m2 BY <1>2 DEF Tick
    <3> HIDE DEF watch, waited
    <3>3. m1 \in MonitorRecords BY <3>1, MonitorField DEF TypeOK
    <3>4. m2 \in MonitorRecords BY <3>1, <3>3, MonitorField
    <3> QED BY <3>2, <3>4
  <2>2. monitor' = [w \in Workers |-> monitor'[w]] BY <1>2 DEF Tick
  <2>3. monitor' \in [Workers -> MonitorRecords] BY <2>1, <2>2
  <2> QED BY <1>2, <2>3, TickAttempts DEF Tick, TypeOK
<1>3. CASE Inspect BY <1>3 DEF Inspect, TypeOK, JobRecords
<1>4. CASE Reconcile
  <2>1. CASE Closes
    BY <1>4, <2>1, ReconcileAttempts DEF Reconcile, Closes, TypeOK, ScanStatuses
  <2>2. CASE ~Closes BY <1>4, <2>2 DEF Reconcile, Closes, TypeOK
  <2> QED BY <2>1, <2>2
<1>5. CASE SiteChanges
  BY <1>5, <1>f, SiteChangesTyped DEF SiteChanges, TypeOK
<1> QED BY <1>1, <1>2, <1>3, <1>4, <1>5

LEMMA LatestGrows ==
  ASSUME Typed, [Next]_vars
  PROVE  Latest' \in Nat /\ Latest' >= Latest
<1> USE LatestTyped DEF Typed
<1>1. CASE attempts' = attempts BY <1>1 DEF Latest
<1>2. ASSUME NEW w \in Workers, Claim(w)
      PROVE  Latest' \in Nat /\ Latest' >= Latest
  BY <1>2, ClaimAttempts
<1>3. ASSUME NEW w \in Workers, Persist(w) PROVE Latest' = Latest
  BY <1>3, PersistAttempts
<1>4. ASSUME NEW w \in Workers, Release(w) PROVE Latest' = Latest
  BY <1>4, ReleaseAttempts
<1>5. ASSUME NEW w \in Workers, Record(w) PROVE Latest' = Latest
  <2>1. CASE OwnsFailure(w) /\ LastTry(w) BY <1>5, <2>1, RecordAttempts
  <2>2. CASE ~(OwnsFailure(w) /\ LastTry(w))
    BY <1>5, <2>2 DEF Record, Latest
  <2> QED BY <2>1, <2>2
<1>6. ASSUME NEW w \in Workers, Renew(w) PROVE Latest' = Latest
  <2>1. CASE Live(worker[w].attempt) BY <1>6, <2>1, RenewAttempts
  <2>2. CASE ~Live(worker[w].attempt) BY <1>6, <2>2 DEF Renew, Latest
  <2> QED BY <2>1, <2>2
<1>7. CASE Tick BY <1>7, TickAttempts
<1>8. CASE Reconcile
  <2>1. CASE Closes BY <1>8, <2>1, ReconcileAttempts
  <2>2. CASE ~Closes BY <1>8, <2>2 DEF Reconcile, Closes, Latest
  <2> QED BY <2>1, <2>2
<1>9. ASSUME NEW w \in Workers, Execute(w)
      PROVE  Latest' \in Nat /\ Latest' >= Latest
  <2>1. CASE Claim(w) BY <2>1, <1>2
  <2>2. CASE Persist(w) \/ Release(w) \/ Record(w) BY <2>2, <1>3, <1>4, <1>5
  <2>3. CASE ~Claim(w) /\ ~Persist(w) /\ ~Release(w) /\ ~Record(w)
    <3>1. attempts' = attempts
      BY <1>9, <2>3
      DEF Execute, Settle, Prepare, ClaimBusy, ClaimRefused, ClaimAnswered,
          Look, ProofFound, ProofRefused, Confirm, Decided, Collected,
          CheckFails, Abandon, PersistRefused, Persisted, Interrupted
    <3> QED BY <1>1, <3>1
  <2> QED BY <2>1, <2>2, <2>3
<1>10. ASSUME NEW w \in Workers,
              Fetch(w) \/ Browse(w) \/ Watch(w) \/ Trouble(w)
       PROVE  Latest' \in Nat /\ Latest' >= Latest
  <2>1. CASE Renew(w) BY <2>1, <1>6
  <2>2. CASE ~Renew(w)
    <3>1. attempts' = attempts
      BY <1>10, <2>2
      DEF Fetch, Browse, Check, Contact, Watch, RenewChecks, RenewAnswered,
          WatchEnds, Trouble, ProofMissing, ProofUnavailable, RenewFails,
          StatementFails, Shutdown, Crash
    <3> QED BY <1>1, <3>1
  <2> QED BY <2>1, <2>2
<1>11. CASE Enqueue \/ Abandoned \/ Stall \/ JobLost \/ Inspect \/ SiteChanges
  BY <1>1, <1>11
  DEF Enqueue, Abandoned, Stall, TakenBack, JobLost, Inspect, SiteChanges
<1>12. CASE UNCHANGED vars BY <1>1, <1>12 DEF vars
<1> QED
  BY <1>7, <1>8, <1>9, <1>10, <1>11, <1>12 DEF Next

\* An execution nothing happens to keeps its references.
LEMMA PointerOther ==
  ASSUME Typed, NEW v \in Workers, Latest' \in Nat, Latest' >= Latest,
         worker'[v] = worker[v], monitor'[v] = monitor[v]
  PROVE  Pointer(v)'
<1>1. Pointer(v) /\ worker[v].attempt \in Nat /\ Latest \in Nat
  BY LatestTyped DEF Typed, TypeOK, WorkerRecords
<1> QED BY <1>1 DEF Pointer

\* Whoever else acts, only w's own step changes w.
LEMMA OthersKept ==
  ASSUME Typed, NEW w \in Workers, NEW v \in Workers, v # w,
         Fetch(w) \/ Execute(w) \/ Browse(w) \/ Watch(w) \/ Trouble(w)
  PROVE  worker'[v] = worker[v] /\ monitor'[v] = monitor[v]
<1>1. /\ worker \in [Workers -> WorkerRecords]
      /\ monitor \in [Workers -> MonitorRecords]
  BY DEF Typed, TypeOK
<1>2. CASE Execute(w)
  BY <1>1, <1>2
  DEF Execute, Settle, Prepare, Goes, Ends, Claim, ClaimBusy, ClaimRefused,
      ClaimAnswered, Look, Decides, ProofFound, ProofRefused, Confirm, Decided,
      Collected, CheckFails, Throws, Abandon, Persist, PersistRefused,
      Persisted, Release, Record, Interrupted
<1>3. CASE Fetch(w) \/ Browse(w) BY <1>1, <1>3 DEF Fetch, Browse, Check, Contact
<1>4. CASE Watch(w)
  BY <1>1, <1>4
  DEF Watch, RenewChecks, Renew, RenewAnswered, WatchEnds, Aborts
<1>5. CASE Trouble(w)
  BY <1>1, <1>5
  DEF Trouble, ProofMissing, ProofUnavailable, RenewFails, StatementFails,
      Shutdown, Crash, Aborts, Throws, Decides, Goes, Ends
<1> QED BY <1>2, <1>3, <1>4, <1>5

\* A step of w that keeps its attempt keeps its references when what it says
\* of w's place and monitor agrees.
LEMMA PointerKept ==
  ASSUME Typed, NEW w \in Workers, Latest' \in Nat, Latest' >= Latest,
         worker'[w].attempt = worker[w].attempt,
         worker'[w].pc \in Leased => worker[w].pc \in Leased,
         monitor'[w].armed => worker'[w].pc \in Monitored,
         monitor'[w].renewal # "no" =>
           /\ monitor[w].renewal # "no" \/ monitor[w].armed
           /\ worker'[w].pc \notin Unmonitored
  PROVE  Pointer(w)'
<1>1. Pointer(w) /\ worker[w].attempt \in Nat /\ Latest \in Nat
  BY LatestTyped DEF Typed, TypeOK, WorkerRecords
<1>2. monitor[w].armed => worker[w].attempt > 0
  BY <1>1 DEF Pointer, Monitored, Leased
<1> QED BY <1>1, <1>2 DEF Pointer

LEMMA ThrowsPointer ==
  ASSUME Typed, NEW w \in Workers, Latest' \in Nat, Latest' >= Latest,
         NEW failure, Throws(w, failure), worker[w].pc \in Monitored
  PROVE  Pointer(w)'
<1>1. /\ worker'[w].attempt = worker[w].attempt
      /\ worker'[w].pc = "release"
      /\ monitor'[w].armed = FALSE
      /\ monitor'[w].renewal = monitor[w].renewal
  BY DEF Throws, Typed, TypeOK, WorkerRecords, MonitorRecords
<1> QED BY <1>1, PointerKept DEF Leased, Monitored, Unmonitored

LEMMA AbortsPointer ==
  ASSUME Typed, NEW w \in Workers, Latest' \in Nat, Latest' >= Latest,
         Aborts(w)
  PROVE  Pointer(w)'
<1>1. /\ worker'[w].attempt = worker[w].attempt
      /\ worker'[w].pc = worker[w].pc
      /\ monitor'[w].armed = monitor[w].armed
      /\ monitor'[w].renewal = "no"
  BY DEF Aborts, Typed, TypeOK, WorkerRecords, MonitorRecords
<1>2. Pointer(w) BY DEF Typed
<1> QED BY <1>1, <1>2, PointerKept DEF Pointer

\* A worker that moves on without touching its monitor.
LEMMA MovesPointer ==
  ASSUME Typed, NEW w \in Workers, Latest' \in Nat, Latest' >= Latest,
         UNCHANGED monitor, worker'[w].attempt = worker[w].attempt,
         \/ worker'[w].pc = worker[w].pc
         \/ worker[w].pc \in Leased \ {"claimed"} /\ worker'[w].pc \in Monitored
         \/ /\ worker[w].pc \notin Monitored /\ worker'[w].pc \notin Leased
            /\ worker'[w].pc \in Unmonitored => worker[w].pc \in Unmonitored
         \/ worker[w].pc = "release" /\ worker'[w].pc = "record"
  PROVE  Pointer(w)'
<1>1. Pointer(w) BY DEF Typed
<1>2. /\ worker'[w].pc \in Leased => worker[w].pc \in Leased
      /\ monitor[w].armed => worker'[w].pc \in Monitored
      /\ monitor[w].renewal # "no" => worker'[w].pc \notin Unmonitored
  BY <1>1 DEF Pointer, Leased, Monitored, Unmonitored
<1> QED BY <1>1, <1>2, PointerKept

LEMMA PointerOwn ==
  ASSUME Typed, NEW w \in Workers, Latest' \in Nat, Latest' >= Latest,
         Fetch(w) \/ Execute(w) \/ Browse(w) \/ Watch(w) \/ Trouble(w)
  PROVE  Pointer(w)'
<1>t. /\ worker \in [Workers -> WorkerRecords]
      /\ monitor \in [Workers -> MonitorRecords]
      /\ worker[w] \in WorkerRecords /\ monitor[w] \in MonitorRecords
      /\ Pointer(w) /\ worker[w].attempt \in Nat /\ Latest \in Nat
  BY LatestTyped DEF Typed, TypeOK, WorkerRecords
<1>g. ASSUME NEW pc, Goes(w, pc)
      PROVE  worker'[w].pc = pc /\ worker'[w].attempt = worker[w].attempt
  BY <1>g, <1>t DEF Goes, WorkerRecords
<1>e. ASSUME NEW failure, Ends(w, failure)
      PROVE  worker'[w].pc = "settle" /\ worker'[w].attempt = worker[w].attempt
  BY <1>e, <1>t DEF Ends, WorkerRecords
<1>d. ASSUME NEW decision, Decides(w, decision)
      PROVE  worker'[w].pc = "decided" /\ worker'[w].attempt = worker[w].attempt
  BY <1>d, <1>t DEF Decides, WorkerRecords
<1>1. CASE Fetch(w)
  <2>1. /\ worker'[w].attempt = 0 /\ worker'[w].pc = "prepare"
        /\ monitor' = monitor /\ worker[w].pc = "idle"
    BY <1>1, <1>t DEF Fetch, Idle, At
  <2> QED BY <1>t, <2>1 DEF Pointer, Leased, Monitored, Unmonitored
<1>2. CASE Settle(w) \/ Crash(w)
  <2>1. worker'[w] = Idle /\ monitor'[w] = NoMonitor
    BY <1>2, <1>t DEF Settle, Crash
  <2> QED BY <1>t, <2>1 DEF Pointer, Leased, Idle, NoMonitor
<1>3. CASE Prepare(w)
  <2>1. /\ worker'[w].pc \in {"settle", "claim"} /\ worker[w].pc = "prepare"
        /\ worker'[w].attempt = worker[w].attempt /\ UNCHANGED monitor
    BY <1>3, <1>g, <1>e DEF Prepare, At
  <2> QED BY <2>1, MovesPointer DEF Leased, Monitored, Unmonitored
<1>4. CASE Claim(w)
  <2>1. /\ worker'[w].pc = "claimed" /\ worker'[w].attempt = Latest + 1
        /\ worker[w].pc = "claim"
        /\ monitor'[w].armed = monitor[w].armed
        /\ monitor'[w].renewal = monitor[w].renewal
    BY <1>4, <1>t DEF Claim, At, WorkerRecords, MonitorRecords
  <2>2. Latest' = Latest + 1 BY <1>4, ClaimAttempts DEF Typed
  <2> QED BY <1>t, <2>1, <2>2 DEF Pointer, Monitored, Unmonitored
<1>5. CASE ClaimBusy(w) \/ ClaimRefused(w) \/ Interrupted(w)
  <2>1. /\ worker'[w].pc \in {"settle", "prepare"}
        /\ worker[w].pc \in {"prepare", "claim"}
        /\ worker'[w].attempt = worker[w].attempt /\ UNCHANGED monitor
    BY <1>5, <1>g, <1>e DEF ClaimBusy, ClaimRefused, Interrupted, At
  <2> QED BY <2>1, MovesPointer DEF Leased, Monitored, Unmonitored
<1>6. CASE ClaimAnswered(w)
  <2>1. /\ worker'[w].pc = "held" /\ worker'[w].attempt = worker[w].attempt
        /\ worker[w].pc = "claimed"
    BY <1>6, <1>g DEF ClaimAnswered, At
  <2>2. monitor'[w].renewal = "no"
    BY <1>6, <1>t DEF ClaimAnswered, NoMonitor
  <2> QED BY <2>1, <2>2, PointerKept DEF Leased, Monitored
<1>7. CASE Look(w) \/ ProofFound(w) \/ ProofRefused(w) \/ Confirm(w)
           \/ Decided(w) \/ ProofMissing(w) \/ ProofUnavailable(w)
  <2>1. /\ worker[w].pc \in {"held", "lookup", "confirm", "decided"}
        /\ UNCHANGED monitor
    BY <1>7 DEF Look, ProofFound, ProofRefused, Confirm, Decided, ProofMissing,
                ProofUnavailable, Works, At
  <2>2. /\ worker'[w].pc \in Monitored
        /\ worker'[w].attempt = worker[w].attempt
    <3>1. CASE Look(w)
      <4>1. CASE Decides(w, "denied") BY <4>1, <1>d DEF Monitored
      <4>2. CASE worker' = [worker EXCEPT ![w] = [@ EXCEPT
                   !.pc = "lookup", !.generation = site.generation]]
        BY <4>2, <1>t DEF WorkerRecords, Monitored
      <4> QED BY <3>1, <4>1, <4>2 DEF Look
    <3>2. CASE Decided(w) BY <3>2, <1>g DEF Decided, Monitored
    <3>3. CASE ProofFound(w) BY <3>3, <1>g DEF ProofFound, Monitored
    <3> QED BY <1>7, <3>1, <3>2, <3>3, <1>d
          DEF ProofRefused, Confirm, ProofMissing, ProofUnavailable, Monitored
  <2> QED BY <2>1, <2>2, MovesPointer DEF Leased
<1>8. CASE Collected(w) \/ Browse(w)
  <2>1. /\ worker[w].pc = "collect" /\ worker'[w].pc \in {"collect", "persist"}
        /\ worker'[w].attempt = worker[w].attempt /\ UNCHANGED monitor
    <3>1. CASE Collected(w)
      BY <3>1, <1>t DEF Collected, Works, At, WorkerRecords
    <3>2. CASE Check(w) BY <3>2, <1>t DEF Check, Works, At, WorkerRecords
    <3>3. CASE Contact(w) BY <3>3, <1>t DEF Contact, Works, At, WorkerRecords
    <3> QED BY <1>8, <3>1, <3>2, <3>3 DEF Browse
  <2> QED BY <2>1, MovesPointer DEF Leased, Monitored
<1>9. CASE CheckFails(w) \/ Abandon(w) \/ PersistRefused(w) \/ Persisted(w)
  <2>1. worker[w].pc \in Monitored
    BY <1>9 DEF CheckFails, Abandon, PersistRefused, Persisted, Works, At,
                Monitored
  <2>2. \E failure \in Failures : Throws(w, failure)
    BY <1>9 DEF CheckFails, Abandon, PersistRefused, Persisted, Failures
  <2> QED BY <2>1, <2>2, ThrowsPointer
<1>10. CASE Persist(w)
  <2>1. /\ worker[w].pc = "persist" /\ worker'[w].pc = "persisted"
        /\ worker'[w].attempt = worker[w].attempt /\ UNCHANGED monitor
    BY <1>10, <1>g DEF Persist, Works, At
  <2> QED BY <2>1, MovesPointer DEF Leased, Monitored
<1>11. CASE Release(w)
  <2>1. /\ worker[w].pc = "release" /\ worker'[w].pc \in {"settle", "record"}
        /\ worker'[w].attempt = worker[w].attempt /\ UNCHANGED monitor
    BY <1>11, <1>t DEF Release, At, WorkerRecords
  <2> QED BY <2>1, MovesPointer DEF Leased, Monitored, Unmonitored
<1>12. CASE Record(w)
  <2>1. /\ worker[w].pc = "record" /\ worker'[w].pc = "settle"
        /\ worker'[w].attempt = worker[w].attempt /\ UNCHANGED monitor
    BY <1>12, <1>g DEF Record, At
  <2> QED BY <2>1, MovesPointer DEF Leased, Monitored, Unmonitored
<1>13. CASE RenewChecks(w)
  <2>1. CASE Aborts(w) BY <2>1, AbortsPointer
  <2>2. CASE ~Aborts(w)
    <3>1. /\ monitor'[w].armed = monitor[w].armed /\ monitor[w].armed
          /\ worker' = worker
      BY <1>13, <2>2, <1>t DEF RenewChecks, Watching, MonitorRecords
    <3> QED BY <1>t, <3>1, PointerKept DEF Pointer, Monitored, Unmonitored
  <2> QED BY <2>1, <2>2
<1>14. CASE Renew(w)
  <2>1. CASE ~Live(worker[w].attempt)
    BY <1>14, <2>1, AbortsPointer DEF Renew
  <2>2. CASE Live(worker[w].attempt)
    <3>1. /\ monitor'[w].armed = monitor[w].armed /\ monitor[w].renewal # "no"
          /\ worker' = worker
      BY <1>14, <2>2, <1>t DEF Renew, MonitorRecords
    <3> QED BY <1>t, <3>1, PointerKept DEF Pointer
  <2> QED BY <2>1, <2>2
<1>15. CASE RenewAnswered(w)
  <2>1. /\ monitor'[w].armed = monitor[w].armed /\ monitor'[w].renewal = "no"
        /\ worker' = worker
    BY <1>15, <1>t DEF RenewAnswered, MonitorRecords
  <2> QED BY <1>t, <2>1, PointerKept DEF Pointer
<1>16. CASE RenewFails(w) \/ WatchEnds(w)
  BY <1>16, AbortsPointer DEF RenewFails, WatchEnds
<1>17. CASE StatementFails(w)
  <2>1. PICK failure \in {"retry", "final"} :
       \/ /\ worker[w].pc \in {"prepare", "claim", "claimed"}
          /\ worker' = [worker EXCEPT ![w] = [@ EXCEPT
               !.pc = "settle", !.attempt = 0, !.failure = failure]]
          /\ UNCHANGED monitor
       \/ Throws(w, failure) /\ worker[w].pc \in Monitored
       \/ Decides(w, "denied") /\ At(w, "lookup") /\ UNCHANGED monitor
       \/ /\ At(w, "release") /\ UNCHANGED monitor
          /\ worker' = [worker EXCEPT ![w] = [@ EXCEPT
               !.pc = "record", !.failure = failure]]
       \/ At(w, "record") /\ Ends(w, "retry") /\ UNCHANGED monitor
    BY <1>17 DEF StatementFails, Monitored, At
  <2>2. CASE /\ worker[w].pc \in {"prepare", "claim", "claimed"}
             /\ worker' = [worker EXCEPT ![w] = [@ EXCEPT
                  !.pc = "settle", !.attempt = 0, !.failure = failure]]
             /\ UNCHANGED monitor
    <3>1. worker'[w].pc = "settle" /\ worker'[w].attempt = 0
      BY <2>2, <1>t DEF WorkerRecords
    <3> QED BY <1>t, <2>2, <3>1 DEF Pointer, Leased, Monitored, Unmonitored
  <2>3. CASE Throws(w, failure) /\ worker[w].pc \in Monitored
    BY <2>3, ThrowsPointer
  <2>4. CASE Decides(w, "denied") /\ At(w, "lookup") /\ UNCHANGED monitor
    BY <2>4, <1>d, MovesPointer DEF At, Leased, Monitored
  <2>5. CASE /\ At(w, "release") /\ UNCHANGED monitor
             /\ worker' = [worker EXCEPT ![w] = [@ EXCEPT
                  !.pc = "record", !.failure = failure]]
    <3>1. worker'[w].pc = "record" /\ worker'[w].attempt = worker[w].attempt
      BY <2>5, <1>t DEF WorkerRecords
    <3> QED BY <2>5, <3>1, MovesPointer DEF At
  <2>6. CASE At(w, "record") /\ Ends(w, "retry") /\ UNCHANGED monitor
    BY <2>6, <1>e, MovesPointer DEF At, Leased, Monitored, Unmonitored
  <2> QED BY <2>1, <2>2, <2>3, <2>4, <2>5, <2>6
<1>18. CASE Shutdown(w)
  <2>1. /\ worker'[w].pc = worker[w].pc
        /\ worker'[w].attempt = worker[w].attempt
        /\ monitor'[w].armed = monitor[w].armed
        /\ monitor'[w].renewal = monitor[w].renewal
    BY <1>18, <1>t DEF Shutdown, WorkerRecords, MonitorRecords
  <2> QED BY <1>t, <2>1, PointerKept DEF Pointer
<1> QED
  <2>1. CASE Execute(w)
    BY <2>1, <1>2, <1>3, <1>4, <1>5, <1>6, <1>7, <1>8, <1>9, <1>10, <1>11,
       <1>12 DEF Execute
  <2>2. CASE Watch(w) BY <2>2, <1>13, <1>14, <1>15, <1>16 DEF Watch
  <2>3. CASE Trouble(w)
    BY <2>3, <1>2, <1>7, <1>16, <1>17, <1>18 DEF Trouble
  <2> QED BY <1>1, <1>8, <2>1, <2>2, <2>3

LEMMA TypedInductive ==
  ASSUME Typed, [Next]_vars
  PROVE  Typed'
<1>1. Latest' \in Nat /\ Latest' >= Latest BY LatestGrows
<1>2. ASSUME NEW w \in Workers,
             Fetch(w) \/ Execute(w) \/ Browse(w) \/ Watch(w) \/ Trouble(w)
      PROVE  Typed'
  <2>1. TypeOK' BY <1>2, ExecuteTyped, WorkerStepTyped
  <2>2. ASSUME NEW v \in Workers PROVE Pointer(v)'
    <3>1. CASE v = w BY <1>1, <1>2, <3>1, PointerOwn
    <3>2. CASE v # w
      <4>1. worker'[v] = worker[v] /\ monitor'[v] = monitor[v]
        BY <1>2, <3>2, OthersKept
      <4> QED BY <1>1, <4>1, PointerOther
    <3> QED BY <3>1, <3>2
  <2> QED BY <2>1, <2>2 DEF Typed
<1>3. CASE \/ Enqueue \/ Abandoned \/ Stall \/ JobLost
           \/ Inspect \/ Reconcile \/ SiteChanges
  <2>1. TypeOK' BY <1>3, SystemStepTyped
  <2>2. worker' = worker /\ monitor' = monitor
    BY <1>3 DEF Enqueue, Abandoned, Stall, TakenBack, JobLost, Inspect,
                Reconcile, SiteChanges
  <2>3. ASSUME NEW v \in Workers PROVE Pointer(v)'
    BY <1>1, <2>2, PointerOther
  <2> QED BY <2>1, <2>3 DEF Typed
<1>4. CASE Tick
  <2>1. TypeOK' BY <1>4, SystemStepTyped
  <2>2. ASSUME NEW v \in Workers PROVE Pointer(v)'
    <3>0. Pointer(v) BY DEF Typed
    <3>1. worker' = worker BY <1>4 DEF Tick
    <3>2. /\ monitor'[v].armed = monitor[v].armed
          /\ monitor'[v].renewal = monitor[v].renewal
      <4> DEFINE m1 == [monitor[v] EXCEPT !.watch = Less(monitor[v].watch)]
                 waited == IF AwaitsAnswer(v) THEN monitor[v].waited + 1 ELSE 0
      <4>1. monitor'[v] = [m1 EXCEPT !.waited = waited] BY <1>4 DEF Tick
      <4> HIDE DEF waited
      <4>2. monitor[v] \in MonitorRecords BY DEF Typed, TypeOK
      <4> QED BY <4>1, <4>2 DEF MonitorRecords
    <3> QED BY <1>1, <3>0, <3>1, <3>2, PointerKept DEF Pointer
  <2> QED BY <2>1, <2>2 DEF Typed
<1>5. CASE UNCHANGED vars
  BY <1>5 DEF vars, Typed, TypeOK, Pointer, Latest
<1> QED BY <1>2, <1>3, <1>4, <1>5 DEF Next

LEMMA TypedInitially == Init => Typed
<1> SUFFICES ASSUME Init PROVE Typed OBVIOUS
<1>1. attempts \in Seq(AttemptRecords) /\ Latest = 0
  BY DEF Init, Latest
<1>2. TypeOK
  BY <1>1, NullRecords DEF Init, TypeOK, ScanStatuses, SiteRecords
<1>3. \A w \in Workers : Pointer(w)
  <2> TAKE w \in Workers
  <2>1. worker[w] = Idle /\ monitor[w] = NoMonitor BY DEF Init
  <2>2. /\ worker[w].attempt = 0 /\ worker[w].pc = "idle"
        /\ monitor[w].armed = FALSE /\ monitor[w].renewal = "no"
    BY <2>1 DEF Idle, NoMonitor
  <2> QED BY <1>1, <2>2 DEF Pointer, Leased
<1> QED BY <1>2, <1>3 DEF Typed

\* Every behaviour keeps the types of the tables, the queue and the workers.
THEOREM TypeCorrect == Spec => []TypeOK
<1>1. Init => Typed BY TypedInitially
<1>2. Typed /\ [Next]_vars => Typed' BY TypedInductive
<1>3. Typed => TypeOK BY DEF Typed
<1> QED BY <1>1, <1>2, <1>3, PTL DEF Spec

-----------------------------------------------------------------------------
(* One attempt at a time, and final results.                                 *)

Tables == <<scan, attempts, results>>

\* The steps of a worker that write the scan, its attempts or its results.
WritesTables(w) ==
  \/ Prepare(w) /\ scan # scan'
  \/ Claim(w) \/ Persist(w) \/ Release(w)
  \/ Record(w) /\ OwnsFailure(w) /\ LastTry(w)
  \/ Renew(w) /\ Live(worker[w].attempt)

LEMMA WorkerOnTables ==
  ASSUME NEW w \in Workers, ~WritesTables(w),
         Fetch(w) \/ Execute(w) \/ Browse(w) \/ Watch(w) \/ Trouble(w)
  PROVE  UNCHANGED Tables
<1>1. CASE Execute(w)
  BY <1>1
  DEF Execute, Settle, Prepare, ClaimBusy, ClaimRefused, ClaimAnswered,
      Look, ProofFound, ProofRefused, Confirm, Decided, Collected,
      CheckFails, Abandon, PersistRefused, Persisted, Record, Interrupted,
      Tables, WritesTables
<1>2. CASE Fetch(w) \/ Browse(w) \/ Watch(w) \/ Trouble(w)
  BY <1>2
  DEF Fetch, Browse, Check, Contact, Watch, RenewChecks, Renew, RenewAnswered,
      WatchEnds, Trouble, ProofMissing, ProofUnavailable, RenewFails,
      StatementFails, Shutdown, Crash, Tables, WritesTables
<1> QED BY <1>1, <1>2

LEMMA StepsOnTables ==
  ASSUME [Next]_vars
  PROVE  \/ \E w \in Workers : WritesTables(w)
         \/ Tick
         \/ Reconcile /\ Closes
         \/ UNCHANGED Tables
<1>1. ASSUME \/ Enqueue \/ Abandoned \/ Stall \/ JobLost \/ Inspect
             \/ SiteChanges \/ (Reconcile /\ ~Closes)
      PROVE  UNCHANGED Tables
  BY <1>1
  DEF Enqueue, Abandoned, Stall, TakenBack, JobLost, Inspect, SiteChanges,
      Reconcile, Closes, Tables
<1>2. UNCHANGED vars => UNCHANGED Tables BY DEF vars, Tables
<1> QED BY <1>1, <1>2, WorkerOnTables DEF Next

LEMMA FencedInductive ==
  ASSUME Fenced, [Next]_vars
  PROVE  Fenced'
<1> USE DEF Fenced
<1>0. Typed' BY TypedInductive
<1>t. /\ Latest \in Nat /\ results \in Nat
      /\ Latest' \in Nat
  BY LatestTyped, LatestGrows DEF Typed, TypeOK
<1>r. scan \in {"queued", "running"} => results = 0
  BY <1>t DEF ResultsAreFinal
<1>n. \A n \in 1..Latest :
        attempts[n].status = "running" => n = Latest /\ scan = "running"
  BY DEF OneRunningAttempt
<1>1. ASSUME NEW w \in Workers, Prepare(w), scan # scan'
      PROVE  OneRunningAttempt' /\ ResultsAreFinal'
  <2>1. /\ scan = "queued" /\ scan' = "running"
        /\ attempts' = attempts /\ results' = results
    BY <1>1 DEF Prepare
  <2> QED BY <1>r, <1>n, <2>1 DEF OneRunningAttempt, ResultsAreFinal, Latest
<1>2. ASSUME NEW w \in Workers, Claim(w)
      PROVE  OneRunningAttempt' /\ ResultsAreFinal'
  <2>1. /\ scan' = scan /\ scan = "running" /\ results' = 0
    BY <1>2 DEF Claim, MayClaim
  <2>2. \A n \in 1..Latest : attempts'[n].status # "running"
    BY <1>2, <1>n, <1>t, ClaimAttempts DEF Typed, Released
  <2>3. Latest' = Latest + 1 BY <1>2, ClaimAttempts DEF Typed
  <2>4. \A n \in 1..Latest' : n \notin 1..Latest => n = Latest'
    BY <1>t, <2>3
  <2> QED BY <2>1, <2>2, <2>4 DEF OneRunningAttempt, ResultsAreFinal
<1>3. ASSUME NEW w \in Workers, Persist(w)
      PROVE  OneRunningAttempt' /\ ResultsAreFinal'
  <2> DEFINE n == worker[w].attempt
  <2>1. /\ n \in 1..Latest /\ Live(n) /\ Latest' = Latest
        /\ scan' \in {"completed", "failed"}
        /\ \A k \in 1..Latest : attempts'[k] =
             IF k = n THEN [status |-> scan', left |-> 0] ELSE attempts[k]
    BY <1>3, PersistAttempts
  <2>2. results' = n BY <1>3 DEF Persist
  <2> HIDE DEF n
  <2>3. n = Latest BY <1>n, <2>1 DEF Live
  <2>4. attempts'[n].status = scan' BY <2>1
  <2>5. \A k \in 1..Latest : attempts'[k].status # "running"
    BY <1>n, <2>1, <2>3, <2>4
  <2> QED BY <2>1, <2>2, <2>3, <2>4, <2>5
        DEF OneRunningAttempt, ResultsAreFinal
<1>4. ASSUME NEW w \in Workers, Release(w)
      PROVE  OneRunningAttempt' /\ ResultsAreFinal'
  <2> DEFINE n == worker[w].attempt
  <2>1. /\ Latest' = Latest
        /\ \A k \in 1..Latest : attempts'[k] =
             IF k = n /\ attempts[n].status = "running"
             THEN Released ELSE attempts[k]
    BY <1>4, ReleaseAttempts
  <2>2. scan' = scan /\ results' = results BY <1>4 DEF Release
  <2> HIDE DEF n
  <2>3. OneRunningAttempt' BY <1>n, <2>1, <2>2 DEF OneRunningAttempt, Released
  <2>4. ResultsAreFinal'
    BY <1>n, <1>t, <2>1, <2>2 DEF ResultsAreFinal, Released
  <2> QED BY <2>3, <2>4
<1>5. ASSUME NEW w \in Workers, Record(w), OwnsFailure(w), LastTry(w)
      PROVE  OneRunningAttempt' /\ ResultsAreFinal'
  <2> DEFINE n == worker[w].attempt
  <2>1. /\ n = Latest /\ Latest' = Latest
        /\ \A k \in 1..Latest : attempts'[k] =
             IF k = n THEN [status |-> "failed", left |-> attempts[n].left]
             ELSE attempts[k]
        /\ scan = "running" /\ scan' = "failed"
    BY <1>5, RecordAttempts
  <2>2. results' = results BY <1>5 DEF Record
  <2> HIDE DEF n
  <2> QED BY <1>n, <1>r, <1>t, <2>1, <2>2
        DEF OneRunningAttempt, ResultsAreFinal
<1>6. ASSUME NEW w \in Workers, Renew(w), Live(worker[w].attempt)
      PROVE  OneRunningAttempt' /\ ResultsAreFinal'
  <2> DEFINE n == worker[w].attempt
  <2>1. /\ n \in 1..Latest /\ Latest' = Latest
        /\ \A k \in 1..Latest : attempts'[k] =
             IF k = n THEN [status |-> "running", left |-> LeaseTime]
             ELSE attempts[k]
    BY <1>6, RenewAttempts
  <2>2. scan' = scan /\ results' = results BY <1>6 DEF Renew
  <2>3. attempts[n].status = "running" BY <1>6 DEF Live
  <2> HIDE DEF n
  <2>4. n = Latest /\ scan = "running" BY <1>n, <2>1, <2>3
  <2> QED BY <1>n, <1>r, <2>1, <2>2, <2>4
        DEF OneRunningAttempt, ResultsAreFinal
<1>7. ASSUME Tick
      PROVE  OneRunningAttempt' /\ ResultsAreFinal'
  <2>1. /\ Latest' = Latest
        /\ \A k \in 1..Latest : attempts'[k].status = attempts[k].status
    BY <1>7, TickAttempts DEF Typed
  <2>2. scan' = scan /\ results' = results BY <1>7 DEF Tick
  <2> QED BY <1>n, <1>t, <2>1, <2>2 DEF OneRunningAttempt, ResultsAreFinal
<1>8. ASSUME Reconcile, Closes
      PROVE  OneRunningAttempt' /\ ResultsAreFinal'
  <2>1. /\ Latest' = Latest
        /\ \A k \in 1..Latest : attempts'[k] =
             IF k = Latest /\ attempts[k].status \in {"running", "retrying"}
             THEN [status |-> "failed", left |-> 0] ELSE attempts[k]
    BY <1>8, ReconcileAttempts DEF Typed
  <2>2. scan = "running" /\ scan' = "failed" /\ results' = results
    BY <1>8 DEF Reconcile, Closes
  <2>3. \A k \in 1..Latest : attempts'[k].status # "running"
    BY <1>n, <2>1
  <2> QED BY <1>r, <2>1, <2>2, <2>3 DEF OneRunningAttempt, ResultsAreFinal
<1>9. ASSUME UNCHANGED Tables
      PROVE  OneRunningAttempt' /\ ResultsAreFinal'
  BY <1>9 DEF Tables, OneRunningAttempt, ResultsAreFinal, Latest
<1>10. OneRunningAttempt' /\ ResultsAreFinal'
  BY <1>1, <1>2, <1>3, <1>4, <1>5, <1>6, <1>7, <1>8, <1>9, StepsOnTables
  DEF WritesTables
<1> QED BY <1>0, <1>10

LEMMA AlwaysFenced == Spec => []Fenced
<1>1. Init => Fenced
  <2> SUFFICES ASSUME Init PROVE Fenced OBVIOUS
  <2>1. Typed BY TypedInitially
  <2>2. Latest = 0 /\ results = 0 /\ scan = "queued" BY DEF Init, Latest
  <2> QED BY <2>1, <2>2 DEF Fenced, OneRunningAttempt, ResultsAreFinal
<1>2. Fenced /\ [Next]_vars => Fenced' BY FencedInductive
<1> QED BY <1>1, <1>2, PTL DEF Spec

\* However many workers execute the job at once, at most the newest attempt
\* reads "running", and only while the scan does.
THEOREM AttemptsCorrect == Spec => []OneRunningAttempt
<1>1. Fenced => OneRunningAttempt BY DEF Fenced
<1> QED BY <1>1, AlwaysFenced, PTL

\* Results are the last attempt's, and agree with the scan's final status.
THEOREM ResultsCorrect == Spec => []ResultsAreFinal
<1>1. Fenced => ResultsAreFinal BY DEF Fenced
<1> QED BY <1>1, AlwaysFenced, PTL

-----------------------------------------------------------------------------
(* The leases implement DeepContract.                                        *)

Holder == IF Latest > 0 /\ Live(Latest) THEN Latest ELSE 0
Held == <<scan, Latest, Holder, results>>

LEMMA ContractStep ==
  ASSUME Fenced, [Next]_vars
  PROVE  Contract!Next \/ UNCHANGED Held
<1> USE DEF Fenced
<1>t. Latest \in Nat /\ LeaseTime > 0
  BY LatestTyped, TimesAssumption DEF Typed
<1>h. /\ Holder = 0 => \/ Latest = 0
                       \/ attempts[Latest].status # "running"
                       \/ ~(attempts[Latest].left > 0)
      /\ Holder # 0 => Holder = Latest /\ Live(Latest) /\ Latest > 0
  BY <1>t DEF Holder, Live
<1>n. \A n \in 1..Latest :
        attempts[n].status = "running" => n = Latest /\ scan = "running"
  BY DEF OneRunningAttempt
<1>1. ASSUME NEW w \in Workers, Prepare(w), scan # scan'
      PROVE  Contract!Start
  <2>1. /\ scan = "queued" /\ scan' = "running"
        /\ attempts' = attempts /\ results' = results
    BY <1>1 DEF Prepare
  <2>2. Latest' = Latest /\ Holder' = Holder
    BY <2>1 DEF Latest, Holder, Live
  <2> QED BY <2>1, <2>2 DEF Contract!Start, Holder
<1>2. ASSUME NEW w \in Workers, Claim(w)
      PROVE  Contract!Acquire
  <2>1. /\ scan' = scan /\ scan = "running" /\ results' = results
        /\ Latest > 0 => ~Live(Latest)
        /\ Latest < MaxDeepAttempts
    BY <1>2 DEF Claim, MayClaim
  <2>2. /\ Latest' = Latest + 1
        /\ attempts'[Latest + 1] = [status |-> "running", left |-> LeaseTime]
    BY <1>2, ClaimAttempts DEF Typed
  <2>3. attempts'[Latest'].status = "running" /\ attempts'[Latest'].left > 0
    BY <1>t, <2>2
  <2>4. Holder = 0 /\ Holder' = Latest + 1
    BY <1>t, <2>1, <2>2, <2>3 DEF Holder, Live
  <2> QED BY <2>1, <2>2, <2>4 DEF Contract!Acquire, Holder
<1>3. ASSUME NEW w \in Workers, Persist(w)
      PROVE  Contract!Finish
  <2> DEFINE n == worker[w].attempt
  <2>1. /\ n \in 1..Latest /\ Live(n) /\ Latest' = Latest
        /\ scan' \in {"completed", "failed"}
        /\ \A k \in 1..Latest : attempts'[k] =
             IF k = n THEN [status |-> scan', left |-> 0] ELSE attempts[k]
    BY <1>3, PersistAttempts
  <2>2. results' = n BY <1>3 DEF Persist
  <2> HIDE DEF n
  <2>3. n = Latest /\ scan = "running" BY <1>n, <2>1 DEF Live
  <2>4. attempts'[Latest'].status # "running" BY <2>1, <2>3
  <2>5. Holder = n /\ n # 0 BY <1>t, <2>1, <2>3 DEF Holder
  <2>6. Holder' = 0 BY <2>4 DEF Holder, Live
  <2> QED BY <2>1, <2>2, <2>3, <2>5, <2>6 DEF Contract!Finish, Holder
<1>4. ASSUME NEW w \in Workers, Release(w)
      PROVE  Contract!Lose \/ UNCHANGED Held
  <2> DEFINE n == worker[w].attempt
  <2>1. /\ n \in 1..Latest /\ Latest' = Latest
        /\ \A k \in 1..Latest : attempts'[k] =
             IF k = n /\ attempts[n].status = "running"
             THEN Released ELSE attempts[k]
    BY <1>4, ReleaseAttempts
  <2>2. scan' = scan /\ results' = results BY <1>4 DEF Release
  <2> HIDE DEF n
  <2>3. CASE attempts[n].status = "running"
    <3>1. n = Latest BY <1>n, <2>1, <2>3
    <3>2. attempts'[Latest'].status # "running"
      BY <2>1, <2>3, <3>1 DEF Released
    <3>3. Holder' = 0 BY <3>2 DEF Holder, Live
    <3> QED BY <2>1, <2>2, <3>3 DEF Contract!Lose, Holder, Held
  <2>4. CASE attempts[n].status # "running"
    <3>1. Latest > 0 /\ attempts'[Latest] = attempts[Latest]
      BY <1>t, <2>1, <2>4
    <3>2. Holder' = Holder BY <2>1, <3>1 DEF Holder, Live
    <3> QED BY <2>1, <2>2, <3>2 DEF Held
  <2> QED BY <2>3, <2>4
<1>5. ASSUME NEW w \in Workers, Record(w), OwnsFailure(w), LastTry(w)
      PROVE  Contract!GiveUp
  <2> DEFINE n == worker[w].attempt
  <2>1. /\ n \in 1..Latest /\ n = Latest /\ attempts[n].status = "retrying"
        /\ Latest' = Latest
        /\ \A k \in 1..Latest : attempts'[k] =
             IF k = n THEN [status |-> "failed", left |-> attempts[n].left]
             ELSE attempts[k]
        /\ scan = "running" /\ scan' = "failed"
    BY <1>5, RecordAttempts
  <2>2. results' = results BY <1>5 DEF Record
  <2> HIDE DEF n
  <2>3. attempts'[Latest'].status # "running" BY <2>1
  <2>4. Holder = 0 /\ Holder' = 0 BY <2>1, <2>3 DEF Holder, Live
  <2> QED BY <2>1, <2>2, <2>4 DEF Contract!GiveUp, Holder
<1>6. ASSUME NEW w \in Workers, Renew(w), Live(worker[w].attempt)
      PROVE  UNCHANGED Held
  <2> DEFINE n == worker[w].attempt
  <2>1. /\ n \in 1..Latest /\ Latest' = Latest
        /\ \A k \in 1..Latest : attempts'[k] =
             IF k = n THEN [status |-> "running", left |-> LeaseTime]
             ELSE attempts[k]
    BY <1>6, RenewAttempts
  <2>2. scan' = scan /\ results' = results BY <1>6 DEF Renew
  <2>3. Live(n) BY <1>6
  <2> HIDE DEF n
  <2>4. n = Latest BY <1>n, <2>1, <2>3 DEF Live
  <2>5. attempts'[Latest'].status = "running" /\ attempts'[Latest'].left > 0
    BY <1>t, <2>1, <2>4
  <2>6. Holder = Latest /\ Holder' = Latest
    BY <1>t, <2>1, <2>3, <2>4, <2>5 DEF Holder, Live
  <2> QED BY <2>1, <2>2, <2>6 DEF Held
<1>7. ASSUME Tick
      PROVE  Contract!Lose \/ UNCHANGED Held
  <2>1. /\ Latest' = Latest
        /\ \A k \in 1..Latest : /\ attempts'[k].status = attempts[k].status
                                /\ attempts'[k].left = Less(attempts[k].left)
    BY <1>7, TickAttempts DEF Typed
  <2>2. scan' = scan /\ results' = results BY <1>7 DEF Tick
  <2>3. \A k \in 1..Latest : attempts[k].left \in Nat
    BY LatestTyped DEF Typed
  <2>4. Holder' = Holder \/ (Holder # 0 /\ Holder' = 0)
    BY <1>t, <2>1, <2>3 DEF Holder, Live, Less
  <2> QED BY <2>1, <2>2, <2>4 DEF Contract!Lose, Holder, Held
<1>8. ASSUME Reconcile, Closes
      PROVE  Contract!GiveUp
  <2>1. /\ Latest' = Latest
        /\ \A k \in 1..Latest : attempts'[k] =
             IF k = Latest /\ attempts[k].status \in {"running", "retrying"}
             THEN [status |-> "failed", left |-> 0] ELSE attempts[k]
    BY <1>8, ReconcileAttempts DEF Typed
  <2>2. scan = "running" /\ scan' = "failed" /\ results' = results
    BY <1>8 DEF Reconcile, Closes
  <2>3. Holder = 0 BY <1>8 DEF Closes, Unleased, Holder
  <2>4. Latest > 0 => attempts'[Latest'].status # "running"
    BY <1>t, <2>1
  <2>5. Holder' = 0 BY <2>1, <2>4 DEF Holder, Live
  <2> QED BY <2>1, <2>2, <2>3, <2>5 DEF Contract!GiveUp, Holder
<1>9. ASSUME UNCHANGED Tables PROVE UNCHANGED Held
  BY <1>9 DEF Tables, Held, Holder, Live, Latest
<1> QED
  BY <1>1, <1>2, <1>3, <1>4, <1>5, <1>6, <1>7, <1>8, <1>9, StepsOnTables
  DEF Contract!Next, WritesTables

\* Claims, renewals, expirations and every way of ending an execution amount
\* to the fenced execution DeepContract describes.
THEOREM LeasesImplementContract == Spec => ImplementsContract
<1>1. Init => Contract!Init
  BY DEF Init, Contract!Init, Latest
<1>2. Fenced /\ [Next]_vars => [Contract!Next]_(Contract!vars)
  BY ContractStep DEF Contract!vars, Held, Holder
<1> QED
  BY <1>1, <1>2, AlwaysFenced, PTL DEF Spec, ImplementsContract, Contract!Spec

-----------------------------------------------------------------------------
(* Transports and leases.  The answers of claims and renewals must come     *)
(* before the margin of the watch is used up.                               *)

\* Nobody executes under somebody else's attempt.
Distinct ==
  \A v, w \in Workers :
    v # w /\ worker[v].attempt = worker[w].attempt => worker[w].attempt = 0

\* An execution whose lease nobody else can end: the claim's answer is on its
\* way, or the monitor watches.
Guarded(w) == At(w, "claimed") \/ (Watching(w) /\ ~At(w, "persisted"))

\* The lease outlives the watch, because a watch starts with the margin and
\* the lease lost no more than the delay of the answer.
Covered(w) ==
  LET n == worker[w].attempt
  IN /\ Live(n)
     /\ ~At(w, "claimed") => attempts[n].left > monitor[w].watch
     /\ AwaitsAnswer(w) => attempts[n].left + monitor[w].waited >= LeaseTime

Timed(w) ==
  /\ worker[w].pc \in Monitored => monitor[w].armed
  /\ worker[w].transport => At(w, "collect") /\ Watching(w)
  /\ monitor[w].watch <= LeaseTime - RenewTime
  /\ AwaitsAnswer(w) => monitor[w].waited <= AnswerDelay
  /\ Guarded(w) => Covered(w)

AllTimed == Fenced /\ Distinct /\ \A w \in Workers : Timed(w)

LEMMA AttemptMoves ==
  ASSUME Typed, NEW w \in Workers,
         Fetch(w) \/ Execute(w) \/ Browse(w) \/ Watch(w) \/ Trouble(w)
  PROVE  \/ worker'[w].attempt \in {0, worker[w].attempt}
         \/ Claim(w) /\ worker'[w].attempt = Latest + 1
<1>t. worker \in [Workers -> WorkerRecords] BY DEF Typed, TypeOK
<1>h. ASSUME NEW failure, Throws(w, failure)
      PROVE  worker'[w].attempt = worker[w].attempt
  BY <1>h, <1>t DEF Throws, WorkerRecords
<1>a. ASSUME Aborts(w) PROVE worker'[w].attempt = worker[w].attempt
  BY <1>a, <1>t DEF Aborts, WorkerRecords
<1>d. ASSUME NEW decision, Decides(w, decision)
      PROVE  worker'[w].attempt = worker[w].attempt
  BY <1>d, <1>t DEF Decides, WorkerRecords
<1>g. ASSUME NEW pc, Goes(w, pc) PROVE worker'[w].attempt = worker[w].attempt
  BY <1>g, <1>t DEF Goes, WorkerRecords
<1>e. ASSUME NEW failure, Ends(w, failure)
      PROVE  worker'[w].attempt = worker[w].attempt
  BY <1>e, <1>t DEF Ends, WorkerRecords
<1>1. CASE Fetch(w) \/ Settle(w) \/ Crash(w)
  <2>1. worker'[w].attempt = 0
    <3>1. CASE Fetch(w) BY <3>1, <1>t DEF Fetch, Idle
    <3>2. CASE Settle(w) \/ Crash(w) BY <3>2, <1>t DEF Settle, Crash, Idle
    <3> QED BY <1>1, <3>1, <3>2
  <2> QED BY <2>1
<1>2. CASE Claim(w) BY <1>2, <1>t DEF Claim, WorkerRecords
<1>3. CASE Look(w)
  <2>1. CASE \E decision \in Decisions : Decides(w, decision) BY <2>1, <1>d
  <2>2. CASE worker' = [worker EXCEPT ![w] = [@ EXCEPT
               !.pc = "lookup", !.generation = site.generation]]
    BY <2>2, <1>t DEF WorkerRecords
  <2> QED BY <1>3, <2>1, <2>2 DEF Look, Decisions
<1>4. CASE Collected(w) BY <1>4, <1>t DEF Collected, WorkerRecords
<1>5. CASE Release(w) BY <1>5, <1>t DEF Release, WorkerRecords
<1>6. CASE Prepare(w) \/ ClaimBusy(w) \/ ClaimRefused(w) \/ ClaimAnswered(w)
           \/ ProofFound(w) \/ Decided(w) \/ Persist(w) \/ Record(w)
           \/ Interrupted(w)
  BY <1>6, <1>g, <1>e
  DEF Prepare, ClaimBusy, ClaimRefused, ClaimAnswered, ProofFound, Decided,
      Persist, Record, Interrupted
<1>7. CASE ProofRefused(w) \/ Confirm(w) \/ ProofMissing(w)
           \/ ProofUnavailable(w)
  BY <1>7, <1>d DEF ProofRefused, Confirm, ProofMissing, ProofUnavailable
<1>8. CASE CheckFails(w) \/ Abandon(w) \/ PersistRefused(w) \/ Persisted(w)
  BY <1>8, <1>h DEF CheckFails, Abandon, PersistRefused, Persisted
<1>9. CASE Check(w) BY <1>9, <1>t DEF Check, WorkerRecords
<1>10. CASE Contact(w) BY <1>10, <1>t DEF Contact, WorkerRecords
<1>11. CASE Watch(w) \/ RenewFails(w)
  BY <1>11, <1>a DEF Watch, RenewChecks, Renew, RenewAnswered, WatchEnds,
                     RenewFails
<1>12. CASE StatementFails(w)
  <2>1. PICK failure \in {"retry", "final"} :
       \/ worker' = [worker EXCEPT ![w] = [@ EXCEPT
            !.pc = "settle", !.attempt = 0, !.failure = failure]]
       \/ Throws(w, failure)
       \/ Decides(w, "denied")
       \/ worker' = [worker EXCEPT ![w] = [@ EXCEPT
            !.pc = "record", !.failure = failure]]
       \/ Ends(w, "retry")
    BY <1>12 DEF StatementFails
  <2>2. CASE worker' = [worker EXCEPT ![w] = [@ EXCEPT
               !.pc = "settle", !.attempt = 0, !.failure = failure]]
    BY <2>2, <1>t DEF WorkerRecords
  <2>3. CASE worker' = [worker EXCEPT ![w] = [@ EXCEPT
               !.pc = "record", !.failure = failure]]
    BY <2>3, <1>t DEF WorkerRecords
  <2> QED BY <2>1, <2>2, <2>3, <1>h, <1>d, <1>e
<1>13. CASE Shutdown(w) BY <1>13, <1>t DEF Shutdown, WorkerRecords
<1> QED
  BY <1>1, <1>2, <1>3, <1>4, <1>5, <1>6, <1>7, <1>8, <1>9, <1>10, <1>11,
     <1>12, <1>13 DEF Execute, Browse, Trouble

LEMMA DistinctInductive ==
  ASSUME Typed, Distinct, [Next]_vars
  PROVE  Distinct'
<1>t. \A v \in Workers : worker[v].attempt \in Nat /\ worker[v].attempt <= Latest
  BY DEF Typed, TypeOK, WorkerRecords, Pointer
<1>l. Latest \in Nat BY LatestTyped DEF Typed
<1>1. ASSUME NEW w \in Workers,
             Fetch(w) \/ Execute(w) \/ Browse(w) \/ Watch(w) \/ Trouble(w)
      PROVE  Distinct'
  <2>1. \A v \in Workers : v # w => worker'[v] = worker[v]
    BY <1>1, OthersKept
  <2>2. \/ worker'[w].attempt \in {0, worker[w].attempt}
        \/ worker'[w].attempt = Latest + 1
    BY <1>1, AttemptMoves
  <2> QED BY <1>t, <1>l, <2>1, <2>2 DEF Distinct
<1>2. CASE UNCHANGED worker BY <1>2 DEF Distinct
<1> QED
  BY <1>1, <1>2
  DEF Next, Enqueue, Abandoned, Stall, TakenBack, JobLost, Tick, Inspect,
      Reconcile, SiteChanges, vars

\* Nothing but its holder and the clock changes a lease that has time left.
LEMMA LeaseKept ==
  ASSUME Fenced, Distinct, NEW w \in Workers, worker[w].attempt > 0,
         Live(worker[w].attempt),
         \/ \E v \in Workers : /\ v # w \/ ~WritesTables(w)
                               /\ \/ Fetch(v) \/ Execute(v) \/ Browse(v)
                                  \/ Watch(v) \/ Trouble(v)
         \/ Reconcile \/ UNCHANGED attempts
  PROVE  attempts'[worker[w].attempt] = attempts[worker[w].attempt]
<1> DEFINE n == worker[w].attempt
<1>1. n \in 1..Latest /\ n # 0
  BY LatestTyped DEF Fenced, Typed, TypeOK, WorkerRecords, Pointer
<1>2. CASE UNCHANGED attempts BY <1>2
<1>3. CASE Reconcile
  <2>1. CASE Closes
    <3>1. n # Latest BY <2>1 DEF Closes, Unleased
    <3> QED BY <1>1, <1>3, <2>1, <3>1, ReconcileAttempts DEF Fenced, Typed
  <2>2. CASE ~Closes BY <1>3, <2>2 DEF Reconcile, Closes
  <2> QED BY <2>1, <2>2
<1>4. ASSUME NEW v \in Workers, v # w \/ ~WritesTables(w),
             Fetch(v) \/ Execute(v) \/ Browse(v) \/ Watch(v) \/ Trouble(v)
      PROVE  attempts'[n] = attempts[n]
  <2>1. CASE ~WritesTables(v) BY <1>4, <2>1, WorkerOnTables DEF Tables
  <2>2. CASE WritesTables(v)
    <3>1. v # w BY <1>4, <2>2
    <3>2. worker[v].attempt # n BY <1>1, <3>1 DEF Distinct
    <3>3. CASE Claim(v)
      <4>1. n # Latest BY <1>1, <3>3 DEF Claim, MayClaim
      <4> HIDE DEF n
      <4> QED BY <1>1, <3>3, <4>1, ClaimAttempts DEF Fenced, Typed
    <3>4. CASE Persist(v)
      <4> HIDE DEF n
      <4> QED BY <1>1, <3>2, <3>4, PersistAttempts DEF Fenced
    <3>5. CASE Release(v)
      <4> HIDE DEF n
      <4> QED BY <1>1, <3>2, <3>5, ReleaseAttempts DEF Fenced
    <3>6. CASE Record(v) /\ OwnsFailure(v) /\ LastTry(v)
      <4> HIDE DEF n
      <4> QED BY <1>1, <3>2, <3>6, RecordAttempts DEF Fenced
    <3>7. CASE Renew(v) /\ Live(worker[v].attempt)
      <4> HIDE DEF n
      <4> QED BY <1>1, <3>2, <3>7, RenewAttempts DEF Fenced
    <3>8. CASE Prepare(v) BY <3>8 DEF Prepare
    <3> QED BY <2>2, <3>3, <3>4, <3>5, <3>6, <3>7, <3>8 DEF WritesTables
  <2> QED BY <2>1, <2>2
<1> QED BY <1>2, <1>3, <1>4

\* An execution nothing happens to stays timed while its lease is kept.
LEMMA TimedOther ==
  ASSUME AllTimed, NEW v \in Workers,
         worker'[v] = worker[v], monitor'[v] = monitor[v],
         Guarded(v) => attempts'[worker[v].attempt] = attempts[worker[v].attempt]
  PROVE  Timed(v)'
<1>1. Timed(v) BY DEF AllTimed
<1> QED
  BY <1>1 DEF Timed, Guarded, Covered, AwaitsAnswer, Watching, At, Live

\* A step that leaves w without a lease to guard.
LEMMA TimedUnguarded ==
  ASSUME AllTimed, NEW w \in Workers,
         worker'[w].pc \notin Monitored \union {"claimed"},
         worker'[w].transport = FALSE, monitor'[w].armed = FALSE,
         monitor'[w].watch <= LeaseTime - RenewTime,
         monitor'[w].renewal = "updated" =>
           /\ monitor[w].renewal = "updated"
           /\ monitor'[w].waited = monitor[w].waited
  PROVE  Timed(w)'
<1>1. Timed(w) BY DEF AllTimed
<1>2. monitor[w].renewal = "updated" => monitor[w].waited <= AnswerDelay
  BY <1>1 DEF Timed, AwaitsAnswer
<1> QED
  BY <1>2 DEF Timed, Guarded, Watching, At, AwaitsAnswer, Monitored

LEMMA TimedThrows ==
  ASSUME AllTimed, NEW w \in Workers, NEW failure, Throws(w, failure)
  PROVE  Timed(w)'
<1>1. /\ worker'[w].pc = "release" /\ worker'[w].transport = FALSE
      /\ monitor'[w].armed = FALSE
      /\ monitor'[w].watch = monitor[w].watch
      /\ monitor'[w].renewal = monitor[w].renewal
      /\ monitor'[w].waited = monitor[w].waited
  BY DEF Throws, AllTimed, Fenced, Typed, TypeOK, WorkerRecords, MonitorRecords
<1>2. monitor[w].watch <= LeaseTime - RenewTime BY DEF AllTimed, Timed
<1> QED BY <1>1, <1>2, TimedUnguarded DEF Monitored

LEMMA TimedAborts ==
  ASSUME AllTimed, NEW w \in Workers, Aborts(w), monitor[w].armed \/
           monitor[w].renewal # "no",
         Guarded(w) => attempts'[worker[w].attempt] = attempts[worker[w].attempt]
  PROVE  Timed(w)'
<1>1. /\ worker'[w].pc = worker[w].pc /\ worker'[w].transport = FALSE
      /\ monitor'[w].armed = monitor[w].armed
      /\ monitor'[w].aborted = TRUE
      /\ monitor'[w].watch = monitor[w].watch
      /\ monitor'[w].renewal = "no"
  BY DEF Aborts, AllTimed, Fenced, Typed, TypeOK, WorkerRecords, MonitorRecords
<1>2. Timed(w) /\ Pointer(w) BY DEF AllTimed, Fenced, Typed
<1>3. worker[w].pc # "claimed" BY <1>2 DEF Pointer, Monitored, Unmonitored
<1> QED
  BY <1>1, <1>2, <1>3 DEF Timed, Guarded, Watching, At, AwaitsAnswer

\* A step of w inside the monitored part that leaves monitor and lease alone.
LEMMA TimedMoves ==
  ASSUME AllTimed, NEW w \in Workers, UNCHANGED monitor,
         worker[w].pc \in Monitored, worker'[w].pc \in Monitored,
         worker'[w].attempt = worker[w].attempt,
         worker'[w].pc = "persisted" \/
           /\ worker[w].pc # "persisted"
           /\ Guarded(w) =>
                attempts'[worker[w].attempt] = attempts[worker[w].attempt],
         worker'[w].transport => worker'[w].pc = "collect" /\ Watching(w)
  PROVE  Timed(w)'
<1>1. Timed(w) BY DEF AllTimed
<1>2. Watching(w)' = Watching(w) BY DEF Watching
<1>3. worker[w].pc # "claimed" /\ worker'[w].pc # "claimed" BY DEF Monitored
<1>4. AwaitsAnswer(w)' = AwaitsAnswer(w) BY <1>3 DEF AwaitsAnswer, At
<1>5. Guarded(w)' => Guarded(w) /\ Covered(w)
                     /\ attempts'[worker[w].attempt] = attempts[worker[w].attempt]
  BY <1>1, <1>2, <1>3 DEF Guarded, Timed, At
<1>6. Guarded(w)' => Covered(w)' BY <1>3, <1>4, <1>5 DEF Covered, Live, At
<1> QED BY <1>1, <1>2, <1>4, <1>6 DEF Timed, At

\* Before and after its lease an execution has nothing to guard.
LEMMA TimedOutside ==
  ASSUME AllTimed, NEW w \in Workers, UNCHANGED monitor,
         worker[w].pc \notin Monitored,
         worker'[w].pc \notin Monitored \union {"claimed"},
         worker'[w].transport \in {FALSE, worker[w].transport}
  PROVE  Timed(w)'
<1>1. Timed(w) /\ Pointer(w) /\ monitor[w] \in MonitorRecords
      /\ worker[w] \in WorkerRecords
  BY DEF AllTimed, Fenced, Typed, TypeOK
<1>2. monitor[w].armed = FALSE BY <1>1 DEF Pointer, MonitorRecords
<1>3. worker[w].transport = FALSE
  BY <1>1 DEF Timed, At, Monitored, WorkerRecords
<1> QED BY <1>1, <1>2, <1>3, TimedUnguarded DEF Timed

LEMMA TimedExecute ==
  ASSUME AllTimed, AnswerDelay < RenewTime, NEW w \in Workers, Execute(w)
  PROVE  Timed(w)'
<1>t. /\ worker \in [Workers -> WorkerRecords]
      /\ monitor \in [Workers -> MonitorRecords]
      /\ worker[w] \in WorkerRecords /\ monitor[w] \in MonitorRecords
      /\ Pointer(w) /\ Timed(w) /\ Fenced /\ Distinct
      /\ worker[w].attempt \in Nat /\ Latest \in Nat
      /\ LeaseTime \in Nat /\ RenewTime \in Nat /\ RenewTime < LeaseTime
      /\ AnswerDelay \in Nat
  BY LatestTyped, TimesAssumption
  DEF AllTimed, Fenced, Typed, TypeOK, WorkerRecords
<1>f. ASSUME NEW pc, Goes(w, pc)
      PROVE  /\ worker'[w].pc = pc
             /\ worker'[w].attempt = worker[w].attempt
             /\ worker'[w].transport = worker[w].transport
  BY <1>f, <1>t DEF Goes, WorkerRecords
<1>e. ASSUME NEW failure, Ends(w, failure)
      PROVE  /\ worker'[w].pc = "settle"
             /\ worker'[w].transport = worker[w].transport
  BY <1>e, <1>t DEF Ends, WorkerRecords
<1>d. ASSUME NEW decision, Decides(w, decision)
      PROVE  /\ worker'[w].pc = "decided"
             /\ worker'[w].attempt = worker[w].attempt
             /\ worker'[w].transport = worker[w].transport
  BY <1>d, <1>t DEF Decides, WorkerRecords
<1>1. CASE Settle(w)
  <2>1. worker'[w] = Idle /\ monitor'[w] = NoMonitor
    BY <1>1, <1>t DEF Settle
  <2>2. /\ worker'[w].pc = "idle" /\ worker'[w].transport = FALSE
        /\ monitor'[w].armed = FALSE /\ monitor'[w].watch = 0
        /\ monitor'[w].renewal = "no"
    BY <2>1 DEF Idle, NoMonitor
  <2>3. monitor'[w].watch <= LeaseTime - RenewTime BY <1>t, <2>2
  <2>4. worker'[w].pc \notin Monitored \union {"claimed"}
    BY <2>2 DEF Monitored
  <2> QED BY <2>2, <2>3, <2>4, TimedUnguarded
<1>2. CASE Prepare(w) \/ ClaimBusy(w) \/ ClaimRefused(w) \/ Interrupted(w)
           \/ Record(w)
  <2>1. worker[w].pc \in {"prepare", "claim", "record"} /\ UNCHANGED monitor
    BY <1>2 DEF Prepare, ClaimBusy, ClaimRefused, Interrupted, Record, At
  <2>2. /\ worker'[w].pc \in {"settle", "claim", "prepare"}
        /\ worker'[w].transport = worker[w].transport
    BY <1>2, <1>f, <1>e
    DEF Prepare, ClaimBusy, ClaimRefused, Interrupted, Record
  <2> QED BY <2>1, <2>2, TimedOutside DEF Monitored
<1>3. CASE Release(w)
  <2>1. /\ worker[w].pc = "release" /\ worker'[w].pc \in {"settle", "record"}
        /\ worker'[w].transport = worker[w].transport /\ UNCHANGED monitor
    BY <1>3, <1>t DEF Release, At, WorkerRecords
  <2> QED BY <2>1, TimedOutside DEF Monitored
<1>4. CASE Claim(w)
  <2>1. /\ worker'[w].pc = "claimed" /\ worker'[w].attempt = Latest + 1
        /\ worker'[w].transport = worker[w].transport
        /\ worker[w].pc = "claim"
    BY <1>4, <1>t DEF Claim, At, WorkerRecords
  <2>2. /\ monitor'[w].armed = monitor[w].armed
        /\ monitor'[w].watch = monitor[w].watch
        /\ monitor'[w].waited = 0
    BY <1>4, <1>t DEF Claim, MonitorRecords
  <2>3. attempts'[Latest + 1] = [status |-> "running", left |-> LeaseTime]
    BY <1>4, <1>t, ClaimAttempts DEF Fenced, Typed
  <2>4. /\ attempts'[worker'[w].attempt].status = "running"
        /\ attempts'[worker'[w].attempt].left = LeaseTime
    BY <2>1, <2>3
  <2>5. Covered(w)' BY <1>t, <2>1, <2>2, <2>4 DEF Covered, Live, At
  <2>6. ~worker'[w].transport
    BY <1>t, <2>1 DEF Timed, At
  <2> QED
    BY <1>t, <2>1, <2>2, <2>5, <2>6 DEF Timed, Monitored
<1>5. CASE ClaimAnswered(w)
  <2>1. /\ worker'[w].pc = "held" /\ worker'[w].attempt = worker[w].attempt
        /\ worker'[w].transport = worker[w].transport
        /\ worker[w].pc = "claimed"
    BY <1>5, <1>f DEF ClaimAnswered, At
  <2>2. /\ monitor'[w].armed = TRUE /\ monitor'[w].renewal = "no"
        /\ monitor'[w].watch = LeaseTime - RenewTime
    BY <1>5, <1>t DEF ClaimAnswered, NoMonitor
  <2>3. attempts' = attempts BY <1>5 DEF ClaimAnswered
  <2>4. /\ Live(worker[w].attempt)
        /\ attempts[worker[w].attempt].left + monitor[w].waited >= LeaseTime
        /\ monitor[w].waited <= AnswerDelay
    BY <1>t, <2>1 DEF Timed, Guarded, Covered, AwaitsAnswer, At
  <2>5. attempts[worker[w].attempt].left > LeaseTime - RenewTime
    <3>1. worker[w].attempt \in 1..Latest
      BY <1>t, <2>1 DEF Pointer, Leased
    <3>2. /\ attempts[worker[w].attempt].left \in Nat
          /\ monitor[w].waited \in Nat
      BY <1>t, <3>1, LatestTyped DEF Fenced, Typed, MonitorRecords
    <3> QED BY <1>t, <2>4, <3>2
  <2>6. ~worker'[w].transport BY <1>t, <2>1 DEF Timed, At
  <2>7. Covered(w)'
    BY <2>1, <2>2, <2>3, <2>4, <2>5 DEF Covered, Live, AwaitsAnswer, At
  <2>8. ~AwaitsAnswer(w)' BY <2>1, <2>2 DEF AwaitsAnswer, At
  <2> QED BY <2>2, <2>6, <2>7, <2>8, <1>t DEF Timed
<1>6. CASE Look(w) \/ ProofFound(w) \/ ProofRefused(w) \/ Confirm(w)
           \/ Decided(w)
  <2>1. /\ worker[w].pc \in {"held", "lookup", "confirm", "decided"}
        /\ UNCHANGED <<monitor, attempts>>
    BY <1>6 DEF Look, ProofFound, ProofRefused, Confirm, Decided, Works, At
  <2>2. /\ worker'[w].pc \in Monitored
        /\ worker'[w].attempt = worker[w].attempt
        /\ worker'[w].transport = worker[w].transport
    <3>1. CASE Look(w)
      <4>1. CASE Decides(w, "denied") BY <4>1, <1>d DEF Monitored
      <4>2. CASE worker' = [worker EXCEPT ![w] = [@ EXCEPT
                   !.pc = "lookup", !.generation = site.generation]]
        BY <4>2, <1>t DEF WorkerRecords, Monitored
      <4> QED BY <3>1, <4>1, <4>2 DEF Look
    <3>2. CASE Decided(w) BY <3>2, <1>f DEF Decided, Monitored
    <3>3. CASE ProofFound(w) BY <3>3, <1>f DEF ProofFound, Monitored
    <3> QED BY <1>6, <3>1, <3>2, <3>3, <1>d
          DEF ProofRefused, Confirm, Monitored
  <2>3. ~worker'[w].transport BY <1>t, <2>1, <2>2 DEF Timed, At
  <2> QED BY <2>1, <2>2, <2>3, TimedMoves DEF Monitored
<1>7. CASE Collected(w)
  <2>1. /\ worker[w].pc = "collect" /\ worker'[w].pc = "persist"
        /\ worker'[w].attempt = worker[w].attempt
        /\ worker'[w].transport = FALSE /\ UNCHANGED <<monitor, attempts>>
    BY <1>7, <1>t DEF Collected, Works, At, WorkerRecords
  <2> QED BY <2>1, TimedMoves DEF Monitored
<1>8. CASE CheckFails(w) \/ Abandon(w) \/ PersistRefused(w) \/ Persisted(w)
  <2>1. \E failure \in Failures : Throws(w, failure)
    BY <1>8 DEF CheckFails, Abandon, PersistRefused, Persisted, Failures
  <2> QED BY <2>1, TimedThrows
<1>9. CASE Persist(w)
  <2>1. /\ worker[w].pc = "persist" /\ worker'[w].pc = "persisted"
        /\ worker'[w].attempt = worker[w].attempt
        /\ worker'[w].transport = worker[w].transport /\ UNCHANGED monitor
    BY <1>9, <1>f DEF Persist, Works, At
  <2>2. ~worker'[w].transport BY <1>t, <2>1 DEF Timed, At
  <2> QED BY <2>1, <2>2, TimedMoves DEF Monitored
<1> QED
  BY <1>1, <1>2, <1>3, <1>4, <1>5, <1>6, <1>7, <1>8, <1>9 DEF Execute

LEMMA TimedWorker ==
  ASSUME AllTimed, AnswerDelay < RenewTime, NEW w \in Workers,
         Fetch(w) \/ Browse(w) \/ Watch(w) \/ Trouble(w)
  PROVE  Timed(w)'
<1>t. /\ worker \in [Workers -> WorkerRecords]
      /\ monitor \in [Workers -> MonitorRecords]
      /\ worker[w] \in WorkerRecords /\ monitor[w] \in MonitorRecords
      /\ Pointer(w) /\ Timed(w) /\ Fenced /\ Distinct
      /\ worker[w].attempt \in Nat /\ Latest \in Nat
      /\ LeaseTime \in Nat /\ RenewTime \in Nat /\ RenewTime < LeaseTime
      /\ AnswerDelay \in Nat
  BY LatestTyped, TimesAssumption
  DEF AllTimed, Fenced, Typed, TypeOK, WorkerRecords
<1>m. monitor[w].waited \in Nat /\ monitor[w].watch \in Nat
      /\ monitor[w].armed \in BOOLEAN
  BY <1>t DEF MonitorRecords
<1>d. ASSUME NEW decision, Decides(w, decision)
      PROVE  /\ worker'[w].pc = "decided"
             /\ worker'[w].attempt = worker[w].attempt
             /\ worker'[w].transport = worker[w].transport
  BY <1>d, <1>t DEF Decides, WorkerRecords
<1>1. CASE Fetch(w)
  <2>1. /\ worker[w].pc = "idle" /\ worker'[w].pc = "prepare"
        /\ worker'[w].transport = FALSE /\ UNCHANGED monitor
    BY <1>1, <1>t DEF Fetch, Idle, At
  <2> QED BY <2>1, TimedOutside DEF Monitored
<1>2. CASE Check(w)
  <2>1. /\ worker[w].pc = "collect" /\ worker'[w].pc = "collect"
        /\ worker'[w].attempt = worker[w].attempt
        /\ worker'[w].transport = worker[w].transport
        /\ UNCHANGED <<monitor, attempts>>
    BY <1>2, <1>t DEF Check, Works, At, WorkerRecords
  <2>2. worker'[w].transport => Watching(w) BY <1>t, <2>1 DEF Timed
  <2> QED BY <2>1, <2>2, TimedMoves DEF Monitored
<1>3. CASE Contact(w)
  <2>1. /\ worker[w].pc = "collect" /\ worker'[w].pc = "collect"
        /\ worker'[w].attempt = worker[w].attempt
        /\ ~monitor[w].aborted
        /\ UNCHANGED <<monitor, attempts>>
    BY <1>3, <1>t DEF Contact, Works, At, WorkerRecords
  <2>2. Watching(w) BY <1>t, <2>1 DEF Timed, Monitored, Watching
  <2> QED BY <2>1, <2>2, TimedMoves DEF Monitored
<1>4. CASE RenewChecks(w)
  <2>1. monitor[w].armed /\ attempts' = attempts
    BY <1>4 DEF RenewChecks, Watching
  <2>2. CASE Aborts(w) BY <2>1, <2>2, TimedAborts
  <2>3. CASE ~Aborts(w)
    <3>1. /\ worker' = worker
          /\ monitor'[w].armed = monitor[w].armed
          /\ monitor'[w].aborted = monitor[w].aborted
          /\ monitor'[w].watch = monitor[w].watch
          /\ monitor'[w].renewal = "asserted"
          /\ monitor'[w].waited = monitor[w].waited
      BY <1>4, <2>3, <1>t DEF RenewChecks, MonitorRecords
    <3> QED
      BY <1>t, <2>1, <3>1
      DEF Timed, Guarded, Covered, Live, Watching, AwaitsAnswer, At
  <2> QED BY <2>2, <2>3
<1>5. CASE Renew(w)
  <2>1. CASE ~Live(worker[w].attempt)
    <3>1. /\ Aborts(w) /\ attempts' = attempts /\ monitor[w].renewal # "no"
      BY <1>5, <2>1 DEF Renew
    <3> QED BY <3>1, TimedAborts
  <2>2. CASE Live(worker[w].attempt)
    <3>1. /\ worker' = worker
          /\ monitor'[w].armed = monitor[w].armed
          /\ monitor'[w].aborted = monitor[w].aborted
          /\ monitor'[w].watch = monitor[w].watch
          /\ monitor'[w].renewal = "updated"
          /\ monitor'[w].waited = 0
          /\ monitor[w].renewal = "asserted"
      <4> DEFINE m == [monitor[w] EXCEPT !.renewal = "updated", !.waited = 0]
      <4>1. worker' = worker /\ monitor[w].renewal = "asserted"
        BY <1>5, <2>2 DEF Renew
      <4>2. monitor' = [monitor EXCEPT ![w] = m] BY <1>5, <2>2 DEF Renew
      <4>3. /\ m.armed = monitor[w].armed /\ m.aborted = monitor[w].aborted
            /\ m.watch = monitor[w].watch /\ m.renewal = "updated"
            /\ m.waited = 0
        BY <1>t DEF MonitorRecords
      <4> HIDE DEF m
      <4>4. monitor'[w] = m BY <1>t, <4>2
      <4> QED BY <4>1, <4>3, <4>4
    <3>2. /\ attempts'[worker[w].attempt].status = "running"
          /\ attempts'[worker[w].attempt].left = LeaseTime
      BY <1>5, <2>2, RenewAttempts, <1>t DEF Fenced
    <3>3. monitor[w].watch < LeaseTime BY <1>t, <1>m DEF Timed
    <3>4. Covered(w)'
      BY <1>t, <3>1, <3>2, <3>3 DEF Covered, Live, AwaitsAnswer, At
    <3> QED BY <1>t, <3>1, <3>4 DEF Timed, Watching, At
  <2> QED BY <2>1, <2>2
<1>6. CASE RenewAnswered(w)
  <2>1. /\ worker' = worker /\ attempts' = attempts
        /\ monitor'[w].armed = monitor[w].armed
        /\ monitor'[w].aborted = monitor[w].aborted
        /\ monitor'[w].renewal = "no" /\ monitor[w].renewal = "updated"
        /\ monitor'[w].waited = monitor[w].waited
        /\ Watching(w) => monitor'[w].watch = LeaseTime - RenewTime
        /\ ~Watching(w) => monitor'[w].watch = monitor[w].watch
    BY <1>6, <1>t DEF RenewAnswered, MonitorRecords, RearmedWatch
  <2>2. worker[w].pc # "claimed" BY <1>t, <2>1 DEF Pointer, Unmonitored
  <2>3. ASSUME Guarded(w)
        PROVE  /\ Live(worker[w].attempt)
               /\ attempts[worker[w].attempt].left > LeaseTime - RenewTime
    <3>1. /\ Live(worker[w].attempt)
          /\ attempts[worker[w].attempt].left + monitor[w].waited >= LeaseTime
          /\ monitor[w].waited <= AnswerDelay
      BY <1>t, <2>1, <2>3 DEF Timed, Covered, AwaitsAnswer
    <3>2. worker[w].attempt \in 1..Latest
      BY <1>t, <2>1 DEF Pointer
    <3>3. attempts[worker[w].attempt].left \in Nat
      BY <3>2, <1>t, LatestTyped DEF Fenced, Typed
    <3> QED BY <1>t, <1>m, <3>1, <3>3
  <2>4. Guarded(w)' => Guarded(w) /\ Watching(w)
    BY <2>1, <2>2 DEF Guarded, Watching, At
  <2>5. Guarded(w)' => Covered(w)'
    BY <2>1, <2>2, <2>3, <2>4 DEF Covered, Live, AwaitsAnswer, At
  <2>6. monitor'[w].watch <= LeaseTime - RenewTime
    BY <1>t, <2>1 DEF Timed
  <2>7. ~AwaitsAnswer(w)' BY <2>1, <2>2 DEF AwaitsAnswer, At
  <2> QED BY <1>t, <2>1, <2>5, <2>6, <2>7 DEF Timed, Watching, At
<1>7. CASE WatchEnds(w) \/ RenewFails(w)
  <2>1. monitor[w].armed /\ Aborts(w) /\ attempts' = attempts
    BY <1>7 DEF WatchEnds, RenewFails, Watching
  <2> QED BY <2>1, TimedAborts
<1>8. CASE ProofMissing(w) \/ ProofUnavailable(w)
  <2>1. /\ worker[w].pc = "lookup" /\ UNCHANGED <<monitor, attempts>>
        /\ worker'[w].pc = "decided"
        /\ worker'[w].attempt = worker[w].attempt
        /\ worker'[w].transport = worker[w].transport
    BY <1>8, <1>d DEF ProofMissing, ProofUnavailable, Works, At
  <2>2. ~worker'[w].transport BY <1>t, <2>1 DEF Timed, At
  <2> QED BY <2>1, <2>2, TimedMoves DEF Monitored
<1>9. CASE StatementFails(w)
  <2>1. PICK failure \in {"retry", "final"} :
       \/ /\ worker[w].pc \in {"prepare", "claim", "claimed"}
          /\ worker' = [worker EXCEPT ![w] = [@ EXCEPT
               !.pc = "settle", !.attempt = 0, !.failure = failure]]
          /\ UNCHANGED monitor
       \/ Throws(w, failure)
       \/ Decides(w, "denied") /\ At(w, "lookup") /\ UNCHANGED monitor
       \/ /\ At(w, "release") /\ UNCHANGED monitor
          /\ worker' = [worker EXCEPT ![w] = [@ EXCEPT
               !.pc = "record", !.failure = failure]]
       \/ At(w, "record") /\ Ends(w, "retry") /\ UNCHANGED monitor
    BY <1>9 DEF StatementFails
  <2>2. CASE /\ worker[w].pc \in {"prepare", "claim", "claimed"}
             /\ worker' = [worker EXCEPT ![w] = [@ EXCEPT
                  !.pc = "settle", !.attempt = 0, !.failure = failure]]
             /\ UNCHANGED monitor
    <3>1. /\ worker'[w].pc = "settle"
          /\ worker'[w].transport = worker[w].transport
      BY <2>2, <1>t DEF WorkerRecords
    <3> QED BY <2>2, <3>1, TimedOutside DEF Monitored
  <2>3. CASE Throws(w, failure) BY <2>3, TimedThrows
  <2>4. CASE Decides(w, "denied") /\ At(w, "lookup") /\ UNCHANGED monitor
    <3>1. /\ worker'[w].pc = "decided" /\ worker[w].pc = "lookup"
          /\ worker'[w].attempt = worker[w].attempt
          /\ worker'[w].transport = worker[w].transport
          /\ attempts' = attempts
      BY <1>9, <2>4, <1>d DEF At, StatementFails
    <3>2. ~worker'[w].transport BY <1>t, <3>1 DEF Timed, At
    <3> QED BY <2>4, <3>1, <3>2, TimedMoves DEF Monitored
  <2>5. CASE /\ At(w, "release") /\ UNCHANGED monitor
             /\ worker' = [worker EXCEPT ![w] = [@ EXCEPT
                  !.pc = "record", !.failure = failure]]
    <3>1. /\ worker'[w].pc = "record" /\ worker[w].pc = "release"
          /\ worker'[w].transport = worker[w].transport
      BY <2>5, <1>t DEF WorkerRecords, At
    <3> QED BY <2>5, <3>1, TimedOutside DEF Monitored
  <2>6. CASE At(w, "record") /\ Ends(w, "retry") /\ UNCHANGED monitor
    <3>1. /\ worker'[w].pc = "settle" /\ worker[w].pc = "record"
          /\ worker'[w].transport = worker[w].transport
      BY <2>6, <1>t DEF WorkerRecords, At, Ends
    <3> QED BY <2>6, <3>1, TimedOutside DEF Monitored
  <2> QED BY <2>1, <2>2, <2>3, <2>4, <2>5, <2>6
<1>10. CASE Shutdown(w)
  <2>1. /\ worker'[w].pc = worker[w].pc /\ worker'[w].transport = FALSE
        /\ worker'[w].attempt = worker[w].attempt
        /\ monitor'[w].armed = monitor[w].armed
        /\ monitor'[w].aborted = monitor[w].armed
        /\ monitor'[w].watch = monitor[w].watch
        /\ monitor'[w].renewal = monitor[w].renewal
        /\ monitor'[w].waited = monitor[w].waited
        /\ attempts' = attempts
    BY <1>10, <1>t DEF Shutdown, WorkerRecords, MonitorRecords
  <2> QED
    BY <1>t, <1>m, <2>1
    DEF Timed, Guarded, Covered, Live, Watching, AwaitsAnswer, At
<1>11. CASE Crash(w)
  <2>1. worker'[w] = Idle /\ monitor'[w] = NoMonitor
    BY <1>11, <1>t DEF Crash
  <2>2. /\ worker'[w].pc = "idle" /\ worker'[w].transport = FALSE
        /\ monitor'[w].armed = FALSE /\ monitor'[w].watch = 0
        /\ monitor'[w].renewal = "no"
    BY <2>1 DEF Idle, NoMonitor
  <2>3. monitor'[w].watch <= LeaseTime - RenewTime BY <1>t, <2>2
  <2>4. worker'[w].pc \notin Monitored \union {"claimed"}
    BY <2>2 DEF Monitored
  <2> QED BY <2>2, <2>3, <2>4, TimedUnguarded
<1> QED
  BY <1>1, <1>2, <1>3, <1>4, <1>5, <1>6, <1>7, <1>8, <1>9, <1>10, <1>11
  DEF Browse, Watch, Trouble

\* Time passes for lease, watch and answer alike.
LEMMA TimedTick ==
  ASSUME AllTimed, AnswerDelay < RenewTime, NEW w \in Workers, Tick
  PROVE  Timed(w)'
<1>t. /\ monitor[w] \in MonitorRecords
      /\ Pointer(w) /\ Timed(w) /\ Fenced
      /\ worker[w].attempt \in Nat /\ Latest \in Nat
      /\ monitor[w].waited \in Nat /\ monitor[w].watch \in Nat
      /\ LeaseTime \in Nat /\ RenewTime \in Nat /\ RenewTime < LeaseTime
      /\ AnswerDelay \in Nat
  BY LatestTyped, TimesAssumption
  DEF AllTimed, Fenced, Typed, TypeOK, WorkerRecords, MonitorRecords
<1>1. /\ worker' = worker
      /\ Watching(w) => monitor[w].watch > 0
      /\ AwaitsAnswer(w) => monitor[w].waited < AnswerDelay
  BY DEF Tick
<1>2. /\ monitor'[w].armed = monitor[w].armed
      /\ monitor'[w].aborted = monitor[w].aborted
      /\ monitor'[w].renewal = monitor[w].renewal
      /\ monitor'[w].watch = Less(monitor[w].watch)
      /\ monitor'[w].waited =
           IF AwaitsAnswer(w) THEN monitor[w].waited + 1 ELSE 0
  <2> DEFINE watch == Less(monitor[w].watch)
             waited == IF AwaitsAnswer(w) THEN monitor[w].waited + 1 ELSE 0
             m1 == [monitor[w] EXCEPT !.watch = watch]
  <2>1. monitor'[w] = [m1 EXCEPT !.waited = waited] BY DEF Tick
  <2> HIDE DEF watch, waited
  <2>2. /\ monitor'[w].armed = monitor[w].armed
        /\ monitor'[w].aborted = monitor[w].aborted
        /\ monitor'[w].renewal = monitor[w].renewal
        /\ monitor'[w].watch = watch /\ monitor'[w].waited = waited
    BY <1>t, <2>1 DEF MonitorRecords
  <2> QED BY <2>2 DEF watch, waited
<1>3. ASSUME worker[w].attempt > 0
      PROVE  /\ attempts'[worker[w].attempt].status =
                  attempts[worker[w].attempt].status
             /\ attempts'[worker[w].attempt].left =
                  Less(attempts[worker[w].attempt].left)
             /\ attempts[worker[w].attempt].left \in Nat
  <2>1. worker[w].attempt \in 1..Latest BY <1>t, <1>3 DEF Pointer
  <2> QED BY <1>t, <2>1, TickAttempts, LatestTyped DEF Fenced, Typed
<1>4. /\ Watching(w)' = Watching(w) /\ AwaitsAnswer(w)' = AwaitsAnswer(w)
      /\ Guarded(w)' = Guarded(w)
  BY <1>1, <1>2 DEF Watching, AwaitsAnswer, Guarded, At
<1>5. ASSUME Guarded(w) PROVE Covered(w)'
  <2>1. worker[w].attempt > 0
    <3>1. worker[w].pc \in Leased
      BY <1>t, <1>5 DEF Guarded, Watching, At, Pointer, Monitored, Leased
    <3> QED BY <1>t, <3>1 DEF Pointer
  <2>2. Covered(w) BY <1>t, <1>5 DEF Timed
  <2>3. CASE At(w, "claimed")
    <3>1. AwaitsAnswer(w) BY <2>3 DEF AwaitsAnswer
    <3> QED
      BY <1>t, <1>1, <1>2, <1>3, <1>4, <2>1, <2>2, <2>3, <3>1
      DEF Covered, Live, Less, At
  <2>4. CASE ~At(w, "claimed")
    <3>1. Watching(w) BY <1>5, <2>4 DEF Guarded
    <3>2. attempts[worker[w].attempt].left > monitor[w].watch
          /\ monitor[w].watch > 0
      BY <1>1, <2>2, <2>4, <3>1 DEF Covered
    <3> QED
      BY <1>t, <1>1, <1>2, <1>3, <1>4, <2>1, <2>2, <2>4, <3>2
      DEF Covered, Live, Less, At
  <2> QED BY <2>3, <2>4
<1>6. monitor'[w].watch <= LeaseTime - RenewTime
  BY <1>t, <1>2 DEF Timed, Less
<1>7. AwaitsAnswer(w)' => monitor'[w].waited <= AnswerDelay
  BY <1>t, <1>1, <1>2, <1>4
<1> QED
  BY <1>t, <1>1, <1>2, <1>4, <1>5, <1>6, <1>7 DEF Timed, At

LEMMA AllTimedInductive ==
  ASSUME AllTimed, AnswerDelay < RenewTime, [Next]_vars
  PROVE  AllTimed'
<1>1. Fenced' /\ Distinct'
  BY FencedInductive, DistinctInductive DEF AllTimed, Fenced
<1>k. ASSUME NEW v \in Workers, Guarded(v)
      PROVE  worker[v].attempt > 0 /\ Live(worker[v].attempt)
  <2>1. Pointer(v) /\ Timed(v) BY DEF AllTimed, Fenced, Typed
  <2>2. worker[v].pc \in Leased
    BY <1>k, <2>1 DEF Guarded, Watching, At, Pointer, Monitored, Leased
  <2> QED BY <1>k, <2>1, <2>2 DEF Pointer, Timed, Covered
<1>2. ASSUME NEW v \in Workers PROVE Timed(v)'
  <2>1. ASSUME NEW w \in Workers,
               Fetch(w) \/ Execute(w) \/ Browse(w) \/ Watch(w) \/ Trouble(w)
        PROVE  Timed(v)'
    <3>1. CASE v = w BY <2>1, <3>1, TimedExecute, TimedWorker
    <3>2. CASE v # w
      <4>1. worker'[v] = worker[v] /\ monitor'[v] = monitor[v]
        BY <2>1, <3>2, OthersKept DEF AllTimed, Fenced
      <4>2. Guarded(v) => attempts'[worker[v].attempt]
                            = attempts[worker[v].attempt]
        BY <1>k, <2>1, <3>2, LeaseKept DEF AllTimed
      <4> QED BY <4>1, <4>2, TimedOther
    <3> QED BY <3>1, <3>2
  <2>2. CASE Tick BY <2>2, TimedTick
  <2>3. CASE \/ Enqueue \/ Abandoned \/ Stall \/ JobLost \/ Inspect
             \/ Reconcile \/ SiteChanges \/ UNCHANGED vars
    <3>1. worker' = worker /\ monitor' = monitor
      BY <2>3 DEF Enqueue, Abandoned, Stall, TakenBack, JobLost, Inspect,
                  Reconcile, SiteChanges, vars
    <3>2. Reconcile \/ UNCHANGED attempts
      BY <2>3 DEF Enqueue, Abandoned, Stall, TakenBack, JobLost, Inspect,
                  SiteChanges, vars
    <3>3. Guarded(v) => attempts'[worker[v].attempt]
                          = attempts[worker[v].attempt]
      BY <1>k, <3>2, LeaseKept DEF AllTimed
    <3> QED BY <3>1, <3>3, TimedOther
  <2> QED BY <2>1, <2>2, <2>3 DEF Next
<1> QED BY <1>1, <1>2 DEF AllTimed

\* When answers come before the margin of the watch is used up, a transport to
\* the site is only open under a lease, whatever else fails.
THEOREM TransportsCorrect ==
  ASSUME AnswerDelay < RenewTime
  PROVE  Spec => []TransportsUnderLease
<1>1. Init => AllTimed
  <2> SUFFICES ASSUME Init PROVE AllTimed OBVIOUS
  <2>1. Typed BY TypedInitially
  <2>2. Latest = 0 /\ results = 0 /\ scan = "queued" BY DEF Init, Latest
  <2>3. Fenced
    BY <2>1, <2>2 DEF Fenced, OneRunningAttempt, ResultsAreFinal
  <2>4. \A w \in Workers : worker[w] = Idle /\ monitor[w] = NoMonitor
    BY DEF Init
  <2>5. ASSUME NEW w \in Workers
        PROVE  /\ worker[w].attempt = 0 /\ worker[w].pc = "idle"
               /\ worker[w].transport = FALSE
               /\ monitor[w].armed = FALSE /\ monitor[w].renewal = "no"
               /\ monitor[w].watch = 0
    <3>1. worker[w] = Idle /\ monitor[w] = NoMonitor BY <2>4
    <3> QED BY <3>1 DEF Idle, NoMonitor
  <2>6. Distinct BY <2>5 DEF Distinct
  <2>7. ASSUME NEW w \in Workers PROVE Timed(w)
    <3>1. 0 <= LeaseTime - RenewTime BY TimesAssumption
    <3>2. /\ ~Guarded(w) /\ ~AwaitsAnswer(w) /\ worker[w].pc \notin Monitored
          /\ worker[w].transport = FALSE /\ monitor[w].watch = 0
      BY <2>5 DEF Monitored, Guarded, Watching, At, AwaitsAnswer
    <3> QED BY <3>1, <3>2 DEF Timed
  <2> QED BY <2>3, <2>6, <2>7 DEF AllTimed
<1>2. AllTimed /\ [Next]_vars => AllTimed' BY AllTimedInductive
<1>3. AllTimed => TransportsUnderLease
  <2> SUFFICES ASSUME AllTimed, NEW w \in Workers, worker[w].transport
               PROVE  Live(worker[w].attempt)
    BY DEF TransportsUnderLease
  <2>1. Timed(w) BY DEF AllTimed
  <2>2. At(w, "collect") /\ Watching(w) BY <2>1 DEF Timed
  <2>3. Guarded(w) BY <2>2 DEF Guarded, At
  <2> QED BY <2>1, <2>3 DEF Timed, Covered
<1> QED BY <1>1, <1>2, <1>3, PTL DEF Spec
==============================================================================
