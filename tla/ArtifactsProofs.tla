---------------------------- MODULE ArtifactsProofs ----------------------------
(***************************************************************************)
(* Proofs about Artifacts, for any number of scans, cleaners and failures: *)
(* types, the files that are shown, the journal of those that are not, and *)
(* the contract.                                                           *)
(***************************************************************************)
EXTENDS Artifacts, TLAPS

-----------------------------------------------------------------------------
(* The inductive invariant.                                                  *)

\* A batch looks at, works on and drops only rows it has locked.
OnLocked(r) ==
  /\ r.todo \subseteq r.held /\ r.gone \subseteq r.held
  /\ r.step # "idle" => r.at \in r.held
BatchesAreLocked == \A c \in Cleaners : OnLocked(cleaner[c])

\* Two batches share no row, and the rows of a batch stay in the journal.
LocksAreExclusive ==
  /\ \A c, d \in Cleaners :
       \A s \in cleaner[c].held \intersect cleaner[d].held : c = d
  /\ \A c \in Cleaners : \A s \in cleaner[c].held : task[s] # "none"

\* A writer with its transaction has the scan, its intent and no cleaner.
WritersAreAlone ==
  \A s \in Scans : Holds(s) =>
    /\ scan[s] = "completed" /\ task[s] = "write_intent" /\ TaskFree(s)
    /\ writer[s].pc = "renamed" => s \in final

\* What is shown has its file, its writer is over and nothing will take it.
ShownIsKept ==
  \A s \in artifact :
    /\ s \in final /\ task[s] = "none"
    /\ writer[s].pc = "over" /\ scan[s] = "completed"

\* A writer that lost its transaction, for which the journal does not answer.
Excused(s) == writer[s].lost /\ (PromptWrites => scan[s] = "deleted")
Stray(s) == Writing(s) /\ writer[s].lost

\* Only the deletion of its scan can take the intent of a lost writer away.
StraysAreJournaled ==
  \A s \in Scans :
    /\ Writing(s) /\ task[s] = "delete" => scan[s] = "deleted"
    /\ Stray(s) => task[s] # "none" \/ Excused(s)
    /\ Stray(s) /\ ~TaskFree(s) => Excused(s)

\* What a batch removed is gone, unless a lost writer brought it back.
RemovedIsGone ==
  \A c \in Cleaners :
    /\ \A s \in cleaner[c].gone : s \notin final \union temp \/ Excused(s)
    /\ cleaner[c].step = "temp" =>
         cleaner[c].at \notin final \/ Excused(cleaner[c].at)

HiddenIsJournaled ==
  \A s \in Scans :
    s \in (final \union temp) \ artifact => task[s] # "none" \/ Excused(s)

IInv ==
  /\ TypeOK /\ BatchesAreLocked /\ LocksAreExclusive /\ WritersAreAlone
  /\ ShownIsKept /\ StraysAreJournaled /\ RemovedIsGone /\ HiddenIsJournaled

-----------------------------------------------------------------------------
(* Types.                                                                    *)

\* Moving a writer, or marking it, keeps its record's type.
LEMMA WriterField ==
  ASSUME NEW r \in Writers
  PROVE  /\ \A x \in Pcs : [r EXCEPT !.pc = x] \in Writers
         /\ \A x \in BOOLEAN : [r EXCEPT !.lost = x] \in Writers
  BY SMTT(30) DEF Writers

LEMMA GoesTyped ==
  ASSUME writer \in [Scans -> Writers], NEW s \in Scans, NEW x \in Pcs,
         Goes(s, x)
  PROVE  /\ writer' \in [Scans -> Writers]
         /\ writer'[s].pc = x
         /\ \A r \in Scans : writer'[r].lost = writer[r].lost
         /\ \A r \in Scans : r # s => writer'[r] = writer[r]
  BY WriterField, SMT DEF Goes, Writers

\* Cleaner records keep their type field by field.
LEMMA CleanerField ==
  ASSUME NEW r \in CleanerRecords
  PROVE  /\ \A x \in SUBSET Scans :
              /\ [r EXCEPT !.held = x] \in CleanerRecords
              /\ [r EXCEPT !.todo = x] \in CleanerRecords
              /\ [r EXCEPT !.gone = x] \in CleanerRecords
         /\ \A x \in Scans \union {NoScan} : [r EXCEPT !.at = x] \in CleanerRecords
         /\ \A x \in {"idle", "final", "temp"} :
              [r EXCEPT !.step = x] \in CleanerRecords
  BY SMTT(30) DEF CleanerRecords

LEMMA NoBatchTyped == NoBatch \in CleanerRecords
  BY DEF NoBatch, CleanerRecords

LEMMA BecomesTyped ==
  ASSUME cleaner \in [Cleaners -> CleanerRecords], NEW c \in Cleaners,
         NEW r \in CleanerRecords, Becomes(c, r)
  PROVE  /\ cleaner' \in [Cleaners -> CleanerRecords]
         /\ cleaner'[c] = r
         /\ \A d \in Cleaners : d # c => cleaner'[d] = cleaner[d]
  BY SMT DEF Becomes

\* What each step of a cleaner does to its record, and that it does no more.
Only(c) ==
  /\ cleaner' \in [Cleaners -> CleanerRecords]
  /\ \A d \in Cleaners : d # c => cleaner'[d] = cleaner[d]

LEMMA LockEffect ==
  ASSUME TypeOK, NEW c \in Cleaners, NEW B \in SUBSET Scans, LockBatch(c, B)
  PROVE  /\ Only(c)
         /\ cleaner'[c].held = B /\ cleaner'[c].todo = B
         /\ cleaner'[c].gone = {} /\ cleaner'[c].step = "idle"
<1> DEFINE r == [NoBatch EXCEPT !.held = B, !.todo = B]
<1>1. r \in CleanerRecords
  <2>1. [NoBatch EXCEPT !.held = B] \in CleanerRecords
    BY NoBatchTyped, CleanerField
  <2> QED
    BY <2>1, CleanerField, Zenon
<1>2. r.held = B /\ r.todo = B /\ r.gone = {} /\ r.step = "idle"
  BY SMT DEF NoBatch
<1> HIDE DEF r
<1>3. Becomes(c, r)
  BY DEF LockBatch, r
<1> QED
  BY <1>1, <1>2, <1>3, BecomesTyped DEF Only, TypeOK

LEMMA LookEffect ==
  ASSUME TypeOK, NEW c \in Cleaners, NEW s \in Scans, Look(c, s)
  PROVE  /\ Only(c) /\ s \in cleaner[c].todo
         /\ cleaner'[c].held = cleaner[c].held
         /\ cleaner'[c].todo = cleaner[c].todo \ {s}
         /\ \/ /\ s \in artifact /\ cleaner'[c].gone = cleaner[c].gone \union {s}
               /\ cleaner'[c].step = cleaner[c].step
               /\ cleaner'[c].at = cleaner[c].at
            \/ /\ cleaner'[c].gone = cleaner[c].gone
               /\ cleaner'[c].step = cleaner[c].step
               /\ cleaner'[c].at = cleaner[c].at
            \/ /\ s \notin artifact /\ cleaner'[c].gone = cleaner[c].gone
               /\ cleaner'[c].step = "final" /\ cleaner'[c].at = s
<1> DEFINE rest == [cleaner[c] EXCEPT !.todo = @ \ {s}]
           drop == [rest EXCEPT !.gone = @ \union {s}]
           take == [rest EXCEPT !.at = s, !.step = "final"]
<1>1. cleaner[c] \in CleanerRecords /\ cleaner \in [Cleaners -> CleanerRecords]
  BY DEF TypeOK
<1>2. /\ rest \in CleanerRecords
      /\ rest.held = cleaner[c].held /\ rest.todo = cleaner[c].todo \ {s}
      /\ rest.gone = cleaner[c].gone
      /\ rest.at = cleaner[c].at /\ rest.step = cleaner[c].step
  BY <1>1, SMTT(30) DEF CleanerRecords
<1>3. \/ s \in artifact /\ Becomes(c, drop)
      \/ Becomes(c, rest)
      \/ s \notin artifact /\ Becomes(c, take)
  BY DEF Look
<1> HIDE DEF rest
<1>4. /\ drop \in CleanerRecords
      /\ drop.held = rest.held /\ drop.todo = rest.todo
      /\ drop.gone = rest.gone \union {s}
      /\ drop.at = rest.at /\ drop.step = rest.step
  BY <1>2, SMTT(30) DEF CleanerRecords
<1>5. /\ take \in CleanerRecords
      /\ take.held = rest.held /\ take.todo = rest.todo
      /\ take.gone = rest.gone /\ take.at = s /\ take.step = "final"
  <2>1. [rest EXCEPT !.at = s] \in CleanerRecords
    BY <1>2, CleanerField
  <2>2. take \in CleanerRecords
    BY <2>1, CleanerField, Zenon
  <2> QED
    BY <1>2, <2>2, SMTT(30) DEF CleanerRecords
<1> HIDE DEF drop, take
<1>6. s \in cleaner[c].todo
  BY DEF Look
<1> QED
  BY <1>1, <1>2, <1>3, <1>4, <1>5, <1>6, BecomesTyped DEF Only

LEMMA UnlinkFinalEffect ==
  ASSUME TypeOK, NEW c \in Cleaners, UnlinkFinal(c)
  PROVE  /\ Only(c) /\ cleaner[c].step = "final"
         /\ cleaner'[c].held = cleaner[c].held
         /\ cleaner'[c].todo = cleaner[c].todo
         /\ cleaner'[c].gone = cleaner[c].gone
         /\ cleaner'[c].at = cleaner[c].at /\ cleaner'[c].step = "temp"
<1> DEFINE r == [cleaner[c] EXCEPT !.step = "temp"]
<1>1. cleaner[c] \in CleanerRecords
  BY DEF TypeOK
<1>2. /\ r \in CleanerRecords
      /\ r.held = cleaner[c].held /\ r.todo = cleaner[c].todo
      /\ r.gone = cleaner[c].gone /\ r.at = cleaner[c].at /\ r.step = "temp"
  BY <1>1, SMTT(30) DEF CleanerRecords
<1>3. Becomes(c, r)
  BY DEF UnlinkFinal
<1> HIDE DEF r
<1> QED
  BY <1>2, <1>3, BecomesTyped DEF Only, UnlinkFinal, TypeOK

\* The batch goes on to its next task.
LEMMA NextTask ==
  ASSUME TypeOK, NEW c \in Cleaners, NEW gone \in SUBSET Scans,
         Becomes(c, [cleaner[c] EXCEPT !.gone = gone, !.at = NoScan,
                                       !.step = "idle"])
  PROVE  /\ Only(c)
         /\ cleaner'[c].held = cleaner[c].held
         /\ cleaner'[c].todo = cleaner[c].todo
         /\ cleaner'[c].gone = gone /\ cleaner'[c].step = "idle"
<1> DEFINE r == [cleaner[c] EXCEPT !.gone = gone, !.at = NoScan,
                                   !.step = "idle"]
<1>1. cleaner[c] \in CleanerRecords
  BY DEF TypeOK
<1>2. r \in CleanerRecords
  <2>1. [cleaner[c] EXCEPT !.gone = gone] \in CleanerRecords
    BY <1>1, CleanerField
  <2>2. [cleaner[c] EXCEPT !.gone = gone, !.at = NoScan] \in CleanerRecords
    BY <2>1, CleanerField, Zenon
  <2> QED
    BY <2>2, CleanerField, Zenon
<1>3. /\ r.held = cleaner[c].held /\ r.todo = cleaner[c].todo
      /\ r.gone = gone /\ r.step = "idle"
  BY <1>1, SMTT(30) DEF CleanerRecords
<1>4. Becomes(c, r)
  OBVIOUS
<1> HIDE DEF r
<1> QED
  BY <1>2, <1>3, <1>4, BecomesTyped DEF Only, TypeOK

LEMMA UnlinkTempEffect ==
  ASSUME TypeOK, BatchesAreLocked, NEW c \in Cleaners, UnlinkTemp(c)
  PROVE  /\ Only(c) /\ cleaner[c].step = "temp"
         /\ cleaner'[c].held = cleaner[c].held
         /\ cleaner'[c].todo = cleaner[c].todo
         /\ cleaner'[c].gone = cleaner[c].gone \union {cleaner[c].at}
         /\ cleaner'[c].step = "idle"
<1>1. cleaner[c].gone \union {cleaner[c].at} \in SUBSET Scans
  BY DEF UnlinkTemp, TypeOK, BatchesAreLocked, OnLocked, CleanerRecords
<1>2. Becomes(c, [cleaner[c] EXCEPT
                    !.gone = cleaner[c].gone \union {cleaner[c].at},
                    !.at = NoScan, !.step = "idle"])
  BY DEF UnlinkTemp
<1> QED
  BY <1>1, <1>2, NextTask DEF UnlinkTemp

LEMMA UnlinkFailsEffect ==
  ASSUME TypeOK, NEW c \in Cleaners, UnlinkFails(c)
  PROVE  /\ Only(c)
         /\ cleaner'[c].held = cleaner[c].held
         /\ cleaner'[c].todo = cleaner[c].todo
         /\ cleaner'[c].gone = cleaner[c].gone /\ cleaner'[c].step = "idle"
<1> DEFINE r == [cleaner[c] EXCEPT !.at = NoScan, !.step = "idle"]
<1>1. cleaner[c] \in CleanerRecords
  BY DEF TypeOK
<1>2. r \in CleanerRecords
  <2>1. [cleaner[c] EXCEPT !.at = NoScan] \in CleanerRecords
    BY <1>1, CleanerField
  <2> QED
    BY <2>1, CleanerField, Zenon
<1>3. /\ r.held = cleaner[c].held /\ r.todo = cleaner[c].todo
      /\ r.gone = cleaner[c].gone /\ r.step = "idle"
  BY <1>1, SMTT(30) DEF CleanerRecords
<1>4. Becomes(c, r)
  BY DEF UnlinkFails, AfterFailure
<1> HIDE DEF r
<1> QED
  BY <1>2, <1>3, <1>4, BecomesTyped DEF Only, TypeOK

LEMMA BatchEnds ==
  ASSUME TypeOK, NEW c \in Cleaners, Becomes(c, NoBatch)
  PROVE  /\ Only(c)
         /\ cleaner'[c].held = {} /\ cleaner'[c].todo = {}
         /\ cleaner'[c].gone = {} /\ cleaner'[c].step = "idle"
<1>1. /\ NoBatch.held = {} /\ NoBatch.todo = {}
      /\ NoBatch.gone = {} /\ NoBatch.step = "idle"
  BY DEF NoBatch
<1> QED
  BY <1>1, NoBatchTyped, BecomesTyped DEF Only, TypeOK

LEMMA FaultTyped ==
  ASSUME faults \in Nat, Fault PROVE faults' \in Nat
  BY DEF Fault

LEMMA CleanerSound ==
  ASSUME TypeOK, BatchesAreLocked, NEW c \in Cleaners, Cleaner(c)
  PROVE  TypeOK' /\ BatchesAreLocked'
<1>1. ASSUME NEW B \in SUBSET Scans, LockBatch(c, B)
      PROVE  TypeOK' /\ BatchesAreLocked'
  BY <1>1, LockEffect
     DEF LockBatch, TypeOK, BatchesAreLocked, OnLocked, Only, disk
<1>2. ASSUME NEW s \in Scans, Look(c, s)
      PROVE  TypeOK' /\ BatchesAreLocked'
  <2>1. TypeOK'
    BY <1>2, LookEffect DEF Look, TypeOK, Only, disk
  <2>2. OnLocked(cleaner'[c])
    BY <1>2, LookEffect DEF BatchesAreLocked, OnLocked
  <2> QED
    BY <1>2, <2>1, <2>2, LookEffect DEF BatchesAreLocked, Only
<1>3. CASE UnlinkFinal(c)
  <2>1. TypeOK'
    BY <1>3, UnlinkFinalEffect DEF UnlinkFinal, TypeOK, Only
  <2>2. OnLocked(cleaner'[c])
    <3>1. OnLocked(cleaner[c])
      BY DEF BatchesAreLocked
    <3>2. /\ cleaner[c].step # "idle" /\ cleaner'[c].at = cleaner[c].at
          /\ cleaner'[c].held = cleaner[c].held
          /\ cleaner'[c].todo = cleaner[c].todo
          /\ cleaner'[c].gone = cleaner[c].gone
      BY <1>3, UnlinkFinalEffect
    <3> QED
      BY <3>1, <3>2 DEF OnLocked
  <2> QED
    BY <1>3, <2>1, <2>2, UnlinkFinalEffect DEF BatchesAreLocked, Only
<1>4. CASE UnlinkTemp(c)
  <2>1. TypeOK'
    BY <1>4, UnlinkTempEffect DEF UnlinkTemp, TypeOK, Only
  <2>2. OnLocked(cleaner'[c])
    <3>1. OnLocked(cleaner[c])
      BY DEF BatchesAreLocked
    <3>2. /\ cleaner[c].step # "idle" /\ cleaner'[c].step = "idle"
          /\ cleaner'[c].held = cleaner[c].held
          /\ cleaner'[c].todo = cleaner[c].todo
          /\ cleaner'[c].gone = cleaner[c].gone \union {cleaner[c].at}
      BY <1>4, UnlinkTempEffect
    <3> QED
      BY <3>1, <3>2 DEF OnLocked
  <2> QED
    BY <1>4, <2>1, <2>2, UnlinkTempEffect DEF BatchesAreLocked, Only
<1>5. CASE UnlinkFails(c)
  BY <1>5, UnlinkFailsEffect, FaultTyped
     DEF UnlinkFails, TypeOK, BatchesAreLocked, OnLocked, Only, disk
<1>6. CASE CommitBatch(c)
  BY <1>6, BatchEnds
     DEF CommitBatch, Tasks, TypeOK, BatchesAreLocked, OnLocked, Only, disk
<1>7. CASE AbortBatch(c)
  BY <1>7, BatchEnds, FaultTyped
     DEF AbortBatch, TypeOK, BatchesAreLocked, OnLocked, Only, disk
<1> QED
  BY <1>1, <1>2, <1>3, <1>4, <1>5, <1>6, <1>7 DEF Cleaner

LEMMA WriterTyped ==
  ASSUME TypeOK, NEW s \in Scans, Writer(s)
  PROVE  TypeOK' /\ cleaner' = cleaner
<1>1. CASE Complete(s)
  BY <1>1, GoesTyped DEF Complete, TypeOK, disk, Pcs
<1>2. CASE Reserve(s)
  BY <1>2, GoesTyped DEF Reserve, TypeOK, disk, Pcs, Tasks
<1>3. CASE Begin(s)
  BY <1>3, GoesTyped DEF Begin, TypeOK, disk, Pcs
<1>4. CASE WriteTemp(s)
  BY <1>4, GoesTyped DEF WriteTemp, TypeOK, Pcs
<1>5. CASE Rename(s)
  BY <1>5, GoesTyped DEF Rename, TypeOK, disk, Pcs
<1>6. CASE Publish(s)
  BY <1>6, GoesTyped DEF Publish, TypeOK, disk, Pcs, Tasks
<1>7. CASE WriterFails(s)
  BY <1>7, GoesTyped, FaultTyped DEF WriterFails, TypeOK, Pcs
<1>8. CASE Detach(s)
  BY <1>8, WriterField, FaultTyped DEF Detach, TypeOK, disk
<1> QED
  BY <1>1, <1>2, <1>3, <1>4, <1>5, <1>6, <1>7, <1>8 DEF Writer

\* Deletion and staging write neither disk, writers nor cleaners.
LEMMA DeletionTyped ==
  ASSUME TypeOK, DeleteSite \/ \E s \in Scans : Retain(s) \/ Stage(s)
  PROVE  TypeOK' /\ UNCHANGED <<final, temp, writer, cleaner>>
<1>1. ASSUME NEW D \in SUBSET Scans, Deleted(D), site' \in BOOLEAN
      PROVE  TypeOK' /\ UNCHANGED <<final, temp, writer, cleaner>>
  BY <1>1 DEF Deleted, Condemned, TypeOK, disk, Tasks
<1>2. ASSUME NEW s \in Scans, Stage(s)
      PROVE  TypeOK' /\ UNCHANGED <<final, temp, writer, cleaner>>
  BY <1>2 DEF Stage, TypeOK, disk, Tasks
<1> QED
  BY <1>1, <1>2 DEF DeleteSite, Retain, TypeOK

LEMMA TypedStep ==
  ASSUME TypeOK, BatchesAreLocked, [Next]_vars
  PROVE  TypeOK' /\ BatchesAreLocked'
<1>1. CASE UNCHANGED vars
  BY <1>1 DEF vars, TypeOK, BatchesAreLocked
<1>2. CASE Next
  BY <1>2, CleanerSound, WriterTyped, DeletionTyped DEF Next, BatchesAreLocked
<1> QED
  BY <1>1, <1>2

LEMMA TypedInitially == Init => TypeOK /\ BatchesAreLocked
  BY NoBatchTyped
     DEF Init, TypeOK, Tasks, Writers, Pcs, BatchesAreLocked, OnLocked, NoBatch

\* Every variable keeps its type, and every batch works on rows it has locked.
THEOREM TypeCorrect == Spec => []TypeOK
<1>1. TypeOK /\ BatchesAreLocked /\ [Next]_vars => (TypeOK /\ BatchesAreLocked)'
  BY TypedStep
<1> QED
  BY <1>1, TypedInitially, PTL DEF Spec

-----------------------------------------------------------------------------
(* The steps of the writers.                                                 *)

Rest ==
  /\ LocksAreExclusive /\ WritersAreAlone /\ ShownIsKept
  /\ StraysAreJournaled /\ RemovedIsGone /\ HiddenIsJournaled

LEMMA WriterRest ==
  ASSUME IInv, NEW s \in Scans, Writer(s)
  PROVE  Rest'
<1>0. /\ artifact \subseteq Scans
      /\ \A c \in Cleaners :
           /\ cleaner[c].held \subseteq Scans /\ cleaner[c].gone \subseteq Scans
           /\ cleaner[c].step # "idle" => cleaner[c].at \in Scans
  BY SMT DEF IInv, TypeOK, CleanerRecords, BatchesAreLocked, OnLocked
<1>1. CASE Complete(s)
  <2>0. /\ \A r \in Scans : r # s => writer'[r] = writer[r]
        /\ writer'[s].lost = writer[s].lost
        /\ scan[s] = "running" /\ scan'[s] = "completed"
        /\ \A r \in Scans : r # s => scan'[r] = scan[r]
        /\ writer'[s].pc \in {"reserve", "over"}
        /\ UNCHANGED <<artifact, task, final, temp, cleaner>>
    BY <1>1, GoesTyped DEF IInv, TypeOK, Complete, Pcs, disk
  <2>1. LocksAreExclusive'
    BY <2>0, <1>0
       DEF IInv, LocksAreExclusive, WritersAreAlone, Holds, Writing, TaskFree
  <2>2. WritersAreAlone'
    BY <2>0, <1>0 DEF IInv, WritersAreAlone, Holds, Writing, TaskFree
  <2>3. ShownIsKept'
    BY <2>0, <1>0 DEF IInv, ShownIsKept, WritersAreAlone, Holds, Writing
  <2>4. StraysAreJournaled'
    BY <2>0, <1>0
       DEF IInv, StraysAreJournaled, WritersAreAlone, Stray, Excused, Holds,
           Writing, TaskFree
  <2>5. RemovedIsGone'
    BY <2>0, <1>0
       DEF IInv, RemovedIsGone, BatchesAreLocked, OnLocked, StraysAreJournaled,
           WritersAreAlone, Stray, Excused, Holds, Writing, TaskFree
  <2>6. HiddenIsJournaled'
    BY <2>0, <1>0
       DEF IInv, HiddenIsJournaled, StraysAreJournaled, WritersAreAlone, Stray,
           Excused, Holds, Writing
  <2> QED
    BY <2>1, <2>2, <2>3, <2>4, <2>5, <2>6 DEF Rest
<1>2. CASE Reserve(s)
  <2>0. /\ \A r \in Scans : r # s => writer'[r] = writer[r]
        /\ writer'[s].lost = writer[s].lost
        /\ writer[s].pc = "reserve" /\ TaskFree(s)
        /\ \A r \in Scans : r # s => task'[r] = task[r]
        /\ \/ task[s] # "delete" /\ task'[s] = "write_intent"
           \/ task' = task
        /\ writer'[s].pc \in {"reserved", "over"}
        /\ UNCHANGED <<scan, artifact, final, temp, cleaner>>
    BY <1>2, GoesTyped DEF IInv, TypeOK, Reserve, At, Pcs, disk
  <2>1. LocksAreExclusive'
    BY <2>0, <1>0
       DEF IInv, LocksAreExclusive, WritersAreAlone, Holds, Writing, TaskFree
  <2>2. WritersAreAlone'
    BY <2>0, <1>0 DEF IInv, WritersAreAlone, Holds, Writing, TaskFree
  <2>3. ShownIsKept'
    BY <2>0, <1>0 DEF IInv, ShownIsKept, WritersAreAlone, Holds, Writing
  <2>4. StraysAreJournaled'
    BY <2>0, <1>0
       DEF IInv, StraysAreJournaled, WritersAreAlone, Stray, Excused, Holds,
           Writing, TaskFree
  <2>5. RemovedIsGone'
    BY <2>0, <1>0
       DEF IInv, RemovedIsGone, BatchesAreLocked, OnLocked, StraysAreJournaled,
           WritersAreAlone, Stray, Excused, Holds, Writing, TaskFree
  <2>6. HiddenIsJournaled'
    BY <2>0, <1>0
       DEF IInv, HiddenIsJournaled, StraysAreJournaled, WritersAreAlone, Stray,
           Excused, Holds, Writing
  <2> QED
    BY <2>1, <2>2, <2>3, <2>4, <2>5, <2>6 DEF Rest
<1>3. CASE Begin(s)
  <2>0. /\ \A r \in Scans : r # s => writer'[r] = writer[r]
        /\ writer'[s].lost = writer[s].lost
        /\ writer[s].pc = "reserved" /\ TaskFree(s)
        /\ \/ /\ writer'[s].pc = "open"
              /\ scan[s] = "completed" /\ task[s] = "write_intent"
           \/ writer'[s].pc = "over"
        /\ UNCHANGED <<scan, artifact, task, final, temp, cleaner>>
    BY <1>3, GoesTyped DEF IInv, TypeOK, Begin, At, Pcs, disk
  <2>1. LocksAreExclusive'
    BY <2>0, <1>0
       DEF IInv, LocksAreExclusive, WritersAreAlone, Holds, Writing, TaskFree
  <2>2. WritersAreAlone'
    BY <2>0, <1>0 DEF IInv, WritersAreAlone, Holds, Writing, TaskFree
  <2>3. ShownIsKept'
    BY <2>0, <1>0 DEF IInv, ShownIsKept, WritersAreAlone, Holds, Writing
  <2>4. StraysAreJournaled'
    BY <2>0, <1>0
       DEF IInv, StraysAreJournaled, WritersAreAlone, Stray, Excused, Holds,
           Writing, TaskFree
  <2>5. RemovedIsGone'
    BY <2>0, <1>0
       DEF IInv, RemovedIsGone, BatchesAreLocked, OnLocked, StraysAreJournaled,
           WritersAreAlone, Stray, Excused, Holds, Writing, TaskFree
  <2>6. HiddenIsJournaled'
    BY <2>0, <1>0
       DEF IInv, HiddenIsJournaled, StraysAreJournaled, WritersAreAlone, Stray,
           Excused, Holds, Writing
  <2> QED
    BY <2>1, <2>2, <2>3, <2>4, <2>5, <2>6 DEF Rest
<1>4. CASE WriteTemp(s)
  <2>0. /\ \A r \in Scans : r # s => writer'[r] = writer[r]
        /\ writer'[s].lost = writer[s].lost
        /\ writer[s].pc = "open" /\ writer'[s].pc = "written"
        /\ temp' = temp \union {s}
        /\ UNCHANGED <<scan, artifact, task, final, cleaner>>
    BY <1>4, GoesTyped DEF IInv, TypeOK, WriteTemp, At, Pcs
  <2>1. LocksAreExclusive'
    BY <2>0, <1>0
       DEF IInv, LocksAreExclusive, WritersAreAlone, Holds, Writing, TaskFree
  <2>2. WritersAreAlone'
    BY <2>0, <1>0 DEF IInv, WritersAreAlone, Holds, Writing, TaskFree
  <2>3. ShownIsKept'
    BY <2>0, <1>0 DEF IInv, ShownIsKept, WritersAreAlone, Holds, Writing
  <2>4. StraysAreJournaled'
    BY <2>0, <1>0
       DEF IInv, StraysAreJournaled, WritersAreAlone, Stray, Excused, Holds,
           Writing, TaskFree
  <2>5. RemovedIsGone'
    BY <2>0, <1>0
       DEF IInv, RemovedIsGone, BatchesAreLocked, OnLocked, StraysAreJournaled,
           WritersAreAlone, Stray, Excused, Holds, Writing, TaskFree
  <2>6. HiddenIsJournaled'
    BY <2>0, <1>0
       DEF IInv, HiddenIsJournaled, StraysAreJournaled, WritersAreAlone, Stray,
           Excused, Holds, Writing
  <2> QED
    BY <2>1, <2>2, <2>3, <2>4, <2>5, <2>6 DEF Rest
<1>5. CASE Rename(s)
  <2>0. /\ \A r \in Scans : r # s => writer'[r] = writer[r]
        /\ writer'[s].lost = writer[s].lost
        /\ writer[s].pc = "written"
        /\ \/ /\ writer'[s].pc = "renamed"
              /\ final' = final \union {s} /\ temp' = temp \ {s}
           \/ writer'[s].pc = "over" /\ UNCHANGED <<final, temp>>
        /\ UNCHANGED <<scan, artifact, task, cleaner>>
    <3>1. PICK x \in {"renamed", "over"} :
            Goes(s, x) /\ (x = "renamed" =>
              final' = final \union {s} /\ temp' = temp \ {s})
                      /\ (x = "over" => UNCHANGED <<final, temp>>)
      BY <1>5 DEF Rename, disk
    <3>2. x \in Pcs
      BY DEF Pcs
    <3>3. /\ writer[s].pc = "written"
          /\ UNCHANGED <<scan, artifact, task, cleaner>>
      BY <1>5 DEF Rename, At
    <3>4. /\ writer'[s].pc = x /\ writer'[s].lost = writer[s].lost
          /\ \A r \in Scans : r # s => writer'[r] = writer[r]
      BY <3>1, <3>2, GoesTyped DEF IInv, TypeOK
    <3> QED
      BY <3>1, <3>3, <3>4
  <2>1. LocksAreExclusive'
    BY <2>0, <1>0
       DEF IInv, LocksAreExclusive, WritersAreAlone, Holds, Writing, TaskFree
  <2>2. WritersAreAlone'
    BY <2>0, <1>0 DEF IInv, WritersAreAlone, Holds, Writing, TaskFree
  <2>3. ShownIsKept'
    BY <2>0, <1>0 DEF IInv, ShownIsKept, WritersAreAlone, Holds, Writing
  <2>4. StraysAreJournaled'
    BY <2>0, <1>0
       DEF IInv, StraysAreJournaled, WritersAreAlone, Stray, Excused, Holds,
           Writing, TaskFree
  <2>5. RemovedIsGone'
    BY <2>0, <1>0
       DEF IInv, RemovedIsGone, BatchesAreLocked, OnLocked, StraysAreJournaled,
           WritersAreAlone, Stray, Excused, Holds, Writing, TaskFree
  <2>6. HiddenIsJournaled'
    BY <2>0, <1>0
       DEF IInv, HiddenIsJournaled, StraysAreJournaled, WritersAreAlone, Stray,
           Excused, Holds, Writing
  <2> QED
    BY <2>1, <2>2, <2>3, <2>4, <2>5, <2>6 DEF Rest
<1>6. CASE Publish(s)
  <2>0. /\ \A r \in Scans : r # s => writer'[r] = writer[r]
        /\ writer'[s].lost = writer[s].lost
        /\ writer[s].pc = "renamed" /\ writer'[s].pc = "over"
        /\ \A r \in Scans : r # s => task'[r] = task[r]
        /\ \/ /\ ~writer[s].lost /\ task'[s] = "none"
              /\ artifact' = artifact \union {s}
           \/ UNCHANGED <<artifact, task>>
        /\ UNCHANGED <<scan, final, temp, cleaner>>
    BY <1>6, GoesTyped DEF IInv, TypeOK, Publish, At, Pcs, disk
  <2>1. LocksAreExclusive'
    BY <2>0, <1>0
       DEF IInv, LocksAreExclusive, WritersAreAlone, Holds, Writing, TaskFree
  <2>2. WritersAreAlone'
    BY <2>0, <1>0 DEF IInv, WritersAreAlone, Holds, Writing, TaskFree
  <2>3. ShownIsKept'
    BY <2>0, <1>0 DEF IInv, ShownIsKept, WritersAreAlone, Holds, Writing
  <2>4. StraysAreJournaled'
    BY <2>0, <1>0
       DEF IInv, StraysAreJournaled, WritersAreAlone, Stray, Excused, Holds,
           Writing, TaskFree
  <2>5. RemovedIsGone'
    BY <2>0, <1>0
       DEF IInv, RemovedIsGone, BatchesAreLocked, OnLocked, StraysAreJournaled,
           WritersAreAlone, Stray, Excused, Holds, Writing, TaskFree
  <2>6. HiddenIsJournaled'
    BY <2>0, <1>0
       DEF IInv, HiddenIsJournaled, StraysAreJournaled, WritersAreAlone, Stray,
           Excused, Holds, Writing
  <2> QED
    BY <2>1, <2>2, <2>3, <2>4, <2>5, <2>6 DEF Rest
<1>7. CASE WriterFails(s)
  <2>0. /\ \A r \in Scans : r # s => writer'[r] = writer[r]
        /\ writer'[s].lost = writer[s].lost
        /\ writer[s].pc \notin {"idle", "over"} /\ writer'[s].pc = "over"
        /\ \/ UNCHANGED temp \/ temp' = temp \ {s}
           \/ writer[s].pc = "open" /\ temp' = temp \union {s}
        /\ UNCHANGED <<scan, artifact, task, final, cleaner>>
    <3>1. Goes(s, "over") /\ "over" \in Pcs
      BY <1>7 DEF WriterFails, Pcs
    <3>2. /\ writer'[s].pc = "over" /\ writer'[s].lost = writer[s].lost
          /\ \A r \in Scans : r # s => writer'[r] = writer[r]
      BY <3>1, GoesTyped DEF IInv, TypeOK
    <3>3. /\ writer[s].pc \notin {"idle", "over"}
          /\ UNCHANGED <<scan, artifact, task, final, cleaner>>
      BY <1>7 DEF WriterFails
    <3>4. \/ UNCHANGED temp \/ temp' = temp \ {s}
          \/ writer[s].pc = "open" /\ temp' = temp \union {s}
      BY <1>7 DEF WriterFails, At
    <3> QED
      BY <3>2, <3>3, <3>4
  <2>1. LocksAreExclusive'
    BY <2>0, <1>0
       DEF IInv, LocksAreExclusive, WritersAreAlone, Holds, Writing, TaskFree
  <2>2. WritersAreAlone'
    BY <2>0, <1>0 DEF IInv, WritersAreAlone, Holds, Writing, TaskFree
  <2>3. ShownIsKept'
    BY <2>0, <1>0 DEF IInv, ShownIsKept, WritersAreAlone, Holds, Writing
  <2>4. StraysAreJournaled'
    BY <2>0, <1>0
       DEF IInv, StraysAreJournaled, WritersAreAlone, Stray, Excused, Holds,
           Writing, TaskFree
  <2>5. RemovedIsGone'
    BY <2>0, <1>0
       DEF IInv, RemovedIsGone, BatchesAreLocked, OnLocked, StraysAreJournaled,
           WritersAreAlone, Stray, Excused, Holds, Writing, TaskFree
  <2>6. HiddenIsJournaled'
    BY <2>0, <1>0
       DEF IInv, HiddenIsJournaled, StraysAreJournaled, WritersAreAlone, Stray,
           Excused, Holds, Writing
  <2> QED
    BY <2>1, <2>2, <2>3, <2>4, <2>5, <2>6 DEF Rest
<1>8. CASE Detach(s)
  <2>0. /\ Holds(s) /\ writer'[s].lost = TRUE
        /\ \A r \in Scans : writer'[r].pc = writer[r].pc
        /\ \A r \in Scans : r # s => writer'[r] = writer[r]
        /\ UNCHANGED <<scan, artifact, task, final, temp, cleaner>>
    BY <1>8 DEF Detach, TypeOK, IInv, Writers, disk
  <2>1. LocksAreExclusive'
    BY <2>0, <1>0
       DEF IInv, LocksAreExclusive, WritersAreAlone, Holds, Writing, TaskFree
  <2>2. WritersAreAlone'
    BY <2>0, <1>0 DEF IInv, WritersAreAlone, Holds, Writing, TaskFree
  <2>3. ShownIsKept'
    BY <2>0, <1>0 DEF IInv, ShownIsKept, WritersAreAlone, Holds, Writing
  <2>4. StraysAreJournaled'
    BY <2>0, <1>0
       DEF IInv, StraysAreJournaled, WritersAreAlone, Stray, Excused, Holds,
           Writing, TaskFree
  <2>5. RemovedIsGone'
    BY <2>0, <1>0
       DEF IInv, RemovedIsGone, BatchesAreLocked, OnLocked, StraysAreJournaled,
           WritersAreAlone, Stray, Excused, Holds, Writing, TaskFree
  <2>6. HiddenIsJournaled'
    BY <2>0, <1>0
       DEF IInv, HiddenIsJournaled, StraysAreJournaled, WritersAreAlone, Stray,
           Excused, Holds, Writing
  <2> QED
    BY <2>1, <2>2, <2>3, <2>4, <2>5, <2>6 DEF Rest
<1> QED
  BY <1>1, <1>2, <1>3, <1>4, <1>5, <1>6, <1>7, <1>8 DEF Writer

-----------------------------------------------------------------------------
(* The steps of the cleaners.                                                *)

LEMMA CleanerRest ==
  ASSUME IInv, NEW c \in Cleaners, Cleaner(c)
  PROVE  Rest'
<1>0. /\ artifact \subseteq Scans /\ task \in [Scans -> Tasks]
      /\ \A d \in Cleaners :
           /\ cleaner[d].held \subseteq Scans
           /\ cleaner[d].todo \subseteq cleaner[d].held
           /\ cleaner[d].gone \subseteq cleaner[d].held
           /\ cleaner[d].step # "idle" => cleaner[d].at \in cleaner[d].held
      /\ \A d \in Cleaners : \A s \in cleaner[d].held : s \notin artifact
  BY SMT DEF IInv, TypeOK, CleanerRecords, BatchesAreLocked, OnLocked,
             LocksAreExclusive, ShownIsKept
<1>1. ASSUME NEW B \in SUBSET Scans, LockBatch(c, B)
      PROVE  Rest'
  <2>0. /\ Only(c)
        /\ cleaner'[c].held = B /\ cleaner'[c].gone = {}
        /\ cleaner'[c].step = "idle"
        /\ \A s \in B :
             /\ ~Holds(s) /\ \A d \in Cleaners : s \notin cleaner[d].held
             /\ task[s] # "none" /\ (task[s] = "write_intent" => Lapsed(s))
        /\ UNCHANGED <<scan, artifact, task, final, temp, writer>>
    BY <1>1, LockEffect DEF IInv, LockBatch, Due, Locked, disk
  <2>1. LocksAreExclusive'
    BY <2>0, <1>0
       DEF IInv, Only, LocksAreExclusive, WritersAreAlone, Holds, Writing,
           TaskFree
  <2>2. WritersAreAlone'
    BY <2>0, <1>0 DEF IInv, Only, WritersAreAlone, Holds, Writing, TaskFree
  <2>3. ShownIsKept'
    BY <2>0, <1>0 DEF IInv, Only, ShownIsKept, WritersAreAlone, Holds, Writing
  <2>4. StraysAreJournaled'
    BY <2>0, <1>0
       DEF IInv, Only, Lapsed, Tasks, StraysAreJournaled, WritersAreAlone,
           Stray, Excused, Holds, Writing, TaskFree
  <2>5. RemovedIsGone'
    BY <2>0, <1>0
       DEF IInv, Only, RemovedIsGone, BatchesAreLocked, OnLocked,
           StraysAreJournaled, WritersAreAlone, Stray, Excused, Holds, Writing,
           TaskFree
  <2>6. HiddenIsJournaled'
    BY <2>0, <1>0
       DEF IInv, Only, HiddenIsJournaled, StraysAreJournaled, WritersAreAlone,
           Stray, Excused, Holds, Writing
  <2> QED
    BY <2>1, <2>2, <2>3, <2>4, <2>5, <2>6 DEF Rest
<1>2. ASSUME NEW s \in Scans, Look(c, s)
      PROVE  Rest'
  <2>0. /\ Only(c) /\ cleaner'[c].held = cleaner[c].held
        /\ \/ /\ cleaner'[c].gone = cleaner[c].gone
              /\ cleaner'[c].step = cleaner[c].step
              /\ cleaner'[c].at = cleaner[c].at
           \/ cleaner'[c].gone = cleaner[c].gone /\ cleaner'[c].step = "final"
        /\ UNCHANGED <<scan, artifact, task, final, temp, writer>>
    <3>1. s \notin artifact
      BY <1>0, <1>2, LookEffect DEF IInv
    <3>2. UNCHANGED <<scan, artifact, task, final, temp, writer>>
      BY <1>2 DEF Look, disk
    <3> QED
      BY <1>2, <3>1, <3>2, LookEffect DEF IInv
  <2>1. LocksAreExclusive'
    BY <2>0, <1>0
       DEF IInv, Only, LocksAreExclusive, WritersAreAlone, Holds, Writing,
           TaskFree
  <2>2. WritersAreAlone'
    BY <2>0, <1>0 DEF IInv, Only, WritersAreAlone, Holds, Writing, TaskFree
  <2>3. ShownIsKept'
    BY <2>0, <1>0 DEF IInv, Only, ShownIsKept, WritersAreAlone, Holds, Writing
  <2>4. StraysAreJournaled'
    BY <2>0, <1>0
       DEF IInv, Only, StraysAreJournaled, WritersAreAlone, Stray, Excused,
           Holds, Writing, TaskFree
  <2>5. RemovedIsGone'
    BY <2>0, <1>0
       DEF IInv, Only, RemovedIsGone, BatchesAreLocked, OnLocked,
           StraysAreJournaled, WritersAreAlone, Stray, Excused, Holds, Writing,
           TaskFree
  <2>6. HiddenIsJournaled'
    BY <2>0, <1>0
       DEF IInv, Only, HiddenIsJournaled, StraysAreJournaled, WritersAreAlone,
           Stray, Excused, Holds, Writing
  <2> QED
    BY <2>1, <2>2, <2>3, <2>4, <2>5, <2>6 DEF Rest
<1>3. CASE UnlinkFinal(c)
  <2>0. /\ Only(c) /\ cleaner'[c].held = cleaner[c].held
        /\ cleaner'[c].gone = cleaner[c].gone
        /\ cleaner'[c].at = cleaner[c].at /\ cleaner'[c].step = "temp"
        /\ cleaner[c].step # "idle" /\ final' = final \ {cleaner[c].at}
        /\ UNCHANGED <<scan, artifact, task, temp, writer>>
    BY <1>3, UnlinkFinalEffect DEF IInv, UnlinkFinal
  <2>1. LocksAreExclusive'
    BY <2>0, <1>0
       DEF IInv, Only, LocksAreExclusive, WritersAreAlone, Holds, Writing,
           TaskFree
  <2>2. WritersAreAlone'
    BY <2>0, <1>0 DEF IInv, Only, WritersAreAlone, Holds, Writing, TaskFree
  <2>3. ShownIsKept'
    BY <2>0, <1>0 DEF IInv, Only, ShownIsKept, WritersAreAlone, Holds, Writing
  <2>4. StraysAreJournaled'
    BY <2>0, <1>0
       DEF IInv, Only, StraysAreJournaled, WritersAreAlone, Stray, Excused,
           Holds, Writing, TaskFree
  <2>5. RemovedIsGone'
    BY <2>0, <1>0
       DEF IInv, Only, RemovedIsGone, BatchesAreLocked, OnLocked,
           StraysAreJournaled, WritersAreAlone, Stray, Excused, Holds, Writing,
           TaskFree
  <2>6. HiddenIsJournaled'
    BY <2>0, <1>0
       DEF IInv, Only, HiddenIsJournaled, StraysAreJournaled, WritersAreAlone,
           Stray, Excused, Holds, Writing
  <2> QED
    BY <2>1, <2>2, <2>3, <2>4, <2>5, <2>6 DEF Rest
<1>4. CASE UnlinkTemp(c)
  <2>0. /\ Only(c) /\ cleaner'[c].held = cleaner[c].held
        /\ cleaner'[c].gone = cleaner[c].gone \union {cleaner[c].at}
        /\ cleaner'[c].step = "idle"
        /\ cleaner[c].step = "temp" /\ temp' = temp \ {cleaner[c].at}
        /\ UNCHANGED <<scan, artifact, task, final, writer>>
    BY <1>4, UnlinkTempEffect DEF IInv, UnlinkTemp
  <2>1. LocksAreExclusive'
    BY <2>0, <1>0
       DEF IInv, Only, LocksAreExclusive, WritersAreAlone, Holds, Writing,
           TaskFree
  <2>2. WritersAreAlone'
    BY <2>0, <1>0 DEF IInv, Only, WritersAreAlone, Holds, Writing, TaskFree
  <2>3. ShownIsKept'
    BY <2>0, <1>0 DEF IInv, Only, ShownIsKept, WritersAreAlone, Holds, Writing
  <2>4. StraysAreJournaled'
    BY <2>0, <1>0
       DEF IInv, Only, StraysAreJournaled, WritersAreAlone, Stray, Excused,
           Holds, Writing, TaskFree
  <2>5. RemovedIsGone'
    BY <2>0, <1>0
       DEF IInv, Only, RemovedIsGone, BatchesAreLocked, OnLocked,
           StraysAreJournaled, WritersAreAlone, Stray, Excused, Holds, Writing,
           TaskFree
  <2>6. HiddenIsJournaled'
    BY <2>0, <1>0
       DEF IInv, Only, HiddenIsJournaled, StraysAreJournaled, WritersAreAlone,
           Stray, Excused, Holds, Writing
  <2> QED
    BY <2>1, <2>2, <2>3, <2>4, <2>5, <2>6 DEF Rest
<1>5. CASE UnlinkFails(c)
  <2>0. /\ Only(c) /\ cleaner'[c].held = cleaner[c].held
        /\ cleaner'[c].gone = cleaner[c].gone /\ cleaner'[c].step = "idle"
        /\ UNCHANGED <<scan, artifact, task, final, temp, writer>>
    BY <1>5, UnlinkFailsEffect DEF IInv, UnlinkFails, disk
  <2>1. LocksAreExclusive'
    BY <2>0, <1>0
       DEF IInv, Only, LocksAreExclusive, WritersAreAlone, Holds, Writing,
           TaskFree
  <2>2. WritersAreAlone'
    BY <2>0, <1>0 DEF IInv, Only, WritersAreAlone, Holds, Writing, TaskFree
  <2>3. ShownIsKept'
    BY <2>0, <1>0 DEF IInv, Only, ShownIsKept, WritersAreAlone, Holds, Writing
  <2>4. StraysAreJournaled'
    BY <2>0, <1>0
       DEF IInv, Only, StraysAreJournaled, WritersAreAlone, Stray, Excused,
           Holds, Writing, TaskFree
  <2>5. RemovedIsGone'
    BY <2>0, <1>0
       DEF IInv, Only, RemovedIsGone, BatchesAreLocked, OnLocked,
           StraysAreJournaled, WritersAreAlone, Stray, Excused, Holds, Writing,
           TaskFree
  <2>6. HiddenIsJournaled'
    BY <2>0, <1>0
       DEF IInv, Only, HiddenIsJournaled, StraysAreJournaled, WritersAreAlone,
           Stray, Excused, Holds, Writing
  <2> QED
    BY <2>1, <2>2, <2>3, <2>4, <2>5, <2>6 DEF Rest
<1>6. CASE CommitBatch(c)
  <2>0. /\ Only(c) /\ cleaner'[c].held = {} /\ cleaner'[c].gone = {}
        /\ cleaner'[c].step = "idle"
        /\ task' = [s \in Scans |->
                      IF s \in cleaner[c].gone THEN "none" ELSE task[s]]
        /\ UNCHANGED <<scan, artifact, final, temp, writer>>
    BY <1>6, BatchEnds DEF IInv, CommitBatch, disk
  <2>1. LocksAreExclusive'
    BY <2>0, <1>0
       DEF IInv, Only, LocksAreExclusive, WritersAreAlone, Holds, Writing,
           TaskFree
  <2>2. WritersAreAlone'
    BY <2>0, <1>0 DEF IInv, Only, WritersAreAlone, Holds, Writing, TaskFree
  <2>3. ShownIsKept'
    BY <2>0, <1>0 DEF IInv, Only, ShownIsKept, WritersAreAlone, Holds, Writing
  <2>4. StraysAreJournaled'
    BY <2>0, <1>0
       DEF IInv, Only, StraysAreJournaled, WritersAreAlone, Stray, Excused,
           Holds, Writing, TaskFree
  <2>5. RemovedIsGone'
    BY <2>0, <1>0
       DEF IInv, Only, RemovedIsGone, BatchesAreLocked, OnLocked,
           StraysAreJournaled, WritersAreAlone, Stray, Excused, Holds, Writing,
           TaskFree
  <2>6. HiddenIsJournaled'
    BY <2>0, <1>0
       DEF IInv, Only, HiddenIsJournaled, RemovedIsGone, StraysAreJournaled,
           WritersAreAlone, Stray, Excused, Holds, Writing
  <2> QED
    BY <2>1, <2>2, <2>3, <2>4, <2>5, <2>6 DEF Rest
<1>7. CASE AbortBatch(c)
  <2>0. /\ Only(c) /\ cleaner'[c].held = {} /\ cleaner'[c].gone = {}
        /\ cleaner'[c].step = "idle"
        /\ UNCHANGED <<scan, artifact, task, final, temp, writer>>
    BY <1>7, BatchEnds DEF IInv, AbortBatch, disk
  <2>1. LocksAreExclusive'
    BY <2>0, <1>0
       DEF IInv, Only, LocksAreExclusive, WritersAreAlone, Holds, Writing,
           TaskFree
  <2>2. WritersAreAlone'
    BY <2>0, <1>0 DEF IInv, Only, WritersAreAlone, Holds, Writing, TaskFree
  <2>3. ShownIsKept'
    BY <2>0, <1>0 DEF IInv, Only, ShownIsKept, WritersAreAlone, Holds, Writing
  <2>4. StraysAreJournaled'
    BY <2>0, <1>0
       DEF IInv, Only, StraysAreJournaled, WritersAreAlone, Stray, Excused,
           Holds, Writing, TaskFree
  <2>5. RemovedIsGone'
    BY <2>0, <1>0
       DEF IInv, Only, RemovedIsGone, BatchesAreLocked, OnLocked,
           StraysAreJournaled, WritersAreAlone, Stray, Excused, Holds, Writing,
           TaskFree
  <2>6. HiddenIsJournaled'
    BY <2>0, <1>0
       DEF IInv, Only, HiddenIsJournaled, StraysAreJournaled, WritersAreAlone,
           Stray, Excused, Holds, Writing
  <2> QED
    BY <2>1, <2>2, <2>3, <2>4, <2>5, <2>6 DEF Rest
<1> QED
  BY <1>1, <1>2, <1>3, <1>4, <1>5, <1>6, <1>7 DEF Cleaner

-----------------------------------------------------------------------------
(* Deletion and staging.                                                     *)

LEMMA DeletedRest ==
  ASSUME IInv, NEW D \in SUBSET Scans, Deleted(D)
  PROVE  Rest'
<1>0. /\ artifact \subseteq Scans
      /\ \A c \in Cleaners :
           /\ cleaner[c].held \subseteq Scans /\ cleaner[c].gone \subseteq Scans
           /\ cleaner[c].step # "idle" => cleaner[c].at \in Scans
  BY SMT DEF IInv, TypeOK, CleanerRecords, BatchesAreLocked, OnLocked
<1>1. /\ \A s \in Scans : ~Holds(s)
      /\ \A s \in D : TaskFree(s)
      /\ \A s \in Scans : s \notin D => task'[s] = task[s] /\ scan'[s] = scan[s]
      /\ \A s \in D :
           /\ scan'[s] = "deleted"
           /\ task'[s] # task[s] => task'[s] = "delete"
           /\ s \in artifact => task'[s] = "delete"
      /\ artifact' = artifact \ D
      /\ UNCHANGED <<final, temp, writer, cleaner>>
  BY DEF Deleted, Condemned, SiteFree, disk
<1>2. LocksAreExclusive'
  BY <1>0, <1>1
     DEF IInv, LocksAreExclusive, WritersAreAlone, Holds, Writing, TaskFree
<1>3. WritersAreAlone'
  BY <1>0, <1>1 DEF IInv, WritersAreAlone, Holds, Writing, TaskFree
<1>4. ShownIsKept'
  BY <1>0, <1>1 DEF IInv, ShownIsKept, WritersAreAlone, Holds, Writing
<1>5. StraysAreJournaled'
  BY <1>0, <1>1
     DEF IInv, StraysAreJournaled, WritersAreAlone, Stray, Excused, Holds,
         Writing, TaskFree
<1>6. RemovedIsGone'
  BY <1>0, <1>1
     DEF IInv, RemovedIsGone, BatchesAreLocked, OnLocked, StraysAreJournaled,
         WritersAreAlone, Stray, Excused, Holds, Writing, TaskFree
<1>7. HiddenIsJournaled'
  BY <1>0, <1>1
     DEF IInv, HiddenIsJournaled, StraysAreJournaled, WritersAreAlone, Stray,
         Excused, Holds, Writing
<1> QED
  BY <1>2, <1>3, <1>4, <1>5, <1>6, <1>7 DEF Rest

LEMMA StageRest ==
  ASSUME IInv, NEW s \in Scans, Stage(s)
  PROVE  Rest'
<1>0. artifact \subseteq Scans /\ task \in [Scans -> Tasks]
  BY DEF IInv, TypeOK
<1>1. /\ ~Writing(s) /\ s \notin artifact
      /\ task' = [task EXCEPT ![s] = "delete"]
      /\ UNCHANGED <<scan, artifact, final, temp, writer, cleaner>>
  BY DEF Stage, disk
<1>2. LocksAreExclusive'
  BY <1>0, <1>1
     DEF IInv, LocksAreExclusive, WritersAreAlone, Holds, Writing, TaskFree
<1>3. WritersAreAlone'
  BY <1>0, <1>1 DEF IInv, WritersAreAlone, Holds, Writing, TaskFree
<1>4. ShownIsKept'
  BY <1>0, <1>1 DEF IInv, ShownIsKept, WritersAreAlone, Holds, Writing
<1>5. StraysAreJournaled'
  BY <1>0, <1>1
     DEF IInv, StraysAreJournaled, WritersAreAlone, Stray, Excused, Holds,
         Writing, TaskFree
<1>6. RemovedIsGone'
  BY <1>0, <1>1
     DEF IInv, RemovedIsGone, BatchesAreLocked, OnLocked, StraysAreJournaled,
         WritersAreAlone, Stray, Excused, Holds, Writing, TaskFree
<1>7. HiddenIsJournaled'
  BY <1>0, <1>1
     DEF IInv, HiddenIsJournaled, StraysAreJournaled, WritersAreAlone, Stray,
         Excused, Holds, Writing
<1> QED
  BY <1>2, <1>3, <1>4, <1>5, <1>6, <1>7 DEF Rest

-----------------------------------------------------------------------------
(* The invariant, and what follows from it.                                  *)

LEMMA InvariantInitially == Init => IInv
<1> SUFFICES ASSUME Init PROVE IInv
  OBVIOUS
<1>1. TypeOK /\ BatchesAreLocked
  BY TypedInitially
<1>2. /\ artifact = {} /\ final = {} /\ temp = {}
      /\ \A s \in Scans : ~Writing(s)
      /\ \A c \in Cleaners :
           /\ cleaner[c].held = {} /\ cleaner[c].gone = {}
           /\ cleaner[c].step = "idle"
  BY DEF Init, Writing, NoBatch
<1> QED
  BY <1>1, <1>2
     DEF IInv, LocksAreExclusive, WritersAreAlone, Holds, ShownIsKept,
         StraysAreJournaled, Stray, RemovedIsGone, HiddenIsJournaled

LEMMA InvariantStep == IInv /\ [Next]_vars => IInv'
<1> SUFFICES ASSUME IInv, [Next]_vars PROVE IInv'
  OBVIOUS
<1>1. TypeOK' /\ BatchesAreLocked'
  BY TypedStep DEF IInv
<1>2. Rest'
  <2>1. CASE UNCHANGED vars
    BY <2>1
       DEF IInv, Rest, vars, LocksAreExclusive, WritersAreAlone, ShownIsKept,
           StraysAreJournaled, RemovedIsGone, HiddenIsJournaled, Holds, Writing,
           TaskFree, Stray, Excused
  <2>2. ASSUME NEW s \in Scans, Retain(s) PROVE Rest'
    BY <2>2, DeletedRest DEF Retain
  <2>3. CASE DeleteSite
    BY <2>3, DeletedRest DEF DeleteSite
  <2> QED
    BY <2>1, <2>2, <2>3, WriterRest, CleanerRest, StageRest DEF Next
<1> QED
  BY <1>1, <1>2 DEF IInv, Rest

LEMMA AlwaysIInv == Spec => []IInv
  BY InvariantInitially, InvariantStep, PTL DEF Spec

\* What is shown has its file, and no cleanup task leads to it: no cleaner
\* takes the file of a screenshot while or after its writer publishes it.
THEOREM ShownFilesCorrect == Spec => []ShownFilesExist
<1>1. IInv => ShownFilesExist
  BY DEF IInv, ShownIsKept, ShownFilesExist
<1> QED
  BY <1>1, AlwaysIInv, PTL

\* Whatever crashes and whenever, a file nobody shows is in the journal,
\* except one of a writer that lost its transaction (and, if it ends in time,
\* only when its scan was deleted meanwhile).
THEOREM HiddenFilesCorrect == Spec => []HiddenFilesAreJournaled
<1>1. IInv => HiddenFilesAreJournaled
  BY DEF IInv, HiddenIsJournaled, HiddenFilesAreJournaled, Excused
<1> QED
  BY <1>1, AlwaysIInv, PTL

-----------------------------------------------------------------------------
(* The contract.                                                             *)

Gone == {s \in Scans : scan[s] = "deleted"}

LEMMA Stutters ==
  ASSUME UNCHANGED <<artifact, final>>, Gone' = Gone
  PROVE  UNCHANGED Contract!vars
  BY DEF Contract!vars, Gone

LEMMA WriterContract ==
  ASSUME IInv, NEW s \in Scans, Writer(s)
  PROVE  [Contract!Next]_(Contract!vars)
<1>1. CASE Complete(s)
  <2>1. Gone' = Gone
    BY <1>1 DEF Gone, Complete, IInv, TypeOK
  <2> QED
    BY <1>1, <2>1, Stutters DEF Complete, disk
<1>2. CASE Reserve(s) \/ Begin(s) \/ WriteTemp(s) \/ WriterFails(s) \/ Detach(s)
  <2>1. UNCHANGED <<artifact, final, scan>>
    BY <1>2 DEF Reserve, Begin, WriteTemp, WriterFails, Detach, disk
  <2> QED
    BY <2>1, Stutters DEF Gone
<1>3. CASE Rename(s)
  <2>1. s \notin artifact
    BY <1>3 DEF Rename, At, IInv, ShownIsKept
  <2>2. UNCHANGED <<artifact, scan>>
    BY <1>3 DEF Rename
  <2>3. final' = final \union {s} \/ UNCHANGED final
    BY <1>3 DEF Rename, disk
  <2>4. CASE final' = final \union {s}
    <3>1. Contract!Write(s)
      BY <2>1, <2>2, <2>4 DEF Contract!Write
    <3> QED
      BY <3>1 DEF Contract!Next
  <2>5. CASE UNCHANGED final
    BY <2>2, <2>5, Stutters DEF Gone
  <2> QED
    BY <2>3, <2>4, <2>5
<1>4. CASE Publish(s)
  <2>1. UNCHANGED <<final, scan>>
    BY <1>4 DEF Publish, disk
  <2>2. CASE writer[s].lost
    BY <1>4, <2>1, <2>2, Stutters DEF Publish, Gone
  <2>3. CASE ~writer[s].lost
    <3>1. Holds(s) /\ writer[s].pc = "renamed"
      BY <1>4, <2>3 DEF Publish, At, Holds, Writing
    <3>2. s \in final /\ scan[s] = "completed"
      BY <3>1 DEF IInv, WritersAreAlone
    <3>3. artifact' = artifact \union {s}
      BY <1>4, <2>3 DEF Publish
    <3>4. Contract!Publish(s)
      BY <2>1, <3>2, <3>3 DEF Contract!Publish
    <3> QED
      BY <3>4 DEF Contract!Next
  <2> QED
    BY <2>2, <2>3
<1> QED
  BY <1>1, <1>2, <1>3, <1>4 DEF Writer

LEMMA CleanerContract ==
  ASSUME IInv, NEW c \in Cleaners, Cleaner(c)
  PROVE  [Contract!Next]_(Contract!vars)
<1>1. CASE UnlinkFinal(c)
  <2>1. cleaner[c].at \in cleaner[c].held /\ cleaner[c].held \subseteq Scans
    BY <1>1, UnlinkFinalEffect
       DEF IInv, TypeOK, CleanerRecords, BatchesAreLocked, OnLocked
  <2>2. cleaner[c].at \in Scans /\ cleaner[c].at \notin artifact
    BY <2>1 DEF IInv, LocksAreExclusive, ShownIsKept
  <2>3. Contract!Erase(cleaner[c].at)
    BY <1>1, <2>2 DEF UnlinkFinal, Contract!Erase
  <2> QED
    BY <2>2, <2>3 DEF Contract!Next
<1>2. CASE ~UnlinkFinal(c)
  <2>1. UNCHANGED <<artifact, final, scan>>
    BY <1>2 DEF Cleaner, LockBatch, Look, UnlinkTemp, UnlinkFails, CommitBatch,
                AbortBatch, disk
  <2> QED
    BY <2>1, Stutters DEF Gone
<1> QED
  BY <1>1, <1>2

LEMMA DeletedContract ==
  ASSUME IInv, NEW D \in SUBSET Scans, Deleted(D)
  PROVE  [Contract!Next]_(Contract!vars)
<1>1. /\ Gone' = Gone \union D /\ artifact' = artifact \ D
      /\ UNCHANGED final
  BY DEF Deleted, Gone, disk
<1>2. Contract!Withdraw(D)
  BY <1>1 DEF Contract!Withdraw, Gone
<1> QED
  BY <1>2 DEF Contract!Next

\* For those who show screenshots, the disk, the journal and every failure
\* amount to the contract: bytes from the first showing to the withdrawal, and
\* nothing of a deleted scan.
THEOREM ArtifactsImplementContract == Spec => ImplementsContract
<1>1. Init => Contract!Init
  BY DEF Init, Contract!Init
<1>2. ASSUME IInv, [Next]_vars PROVE [Contract!Next]_(Contract!vars)
  <2>1. CASE UNCHANGED vars
    BY <2>1, Stutters DEF vars, Gone
  <2>2. ASSUME NEW s \in Scans, Retain(s)
        PROVE  [Contract!Next]_(Contract!vars)
    BY <2>2, DeletedContract, <1>2 DEF Retain
  <2>3. CASE DeleteSite
    BY <2>3, DeletedContract, <1>2 DEF DeleteSite
  <2>4. ASSUME NEW s \in Scans, Stage(s)
        PROVE  [Contract!Next]_(Contract!vars)
    BY <2>4, Stutters DEF Stage, disk, Gone
  <2> QED
    BY <1>2, <2>1, <2>2, <2>3, <2>4, WriterContract, CleanerContract DEF Next
<1> QED
  BY <1>1, <1>2, AlwaysIInv, PTL DEF Spec, ImplementsContract, Contract!Spec
==============================================================================
