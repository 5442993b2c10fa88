------------------------------ MODULE Artifacts ------------------------------
(***************************************************************************)
(* The screenshots of a site's scans: a file each, a row of scan_artifacts *)
(* that shows it, and a row of artifact_cleanup_tasks, the journal that    *)
(* leads to a file nobody shows.  No transaction spans disk and database:  *)
(*                                                                         *)
(*   the writer (scan-artifacts.ts) reserves a write intent, then writes   *)
(*     and renames the file inside a second transaction, which publishes   *)
(*     the row and drops the intent;                                       *)
(*   the cleaners (artifact-cleanup.ts) lock due tasks, unlink files, and  *)
(*     drop the tasks when the whole batch commits;                        *)
(*   retention and site deletion turn rows and intents into delete tasks;  *)
(*   an operator stages old files that no row and no task leads to.        *)
(*                                                                         *)
(* A transaction that touches the disk is a sequence of actions and its    *)
(* row locks are explicit; every other transaction is one action.  Grace   *)
(* periods and backoffs may end at any moment.                             *)
(***************************************************************************)
EXTENDS Naturals

CONSTANTS
  Scans,         \* scans of one site
  Cleaners,      \* processes that run purgePendingArtifacts
  PromptWrites,  \* a write that lost its transaction ends within 10 minutes
  MaxFaults,     \* bound: failures in one behaviour
  NoScan         \* not a scan: what an idle cleaner works on

ASSUME ScansAssumption == NoScan \notin Scans
ASSUME BoundsAssumption == PromptWrites \in BOOLEAN /\ MaxFaults \in Nat

VARIABLES
  site,      \* the site's row exists
  scan,      \* each scan: "running", "completed" or "deleted"
  artifact,  \* scans with a row in scan_artifacts
  task,      \* action of the key's row in artifact_cleanup_tasks, or "none"
  final,     \* keys whose primary.jpg exists
  temp,      \* keys with a temporary file
  writer,    \* persistPrimaryScreenshot, called once by each completed scan
  cleaner,   \* what each cleaner has locked and where it is
  faults     \* failures so far

vars == <<site, scan, artifact, task, final, temp, writer, cleaner, faults>>
disk == <<final, temp>>

Tasks == {"none", "write_intent", "delete"}
Pcs == {"idle", "reserve", "reserved", "open", "written", "renamed", "over"}
\* `lost`: the database rolled its second transaction back while it wrote on.
Writers == [pc : Pcs, lost : BOOLEAN]
\* held: tasks locked by the batch; todo: not looked at; gone: to be dropped.
CleanerRecords == [held : SUBSET Scans, todo : SUBSET Scans,
                   gone : SUBSET Scans, at : Scans \union {NoScan},
                   step : {"idle", "final", "temp"}]
NoBatch == [held |-> {}, todo |-> {}, gone |-> {}, at |-> NoScan,
            step |-> "idle"]

TypeOK ==
  /\ site \in BOOLEAN
  /\ scan \in [Scans -> {"running", "completed", "deleted"}]
  /\ artifact \subseteq Scans
  /\ task \in [Scans -> Tasks]
  /\ final \subseteq Scans /\ temp \subseteq Scans
  /\ writer \in [Scans -> Writers]
  /\ cleaner \in [Cleaners -> CleanerRecords]
  /\ faults \in Nat

Init ==
  /\ site = TRUE
  /\ scan = [s \in Scans |-> "running"]
  /\ artifact = {}
  /\ task = [s \in Scans |-> "none"]
  /\ final = {} /\ temp = {}
  /\ writer = [s \in Scans |-> [pc |-> "idle", lost |-> FALSE]]
  /\ cleaner = [c \in Cleaners |-> NoBatch]
  /\ faults = 0

Fault == faults < MaxFaults /\ faults' = faults + 1

-----------------------------------------------------------------------------
(* Row locks.                                                                *)

At(s, pc) == writer[s].pc = pc
Writing(s) == writer[s].pc \in {"open", "written", "renamed"}
\* The second transaction holds the site's row, the scan's and the intent's.
Holds(s) == Writing(s) /\ ~writer[s].lost
\* Mutant: deletion locks only the rows it deletes.
SiteIgnored == TRUE
SiteFree == \A s \in Scans : ~Holds(s)

\* The grace of a write intent (10 minutes) is over; a scan is days old.
Lapsed(s) == PromptWrites => ~(Writing(s) /\ writer[s].lost)

\* Mutant: the cleaner does not skip locked rows.
LockedByCleaner(s) == \E c \in Cleaners : s \in cleaner[c].held
Locked(s) == Holds(s) \/ \E c \in Cleaners : s \in cleaner[c].held

\* Transactions that need a task's row wait for the cleaner that has it.
TaskFree(s) == \A c \in Cleaners : s \notin cleaner[c].held

-----------------------------------------------------------------------------
(* The writer.                                                               *)

Goes(s, pc) == writer' = [writer EXCEPT ![s].pc = pc]

\* The scan completes, with or without a screenshot to keep.
Complete(s) ==
  /\ scan[s] = "running" /\ site
  /\ scan' = [scan EXCEPT ![s] = "completed"]
  /\ \E pc \in {"reserve", "over"} : Goes(s, pc)
  /\ UNCHANGED <<site, artifact, task, disk, cleaner, faults>>

\* The first transaction.  A delete task, or a scan gone, refuses the write.
Reserve(s) ==
  /\ At(s, "reserve") /\ SiteFree /\ TaskFree(s)
  /\ IF site /\ scan[s] = "completed" /\ task[s] # "delete"
     THEN /\ task' = [task EXCEPT ![s] = "write_intent"]
          /\ Goes(s, "reserved")
     ELSE Goes(s, "over") /\ UNCHANGED task
  /\ UNCHANGED <<site, scan, artifact, disk, cleaner, faults>>

\* The second one checks site, scan and intent again under their locks.
Begin(s) ==
  /\ At(s, "reserved") /\ SiteFree /\ TaskFree(s)
  /\ Goes(s, IF site /\ scan[s] = "completed" /\ task[s] = "write_intent"
             THEN "open" ELSE "over")
  /\ UNCHANGED <<site, scan, artifact, task, disk, cleaner, faults>>

WriteTemp(s) ==
  /\ At(s, "open")
  /\ temp' = temp \union {s}
  /\ Goes(s, "written")
  /\ UNCHANGED <<site, scan, artifact, task, final, cleaner, faults>>

\* The rename fails when a cleaner took the temporary file.
Rename(s) ==
  /\ At(s, "written")
  /\ IF s \in temp
     THEN /\ final' = final \union {s} /\ temp' = temp \ {s}
          /\ Goes(s, "renamed")
     ELSE Goes(s, "over") /\ UNCHANGED disk
  /\ UNCHANGED <<site, scan, artifact, task, cleaner, faults>>

\* The row is published and the intent dropped in one commit; without its
\* transaction the insert throws and the renamed file stays.
Publish(s) ==
  /\ At(s, "renamed")
  /\ IF writer[s].lost
     THEN UNCHANGED <<artifact, task>>
     ELSE /\ artifact' = artifact \union {s}
          /\ task' = [task EXCEPT ![s] = "none"]
  /\ Goes(s, "over")
  /\ UNCHANGED <<site, scan, disk, cleaner, faults>>

\* A statement or a file operation fails: the transaction rolls back, and a
\* temporary file is unlinked unless that fails too, or the process died.
WriterFails(s) ==
  /\ writer[s].pc \notin {"idle", "over"} /\ Fault
  /\ Goes(s, "over")
  /\ \/ UNCHANGED temp
     \/ At(s, "open") /\ temp' = temp \union {s}
     \/ At(s, "written") /\ temp' = temp \ {s}
  /\ UNCHANGED <<site, scan, artifact, task, final, cleaner>>

\* The connection is lost: the database rolls back and frees the locks, and
\* the process, which waits for the disk, writes on.
Detach(s) ==
  /\ Holds(s) /\ Fault
  /\ writer' = [writer EXCEPT ![s].lost = TRUE]
  /\ UNCHANGED <<site, scan, artifact, task, disk, cleaner>>

Writer(s) ==
  \/ Complete(s) \/ Reserve(s) \/ Begin(s) \/ WriteTemp(s) \/ Rename(s)
  \/ Publish(s) \/ WriterFails(s) \/ Detach(s)

-----------------------------------------------------------------------------
(* The cleaners: one batch in one transaction.                               *)

Becomes(c, record) == cleaner' = [cleaner EXCEPT ![c] = record]

\* FOR UPDATE SKIP LOCKED over the tasks that are due: a delete task at once.
Due(s) ==
  /\ task[s] # "none" /\ ~Locked(s)
  /\ task[s] = "write_intent" => Lapsed(s)

LockBatch(c, B) ==
  /\ cleaner[c] = NoBatch
  /\ B # {} /\ \A s \in B : Due(s)
  /\ Becomes(c, [NoBatch EXCEPT !.held = B, !.todo = B])
  /\ UNCHANGED <<site, scan, artifact, task, disk, writer, faults>>

\* Mutant: the intent waits while the scan exists.
DeferredForScan(s) == task[s] = "write_intent" /\ scan[s] # "deleted"
\* The intent of an active scan waits.
Deferred(s) == task[s] = "write_intent" /\ scan[s] = "running"

\* The next task of the batch: a reference keeps the file, and drops an intent.
Look(c, s) ==
  LET rest == [cleaner[c] EXCEPT !.todo = @ \ {s}]
  IN /\ s \in cleaner[c].todo /\ cleaner[c].at = NoScan
     /\ Becomes(c,
          IF s \in artifact
          THEN IF task[s] = "write_intent"
               THEN [rest EXCEPT !.gone = @ \union {s}] ELSE rest
          ELSE IF Deferred(s) THEN rest
          ELSE [rest EXCEPT !.at = s, !.step = "final"])
     /\ UNCHANGED <<site, scan, artifact, task, disk, writer, faults>>

UnlinkFinal(c) ==
  /\ cleaner[c].step = "final"
  /\ final' = final \ {cleaner[c].at}
  /\ Becomes(c, [cleaner[c] EXCEPT !.step = "temp"])
  /\ UNCHANGED <<site, scan, artifact, task, temp, writer, faults>>

UnlinkTemp(c) ==
  /\ cleaner[c].step = "temp"
  /\ temp' = temp \ {cleaner[c].at}
  /\ Becomes(c, [cleaner[c] EXCEPT !.gone = @ \union {cleaner[c].at},
                                   !.at = NoScan, !.step = "idle"])
  /\ UNCHANGED <<site, scan, artifact, task, final, writer, faults>>

\* Mutant: a file that could not be removed counts as removed.
AfterFailureGone(c) ==
  [cleaner[c] EXCEPT !.gone = @ \union {cleaner[c].at}, !.at = NoScan,
                     !.step = "idle"]
\* An error of the file system keeps the task, to be retried.
AfterFailure(c) == [cleaner[c] EXCEPT !.at = NoScan, !.step = "idle"]
UnlinkFails(c) ==
  /\ cleaner[c].step # "idle" /\ Fault
  /\ Becomes(c, AfterFailure(c))
  /\ UNCHANGED <<site, scan, artifact, task, disk, writer>>

CommitBatch(c) ==
  /\ cleaner[c] # NoBatch /\ cleaner[c].todo = {} /\ cleaner[c].at = NoScan
  /\ task' = [s \in Scans |-> IF s \in cleaner[c].gone THEN "none" ELSE task[s]]
  /\ Becomes(c, NoBatch)
  /\ UNCHANGED <<site, scan, artifact, disk, writer, faults>>

\* The transaction fails or the process dies: files that are gone stay gone.
AbortBatch(c) ==
  /\ cleaner[c] # NoBatch /\ Fault
  /\ Becomes(c, NoBatch)
  /\ UNCHANGED <<site, scan, artifact, task, disk, writer>>

Cleaner(c) ==
  \/ \E B \in SUBSET Scans : LockBatch(c, B)
  \/ \E s \in Scans : Look(c, s)
  \/ UnlinkFinal(c) \/ UnlinkTemp(c) \/ UnlinkFails(c)
  \/ CommitBatch(c) \/ AbortBatch(c)

-----------------------------------------------------------------------------
(* Deletion.                                                                 *)

\* Mutants: only intents are handed over; an action the schema does not know.
CondemnedIntents(s) == IF task[s] = "write_intent" THEN "delete" ELSE task[s]
CondemnedAsScan(s) ==
  IF s \in artifact \/ task[s] = "write_intent" THEN "deleted" ELSE task[s]
\* Rows that show a file and intents that may lead to one become delete tasks
\* in the transaction that deletes the scans.
Condemned(s) ==
  IF s \in artifact \/ task[s] = "write_intent" THEN "delete" ELSE task[s]

Deleted(D) ==
  /\ SiteFree /\ \A s \in D : TaskFree(s)
  /\ task' = [s \in Scans |-> IF s \in D THEN Condemned(s) ELSE task[s]]
  /\ scan' = [s \in Scans |-> IF s \in D THEN "deleted" ELSE scan[s]]
  /\ artifact' = artifact \ D
  /\ UNCHANGED <<disk, writer, cleaner, faults>>

\* purgeExpiredPublicAudits: an old scan that no report shares.
Retain(s) ==
  /\ site /\ scan[s] = "completed" /\ Lapsed(s)
  /\ Deleted({s})
  /\ UNCHANGED site

\* deleteSiteForOrganization: the scans go with the site.
DeleteSite ==
  /\ site /\ \A s \in Scans : scan[s] # "running"
  /\ Deleted({s \in Scans : scan[s] = "completed"})
  /\ site' = FALSE

\* artifact-orphan-inventory --stage: a file older than a day that nothing
\* leads to.
Stage(s) ==
  /\ SiteFree /\ scan[s] # "running" /\ ~Writing(s)
  /\ s \in final \union temp /\ s \notin artifact /\ task[s] = "none"
  /\ task' = [task EXCEPT ![s] = "delete"]
  /\ UNCHANGED <<site, scan, artifact, disk, writer, cleaner, faults>>

-----------------------------------------------------------------------------
Next ==
  \/ \E s \in Scans : Writer(s) \/ Retain(s) \/ Stage(s)
  \/ \E c \in Cleaners : Cleaner(c)
  \/ DeleteSite

Spec == Init /\ [][Next]_vars

\* A writer goes on, a batch goes on, and batches are taken in the order of
\* nextAttemptAt, so that none of the tasks is passed over for ever.
WriterStep(s) ==
  Reserve(s) \/ Begin(s) \/ WriteTemp(s) \/ Rename(s) \/ Publish(s)
BatchStep(c) ==
  \/ \E s \in Scans : Look(c, s)
  \/ UnlinkFinal(c) \/ UnlinkTemp(c) \/ CommitBatch(c)
Taken(s) ==
  \E c \in Cleaners : \E B \in SUBSET Scans : s \in B /\ LockBatch(c, B)
Fairness ==
  /\ \A s \in Scans : SF_vars(WriterStep(s)) /\ SF_vars(Taken(s))
  /\ \A c \in Cleaners : WF_vars(BatchStep(c))

FairSpec == Spec /\ Fairness

-----------------------------------------------------------------------------
(* Properties.                                                               *)

\* Who shows a screenshot finds its bytes, in every state between writes,
\* cleanups and deletions, and nothing is shown of a deleted scan.
Contract == INSTANCE ArtifactContract WITH
  shown <- artifact, bytes <- final,
  deleted <- {s \in Scans : scan[s] = "deleted"}
ImplementsContract == Contract!Spec

\* A row of scan_artifacts has its file, and no cleanup task that could take
\* it: no cleaner removes a file while, or after, its writer publishes it.
ShownFilesExist ==
  \A s \in artifact : s \in final /\ task[s] = "none"

\* Whatever crashed, a file nobody shows is led to by a task: only a writer
\* that lost its transaction can leave one behind, and none of a scan that is
\* kept as long as it ends in time.
HiddenFilesAreJournaled ==
  \A s \in Scans :
    s \in (final \union temp) \ artifact =>
      \/ task[s] # "none"
      \/ writer[s].lost /\ (PromptWrites => scan[s] = "deleted")

\* deleteSiteForOrganization: "deletion either waits for it [the writer] or
\* fences it before any write", so that every file of a deleted scan was there
\* when its delete task was written, and the task lasts until the file is gone.
NoLateFiles ==
  \A s \in Scans :
    scan[s] = "deleted" /\ s \in final \union temp => task[s] # "none"

\* What the journal leads to leaves it, once the file is gone or shown; so do
\* the files of a deleted scan leave the disk.
TasksLeave == \A s \in Scans : task[s] # "none" ~> task[s] = "none"
DeletedFilesLeave ==
  \A s \in Scans :
    scan[s] = "deleted" /\ ~writer[s].lost ~> s \notin final \union temp
==============================================================================
