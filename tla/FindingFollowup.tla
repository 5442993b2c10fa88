--------------------------- MODULE FindingFollowup ---------------------------
(***************************************************************************)
(* The follow-up of one finding of a site: people move it from status to   *)
(* status, and every scan that completes looks whether it is still there.  *)
(* The transaction of a scan reads the follow-ups without locking them and *)
(* writes its decisions one by one, so a decision may be about a status    *)
(* somebody has changed meanwhile.  An event is dated by the beginning of  *)
(* its transaction (created_at defaults to now()), and read by that date:  *)
(* of two transactions that overlap, the one that began later may be the   *)
(* one that committed first.                                               *)
(***************************************************************************)
EXTENDS Naturals, Sequences, SequencesExt

CONSTANTS Versions,   \* of the metrics of the analyzer the finding comes from
          MaxEvents   \* bound: events in the history of the finding

VARIABLES row,        \* its row of finding_remediations
          history,    \* its rows of finding_remediation_events, in the order of
                      \* their commits, which the database does not keep
          scan        \* the transaction of a completing scan

vars == <<row, history, scan>>

Statuses == {"todo", "in_progress", "to_verify", "fixed", "accepted"}
Rows == [status: Statuses \cup {"none"}, reason: BOOLEAN,
         suggested: BOOLEAN, seen: Versions]
\* by: a person, or a scan; from: the status its author believed to leave;
\* began: how many events were committed when its transaction began.
Events == [by: {"person", "scan"}, from: Statuses \cup {"none"}, to: Statuses, began: Nat]
\* What a scan found, the status and the version it read, when it began.
Reading == [status: Statuses, seen: Versions, observed: BOOLEAN,
            complete: BOOLEAN, version: Versions, began: Nat]

\* Nobody follows the finding yet; some scan has reported it.
Init ==
  /\ row \in [status: {"none"}, reason: {FALSE}, suggested: {FALSE}, seen: Versions]
  /\ history = <<>>
  /\ scan = {}

---------------------------------------------------------------------------
\* updateFindingFollowup: the row is locked and read under the lock, for which
\* the transaction may have waited while others committed.  Accepting a risk
\* demands its reason.
UserUpdates ==
  /\ Len(history) < MaxEvents
  /\ \E status \in Statuses, began \in 0..Len(history) :
       /\ row' = [status |-> status, reason |-> status = "accepted",
                  suggested |-> FALSE, seen |-> row.seen]
       /\ history' = Append(history, [by |-> "person", from |-> row.status, to |-> status,
                                       began |-> began])
  /\ UNCHANGED scan

\* persistScanResultForContext selects the follow-ups of the site and mode.  A
\* scan may observe the finding, or not, with the analyzer complete or not; its
\* transaction has begun before.
ScanReads ==
  /\ scan = {} /\ row.status # "none"
  /\ \E observed, complete \in BOOLEAN, version \in Versions, began \in 0..Len(history) :
       scan' = {[status |-> row.status, seen |-> row.seen, observed |-> observed,
                 complete |-> complete, version |-> version, began |-> began]}
  /\ UNCHANGED <<row, history>>

\* canResolveFindingFromSummary, of a finding of the performance analyzer.
Resolvable(r) == r.complete /\ r.version = r.seen

\* decideFindingFollowup: a finding that came back is reopened; an absence is
\* suggested to people, never decided.
Reopened == [fixed |-> "todo", to_verify |-> "in_progress"]
Suggestible(r) ==
  ~r.observed /\ r.status \notin {"fixed", "accepted", "to_verify"} /\ Resolvable(r)
Decision(r) == IF r.observed /\ r.status \in DOMAIN Reopened THEN Reopened[r.status]
               ELSE IF Suggestible(r) THEN "to_verify" ELSE r.status

\* The row after the scan: a decision sets the status; an observation renews
\* what the row tells of the finding.  Mutated, the status read is written
\* back when nothing was decided.
WrittenWhole(r) == [row EXCEPT !.status = Decision(r),
                               !.suggested = Suggestible(r) \/ (@ /\ ~r.observed),
                               !.seen = IF r.observed THEN r.version ELSE @]
Written(r) == [row EXCEPT !.status = IF Decision(r) # r.status THEN Decision(r) ELSE @,
                          !.suggested = Suggestible(r) \/ (@ /\ ~r.observed),
                          !.seen = IF r.observed THEN r.version ELSE @]

\* The update by the row's id, and its event.
ScanWrites ==
  /\ Len(history) < MaxEvents
  /\ \E r \in scan :
       /\ row' = Written(r)
       /\ history' = IF Decision(r) = r.status THEN history
                     ELSE Append(history, [by |-> "scan", from |-> r.status, to |-> Decision(r),
                                            began |-> r.began])
  /\ scan' = {}

\* The transaction fails, or its lease or its scan is lost.
ScanRollsBack == scan # {} /\ scan' = {} /\ UNCHANGED <<row, history>>

Next == UserUpdates \/ ScanReads \/ ScanWrites \/ ScanRollsBack
Spec == Init /\ [][Next]_vars

---------------------------------------------------------------------------
\* The types of all variables.
TypeOK == /\ row \in Rows
          /\ history \in Seq(Events) /\ Len(history) <= MaxEvents
          /\ \A r \in scan : r \in Reading

\* Read by date (getFindingFollowups), the last event is one no event began
\* after; of those that began between the same commits it may be any.
MayBeReadLast(i) == \A j \in DOMAIN history : history[j].began <= history[i].began
\* The transaction of event j was open when that of event i committed.
CommittedOver(j, i) == i < j /\ history[j].began < i

\* The event read last led to the status, or one that overlapped it did.
StatusIsExplained ==
  IF history = <<>> THEN row.status = "none"
  ELSE \A i \in DOMAIN history : MayBeReadLast(i) =>
         \/ row.status = history[i].to
         \/ \E j \in DOMAIN history : CommittedOver(j, i) /\ row.status = history[j].to

\* A person leaves the status the commit before had led to, so only a scan may
\* not; and nobody but a person fixes the finding or accepts it.
PeopleDecide ==
  \A i \in DOMAIN history :
    /\ history[i].by = "person" =>
         history[i].from = (IF i = 1 THEN "none" ELSE history[i - 1].to)
    /\ history[i].to \in {"fixed", "accepted"} => history[i].by = "person"

\* The history explains the row although scans write without looking again and
\* events are dated by the beginning of their transactions: an order of dates
\* that does not end at the row's status is owed to two transactions that
\* overlapped, and an accepted risk has its reason.
HistoryExplains ==
  StatusIsExplained /\ PeopleDecide /\ (row.status = "accepted" => row.reason)

\* A scan leaves an accepted risk accepted: "keeps accepted risks and ambiguous
\* absences unchanged" (apps/worker/src/finding-followup-state.test.ts:24).
AcceptedRisksAreKept ==
  [][row.status = "accepted" /\ scan # scan' => row'.status = "accepted"]_vars
=============================================================================
