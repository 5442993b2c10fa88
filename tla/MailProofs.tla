----------------------------- MODULE MailProofs -----------------------------
(***************************************************************************)
(* The alerts, the reports and the matches, for any number of findings,    *)
(* shares, sites, processes, scans, attempts and failures.                 *)
(***************************************************************************)
EXTENDS Mail, Sequences, FiniteSetTheorems, TLAPS

---------------------------------------------------------------------------
(* The reports: the fence of revocations.                                  *)

Statuses == {"none", "gone", "sent", "cancelled", "pending", "sending"}
Rows == [status: Statuses, attempts: Nat, due: BOOLEAN, leased: BOOLEAN]
Shareds == {"none", "active", "expired", "revoked", "gone"}
Held == [id: Shares, attempt: Nat]
Steps == {"idle", "read", "send", "mark", "retry"}
Holdings == [step: Steps, read: SUBSET Readings, batch: SUBSET Held, now: SUBSET Held]

RowsTyped == delivery \in [Shares -> Rows]
SharesTyped == share \in [Shares -> Shareds]
WorkersTyped == worker \in [Workers -> Holdings]
Typed == RowsTyped /\ SharesTyped /\ WorkersTyped

\* Between the select of a claim and its updates nobody can revoke the share.
LockedIsNotRevoked == \A s \in Shares : Locked(s) => share[s] # "revoked"
ReportInv == Typed /\ LockedIsNotRevoked /\ RevokedIsCancelled

---------------------------------------------------------------------------
(* Rows and holdings keep their types.                                     *)

LEMMA RowFields ==
  ASSUME NEW d \in Rows
  PROVE  /\ \A x \in Statuses : [d EXCEPT !.status = x] \in Rows
         /\ \A x \in Nat : [d EXCEPT !.attempts = x] \in Rows
         /\ \A x \in BOOLEAN : [d EXCEPT !.due = x] \in Rows
         /\ \A x \in BOOLEAN : [d EXCEPT !.leased = x] \in Rows
BY DEF Rows

LEMMA RowChanges ==
  ASSUME NEW d \in Rows
  PROVE  /\ CancelledIfOpen(d) \in Rows /\ SentRow(d) \in Rows /\ AgainLater(d) \in Rows
         /\ [d EXCEPT !.leased = FALSE] \in Rows /\ [d EXCEPT !.due = TRUE] \in Rows
         /\ [d EXCEPT !.status = "sending", !.leased = TRUE, !.attempts = d.attempts + 1] \in Rows
         /\ [d EXCEPT !.status = "cancelled", !.leased = FALSE] \in Rows
<1>1. \A x \in Statuses, e \in Rows : [e EXCEPT !.status = x] \in Rows
  BY RowFields
<1>2. \A x \in BOOLEAN, e \in Rows : [e EXCEPT !.due = x] \in Rows
                                    /\ [e EXCEPT !.leased = x] \in Rows
  BY RowFields
<1>3. d.attempts + 1 \in Nat /\ {"sent", "pending", "sending", "cancelled"} \subseteq Statuses
  BY DEF Rows, Statuses
<1>4. TRUE \in BOOLEAN /\ FALSE \in BOOLEAN
  OBVIOUS
<1>5. [d EXCEPT !.status = "cancelled", !.leased = FALSE] \in Rows
  BY <1>1, <1>2, <1>3, <1>4, Zenon
<1>6. SentRow(d) \in Rows /\ AgainLater(d) \in Rows
  BY <1>1, <1>2, <1>3, <1>4, Zenon DEF SentRow, AgainLater
<1>7. [d EXCEPT !.leased = FALSE] \in Rows /\ [d EXCEPT !.due = TRUE] \in Rows
  BY <1>2, <1>4, Zenon
<1>8. \A x \in Nat, e \in Rows : [e EXCEPT !.attempts = x] \in Rows
  BY RowFields
<1>9. [d EXCEPT !.status = "sending", !.leased = TRUE, !.attempts = d.attempts + 1] \in Rows
  BY <1>1, <1>2, <1>3, <1>4, <1>8, Zenon
<1> QED
  BY <1>5, <1>6, <1>7, <1>9, Zenon DEF CancelledIfOpen

LEMMA RowStatuses ==
  ASSUME NEW d \in Rows
  PROVE  /\ CancelledIfOpen(d).status \notin Open
         /\ [d EXCEPT !.leased = FALSE].status = d.status
         /\ [d EXCEPT !.due = TRUE].status = d.status
BY DEF Rows, Open, CancelledIfOpen

LEMMA NewRows ==
  /\ NoRow \in Rows /\ FirstRow \in Rows /\ [NoRow EXCEPT !.status = "gone"] \in Rows
  /\ NoRow.status = "none"
BY DEF NoRow, FirstRow, Rows, Statuses

LEMMA IdleHoldsNothing == Idle \in Holdings /\ Idle.read = {}
BY DEF Idle, Holdings, Steps

---------------------------------------------------------------------------
(* What a step does to the rows.  A share that stays revoked keeps its     *)
(* delivery closed if nobody sets that back to open.                       *)

LEMMA FenceKept ==
  ASSUME ReportInv, Typed',
         \A s \in Shares : share'[s] = "revoked" =>
            /\ ~Locked(s)'
            /\ \/ share[s] = "revoked" /\ (delivery'[s].status \in Open => delivery[s].status \in Open)
               \/ delivery'[s].status \notin Open
  PROVE  ReportInv'
BY DEF ReportInv, LockedIsNotRevoked, RevokedIsCancelled

\* The web application and time leave the processes alone.
LEMMA LocksStay ==
  ASSUME worker' = worker, NEW s
  PROVE  Locked(s)' <=> Locked(s)
BY DEF Locked

LEMMA WebSteps ==
  ASSUME ReportInv, NEW r \in Requests, Ask(r) \/ CreateShare(r) \/ RevokeShare(r)
  PROVE  ReportInv'
<1> USE DEF ReportInv
<1>1. r[2] \in Shares
  BY DEF Requests
<1>2. worker' = worker /\ WorkersTyped'
  BY DEF Ask, CreateShare, RevokeShare, Typed, WorkersTyped
<1>3. CASE Ask(r)
  <2>1. UNCHANGED <<share, delivery>>
    BY <1>3 DEF Ask
  <2>2. Typed'
    BY <1>2, <2>1 DEF Typed, RowsTyped, SharesTyped
  <2> QED
    BY <1>2, <2>1, <2>2, FenceKept, LocksStay DEF LockedIsNotRevoked
<1>4. CASE CreateShare(r)
  <2>1. \/ UNCHANGED <<share, delivery>>
        \/ /\ share' = [share EXCEPT ![r[2]] = "active"]
           /\ delivery' = delivery \/ delivery' = [delivery EXCEPT ![r[2]] = FirstRow]
    BY <1>4 DEF CreateShare
  <2>2. Typed'
    BY <1>1, <1>2, <2>1, NewRows DEF Typed, RowsTyped, SharesTyped, Shareds
  <2>3. ASSUME NEW s \in Shares, share'[s] = "revoked"
        PROVE  share[s] = "revoked" /\ delivery'[s] = delivery[s]
    BY <1>1, <2>1, <2>3 DEF Typed, RowsTyped, SharesTyped
  <2> QED
    BY <1>2, <2>2, <2>3, FenceKept, LocksStay DEF LockedIsNotRevoked
<1>5. CASE RevokeShare(r)
  <2>1. ~Locked(r[2])
    BY <1>5 DEF RevokeShare
  <2>2. \/ UNCHANGED <<share, delivery>>
        \/ /\ share' = [share EXCEPT ![r[2]] = "revoked"]
           /\ delivery' = [delivery EXCEPT ![r[2]] = CancelledIfOpen(@)]
    BY <1>5 DEF RevokeShare
  <2>3. delivery[r[2]] \in Rows
    BY <1>1 DEF Typed, RowsTyped
  <2>4. Typed'
    BY <1>1, <1>2, <2>2, <2>3, RowChanges DEF Typed, RowsTyped, SharesTyped, Shareds
  <2>5. ASSUME NEW s \in Shares, share'[s] = "revoked"
        PROVE  /\ ~Locked(s)'
               /\ \/ share[s] = "revoked" /\ delivery'[s] = delivery[s]
                  \/ delivery'[s].status \notin Open
    <3>1. CASE UNCHANGED <<share, delivery>>
      BY <1>2, <2>5, <3>1, LocksStay DEF LockedIsNotRevoked
    <3>2. CASE /\ share' = [share EXCEPT ![r[2]] = "revoked"]
               /\ delivery' = [delivery EXCEPT ![r[2]] = CancelledIfOpen(@)]
      <4>1. CASE s = r[2]
        <5>1. delivery'[s] = CancelledIfOpen(delivery[s])
          BY <1>1, <3>2, <4>1 DEF Typed, RowsTyped
        <5> QED
          BY <1>2, <2>1, <2>3, <4>1, <5>1, RowStatuses, LocksStay
      <4>2. CASE s # r[2]
        BY <1>2, <2>5, <3>2, <4>2, LocksStay DEF Typed, RowsTyped, SharesTyped, LockedIsNotRevoked
      <4> QED
        BY <4>1, <4>2
    <3> QED
      BY <2>2, <3>1, <3>2
  <2> QED
    BY <2>4, <2>5, FenceKept
<1> QED
  BY <1>3, <1>4, <1>5

LEMMA RetentionSteps ==
  ASSUME ReportInv, SiteChanges \/ ListCandidate \/ Purge \/ DeleteSite
  PROVE  ReportInv'
<1> USE DEF ReportInv
<1>1. worker' = worker
  BY DEF SiteChanges, ListCandidate, Purge, DeleteSite, Cascade
<1>2. WorkersTyped'
  BY <1>1 DEF Typed, WorkersTyped
<1>3. CASE UNCHANGED <<share, delivery>>
  <2>1. Typed'
    BY <1>2, <1>3 DEF Typed, RowsTyped, SharesTyped
  <2> QED
    BY <1>1, <1>3, <2>1, FenceKept, LocksStay DEF LockedIsNotRevoked
<1>4. CASE Cascade
  <2>1. Typed'
    BY <1>2, <1>4, NewRows DEF Cascade, Typed, RowsTyped, SharesTyped, Shareds
  <2>2. \A s \in Shares : share'[s] # "revoked"
    BY <1>4 DEF Cascade
  <2> QED
    BY <2>1, <2>2, FenceKept
<1>5. UNCHANGED <<share, delivery>> \/ Cascade
  BY DEF SiteChanges, ListCandidate, Purge, DeleteSite
<1> QED
  BY <1>3, <1>4, <1>5

LEMMA Passes ==
  ASSUME ReportInv, NEW s \in Shares, ShareExpires(s) \/ LeaseEnds(s) \/ BackoffEnds(s)
  PROVE  ReportInv'
<1> USE DEF ReportInv
<1>1. worker' = worker
  BY DEF ShareExpires, LeaseEnds, BackoffEnds
<1>2. WorkersTyped'
  BY <1>1 DEF Typed, WorkersTyped
<1>3. CASE ShareExpires(s)
  <2>1. share' = [share EXCEPT ![s] = "expired"] /\ delivery' = delivery
    BY <1>3 DEF ShareExpires
  <2>2. Typed'
    BY <1>2, <2>1 DEF Typed, RowsTyped, SharesTyped, Shareds
  <2>3. \A t \in Shares : share'[t] = "revoked" => share[t] = "revoked"
    BY <2>1 DEF Typed, SharesTyped
  <2> QED
    BY <1>1, <2>1, <2>2, <2>3, FenceKept, LocksStay DEF LockedIsNotRevoked
<1>4. CASE LeaseEnds(s) \/ BackoffEnds(s)
  <2>1. delivery[s] \in Rows /\ share' = share
    BY <1>4 DEF Typed, RowsTyped, LeaseEnds, BackoffEnds
  <2>2. \/ delivery' = [delivery EXCEPT ![s] = [delivery[s] EXCEPT !.leased = FALSE]]
        \/ delivery' = [delivery EXCEPT ![s] = [delivery[s] EXCEPT !.due = TRUE]]
    BY <1>4 DEF LeaseEnds, BackoffEnds
  <2>3. Typed'
    BY <1>2, <2>1, <2>2, RowChanges DEF Typed, RowsTyped, SharesTyped
  <2>4. ASSUME NEW t \in Shares PROVE delivery'[t].status = delivery[t].status
    BY <2>1, <2>2, RowStatuses DEF Typed, RowsTyped
  <2> QED
    BY <1>1, <2>1, <2>3, <2>4, FenceKept, LocksStay DEF LockedIsNotRevoked
<1> QED
  BY <1>3, <1>4

---------------------------------------------------------------------------
(* The processes.                                                          *)

\* A step of a process that leaves it without locks, or with those it had,
\* and whatever it writes is written to shares that are not revoked.
LEMMA ProcessSteps ==
  ASSUME ReportInv, NEW w \in Workers, NEW h \in Holdings, RowsTyped', share' = share,
         worker' = [worker EXCEPT ![w] = h],
         h.read = {} \/ h.read = worker[w].read,
         \A s \in Shares : share[s] = "revoked" => delivery'[s] = delivery[s]
  PROVE  ReportInv'
<1> USE DEF ReportInv
<1>1. Typed'
  BY DEF Typed, SharesTyped, WorkersTyped
<1>2. ASSUME NEW s \in Shares, Locked(s)' PROVE Locked(s)
  BY <1>2 DEF Locked, Typed, WorkersTyped
<1> QED
  BY <1>1, <1>2, FenceKept DEF LockedIsNotRevoked

LEMMA ClaimReadsHolds ==
  ASSUME ReportInv, NEW w \in Workers, ClaimReads(w)
  PROVE  ReportInv'
<1> USE DEF ReportInv
<1> DEFINE read == {[id |-> s, valid |-> Usable(s)] : s \in Claimable}
           h == [Idle EXCEPT !.step = "read", !.read = read]
<1>1. UNCHANGED <<share, delivery>> /\ worker' = [worker EXCEPT ![w] = h]
  BY DEF ClaimReads
<1>2. read \in SUBSET Readings
  <2>1. \A s \in Shares : Usable(s) \in BOOLEAN
    BY DEF Usable
  <2>2. \A s \in Claimable : [id |-> s, valid |-> Usable(s)] \in Readings
    BY <2>1, Zenon DEF Claimable, Readings
  <2> QED
    BY <2>2
<1>3. h \in Holdings /\ h.read = read
  BY <1>2 DEF Idle, Holdings, Steps
<1>4. Typed'
  BY <1>1, <1>3 DEF Typed, RowsTyped, SharesTyped, WorkersTyped
<1>5. ASSUME NEW s \in Shares, share[s] = "revoked" PROVE ~Locked(s)'
  <2>1. ~Locked(s) /\ s \notin Claimable
    BY <1>5 DEF LockedIsNotRevoked, RevokedIsCancelled, Claimable, Due, Open
  <2>2. \A x \in read : x.id # s
    BY <2>1
  <2> HIDE DEF read, h
  <2> QED
    BY <1>1, <1>3, <2>1, <2>2 DEF Locked, Typed, WorkersTyped
<1> QED
  BY <1>1, <1>4, <1>5, FenceKept

LEMMA ClaimCommitsHolds ==
  ASSUME ReportInv, NEW w \in Workers, ClaimCommits(w)
  PROVE  ReportInv'
<1> USE DEF ReportInv
<1> DEFINE valid == {x.id : x \in {y \in worker[w].read : y.valid}}
           batch == {[id |-> s, attempt |-> delivery[s].attempts + 1] : s \in valid}
           ids == {x.id : x \in worker[w].read}
           h == IF batch = {} THEN Idle ELSE [Idle EXCEPT !.step = "send", !.batch = batch]
<1>1. worker[w].read \in SUBSET Readings
  BY DEF Typed, WorkersTyped, Holdings
<1>2. valid \subseteq Shares /\ ids \subseteq Shares
  BY <1>1 DEF Readings
<1>3. batch \in SUBSET Held
  BY <1>2 DEF Held, Typed, RowsTyped, Rows
<1>4. h \in Holdings /\ h.read = {}
  <2>1. [Idle EXCEPT !.step = "send", !.batch = batch] \in Holdings
        /\ [Idle EXCEPT !.step = "send", !.batch = batch].read = {}
    BY <1>3 DEF Idle, Holdings, Steps
  <2> QED
    BY <2>1, IdleHoldsNothing
<1>5. delivery' = [s \in Shares |-> IF s \in ids THEN Reclaimed(s, s \in valid) ELSE delivery[s]]
  BY DEF ClaimCommits
<1>6. worker' = [worker EXCEPT ![w] = h] /\ share' = share
  BY DEF ClaimCommits
<1>7. \A s \in Shares : delivery[s] \in Rows
  BY DEF Typed, RowsTyped
<1>8. \A s \in Shares : Reclaimed(s, TRUE) \in Rows /\ Reclaimed(s, FALSE) \in Rows
  BY <1>7, RowChanges DEF Reclaimed
<1>9. \A s \in Shares : Reclaimed(s, s \in valid) \in Rows
  BY <1>7, RowChanges DEF Reclaimed
<1>10. RowsTyped'
  BY <1>5, <1>7, <1>9 DEF RowsTyped
<1>11. \A s \in Shares : share[s] = "revoked" => s \notin ids
  BY DEF LockedIsNotRevoked, Locked
<1>12. \A s \in Shares : share[s] = "revoked" => delivery'[s] = delivery[s]
  BY <1>5, <1>11
<1> HIDE DEF h
<1> QED
  BY <1>4, <1>6, <1>10, <1>12, ProcessSteps

LEMMA SendHolds ==
  ASSUME ReportInv, NEW w \in Workers, NEW c \in worker[w].batch, NEW returned \in BOOLEAN,
         Send(w, c, returned)
  PROVE  ReportInv'
<1> USE DEF ReportInv
<1>1. worker[w] \in Holdings /\ c \in Held
  BY DEF Typed, WorkersTyped, Holdings
<1> DEFINE step == IF returned THEN "mark" ELSE "retry"
           h == [worker[w] EXCEPT !.step = step, !.batch = worker[w].batch \ {c}, !.now = {c}]
<1>2. worker' = [worker EXCEPT ![w] = h]
  BY DEF Send
<1>3. h \in Holdings /\ h.read = worker[w].read
  <2>1. step \in Steps
    BY DEF Steps
  <2> HIDE DEF step
  <2> QED
    BY <1>1, <2>1 DEF Holdings
<1>4. UNCHANGED <<share, delivery>>
  BY DEF Send
<1>5. RowsTyped'
  BY <1>4 DEF Typed, RowsTyped
<1> HIDE DEF h
<1> QED
  BY <1>2, <1>3, <1>4, <1>5, ProcessSteps

LEMMA MarkHolds ==
  ASSUME ReportInv, NEW w \in Workers, NEW c \in worker[w].now, Mark(w, c)
  PROVE  ReportInv'
<1> USE DEF ReportInv
<1>1. worker[w] \in Holdings /\ c.id \in Shares
  BY DEF Typed, WorkersTyped, Holdings, Held
<1>2. Rest(w) \in Holdings /\ (Rest(w).read = {} \/ Rest(w).read = worker[w].read)
  <2>1. [worker[w] EXCEPT !.step = "send", !.now = {}] \in Holdings
        /\ [worker[w] EXCEPT !.step = "send", !.now = {}].read = worker[w].read
    BY <1>1 DEF Holdings, Steps
  <2> QED
    BY <2>1, IdleHoldsNothing DEF Rest
<1>3. worker' = [worker EXCEPT ![w] = Rest(w)] /\ share' = share
  BY DEF Mark
<1>4. delivery[c.id] \in Rows
  BY <1>1 DEF Typed, RowsTyped
<1>5. \/ delivery' = delivery
      \/ /\ Fenced(c)
         /\ \/ delivery' = [delivery EXCEPT ![c.id] = SentRow(delivery[c.id])]
            \/ delivery' = [delivery EXCEPT ![c.id] = AgainLater(delivery[c.id])]
  BY DEF Mark
<1>6. RowsTyped'
  BY <1>4, <1>5, RowChanges DEF Typed, RowsTyped
<1>7. Fenced(c) => share[c.id] # "revoked"
  BY <1>1 DEF Fenced, RevokedIsCancelled, Open
<1>8. \A s \in Shares : share[s] = "revoked" => delivery'[s] = delivery[s]
  BY <1>5, <1>7 DEF Typed, RowsTyped
<1> QED
  BY <1>2, <1>3, <1>6, <1>8, ProcessSteps

LEMMA AbandonHolds ==
  ASSUME ReportInv, NEW w \in Workers, Abandon(w)
  PROVE  ReportInv'
<1>1. worker' = [worker EXCEPT ![w] = Idle] /\ UNCHANGED <<share, delivery>>
  BY DEF Abandon
<1>2. RowsTyped'
  BY <1>1 DEF ReportInv, Typed, RowsTyped
<1> QED
  BY <1>1, <1>2, IdleHoldsNothing, ProcessSteps

---------------------------------------------------------------------------
LEMMA ReportsStart == Init => ReportInv
<1> SUFFICES ASSUME Init PROVE ReportInv
  OBVIOUS
<1>1. Typed
  BY NewRows, IdleHoldsNothing DEF Init, Typed, RowsTyped, SharesTyped, WorkersTyped, Shareds
<1>2. \A s \in Shares : ~Locked(s) /\ share[s] # "revoked"
  BY IdleHoldsNothing DEF Init, Locked
<1> QED
  BY <1>1, <1>2 DEF ReportInv, LockedIsNotRevoked, RevokedIsCancelled

LEMMA ReportsStep ==
  ASSUME ReportInv, [Next]_vars
  PROVE  ReportInv'
<1>1. CASE UNCHANGED vars
  BY <1>1 DEF vars, ReportInv, Typed, RowsTyped, SharesTyped, WorkersTyped, LockedIsNotRevoked,
     Locked,
              RevokedIsCancelled
<1>2. CASE Next
  BY <1>2, WebSteps, RetentionSteps, Passes, ClaimReadsHolds, ClaimCommitsHolds, SendHolds,
     MarkHolds, AbandonHolds
  DEF Next, Dispatch, Passing
<1> QED
  BY <1>1, <1>2

\* Whatever claims, sends and marks were under way when a share was revoked:
\* its delivery is not sent or retried any more.
THEOREM RevocationsCancel == Spec => []RevokedIsCancelled
<1>1. ReportInv => RevokedIsCancelled
  BY DEF ReportInv
<1> QED
  BY <1>1, ReportsStart, ReportsStep, PTL DEF Spec

---------------------------------------------------------------------------
(* The alerts.  A claim is a row with the attempt at which it was claimed; *)
(* a process holds those of its batch and the one it is about to mark.     *)

Holding == [step: {"idle", "send", "mark", "retry"}, batch: SUBSET N!Claims, now: SUBSET N!Claims]
Reads == [step: {"read"}, outcome: Outcomes, minimum: Minimums, active: [Findings -> 0..AlertScans]]
Incidents == [Findings -> [active: BOOLEAN, opened: 0..AlertScans]]
AlertOpen == {"pending", "sending"}

Holds(w) == sender[w].batch \cup sender[w].now
Unsent(d) == {w \in Workers : \E c \in sender[w].batch : c.id = d}

\* Whether w goes on with the claim the row d is in: it will send it, or mark
\* it as sent.  If nobody does, or the lease is over, the row may be claimed
\* and mailed once more without a further failure.
Carries(w, d) ==
  \E c \in sender[w].batch \cup (IF sender[w].step = "mark" THEN sender[w].now ELSE {}) :
    c.id = d /\ N!Fenced(c)
Unfinished(d) ==
  \/ alert[d].status = "pending"
  \/ alert[d].status = "sending" /\ (alert[d].leased => \A w \in Workers : ~Carries(w, d))
Chance(d) == IF Unfinished(d) THEN 1 ELSE 0

ClaimsNameRows ==
  \A w \in Workers : \A c \in Holds(w) :
    c.id[1] <= Len(done) /\ c.attempt <= alert[c.id].attempts
OneClaimEach ==
  /\ \A w \in Workers : \A c, e \in Holds(w) : c.id = e.id => c = e
  /\ \A w, v \in Workers : \A c \in Holds(w) : c \in Holds(v) => w = v
HoldingFits(h) ==
  /\ h.step = "idle" => h = N!Idle
  /\ h.step = "send" => h.now = {}
  /\ h.step \in {"mark", "retry"} => \E c \in h.now : h.now = {c}
  /\ h.batch \cap h.now = {}
StepsFit == \A w \in Workers : HoldingFits(sender[w])
MarkedWereMailed ==
  \A w \in Workers : sender[w].step = "mark" => \A c \in sender[w].now : mails[c.id] >= 1
SentWereMailed == \A d \in N!Ids : alert[d].status = "sent" => mails[d] >= 1
LaterRowsAreEmpty ==
  \A d \in N!Ids : d[1] > Len(done) =>
    mails[d] = 0 /\ alert[d].items = {} /\ alert[d].status \in {"none", "gone"}

\* The mails there were, those that will come without a failure, and the one
\* more a row may be good for: each beyond the first was paid for.
BudgetHolds == \A d \in N!Ids : mails[d] + Cardinality(Unsent(d)) + Chance(d) <= 1 + slips

\* What an incident, or the persistence that has read it, knows of a mail.
Announced(n, f) ==
  /\ n \in 1..Len(done) /\ f \in alert[<<n, "degradation">>].items
  /\ mails[<<n, "degradation">>] >= 1
IncidentsAnnounced == \A f \in Findings : incident[f].active => Announced(incident[f].opened, f)
ReadsAnnounced ==
  persist.step = "read" =>
    /\ Len(done) < AlertScans
    /\ \A f \in Findings : persist.active[f] > 0 => Announced(persist.active[f], f)

ClaimsFit == ClaimsNameRows /\ OneClaimEach /\ StepsFit /\ MarkedWereMailed
RowsFit == SentWereMailed /\ LaterRowsAreEmpty /\ N!RecoveryFollowsMail /\ N!OneOutstandingRecovery
AlertInv == N!TypeOK /\ ClaimsFit /\ RowsFit /\ BudgetHolds /\ IncidentsAnnounced /\ ReadsAnnounced

---------------------------------------------------------------------------
(* Rows, holdings and counters keep their types.                           *)

LEMMA Bounds == MaxFaults \in Nat /\ AlertScans \in Nat /\ IsFiniteSet(Workers)
BY ProcessesAssumption, MailBoundsAssumption

LEMMA AlertRowFields ==
  ASSUME NEW r \in N!Row
  PROVE  /\ \A x \in {"none", "pending", "sending", "sent", "gone"} : [r EXCEPT !.status = x] \in N!Row
         /\ \A x \in Nat : [r EXCEPT !.attempts = x] \in N!Row
         /\ \A x \in BOOLEAN : [r EXCEPT !.due = x] \in N!Row
         /\ \A x \in BOOLEAN : [r EXCEPT !.leased = x] \in N!Row
BY DEF N!Row

Claimed(r) == [r EXCEPT !.status = "sending", !.leased = TRUE, !.attempts = @ + 1]
Sent(r) == [r EXCEPT !.status = "sent", !.leased = FALSE]

LEMMA AlertRowChanges ==
  ASSUME NEW r \in N!Row
  PROVE  /\ Claimed(r) \in N!Row /\ Sent(r) \in N!Row /\ N!AgainLater(r) \in N!Row
         /\ [r EXCEPT !.leased = FALSE] \in N!Row /\ [r EXCEPT !.due = TRUE] \in N!Row
         /\ [r EXCEPT !.status = "gone"] \in N!Row
<1>1. \A x \in {"none", "pending", "sending", "sent", "gone"}, e \in N!Row : [e EXCEPT !.status = x] \in N!Row
  BY AlertRowFields
<1>2. \A x \in BOOLEAN, e \in N!Row : [e EXCEPT !.due = x] \in N!Row /\ [e EXCEPT !.leased = x] \in N!Row
  BY AlertRowFields
<1>3. r.attempts + 1 \in Nat /\ {"pending", "sending", "sent", "gone"} \subseteq {"none", "pending", "sending", "sent", "gone"}
  BY DEF N!Row
<1>4. TRUE \in BOOLEAN /\ FALSE \in BOOLEAN
  OBVIOUS
<1>5. Sent(r) \in N!Row /\ N!AgainLater(r) \in N!Row
  BY <1>1, <1>2, <1>3, <1>4, Zenon DEF Sent, N!AgainLater
<1>6. [r EXCEPT !.leased = FALSE] \in N!Row /\ [r EXCEPT !.due = TRUE] \in N!Row
      /\ [r EXCEPT !.status = "gone"] \in N!Row
  BY <1>1, <1>2, <1>3, <1>4, Zenon
<1>7. \A x \in Nat, e \in N!Row : [e EXCEPT !.attempts = x] \in N!Row
  BY AlertRowFields
<1>8. [r EXCEPT !.status = "sending", !.leased = TRUE, !.attempts = r.attempts + 1] \in N!Row
  BY <1>1, <1>2, <1>3, <1>4, <1>7, Zenon
<1>9. Claimed(r) \in N!Row
  BY <1>8 DEF Claimed
<1> QED
  BY <1>5, <1>6, <1>9

LEMMA AlertRowContents ==
  ASSUME NEW r \in N!Row
  PROVE  /\ r.attempts \in Nat /\ r.leased \in BOOLEAN /\ r.due \in BOOLEAN
         /\ r.items \subseteq Findings
         /\ Claimed(r).items = r.items /\ Claimed(r).attempts = r.attempts + 1
         /\ Claimed(r).status = "sending" /\ Claimed(r).leased = TRUE
         /\ Sent(r).items = r.items /\ Sent(r).attempts = r.attempts /\ Sent(r).status = "sent"
         /\ N!AgainLater(r).items = r.items /\ N!AgainLater(r).attempts = r.attempts
         /\ N!AgainLater(r).status = "pending"
BY DEF N!Row, Claimed, Sent, N!AgainLater

LEMMA AlertRowFlags ==
  ASSUME NEW r \in N!Row
  PROVE  /\ [r EXCEPT !.leased = FALSE].items = r.items /\ [r EXCEPT !.leased = FALSE].attempts = r.attempts
         /\ [r EXCEPT !.leased = FALSE].status = r.status
         /\ [r EXCEPT !.due = TRUE].items = r.items /\ [r EXCEPT !.due = TRUE].attempts = r.attempts
         /\ [r EXCEPT !.due = TRUE].status = r.status /\ [r EXCEPT !.due = TRUE].leased = r.leased
         /\ [r EXCEPT !.status = "gone"].items = r.items
         /\ [r EXCEPT !.status = "gone"].attempts = r.attempts
         /\ [r EXCEPT !.status = "gone"].status = "gone"
BY DEF N!Row

---------------------------------------------------------------------------
(* Effects that several actions have.                                      *)

\* The rows go on: nothing a row announces is lost, a mail is only added to a
\* row of a scan, and what was not waiting for its mail does not begin to.
RowsGoOn ==
  /\ done' = done
  /\ \A d \in N!Ids :
       /\ alert'[d].items = alert[d].items /\ alert'[d].attempts >= alert[d].attempts
       /\ mails'[d] >= mails[d] /\ (mails'[d] # mails[d] => d[1] <= Len(done))
       /\ alert'[d].status \in AlertOpen => alert[d].status \in AlertOpen
       /\ alert'[d].status = "sent" => alert[d].status = "sent" \/ mails[d] >= 1
       /\ alert[d].status \in {"none", "gone"} => alert'[d].status \in {"none", "gone"}

LEMMA TypedAlerts ==
  ASSUME AlertInv
  PROVE  /\ done \in Seq(Outcomes) /\ Len(done) \in Nat /\ Len(done) <= AlertScans
         /\ slips \in Nat /\ AlertScans \in Nat
         /\ \A d \in N!Ids : /\ mails[d] \in Nat /\ alert[d] \in N!Row /\ alert[d].attempts \in Nat
                             /\ d[1] \in 1..AlertScans /\ d[2] \in {"degradation", "recovery"}
         /\ \A w \in Workers : sender[w] \in Holding
         /\ \A w \in Workers : \A c \in Holds(w) : c \in N!Claims /\ c.id \in N!Ids /\ c.attempt \in Nat
BY Bounds DEF AlertInv, N!TypeOK, N!Ids, N!Numbers, N!Row, N!Claims, Holding, Holds

LEMMA UnsentCounted ==
  ASSUME NEW d
  PROVE  IsFiniteSet(Unsent(d)) /\ Cardinality(Unsent(d)) \in Nat
<1>1. Unsent(d) \subseteq Workers
  BY DEF Unsent
<1> QED
  BY <1>1, Bounds, FS_Subset, FS_CardinalityType

LEMMA UnsentShrinks ==
  ASSUME NEW d, \A w \in Workers : sender'[w].batch \subseteq sender[w].batch
  PROVE  Cardinality(Unsent(d))' \in Nat /\ Cardinality(Unsent(d))' <= Cardinality(Unsent(d))
<1>1. Unsent(d)' \subseteq Unsent(d)
  BY DEF Unsent
<1> QED
  BY <1>1, UnsentCounted, FS_Subset, FS_CardinalityType

LEMMA RowsStayFit ==
  ASSUME AlertInv, N!TypeOK', RowsGoOn
  PROVE  RowsFit'
<1> USE DEF RowsGoOn
<1>1. \A d \in N!Ids : mails[d] \in Nat /\ mails'[d] \in Nat /\ Len(done) \in Nat /\ d[1] \in Nat
  BY TypedAlerts DEF N!TypeOK, AlertInv
<1>2. SentWereMailed'
  BY <1>1 DEF SentWereMailed, AlertInv, RowsFit
<1>3. LaterRowsAreEmpty'
  BY <1>1 DEF LaterRowsAreEmpty, AlertInv, RowsFit
<1>4. N!RecoveryFollowsMail'
  <2>1. ASSUME NEW n \in N!Numbers, NEW f \in alert'[<<n, "recovery">>].items
        PROVE  \E m \in 1..(n - 1) : /\ f \in alert'[<<m, "degradation">>].items
                                     /\ mails'[<<m, "degradation">>] >= 1
    <3>1. <<n, "recovery">> \in N!Ids
      BY DEF N!Ids
    <3>2. PICK m \in 1..(n - 1) : /\ f \in alert[<<m, "degradation">>].items
                                  /\ mails[<<m, "degradation">>] >= 1
      BY <3>1 DEF N!RecoveryFollowsMail, AlertInv, RowsFit
    <3>3. <<m, "degradation">> \in N!Ids
      BY Bounds DEF N!Ids, N!Numbers
    <3> QED
      BY <1>1, <3>2, <3>3
  <2> QED
    BY <2>1 DEF N!RecoveryFollowsMail
<1>5. N!OneOutstandingRecovery'
  <2>1. \A n \in N!Numbers : <<n, "recovery">> \in N!Ids
    BY DEF N!Ids
  <2> QED
    BY <2>1 DEF N!OneOutstandingRecovery, AlertInv, RowsFit, AlertOpen
<1> QED
  BY <1>2, <1>3, <1>4, <1>5 DEF RowsFit

LEMMA AnnouncedStays ==
  ASSUME AlertInv, N!TypeOK', RowsGoOn, NEW n, NEW f, Announced(n, f)
  PROVE  Announced(n, f)'
<1>1. <<n, "degradation">> \in N!Ids
  BY TypedAlerts DEF Announced, N!Ids, N!Numbers
<1>2. mails[<<n, "degradation">>] \in Nat /\ mails'[<<n, "degradation">>] \in Nat
  BY <1>1, TypedAlerts DEF N!TypeOK
<1> QED
  BY <1>1, <1>2 DEF Announced, RowsGoOn

LEMMA IncidentsStay ==
  ASSUME AlertInv, N!TypeOK', RowsGoOn,
         \A f \in Findings : incident'[f].active => incident[f].active /\ incident'[f] = incident[f]
  PROVE  IncidentsAnnounced'
BY AnnouncedStays DEF AlertInv, IncidentsAnnounced

LEMMA ReadsStay ==
  ASSUME AlertInv, N!TypeOK', RowsGoOn, persist' = persist
  PROVE  ReadsAnnounced'
<1>1. done' = done
  BY DEF RowsGoOn
<1> QED
  BY <1>1, AnnouncedStays DEF AlertInv, ReadsAnnounced

\* No process holds more than before.
LEMMA ClaimsStay ==
  ASSUME AlertInv, N!TypeOK', RowsGoOn, \A w \in Workers : Holds(w)' \subseteq Holds(w)
  PROVE  ClaimsNameRows' /\ OneClaimEach'
<1>1. ClaimsNameRows'
  <2>1. ASSUME NEW w \in Workers, NEW c \in Holds(w)'
        PROVE  c.id[1] <= Len(done) /\ c.attempt <= alert'[c.id].attempts
    <3>1. c.id[1] <= Len(done) /\ c.attempt <= alert[c.id].attempts /\ c.id \in N!Ids /\ c.attempt \in Nat
      BY TypedAlerts DEF AlertInv, ClaimsFit, ClaimsNameRows
    <3>2. alert[c.id].attempts \in Nat /\ alert'[c.id].attempts \in Nat
      BY <3>1, TypedAlerts DEF N!TypeOK, N!Row
    <3> QED
      BY <3>1, <3>2 DEF RowsGoOn
  <2> QED
    BY <2>1 DEF ClaimsNameRows, RowsGoOn
<1>2. OneClaimEach'
  BY DEF AlertInv, ClaimsFit, OneClaimEach
<1> QED
  BY <1>1, <1>2

LEMMA CarriesFollows ==
  ASSUME NEW w, NEW d, sender'[w] = sender[w], alert'[d].status = alert[d].status,
         alert'[d].attempts = alert[d].attempts
  PROVE  Carries(w, d)' <=> Carries(w, d)
BY DEF Carries, N!Fenced

LEMMA BudgetStays ==
  ASSUME AlertInv, slips' \in Nat, mails' = mails,
         \A w \in Workers : sender'[w].batch \subseteq sender[w].batch,
         \A d \in N!Ids : \/ slips' = slips + 1
                          \/ slips' = slips /\ (Unfinished(d)' => Unfinished(d))
  PROVE  BudgetHolds'
<1>1. ASSUME NEW d \in N!Ids
      PROVE  mails'[d] + Cardinality(Unsent(d))' + Chance(d)' <= 1 + slips'
  <2>1. mails[d] \in Nat /\ slips \in Nat /\ mails'[d] = mails[d]
    BY TypedAlerts
  <2>2. Cardinality(Unsent(d)) \in Nat /\ Cardinality(Unsent(d))' \in Nat
        /\ Cardinality(Unsent(d))' <= Cardinality(Unsent(d))
    BY UnsentCounted, UnsentShrinks
  <2>3. mails[d] + Cardinality(Unsent(d)) + Chance(d) <= 1 + slips
    BY DEF AlertInv, BudgetHolds
  <2>4. Chance(d) \in {0, 1} /\ Chance(d)' \in {0, 1}
    BY DEF Chance
  <2>5. slips' = slips + 1 \/ (slips' = slips /\ Chance(d)' <= Chance(d))
    BY DEF Chance
  <2> QED
    BY <2>1, <2>2, <2>3, <2>4, <2>5
<1> QED
  BY <1>1 DEF BudgetHolds

---------------------------------------------------------------------------
(* The scans.                                                              *)

\* Neither a row nor a process changes.
LEMMA AllStays ==
  ASSUME AlertInv, UNCHANGED <<done, alert, incident, sender, mails, slips>>, N!TypeOK',
         ReadsAnnounced'
  PROVE  AlertInv'
<1>1. \A d \in N!Ids : mails[d] \in Nat /\ alert[d].attempts \in Nat
  BY TypedAlerts
<1>2. RowsGoOn
  BY <1>1 DEF RowsGoOn
<1>3. RowsFit' /\ IncidentsAnnounced'
  BY <1>2, RowsStayFit, IncidentsStay
<1>4. ClaimsFit'
  BY DEF AlertInv, ClaimsFit, ClaimsNameRows, OneClaimEach, StepsFit, MarkedWereMailed, Holds
<1>5. BudgetHolds'
  BY DEF AlertInv, BudgetHolds, Unsent, Chance, Unfinished, Carries, N!Fenced
<1> QED
  BY <1>3, <1>4, <1>5 DEF AlertInv

LEMMA ReadingSteps ==
  ASSUME AlertInv, NEW o \in Outcomes, N!PersistReads(o)
  PROVE  AlertInv'
<1>1. /\ UNCHANGED <<done, alert, incident, minimum, sender, mails, slips>>
      /\ persist' = [step |-> "read", outcome |-> o, minimum |-> minimum, active |-> N!ActiveIncidents]
  BY DEF N!PersistReads
<1>2. N!ActiveIncidents \in [Findings -> 0..AlertScans]
  BY Bounds DEF N!ActiveIncidents, AlertInv, N!TypeOK
<1>3. N!TypeOK'
  BY <1>1, <1>2 DEF AlertInv, N!TypeOK
<1>4. ReadsAnnounced'
  <2>1. persist'.active = N!ActiveIncidents
    BY <1>1
  <2>2. ASSUME NEW f \in Findings, persist'.active[f] > 0
        PROVE  Announced(persist.active[f], f)'
    <3>1. persist'.active[f] = IF incident[f].active THEN incident[f].opened ELSE 0
      BY <2>1 DEF N!ActiveIncidents
    <3>2. incident[f].active /\ persist'.active[f] = incident[f].opened
      BY <2>2, <3>1
    <3>3. Announced(incident[f].opened, f)
      BY <3>2 DEF AlertInv, IncidentsAnnounced
    <3> QED
      BY <1>1, <3>2, <3>3 DEF Announced
  <2>3. Len(done') < AlertScans
    BY <1>1 DEF N!PersistReads
  <2> QED
    BY <2>2, <2>3 DEF ReadsAnnounced
<1> QED
  BY <1>1, <1>3, <1>4, AllStays

LEMMA AbortingSteps ==
  ASSUME AlertInv, N!PersistAborts \/ \E m \in Minimums : N!SetPreference(m)
  PROVE  AlertInv'
<1>1. UNCHANGED <<done, alert, incident, sender, mails, slips>>
  BY DEF N!PersistAborts, N!SetPreference
<1>2. N!TypeOK'
  BY DEF N!PersistAborts, N!SetPreference, AlertInv, N!TypeOK
<1>3. ReadsAnnounced'
  BY <1>1 DEF N!PersistAborts, N!NoPersist, N!SetPreference, AlertInv, ReadsAnnounced, Announced
<1> QED
  BY <1>1, <1>2, <1>3, AllStays

\* A new scan: its rows were empty, its recoveries are about degradations of
\* earlier scans, and no recovery of the same finding waits for its mail.
LEMMA CommittingSteps ==
  ASSUME AlertInv, N!PersistCommits
  PROVE  AlertInv'
<1> DEFINE n == Len(done) + 1
           o == persist.outcome
           worse == IF n = 1 THEN {}
                    ELSE {f \in N!Degradations(o, done[n-1]) : o.found[f] >= persist.minimum}
           resolved == {f \in Findings \ N!Outstanding :
                         /\ persist.active[f] > 0 /\ o.found[f] = N!Absent
                         /\ N!CanResolve(f, o, done[persist.active[f]])}
           rows == [x \in {"degradation", "recovery"} |->
                      IF x = "degradation" THEN worse ELSE resolved]
<1>1. /\ persist.step = "read" /\ done' = Append(done, o) /\ persist' = N!NoPersist
      /\ alert' = [d \in N!Ids |-> IF d[1] = n /\ persist.minimum > 0 /\ rows[d[2]] # {}
                                   THEN N!Queued(rows[d[2]]) ELSE alert[d]]
      /\ UNCHANGED <<incident, minimum, sender, mails, slips>>
  BY DEF N!PersistCommits
<1>2. persist \in Reads
  BY <1>1 DEF AlertInv, N!TypeOK, N!NoPersist, Reads
<1>3. o \in Outcomes /\ persist.active \in [Findings -> 0..AlertScans]
  BY <1>2 DEF Reads
<1>4. Len(done) \in Nat /\ n \in Nat /\ n > Len(done)
  BY TypedAlerts
<1>5. Len(done) < AlertScans /\ n \in N!Numbers
  BY <1>1, <1>4, Bounds DEF AlertInv, ReadsAnnounced, N!Numbers
<1>6. done' \in Seq(Outcomes) /\ Len(done') = n /\ Len(done') <= AlertScans
  BY <1>1, <1>3, <1>4, <1>5, TypedAlerts, Bounds
<1>7. worse \subseteq Findings /\ resolved \subseteq Findings
  BY DEF N!Degradations
<1> HIDE DEF worse, resolved
<1>8. \A x \in {"degradation", "recovery"} : N!Queued(rows[x]) \in N!Row
  BY <1>7 DEF N!Queued, N!Row
<1>9. N!TypeOK'
  <2>1. alert' \in [N!Ids -> N!Row]
    BY <1>1, <1>8, TypedAlerts
  <2> QED
    BY <1>1, <1>6, <2>1 DEF AlertInv, N!TypeOK, N!NoPersist
<1>10. \A d \in N!Ids : d[1] # n => alert'[d] = alert[d]
  BY <1>1
<1>11. \A d \in N!Ids : d[1] <= Len(done) => d[1] # n
  BY <1>4, TypedAlerts
<1>12. ASSUME NEW w \in Workers, NEW c \in Holds(w)
       PROVE  c.id \in N!Ids /\ c.id[1] <= Len(done) /\ alert'[c.id] = alert[c.id]
  BY <1>10, <1>11, TypedAlerts DEF AlertInv, ClaimsFit, ClaimsNameRows
<1>13. ClaimsFit'
  <2>1. ClaimsNameRows'
    <3>1. ASSUME NEW w \in Workers, NEW c \in Holds(w)
          PROVE  c.id[1] <= Len(done') /\ c.attempt <= alert'[c.id].attempts
      <4>1. c.id[1] \in Nat
        BY <1>12, TypedAlerts
      <4> QED
        BY <1>4, <1>6, <1>12, <4>1 DEF AlertInv, ClaimsFit, ClaimsNameRows
    <3> QED
      BY <1>1, <3>1 DEF ClaimsNameRows, Holds
  <2> QED
    BY <1>1, <2>1 DEF AlertInv, ClaimsFit, OneClaimEach, StepsFit, MarkedWereMailed, Holds
<1>14. RowsFit'
  <2>1. SentWereMailed'
    BY <1>1 DEF AlertInv, RowsFit, SentWereMailed, N!Queued
  <2>2. LaterRowsAreEmpty'
    <3>1. \A d \in N!Ids : d[1] > n => d[1] > Len(done) /\ d[1] # n
      BY <1>4, TypedAlerts
    <3> QED
      BY <1>1, <1>6, <1>10, <3>1 DEF AlertInv, RowsFit, LaterRowsAreEmpty
  <2>3. \A m \in N!Numbers : <<m, "recovery">> \in N!Ids /\ <<m, "degradation">> \in N!Ids
    BY DEF N!Ids
  <2>4. alert'[<<n, "recovery">>].items \in {{}, resolved}
    <3>1. alert[<<n, "recovery">>].items = {}
      BY <1>4, <1>5, <2>3 DEF AlertInv, RowsFit, LaterRowsAreEmpty
    <3> QED
      BY <1>1, <1>5, <2>3, <3>1 DEF N!Queued
  <2>5. N!RecoveryFollowsMail'
    <3>1. ASSUME NEW k \in N!Numbers, NEW f \in alert'[<<k, "recovery">>].items
          PROVE  \E m \in 1..(k - 1) : /\ f \in alert'[<<m, "degradation">>].items
                                       /\ mails'[<<m, "degradation">>] >= 1
      <4>1. CASE k = n
        <5>1. f \in Findings /\ persist.active[f] > 0
          BY <2>4, <3>1, <4>1 DEF resolved
        <5>2. Announced(persist.active[f], f)
          BY <1>1, <5>1 DEF AlertInv, ReadsAnnounced
        <5> DEFINE m == persist.active[f]
        <5>3. m \in 1..(n - 1) /\ m \in N!Numbers /\ m # n
          BY <1>4, <1>5, <5>2, Bounds DEF Announced, N!Numbers
        <5>4. alert'[<<m, "degradation">>] = alert[<<m, "degradation">>]
          BY <1>10, <2>3, <5>3
        <5> QED
          BY <1>1, <4>1, <5>2, <5>3, <5>4 DEF Announced
      <4>2. CASE k # n
        <5>1. alert'[<<k, "recovery">>] = alert[<<k, "recovery">>]
          BY <1>10, <2>3, <4>2
        <5>2. PICK m \in 1..(k - 1) : /\ f \in alert[<<m, "degradation">>].items
                                      /\ mails[<<m, "degradation">>] >= 1
          BY <3>1, <5>1 DEF AlertInv, RowsFit, N!RecoveryFollowsMail
        <5>3. m \in N!Numbers
          BY Bounds DEF N!Numbers
        <5>4. m # n
          BY <1>4, <2>3, <5>2, <5>3 DEF AlertInv, RowsFit, LaterRowsAreEmpty
        <5>5. alert'[<<m, "degradation">>] = alert[<<m, "degradation">>]
          BY <1>10, <2>3, <5>3, <5>4
        <5> QED
          BY <1>1, <5>2, <5>5
      <4> QED
        BY <4>1, <4>2
    <3> QED
      BY <3>1 DEF N!RecoveryFollowsMail
  <2>6. N!OneOutstandingRecovery'
    <3>1. ASSUME NEW k \in N!Numbers, k # n, alert[<<k, "recovery">>].status \in AlertOpen
          PROVE  alert[<<k, "recovery">>].items \cap resolved = {}
      BY <2>3, <3>1 DEF resolved, N!Outstanding, AlertOpen
    <3>2. ASSUME NEW k \in N!Numbers, NEW m \in N!Numbers, k # m,
                 alert'[<<k, "recovery">>].status \in AlertOpen,
                 alert'[<<m, "recovery">>].status \in AlertOpen
          PROVE  alert'[<<k, "recovery">>].items \cap alert'[<<m, "recovery">>].items = {}
      <4>1. \A l \in N!Numbers : l # n => alert'[<<l, "recovery">>] = alert[<<l, "recovery">>]
        BY <1>10, <2>3
      <4>2. CASE k = n
        BY <2>4, <3>1, <3>2, <4>1, <4>2
      <4>3. CASE m = n
        BY <2>4, <3>1, <3>2, <4>1, <4>3
      <4>4. CASE k # n /\ m # n
        BY <3>2, <4>1, <4>4 DEF AlertInv, RowsFit, N!OneOutstandingRecovery, AlertOpen
      <4> QED
        BY <4>2, <4>3, <4>4
    <3> QED
      BY <3>2 DEF N!OneOutstandingRecovery, AlertOpen
  <2> QED
    BY <2>1, <2>2, <2>5, <2>6 DEF RowsFit
<1>15. BudgetHolds'
  <2>1. ASSUME NEW d \in N!Ids
        PROVE  mails'[d] + Cardinality(Unsent(d))' + Chance(d)' <= 1 + slips'
    <3>1. Unsent(d)' = Unsent(d)
      BY <1>1 DEF Unsent
    <3>2. slips \in Nat /\ Chance(d)' \in {0, 1}
      BY TypedAlerts DEF Chance
    <3>3. CASE d[1] = n
      <4>1. mails[d] = 0
        BY <1>4, <3>3 DEF AlertInv, RowsFit, LaterRowsAreEmpty
      <4>2. Unsent(d) = {}
        BY <1>4, <1>12, <3>3 DEF Unsent, Holds
      <4> QED
        BY <1>1, <3>1, <3>2, <4>1, <4>2, FS_EmptySet
    <3>4. CASE d[1] # n
      <4>1. Chance(d)' = Chance(d)
        BY <1>1, <1>10, <3>4, CarriesFollows DEF Chance, Unfinished
      <4> QED
        BY <1>1, <3>1, <4>1 DEF AlertInv, BudgetHolds
    <3> QED
      BY <3>3, <3>4
  <2> QED
    BY <2>1 DEF BudgetHolds
<1>16. IncidentsAnnounced' /\ ReadsAnnounced'
  <2>1. ASSUME NEW m, NEW f, Announced(m, f) PROVE Announced(m, f)'
    <3>1. <<m, "degradation">> \in N!Ids /\ m # n /\ m \in 1..Len(done')
      BY <1>4, <1>6, <2>1, TypedAlerts DEF Announced, N!Ids, N!Numbers
    <3> QED
      BY <1>1, <1>10, <2>1, <3>1 DEF Announced
  <2>2. IncidentsAnnounced'
    BY <1>1, <2>1 DEF AlertInv, IncidentsAnnounced
  <2>3. ReadsAnnounced'
    BY <1>1 DEF ReadsAnnounced, N!NoPersist
  <2> QED
    BY <2>2, <2>3
<1> QED
  BY <1>9, <1>13, <1>14, <1>15, <1>16 DEF AlertInv

LEMMA DeletingSteps ==
  ASSUME AlertInv, N!DeleteSite
  PROVE  AlertInv'
<1>1. /\ alert' = [d \in N!Ids |-> [alert[d] EXCEPT !.status = "gone"]]
      /\ incident' = [f \in Findings |-> N!NoIncident]
      /\ UNCHANGED <<done, persist, minimum, sender, mails, slips>>
  BY DEF N!DeleteSite
<1>2. \A d \in N!Ids : /\ alert'[d] \in N!Row /\ alert'[d].items = alert[d].items
                       /\ alert'[d].attempts = alert[d].attempts /\ alert'[d].status = "gone"
  BY <1>1, TypedAlerts, AlertRowChanges, AlertRowFlags
<1>3. N!TypeOK'
  <2>1. alert' \in [N!Ids -> N!Row]
    BY <1>1, <1>2
  <2>2. incident' \in [Findings -> [active: BOOLEAN, opened: 0..AlertScans]]
    BY <1>1, Bounds DEF N!NoIncident
  <2> QED
    BY <1>1, <2>1, <2>2 DEF AlertInv, N!TypeOK
<1>4. RowsGoOn
  BY <1>1, <1>2, TypedAlerts DEF RowsGoOn, AlertOpen
<1>5. RowsFit' /\ ReadsAnnounced' /\ IncidentsAnnounced'
  BY <1>1, <1>3, <1>4, RowsStayFit, ReadsStay, IncidentsStay DEF N!NoIncident
<1>6. ClaimsFit'
  <2>1. ClaimsNameRows' /\ OneClaimEach'
    BY <1>1, <1>3, <1>4, ClaimsStay DEF Holds
  <2> QED
    BY <1>1, <2>1 DEF AlertInv, ClaimsFit, StepsFit, MarkedWereMailed
<1>7. BudgetHolds'
  <2>1. \A d \in N!Ids : ~Unfinished(d)'
    BY <1>2 DEF Unfinished
  <2> QED
    BY <1>1, <2>1, TypedAlerts, BudgetStays
<1> QED
  BY <1>3, <1>5, <1>6, <1>7 DEF AlertInv

---------------------------------------------------------------------------
(* The delivery processes.                                                 *)

LEMMA HoldingsTyped ==
  ASSUME AlertInv, NEW w \in Workers, NEW s \in {"idle", "send", "mark", "retry"},
         NEW b \in SUBSET N!Claims, NEW q \in SUBSET N!Claims,
         sender' = [sender EXCEPT ![w] = [step |-> s, batch |-> b, now |-> q]]
  PROVE  /\ sender' \in [Workers -> Holding]
         /\ sender'[w].step = s /\ sender'[w].batch = b /\ sender'[w].now = q
         /\ \A v \in Workers : v # w => sender'[v] = sender[v]
<1>1. sender \in [Workers -> Holding]
  BY DEF AlertInv, N!TypeOK, Holding
<1>2. [step |-> s, batch |-> b, now |-> q] \in Holding
  BY DEF Holding
<1> QED
  BY <1>1, <1>2

LEMMA HoldingStays ==
  ASSUME AlertInv, StepsFit, MarkedWereMailed, NEW w \in Workers,
         \A v \in Workers : v # w => sender'[v] = sender[v],
         HoldingFits(sender'[w]), sender'[w].step = "mark" => \A c \in sender'[w].now : mails'[c.id] >= 1,
         \A d \in N!Ids : mails'[d] \in Nat /\ mails'[d] >= mails[d]
  PROVE  StepsFit' /\ MarkedWereMailed'
<1>1. StepsFit'
  BY DEF StepsFit, HoldingFits
<1>2. MarkedWereMailed'
  <2>1. ASSUME NEW v \in Workers, v # w, sender'[v].step = "mark", NEW c \in sender'[v].now
        PROVE  mails'[c.id] >= 1
    <3>1. c \in Holds(v) /\ mails[c.id] >= 1
      BY <2>1 DEF MarkedWereMailed, Holds
    <3>2. c.id \in N!Ids /\ mails[c.id] \in Nat
      BY <3>1, TypedAlerts
    <3> QED
      BY <3>1, <3>2
  <2> QED
    BY <2>1 DEF MarkedWereMailed
<1> QED
  BY <1>1, <1>2

\* A claim takes the rows whose chance is open, and makes the mail it stands
\* for one of those to come; nobody holds a claim of that attempt yet.
LEMMA ClaimSteps ==
  ASSUME AlertInv, NEW w \in Workers, N!Claim(w)
  PROVE  AlertInv'
<1> DEFINE Fresh == {[id |-> d, attempt |-> alert[d].attempts + 1] : d \in N!DueIds}
<1>1. /\ sender[w] = N!Idle
      /\ alert' = [d \in N!Ids |-> IF d \in N!DueIds THEN Claimed(alert[d]) ELSE alert[d]]
      /\ sender' = [sender EXCEPT ![w] = [step |-> "send", batch |-> Fresh, now |-> {}]]
      /\ UNCHANGED <<done, persist, incident, minimum, mails, slips>>
  BY DEF N!Claim, Claimed, N!Nobody
<1>2. ASSUME NEW d \in N!DueIds
      PROVE  /\ d \in N!Ids /\ alert[d].status \in AlertOpen
             /\ alert[d].status = "sending" => ~alert[d].leased
             /\ alert[d].attempts \in Nat /\ d[1] <= Len(done)
             /\ alert'[d] = Claimed(alert[d])
  <2>1. d \in N!Ids /\ alert[d].status \in AlertOpen /\ (alert[d].status = "sending" => ~alert[d].leased)
    BY DEF N!DueIds, N!Due, AlertOpen
  <2>2. d[1] <= Len(done)
    BY <2>1, TypedAlerts DEF AlertInv, RowsFit, LaterRowsAreEmpty, AlertOpen
  <2> QED
    BY <1>1, <2>1, <2>2, TypedAlerts
<1>3. ASSUME NEW d \in N!DueIds
      PROVE  /\ alert'[d].status = "sending" /\ alert'[d].leased = TRUE
             /\ alert'[d].items = alert[d].items
             /\ alert'[d].attempts = alert[d].attempts + 1
  <2>1. alert[d] \in N!Row
    BY <1>2, TypedAlerts
  <2> QED
    <3>1. /\ Claimed(alert[d]).items = alert[d].items
          /\ Claimed(alert[d]).attempts = alert[d].attempts + 1
          /\ Claimed(alert[d]).status = "sending" /\ Claimed(alert[d]).leased = TRUE
      BY <2>1, AlertRowContents
    <3>2. alert'[d] = Claimed(alert[d])
      BY <1>2
    <3> QED
      BY <3>1, <3>2, Zenon
<1>4. \A d \in N!Ids : d \notin N!DueIds => alert'[d] = alert[d]
  BY <1>1
<1>5. ASSUME NEW c \in Fresh
      PROVE  /\ c \in N!Claims /\ c.id \in N!DueIds /\ c.id \in N!Ids /\ c.id[1] <= Len(done)
             /\ c.attempt = alert[c.id].attempts + 1 /\ c.attempt = alert'[c.id].attempts
  <2>1. PICK d \in N!DueIds : c = [id |-> d, attempt |-> alert[d].attempts + 1]
    OBVIOUS
  <2>2. d \in N!Ids /\ alert[d].attempts + 1 \in Nat
    BY <1>2
  <2>3. c \in N!Claims
    BY <2>1, <2>2 DEF N!Claims
  <2> QED
    BY <1>2, <1>3, <2>1, <2>3
<1>6. ASSUME NEW d \in N!DueIds PROVE \E c \in Fresh : c.id = d
  <2>1. [id |-> d, attempt |-> alert[d].attempts + 1] \in Fresh
    OBVIOUS
  <2> QED
    BY <2>1
<1>7. ASSUME NEW c \in Fresh, NEW e \in Fresh, c.id = e.id PROVE c = e
  <2>1. PICK d \in N!DueIds : c = [id |-> d, attempt |-> alert[d].attempts + 1]
    OBVIOUS
  <2>2. PICK b \in N!DueIds : e = [id |-> b, attempt |-> alert[b].attempts + 1]
    OBVIOUS
  <2> QED
    BY <1>7, <2>1, <2>2
<1> HIDE DEF Fresh
<1>8. /\ sender' \in [Workers -> Holding] /\ sender'[w].step = "send" /\ sender'[w].batch = Fresh
      /\ sender'[w].now = {} /\ \A v \in Workers : v # w => sender'[v] = sender[v]
  <2>1. Fresh \in SUBSET N!Claims /\ {} \in SUBSET N!Claims
    BY <1>5
  <2> QED
    BY <1>1, <2>1, HoldingsTyped
<1>9. sender[w].batch = {} /\ sender[w].now = {} /\ sender[w].step = "idle"
  BY <1>1 DEF N!Idle, N!Nobody
<1>10. N!TypeOK'
  <2>1. alert' \in [N!Ids -> N!Row]
    BY <1>1, <1>2, TypedAlerts, AlertRowChanges
  <2> QED
    BY <1>1, <1>8, <2>1 DEF AlertInv, N!TypeOK, Holding
<1>11. RowsGoOn
  <2>1. ASSUME NEW d \in N!Ids
        PROVE  /\ alert'[d].items = alert[d].items /\ alert'[d].attempts >= alert[d].attempts
               /\ mails'[d] = mails[d] /\ mails[d] \in Nat
               /\ (alert'[d].status \in AlertOpen => alert[d].status \in AlertOpen)
               /\ (alert'[d].status = "sent" => alert[d].status = "sent")
               /\ (alert[d].status \in {"none", "gone"} => alert'[d].status \in {"none", "gone"})
    <3>1. mails'[d] = mails[d] /\ mails[d] \in Nat /\ alert[d].attempts \in Nat
      BY <1>1, TypedAlerts
    <3>2. CASE d \in N!DueIds
      <4>1. alert[d].status \in AlertOpen /\ alert'[d].status = "sending"
            /\ alert'[d].items = alert[d].items /\ alert'[d].attempts = alert[d].attempts + 1
        BY <1>2, <1>3, <3>2
      <4> QED
        BY <3>1, <4>1 DEF AlertOpen
    <3>3. CASE d \notin N!DueIds
      BY <1>4, <3>1, <3>3
    <3> QED
      BY <3>2, <3>3
  <2> QED
    BY <1>1, <2>1 DEF RowsGoOn
<1>12. RowsFit' /\ IncidentsAnnounced' /\ ReadsAnnounced'
  BY <1>1, <1>10, <1>11, RowsStayFit, IncidentsStay, ReadsStay
<1>13. Holds(w)' = Fresh /\ \A v \in Workers : v # w => Holds(v)' = Holds(v)
  BY <1>8 DEF Holds
<1>14. ClaimsFit'
  <2>1. ASSUME NEW v \in Workers, NEW c \in Holds(v)'
        PROVE  c.id[1] <= Len(done') /\ c.attempt <= alert'[c.id].attempts
    <3>1. CASE v = w
      <4>1. c \in Fresh
        BY <1>13, <2>1, <3>1
      <4>2. c.attempt = alert'[c.id].attempts /\ c.id[1] <= Len(done) /\ c.attempt \in Nat
        BY <1>5, <4>1 DEF N!Claims
      <4> QED
        BY <1>1, <4>2
    <3>2. CASE v # w
      <4>1. c \in Holds(v) /\ c.id \in N!Ids /\ c.attempt \in Nat
        BY <1>13, <2>1, <3>2, TypedAlerts
      <4>2. c.id[1] <= Len(done) /\ c.attempt <= alert[c.id].attempts
        BY <4>1 DEF AlertInv, ClaimsFit, ClaimsNameRows
      <4>3. alert[c.id].attempts \in Nat /\ alert'[c.id].attempts \in Nat
        BY <1>10, <4>1, TypedAlerts DEF N!TypeOK, N!Row
      <4> QED
        BY <1>1, <1>11, <4>1, <4>2, <4>3 DEF RowsGoOn
    <3> QED
      BY <3>1, <3>2
  <2>2. \A v \in Workers : \A c, e \in Holds(v)' : c.id = e.id => c = e
    BY <1>7, <1>13 DEF AlertInv, ClaimsFit, OneClaimEach
  <2>3. ASSUME NEW v \in Workers, v # w, NEW c \in Fresh PROVE c \notin Holds(v)'
    <3>1. c \in Holds(v) => c.attempt <= alert[c.id].attempts
      BY DEF AlertInv, ClaimsFit, ClaimsNameRows
    <3> QED
      BY <1>2, <1>5, <1>13, <2>3, <3>1
  <2>4. \A u, v \in Workers : \A c \in Holds(u)' : c \in Holds(v)' => u = v
    BY <1>13, <2>3 DEF AlertInv, ClaimsFit, OneClaimEach
  <2>5. HoldingFits(sender'[w])
    BY <1>8 DEF HoldingFits
  <2>6. StepsFit' /\ MarkedWereMailed'
    <3>1. StepsFit /\ MarkedWereMailed /\ sender'[w].step # "mark"
      BY <1>8 DEF AlertInv, ClaimsFit
    <3>2. \A d \in N!Ids : mails'[d] \in Nat /\ mails'[d] >= mails[d]
      BY <1>1, TypedAlerts
    <3> QED
      BY <1>8, <2>5, <3>1, <3>2, HoldingStays
  <2> QED
    BY <2>1, <2>2, <2>4, <2>6 DEF ClaimsFit, ClaimsNameRows, OneClaimEach
<1>15. BudgetHolds'
  <2>1. ASSUME NEW d \in N!Ids
        PROVE  mails'[d] + Cardinality(Unsent(d))' + Chance(d)' <= 1 + slips'
    <3>1. /\ mails[d] \in Nat /\ slips \in Nat /\ Cardinality(Unsent(d)) \in Nat
          /\ IsFiniteSet(Unsent(d)) /\ mails[d] + Cardinality(Unsent(d)) + Chance(d) <= 1 + slips
      BY TypedAlerts, UnsentCounted DEF AlertInv, BudgetHolds
    <3>2. CASE d \in N!DueIds
      <4>1. Chance(d) = 1
        BY <1>2, <3>2 DEF Chance, Unfinished, AlertOpen
      <4>2. Unsent(d)' = Unsent(d) \cup {w} /\ w \notin Unsent(d)
        BY <1>6, <1>8, <1>9, <3>2 DEF Unsent
      <4>3. Cardinality(Unsent(d))' = Cardinality(Unsent(d)) + 1
        BY <3>1, <4>2, FS_AddElement
      <4>4. Carries(w, d)'
        <5>1. PICK c \in Fresh : c.id = d
          BY <1>6, <3>2
        <5>2. c \in sender'[w].batch /\ alert'[c.id].status = "sending" /\ alert'[c.id].attempts = c.attempt
          BY <1>3, <1>5, <1>8, <3>2, <5>1
        <5> QED
          BY <5>1, <5>2 DEF Carries, N!Fenced
      <4>5. Chance(d)' = 0
        BY <1>3, <3>2, <4>4 DEF Chance, Unfinished
      <4> QED
        BY <1>1, <3>1, <4>1, <4>3, <4>5
    <3>3. CASE d \notin N!DueIds
      <4>1. Unsent(d)' = Unsent(d)
        BY <1>5, <1>8, <1>9, <3>3 DEF Unsent
      <4>2. ~Carries(w, d) /\ ~Carries(w, d)'
        BY <1>5, <1>8, <1>9, <3>3 DEF Carries
      <4>3. \A v \in Workers : Carries(v, d)' <=> Carries(v, d)
        BY <1>4, <1>8, <3>3, <4>2, CarriesFollows
      <4>4. Chance(d)' = Chance(d)
        BY <1>4, <3>3, <4>3 DEF Chance, Unfinished
      <4> QED
        BY <1>1, <3>1, <4>1, <4>4
    <3> QED
      BY <3>2, <3>3
  <2> QED
    BY <2>1 DEF BudgetHolds
<1> QED
  BY <1>10, <1>12, <1>14, <1>15 DEF AlertInv

\* What a step of w leaves to show that takes up no claim.
LEMMA ProcessStep ==
  ASSUME AlertInv, N!TypeOK', RowsGoOn, persist' = persist, NEW w \in Workers,
         \A v \in Workers : v # w => sender'[v] = sender[v], Holds(w)' \subseteq Holds(w),
         HoldingFits(sender'[w]), sender'[w].step = "mark" => \A c \in sender'[w].now : mails'[c.id] >= 1,
         IncidentsAnnounced', BudgetHolds'
  PROVE  AlertInv'
<1>1. RowsFit' /\ ReadsAnnounced'
  BY RowsStayFit, ReadsStay
<1>2. \A v \in Workers : Holds(v)' \subseteq Holds(v)
  BY DEF Holds
<1>3. ClaimsNameRows' /\ OneClaimEach'
  BY <1>2, ClaimsStay
<1>4. \A d \in N!Ids : mails'[d] \in Nat /\ mails'[d] >= mails[d]
  BY DEF N!TypeOK, RowsGoOn
<1>5. StepsFit /\ MarkedWereMailed
  BY DEF AlertInv, ClaimsFit
<1>6. StepsFit' /\ MarkedWereMailed'
  BY <1>4, <1>5, HoldingStays
<1> QED
  BY <1>1, <1>3, <1>6 DEF AlertInv, ClaimsFit

\* The rows and their mails stay as they are.
LEMMA RowsStand ==
  ASSUME AlertInv, UNCHANGED <<done, alert, mails>>
  PROVE  RowsGoOn
BY TypedAlerts DEF RowsGoOn

LEMMA SendSteps ==
  ASSUME AlertInv, NEW w \in Workers, NEW c \in sender[w].batch,
         NEW accepted \in BOOLEAN, NEW returned \in BOOLEAN, N!Send(w, c, accepted, returned)
  PROVE  AlertInv'
<1> DEFINE b == sender[w].batch
           s == N!AfterSend(returned)
<1>1. /\ sender[w].step = "send" /\ (returned => accepted) /\ (returned \/ slips < MaxFaults)
      /\ slips' = IF returned THEN slips ELSE slips + 1
      /\ mails' = IF accepted THEN [mails EXCEPT ![c.id] = mails[c.id] + 1] ELSE mails
      /\ sender' = [sender EXCEPT ![w] = [step |-> s, batch |-> b \ {c}, now |-> {c}]]
      /\ UNCHANGED <<done, persist, alert, incident, minimum>>
  BY DEF N!Send
<1>2. s = (IF returned THEN "mark" ELSE "retry")
  BY DEF N!AfterSend
<1>3. sender[w].now = {} /\ Holds(w) = b
  BY <1>1 DEF AlertInv, ClaimsFit, StepsFit, HoldingFits, Holds
<1>4. c \in N!Claims /\ c.id \in N!Ids /\ c.id[1] <= Len(done) /\ b \in SUBSET N!Claims
  BY <1>3, TypedAlerts DEF AlertInv, ClaimsFit, ClaimsNameRows
<1>5. \A e \in b : e.id = c.id => e = c
  BY <1>3 DEF AlertInv, ClaimsFit, OneClaimEach
<1>6. /\ sender' \in [Workers -> Holding] /\ sender'[w].step = s /\ sender'[w].batch = b \ {c}
      /\ sender'[w].now = {c} /\ \A v \in Workers : v # w => sender'[v] = sender[v]
  <2>1. b \ {c} \in SUBSET N!Claims /\ {c} \in SUBSET N!Claims /\ s \in {"idle", "send", "mark", "retry"}
    BY <1>2, <1>4
  <2> HIDE DEF b, s
  <2> QED
    BY <1>1, <2>1, HoldingsTyped
<1> HIDE DEF s
<1>7. ASSUME NEW d \in N!Ids
      PROVE  /\ mails[d] \in Nat /\ mails'[d] \in Nat /\ mails'[d] >= mails[d]
             /\ mails'[d] <= mails[d] + 1 /\ (d # c.id => mails'[d] = mails[d])
             /\ (returned /\ d = c.id => mails'[d] = mails[d] + 1)
  <2>1. mails \in [N!Ids -> Nat]
    BY DEF AlertInv, N!TypeOK
  <2>2. CASE accepted
    BY <1>1, <1>4, <2>1, <2>2
  <2>3. CASE ~accepted
    BY <1>1, <2>1, <2>3
  <2> QED
    BY <2>2, <2>3
<1>8. slips \in 0..MaxFaults /\ slips' \in 0..MaxFaults
  <2>1. slips \in 0..MaxFaults
    BY DEF AlertInv, N!TypeOK
  <2>2. CASE returned
    BY <1>1, <2>1, <2>2
  <2>3. CASE ~returned
    BY <1>1, <2>1, <2>3, Bounds
  <2> QED
    BY <2>1, <2>2, <2>3
<1>9. N!TypeOK'
  <2>1. mails' \in [N!Ids -> Nat]
    <3>1. mails \in [N!Ids -> Nat] /\ mails[c.id] + 1 \in Nat
      BY <1>4 DEF AlertInv, N!TypeOK
    <3> QED
      BY <1>1, <3>1
  <2> QED
    BY <1>1, <1>6, <1>8, <2>1 DEF AlertInv, N!TypeOK, Holding
<1>10. RowsGoOn
  <2>1. \A d \in N!Ids : mails'[d] # mails[d] => d[1] <= Len(done)
    BY <1>4, <1>7
  <2>2. \A d \in N!Ids : alert'[d].attempts >= alert[d].attempts
    BY <1>1, TypedAlerts
  <2> QED
    BY <1>1, <1>7, <2>1, <2>2 DEF RowsGoOn
<1>11. Holds(w)' \subseteq Holds(w)
  BY <1>3, <1>6 DEF Holds
<1>12. HoldingFits(sender'[w])
  BY <1>2, <1>6 DEF HoldingFits
<1>13. sender'[w].step = "mark" => \A e \in sender'[w].now : mails'[e.id] >= 1
  <2>1. sender'[w].step = "mark" => returned
    BY <1>2, <1>6
  <2> QED
    BY <1>4, <1>6, <1>7, <2>1
<1>14. IncidentsAnnounced'
  BY <1>1, <1>9, <1>10, IncidentsStay
<1>15. BudgetHolds'
  <2>1. ASSUME NEW d \in N!Ids
        PROVE  mails'[d] + Cardinality(Unsent(d))' + Chance(d)' <= 1 + slips'
    <3>1. /\ slips \in Nat /\ Cardinality(Unsent(d)) \in Nat /\ IsFiniteSet(Unsent(d))
          /\ mails[d] + Cardinality(Unsent(d)) + Chance(d) <= 1 + slips
      BY TypedAlerts, UnsentCounted DEF AlertInv, BudgetHolds
    <3>2. Chance(d) \in {0, 1} /\ Chance(d)' \in {0, 1}
      BY DEF Chance
    <3>3. Chance(d)' - Chance(d) <= slips' - slips
      <4>1. CASE returned
        <5>1. sender'[w].step = "mark"
          BY <1>2, <1>6, <4>1
        <5>2. Carries(w, d)' <=> Carries(w, d)
          BY <1>1, <1>3, <1>6, <5>1 DEF Carries, N!Fenced
        <5>3. \A v \in Workers : Carries(v, d)' <=> Carries(v, d)
          BY <1>1, <1>6, <5>2, CarriesFollows
        <5>4. Chance(d)' = Chance(d)
          BY <1>1, <5>3 DEF Chance, Unfinished
        <5> QED
          BY <1>1, <3>1, <3>2, <4>1, <5>4
      <4>2. CASE ~returned
        BY <1>1, <3>1, <3>2, <4>2
      <4> QED
        BY <4>1, <4>2
    <3>4. CASE d = c.id
      <4>1. Unsent(d)' = Unsent(d) \ {w} /\ w \in Unsent(d)
        <5>1. \A v \in Workers : v # w => sender'[v].batch = sender[v].batch
          BY <1>6
        <5> QED
          BY <1>5, <1>6, <3>4, <5>1 DEF Unsent
      <4>2. Cardinality(Unsent(d))' = Cardinality(Unsent(d)) - 1
        BY <3>1, <4>1, FS_RemoveElement
      <4> QED
        BY <1>7, <1>8, <3>1, <3>2, <3>3, <4>2
    <3>5. CASE d # c.id
      <4>1. mails'[d] = mails[d] /\ mails[d] \in Nat
        BY <1>7, <3>5
      <4>2. Unsent(d)' = Unsent(d)
        <5>1. \A v \in Workers : v # w => sender'[v].batch = sender[v].batch
          BY <1>6
        <5> QED
          BY <1>6, <3>5, <5>1 DEF Unsent
      <4> QED
        BY <1>8, <3>1, <3>2, <3>3, <4>1, <4>2
    <3> QED
      BY <3>4, <3>5
  <2> QED
    BY <2>1 DEF BudgetHolds
<1> QED
  BY <1>1, <1>6, <1>9, <1>10, <1>11, <1>12, <1>13, <1>14, <1>15, ProcessStep

\* The rest of a batch after one of its deliveries is marked.
LEMMA Resting ==
  ASSUME AlertInv, NEW w \in Workers, sender' = [sender EXCEPT ![w] = N!Rest(w)]
  PROVE  /\ sender' \in [Workers -> Holding] /\ sender'[w].batch = sender[w].batch
         /\ sender'[w].now = {} /\ sender'[w].step # "mark" /\ HoldingFits(sender'[w])
         /\ Holds(w)' \subseteq Holds(w)
         /\ \A v \in Workers : v # w => sender'[v] = sender[v]
         /\ \A v \in Workers : sender'[v].batch \subseteq sender[v].batch
<1>1. sender \in [Workers -> Holding]
  BY DEF AlertInv, N!TypeOK, Holding
<1>2. /\ N!Rest(w) \in Holding /\ N!Rest(w).batch = sender[w].batch /\ N!Rest(w).now = {}
      /\ N!Rest(w).step # "mark" /\ HoldingFits(N!Rest(w))
  BY <1>1 DEF N!Rest, N!Idle, N!Nobody, Holding, HoldingFits
<1>3. sender'[w] = N!Rest(w) /\ \A v \in Workers : v # w => sender'[v] = sender[v]
  BY <1>1
<1>4. sender' \in [Workers -> Holding]
  BY <1>1, <1>2
<1> QED
  BY <1>2, <1>3, <1>4 DEF Holds

\* A claim that is marked, in its row's state or not, stands for no further
\* mail of another row.
LEMMA CarriesRest ==
  ASSUME AlertInv, NEW w \in Workers, NEW c \in sender[w].now, sender[w].step \in {"mark", "retry"},
         sender' = [sender EXCEPT ![w] = N!Rest(w)], NEW d \in N!Ids,
         alert'[d].status = alert[d].status, alert'[d].attempts = alert[d].attempts,
         d # c.id \/ ~N!Fenced(c) \/ sender[w].step = "retry"
  PROVE  \A v \in Workers : Carries(v, d)' <=> Carries(v, d)
<1>1. sender[w].now = {c}
  BY DEF AlertInv, ClaimsFit, StepsFit, HoldingFits
<1>2. /\ sender'[w].batch = sender[w].batch /\ sender'[w].now = {}
      /\ \A v \in Workers : v # w => sender'[v] = sender[v]
  BY Resting
<1>3. Carries(w, d)' <=> Carries(w, d)
  BY <1>1, <1>2 DEF Carries, N!Fenced
<1> QED
  BY <1>2, <1>3, CarriesFollows

\* A mail is marked as sent: its row is settled, and an incident it opens has
\* been announced by it.
LEMMA MarkSentSteps ==
  ASSUME AlertInv, NEW w \in Workers, NEW c \in sender[w].now, N!MarkSent(w, c)
  PROVE  AlertInv'
<1>1. /\ sender[w].step = "mark" /\ sender' = [sender EXCEPT ![w] = N!Rest(w)]
      /\ UNCHANGED <<done, persist, minimum, mails, slips>>
  BY DEF N!MarkSent
<1>2. \/ /\ N!Fenced(c) /\ alert' = [alert EXCEPT ![c.id] = Sent(alert[c.id])]
         /\ incident' = N!Marked(c.id)
      \/ ~N!Fenced(c) /\ alert' = alert /\ incident' = incident
  BY DEF N!MarkSent, Sent
<1>3. c \in N!Claims /\ c.id \in N!Ids /\ c.id[1] \in 1..Len(done) /\ mails[c.id] >= 1
  <2>1. c \in Holds(w)
    BY DEF Holds
  <2>2. c \in N!Claims /\ c.id \in N!Ids /\ c.id[1] <= Len(done) /\ c.id[1] \in 1..AlertScans
    BY <2>1, TypedAlerts DEF AlertInv, ClaimsFit, ClaimsNameRows
  <2>3. Len(done) \in Nat /\ AlertScans \in Nat
    BY TypedAlerts
  <2>4. mails[c.id] >= 1
    BY <1>1 DEF AlertInv, ClaimsFit, MarkedWereMailed
  <2> QED
    BY <2>2, <2>3, <2>4
<1>4. alert \in [N!Ids -> N!Row] /\ incident \in Incidents
  BY DEF AlertInv, N!TypeOK, Incidents
<1>5. \A d \in N!Ids : d # c.id => alert'[d] = alert[d]
  BY <1>2, <1>4
<1>6. /\ sender' \in [Workers -> Holding] /\ HoldingFits(sender'[w]) /\ Holds(w)' \subseteq Holds(w)
      /\ sender'[w].step # "mark" /\ \A v \in Workers : v # w => sender'[v] = sender[v]
      /\ \A v \in Workers : sender'[v].batch \subseteq sender[v].batch
  BY <1>1, Resting
<1>7. N!Fenced(c) => /\ alert'[c.id] = Sent(alert[c.id]) /\ alert[c.id].status = "sending"
                     /\ alert'[c.id] \in N!Row /\ alert'[c.id].status = "sent"
                     /\ alert'[c.id].items = alert[c.id].items
                     /\ alert'[c.id].attempts = alert[c.id].attempts
  <2>1. alert[c.id] \in N!Row
    BY <1>3, <1>4
  <2>2. /\ Sent(alert[c.id]) \in N!Row /\ Sent(alert[c.id]).status = "sent"
        /\ Sent(alert[c.id]).items = alert[c.id].items /\ Sent(alert[c.id]).attempts = alert[c.id].attempts
    BY <2>1, AlertRowChanges, AlertRowContents
  <2>3. N!Fenced(c) => alert'[c.id] = Sent(alert[c.id])
    BY <1>2, <1>3, <1>4
  <2> QED
    BY <2>2, <2>3 DEF N!Fenced
<1>8. incident' \in Incidents
  <2>1. N!Marked(c.id) \in Incidents
    <3>1. \A f \in Findings : [incident[f] EXCEPT !.active = FALSE] \in [active: BOOLEAN, opened: 0..AlertScans]
      BY <1>4 DEF Incidents
    <3>2. [active |-> TRUE, opened |-> c.id[1]] \in [active: BOOLEAN, opened: 0..AlertScans]
      BY <1>3, TypedAlerts
    <3> QED
      BY <1>4, <3>1, <3>2 DEF N!Marked, Incidents
  <2> QED
    BY <1>2, <1>4, <2>1
<1>9. N!TypeOK'
  <2>1. alert' \in [N!Ids -> N!Row]
    BY <1>2, <1>3, <1>4, AlertRowChanges
  <2> QED
    BY <1>1, <1>6, <1>8, <2>1 DEF AlertInv, N!TypeOK, Holding, Incidents
<1>10. RowsGoOn
  <2>1. ASSUME NEW d \in N!Ids
        PROVE  /\ alert'[d].items = alert[d].items /\ alert'[d].attempts = alert[d].attempts
               /\ (alert'[d].status \in AlertOpen => alert[d].status \in AlertOpen)
               /\ (alert'[d].status = "sent" => alert[d].status = "sent" \/ mails[d] >= 1)
               /\ (alert[d].status \in {"none", "gone"} => alert'[d].status \in {"none", "gone"})
    <3>1. CASE d = c.id /\ N!Fenced(c)
      BY <1>3, <1>7, <3>1 DEF AlertOpen
    <3>2. CASE d # c.id \/ ~N!Fenced(c)
      BY <1>2, <1>5, <3>2
    <3> QED
      BY <3>1, <3>2
  <2>2. \A d \in N!Ids : mails[d] \in Nat /\ alert[d].attempts \in Nat
    BY TypedAlerts
  <2> QED
    BY <1>1, <2>1, <2>2 DEF RowsGoOn
<1>11. IncidentsAnnounced'
  <2>1. ASSUME NEW f \in Findings, incident'[f].active, NEW m, m = incident'[f].opened
        PROVE  Announced(m, f)'
    <3>1. CASE incident'[f] = incident[f]
      <4>1. Announced(m, f)
        BY <2>1, <3>1 DEF AlertInv, IncidentsAnnounced
      <4> QED
        BY <1>9, <1>10, <4>1, AnnouncedStays
    <3>2. CASE incident'[f] # incident[f]
      <4>1. /\ N!Fenced(c) /\ f \in alert[c.id].items
            /\ incident'[f] = IF c.id[2] = "degradation" THEN [active |-> TRUE, opened |-> c.id[1]]
                              ELSE [incident[f] EXCEPT !.active = FALSE]
        BY <1>2, <3>2 DEF N!Marked
      <4>2. incident[f] \in [active: BOOLEAN, opened: 0..AlertScans]
        BY <1>4 DEF Incidents
      <4>3. c.id[2] = "degradation" /\ incident'[f].opened = c.id[1]
        BY <2>1, <4>1, <4>2
      <4>4. c.id = <<c.id[1], "degradation">>
        BY <1>3, <4>3 DEF N!Ids
      <4>5. Announced(m, f)
        BY <1>3, <2>1, <4>1, <4>3, <4>4 DEF Announced
      <4> QED
        BY <1>9, <1>10, <4>5, AnnouncedStays
    <3> QED
      BY <3>1, <3>2
  <2> QED
    BY <2>1 DEF IncidentsAnnounced
<1>12. BudgetHolds'
  <2>1. ASSUME NEW d \in N!Ids
        PROVE  Unfinished(d)' => Unfinished(d)
    <3>1. CASE d = c.id /\ N!Fenced(c)
      BY <1>7, <3>1 DEF Unfinished
    <3>2. CASE d # c.id \/ ~N!Fenced(c)
      <4>1. alert'[d] = alert[d]
        BY <1>2, <1>5, <3>2
      <4>2. \A v \in Workers : Carries(v, d)' <=> Carries(v, d)
        BY <1>1, <3>2, <4>1, CarriesRest
      <4> QED
        BY <4>1, <4>2 DEF Unfinished
    <3> QED
      BY <3>1, <3>2
  <2>2. slips \in Nat /\ slips' = slips
    BY <1>1, TypedAlerts
  <2> QED
    BY <1>1, <1>6, <2>1, <2>2, BudgetStays
<1> QED
  BY <1>1, <1>6, <1>9, <1>10, <1>11, <1>12, ProcessStep

\* A failed mark and a process that gives up pay for the mail that follows.
LEMMA FailingSteps ==
  ASSUME AlertInv, NEW w \in Workers, N!MarkFails(w) \/ N!Abandon(w)
  PROVE  AlertInv'
<1> DEFINE h == IF N!MarkFails(w) THEN [sender[w] EXCEPT !.step = "retry"] ELSE N!Idle
<1>1. /\ slips' = slips + 1 /\ slips < MaxFaults
      /\ N!MarkFails(w) => sender[w].step = "mark"
      /\ UNCHANGED <<done, persist, alert, incident, minimum, mails>>
  BY DEF N!MarkFails, N!Abandon
<1>2. sender' = [sender EXCEPT ![w] = h]
  BY DEF N!MarkFails, N!Abandon
<1>3. sender \in [Workers -> Holding] /\ slips \in Nat
  BY TypedAlerts DEF AlertInv, N!TypeOK, Holding
<1>4. /\ h \in Holding /\ h.batch \subseteq sender[w].batch /\ h.now \subseteq sender[w].now
      /\ h.step # "mark" /\ HoldingFits(h)
  <2>1. CASE N!MarkFails(w)
    <3>1. HoldingFits(sender[w]) /\ sender[w].step = "mark" /\ sender[w] \in Holding
      BY <1>1, <1>3, <2>1 DEF AlertInv, ClaimsFit, StepsFit
    <3>2. h = [sender[w] EXCEPT !.step = "retry"]
      BY <2>1
    <3> QED
      BY <3>1, <3>2 DEF HoldingFits, Holding
  <2>2. CASE ~N!MarkFails(w)
    <3>1. h = N!Idle
      BY <2>2
    <3> QED
      BY <3>1 DEF HoldingFits, Holding, N!Idle, N!Nobody
  <2> QED
    BY <2>1, <2>2
<1> HIDE DEF h
<1>5. /\ sender' \in [Workers -> Holding] /\ sender'[w] = h
      /\ \A v \in Workers : v # w => sender'[v] = sender[v]
  BY <1>2, <1>3, <1>4
<1>6. Holds(w)' \subseteq Holds(w) /\ \A v \in Workers : sender'[v].batch \subseteq sender[v].batch
  BY <1>4, <1>5 DEF Holds
<1>7. slips' \in 0..MaxFaults /\ slips' \in Nat
  BY <1>1, <1>3, Bounds
<1>8. N!TypeOK'
  BY <1>1, <1>5, <1>7 DEF AlertInv, N!TypeOK, Holding
<1>9. RowsGoOn
  BY <1>1, RowsStand
<1>10. IncidentsAnnounced'
  BY <1>1, <1>8, <1>9, IncidentsStay
<1>11. BudgetHolds'
  BY <1>1, <1>6, <1>7, BudgetStays
<1> QED
  BY <1>1, <1>4, <1>5, <1>6, <1>8, <1>9, <1>10, <1>11, ProcessStep

\* A claim to be retried stands for no further mail, and its row is in no
\* other claim's state: giving it back opens no chance that was not open.
LEMMA RetrySteps ==
  ASSUME AlertInv, NEW w \in Workers, NEW c \in sender[w].now, N!MarkRetry(w, c)
  PROVE  AlertInv'
<1>1. /\ sender[w].step = "retry" /\ sender' = [sender EXCEPT ![w] = N!Rest(w)]
      /\ UNCHANGED <<done, persist, incident, minimum, mails, slips>>
  BY DEF N!MarkRetry
<1>2. \/ N!Fenced(c) /\ alert' = [alert EXCEPT ![c.id] = N!AgainLater(alert[c.id])]
      \/ ~N!Fenced(c) /\ alert' = alert
  BY DEF N!MarkRetry
<1>3. c \in Holds(w) /\ c \in N!Claims /\ c.id \in N!Ids
  BY TypedAlerts DEF Holds
<1>4. alert \in [N!Ids -> N!Row]
  BY DEF AlertInv, N!TypeOK
<1>5. \A d \in N!Ids : d # c.id => alert'[d] = alert[d]
  BY <1>2, <1>4
<1>6. /\ sender' \in [Workers -> Holding] /\ HoldingFits(sender'[w]) /\ Holds(w)' \subseteq Holds(w)
      /\ sender'[w].step # "mark" /\ \A v \in Workers : v # w => sender'[v] = sender[v]
      /\ \A v \in Workers : sender'[v].batch \subseteq sender[v].batch
  BY <1>1, Resting
<1>7. N!Fenced(c) => /\ alert[c.id].status = "sending" /\ alert[c.id].attempts = c.attempt
                     /\ alert'[c.id] \in N!Row /\ alert'[c.id].status = "pending"
                     /\ alert'[c.id].items = alert[c.id].items
                     /\ alert'[c.id].attempts = alert[c.id].attempts
  <2>1. alert[c.id] \in N!Row
    BY <1>3, <1>4
  <2>2. /\ N!AgainLater(alert[c.id]) \in N!Row /\ N!AgainLater(alert[c.id]).status = "pending"
        /\ N!AgainLater(alert[c.id]).items = alert[c.id].items
        /\ N!AgainLater(alert[c.id]).attempts = alert[c.id].attempts
    BY <2>1, AlertRowChanges, AlertRowContents
  <2>3. N!Fenced(c) => alert'[c.id] = N!AgainLater(alert[c.id])
    BY <1>2, <1>3, <1>4
  <2> QED
    BY <2>2, <2>3 DEF N!Fenced
<1>8. N!TypeOK'
  <2>1. alert' \in [N!Ids -> N!Row]
    BY <1>2, <1>3, <1>4, AlertRowChanges
  <2> QED
    BY <1>1, <1>6, <2>1 DEF AlertInv, N!TypeOK, Holding
<1>9. RowsGoOn
  <2>1. ASSUME NEW d \in N!Ids
        PROVE  /\ alert'[d].items = alert[d].items /\ alert'[d].attempts = alert[d].attempts
               /\ (alert'[d].status \in AlertOpen => alert[d].status \in AlertOpen)
               /\ (alert'[d].status = "sent" => alert[d].status = "sent")
               /\ (alert[d].status \in {"none", "gone"} => alert'[d].status \in {"none", "gone"})
    <3>1. CASE d = c.id /\ N!Fenced(c)
      BY <1>3, <1>7, <3>1 DEF AlertOpen
    <3>2. CASE d # c.id \/ ~N!Fenced(c)
      BY <1>2, <1>5, <3>2
    <3> QED
      BY <3>1, <3>2
  <2>2. \A d \in N!Ids : mails[d] \in Nat /\ alert[d].attempts \in Nat
    BY TypedAlerts
  <2> QED
    BY <1>1, <2>1, <2>2 DEF RowsGoOn
<1>10. IncidentsAnnounced'
  BY <1>1, <1>8, <1>9, IncidentsStay
<1>11. BudgetHolds'
  <2>1. ASSUME NEW d \in N!Ids
        PROVE  Unfinished(d)' => Unfinished(d)
    <3>1. CASE d = c.id /\ N!Fenced(c)
      <4>1. ASSUME NEW v \in Workers, Carries(v, d) PROVE FALSE
        <5>1. PICK e \in sender[v].batch \cup (IF sender[v].step = "mark" THEN sender[v].now ELSE {}) :
                e.id = d /\ N!Fenced(e)
          BY <4>1 DEF Carries
        <5>2. e \in Holds(v) /\ e \in N!Claims
          BY <5>1, TypedAlerts DEF Holds
        <5>3. e = c
          BY <1>3, <1>7, <3>1, <5>1, <5>2 DEF N!Claims, N!Fenced
        <5>4. v = w
          BY <1>3, <5>2, <5>3 DEF AlertInv, ClaimsFit, OneClaimEach
        <5> QED
          BY <1>1, <5>1, <5>3, <5>4 DEF AlertInv, ClaimsFit, StepsFit, HoldingFits
      <4> QED
        BY <1>7, <3>1, <4>1 DEF Unfinished
    <3>2. CASE d # c.id \/ ~N!Fenced(c)
      <4>1. alert'[d] = alert[d]
        BY <1>2, <1>5, <3>2
      <4>2. \A v \in Workers : Carries(v, d)' <=> Carries(v, d)
        BY <1>1, <3>2, <4>1, CarriesRest
      <4> QED
        BY <4>1, <4>2 DEF Unfinished
    <3> QED
      BY <3>1, <3>2
  <2>2. slips \in Nat /\ slips' = slips
    BY <1>1, TypedAlerts
  <2> QED
    BY <1>1, <1>6, <2>1, <2>2, BudgetStays
<1> QED
  BY <1>1, <1>6, <1>8, <1>9, <1>10, <1>11, ProcessStep

---------------------------------------------------------------------------
(* Time passes.                                                            *)

\* A lease that ends under a claim that will still be sent or marked is a
\* failure; one that ends under none opens no chance that was not open.
LEMMA LeaseSteps ==
  ASSUME AlertInv, NEW d \in N!Ids, N!LeaseEnds(d) \/ N!BackoffEnds(d)
  PROVE  AlertInv'
<1> DEFINE r == IF N!LeaseEnds(d) THEN [alert[d] EXCEPT !.leased = FALSE] ELSE [alert[d] EXCEPT !.due = TRUE]
<1>1. /\ alert' = [alert EXCEPT ![d] = r]
      /\ UNCHANGED <<done, persist, incident, minimum, sender, mails>>
  BY DEF N!LeaseEnds, N!BackoffEnds
<1>2. slips' \in 0..MaxFaults /\ (slips' = slips \/ slips' = slips + 1) /\ slips \in Nat
  <2>1. slips \in 0..MaxFaults
    BY DEF AlertInv, N!TypeOK
  <2> QED
    BY <2>1, Bounds DEF N!LeaseEnds, N!BackoffEnds
<1>3. alert \in [N!Ids -> N!Row]
  BY DEF AlertInv, N!TypeOK
<1>4. r \in N!Row /\ r.items = alert[d].items /\ r.attempts = alert[d].attempts /\ r.status = alert[d].status
  BY <1>3, AlertRowChanges, AlertRowFlags
<1> HIDE DEF r
<1>5. alert' \in [N!Ids -> N!Row] /\ alert'[d] = r /\ \A e \in N!Ids : e # d => alert'[e] = alert[e]
  BY <1>1, <1>3, <1>4
<1>6. \A e \in N!Ids : /\ alert'[e].items = alert[e].items /\ alert'[e].attempts = alert[e].attempts
                       /\ alert'[e].status = alert[e].status
  BY <1>4, <1>5
<1>7. N!TypeOK'
  BY <1>1, <1>2, <1>5 DEF AlertInv, N!TypeOK
<1>8. RowsGoOn
  BY <1>1, <1>6, TypedAlerts DEF RowsGoOn
<1>9. RowsFit' /\ IncidentsAnnounced' /\ ReadsAnnounced'
  BY <1>1, <1>7, <1>8, RowsStayFit, IncidentsStay, ReadsStay
<1>10. ClaimsFit'
  <2>1. ClaimsNameRows' /\ OneClaimEach'
    BY <1>1, <1>7, <1>8, ClaimsStay DEF Holds
  <2> QED
    BY <1>1, <2>1 DEF AlertInv, ClaimsFit, StepsFit, MarkedWereMailed
<1>11. \A e \in N!Ids : \A w \in Workers : Carries(w, e)' <=> Carries(w, e)
  BY <1>1, <1>6, CarriesFollows
<1>12. BudgetHolds'
  <2>1. ASSUME NEW e \in N!Ids
        PROVE  slips' = slips + 1 \/ (slips' = slips /\ (Unfinished(e)' => Unfinished(e)))
    <3>1. CASE slips' = slips + 1
      BY <3>1
    <3>2. CASE e # d /\ slips' = slips
      BY <1>5, <1>11, <3>2 DEF Unfinished
    <3>3. CASE e = d /\ slips' = slips /\ N!LeaseEnds(d)
      <4>1. ~N!Held(d)
        BY <1>2, <3>3 DEF N!LeaseEnds
      <4>2. \A w \in Workers : ~Carries(w, d)
        BY <4>1 DEF N!Held, Carries
      <4> QED
        BY <1>6, <3>3, <4>2 DEF Unfinished, N!LeaseEnds
    <3>4. CASE e = d /\ slips' = slips /\ N!BackoffEnds(d)
      BY <3>4 DEF Unfinished, N!BackoffEnds
    <3> QED
      BY <1>2, <3>1, <3>2, <3>3, <3>4
  <2>2. slips' \in Nat
    BY <1>2
  <2> QED
    BY <1>1, <2>1, <2>2, BudgetStays
<1> QED
  BY <1>7, <1>9, <1>10, <1>12 DEF AlertInv

---------------------------------------------------------------------------
LEMMA AlertsStart ==
  ASSUME N!Init
  PROVE  AlertInv
<1> USE DEF N!Init
<1>1. N!TypeOK
  <2>1. done \in Seq(Outcomes) /\ Len(done) = 0 /\ Len(done) <= AlertScans
    BY Bounds
  <2>2. N!NoRow \in N!Row
    BY DEF N!NoRow, N!Row
  <2>3. N!NoIncident \in [active: BOOLEAN, opened: 0..AlertScans] /\ slips \in 0..MaxFaults
    BY Bounds DEF N!NoIncident
  <2>4. N!Idle \in Holding
    BY DEF N!Idle, N!Nobody, Holding
  <2> QED
    BY <2>1, <2>2, <2>3, <2>4 DEF N!TypeOK, Holding
<1>2. \A w \in Workers : sender[w] = N!Idle /\ sender[w].batch = {} /\ sender[w].now = {} /\ sender[w].step = "idle"
  BY DEF N!Idle, N!Nobody
<1>3. ClaimsFit
  BY <1>2 DEF ClaimsFit, ClaimsNameRows, OneClaimEach, StepsFit, MarkedWereMailed, HoldingFits,
     Holds
<1>4. \A d \in N!Ids : alert[d].items = {} /\ alert[d].status = "none" /\ mails[d] = 0
  BY DEF N!NoRow
<1>5. RowsFit
  <2>1. \A n \in N!Numbers : <<n, "recovery">> \in N!Ids
    BY DEF N!Ids
  <2> QED
    BY <1>4, <2>1 DEF RowsFit, SentWereMailed, LaterRowsAreEmpty, N!RecoveryFollowsMail,
       N!OneOutstandingRecovery
<1>6. BudgetHolds
  <2>1. \A d \in N!Ids : Unsent(d) = {} /\ Chance(d) = 0
    BY <1>2, <1>4 DEF Unsent, Chance, Unfinished
  <2>2. \A d \in N!Ids : Cardinality(Unsent(d)) = 0
    BY <2>1, FS_EmptySet
  <2> QED
    BY <1>4, <2>1, <2>2 DEF BudgetHolds
<1>7. IncidentsAnnounced /\ ReadsAnnounced
  BY DEF IncidentsAnnounced, ReadsAnnounced, N!NoIncident, N!NoPersist
<1> QED
  BY <1>1, <1>3, <1>5, <1>6, <1>7 DEF AlertInv

LEMMA AlertsStep ==
  ASSUME AlertInv, [N!Next]_alertVars
  PROVE  AlertInv'
<1>1. ASSUME NEW w \in Workers, N!Dispatch(w) PROVE AlertInv'
  BY <1>1, ClaimSteps, SendSteps, MarkSentSteps, RetrySteps DEF N!Dispatch
<1>2. ASSUME NEW w \in Workers, N!Fail(w) PROVE AlertInv'
  BY <1>2, SendSteps, FailingSteps DEF N!Fail
<1>3. CASE N!Passing
  BY <1>3, LeaseSteps DEF N!Passing
<1>4. CASE UNCHANGED alertVars
  <2>1. UNCHANGED <<done, alert, incident, sender, mails, slips, persist, minimum>>
    BY <1>4 DEF alertVars
  <2>2. N!TypeOK' /\ ReadsAnnounced'
    BY <2>1 DEF AlertInv, N!TypeOK, ReadsAnnounced, Announced
  <2> QED
    BY <2>1, <2>2, AllStays
<1> QED
  BY <1>1, <1>2, <1>3, <1>4, ReadingSteps, CommittingSteps, AbortingSteps, DeletingSteps DEF N!Next

---------------------------------------------------------------------------
(* The types of the reports.  A claim that was read raises the count of    *)
(* its row when it commits: until then nobody else raises it, and it was   *)
(* below the bound.                                                        *)

RowFits(d) == d \in Row /\ (d.leased => d.status = "sending")
ReportSteps == {"idle", "read", "send", "mark", "retry"}
ReportHoldings == [step: ReportSteps, read: SUBSET Readings, batch: SUBSET Claims, now: SUBSET Claims]
ReadsWithinBound ==
  \A w \in Workers : \A x \in worker[w].read : x.valid => delivery[x.id].attempts < MaxAttempts
LocksAreExclusive ==
  \A w, v \in Workers : \A x \in worker[w].read, y \in worker[v].read : x.id = y.id => w = v
ReportTypes == TypeOK /\ ReadsWithinBound /\ LocksAreExclusive

LEMMA Limits == MaxAttempts \in Nat /\ MaxFaults \in Nat /\ MaxScans \in Nat /\ MaxActs \in Nat
BY MailBoundsAssumption

LEMMA RowStates == Row = [status: {"none", "gone", "sent", "cancelled", "pending", "sending"},
                          attempts: 0..MaxAttempts, due: BOOLEAN, leased: BOOLEAN]
BY DEF Row, Open

LEMMA FieldsFit ==
  ASSUME NEW d \in Row
  PROVE  /\ \A x \in {"none", "gone", "sent", "cancelled", "pending", "sending"} :
               [d EXCEPT !.status = x] \in Row /\ [d EXCEPT !.status = x].leased = d.leased
                  /\ [d EXCEPT !.status = x].status = x
                  /\ [d EXCEPT !.status = x].attempts = d.attempts
         /\ \A x \in 0..MaxAttempts :
               [d EXCEPT !.attempts = x] \in Row /\ [d EXCEPT !.attempts = x].leased = d.leased
                  /\ [d EXCEPT !.attempts = x].status = d.status
         /\ \A x \in BOOLEAN :
               [d EXCEPT !.due = x] \in Row /\ [d EXCEPT !.due = x].leased = d.leased
                  /\ [d EXCEPT !.due = x].status = d.status
                  /\ [d EXCEPT !.due = x].attempts = d.attempts
         /\ \A x \in BOOLEAN :
               [d EXCEPT !.leased = x] \in Row /\ [d EXCEPT !.leased = x].leased = x
                  /\ [d EXCEPT !.leased = x].status = d.status
BY RowStates

LEMMA Fitting ==
  ASSUME NEW d, RowFits(d)
  PROVE  /\ RowFits(CancelledIfOpen(d)) /\ RowFits(SentRow(d)) /\ RowFits(AgainLater(d))
         /\ RowFits([d EXCEPT !.leased = FALSE]) /\ RowFits([d EXCEPT !.due = TRUE])
         /\ RowFits([d EXCEPT !.status = "cancelled", !.leased = FALSE])
<1> USE DEF RowFits
<1>1. TRUE \in BOOLEAN /\ FALSE \in BOOLEAN
  OBVIOUS
<1>2. RowFits([d EXCEPT !.leased = FALSE]) /\ RowFits([d EXCEPT !.due = TRUE])
  BY <1>1, FieldsFit, Zenon
<1>3. ASSUME NEW x \in {"none", "gone", "sent", "cancelled", "pending", "sending"}
      PROVE  RowFits([d EXCEPT !.status = x, !.leased = FALSE])
  <2>1. [d EXCEPT !.status = x] \in Row
    BY FieldsFit, Zenon
  <2>2. [[d EXCEPT !.status = x] EXCEPT !.leased = FALSE] \in Row
        /\ [[d EXCEPT !.status = x] EXCEPT !.leased = FALSE].leased = FALSE
    BY <1>1, <2>1, FieldsFit, Zenon
  <2> QED
    BY <2>2, Zenon
<1>4. RowFits(SentRow(d)) /\ RowFits([d EXCEPT !.status = "cancelled", !.leased = FALSE])
  BY <1>3, Zenon DEF SentRow
<1>5. RowFits(AgainLater(d))
  <2>1. [d EXCEPT !.status = "pending"] \in Row
    BY FieldsFit, Zenon
  <2>2. [[d EXCEPT !.status = "pending"] EXCEPT !.due = FALSE] \in Row
    BY <1>1, <2>1, FieldsFit, Zenon
  <2>3. AgainLater(d) \in Row /\ AgainLater(d).leased = FALSE
    BY <1>1, <2>2, FieldsFit, Zenon DEF AgainLater
  <2> QED
    BY <2>3, Zenon
<1> QED
  BY <1>2, <1>4, <1>5, Zenon DEF CancelledIfOpen

LEMMA ClaimedFits ==
  ASSUME NEW d, RowFits(d), d.attempts < MaxAttempts
  PROVE  RowFits([d EXCEPT !.status = "sending", !.leased = TRUE, !.attempts = @ + 1])
<1> DEFINE n == d.attempts + 1
<1>1. n \in 0..MaxAttempts
  BY Limits, RowStates DEF RowFits
<1>2. [d EXCEPT !.status = "sending"] \in Row /\ [d EXCEPT !.status = "sending"].status = "sending"
  BY FieldsFit, Zenon DEF RowFits
<1>3. TRUE \in BOOLEAN
  OBVIOUS
<1>4. /\ [[d EXCEPT !.status = "sending"] EXCEPT !.leased = TRUE] \in Row
      /\ [[d EXCEPT !.status = "sending"] EXCEPT !.leased = TRUE].status = "sending"
  BY <1>2, <1>3, FieldsFit, Zenon
<1> HIDE DEF n
<1>5. ASSUME NEW e \in Row
      PROVE  [e EXCEPT !.attempts = n] \in Row /\ [e EXCEPT !.attempts = n].status = e.status
  <2>1. \A x \in 0..MaxAttempts :
          [e EXCEPT !.attempts = x] \in Row /\ [e EXCEPT !.attempts = x].status = e.status
    BY RowStates
  <2> QED
    BY <1>1, <2>1, Zenon
<1> USE DEF n
<1>6. [d EXCEPT !.status = "sending", !.leased = TRUE, !.attempts = @ + 1]
      = [[[d EXCEPT !.status = "sending"] EXCEPT !.leased = TRUE] EXCEPT !.attempts = n]
  BY DEF RowFits, Row
<1> QED
  BY <1>4, <1>5, <1>6, Zenon DEF RowFits

LEMMA FirstFit ==
  /\ RowFits(NoRow) /\ RowFits(FirstRow) /\ RowFits([NoRow EXCEPT !.status = "gone"])
  /\ NoRow.attempts = 0 /\ FirstRow.attempts = 0 /\ [NoRow EXCEPT !.status = "gone"].attempts = 0
<1>1. NoRow \in Row /\ NoRow.leased = FALSE /\ NoRow.attempts = 0
  BY Limits, RowStates DEF NoRow
<1>2. TRUE \in BOOLEAN
  OBVIOUS
<1> HIDE DEF NoRow
<1>3. /\ [NoRow EXCEPT !.status = "gone"] \in Row
      /\ [NoRow EXCEPT !.status = "gone"].leased = NoRow.leased
      /\ [NoRow EXCEPT !.status = "gone"].attempts = NoRow.attempts
  BY <1>1, FieldsFit, Zenon
<1>4. /\ [NoRow EXCEPT !.status = "pending"] \in Row
      /\ [NoRow EXCEPT !.status = "pending"].leased = NoRow.leased
      /\ [NoRow EXCEPT !.status = "pending"].attempts = NoRow.attempts
  BY <1>1, FieldsFit, Zenon
<1>5. /\ [[NoRow EXCEPT !.status = "pending"] EXCEPT !.due = TRUE] \in Row
      /\ [[NoRow EXCEPT !.status = "pending"] EXCEPT !.due = TRUE].leased = FALSE
      /\ [[NoRow EXCEPT !.status = "pending"] EXCEPT !.due = TRUE].attempts = 0
  BY <1>1, <1>2, <1>4, FieldsFit, Zenon
<1>6. FirstRow \in Row /\ FirstRow.leased = FALSE /\ FirstRow.attempts = 0
  BY <1>5, Zenon DEF FirstRow
<1> QED
  BY <1>1, <1>3, <1>6, Zenon DEF RowFits

LEMMA CountsStay ==
  ASSUME NEW d \in Row
  PROVE  /\ CancelledIfOpen(d).attempts = d.attempts /\ SentRow(d).attempts = d.attempts
         /\ AgainLater(d).attempts = d.attempts
         /\ [d EXCEPT !.leased = FALSE].attempts = d.attempts
         /\ [d EXCEPT !.due = TRUE].attempts = d.attempts
BY RowStates DEF CancelledIfOpen, SentRow, AgainLater

LEMMA IdleFits == Idle \in ReportHoldings /\ Idle.read = {}
BY DEF Idle, ReportHoldings, ReportSteps

ReportsTyped ==
  /\ scan \in {"completed", "purged"} /\ site \in BOOLEAN
  /\ requests \subseteq Requests
  /\ share \in [Shares -> {"none", "active", "expired", "revoked", "gone"}]
  /\ candidate \in BOOLEAN /\ faults \in 0..MaxFaults
RowsTypedInBounds == delivery \in [Shares -> Row] /\ \A s \in Shares : RowFits(delivery[s])
WorkersFit == worker \in [Workers -> ReportHoldings]

LEMMA TypesTogether == TypeOK <=> ReportsTyped /\ RowsTypedInBounds /\ WorkersFit
BY DEF TypeOK, ReportsTyped, RowsTypedInBounds, WorkersFit, RowFits, ReportHoldings, ReportSteps

\* A step that takes no locks and leaves the counts of locked rows.
LEMMA TypesKept ==
  ASSUME ReportTypes, ReportsTyped', RowsTypedInBounds', WorkersFit',
         \A w \in Workers : worker'[w].read = {} \/ worker'[w].read = worker[w].read,
         \A s \in Shares : delivery'[s].attempts = delivery[s].attempts \/ delivery'[s].attempts = 0
  PROVE  ReportTypes'
<1>1. LocksAreExclusive'
  BY DEF ReportTypes, LocksAreExclusive
<1>2. ReadsWithinBound'
  <2> SUFFICES ASSUME NEW w \in Workers, NEW x \in worker'[w].read, x.valid
               PROVE  delivery'[x.id].attempts < MaxAttempts
    BY DEF ReadsWithinBound
  <2>1. x \in worker[w].read /\ x.id \in Shares
    BY TypesTogether DEF ReportTypes, WorkersFit, ReportHoldings, Readings
  <2>2. delivery[x.id].attempts < MaxAttempts /\ delivery[x.id].attempts \in Nat
    BY <2>1, TypesTogether, RowStates DEF ReportTypes, ReadsWithinBound, RowsTypedInBounds
  <2> QED
    BY <2>1, <2>2, Limits
<1>3. TypeOK'
  BY DEF TypeOK, ReportsTyped, RowsTypedInBounds, WorkersFit, RowFits, ReportHoldings, ReportSteps
<1> QED
  BY <1>1, <1>2, <1>3 DEF ReportTypes

\* A step that changes one row, or none.
LEMMA OneRowChanges ==
  ASSUME RowsTypedInBounds, NEW s \in Shares, NEW e, RowFits(e),
         e.attempts = delivery[s].attempts \/ e.attempts = 0,
         delivery' = delivery \/ delivery' = [delivery EXCEPT ![s] = e]
  PROVE  /\ RowsTypedInBounds'
         /\ \A t \in Shares : \/ delivery'[t].attempts = delivery[t].attempts
                              \/ e.attempts = 0 /\ delivery'[t].attempts = 0
<1>1. ASSUME NEW t \in Shares PROVE delivery'[t] = delivery[t] \/ (t = s /\ delivery'[t] = e)
  BY DEF RowsTypedInBounds
<1>2. \A t \in Shares : RowFits(delivery'[t])
  BY <1>1 DEF RowsTypedInBounds
<1>3. delivery \in [Shares -> Row] /\ e \in Row
  BY DEF RowsTypedInBounds, RowFits
<1>4. delivery' \in [Shares -> Row]
  BY <1>3
<1>5. RowsTypedInBounds'
  BY <1>2, <1>4, Zenon DEF RowsTypedInBounds
<1>6. ASSUME NEW t \in Shares
      PROVE  \/ delivery'[t].attempts = delivery[t].attempts
             \/ e.attempts = 0 /\ delivery'[t].attempts = 0
  <2>1. CASE delivery'[t] = delivery[t]
    BY <2>1
  <2>2. CASE t = s /\ delivery'[t] = e
    BY <2>2
  <2> QED
    BY <1>1, <2>1, <2>2
<1> QED
  BY <1>5, <1>6

LEMMA WebTypes ==
  ASSUME ReportTypes, NEW r \in Requests, Ask(r) \/ CreateShare(r) \/ RevokeShare(r)
  PROVE  ReportTypes'
<1>1. ReportsTyped /\ RowsTypedInBounds /\ WorkersFit /\ r[2] \in Shares
  BY TypesTogether DEF ReportTypes, Requests
<1>2. worker' = worker /\ UNCHANGED <<scan, site, candidate, faults>>
  BY DEF Ask, CreateShare, RevokeShare
<1>3. \/ requests' = requests \cup {r}
      \/ requests' = requests \ {r}
  BY DEF Ask, CreateShare, RevokeShare
<1>4. \/ share' = share
      \/ share' = [share EXCEPT ![r[2]] = "active"]
      \/ share' = [share EXCEPT ![r[2]] = "revoked"]
  BY DEF Ask, CreateShare, RevokeShare
<1>5. \/ delivery' = delivery
      \/ delivery' = [delivery EXCEPT ![r[2]] = FirstRow]
      \/ delivery' = [delivery EXCEPT ![r[2]] = CancelledIfOpen(delivery[r[2]])]
  BY DEF Ask, CreateShare, RevokeShare
<1>6. RowFits(delivery[r[2]]) /\ delivery[r[2]] \in Row
  BY <1>1 DEF RowsTypedInBounds
<1>7. RowFits(FirstRow) /\ RowFits(CancelledIfOpen(delivery[r[2]]))
      /\ FirstRow.attempts = 0 /\ CancelledIfOpen(delivery[r[2]]).attempts = delivery[r[2]].attempts
  BY <1>6, Fitting, FirstFit, CountsStay
<1>8. ReportsTyped'
  BY <1>1, <1>2, <1>3, <1>4 DEF ReportsTyped
<1>9. /\ RowsTypedInBounds'
      /\ \A s \in Shares : delivery'[s].attempts = delivery[s].attempts \/ delivery'[s].attempts = 0
  BY <1>1, <1>5, <1>7 DEF RowsTypedInBounds, RowFits
<1> QED
  BY <1>1, <1>2, <1>8, <1>9, TypesKept DEF WorkersFit

LEMMA RetentionTypes ==
  ASSUME ReportTypes, SiteChanges \/ ListCandidate \/ Purge \/ DeleteSite
  PROVE  ReportTypes'
<1>1. ReportsTyped /\ RowsTypedInBounds /\ WorkersFit
  BY TypesTogether DEF ReportTypes
<1>2. UNCHANGED <<worker, requests, faults>>
  BY DEF SiteChanges, ListCandidate, Purge, DeleteSite, Cascade
<1>3. UNCHANGED <<scan, share, delivery>> \/ Cascade
  BY DEF SiteChanges, ListCandidate, Purge, DeleteSite
<1>4. site' \in BOOLEAN /\ candidate' \in BOOLEAN
  BY <1>1 DEF SiteChanges, ListCandidate, Purge, DeleteSite, Cascade, ReportsTyped
<1>5. CASE UNCHANGED <<scan, share, delivery>>
  <2>1. ReportsTyped' /\ RowsTypedInBounds' /\ WorkersFit'
    BY <1>1, <1>2, <1>4, <1>5 DEF ReportsTyped, RowsTypedInBounds, WorkersFit
  <2> QED
    BY <1>2, <1>5, <2>1, TypesKept
<1>6. CASE Cascade
  <2>1. ReportsTyped'
    BY <1>1, <1>2, <1>4, <1>6 DEF ReportsTyped, Cascade
  <2>2. \A s \in Shares : delivery'[s] = NoRow \/ delivery'[s] = [NoRow EXCEPT !.status = "gone"]
    BY <1>6 DEF Cascade
  <2>3. delivery' = [s \in Shares |-> delivery'[s]]
    BY <1>6 DEF Cascade
  <2>4. RowsTypedInBounds' /\ \A s \in Shares : delivery'[s].attempts = 0
    BY <2>2, <2>3, FirstFit DEF RowsTypedInBounds, RowFits
  <2> QED
    BY <1>1, <1>2, <2>1, <2>4, TypesKept DEF WorkersFit
<1> QED
  BY <1>3, <1>5, <1>6

LEMMA PassingTypes ==
  ASSUME ReportTypes, NEW s \in Shares, ShareExpires(s) \/ LeaseEnds(s) \/ BackoffEnds(s)
  PROVE  ReportTypes'
<1>1. ReportsTyped /\ RowsTypedInBounds /\ WorkersFit
  BY TypesTogether DEF ReportTypes
<1>2. UNCHANGED <<worker, requests, faults, scan, site, candidate>>
  BY DEF ShareExpires, LeaseEnds, BackoffEnds
<1>3. share' = share \/ share' = [share EXCEPT ![s] = "expired"]
  BY DEF ShareExpires, LeaseEnds, BackoffEnds
<1>4. \/ delivery' = delivery
      \/ delivery' = [delivery EXCEPT ![s] = [delivery[s] EXCEPT !.leased = FALSE]]
      \/ delivery' = [delivery EXCEPT ![s] = [delivery[s] EXCEPT !.due = TRUE]]
  BY DEF ShareExpires, LeaseEnds, BackoffEnds
<1>5. RowFits(delivery[s]) /\ delivery[s] \in Row
  BY <1>1 DEF RowsTypedInBounds
<1>6. ReportsTyped'
  BY <1>1, <1>2, <1>3 DEF ReportsTyped
<1>7. /\ RowsTypedInBounds'
      /\ \A t \in Shares : delivery'[t].attempts = delivery[t].attempts \/ delivery'[t].attempts = 0
  <2>1. ASSUME NEW e, RowFits(e), e.attempts = delivery[s].attempts,
               delivery' = delivery \/ delivery' = [delivery EXCEPT ![s] = e]
        PROVE  /\ RowsTypedInBounds'
               /\ \A t \in Shares : delivery'[t].attempts = delivery[t].attempts \/ delivery'[t].attempts = 0
    BY <1>1, <2>1, OneRowChanges
  <2>2. /\ RowFits([delivery[s] EXCEPT !.leased = FALSE]) /\ RowFits([delivery[s] EXCEPT !.due = TRUE])
        /\ [delivery[s] EXCEPT !.leased = FALSE].attempts = delivery[s].attempts
        /\ [delivery[s] EXCEPT !.due = TRUE].attempts = delivery[s].attempts
    BY <1>5, Fitting, CountsStay
  <2> QED
    BY <1>4, <2>1, <2>2, Zenon
<1> QED
  BY <1>1, <1>2, <1>6, <1>7, TypesKept DEF WorkersFit

LEMMA ClaimReadsTypes ==
  ASSUME ReportTypes, NEW w \in Workers, ClaimReads(w)
  PROVE  ReportTypes'
<1> DEFINE read == {[id |-> s, valid |-> Usable(s)] : s \in Claimable}
           h == [Idle EXCEPT !.step = "read", !.read = read]
<1>1. ReportsTyped /\ RowsTypedInBounds /\ WorkersFit
  BY TypesTogether DEF ReportTypes
<1>2. UNCHANGED <<scan, site, requests, share, delivery, candidate, faults>>
      /\ worker' = [worker EXCEPT ![w] = h]
  BY DEF ClaimReads
<1>3. read \in SUBSET Readings
  <2>1. \A s \in Shares : Usable(s) \in BOOLEAN
    BY DEF Usable
  <2>2. \A s \in Claimable : [id |-> s, valid |-> Usable(s)] \in Readings
    BY <2>1, Zenon DEF Claimable, Readings
  <2> QED
    BY <2>2
<1>4. h \in ReportHoldings /\ h.read = read
  BY <1>3 DEF Idle, ReportHoldings, ReportSteps
<1>5. ASSUME NEW x \in read
      PROVE  x.id \in Shares /\ ~Locked(x.id) /\ (x.valid => delivery[x.id].attempts < MaxAttempts)
  <2>1. PICK s \in Claimable : x = [id |-> s, valid |-> Usable(s)]
    BY <1>5
  <2>2. x.id = s /\ (x.valid <=> Usable(s))
    BY <2>1
  <2>3. s \in Shares /\ ~Locked(s) /\ (Usable(s) => delivery[s].attempts < MaxAttempts)
    BY <2>1 DEF Claimable, Due
  <2> QED
    BY <2>2, <2>3
<1> HIDE DEF read, h
<1>6. \A v \in Workers : worker'[v].read = IF v = w THEN read ELSE worker[v].read
  BY <1>1, <1>2, <1>4 DEF WorkersFit
<1>7. ReadsWithinBound'
  BY <1>2, <1>5, <1>6 DEF ReportTypes, ReadsWithinBound
<1>8. LocksAreExclusive'
  BY <1>5, <1>6 DEF ReportTypes, LocksAreExclusive, Locked
<1>9. TypeOK'
  BY <1>1, <1>2, <1>4 DEF TypeOK, ReportsTyped, RowsTypedInBounds, WorkersFit, RowFits,
     ReportHoldings, ReportSteps
<1> QED
  BY <1>7, <1>8, <1>9 DEF ReportTypes

LEMMA ClaimCommitsTypes ==
  ASSUME ReportTypes, NEW w \in Workers, ClaimCommits(w)
  PROVE  ReportTypes'
<1> DEFINE valid == {x.id : x \in {y \in worker[w].read : y.valid}}
           batch == {[id |-> s, attempt |-> delivery[s].attempts + 1] : s \in valid}
           ids == {x.id : x \in worker[w].read}
           h == IF batch = {} THEN Idle ELSE [Idle EXCEPT !.step = "send", !.batch = batch]
<1>1. ReportsTyped /\ RowsTypedInBounds /\ WorkersFit
  BY TypesTogether DEF ReportTypes
<1>2. worker[w].read \in SUBSET Readings
  BY <1>1 DEF WorkersFit, ReportHoldings
<1>3. /\ \A s \in valid : s \in Shares /\ delivery[s].attempts < MaxAttempts
      /\ ids \subseteq Shares
  BY <1>2 DEF Readings, ReportTypes, ReadsWithinBound
<1>4. batch \in SUBSET Claims
  BY <1>1, <1>3, Limits, RowStates DEF Claims, RowsTypedInBounds
<1>5. h \in ReportHoldings /\ h.read = {}
  <2>1. [Idle EXCEPT !.step = "send", !.batch = batch] \in ReportHoldings
        /\ [Idle EXCEPT !.step = "send", !.batch = batch].read = {}
    BY <1>4 DEF Idle, ReportHoldings, ReportSteps
  <2> QED
    BY <2>1, IdleFits
<1>6. /\ delivery' = [s \in Shares |-> IF s \in ids THEN Reclaimed(s, s \in valid) ELSE delivery[s]]
      /\ worker' = [worker EXCEPT ![w] = h]
      /\ UNCHANGED <<scan, site, requests, share, candidate, faults>>
  BY DEF ClaimCommits
<1>7. \A v \in Workers : v # w => \A x \in worker[v].read : x.id \notin ids
  BY DEF ReportTypes, LocksAreExclusive
<1> HIDE DEF valid, batch, ids, h
<1>8. ASSUME NEW s \in Shares PROVE RowFits(delivery'[s])
  <2>1. RowFits(delivery[s])
    BY <1>1 DEF RowsTypedInBounds
  <2>2. CASE s \in ids /\ s \in valid
    <3>1. delivery'[s] = [delivery[s] EXCEPT !.status = "sending", !.leased = TRUE, !.attempts = @ + 1]
      BY <1>6, <2>2 DEF Reclaimed
    <3> QED
      BY <1>3, <2>1, <2>2, <3>1, ClaimedFits
  <2>3. CASE s \in ids /\ s \notin valid
    <3>1. delivery'[s] = [delivery[s] EXCEPT !.status = "cancelled", !.leased = FALSE]
      BY <1>6, <2>3 DEF Reclaimed
    <3> QED
      BY <2>1, <3>1, Fitting
  <2>4. CASE s \notin ids
    BY <1>6, <2>1, <2>4
  <2> QED
    BY <2>2, <2>3, <2>4
<1>9. RowsTypedInBounds'
  BY <1>6, <1>8 DEF RowsTypedInBounds, RowFits
<1>10. \A v \in Workers : worker'[v].read = IF v = w THEN {} ELSE worker[v].read
  BY <1>1, <1>5, <1>6 DEF WorkersFit
<1>11. LocksAreExclusive'
  BY <1>10 DEF ReportTypes, LocksAreExclusive
<1>12. ReadsWithinBound'
  <2> SUFFICES ASSUME NEW v \in Workers, NEW x \in worker'[v].read, x.valid
               PROVE  delivery'[x.id].attempts < MaxAttempts
    BY DEF ReadsWithinBound
  <2>1. v # w /\ x \in worker[v].read
    BY <1>10
  <2>2. x.id \in Shares /\ delivery[x.id].attempts < MaxAttempts
    BY <1>1, <2>1 DEF WorkersFit, ReportHoldings, Readings, ReportTypes, ReadsWithinBound
  <2> QED
    BY <1>6, <1>7, <2>1, <2>2
<1>13. TypeOK'
  BY <1>1, <1>5, <1>6, <1>9 DEF TypeOK, ReportsTyped, RowsTypedInBounds, WorkersFit, RowFits,
     ReportHoldings, ReportSteps
<1> QED
  BY <1>11, <1>12, <1>13 DEF ReportTypes

\* A process that goes on leaves the rest alone.
LEMMA HoldingTypes ==
  ASSUME ReportTypes, NEW w \in Workers, NEW h \in ReportHoldings,
         worker' = [worker EXCEPT ![w] = h], h.read = {} \/ h.read = worker[w].read,
         UNCHANGED <<scan, site, requests, share, candidate>>, faults' \in 0..MaxFaults,
         RowsTypedInBounds', \A s \in Shares : delivery'[s].attempts = delivery[s].attempts
  PROVE  ReportTypes'
<1>1. ReportsTyped /\ WorkersFit
  BY TypesTogether DEF ReportTypes
<1>2. ReportsTyped' /\ WorkersFit'
  BY <1>1 DEF ReportsTyped, WorkersFit
<1>3. \A v \in Workers : worker'[v].read = {} \/ worker'[v].read = worker[v].read
  BY <1>1 DEF WorkersFit
<1> QED
  BY <1>2, <1>3, TypesKept

LEMMA ProcessTypes ==
  ASSUME ReportTypes, NEW w \in Workers,
         \/ \E c \in worker[w].batch, returned \in BOOLEAN : Send(w, c, returned)
         \/ \E c \in worker[w].now : Mark(w, c)
         \/ Abandon(w)
  PROVE  ReportTypes'
<1>1. ReportsTyped /\ RowsTypedInBounds /\ worker[w] \in ReportHoldings
  BY TypesTogether DEF ReportTypes, WorkersFit
<1>2. ASSUME NEW c \in worker[w].batch, NEW returned \in BOOLEAN, Send(w, c, returned)
      PROVE  ReportTypes'
  <2> DEFINE step == IF returned THEN "mark" ELSE "retry"
             h == [worker[w] EXCEPT !.step = step, !.batch = worker[w].batch \ {c}, !.now = {c}]
  <2>1. worker' = [worker EXCEPT ![w] = h] /\ UNCHANGED <<scan, site, requests, share, candidate>>
        /\ faults' = faults /\ delivery' = delivery
    BY <1>2 DEF Send
  <2>2. step \in ReportSteps
    BY DEF ReportSteps
  <2> HIDE DEF step
  <2>3. h \in ReportHoldings /\ h.read = worker[w].read
    BY <1>1, <1>2, <2>2 DEF ReportHoldings
  <2> HIDE DEF h
  <2>4. RowsTypedInBounds' /\ faults' \in 0..MaxFaults
    BY <1>1, <2>1 DEF RowsTypedInBounds, ReportsTyped
  <2> QED
    BY <2>1, <2>3, <2>4, HoldingTypes
<1>3. ASSUME NEW c \in worker[w].now, Mark(w, c)
      PROVE  ReportTypes'
  <2>1. /\ worker' = [worker EXCEPT ![w] = Rest(w)]
        /\ UNCHANGED <<scan, site, requests, share, candidate>> /\ faults' = faults
        /\ \/ delivery' = delivery
           \/ delivery' = [delivery EXCEPT ![c.id] = SentRow(delivery[c.id])]
           \/ delivery' = [delivery EXCEPT ![c.id] = AgainLater(delivery[c.id])]
    BY <1>3 DEF Mark
  <2>2. Rest(w) \in ReportHoldings /\ (Rest(w).read = {} \/ Rest(w).read = worker[w].read)
    <3>1. [worker[w] EXCEPT !.step = "send", !.now = {}] \in ReportHoldings
          /\ [worker[w] EXCEPT !.step = "send", !.now = {}].read = worker[w].read
      BY <1>1 DEF ReportHoldings, ReportSteps
    <3> QED
      BY <3>1, IdleFits DEF Rest
  <2>3. c.id \in Shares /\ RowFits(delivery[c.id]) /\ delivery[c.id] \in Row
    BY <1>1, <1>3 DEF ReportHoldings, Claims, RowsTypedInBounds
  <2>4. RowsTypedInBounds' /\ \A s \in Shares : delivery'[s].attempts = delivery[s].attempts
    <3>1. ASSUME NEW e, RowFits(e), e.attempts = delivery[c.id].attempts,
                 delivery' = delivery \/ delivery' = [delivery EXCEPT ![c.id] = e]
          PROVE  RowsTypedInBounds' /\ \A s \in Shares : delivery'[s].attempts = delivery[s].attempts
      <4>1. ASSUME NEW t \in Shares
            PROVE  delivery'[t] = delivery[t] \/ (t = c.id /\ delivery'[t] = e)
        BY <1>1, <2>3, <3>1 DEF RowsTypedInBounds
      <4> QED
        BY <1>1, <2>3, <3>1, <4>1, OneRowChanges
    <3>2. /\ RowFits(SentRow(delivery[c.id])) /\ RowFits(AgainLater(delivery[c.id]))
          /\ SentRow(delivery[c.id]).attempts = delivery[c.id].attempts
          /\ AgainLater(delivery[c.id]).attempts = delivery[c.id].attempts
      BY <2>3, Fitting, CountsStay
    <3> QED
      BY <2>1, <3>1, <3>2, Zenon
  <2>5. faults' \in 0..MaxFaults
    BY <1>1, <2>1 DEF ReportsTyped
  <2> QED
    BY <2>1, <2>2, <2>4, <2>5, HoldingTypes
<1>4. CASE Abandon(w)
  <2>1. /\ worker' = [worker EXCEPT ![w] = Idle] /\ faults' = faults + 1 /\ faults < MaxFaults
        /\ UNCHANGED <<scan, site, requests, share, candidate>> /\ delivery' = delivery
    BY <1>4 DEF Abandon
  <2>2. RowsTypedInBounds' /\ faults' \in 0..MaxFaults
    BY <1>1, <2>1, Limits DEF RowsTypedInBounds, ReportsTyped
  <2> QED
    BY <2>1, <2>2, IdleFits, HoldingTypes
<1> QED
  BY <1>2, <1>3, <1>4

LEMMA ReportTypesStart == Init => ReportTypes
<1> SUFFICES ASSUME Init PROVE ReportTypes
  OBVIOUS
<1>1. ReportsTyped /\ RowsTypedInBounds /\ WorkersFit
  <2>1. ReportsTyped
    <3>1. 0 \in 0..MaxFaults
      BY Limits
    <3>2. share \in [Shares -> {"none", "active", "expired", "revoked", "gone"}]
      BY DEF Init
    <3>3. FALSE \in BOOLEAN
      OBVIOUS
    <3> QED
      BY <3>1, <3>2, <3>3, Zenon DEF Init, ReportsTyped
  <2>2. RowFits(NoRow) /\ NoRow \in Row /\ delivery = [s \in Shares |-> NoRow]
    BY FirstFit DEF Init, RowFits
  <2>3. WorkersFit
    BY IdleFits DEF Init, WorkersFit
  <2>4. RowsTypedInBounds
    BY <2>2 DEF RowsTypedInBounds
  <2> QED
    BY <2>1, <2>3, <2>4
<1>2. \A w \in Workers : worker[w].read = {}
  BY IdleFits DEF Init
<1> QED
  BY <1>1, <1>2, TypesTogether DEF ReportTypes, ReadsWithinBound, LocksAreExclusive

LEMMA ReportTypesStep ==
  ASSUME ReportTypes, [Next]_vars
  PROVE  ReportTypes'
<1>1. CASE UNCHANGED vars
  BY <1>1 DEF vars, ReportTypes, TypeOK, ReadsWithinBound, LocksAreExclusive
<1>2. CASE Next
  BY <1>2, WebTypes, RetentionTypes, PassingTypes, ClaimReadsTypes, ClaimCommitsTypes, ProcessTypes
  DEF Next, Dispatch, Passing
<1> QED
  BY <1>1, <1>2

---------------------------------------------------------------------------
(* The types of the matches.  A match or a declaration hangs on an         *)
(* observation that exists; each review was an action of a reader.         *)

Seen == {M!Gone} \cup [site : Sites, version : M!Versions \cup {M!None}]
Matched == {M!None, "potential", "confirmed"}
Said == {"not_applicable", "potential", "confirmed"}
Tasks == [todo: Seq(M!Ids), read: SUBSET Said]
OneAtMost(S) == S = {} \/ \E x : S = {x}

MatchRows ==
  /\ observation \in [M!Ids -> Seen]
  /\ match \in [M!Ids -> Matched]
  /\ declared \in [M!Ids -> M!Versions \cup {M!None}]
  /\ advisory \in [rule : {"none", "old", "all"}, exploited : BOOLEAN]
HangOnObservations ==
  \A i \in M!Ids : match[i] # M!None \/ declared[i] # M!None => observation[i] # M!Gone
FutureIsEmpty == scans \in Nat /\ \A i \in M!Ids : i > scans => observation[i] = M!Gone
Correlators ==
  /\ correlator \in [Workers -> Tasks]
  /\ \A w \in Workers : /\ OneAtMost(correlator[w].read)
                        /\ correlator[w].read # {} => correlator[w].todo # <<>>
ReviewsCounted ==
  /\ acts \in Nat /\ OneAtMost(decision)
  /\ IsFiniteSet(reviews) /\ Cardinality(reviews) + Cardinality(decision) <= acts
MatchTypes == MatchRows /\ HangOnObservations /\ FutureIsEmpty /\ Correlators /\ ReviewsCounted

LEMMA IdsFinite == IsFiniteSet(M!Ids) /\ M!Ids = 1..MaxScans
BY Limits, FS_Interval DEF M!Ids

LEMMA CardinalityOfMatches == \A S : M!Cardinality(S) = Cardinality(S)
BY DEF Cardinality, M!Cardinality

LEMMA OneCounted ==
  ASSUME NEW S, OneAtMost(S)
  PROVE  IsFiniteSet(S) /\ Cardinality(S) \in Nat /\ Cardinality(S) <= 1
         /\ (S # {} => Cardinality(S) = 1)
<1>1. CASE S = {}
  BY <1>1, FS_EmptySet
<1>2. ASSUME NEW x, S = {x} PROVE IsFiniteSet(S) /\ Cardinality(S) = 1
  BY <1>2, FS_Singleton
<1> QED
  BY <1>1, <1>2 DEF OneAtMost

LEMMA MatchTypesHold == MatchTypes => M!TypeOK
<1> SUFFICES ASSUME MatchTypes PROVE M!TypeOK
  OBVIOUS
<1>1. \A w \in Workers : correlator[w].todo \in Seq(M!Ids) /\ Cardinality(correlator[w].read) <= 1
  BY OneCounted DEF MatchTypes, Correlators, Tasks
<1>2. Cardinality(decision) <= 1 /\ Cardinality(reviews) <= acts
  <2>1. Cardinality(decision) \in Nat /\ Cardinality(decision) <= 1
    BY OneCounted DEF MatchTypes, ReviewsCounted
  <2>2. Cardinality(reviews) \in Nat
    BY FS_CardinalityType DEF MatchTypes, ReviewsCounted
  <2> QED
    BY <2>1, <2>2 DEF MatchTypes, ReviewsCounted
<1> QED
  BY <1>1, <1>2, CardinalityOfMatches
  DEF MatchTypes, MatchRows, HangOnObservations, M!TypeOK, M!Exists, Seen, Matched

\* The steps that leave the readers' reviews alone.
LEMMA ReviewsStay ==
  ASSUME MatchTypes, UNCHANGED <<reviews, decision>>, acts' = acts \/ acts' = acts + 1
  PROVE  ReviewsCounted'
<1>1. Cardinality(decision) \in Nat /\ Cardinality(reviews) \in Nat
  BY OneCounted, FS_CardinalityType DEF MatchTypes, ReviewsCounted
<1> QED
  BY <1>1 DEF MatchTypes, ReviewsCounted

LEMMA ScanTypes ==
  ASSUME MatchTypes, NEW w \in Workers, M!CompleteScan(w)
  PROVE  MatchTypes'
<1>1. scans \in Nat /\ scans' = scans + 1 /\ scans' \in M!Ids
  BY Limits DEF M!CompleteScan, MatchTypes, FutureIsEmpty, M!Ids
<1>2. PICK s \in Sites, v \in M!Versions \cup {M!None} :
        observation' = [observation EXCEPT ![scans'] = [site |-> s, version |-> v]]
  BY DEF M!CompleteScan
<1>3. UNCHANGED <<match, declared, advisory, reviews, decision, acts>>
      /\ correlator' = [correlator EXCEPT ![w].todo = <<scans'>>] /\ correlator[w] = M!Idle
  BY DEF M!CompleteScan, M!reviewing
<1>4. [site |-> s, version |-> v] \in Seen
  BY DEF Seen
<1>5. MatchRows'
  BY <1>1, <1>2, <1>3, <1>4 DEF MatchTypes, MatchRows
<1>6. observation[scans'] = M!Gone /\ \A i \in M!Ids : i # scans' => observation'[i] = observation[i]
  BY <1>1, <1>2 DEF MatchTypes, MatchRows, FutureIsEmpty, M!Ids
<1>7. HangOnObservations'
  BY <1>3, <1>6 DEF MatchTypes, HangOnObservations
<1>8. FutureIsEmpty'
  BY <1>1, <1>6 DEF MatchTypes, FutureIsEmpty, M!Ids
<1>9. Correlators'
  <2>1. <<scans'>> \in Seq(M!Ids) /\ <<scans'>> # <<>>
    BY <1>1
  <2>2. correlator[w] \in Tasks /\ correlator[w].read = {}
    <3>1. M!Idle.read = {}
      BY DEF M!Idle
    <3> QED
      BY <1>3, <3>1, Zenon DEF MatchTypes, Correlators
  <2>3. correlator' = [correlator EXCEPT ![w] = [correlator[w] EXCEPT !.todo = <<scans'>>]]
    BY <1>3
  <2>4. ASSUME NEW q \in Seq(M!Ids)
        PROVE  [correlator[w] EXCEPT !.todo = q] \in Tasks /\ [correlator[w] EXCEPT !.todo = q].read = {}
    BY <2>2 DEF Tasks
  <2> QED
    BY <2>1, <2>3, <2>4 DEF MatchTypes, Correlators, OneAtMost
<1> QED
  BY <1>3, <1>5, <1>7, <1>8, <1>9, ReviewsStay DEF MatchTypes

\* A reconciliation that goes on, and leaves the rest alone.
LEMMA TaskTypes ==
  ASSUME MatchTypes, NEW w \in Workers, NEW q \in Seq(M!Ids), NEW S \in SUBSET Said,
         correlator' = [correlator EXCEPT ![w] = [todo |-> q, read |-> S]],
         OneAtMost(S), S # {} => q # <<>>
  PROVE  Correlators'
<1> DEFINE h == [todo |-> q, read |-> S]
<1>1. h \in Tasks /\ h.todo = q /\ h.read = S
  BY DEF Tasks
<1>2. correlator' = [correlator EXCEPT ![w] = h]
  OBVIOUS
<1> HIDE DEF h
<1> QED
  BY <1>1, <1>2 DEF MatchTypes, Correlators

LEMMA CorrelatingTypes ==
  ASSUME MatchTypes, NEW w \in Workers, M!Begin(w) \/ M!Read(w) \/ M!Fail(w)
  PROVE  MatchTypes'
<1>1. UNCHANGED <<observation, match, declared, advisory, reviews, decision, scans, acts>>
  BY DEF M!Begin, M!Read, M!Fail, M!rows, M!reviewing, M!counters
<1>2. MatchRows' /\ HangOnObservations' /\ FutureIsEmpty'
  BY <1>1 DEF MatchTypes, MatchRows, HangOnObservations, FutureIsEmpty
<1>3. Correlators' => MatchTypes'
  BY <1>1, <1>2, ReviewsStay DEF MatchTypes
<1>4. correlator[w] \in Tasks /\ correlator[w].todo \in Seq(M!Ids)
      /\ correlator[w] = [todo |-> correlator[w].todo, read |-> correlator[w].read]
  BY DEF MatchTypes, Correlators, Tasks
<1>5. <<>> \in Seq(M!Ids) /\ {} \in SUBSET Said
  OBVIOUS
<1>6. CASE M!Begin(w)
  <2>1. PICK todo \in [1..Cardinality(M!Current) -> M!Current] :
          correlator' = [correlator EXCEPT ![w].todo = todo]
    BY <1>6, CardinalityOfMatches, Zenon DEF M!Begin
  <2>2. M!Current \subseteq M!Ids /\ Cardinality(M!Current) \in Nat
    BY IdsFinite, FS_Subset, FS_CardinalityType DEF M!Current
  <2>3. todo \in Seq(M!Ids)
    BY <2>2
  <2>4. correlator[w].read = {}
    BY <1>6 DEF M!Begin, M!Idle
  <2>5. correlator' = [correlator EXCEPT ![w] = [todo |-> todo, read |-> {}]]
    <3>1. ASSUME NEW q
          PROVE  [correlator[w] EXCEPT !.todo = q] = [todo |-> q, read |-> correlator[w].read]
      BY <1>4 DEF Tasks
    <3> QED
      BY <2>1, <2>4, <3>1
  <2> QED
    BY <1>3, <1>5, <2>3, <2>5, TaskTypes DEF OneAtMost
<1>7. CASE M!Read(w)
  <2> DEFINE i == Head(correlator[w].todo)
             status == M!Status(advisory.rule, observation[i].version)
  <2>1. correlator[w].todo # <<>> /\ correlator[w].read = {}
    BY <1>7 DEF M!Read
  <2>2. \/ correlator' = [correlator EXCEPT ![w] = [correlator[w] EXCEPT !.read = {status}]]
        \/ correlator' = [correlator EXCEPT ![w] =
                            [correlator[w] EXCEPT !.todo = Tail(correlator[w].todo)]]
    BY <1>7 DEF M!Read
  <2>3. status \in Said /\ Tail(correlator[w].todo) \in Seq(M!Ids)
    BY <1>4, <2>1 DEF M!Status, Said
  <2> HIDE DEF status
  <2>4. \/ correlator' = [correlator EXCEPT ![w] = [todo |-> correlator[w].todo, read |-> {status}]]
        \/ correlator' = [correlator EXCEPT ![w] = [todo |-> Tail(correlator[w].todo), read |-> {}]]
    <3>1. ASSUME NEW S
          PROVE  [correlator[w] EXCEPT !.read = S] = [todo |-> correlator[w].todo, read |-> S]
      BY <1>4 DEF Tasks
    <3>2. ASSUME NEW q
          PROVE  [correlator[w] EXCEPT !.todo = q] = [todo |-> q, read |-> correlator[w].read]
      BY <1>4 DEF Tasks
    <3> QED
      BY <2>1, <2>2, <3>1, <3>2
  <2>5. {status} \in SUBSET Said /\ OneAtMost({status}) /\ OneAtMost({})
    BY <2>3 DEF OneAtMost
  <2> QED
    BY <1>3, <1>4, <1>5, <2>1, <2>3, <2>4, <2>5, TaskTypes
<1>8. CASE M!Fail(w)
  BY <1>3, <1>5, <1>8, TaskTypes DEF M!Fail, M!Idle, OneAtMost
<1> QED
  BY <1>6, <1>7, <1>8

LEMMA WriteTypes ==
  ASSUME MatchTypes, NEW w \in Workers, M!Write(w)
  PROVE  MatchTypes'
<1>1. PICK status \in correlator[w].read :
        LET i == Head(correlator[w].todo)
            refused == ~M!Exists(i) /\ status # "not_applicable"
        IN  /\ match' = [match EXCEPT ![i] = IF M!Exists(i) THEN M!Stored(status, @) ELSE M!None]
            /\ correlator' = [correlator EXCEPT ![w] =
                 IF refused THEN M!Idle ELSE [todo |-> Tail(@.todo), read |-> {}]]
  BY DEF M!Write
<1> DEFINE i == Head(correlator[w].todo)
           left == IF M!Exists(i) THEN M!Stored(status, match[i]) ELSE M!None
<1>2. /\ correlator[w].todo \in Seq(M!Ids) /\ correlator[w].todo # <<>>
      /\ status \in Said
  BY DEF MatchTypes, Correlators, Tasks
<1>3. i \in M!Ids /\ Tail(correlator[w].todo) \in Seq(M!Ids)
  BY <1>2
<1>4. UNCHANGED <<observation, declared, advisory, reviews, decision, scans, acts>>
  BY DEF M!Write, M!reviewing, M!counters
<1>5. left \in Matched /\ (left # M!None => observation[i] # M!Gone)
  BY <1>2 DEF M!Stored, M!Exists, Matched, Said
<1>6. match' = [match EXCEPT ![i] = left]
  BY <1>1
<1>7. \/ correlator' = [correlator EXCEPT ![w] = M!Idle]
      \/ correlator' = [correlator EXCEPT ![w] = [todo |-> Tail(correlator[w].todo), read |-> {}]]
  BY <1>1
<1> HIDE DEF i, left
<1>8. MatchRows' /\ HangOnObservations' /\ FutureIsEmpty'
  BY <1>3, <1>4, <1>5, <1>6 DEF MatchTypes, MatchRows, HangOnObservations, FutureIsEmpty
<1>9. <<>> \in Seq(M!Ids) /\ {} \in SUBSET Said /\ OneAtMost({})
  BY DEF OneAtMost
<1>10. Correlators'
  BY <1>3, <1>7, <1>9, TaskTypes DEF M!Idle
<1> QED
  BY <1>4, <1>8, <1>10, ReviewsStay DEF MatchTypes

LEMMA CatalogueTypes ==
  ASSUME MatchTypes, M!Import \/ \E i \in M!Ids : M!DeleteScan(i) \/ M!Declare(i)
  PROVE  MatchTypes'
<1>1. UNCHANGED <<correlator, reviews, decision, scans>> /\ (acts' = acts \/ acts' = acts + 1)
  BY DEF M!Import, M!DeleteScan, M!Declare, M!rows, M!reviewing, M!counters, M!Act
<1>2. Correlators' /\ ReviewsCounted'
  BY <1>1, ReviewsStay DEF MatchTypes, Correlators
<1>3. CASE M!Import
  <2>1. UNCHANGED <<observation, match, declared>>
        /\ advisory' \in [rule : {"none", "old", "all"}, exploited : BOOLEAN]
    BY <1>3 DEF M!Import, M!rows
  <2> QED
    BY <1>1, <1>2, <2>1 DEF MatchTypes, MatchRows, HangOnObservations, FutureIsEmpty
<1>4. ASSUME NEW i \in M!Ids, M!DeleteScan(i) PROVE MatchTypes'
  <2>1. /\ observation' = [observation EXCEPT ![i] = M!Gone]
        /\ match' = [match EXCEPT ![i] = M!None] /\ declared' = [declared EXCEPT ![i] = M!None]
        /\ advisory' = advisory
    BY <1>4 DEF M!DeleteScan
  <2>2. M!Gone \in Seen /\ M!None \in Matched
    BY DEF Seen, Matched
  <2>3. MatchRows'
    BY <2>1, <2>2 DEF MatchTypes, MatchRows
  <2>4. HangOnObservations' /\ FutureIsEmpty'
    BY <1>1, <2>1 DEF MatchTypes, MatchRows, HangOnObservations, FutureIsEmpty
  <2> QED
    BY <1>2, <2>3, <2>4 DEF MatchTypes
<1>5. ASSUME NEW i \in M!Ids, M!Declare(i) PROVE MatchTypes'
  <2>1. UNCHANGED <<observation, match, advisory>> /\ observation[i] # M!Gone
        /\ \E v \in M!Versions \cup {M!None} : declared' = [declared EXCEPT ![i] = v]
    BY <1>5 DEF M!Declare, M!IsLatest, M!Exists
  <2>2. MatchRows' /\ HangOnObservations' /\ FutureIsEmpty'
    BY <1>1, <2>1 DEF MatchTypes, MatchRows, HangOnObservations, FutureIsEmpty
  <2> QED
    BY <1>2, <2>2 DEF MatchTypes
<1> QED
  BY <1>3, <1>4, <1>5

LEMMA ReaderTypes ==
  ASSUME MatchTypes, M!Settle \/ \E i \in M!Ids : M!Decide(i)
  PROVE  MatchTypes'
<1>1. UNCHANGED <<observation, match, declared, advisory, correlator, scans>>
  BY DEF M!Settle, M!Decide, M!rows, M!counters
<1>2. MatchRows' /\ HangOnObservations' /\ FutureIsEmpty' /\ Correlators'
  BY <1>1 DEF MatchTypes, MatchRows, HangOnObservations, FutureIsEmpty, Correlators
<1>3. Cardinality(reviews) \in Nat /\ IsFiniteSet(reviews) /\ acts \in Nat
      /\ Cardinality(reviews) + Cardinality(decision) <= acts
  BY FS_CardinalityType DEF MatchTypes, ReviewsCounted
<1>4. CASE \E i \in M!Ids : M!Decide(i)
  <2>1. decision = {} /\ (\E d : decision' = {d}) /\ reviews' = reviews /\ acts' = acts + 1
    BY <1>4 DEF M!Decide, M!Act
  <2>2. Cardinality(decision) = 0 /\ Cardinality(decision') = 1
    BY <2>1, FS_EmptySet, FS_Singleton
  <2> QED
    BY <1>2, <1>3, <2>1, <2>2 DEF MatchTypes, ReviewsCounted, OneAtMost
<1>5. CASE M!Settle
  <2>1. decision' = {} /\ acts' = acts
    BY <1>5 DEF M!Settle, M!counters
  <2>2. PICK x : reviews' = reviews \cup {x} \/ reviews' = reviews \ {x}
    BY <1>5 DEF M!Settle
  <2>3. Cardinality(decision) = 1
    <3>1. decision # {}
      BY <1>5 DEF M!Settle
    <3> QED
      BY <3>1, OneCounted DEF MatchTypes, ReviewsCounted
  <2>4. IsFiniteSet(reviews') /\ Cardinality(reviews') <= Cardinality(reviews) + 1
        /\ Cardinality(reviews') \in Nat
    <3>1. CASE reviews' = reviews \cup {x}
      <4>1. /\ IsFiniteSet(reviews \cup {x})
            /\ \/ Cardinality(reviews \cup {x}) = Cardinality(reviews)
               \/ Cardinality(reviews \cup {x}) = Cardinality(reviews) + 1
        BY <1>3, FS_AddElement
      <4> QED
        BY <1>3, <3>1, <4>1
    <3>2. CASE reviews' = reviews \ {x}
      <4>1. IsFiniteSet(reviews') /\ Cardinality(reviews') \in Nat
        BY <1>3, <3>2, FS_Subset, FS_CardinalityType
      <4>2. Cardinality(reviews') <= Cardinality(reviews)
        BY <1>3, <3>2, FS_Subset
      <4> QED
        BY <1>3, <4>1, <4>2
    <3> QED
      BY <2>2, <3>1, <3>2
  <2>5. Cardinality(decision') = 0
    BY <2>1, FS_EmptySet
  <2> QED
    BY <1>2, <1>3, <2>1, <2>3, <2>4, <2>5 DEF MatchTypes, ReviewsCounted, OneAtMost
<1> QED
  BY <1>4, <1>5

LEMMA MatchTypesStart == M!Init => MatchTypes
<1> SUFFICES ASSUME M!Init PROVE MatchTypes
  OBVIOUS
<1>1. MatchRows
  <2>1. M!Gone \in Seen /\ M!None \in Matched
    BY DEF Seen, Matched
  <2>2. advisory \in [rule : {"none", "old", "all"}, exploited : BOOLEAN]
    BY DEF M!Init
  <2> QED
    BY <2>1, <2>2 DEF M!Init, MatchRows
<1>2. HangOnObservations /\ FutureIsEmpty
  BY DEF M!Init, HangOnObservations, FutureIsEmpty
<1>3. Correlators
  <2>1. M!Idle \in Tasks /\ M!Idle.read = {}
    BY DEF M!Idle, Tasks
  <2> QED
    BY <2>1 DEF M!Init, Correlators, OneAtMost
<1>4. ReviewsCounted
  BY FS_EmptySet DEF M!Init, ReviewsCounted, OneAtMost
<1> QED
  BY <1>1, <1>2, <1>3, <1>4 DEF MatchTypes

LEMMA MatchTypesStep ==
  ASSUME MatchTypes, [M!Next]_matchVars
  PROVE  MatchTypes'
<1>1. CASE UNCHANGED matchVars
  BY <1>1 DEF matchVars, MatchTypes, MatchRows, HangOnObservations, FutureIsEmpty, Correlators,
     ReviewsCounted
<1>2. CASE M!Next
  BY <1>2, ScanTypes, CorrelatingTypes, WriteTypes, CatalogueTypes, ReaderTypes DEF M!Next
<1> QED
  BY <1>1, <1>2

---------------------------------------------------------------------------
(* The parts together.                                                     *)

LEMMA MailStarts == MailInit => AlertInv /\ ReportInv
BY AlertsStart, ReportsStart DEF MailInit

LEMMA MailSteps ==
  ASSUME AlertInv, ReportInv, [MailNext]_allVars
  PROVE  AlertInv' /\ ReportInv'
<1>1. [N!Next]_alertVars /\ [Next]_vars
  BY DEF MailNext, allVars, alertVars
<1> QED
  BY <1>1, AlertsStep, ReportsStep

LEMMA MailInvariant == MailSpec => [](AlertInv /\ ReportInv)
BY MailStarts, MailSteps, PTL DEF MailSpec

\* Among the reports and the other mail: no process sends or retries the
\* delivery of a share that was revoked meanwhile.
THEOREM MailRevocationsCancel == MailSpec => []RevokedIsCancelled
<1>1. ReportInv => RevokedIsCancelled
  BY DEF ReportInv
<1> QED
  BY <1>1, MailInvariant, PTL

\* However many processes claim, send, mark and lose their claims: an alert is
\* mailed at most once more than failures happened, and one that is marked as
\* sent was mailed.
THEOREM AlertsArePaid == MailSpec => []ExtraMailsArePaid
<1>1. ASSUME AlertInv PROVE ExtraMailsArePaid
  <2>1. ASSUME NEW d \in N!Ids PROVE mails[d] <= 1 + slips
    <3>1. mails[d] + Cardinality(Unsent(d)) + Chance(d) <= 1 + slips /\ mails[d] \in Nat /\ slips \in Nat
      BY <1>1, TypedAlerts DEF AlertInv, BudgetHolds
    <3>2. Cardinality(Unsent(d)) \in Nat /\ Chance(d) \in {0, 1}
      BY UnsentCounted DEF Chance
    <3> QED
      BY <3>1, <3>2
  <2> QED
    BY <1>1, <2>1 DEF ExtraMailsArePaid, N!ExtraMailsArePaid, AlertInv, RowsFit, SentWereMailed
<1> QED
  BY <1>1, MailInvariant, PTL

\* Whatever marks commit between the reads of a persistence: what is announced
\* as resolved was announced as worse by an earlier mail, and of one finding
\* at most one recovery waits for its mail.
THEOREM RecoveriesFollow == MailSpec => []RecoveriesAreOrdered
<1>1. AlertInv => RecoveriesAreOrdered
  BY DEF AlertInv, RowsFit, RecoveriesAreOrdered
<1> QED
  BY <1>1, MailInvariant, PTL

\* The types of all parts: however many processes claim a delivery of a report
\* at once, its attempts stay within their bound and only what is being sent
\* has a lease; a match and a declared version always hang on an observation
\* that exists, and every stored review was an action of a reader.
THEOREM MailTypesCorrect == MailSpec => []MailTypeOK
<1>1. MailInit => AlertInv /\ ReportTypes /\ MatchTypes
  BY AlertsStart, ReportTypesStart, MatchTypesStart DEF MailInit
<1>2. ASSUME AlertInv, ReportTypes, MatchTypes, [MailNext]_allVars
      PROVE  AlertInv' /\ ReportTypes' /\ MatchTypes'
  <2>1. [N!Next]_alertVars /\ [Next]_vars /\ [M!Next]_matchVars
    BY <1>2 DEF MailNext, allVars, alertVars
  <2> QED
    BY <1>2, <2>1, AlertsStep, ReportTypesStep, MatchTypesStep
<1>3. AlertInv /\ ReportTypes /\ MatchTypes => MailTypeOK
  BY MatchTypesHold DEF AlertInv, ReportTypes, MailTypeOK
<1> QED
  BY <1>1, <1>2, <1>3, PTL DEF MailSpec
=============================================================================
