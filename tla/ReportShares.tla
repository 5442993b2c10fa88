---------------------------- MODULE ReportShares ----------------------------
(***************************************************************************)
(* The links by which an organization shares the report of one completed   *)
(* scan, and the mails that carry them.  A share expires and may be        *)
(* revoked; delivery processes claim the mails and send them; retention    *)
(* removes an old public audit nobody shares any more.                     *)
(***************************************************************************)
EXTENDS Naturals, FiniteSets

CONSTANTS Workers,      \* processes that run the report delivery coordinator
          Shares,       \* shares of the scan, each with at most one delivery
          MaxAttempts,  \* bound: claims of a delivery while its share is valid
          MaxFaults     \* bound: crashes and leases that end too soon

VARIABLES scan,         \* "completed", or "purged" by retention or deletion
          site,         \* whether the site is active and verified
          requests,     \* calls that passed the eligibility check
          share,        \* rows of report_shares
          delivery,     \* rows of report_deliveries
          worker,       \* what each process holds
          candidate,    \* retention has listed the scan
          faults

vars == <<scan, site, requests, share, delivery, worker, candidate, faults>>

Open == {"pending", "sending"}
Row == [status: {"none", "gone", "sent", "cancelled"} \cup Open,
        attempts: 0..MaxAttempts, due: BOOLEAN, leased: BOOLEAN]
NoRow == [status |-> "none", attempts |-> 0, due |-> FALSE, leased |-> FALSE]
FirstRow == [NoRow EXCEPT !.status = "pending", !.due = TRUE]
Claims == [id: Shares, attempt: 0..MaxAttempts]
Readings == [id: Shares, valid: BOOLEAN]
Requests == {"create", "email", "revoke"} \X Shares
Idle == [step |-> "idle", read |-> {}, batch |-> {}, now |-> {}]

Init ==
  /\ scan = "completed" /\ site \in BOOLEAN
  /\ requests = {}
  /\ share = [s \in Shares |-> "none"]
  /\ delivery = [s \in Shares |-> NoRow]
  /\ worker = [w \in Workers |-> Idle]
  /\ candidate = FALSE
  /\ faults = 0

---------------------------------------------------------------------------
\* The web application.

\* requireShareableCompletedScan, of a public audit: read before the
\* transaction by every call, revocation included.
Ask(r) ==
  /\ scan = "completed" /\ site
  /\ share[r[2]] = (IF r[1] = "revoke" THEN "active" ELSE "none")
  /\ requests' = requests \cup {r}
  /\ UNCHANGED <<scan, site, share, delivery, worker, candidate, faults>>

\* createReportShare and queueReportEmail.  The advisory lock of the scan is
\* retention's too; a scan that is gone fails the foreign key.
CreateShare(r) ==
  /\ r \in requests /\ r[1] \in {"create", "email"} /\ share[r[2]] = "none"
  /\ requests' = requests \ {r}
  /\ IF scan = "purged" THEN UNCHANGED <<share, delivery>>
     ELSE /\ share' = [share EXCEPT ![r[2]] = "active"]
          /\ delivery' = IF r[1] = "create" THEN delivery
                         ELSE [delivery EXCEPT ![r[2]] = FirstRow]
  /\ UNCHANGED <<scan, site, worker, candidate, faults>>

\* The rows a claim in progress has locked.
Locked(s) == \E w \in Workers : \E x \in worker[w].read : x.id = s

\* The delivery of a revoked share.  Mutated, one that is being sent is left
\* to the claim that follows.
CancelledIfPending(d) == IF d.status = "pending"
                         THEN [d EXCEPT !.status = "cancelled", !.leased = FALSE] ELSE d
CancelledIfOpen(d) == IF d.status \in Open
                      THEN [d EXCEPT !.status = "cancelled", !.leased = FALSE] ELSE d

\* revokeReportShare: share and delivery in one transaction, which waits for
\* the row a claim has locked.  An expired share can be revoked too.
RevokeShare(r) ==
  LET s == r[2]
  IN /\ r \in requests /\ r[1] = "revoke" /\ ~Locked(s)
     /\ requests' = requests \ {r}
     /\ share' = IF share[s] \in {"active", "expired"}
                 THEN [share EXCEPT ![s] = "revoked"] ELSE share
     /\ delivery' = IF share[s] \in {"active", "expired"}
                    THEN [delivery EXCEPT ![s] = CancelledIfOpen(@)] ELSE delivery
     /\ UNCHANGED <<scan, site, worker, candidate, faults>>

\* Seven days pass.
ShareExpires(s) ==
  /\ share[s] = "active" /\ share' = [share EXCEPT ![s] = "expired"]
  /\ UNCHANGED <<scan, site, requests, delivery, worker, candidate, faults>>

\* The site is paused, or loses and regains its verification.
SiteChanges ==
  /\ site' = ~site
  /\ UNCHANGED <<scan, requests, share, delivery, worker, candidate, faults>>

---------------------------------------------------------------------------
\* Retention lists old public audits, then looks again under the lock.

Shared == \E s \in Shares : share[s] = "active"
ListCandidate ==
  /\ scan = "completed" /\ ~candidate /\ ~Shared /\ candidate' = TRUE
  /\ UNCHANGED <<scan, site, requests, share, delivery, worker, faults>>

\* The scan's shares and deliveries go with it.
Cascade ==
  /\ scan' = "purged"
  /\ share' = [s \in Shares |-> IF share[s] = "none" THEN "none" ELSE "gone"]
  /\ delivery' = [s \in Shares |-> IF delivery[s].status = "none" THEN NoRow
                                   ELSE [NoRow EXCEPT !.status = "gone"]]
  /\ UNCHANGED <<site, requests, worker, faults>>

Unlocked == \A s \in Shares : ~Locked(s)
Purge ==
  /\ candidate /\ scan = "completed" /\ Unlocked
  /\ candidate' = FALSE
  /\ IF Shared THEN UNCHANGED <<scan, site, requests, share, delivery, worker, faults>>
     ELSE Cascade

\* The deletion of the site asks nobody.
DeleteSite ==
  /\ scan = "completed" /\ Unlocked /\ candidate' = FALSE /\ Cascade

---------------------------------------------------------------------------
\* The delivery coordinator.

\* Mutated, a claim does not ask whether the share has expired.
UsableUnlessRevoked(s) == share[s] \in {"active", "expired"} /\ scan = "completed"
Usable(s) == share[s] = "active" /\ scan = "completed"

\* A claim stays below its bound, except the one that cancels.
Due(s) == /\ \/ delivery[s].status = "pending" /\ delivery[s].due
             \/ delivery[s].status = "sending" /\ ~delivery[s].leased
          /\ delivery[s].attempts < MaxAttempts \/ ~Usable(s)
Claimable == {s \in Shares : Due(s) /\ ~Locked(s)}

\* claimDueReportDeliveries, its select: locks the rows nobody else has
\* locked and reads their shares, which it does not lock.
ClaimReads(w) ==
  /\ worker[w] = Idle /\ Claimable # {}
  /\ worker' = [worker EXCEPT ![w] = [Idle EXCEPT !.step = "read",
       !.read = {[id |-> s, valid |-> Usable(s)] : s \in Claimable}]]
  /\ UNCHANGED <<scan, site, requests, share, delivery, candidate, faults>>

\* Its updates, on the values read.
Reclaimed(s, valid) ==
  IF valid THEN [delivery[s] EXCEPT !.status = "sending", !.leased = TRUE,
                                    !.attempts = @ + 1]
  ELSE [delivery[s] EXCEPT !.status = "cancelled", !.leased = FALSE]
ClaimCommits(w) ==
  LET valid == {x.id : x \in {y \in worker[w].read : y.valid}}
      batch == {[id |-> s, attempt |-> delivery[s].attempts + 1] : s \in valid}
      ids == {x.id : x \in worker[w].read}
  IN /\ worker[w].step = "read"
     /\ delivery' = [s \in Shares |->
          IF s \in ids THEN Reclaimed(s, s \in valid) ELSE delivery[s]]
     /\ worker' = [worker EXCEPT ![w] =
          IF batch = {} THEN Idle ELSE [Idle EXCEPT !.step = "send", !.batch = batch]]
     /\ UNCHANGED <<scan, site, requests, share, candidate, faults>>

\* sendBrandedReportEmail: nothing is asked again, and its outcome is open.
Send(w, c, returned) ==
  /\ worker[w].step = "send" /\ c \in worker[w].batch
  /\ worker' = [worker EXCEPT ![w] = [worker[w] EXCEPT
       !.step = IF returned THEN "mark" ELSE "retry",
       !.batch = @ \ {c}, !.now = {c}]]
  /\ UNCHANGED <<scan, site, requests, share, delivery, candidate, faults>>

\* Both marks ask for the state the claim left.  Mutated, for its count alone.
SameClaim(c) == delivery[c.id].attempts = c.attempt
Fenced(c) == /\ delivery[c.id].status = "sending"
             /\ delivery[c.id].attempts = c.attempt
Rest(w) == IF worker[w].batch = {} THEN Idle
           ELSE [worker[w] EXCEPT !.step = "send", !.now = {}]
\* Mutated, the retry keeps the lease.
AgainLaterLeased(d) == [d EXCEPT !.status = "pending", !.due = FALSE]
SentRow(d) == [d EXCEPT !.status = "sent", !.leased = FALSE]
AgainLater(d) == [d EXCEPT !.status = "pending", !.due = FALSE, !.leased = FALSE]

\* markReportSent and markReportRetry, which wait for a lock on their row.
Mark(w, c) ==
  /\ worker[w].step \in {"mark", "retry"} /\ c \in worker[w].now /\ ~Locked(c.id)
  /\ delivery' = IF ~Fenced(c) THEN delivery
                 ELSE [delivery EXCEPT ![c.id] =
                         IF worker[w].step = "mark" THEN SentRow(@) ELSE AgainLater(@)]
  /\ worker' = [worker EXCEPT ![w] = Rest(w)]
  /\ UNCHANGED <<scan, site, requests, share, candidate, faults>>

\* The process dies, or a mark throws out of the loop.  Locks end with it.
Abandon(w) ==
  /\ worker[w] # Idle /\ faults < MaxFaults /\ faults' = faults + 1
  /\ worker' = [worker EXCEPT ![w] = Idle]
  /\ UNCHANGED <<scan, site, requests, share, delivery, candidate>>

LeaseEnds(s) ==
  /\ delivery[s].status = "sending" /\ delivery[s].leased
  /\ delivery' = [delivery EXCEPT ![s].leased = FALSE]
  /\ UNCHANGED <<scan, site, requests, share, worker, candidate, faults>>

BackoffEnds(s) ==
  /\ delivery[s].status = "pending" /\ ~delivery[s].due
  /\ delivery' = [delivery EXCEPT ![s].due = TRUE]
  /\ UNCHANGED <<scan, site, requests, share, worker, candidate, faults>>

---------------------------------------------------------------------------
Dispatch(w) ==
  \/ ClaimReads(w) \/ ClaimCommits(w)
  \/ \E c \in worker[w].batch, returned \in BOOLEAN : Send(w, c, returned)
  \/ \E c \in worker[w].now : Mark(w, c)

Passing == \E s \in Shares : ShareExpires(s) \/ LeaseEnds(s) \/ BackoffEnds(s)

Next ==
  \/ \E r \in Requests : Ask(r) \/ CreateShare(r) \/ RevokeShare(r)
  \/ SiteChanges \/ ListCandidate \/ Purge \/ DeleteSite
  \/ \E w \in Workers : Dispatch(w) \/ Abandon(w)
  \/ Passing

Spec == Init /\ [][Next]_vars

---------------------------------------------------------------------------
\* The types of all variables; only a delivery being sent has a lease.
TypeOK ==
  /\ scan \in {"completed", "purged"} /\ site \in BOOLEAN
  /\ requests \subseteq Requests
  /\ share \in [Shares -> {"none", "active", "expired", "revoked", "gone"}]
  /\ delivery \in [Shares -> Row]
  /\ \A s \in Shares : delivery[s].leased => delivery[s].status = "sending"
  /\ worker \in [Workers -> [step: {"idle", "read", "send", "mark", "retry"},
                             read: SUBSET Readings, batch: SUBSET Claims,
                             now: SUBSET Claims]]
  /\ candidate \in BOOLEAN /\ faults \in 0..MaxFaults

\* A revoked share has no delivery that may still be sent or retried,
\* whatever claim, mark or retry was under way when it was revoked.
RevokedIsCancelled ==
  \A s \in Shares : share[s] = "revoked" => delivery[s].status \notin Open

\* Every queued mail is sent or cancelled in the end, even one no transport
\* ever accepts: the retries end with the share.
ReportsSettle == []<>(\A s \in Shares : delivery[s].status \notin Open)

Fairness ==
  /\ \A w \in Workers : WF_vars(Dispatch(w))
  /\ WF_vars(Passing)
FairSpec == Spec /\ Fairness
=============================================================================
