--------------------------- MODULE Notifications ---------------------------
(***************************************************************************)
(* The alerts of one recipient on one site: a completed scan queues mails  *)
(* about what got worse and what was resolved; delivery processes claim    *)
(* them, send them and open or close the recipient's incidents in the      *)
(* transaction that marks a mail as sent.  A scan is identified by its     *)
(* rank among the completed scans of the site's mode, a delivery by its    *)
(* scan and its kind (the unique index notification_deliveries_scan_       *)
(* recipient_kind).  Several recipients are several copies of this module. *)
(***************************************************************************)
EXTENDS Naturals, FiniteSets, Sequences

CONSTANTS Workers,      \* processes that run the delivery coordinator
          Findings,     \* fingerprints
          Measured,     \* those of the performance analyzer
          Analyzed,     \* those of a V2 analyzer, Measured included
          Outcomes,     \* what a scan can find: [found, complete, version]
          Minimums,     \* minimum severities of the preferences, 0: disabled
          MaxScans,     \* bound: completed scans
          MaxFaults     \* bound: failures, crashes and leases that end too soon

VARIABLES done,         \* outcomes of the completed scans, in order
          persist,      \* the persistence of the next scan, between its reads
          delivery,     \* the rows of notification_deliveries
          incident,     \* the rows of recipient_finding_incidents
          minimum,      \* the recipient's preference
          worker,       \* what each process holds
          mails,        \* history: mails the transport accepted
          faults        \* failures so far

vars == <<done, persist, delivery, incident, minimum, worker, mails, faults>>

Absent == 0
Medium == 3             \* severityRank.medium, one more than in the code
Severities == 0..5
Numbers == 1..MaxScans
Ids == Numbers \X {"degradation", "recovery"}
NoIncident == [active |-> FALSE, opened |-> 0]
Row == [status: {"none", "pending", "sending", "sent", "gone"},
        attempts: Nat, due: BOOLEAN, leased: BOOLEAN, items: SUBSET Findings]
NoRow == [status |-> "none", attempts |-> 0, due |-> FALSE, leased |-> FALSE,
          items |-> {}]
Claims == [id: Ids, attempt: Nat]
Nobody == {}
Idle == [step |-> "idle", batch |-> Nobody, now |-> Nobody]
NoPersist == [step |-> "idle"]

Init ==
  /\ done = << >>
  /\ persist = NoPersist
  /\ delivery = [d \in Ids |-> NoRow]
  /\ incident = [f \in Findings |-> NoIncident]
  /\ minimum \in Minimums
  /\ worker = [w \in Workers |-> Idle]
  /\ mails = [d \in Ids |-> 0]
  /\ faults = 0

---------------------------------------------------------------------------
\* Which findings of two scans may be compared (scan-completeness.ts).

Covers(f, o) == f \in Analyzed => o.complete
SameMetrics(f, o, p) == f \in Measured => o.version = p.version

\* canResolveFindingFromSummary: the incident's finding is absent from o, and
\* o looked where p, the scan that opened the incident, had found it.
CanResolve(f, o, p) == Covers(f, o) /\ SameMetrics(f, o, p)
CanCompareMissing(f, o, p) == Covers(f, o) /\ Covers(f, p) /\ SameMetrics(f, o, p)

\* detectScanDegradations and the filters of persistScanCompletion.
New(f, o, p) ==
  p.found[f] = Absent /\ Covers(f, p) /\ CanCompareMissing(f, o, p)
Worsened(f, o, p) == p.found[f] # Absent /\ o.found[f] > p.found[f]
Degradations(o, p) ==
  {f \in Findings : /\ o.found[f] >= Medium
                    /\ SameMetrics(f, o, p)
                    /\ New(f, o, p) \/ Worsened(f, o, p)}

\* Fingerprints of the recoveries that still wait for their mail.  Mutated, a
\* recovery being sent is not outstanding any more.
OutstandingPending == UNION {delivery[d].items : d \in {e \in Ids :
  e[2] = "recovery" /\ delivery[e].status = "pending"}}
Outstanding == UNION {delivery[d].items : d \in {e \in Ids :
  e[2] = "recovery" /\ delivery[e].status \in {"pending", "sending"}}}

Queued(items) == [status |-> "pending", attempts |-> 0, due |-> TRUE,
                  leased |-> FALSE, items |-> items]

---------------------------------------------------------------------------
\* persistScanCompletion: the statements of its transaction see what others
\* commit between them.  Scans of a site are persisted one at a time.

Gone == \E d \in Ids : delivery[d].status = "gone"
\* The scan that opened each active incident, 0 where there is none.
ActiveIncidents ==
  [f \in Findings |-> IF incident[f].active THEN incident[f].opened ELSE 0]

\* The scan's results are written and the preference and the active incidents
\* are read.
PersistReads(o) ==
  /\ persist.step = "idle" /\ Len(done) < MaxScans /\ ~Gone
  /\ persist' = [step |-> "read", outcome |-> o, minimum |-> minimum,
                 active |-> ActiveIncidents]
  /\ UNCHANGED <<done, delivery, incident, minimum, worker, mails, faults>>

\* The outstanding recoveries are read, the deliveries inserted, the scan is
\* completed.  No previous scan means no degradation; a recipient whose
\* alerts are disabled is none.
PersistCommits ==
  LET n == Len(done) + 1
      o == persist.outcome
      worse == IF n = 1 THEN {}
               ELSE {f \in Degradations(o, done[n-1]) :
                       o.found[f] >= persist.minimum}
      resolved == {f \in Findings \ Outstanding :
                    /\ persist.active[f] > 0 /\ o.found[f] = Absent
                    /\ CanResolve(f, o, done[persist.active[f]])}
      rows == [x \in {"degradation", "recovery"} |->
                 IF x = "degradation" THEN worse ELSE resolved]
  IN /\ persist.step = "read"
     /\ done' = Append(done, o)
     /\ delivery' = [d \in Ids |->
          IF d[1] = n /\ persist.minimum > 0 /\ rows[d[2]] # {}
          THEN Queued(rows[d[2]]) ELSE delivery[d]]
     /\ persist' = NoPersist
     /\ UNCHANGED <<incident, minimum, worker, mails, faults>>

\* The transaction fails and the scan is retried or given up.
PersistAborts ==
  /\ persist.step = "read" /\ persist' = NoPersist
  /\ UNCHANGED <<done, delivery, incident, minimum, worker, mails, faults>>

\* setScanAlertPreferences.
SetPreference(m) ==
  /\ m # minimum /\ minimum' = m
  /\ UNCHANGED <<done, persist, delivery, incident, worker, mails, faults>>

\* The deletion of the site, which waits for its active scan, takes its
\* deliveries and incidents along (onDelete: cascade).
DeleteSite ==
  /\ persist.step = "idle" /\ ~Gone
  /\ \E d \in Ids : delivery[d].status # "none"
  /\ delivery' = [d \in Ids |-> [delivery[d] EXCEPT !.status = "gone"]]
  /\ incident' = [f \in Findings |-> NoIncident]
  /\ UNCHANGED <<done, persist, minimum, worker, mails, faults>>

---------------------------------------------------------------------------
\* The delivery coordinator.

\* Mutated, a row being sent may be claimed before its lease ended, or never.
DueOrSending(d) == \/ delivery[d].status = "pending" /\ delivery[d].due
                   \/ delivery[d].status = "sending"
DueAndPending(d) == delivery[d].status = "pending" /\ delivery[d].due
Due(d) == \/ delivery[d].status = "pending" /\ delivery[d].due
          \/ delivery[d].status = "sending" /\ ~delivery[d].leased
DueIds == {d \in Ids : Due(d)}

\* claimDueNotificationDeliveries: all due rows, fewer than a batch here.
Claim(w) ==
  /\ worker[w] = Idle /\ DueIds # {}
  /\ delivery' = [d \in Ids |->
       IF d \in DueIds
       THEN [delivery[d] EXCEPT !.status = "sending", !.leased = TRUE,
                                !.attempts = @ + 1]
       ELSE delivery[d]]
  /\ worker' = [worker EXCEPT ![w] = [step |-> "send", now |-> Nobody,
       batch |-> {[id |-> d, attempt |-> delivery[d].attempts + 1] : d \in DueIds}]]
  /\ UNCHANGED <<done, persist, incident, minimum, mails, faults>>

\* Mutated, an error of the sender is swallowed.
AfterSendSwallowed(returned) == "mark"
AfterSend(returned) == IF returned THEN "mark" ELSE "retry"

\* The sender's answer for the next delivery of the batch: whether a mail was
\* accepted, and whether the call returned or threw.
Send(w, c, accepted, returned) ==
  /\ worker[w].step = "send" /\ c \in worker[w].batch
  /\ returned => accepted
  /\ returned \/ faults < MaxFaults
  /\ faults' = IF returned THEN faults ELSE faults + 1
  /\ mails' = IF accepted THEN [mails EXCEPT ![c.id] = @ + 1] ELSE mails
  /\ worker' = [worker EXCEPT ![w] = [step |-> AfterSend(returned),
                                      batch |-> @.batch \ {c}, now |-> {c}]]
  /\ UNCHANGED <<done, persist, delivery, incident, minimum>>

\* Both marks address the row only in the state this claim left it.
Fenced(c) == /\ delivery[c.id].status = "sending"
             /\ delivery[c.id].attempts = c.attempt
Rest(w) == IF worker[w].batch = {} THEN Idle
           ELSE [step |-> "send", batch |-> worker[w].batch, now |-> Nobody]

\* markNotificationSent's effect on the incidents.
Marked(d) ==
  [f \in Findings |->
     IF f \notin delivery[d].items THEN incident[f]
     ELSE IF d[2] = "degradation" THEN [active |-> TRUE, opened |-> d[1]]
     ELSE [incident[f] EXCEPT !.active = FALSE]]

MarkSent(w, c) ==
  /\ worker[w].step = "mark" /\ c \in worker[w].now
  /\ IF Fenced(c)
     THEN /\ delivery' = [delivery EXCEPT ![c.id] =
               [@ EXCEPT !.status = "sent", !.leased = FALSE]]
          /\ incident' = Marked(c.id)
     ELSE UNCHANGED <<delivery, incident>>
  /\ worker' = [worker EXCEPT ![w] = Rest(w)]
  /\ UNCHANGED <<done, persist, minimum, mails, faults>>

\* The marking transaction fails: the catch of the same loop retries.
MarkFails(w) ==
  /\ worker[w].step = "mark" /\ faults < MaxFaults
  /\ faults' = faults + 1
  /\ worker' = [worker EXCEPT ![w].step = "retry"]
  /\ UNCHANGED <<done, persist, delivery, incident, minimum, mails>>

\* markNotificationRetry.
AgainLater(r) == [r EXCEPT !.status = "pending", !.due = FALSE, !.leased = FALSE]
MarkRetry(w, c) ==
  /\ worker[w].step = "retry" /\ c \in worker[w].now
  /\ delivery' = IF Fenced(c) THEN [delivery EXCEPT ![c.id] = AgainLater(@)]
                 ELSE delivery
  /\ worker' = [worker EXCEPT ![w] = Rest(w)]
  /\ UNCHANGED <<done, persist, incident, minimum, mails, faults>>

\* markNotificationRetry throws, out of the loop, or the process dies: the
\* rest of the batch is left to the end of its lease.
Abandon(w) ==
  /\ worker[w] # Idle /\ faults < MaxFaults
  /\ faults' = faults + 1
  /\ worker' = [worker EXCEPT ![w] = Idle]
  /\ UNCHANGED <<done, persist, delivery, incident, minimum, mails>>

\* Five minutes pass since the claim.  While its process still holds the
\* delivery, that is a failure of its own: a batch that takes too long.
Held(d) == \E w \in Workers : \E c \in worker[w].batch \cup worker[w].now :
             c.id = d /\ Fenced(c)
LeaseEnds(d) ==
  /\ delivery[d].status = "sending" /\ delivery[d].leased
  /\ Held(d) => faults < MaxFaults
  /\ faults' = IF Held(d) THEN faults + 1 ELSE faults
  /\ delivery' = [delivery EXCEPT ![d].leased = FALSE]
  /\ UNCHANGED <<done, persist, incident, minimum, worker, mails>>

\* The backoff of retryDelayMs passes.
BackoffEnds(d) ==
  /\ delivery[d].status = "pending" /\ ~delivery[d].due
  /\ delivery' = [delivery EXCEPT ![d].due = TRUE]
  /\ UNCHANGED <<done, persist, incident, minimum, worker, mails, faults>>

---------------------------------------------------------------------------
Dispatch(w) ==
  \/ Claim(w)
  \/ \E c \in worker[w].batch : Send(w, c, TRUE, TRUE)
  \/ \E c \in worker[w].now : MarkSent(w, c) \/ MarkRetry(w, c)

Fail(w) ==
  \/ \E c \in worker[w].batch, accepted \in BOOLEAN : Send(w, c, accepted, FALSE)
  \/ MarkFails(w)
  \/ Abandon(w)

Passing == \E d \in Ids : LeaseEnds(d) \/ BackoffEnds(d)

Next ==
  \/ \E o \in Outcomes : PersistReads(o)
  \/ PersistCommits \/ PersistAborts \/ DeleteSite
  \/ \E m \in Minimums : SetPreference(m)
  \/ \E w \in Workers : Dispatch(w) \/ Fail(w)
  \/ Passing

Spec == Init /\ [][Next]_vars

---------------------------------------------------------------------------
\* The types of all variables, and what a claim holds of its row.
TypeOK ==
  /\ done \in Seq(Outcomes) /\ Len(done) <= MaxScans
  /\ persist = NoPersist
       \/ persist \in [step: {"read"}, outcome: Outcomes, minimum: Minimums,
                       active: [Findings -> 0..MaxScans]]
  /\ delivery \in [Ids -> Row]
  /\ incident \in [Findings -> [active: BOOLEAN, opened: 0..MaxScans]]
  /\ minimum \in Minimums
  /\ worker \in [Workers -> [step: {"idle", "send", "mark", "retry"},
                             batch: SUBSET Claims, now: SUBSET Claims]]
  /\ mails \in [Ids -> Nat]
  /\ faults \in 0..MaxFaults

\* At least one mail, and every further one was paid for by a failure: the
\* lease and the fence of the marks keep two healthy processes from mailing
\* the same alert twice.
ExtraMailsArePaid ==
  /\ \A d \in Ids : mails[d] <= 1 + faults
  /\ \A d \in Ids : delivery[d].status = "sent" => mails[d] >= 1

\* "never creates a recovery for a degradation that was never delivered"
\* (recovery-alerts.integration.test.ts): what is announced as resolved
\* was announced as a degradation by an earlier mail.
RecoveryFollowsMail ==
  \A n \in Numbers : \A f \in delivery[<<n, "recovery">>].items :
    \E m \in 1..(n - 1) : /\ f \in delivery[<<m, "degradation">>].items
                          /\ mails[<<m, "degradation">>] >= 1

\* Of one finding at most one recovery waits for its mail, although marks
\* commit between the two reads of a persistence.
OneOutstandingRecovery ==
  \A n, m \in Numbers :
    LET d == <<n, "recovery">>   e == <<m, "recovery">>
    IN /\ delivery[d].status \in {"pending", "sending"}
       /\ delivery[e].status \in {"pending", "sending"}
       /\ delivery[d].items \cap delivery[e].items # {}
       => n = m

Settled(d) == delivery[d].status \notin {"pending", "sending"}
\* Every alert that was queued is sent, or goes with its site: as scans are
\* bounded, no alert waits any more, over and over.
NotificationsSettle == []<>(\A d \in Ids : Settled(d))

Fairness ==
  /\ \A w \in Workers : WF_vars(Dispatch(w))
  /\ WF_vars(Passing)
FairSpec == Spec /\ Fairness
=============================================================================
