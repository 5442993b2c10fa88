-------------------------------- MODULE Mail --------------------------------
(***************************************************************************)
(* What the worker delivers or brings up to date, late if need be: the     *)
(* mails of alerts, the mails of reports and the matches of advisories.    *)
(* The three share no state, so TLC explores one of them: "part" is chosen *)
(* in the initial state and the variables of the others keep their initial *)
(* values.                                                                 *)
(***************************************************************************)
EXTENDS ReportShares

CONSTANTS Findings, Measured, Analyzed,     \* of Notifications
          Outcomes, Minimums, AlertScans,
          Sites, MaxScans, MaxImports, MaxActs      \* of Correlation

VARIABLES part,
          done, persist, alert, incident, minimum, sender, mails, slips,    \* alerts
          observation, match, declared, advisory, correlator, reviews, decision, approved,
          scans, imports, misses, acts              \* matches

ASSUME ProcessesAssumption == IsFiniteSet(Workers)
ASSUME MailBoundsAssumption == {MaxAttempts, MaxFaults, AlertScans, MaxScans, MaxActs} \subseteq Nat

N == INSTANCE Notifications WITH
       MaxScans <- AlertScans, delivery <- alert, worker <- sender, faults <- slips

M == INSTANCE Correlation WITH worker <- correlator, faults <- misses

alertVars == <<done, persist, alert, incident, minimum, sender, mails, slips>>
matchVars == <<observation, match, declared, advisory, correlator, reviews, decision, approved,
               scans, imports, misses, acts>>
allVars == <<part, vars, alertVars, matchVars>>

MailInit ==
  /\ part \in {"alerts", "reports", "matches"} /\ Init /\ N!Init /\ M!Init
  /\ part # "alerts" => minimum = 0
  /\ part # "reports" => site

Alerts(step) == part = "alerts" /\ step /\ UNCHANGED <<part, vars, matchVars>>
Reports(step) == part = "reports" /\ step /\ UNCHANGED <<part, alertVars, matchVars>>
Matches(step) == part = "matches" /\ step /\ UNCHANGED <<part, vars, alertVars>>
MailNext ==
  \/ part = "alerts" /\ N!Next /\ UNCHANGED <<part, vars, matchVars>>
  \/ part = "reports" /\ Next /\ UNCHANGED <<part, alertVars, matchVars>>
  \/ part = "matches" /\ M!Next /\ UNCHANGED <<part, vars, alertVars>>

MailFairness ==
  /\ \A w \in Workers : /\ WF_allVars(Alerts(N!Dispatch(w)))
                        /\ WF_allVars(Reports(Dispatch(w)))
                        /\ WF_allVars(Matches(M!Proceed(w)))
  /\ WF_allVars(Alerts(N!Passing)) /\ WF_allVars(Reports(Passing))
  /\ WF_allVars(Matches(M!Synchronize))

MailSpec == MailInit /\ [][MailNext]_allVars /\ MailFairness

\* The types of the variables of all parts.
MailTypeOK == TypeOK /\ N!TypeOK /\ M!TypeOK
\* Alerts: at most one mail of each but for failures; a recovery follows the
\* mail of its degradation, and at most one is under way; all settle.
ExtraMailsArePaid == N!ExtraMailsArePaid
RecoveriesAreOrdered == N!RecoveryFollowsMail /\ N!OneOutstandingRecovery
MailsSettle == N!NotificationsSettle /\ ReportsSettle
\* Reports: RevokedIsCancelled, as ReportShares states it.
\* Matches: those of the newest observation agree with the advisory in the end.
MatchesCatchUp == M!MatchesCatchUp
=============================================================================
