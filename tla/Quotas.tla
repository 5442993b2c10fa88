------------------------------- MODULE Quotas -------------------------------
(***************************************************************************)
(* The transactions that count before they insert: manual and public       *)
(* scans, report mails; and those that take the same locks: the scheduler, *)
(* the deletion of a site and the retention of its public audits.  A       *)
(* request notes the time when it arrives, waits for its locks one after   *)
(* the other, counts, inserts and commits, which releases the locks.  It   *)
(* inserts at most one row, named after it.  Counting and inserting are    *)
(* two steps: only the locks keep others from inserting in between.        *)
(***************************************************************************)
EXTENDS Naturals, FiniteSets, Sequences

CONSTANTS Requests,
          Kind,         \* "manual", "public", "email", "schedule", "delete",
                        \* "retain"
          User, Site,   \* who asks, and for which site
          Org, Host,    \* the organization and the host of a site
          Recipient,    \* of a report mail
          Hour, Day, Cooldown,                          \* lengths of windows
          SiteHourly, OrgDaily,                         \* manual scans
          UserHourly, UserConcurrent,                   \* public audits
          MailHourly, MailDaily, RecipientDaily, MailOpen,  \* report mails
          MaxTime,      \* bound
          MaxRequests   \* bound: requests that arrive

VARIABLES now,
          pc,           \* progress of each request
          arrived,      \* the time it noted
          held,         \* number of its locks it holds
          row,          \* the row it inserted: "none", "active", "ended", "gone"
          gone          \* sites that were deleted

vars == <<now, pc, arrived, held, row, gone>>

Inserting == {"manual", "public", "email", "schedule"}

Init ==
  /\ now = 0
  /\ pc = [r \in Requests |-> "new"]
  /\ arrived = [r \in Requests |-> 0]
  /\ held = [r \in Requests |-> 0]
  /\ row = [r \in Requests |-> "none"]
  /\ gone = {}

---------------------------------------------------------------------------
\* Locks.  Each transaction takes its advisory and row locks in this order.

ScanLock(r) == <<"report-share:scan", Site[r]>>
SiteLock(r) == <<"manual-scan:site", Site[r]>>
ScheduleRow(r) == <<"scan_schedules", Site[r]>>
SiteRow(r) == <<"sites", Site[r]>>

\* site-deletion-service.ts; mutated, the site's row comes first.
DeleteLocksRowFirst(r) == <<SiteRow(r), SiteLock(r), ScheduleRow(r)>>
DeleteLocks(r) == <<SiteLock(r), ScheduleRow(r), SiteRow(r)>>

LockOrder(r) ==
  LET org == Org[Site[r]]
  IN CASE Kind[r] = "manual" -> <<<<"manual-scan:org", org>>, SiteLock(r)>>
       [] Kind[r] = "public" -> <<<<"public-audit:user", User[r]>>,
                                  <<"public-audit:domain", Host[Site[r]]>>>>
       [] Kind[r] = "email" -> <<ScanLock(r), <<"report-email:org", org>>,
                                 <<"report-email:site", Site[r]>>,
                                 <<"report-email:sender", User[r]>>,
                                 <<"report-email:recipient", org, Recipient[r]>>>>
       [] Kind[r] = "schedule" -> <<ScheduleRow(r)>>
       [] Kind[r] = "delete" -> DeleteLocks(r)
       [] Kind[r] = "retain" -> <<ScanLock(r), SiteRow(r)>>

HeldLocks(r) == LET order == LockOrder(r) IN {order[i] : i \in 1..held[r]}

\* A lock is free when no other transaction holds it.  Mutated, the lock of
\* the audited domain is not waited for.
FreeOrDomain(r, l) == \/ l[1] = "public-audit:domain"
                      \/ \A q \in Requests \ {r} : l \notin HeldLocks(q)
Free(r, l) == \A q \in Requests \ {r} : l \notin HeldLocks(q)

\* The request passes its checks of access and eligibility.
Arrive(r) ==
  /\ pc[r] = "new" /\ Site[r] \notin gone
  /\ Cardinality({q \in Requests : pc[q] # "new"}) < MaxRequests
  /\ pc' = [pc EXCEPT ![r] = "lock"]
  /\ arrived' = [arrived EXCEPT ![r] = now]
  /\ UNCHANGED <<now, held, row, gone>>

NextFree(r) == LET next == LockOrder(r)[held[r] + 1] IN Free(r, next)
Lock(r) ==
  /\ pc[r] = "lock" /\ NextFree(r)
  /\ held' = [held EXCEPT ![r] = @ + 1]
  /\ pc' = IF held[r] + 1 = Len(LockOrder(r)) THEN [pc EXCEPT ![r] = "count"] ELSE pc
  /\ UNCHANGED <<now, arrived, row, gone>>

---------------------------------------------------------------------------
\* Counting.  Rows: those of a kind whose site was not deleted.

Rows(kind) == {q \in Requests : Kind[q] = kind /\ row[q] \in {"active", "ended"}}
\* gte(queuedAt, now - window), now being the time the request arrived.
\* Mutated, gt.
SinceAfter(r, rows, window) == {q \in rows : arrived[q] + window > arrived[r]}
Since(r, rows, window) == {q \in rows : arrived[q] + window >= arrived[r]}
Below(rows, limit) == Cardinality(rows) < limit
Active(rows) == {q \in rows : row[q] = "active"}
OfSite(r, rows) == {q \in rows : Site[q] = Site[r]}
OfOrg(r, rows) == {q \in rows : Org[Site[q]] = Org[Site[r]]}
OfUser(r, rows) == {q \in rows : User[q] = User[r]}
OfHost(r, rows) == {q \in rows : Host[Site[q]] = Host[Site[r]]}
OfRecipient(r, rows) == {q \in OfOrg(r, rows) : Recipient[q] = Recipient[r]}
Scans == Rows("manual") \cup Rows("public") \cup Rows("schedule")
\* trigger = 'manual', which public audits have too.
ManualScans == Rows("manual") \cup Rows("public")

\* The index scans_site_active_unique, whose violation ends the request.
SiteBusy(r) == Active(OfSite(r, Scans)) # {}

\* createManualScanForSiteMode.
ManualAllowed(r) ==
  /\ Below(Since(r, OfSite(r, ManualScans), Hour), SiteHourly)
  /\ Below(Since(r, OfOrg(r, ManualScans), Day), OrgDaily)

\* createPublicAuditForSite.
PublicAllowed(r) ==
  /\ Below(Since(r, OfUser(r, Rows("public")), Hour), UserHourly)
  /\ Below(Active(OfUser(r, Rows("public"))), UserConcurrent)
  /\ Active(OfHost(r, Scans)) = {}
  /\ Since(r, OfHost(r, Scans), Cooldown) = {}

\* queueReportEmail.
EmailAllowed(r) ==
  LET mails == Rows("email")
  IN /\ Below(Since(r, OfOrg(r, mails), Day), MailDaily)
     /\ Below(Since(r, OfSite(r, mails), Hour), MailHourly)
     /\ Below(Since(r, OfUser(r, OfOrg(r, mails)), Hour), MailHourly)
     /\ Below(Since(r, OfRecipient(r, mails), Day), RecipientDaily)
     /\ Below(Active(OfOrg(r, mails)), MailOpen)

Allowed(r) == /\ Kind[r] = "manual" => ManualAllowed(r)
              /\ Kind[r] = "public" => PublicAllowed(r)
              /\ Kind[r] = "email" => EmailAllowed(r)
              /\ Kind[r] = "delete" => ~SiteBusy(r)

Count(r) ==
  /\ pc[r] = "count"
  /\ IF Allowed(r)
     THEN pc' = [pc EXCEPT ![r] = "write"] /\ UNCHANGED held
     ELSE pc' = [pc EXCEPT ![r] = "done"] /\ held' = [held EXCEPT ![r] = 0]
  /\ UNCHANGED <<now, arrived, row, gone>>

\* An insert refers to the row of its site, so it waits for who locked it, and
\* fails when the site is gone or, of a scan, busy.
RowFree(r) == \A q \in Requests \ {r} : SiteRow(r) \notin HeldLocks(q)
CanInsert(r) == /\ Kind[r] \in Inserting /\ Site[r] \notin gone
                /\ Kind[r] # "email" => ~SiteBusy(r)

\* The deletion cascades to the rows of the site; retention removes its ended
\* public audits, unless their report is being shared.
Removed(r, q) ==
  /\ Site[q] = Site[r] /\ row[q] # "none"
  /\ \/ Kind[r] = "delete"
     \/ /\ Kind[r] = "retain" /\ Kind[q] = "public" /\ row[q] = "ended"
        /\ OfSite(r, Rows("email")) = {}

Write(r) ==
  /\ pc[r] = "write" /\ RowFree(r)
  /\ pc' = [pc EXCEPT ![r] = "done"]
  /\ held' = [held EXCEPT ![r] = 0]
  /\ row' = [q \in Requests |->
       IF q = r /\ CanInsert(r) THEN "active"
       ELSE IF Removed(r, q) THEN "gone" ELSE row[q]]
  /\ gone' = IF Kind[r] = "delete" THEN gone \cup {Site[r]} ELSE gone
  /\ UNCHANGED <<now, arrived>>

\* A scan or a mail settles (ScanLifecycle, ReportShares).  A failed scan that
\* is run again is left to ScanLifecycle.
End(r) ==
  /\ row[r] = "active" /\ row' = [row EXCEPT ![r] = "ended"]
  /\ UNCHANGED <<now, pc, arrived, held, gone>>

Tick ==
  /\ now < MaxTime /\ now' = now + 1
  /\ UNCHANGED <<pc, arrived, held, row, gone>>

Step(r) == Lock(r) \/ Count(r) \/ Write(r)
Next == \/ \E r \in Requests : Arrive(r) \/ Step(r) \/ End(r)
        \/ Tick
Spec == Init /\ [][Next]_vars

---------------------------------------------------------------------------
\* The types of all variables; a request counts only with all its locks.
TypeOK ==
  /\ now \in 0..MaxTime
  /\ pc \in [Requests -> {"new", "lock", "count", "write", "done"}]
  /\ arrived \in [Requests -> 0..MaxTime]
  /\ \A r \in Requests : /\ held[r] \in 0..Len(LockOrder(r))
                         /\ pc[r] \in {"count", "write"} => held[r] = Len(LockOrder(r))
  /\ row \in [Requests -> {"none", "active", "ended", "gone"}]
  /\ gone \subseteq {Site[r] : r \in Requests}

\* The rows of any window that ends with a row, both ends included.
Window(r, rows, length) ==
  {q \in rows : arrived[q] <= arrived[r] /\ arrived[q] + length >= arrived[r]}

\* No window ever holds more rows than its limit, although each request
\* counts with a time noted before it waited for its locks.
WindowsBounded ==
  /\ \A r \in Rows("manual") :
       LET scans == Rows("manual")
       IN /\ Cardinality(Window(r, OfSite(r, scans), Hour)) <= SiteHourly
          /\ Cardinality(Window(r, OfOrg(r, scans), Day)) <= OrgDaily
  /\ \A r \in Rows("public") :
       Cardinality(Window(r, OfUser(r, Rows("public")), Hour)) <= UserHourly
  /\ \A r \in Rows("email") :
       LET mails == Rows("email")
       IN /\ Cardinality(Window(r, OfOrg(r, mails), Day)) <= MailDaily
          /\ Cardinality(Window(r, OfRecipient(r, mails), Day)) <= RecipientDaily
          /\ Cardinality(Active(OfOrg(r, mails))) <= MailOpen

\* At any time a host is the target of at most one public audit and a user
\* waits for at most UserConcurrent of them.
AuditsExclusive ==
  \A r \in Active(Rows("public")) :
    /\ Active(OfHost(r, Rows("public"))) = {r}
    /\ Cardinality(Active(OfUser(r, Rows("public")))) <= UserConcurrent

\* The orders in which these transactions take their locks never close a
\* circle: while one waits, one can go on.
Able(r) == \/ pc[r] = "count"
           \/ pc[r] = "lock" /\ NextFree(r)
           \/ pc[r] = "write" /\ RowFree(r)
SomeoneGoesOn ==
  (\E r \in Requests : pc[r] \in {"lock", "write"}) => \E r \in Requests : Able(r)
=============================================================================
