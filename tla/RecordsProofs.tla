--------------------------- MODULE RecordsProofs ----------------------------
(***************************************************************************)
(* Theorems of Components about what the web application records: the      *)
(* quotas and the locks of their transactions, the ownership proofs and    *)
(* the grants, the follow-up of findings, the creation of sites and the    *)
(* reviews; what other modules prove of the synchronization, the robots,   *)
(* the schedule and the loading of a page; and the types of all parts.     *)
(* They hold for every value of the constants of these parts.              *)
(***************************************************************************)
EXTENDS NetworkProofs
---------------------------------------------------------------------------
(* The transactions that count before they insert (Quotas): their locks.   *)

Transacting == {"count", "write"}

\* A request that counts or writes has all its locks, one that has not come or
\* has ended none, and no two requests have the same one.
LockInv ==
  /\ pc \in [QuotaRequests -> {"new", "lock", "count", "write", "done"}] /\ held \in [QuotaRequests -> Nat]
  /\ \A r \in QuotaRequests :
       /\ held[r] <= Len(Q!LockOrder(r))
       /\ pc[r] \in {"new", "done"} => held[r] = 0
       /\ pc[r] = "lock" => held[r] < Len(Q!LockOrder(r))
       /\ pc[r] \in Transacting => held[r] = Len(Q!LockOrder(r))
  /\ \A q, r \in QuotaRequests : q # r => Q!HeldLocks(q) \cap Q!HeldLocks(r) = {}

LEMMA LockOrders ==
  ASSUME NEW r \in QuotaRequests
  PROVE  /\ RequestKind[r] = "manual" =>
              /\ Len(Q!LockOrder(r)) = 2
              /\ Q!LockOrder(r)[1] = <<"manual-scan:org", Org[Site[r]]>>
              /\ Q!LockOrder(r)[2] = <<"manual-scan:site", Site[r]>>
         /\ RequestKind[r] = "public" =>
              /\ Len(Q!LockOrder(r)) = 2
              /\ Q!LockOrder(r)[1] = <<"public-audit:user", User[r]>>
              /\ Q!LockOrder(r)[2] = <<"public-audit:domain", Host[Site[r]]>>
         /\ RequestKind[r] = "email" =>
              /\ Len(Q!LockOrder(r)) = 5
              /\ Q!LockOrder(r)[1] = <<"report-share:scan", Site[r]>>
              /\ Q!LockOrder(r)[2] = <<"report-email:org", Org[Site[r]]>>
              /\ Q!LockOrder(r)[3] = <<"report-email:site", Site[r]>>
              /\ Q!LockOrder(r)[4] = <<"report-email:sender", User[r]>>
              /\ Q!LockOrder(r)[5] = <<"report-email:recipient", Org[Site[r]], Recipient[r]>>
         /\ RequestKind[r] = "schedule" =>
              /\ Len(Q!LockOrder(r)) = 1
              /\ Q!LockOrder(r)[1] = <<"scan_schedules", Site[r]>>
         /\ RequestKind[r] = "delete" =>
              /\ Len(Q!LockOrder(r)) = 3
              /\ Q!LockOrder(r)[1] = <<"manual-scan:site", Site[r]>>
              /\ Q!LockOrder(r)[2] = <<"scan_schedules", Site[r]>>
              /\ Q!LockOrder(r)[3] = <<"sites", Site[r]>>
         /\ RequestKind[r] = "retain" =>
              /\ Len(Q!LockOrder(r)) = 2
              /\ Q!LockOrder(r)[1] = <<"report-share:scan", Site[r]>>
              /\ Q!LockOrder(r)[2] = <<"sites", Site[r]>>
<1> USE DEF Q!LockOrder, Q!ScanLock, Q!SiteLock, Q!ScheduleRow, Q!SiteRow, Q!DeleteLocks
<1>1. CASE RequestKind[r] = "manual"
  BY <1>1
<1>2. CASE RequestKind[r] = "public"
  BY <1>2
<1>3. CASE RequestKind[r] = "email"
  BY <1>3
<1>4. CASE RequestKind[r] = "schedule"
  BY <1>4
<1>5. CASE RequestKind[r] = "delete"
  BY <1>5
<1>6. CASE RequestKind[r] = "retain"
  BY <1>6
<1>7. RequestKind[r] \in {"manual", "public", "email", "schedule", "delete", "retain"}
  BY RequestsAssumption
<1> QED
  BY Zenon, <1>1, <1>2, <1>3, <1>4, <1>5, <1>6, <1>7

LEMMA LocksAreSome ==
  ASSUME NEW r \in QuotaRequests
  PROVE  Len(Q!LockOrder(r)) \in Nat /\ Len(Q!LockOrder(r)) > 0
<1>1. RequestKind[r] \in {"manual", "public", "email", "schedule", "delete", "retain"}
  BY RequestsAssumption
<1> QED
  BY <1>1, LockOrders

LEMMA LocksStart == Q!Init => LockInv
<1> SUFFICES ASSUME Q!Init PROVE LockInv
  OBVIOUS
<1>1. \A r \in QuotaRequests : Q!HeldLocks(r) = {}
  BY DEF Q!Init, Q!HeldLocks
<1> QED
  BY <1>1, LocksAreSome DEF Q!Init, LockInv, Transacting

\* What a step does with the locks of a request.
LEMMA LocksStay ==
  ASSUME LockInv, NEW r \in QuotaRequests,
         held' = held \/ (held' = [held EXCEPT ![r] = 0] /\ pc' = [pc EXCEPT ![r] = "done"])
         \/ (held' = [held EXCEPT ![r] = @ + 1] /\ pc[r] = "lock" /\ Q!NextFree(r))
  PROVE  /\ held' \in [QuotaRequests -> Nat]
         /\ \A q, s \in QuotaRequests : q # s => Q!HeldLocks(q)' \cap Q!HeldLocks(s)' = {}
<1>1. CASE held' = held
  BY <1>1 DEF LockInv, Q!HeldLocks
<1>2. CASE held' = [held EXCEPT ![r] = 0]
  <2>1. held' \in [QuotaRequests -> Nat] /\ \A q \in QuotaRequests : held'[q] = 0 \/ held'[q] = held[q]
    BY <1>2 DEF LockInv
  <2>2. \A q \in QuotaRequests : Q!HeldLocks(q)' \subseteq Q!HeldLocks(q)
    BY <2>1 DEF Q!HeldLocks
  <2> QED
    BY <2>1, <2>2 DEF LockInv
<1>3. CASE held' = [held EXCEPT ![r] = held[r] + 1] /\ Q!NextFree(r)
  <2> DEFINE new == Q!LockOrder(r)[held[r] + 1]
  <2>1. held' \in [QuotaRequests -> Nat] /\ held[r] \in Nat /\ held'[r] = held[r] + 1
        /\ \A q \in QuotaRequests \ {r} : held'[q] = held[q]
    BY <1>3 DEF LockInv
  <2>2. \A q \in QuotaRequests \ {r} : Q!HeldLocks(q)' = Q!HeldLocks(q) /\ new \notin Q!HeldLocks(q)
    BY <1>3, <2>1 DEF Q!HeldLocks, Q!NextFree, Q!Free
  <2>3. Q!HeldLocks(r)' = Q!HeldLocks(r) \cup {new}
    BY <2>1 DEF Q!HeldLocks
  <2> QED
    BY <2>1, <2>2, <2>3 DEF LockInv
<1> QED
  BY <1>1, <1>2, <1>3

LEMMA LockSteps ==
  ASSUME LockInv, [Q!Next]_(Q!vars)
  PROVE  LockInv'
<1>1. ASSUME NEW r \in QuotaRequests, Q!Arrive(r) \/ Q!Lock(r) \/ Q!Count(r) \/ Q!Write(r)
      PROVE  LockInv'
  <2>1. /\ held' = held \/ (held' = [held EXCEPT ![r] = 0] /\ pc' = [pc EXCEPT ![r] = "done"])
           \/ (held' = [held EXCEPT ![r] = @ + 1] /\ pc[r] = "lock" /\ Q!NextFree(r))
    BY <1>1 DEF Q!Arrive, Q!Lock, Q!Count, Q!Write
  <2>2. held' \in [QuotaRequests -> Nat] /\ \A q, s \in QuotaRequests : q # s => Q!HeldLocks(q)' \cap Q!HeldLocks(s)' = {}
    BY <2>1, LocksStay
  <2>3. /\ pc' \in [QuotaRequests -> {"new", "lock", "count", "write", "done"}]
        /\ \A q \in QuotaRequests \ {r} : pc'[q] = pc[q] /\ held'[q] = held[q]
    BY <1>1, <2>1 DEF LockInv, Q!Arrive, Q!Lock, Q!Count, Q!Write
  <2>4. /\ held'[r] <= Len(Q!LockOrder(r))
        /\ pc'[r] \in {"new", "done"} => held'[r] = 0
        /\ pc'[r] = "lock" => held'[r] < Len(Q!LockOrder(r))
        /\ pc'[r] \in Transacting => held'[r] = Len(Q!LockOrder(r))
    <3>1. CASE Q!Arrive(r)
      BY <3>1, LocksAreSome DEF Q!Arrive, LockInv, Transacting
    <3>2. CASE Q!Lock(r)
      BY <3>2, LocksAreSome DEF Q!Lock, LockInv, Transacting
    <3>3. CASE Q!Count(r)
      BY <3>3, LocksAreSome DEF Q!Count, LockInv, Transacting
    <3>4. CASE Q!Write(r)
      BY <3>4, LocksAreSome DEF Q!Write, LockInv, Transacting
    <3> QED
      BY <1>1, <3>1, <3>2, <3>3, <3>4
  <2>5. ASSUME NEW q \in QuotaRequests
        PROVE  /\ held'[q] <= Len(Q!LockOrder(q))
               /\ pc'[q] \in {"new", "done"} => held'[q] = 0
               /\ pc'[q] = "lock" => held'[q] < Len(Q!LockOrder(q))
               /\ pc'[q] \in Transacting => held'[q] = Len(Q!LockOrder(q))
    BY <2>3, <2>4 DEF LockInv
  <2> QED
    BY <2>2, <2>3, <2>5 DEF LockInv
<1>2. ASSUME UNCHANGED <<pc, held>> PROVE LockInv'
  BY <1>2 DEF LockInv, Q!HeldLocks
<1>3. (\E r \in QuotaRequests : Q!End(r)) \/ Q!Tick \/ UNCHANGED Q!vars => UNCHANGED <<pc, held>>
  BY DEF Q!End, Q!Tick, Q!vars
<1> QED
  BY <1>1, <1>2, <1>3 DEF Q!Next, Q!Step

---------------------------------------------------------------------------
\* The order of all locks.
Rank(l) == CASE l[1] \in {"manual-scan:org", "public-audit:user", "report-share:scan"} -> 1
             [] l[1] \in {"manual-scan:site", "public-audit:domain", "report-email:org"} -> 2
             [] l[1] \in {"scan_schedules", "report-email:site"} -> 3
             [] l[1] = "report-email:sender" -> 4
             [] l[1] = "report-email:recipient" -> 5
             [] OTHER -> 6

\* The lock that a request waits for.
Wanted(r) == IF pc[r] = "lock" THEN Q!LockOrder(r)[held[r] + 1] ELSE Q!SiteRow(r)
Waiting(r) == pc[r] \in {"lock", "write"}

LEMMA OrdersRise ==
  ASSUME NEW r \in QuotaRequests
  PROVE  /\ \A i \in 1..Len(Q!LockOrder(r)) : Rank(Q!LockOrder(r)[i]) \in 1..6
         /\ \A i, j \in 1..Len(Q!LockOrder(r)) :
              i < j => Rank(Q!LockOrder(r)[i]) < Rank(Q!LockOrder(r)[j])
         /\ \A i \in 1..Len(Q!LockOrder(r)) :
              Rank(Q!LockOrder(r)[i]) = 6 => Q!LockOrder(r)[i] = Q!SiteRow(r)
         /\ Rank(Q!SiteRow(r)) = 6
<1>0. Rank(Q!SiteRow(r)) = 6
  BY DEF Rank, Q!SiteRow
<1>1. CASE RequestKind[r] = "manual"
  <2>1. Rank(Q!LockOrder(r)[1]) = 1 /\ Rank(Q!LockOrder(r)[2]) = 2 /\ Len(Q!LockOrder(r)) = 2
    BY <1>1, LockOrders DEF Rank
  <2> QED
    BY <1>0, <2>1
<1>2. CASE RequestKind[r] = "public"
  <2>1. Rank(Q!LockOrder(r)[1]) = 1 /\ Rank(Q!LockOrder(r)[2]) = 2 /\ Len(Q!LockOrder(r)) = 2
    BY <1>2, LockOrders DEF Rank
  <2> QED
    BY <1>0, <2>1
<1>3. CASE RequestKind[r] = "email"
  <2>1. /\ Rank(Q!LockOrder(r)[1]) = 1 /\ Rank(Q!LockOrder(r)[2]) = 2 /\ Rank(Q!LockOrder(r)[3]) = 3
        /\ Rank(Q!LockOrder(r)[4]) = 4 /\ Rank(Q!LockOrder(r)[5]) = 5 /\ Len(Q!LockOrder(r)) = 5
    BY <1>3, LockOrders DEF Rank
  <2> QED
    BY <1>0, <2>1
<1>4. CASE RequestKind[r] = "schedule"
  <2>1. Rank(Q!LockOrder(r)[1]) = 3 /\ Len(Q!LockOrder(r)) = 1
    BY <1>4, LockOrders DEF Rank
  <2> QED
    BY <1>0, <2>1
<1>5. CASE RequestKind[r] = "delete"
  <2>1. /\ Rank(Q!LockOrder(r)[1]) = 2 /\ Rank(Q!LockOrder(r)[2]) = 3 /\ Rank(Q!LockOrder(r)[3]) = 6
        /\ Len(Q!LockOrder(r)) = 3 /\ Q!LockOrder(r)[3] = Q!SiteRow(r)
    BY <1>5, LockOrders DEF Rank, Q!SiteRow
  <2> QED
    BY <1>0, <2>1
<1>6. CASE RequestKind[r] = "retain"
  <2>1. /\ Rank(Q!LockOrder(r)[1]) = 1 /\ Rank(Q!LockOrder(r)[2]) = 6
        /\ Len(Q!LockOrder(r)) = 2 /\ Q!LockOrder(r)[2] = Q!SiteRow(r)
    BY <1>6, LockOrders DEF Rank, Q!SiteRow
  <2> QED
    BY <1>0, <2>1
<1>7. RequestKind[r] \in {"manual", "public", "email", "schedule", "delete", "retain"}
  BY RequestsAssumption
<1> QED
  BY <1>1, <1>2, <1>3, <1>4, <1>5, <1>6, <1>7

\* Who holds the lock that another one waits for can go on or waits for a lock
\* of a higher rank.
LEMMA HoldersWaitAbove ==
  ASSUME LockInv, \A q \in QuotaRequests : ~Q!Able(q), NEW r \in QuotaRequests, Waiting(r)
  PROVE  /\ Rank(Wanted(r)) \in 1..6
         /\ \E q \in QuotaRequests : Waiting(q) /\ Rank(Wanted(q)) > Rank(Wanted(r))
<1>1. /\ pc[r] = "lock" => held[r] \in Nat /\ held[r] + 1 \in 1..Len(Q!LockOrder(r))
      /\ pc[r] = "lock" \/ pc[r] = "write"
  BY LocksAreSome DEF LockInv, Waiting
<1>2. Rank(Wanted(r)) \in 1..6
  BY <1>1, OrdersRise DEF Wanted
<1>3. PICK q \in QuotaRequests \ {r} : Wanted(r) \in Q!HeldLocks(q)
  BY <1>1 DEF Wanted, Waiting, Q!Able, Q!NextFree, Q!Free, Q!RowFree
<1>4. PICK i \in 1..held[q] : Wanted(r) = Q!LockOrder(q)[i]
  BY <1>3 DEF Q!HeldLocks
<1>5. held[q] \in Nat /\ held[q] <= Len(Q!LockOrder(q)) /\ Len(Q!LockOrder(q)) \in Nat
  BY LocksAreSome DEF LockInv
<1>6. i \in 1..Len(Q!LockOrder(q)) /\ held[q] # 0
  BY <1>4, <1>5
<1>7. pc[q] = "lock" \/ pc[q] = "write"
  BY <1>6 DEF LockInv, Q!Able, Transacting
<1>8. CASE pc[q] = "lock"
  <2>1. held[q] + 1 \in 1..Len(Q!LockOrder(q)) /\ i < held[q] + 1
    BY <1>4, <1>5, <1>8 DEF LockInv
  <2>2. Rank(Q!LockOrder(q)[i]) < Rank(Q!LockOrder(q)[held[q] + 1]) /\ Wanted(q) = Q!LockOrder(q)[held[q] + 1]
        /\ Rank(Q!LockOrder(q)[held[q] + 1]) \in 1..6
    BY <1>6, <1>8, <2>1, OrdersRise DEF Wanted
  <2> QED
    BY <1>2, <1>4, <1>7, <2>2 DEF Waiting
<1>9. CASE pc[q] = "write"
  <2>1. PICK s \in QuotaRequests \ {q} : Q!SiteRow(q) \in Q!HeldLocks(s)
    BY <1>9 DEF Q!Able, Q!RowFree
  <2>2. Q!LockOrder(q)[i] # Q!SiteRow(q)
    BY <1>3, <1>4, <2>1 DEF LockInv
  <2>3. Rank(Q!LockOrder(q)[i]) < 6 /\ Wanted(q) = Q!SiteRow(q) /\ Rank(Q!SiteRow(q)) = 6
    BY <1>6, <1>9, <2>2, OrdersRise DEF Wanted
  <2>4. Rank(Wanted(q)) = 6 /\ Rank(Wanted(r)) \in 1..6 /\ Rank(Wanted(r)) # 6
    BY <1>2, <1>4, <1>6, <2>2, <2>3, OrdersRise
  <2>5. Rank(Wanted(q)) > Rank(Wanted(r))
    BY <2>4
  <2> QED
    BY <1>2, <1>7, <2>5 DEF Waiting
<1> QED
  BY <1>2, <1>7, <1>8, <1>9

LEMMA LocksCloseNoCircle == LockInv => Q!SomeoneGoesOn
<1> SUFFICES ASSUME LockInv, \A q \in QuotaRequests : ~Q!Able(q), NEW r \in QuotaRequests, Waiting(r)
             PROVE  FALSE
  BY DEF Q!SomeoneGoesOn, Waiting
<1> DEFINE Above(k) == \E q \in QuotaRequests : Waiting(q) /\ Rank(Wanted(q)) >= k
<1>1. \A k \in 1..6 : Above(k) => Above(k + 1)
  <2> SUFFICES ASSUME NEW k \in 1..6, NEW q \in QuotaRequests, Waiting(q), Rank(Wanted(q)) >= k
               PROVE  Above(k + 1)
    OBVIOUS
  <2>1. PICK s \in QuotaRequests : Waiting(s) /\ Rank(Wanted(s)) > Rank(Wanted(q))
    BY HoldersWaitAbove
  <2>2. Rank(Wanted(q)) \in 1..6 /\ Rank(Wanted(s)) \in 1..6
    BY <2>1, HoldersWaitAbove
  <2>3. Rank(Wanted(s)) >= k + 1
    BY <2>1, <2>2
  <2> QED
    BY <2>1, <2>3
<1>2. Above(1)
  BY HoldersWaitAbove
<1>3. ~Above(7)
  <2> SUFFICES ASSUME NEW q \in QuotaRequests, Waiting(q) PROVE ~(Rank(Wanted(q)) >= 7)
    OBVIOUS
  <2> QED
    BY HoldersWaitAbove
<1> HIDE DEF Above
<1>4. Above(2) /\ (Above(2) => Above(3)) /\ (Above(3) => Above(4))
  <2>1. Above(1 + 1) /\ (Above(2) => Above(2 + 1)) /\ (Above(3) => Above(3 + 1))
    BY <1>1, <1>2
  <2> QED
    BY <2>1
<1>5. (Above(4) => Above(5)) /\ (Above(5) => Above(6)) /\ (Above(6) => Above(7))
  <2>1. (Above(4) => Above(4 + 1)) /\ (Above(5) => Above(5 + 1)) /\ (Above(6) => Above(6 + 1))
    BY <1>1
  <2> QED
    BY <2>1
<1> QED
  BY <1>3, <1>4, <1>5

---------------------------------------------------------------------------
(* What the requests of a group have inserted.  A group is what one limit  *)
(* counts: the requests of a kind for one site, organization, user ...     *)

\* Rows come at the end of a request, and times do not change once noted.
RowInv ==
  /\ now \in Nat /\ arrived \in [QuotaRequests -> Nat]
  /\ row \in [QuotaRequests -> {"none", "active", "ended", "gone"}]
  /\ \A r \in QuotaRequests : row[r] # "none" => pc[r] = "done"

Listed == {q \in QuotaRequests : row[q] \in {"active", "ended"}}
Running == {q \in QuotaRequests : row[q] = "active"}

LEMMA RowsStart == Q!Init => RowInv
BY DEF Q!Init, RowInv

LEMMA RowSteps ==
  ASSUME RowInv, LockInv, [Q!Next]_(Q!vars)
  PROVE  /\ RowInv'
         /\ \A q \in QuotaRequests : pc[q] # "new" => arrived'[q] = arrived[q]
         /\ \A q \in QuotaRequests : pc'[q] = "write" => pc[q] = "write" \/ (Q!Count(q) /\ Q!Allowed(q))
         /\ \/ Listed' \subseteq Listed /\ Running' \subseteq Running
            \/ \E w \in QuotaRequests : /\ pc[w] = "write" /\ pc'[w] = "done"
                                   /\ Listed' \subseteq Listed \cup {w} /\ Running' \subseteq Running \cup {w}
<1> USE DEF RowInv
<1>1. ASSUME NEW r \in QuotaRequests, Q!Arrive(r)
      PROVE  /\ RowInv' /\ Listed' \subseteq Listed /\ Running' \subseteq Running
             /\ \A q \in QuotaRequests : pc[q] # "new" => arrived'[q] = arrived[q]
             /\ \A q \in QuotaRequests : pc'[q] = "write" => pc[q] = "write"
  <2>1. /\ arrived' = [arrived EXCEPT ![r] = now] /\ pc' = [pc EXCEPT ![r] = "lock"] /\ pc[r] = "new"
        /\ UNCHANGED <<now, row>>
    BY <1>1 DEF Q!Arrive
  <2>2. arrived' \in [QuotaRequests -> Nat] /\ \A q \in QuotaRequests : pc[q] # "new" => arrived'[q] = arrived[q]
    BY <2>1
  <2>3. \A q \in QuotaRequests : /\ row'[q] # "none" => pc'[q] = "done"
                            /\ pc'[q] = "write" => pc[q] = "write"
    BY <2>1 DEF LockInv
  <2> QED
    BY <2>1, <2>2, <2>3 DEF Listed, Running
<1>2. ASSUME NEW r \in QuotaRequests, Q!Lock(r)
      PROVE  /\ RowInv' /\ Listed' \subseteq Listed /\ Running' \subseteq Running
             /\ \A q \in QuotaRequests : pc[q] # "new" => arrived'[q] = arrived[q]
             /\ \A q \in QuotaRequests : pc'[q] = "write" => pc[q] = "write"
  <2>1. /\ UNCHANGED <<now, arrived, row>> /\ pc[r] = "lock"
        /\ pc' = pc \/ pc' = [pc EXCEPT ![r] = "count"]
    BY <1>2 DEF Q!Lock
  <2> QED
    BY <2>1 DEF LockInv, Listed, Running
<1>3. ASSUME NEW r \in QuotaRequests, Q!Count(r)
      PROVE  /\ RowInv' /\ Listed' \subseteq Listed /\ Running' \subseteq Running
             /\ \A q \in QuotaRequests : pc[q] # "new" => arrived'[q] = arrived[q]
             /\ \A q \in QuotaRequests : pc'[q] = "write" => pc[q] = "write" \/ (Q!Count(q) /\ Q!Allowed(q))
  <2>1. /\ UNCHANGED <<now, arrived, row>> /\ pc[r] = "count"
        /\ \/ pc' = [pc EXCEPT ![r] = "write"] /\ Q!Allowed(r)
           \/ pc' = [pc EXCEPT ![r] = "done"]
    BY <1>3 DEF Q!Count
  <2> QED
    BY <1>3, <2>1 DEF LockInv, Listed, Running
<1>4. ASSUME NEW r \in QuotaRequests, Q!Write(r)
      PROVE  /\ RowInv' /\ pc[r] = "write" /\ pc'[r] = "done"
             /\ Listed' \subseteq Listed \cup {r} /\ Running' \subseteq Running \cup {r}
             /\ \A q \in QuotaRequests : pc[q] # "new" => arrived'[q] = arrived[q]
             /\ \A q \in QuotaRequests : pc'[q] = "write" => pc[q] = "write"
  <2>1. /\ UNCHANGED <<now, arrived>> /\ pc[r] = "write" /\ pc' = [pc EXCEPT ![r] = "done"]
        /\ row' = [q \in QuotaRequests |-> IF q = r /\ Q!CanInsert(r) THEN "active"
                                      ELSE IF Q!Removed(r, q) THEN "gone" ELSE row[q]]
    BY <1>4 DEF Q!Write
  <2>2. /\ row' \in [QuotaRequests -> {"none", "active", "ended", "gone"}]
        /\ \A q \in QuotaRequests \ {r} : row'[q] = row[q] \/ (row'[q] = "gone" /\ row[q] # "none")
    BY <2>1 DEF Q!Removed
  <2> QED
    BY <2>1, <2>2 DEF LockInv, Listed, Running
<1>5. ASSUME NEW r \in QuotaRequests, Q!End(r)
      PROVE  /\ RowInv' /\ Listed' \subseteq Listed /\ Running' \subseteq Running /\ pc' = pc /\ arrived' = arrived
  <2>1. UNCHANGED <<now, arrived, pc>> /\ row' = [row EXCEPT ![r] = "ended"] /\ row[r] = "active"
    BY <1>5 DEF Q!End
  <2> QED
    BY <2>1 DEF Listed, Running
<1>6. CASE Q!Tick \/ UNCHANGED Q!vars
  <2>1. UNCHANGED <<arrived, pc, row>> /\ (now' = now \/ now' = now + 1)
    BY <1>6 DEF Q!Tick, Q!vars
  <2>2. now' \in Nat
    BY <2>1
  <2> QED
    BY <2>1, <2>2 DEF Listed, Running
<1> QED
  BY <1>1, <1>2, <1>3, <1>4, <1>5, <1>6 DEF Q!Next, Q!Step

---------------------------------------------------------------------------
Group(g) == /\ g \in [QuotaRequests -> SUBSET QuotaRequests]
            /\ \A q, r \in QuotaRequests : q \in g[r] => g[q] = g[r]
\* No two requests of the group count and write at once.
Exclusive(g) ==
  \A q, r \in QuotaRequests : q # r /\ q \in g[r] => ~(pc[q] \in Transacting /\ pc[r] \in Transacting)

Recent(g, r, period) == {q \in g[r] \cap Listed : arrived[q] + period >= arrived[r]}
Within(g, r, period) == {q \in Recent(g, r, period) : arrived[q] <= arrived[r]}
WindowKept(g, period, limit) ==
  \A r \in QuotaRequests : r \in g[r] =>
    /\ pc[r] = "write" => Cardinality(Recent(g, r, period)) < limit
    /\ r \in Listed => Cardinality(Within(g, r, period)) <= limit
RunningKept(g, limit) ==
  \A r \in QuotaRequests : r \in g[r] =>
    /\ pc[r] = "write" => Cardinality(g[r] \cap Running) < limit
    /\ Cardinality(g[r] \cap Running) <= limit

LEMMA SubsetsOfRequests ==
  ASSUME NEW sup, sup \subseteq QuotaRequests, NEW set, set \subseteq sup
  PROVE  /\ Cardinality(set) \in Nat /\ Cardinality(sup) \in Nat /\ Cardinality(set) <= Cardinality(sup)
         /\ \A x : Cardinality(sup \cup {x}) \in Nat /\ Cardinality(sup \cup {x}) <= Cardinality(sup) + 1
<1>1. IsFiniteSet(sup) /\ IsFiniteSet(set) /\ Cardinality(set) <= Cardinality(sup)
  BY RequestsAssumption, FS_Subset
<1>2. Cardinality(set) \in Nat /\ Cardinality(sup) \in Nat
  BY <1>1, FS_CardinalityType
<1>3. ASSUME NEW x
      PROVE  Cardinality(sup \cup {x}) \in Nat /\ Cardinality(sup \cup {x}) <= Cardinality(sup) + 1
  <2>1. /\ IsFiniteSet(sup \cup {x})
        /\ Cardinality(sup \cup {x}) = IF x \in sup THEN Cardinality(sup) ELSE Cardinality(sup) + 1
    BY <1>1, FS_AddElement
  <2> QED
    BY <1>2, <2>1
<1> QED
  BY <1>1, <1>2, <1>3

\* A request counts every row that is in a window together with its own, also
\* those of requests that came later and were faster.
LEMMA WindowSteps ==
  ASSUME RowInv, LockInv, [Q!Next]_(Q!vars), NEW g, Group(g), Exclusive(g), NEW period \in Nat, NEW limit \in Nat,
         WindowKept(g, period, limit),
         \A r \in QuotaRequests : pc[r] = "count" /\ r \in g[r] /\ Q!Allowed(r)
                             => Cardinality(Recent(g, r, period)) < limit
  PROVE  WindowKept(g, period, limit)'
<1>1. /\ \A q \in QuotaRequests : pc[q] # "new" => arrived'[q] = arrived[q]
      /\ \A q \in QuotaRequests : pc'[q] = "write" => pc[q] = "write" \/ (pc[q] = "count" /\ Q!Allowed(q))
      /\ \/ Listed' \subseteq Listed
         \/ \E w \in QuotaRequests : pc[w] = "write" /\ pc'[w] = "done" /\ Listed' \subseteq Listed \cup {w}
      /\ RowInv'
  BY RowSteps DEF Q!Count
<1>2. /\ \A q \in Listed : arrived'[q] = arrived[q]
      /\ \A q \in QuotaRequests : pc[q] \in Transacting => arrived'[q] = arrived[q]
      /\ arrived \in [QuotaRequests -> Nat] /\ arrived' \in [QuotaRequests -> Nat]
  BY <1>1 DEF RowInv, Listed, Transacting
<1>3. ASSUME NEW r \in QuotaRequests, r \in g[r], pc'[r] = "write"
      PROVE  Cardinality(Recent(g, r, period)') < limit
  <2>1. Cardinality(Recent(g, r, period)) < limit /\ pc[r] \in Transacting
    BY <1>1, <1>3 DEF WindowKept, Transacting
  <2>2. g[r] \cap Listed' \subseteq Listed
    BY <1>1, <1>3, <2>1 DEF Group, Exclusive, Transacting
  <2>3. Recent(g, r, period)' \subseteq Recent(g, r, period) /\ Recent(g, r, period) \subseteq QuotaRequests
    BY <1>2, <2>1, <2>2 DEF Recent, Listed
  <2>4. /\ Cardinality(Recent(g, r, period)') \in Nat /\ Cardinality(Recent(g, r, period)) \in Nat
        /\ Cardinality(Recent(g, r, period)') <= Cardinality(Recent(g, r, period))
    BY <2>3, SubsetsOfRequests
  <2> QED
    BY <2>1, <2>4
<1>4. ASSUME NEW r \in QuotaRequests, r \in g[r], r \in Listed'
      PROVE  Cardinality(Within(g, r, period)') <= limit
  <2>1. CASE g[r] \cap Listed' \subseteq Listed
    <3>1. r \in Listed /\ Cardinality(Within(g, r, period)) <= limit
      BY <1>4, <2>1 DEF WindowKept
    <3>2. Within(g, r, period)' \subseteq Within(g, r, period) /\ Within(g, r, period) \subseteq QuotaRequests
      BY <1>2, <2>1, <3>1 DEF Within, Recent, Listed
    <3>3. /\ Cardinality(Within(g, r, period)') \in Nat /\ Cardinality(Within(g, r, period)) \in Nat
          /\ Cardinality(Within(g, r, period)') <= Cardinality(Within(g, r, period))
      BY <3>2, SubsetsOfRequests
    <3> QED
      BY <3>1, <3>3
  <2>2. CASE ~(g[r] \cap Listed' \subseteq Listed)
    <3>1. PICK w \in QuotaRequests : w \in g[r] /\ pc[w] = "write" /\ w \in Listed' /\ Listed' \subseteq Listed \cup {w}
      BY <1>1, <2>2
    <3>2. g[w] = g[r] /\ w \in g[w] /\ Cardinality(Recent(g, w, period)) < limit
      BY <3>1 DEF Group, WindowKept
    <3>3. arrived'[w] = arrived[w] /\ arrived[w] \in Nat
      BY <1>2, <3>1 DEF Transacting
    <3>4. CASE arrived'[w] <= arrived'[r]
      <4>1. ASSUME NEW q \in Within(g, r, period)', q # w PROVE q \in Recent(g, w, period)
        <5>1. q \in Listed /\ q \in g[w] /\ arrived'[q] + period >= arrived'[r]
          BY <3>1, <3>2, <4>1 DEF Within, Recent
        <5>2. arrived'[q] = arrived[q] /\ arrived[q] \in Nat /\ arrived'[r] \in Nat /\ q \in QuotaRequests
          BY <1>2, <5>1 DEF Listed
        <5>3. arrived[q] + period >= arrived[w]
          BY <3>3, <3>4, <5>1, <5>2
        <5> QED
          BY <5>1, <5>3 DEF Recent
      <4>2. Within(g, r, period)' \subseteq Recent(g, w, period) \cup {w}
            /\ Recent(g, w, period) \subseteq QuotaRequests
        BY <4>1 DEF Recent, Listed
      <4>3. /\ Cardinality(Recent(g, w, period)) \in Nat
            /\ Cardinality(Recent(g, w, period) \cup {w}) \in Nat
            /\ Cardinality(Recent(g, w, period) \cup {w}) <= Cardinality(Recent(g, w, period)) + 1
        BY <4>2, SubsetsOfRequests
      <4>4. /\ Cardinality(Within(g, r, period)') \in Nat
            /\ Cardinality(Within(g, r, period)') <= Cardinality(Recent(g, w, period) \cup {w})
        BY <4>2, SubsetsOfRequests
      <4> QED
        BY <3>2, <4>3, <4>4
    <3>5. CASE ~(arrived'[w] <= arrived'[r])
      <4>1. r # w
        BY <1>2, <3>5
      <4>2. r \in Listed /\ Cardinality(Within(g, r, period)) <= limit /\ arrived'[r] = arrived[r]
        BY <1>2, <1>4, <3>1, <4>1 DEF WindowKept
      <4>3. ASSUME NEW q \in Within(g, r, period)' PROVE q \in Within(g, r, period)
        <5>1. q # w /\ q \in Listed /\ q \in g[r] /\ arrived'[q] + period >= arrived'[r] /\ arrived'[q] <= arrived'[r]
          BY <3>1, <3>5, <4>3 DEF Within, Recent
        <5> QED
          BY <1>2, <4>2, <5>1 DEF Within, Recent
      <4>4. Within(g, r, period) \subseteq QuotaRequests
        BY DEF Within, Recent, Listed
      <4>5. /\ Cardinality(Within(g, r, period)') \in Nat /\ Cardinality(Within(g, r, period)) \in Nat
            /\ Cardinality(Within(g, r, period)') <= Cardinality(Within(g, r, period))
        BY <4>3, <4>4, SubsetsOfRequests
      <4> QED
        BY <4>2, <4>5
    <3> QED
      BY <3>4, <3>5
  <2> QED
    BY <2>1, <2>2
<1> QED
  BY <1>3, <1>4 DEF WindowKept

LEMMA RunningSteps ==
  ASSUME RowInv, LockInv, [Q!Next]_(Q!vars), NEW g, Group(g), Exclusive(g), NEW limit \in Nat,
         RunningKept(g, limit),
         \A r \in QuotaRequests : pc[r] = "count" /\ r \in g[r] /\ Q!Allowed(r) => Cardinality(g[r] \cap Running) < limit
  PROVE  RunningKept(g, limit)'
<1>1. /\ \A q \in QuotaRequests : pc'[q] = "write" => pc[q] = "write" \/ (pc[q] = "count" /\ Q!Allowed(q))
      /\ \/ Running' \subseteq Running
         \/ \E w \in QuotaRequests : pc[w] = "write" /\ pc'[w] = "done" /\ Running' \subseteq Running \cup {w}
  BY RowSteps DEF Q!Count
<1>2. \A r \in QuotaRequests : g[r] \subseteq QuotaRequests
  BY DEF Group
<1>3. ASSUME NEW r \in QuotaRequests, r \in g[r], pc'[r] = "write"
      PROVE  Cardinality(g[r] \cap Running') < limit
  <2>1. Cardinality(g[r] \cap Running) < limit /\ pc[r] \in Transacting
    BY <1>1, <1>3 DEF RunningKept, Transacting
  <2>2. g[r] \cap Running' \subseteq g[r] \cap Running /\ g[r] \cap Running \subseteq QuotaRequests
    BY <1>1, <1>2, <1>3, <2>1 DEF Exclusive, Transacting
  <2>3. /\ Cardinality(g[r] \cap Running') \in Nat /\ Cardinality(g[r] \cap Running) \in Nat
        /\ Cardinality(g[r] \cap Running') <= Cardinality(g[r] \cap Running)
    BY <2>2, SubsetsOfRequests
  <2> QED
    BY <2>1, <2>3
<1>4. ASSUME NEW r \in QuotaRequests, r \in g[r]
      PROVE  Cardinality(g[r] \cap Running') <= limit
  <2>1. CASE g[r] \cap Running' \subseteq g[r] \cap Running
    <3>1. /\ Cardinality(g[r] \cap Running') \in Nat /\ Cardinality(g[r] \cap Running) \in Nat
          /\ Cardinality(g[r] \cap Running') <= Cardinality(g[r] \cap Running)
      BY <1>2, <2>1, SubsetsOfRequests
    <3> QED
      BY <1>4, <3>1 DEF RunningKept
  <2>2. CASE ~(g[r] \cap Running' \subseteq g[r] \cap Running)
    <3>1. PICK w \in QuotaRequests : w \in g[r] /\ pc[w] = "write" /\ Running' \subseteq Running \cup {w}
      BY <1>1, <2>2
    <3>2. g[w] = g[r] /\ w \in g[w] /\ Cardinality(g[r] \cap Running) < limit
      BY <3>1 DEF Group, RunningKept
    <3>3. g[r] \cap Running' \subseteq (g[r] \cap Running) \cup {w} /\ g[r] \cap Running \subseteq QuotaRequests
      BY <1>2, <3>1
    <3>4. /\ Cardinality(g[r] \cap Running) \in Nat
          /\ Cardinality((g[r] \cap Running) \cup {w}) \in Nat
          /\ Cardinality((g[r] \cap Running) \cup {w}) <= Cardinality(g[r] \cap Running) + 1
      BY <3>3, SubsetsOfRequests
    <3>5. /\ Cardinality(g[r] \cap Running') \in Nat
          /\ Cardinality(g[r] \cap Running') <= Cardinality((g[r] \cap Running) \cup {w})
      BY <3>1, <3>3, SubsetsOfRequests
    <3> QED
      BY <3>2, <3>4, <3>5
  <2> QED
    BY <2>1, <2>2
<1> QED
  BY <1>3, <1>4 DEF RunningKept

---------------------------------------------------------------------------
\* The groups, and for each the lock that its requests share.
Grouped(sort, key) ==
  [r \in QuotaRequests |-> {q \in QuotaRequests : RequestKind[q] = sort /\ RequestKind[r] = sort /\ key[q] = key[r]}]

KeyOfSite == [r \in QuotaRequests |-> Site[r]]
KeyOfOrg == [r \in QuotaRequests |-> Org[Site[r]]]
KeyOfUser == [r \in QuotaRequests |-> User[r]]
KeyOfHost == [r \in QuotaRequests |-> Host[Site[r]]]
KeyOfRecipient == [r \in QuotaRequests |-> [org |-> Org[Site[r]], to |-> Recipient[r]]]
SiteScans == Grouped("manual", KeyOfSite)
OrgScans == Grouped("manual", KeyOfOrg)
UserAudits == Grouped("public", KeyOfUser)
HostAudits == Grouped("public", KeyOfHost)
OrgMails == Grouped("email", KeyOfOrg)
RecipientMails == Grouped("email", KeyOfRecipient)

LEMMA GroupedIsGroup == ASSUME NEW sort, NEW key PROVE Group(Grouped(sort, key))
BY DEF Group, Grouped

LEMMA SharedLocksExclude ==
  ASSUME LockInv, NEW sort, NEW key, NEW i \in Nat,
         \A r \in QuotaRequests : RequestKind[r] = sort => i \in 1..Len(Q!LockOrder(r)),
         \A q, r \in QuotaRequests : RequestKind[q] = sort /\ RequestKind[r] = sort /\ key[q] = key[r]
                                => Q!LockOrder(q)[i] = Q!LockOrder(r)[i]
  PROVE  Exclusive(Grouped(sort, key))
<1> SUFFICES ASSUME NEW q \in QuotaRequests, NEW r \in QuotaRequests, q # r, RequestKind[q] = sort, RequestKind[r] = sort,
                    key[q] = key[r], pc[q] \in Transacting, pc[r] \in Transacting
             PROVE  FALSE
  BY DEF Exclusive, Grouped
<1>1. held[q] = Len(Q!LockOrder(q)) /\ held[r] = Len(Q!LockOrder(r))
  BY DEF LockInv
<1>2. Q!LockOrder(q)[i] \in Q!HeldLocks(q) /\ Q!LockOrder(r)[i] \in Q!HeldLocks(r)
  BY <1>1 DEF Q!HeldLocks
<1> QED
  BY <1>2 DEF LockInv

LEMMA GroupsExclude ==
  ASSUME LockInv
  PROVE  /\ Exclusive(SiteScans) /\ Exclusive(OrgScans) /\ Exclusive(UserAudits)
         /\ Exclusive(HostAudits) /\ Exclusive(OrgMails) /\ Exclusive(RecipientMails)
<1>1. Exclusive(SiteScans)
  <2>1. \A r \in QuotaRequests : RequestKind[r] = "manual" => 2 \in 1..Len(Q!LockOrder(r))
    BY LockOrders
  <2>2. \A q, r \in QuotaRequests : RequestKind[q] = "manual" /\ RequestKind[r] = "manual" /\ KeyOfSite[q] = KeyOfSite[r]
                               => Q!LockOrder(q)[2] = Q!LockOrder(r)[2]
    BY LockOrders DEF KeyOfSite
  <2> QED
    BY <2>1, <2>2, SharedLocksExclude DEF SiteScans
<1>2. Exclusive(OrgScans)
  <2>1. \A r \in QuotaRequests : RequestKind[r] = "manual" => 1 \in 1..Len(Q!LockOrder(r))
    BY LockOrders
  <2>2. \A q, r \in QuotaRequests : RequestKind[q] = "manual" /\ RequestKind[r] = "manual" /\ KeyOfOrg[q] = KeyOfOrg[r]
                               => Q!LockOrder(q)[1] = Q!LockOrder(r)[1]
    BY LockOrders DEF KeyOfOrg
  <2> QED
    BY <2>1, <2>2, SharedLocksExclude DEF OrgScans
<1>3. Exclusive(UserAudits)
  <2>1. \A r \in QuotaRequests : RequestKind[r] = "public" => 1 \in 1..Len(Q!LockOrder(r))
    BY LockOrders
  <2>2. \A q, r \in QuotaRequests : RequestKind[q] = "public" /\ RequestKind[r] = "public" /\ KeyOfUser[q] = KeyOfUser[r]
                               => Q!LockOrder(q)[1] = Q!LockOrder(r)[1]
    BY LockOrders DEF KeyOfUser
  <2> QED
    BY <2>1, <2>2, SharedLocksExclude DEF UserAudits
<1>4. Exclusive(HostAudits)
  <2>1. \A r \in QuotaRequests : RequestKind[r] = "public" => 2 \in 1..Len(Q!LockOrder(r))
    BY LockOrders
  <2>2. \A q, r \in QuotaRequests : RequestKind[q] = "public" /\ RequestKind[r] = "public" /\ KeyOfHost[q] = KeyOfHost[r]
                               => Q!LockOrder(q)[2] = Q!LockOrder(r)[2]
    BY LockOrders DEF KeyOfHost
  <2> QED
    BY <2>1, <2>2, SharedLocksExclude DEF HostAudits
<1>5. \A r \in QuotaRequests : RequestKind[r] = "email" => 2 \in 1..Len(Q!LockOrder(r))
  BY LockOrders
<1>6. Exclusive(OrgMails)
  <2>1. \A q, r \in QuotaRequests : RequestKind[q] = "email" /\ RequestKind[r] = "email" /\ KeyOfOrg[q] = KeyOfOrg[r]
                               => Q!LockOrder(q)[2] = Q!LockOrder(r)[2]
    BY LockOrders DEF KeyOfOrg
  <2> QED
    BY <1>5, <2>1, SharedLocksExclude DEF OrgMails
<1>7. Exclusive(RecipientMails)
  <2>1. \A q, r \in QuotaRequests : KeyOfRecipient[q] = KeyOfRecipient[r] => Org[Site[q]] = Org[Site[r]]
    BY DEF KeyOfRecipient
  <2>2. \A q, r \in QuotaRequests : RequestKind[q] = "email" /\ RequestKind[r] = "email" /\ KeyOfRecipient[q] = KeyOfRecipient[r]
                               => Q!LockOrder(q)[2] = Q!LockOrder(r)[2]
    BY <2>1, LockOrders
  <2> QED
    BY <1>5, <2>2, SharedLocksExclude DEF RecipientMails
<1> QED
  BY <1>1, <1>2, <1>3, <1>4, <1>6, <1>7

---------------------------------------------------------------------------
QuotaInv ==
  /\ LockInv /\ RowInv
  /\ WindowKept(SiteScans, Hour, SiteHourly) /\ WindowKept(OrgScans, Day, OrgDaily)
  /\ WindowKept(UserAudits, Hour, UserHourly)
  /\ RunningKept(UserAudits, UserConcurrent) /\ RunningKept(HostAudits, 1)
  /\ WindowKept(OrgMails, Day, MailDaily) /\ WindowKept(RecipientMails, Day, RecipientDaily)
  /\ RunningKept(OrgMails, MailOpen)

LEMMA CardinalityOfRows == \A set : Q!Cardinality(set) = Cardinality(set)
BY DEF Cardinality, Q!Cardinality

\* Nothing is listed at first.
LEMMA QuotasStart == Q!Init => QuotaInv
<1> SUFFICES ASSUME Q!Init PROVE QuotaInv
  OBVIOUS
<1>1. Listed = {} /\ Running = {} /\ \A r \in QuotaRequests : pc[r] = "new"
  BY DEF Q!Init, Listed, Running
<1>2. ASSUME NEW g, NEW period, NEW limit PROVE WindowKept(g, period, limit)
  BY <1>1 DEF WindowKept
<1>3. ASSUME NEW g, NEW limit \in Nat PROVE RunningKept(g, limit)
  <2>1. \A r : g[r] \cap Running = {} /\ Cardinality({}) = 0
    BY <1>1, FS_EmptySet
  <2> QED
    BY <1>1, <2>1 DEF RunningKept
<1> QED
  BY <1>2, <1>3, LocksStart, RowsStart, QuotasAssumption DEF QuotaInv

\* What a request counts is at least what its group has.
LEMMA CountsAreBelow ==
  ASSUME NEW set, NEW sup, set \subseteq sup, sup \subseteq QuotaRequests, NEW limit \in Nat, Q!Below(sup, limit)
  PROVE  Cardinality(set) < limit
<1>1. Cardinality(set) \in Nat /\ Cardinality(sup) \in Nat /\ Cardinality(set) <= Cardinality(sup)
  BY SubsetsOfRequests
<1>2. Cardinality(sup) < limit
  BY CardinalityOfRows DEF Q!Below
<1> QED
  BY <1>1, <1>2

LEMMA AllowedIsBelow ==
  ASSUME NEW r \in QuotaRequests, Q!Allowed(r)
  PROVE  /\ r \in SiteScans[r] => Cardinality(Recent(SiteScans, r, Hour)) < SiteHourly
         /\ r \in OrgScans[r] => Cardinality(Recent(OrgScans, r, Day)) < OrgDaily
         /\ r \in UserAudits[r] => /\ Cardinality(Recent(UserAudits, r, Hour)) < UserHourly
                                   /\ Cardinality(UserAudits[r] \cap Running) < UserConcurrent
         /\ r \in HostAudits[r] => Cardinality(HostAudits[r] \cap Running) < 1
         /\ r \in OrgMails[r] => /\ Cardinality(Recent(OrgMails, r, Day)) < MailDaily
                                 /\ Cardinality(OrgMails[r] \cap Running) < MailOpen
         /\ r \in RecipientMails[r] => Cardinality(Recent(RecipientMails, r, Day)) < RecipientDaily
<1> USE DEF Q!Since, Q!OfSite, Q!OfOrg, Q!OfUser, Q!OfHost, Q!OfRecipient, Q!Active, Q!Rows, Grouped,
            Recent, Listed, Running
<1>1. ASSUME r \in SiteScans[r] PROVE Cardinality(Recent(SiteScans, r, Hour)) < SiteHourly
  <2>1. Q!Below(Q!Since(r, Q!OfSite(r, Q!ManualScans), Hour), SiteHourly)
    BY <1>1 DEF Q!Allowed, Q!ManualAllowed, SiteScans
  <2>2. Recent(SiteScans, r, Hour) \subseteq Q!Since(r, Q!OfSite(r, Q!ManualScans), Hour)
        /\ Q!Since(r, Q!OfSite(r, Q!ManualScans), Hour) \subseteq QuotaRequests
    BY DEF SiteScans, KeyOfSite, Q!ManualScans
  <2> QED
    BY <2>1, <2>2, CountsAreBelow, QuotasAssumption
<1>2. ASSUME r \in OrgScans[r] PROVE Cardinality(Recent(OrgScans, r, Day)) < OrgDaily
  <2>1. Q!Below(Q!Since(r, Q!OfOrg(r, Q!ManualScans), Day), OrgDaily)
    BY <1>2 DEF Q!Allowed, Q!ManualAllowed, OrgScans
  <2>2. Recent(OrgScans, r, Day) \subseteq Q!Since(r, Q!OfOrg(r, Q!ManualScans), Day)
        /\ Q!Since(r, Q!OfOrg(r, Q!ManualScans), Day) \subseteq QuotaRequests
    BY DEF OrgScans, KeyOfOrg, Q!ManualScans
  <2> QED
    BY <2>1, <2>2, CountsAreBelow, QuotasAssumption
<1>3. ASSUME r \in UserAudits[r]
      PROVE  /\ Cardinality(Recent(UserAudits, r, Hour)) < UserHourly
             /\ Cardinality(UserAudits[r] \cap Running) < UserConcurrent
  <2>1. /\ Q!Below(Q!Since(r, Q!OfUser(r, Q!Rows("public")), Hour), UserHourly)
        /\ Q!Below(Q!Active(Q!OfUser(r, Q!Rows("public"))), UserConcurrent)
    BY <1>3 DEF Q!Allowed, Q!PublicAllowed, UserAudits
  <2>2. Recent(UserAudits, r, Hour) \subseteq Q!Since(r, Q!OfUser(r, Q!Rows("public")), Hour)
        /\ Q!Since(r, Q!OfUser(r, Q!Rows("public")), Hour) \subseteq QuotaRequests
    BY DEF UserAudits, KeyOfUser
  <2>3. UserAudits[r] \cap Running \subseteq Q!Active(Q!OfUser(r, Q!Rows("public")))
        /\ Q!Active(Q!OfUser(r, Q!Rows("public"))) \subseteq QuotaRequests
    BY DEF UserAudits, KeyOfUser
  <2> QED
    BY <2>1, <2>2, <2>3, CountsAreBelow, QuotasAssumption
<1>4. ASSUME r \in HostAudits[r] PROVE Cardinality(HostAudits[r] \cap Running) < 1
  <2>1. Q!Active(Q!OfHost(r, Q!Scans)) = {}
    BY <1>4 DEF Q!Allowed, Q!PublicAllowed, HostAudits
  <2>2. HostAudits[r] \cap Running \subseteq Q!Active(Q!OfHost(r, Q!Scans))
    BY DEF HostAudits, KeyOfHost, Q!Scans
  <2>3. HostAudits[r] \cap Running = {} /\ Cardinality({}) = 0
    BY <2>1, <2>2, FS_EmptySet
  <2> QED
    BY <2>3
<1>5. ASSUME r \in OrgMails[r]
      PROVE  /\ Cardinality(Recent(OrgMails, r, Day)) < MailDaily
             /\ Cardinality(OrgMails[r] \cap Running) < MailOpen
  <2>1. /\ Q!Below(Q!Since(r, Q!OfOrg(r, Q!Rows("email")), Day), MailDaily)
        /\ Q!Below(Q!Active(Q!OfOrg(r, Q!Rows("email"))), MailOpen)
    BY <1>5 DEF Q!Allowed, Q!EmailAllowed, OrgMails
  <2>2. Recent(OrgMails, r, Day) \subseteq Q!Since(r, Q!OfOrg(r, Q!Rows("email")), Day)
        /\ Q!Since(r, Q!OfOrg(r, Q!Rows("email")), Day) \subseteq QuotaRequests
    BY DEF OrgMails, KeyOfOrg
  <2>3. OrgMails[r] \cap Running \subseteq Q!Active(Q!OfOrg(r, Q!Rows("email")))
        /\ Q!Active(Q!OfOrg(r, Q!Rows("email"))) \subseteq QuotaRequests
    BY DEF OrgMails, KeyOfOrg
  <2> QED
    BY <2>1, <2>2, <2>3, CountsAreBelow, QuotasAssumption
<1>6. ASSUME r \in RecipientMails[r] PROVE Cardinality(Recent(RecipientMails, r, Day)) < RecipientDaily
  <2>1. Q!Below(Q!Since(r, Q!OfRecipient(r, Q!Rows("email")), Day), RecipientDaily)
    BY <1>6 DEF Q!Allowed, Q!EmailAllowed, RecipientMails
  <2>2. \A q \in QuotaRequests : KeyOfRecipient[q] = KeyOfRecipient[r]
                            => Org[Site[q]] = Org[Site[r]] /\ Recipient[q] = Recipient[r]
    BY DEF KeyOfRecipient
  <2>3. Recent(RecipientMails, r, Day) \subseteq Q!Since(r, Q!OfRecipient(r, Q!Rows("email")), Day)
        /\ Q!Since(r, Q!OfRecipient(r, Q!Rows("email")), Day) \subseteq QuotaRequests
    BY <2>2 DEF RecipientMails
  <2> QED
    BY <2>1, <2>3, CountsAreBelow, QuotasAssumption
<1> QED
  BY <1>1, <1>2, <1>3, <1>4, <1>5, <1>6

LEMMA QuotaSteps ==
  ASSUME QuotaInv, [Q!Next]_(Q!vars)
  PROVE  QuotaInv'
<1>1. LockInv' /\ RowInv'
  BY LockSteps, RowSteps DEF QuotaInv
<1>2. LockInv /\ RowInv /\ {Hour, Day, SiteHourly, OrgDaily, UserHourly, UserConcurrent, MailDaily,
                            RecipientDaily, MailOpen, 1} \subseteq Nat
  BY QuotasAssumption DEF QuotaInv
<1>3. /\ Group(SiteScans) /\ Group(OrgScans) /\ Group(UserAudits)
      /\ Group(HostAudits) /\ Group(OrgMails) /\ Group(RecipientMails)
  BY GroupedIsGroup DEF SiteScans, OrgScans, UserAudits, HostAudits, OrgMails, RecipientMails
<1>4. WindowKept(SiteScans, Hour, SiteHourly)'
  BY <1>2, <1>3, GroupsExclude, AllowedIsBelow, WindowSteps DEF QuotaInv
<1>5. WindowKept(OrgScans, Day, OrgDaily)'
  BY <1>2, <1>3, GroupsExclude, AllowedIsBelow, WindowSteps DEF QuotaInv
<1>6. WindowKept(UserAudits, Hour, UserHourly)'
  BY <1>2, <1>3, GroupsExclude, AllowedIsBelow, WindowSteps DEF QuotaInv
<1>7. RunningKept(UserAudits, UserConcurrent)'
  BY <1>2, <1>3, GroupsExclude, AllowedIsBelow, RunningSteps DEF QuotaInv
<1>8. RunningKept(HostAudits, 1)'
  BY <1>2, <1>3, GroupsExclude, AllowedIsBelow, RunningSteps DEF QuotaInv
<1>9. WindowKept(OrgMails, Day, MailDaily)'
  BY <1>2, <1>3, GroupsExclude, AllowedIsBelow, WindowSteps DEF QuotaInv
<1>10. WindowKept(RecipientMails, Day, RecipientDaily)'
  BY <1>2, <1>3, GroupsExclude, AllowedIsBelow, WindowSteps DEF QuotaInv
<1>11. RunningKept(OrgMails, MailOpen)'
  BY <1>2, <1>3, GroupsExclude, AllowedIsBelow, RunningSteps DEF QuotaInv
<1> QED
  BY <1>1, <1>4, <1>5, <1>6, <1>7, <1>8, <1>9, <1>10, <1>11 DEF QuotaInv

LEMMA QuotasAreKept == QuotaInv => Q!WindowsBounded /\ Q!AuditsExclusive
<1> SUFFICES ASSUME QuotaInv PROVE Q!WindowsBounded /\ Q!AuditsExclusive
  OBVIOUS
<1> USE CardinalityOfRows DEF Q!Window, Q!OfSite, Q!OfOrg, Q!OfUser, Q!OfHost, Q!Active, Q!Rows, Grouped,
            Recent, Within, Listed, Running
<1>1. ASSUME NEW r \in Q!Rows("manual")
      PROVE  /\ Q!Cardinality(Q!Window(r, Q!OfSite(r, Q!Rows("manual")), Hour)) <= SiteHourly
             /\ Q!Cardinality(Q!Window(r, Q!OfOrg(r, Q!Rows("manual")), Day)) <= OrgDaily
  <2>1. r \in QuotaRequests /\ r \in Listed /\ r \in SiteScans[r] /\ r \in OrgScans[r]
    BY <1>1 DEF SiteScans, OrgScans
  <2>2. Q!Window(r, Q!OfSite(r, Q!Rows("manual")), Hour) = Within(SiteScans, r, Hour)
    BY <1>1 DEF SiteScans, KeyOfSite
  <2>3. Q!Window(r, Q!OfOrg(r, Q!Rows("manual")), Day) = Within(OrgScans, r, Day)
    BY <1>1 DEF OrgScans, KeyOfOrg
  <2>4. Cardinality(Within(SiteScans, r, Hour)) <= SiteHourly /\ Cardinality(Within(OrgScans, r, Day)) <= OrgDaily
    BY <2>1 DEF QuotaInv, WindowKept
  <2> QED
    BY <2>2, <2>3, <2>4
<1>2. ASSUME NEW r \in Q!Rows("public")
      PROVE  Q!Cardinality(Q!Window(r, Q!OfUser(r, Q!Rows("public")), Hour)) <= UserHourly
  <2>1. r \in QuotaRequests /\ r \in Listed /\ r \in UserAudits[r]
    BY <1>2 DEF UserAudits
  <2>2. Q!Window(r, Q!OfUser(r, Q!Rows("public")), Hour) = Within(UserAudits, r, Hour)
    BY <1>2 DEF UserAudits, KeyOfUser
  <2>3. Cardinality(Within(UserAudits, r, Hour)) <= UserHourly
    BY <2>1 DEF QuotaInv, WindowKept
  <2> QED
    BY <2>2, <2>3
<1>3. ASSUME NEW r \in Q!Rows("email")
      PROVE  /\ Q!Cardinality(Q!Window(r, Q!OfOrg(r, Q!Rows("email")), Day)) <= MailDaily
             /\ Q!Cardinality(Q!Window(r, Q!OfRecipient(r, Q!Rows("email")), Day)) <= RecipientDaily
             /\ Q!Cardinality(Q!Active(Q!OfOrg(r, Q!Rows("email")))) <= MailOpen
  <2>1. r \in QuotaRequests /\ r \in Listed /\ r \in OrgMails[r] /\ r \in RecipientMails[r]
    BY <1>3 DEF OrgMails, RecipientMails
  <2>2. Q!Window(r, Q!OfOrg(r, Q!Rows("email")), Day) = Within(OrgMails, r, Day)
        /\ Q!Active(Q!OfOrg(r, Q!Rows("email"))) = OrgMails[r] \cap Running
    BY <1>3 DEF OrgMails, KeyOfOrg
  <2>3. \A q \in QuotaRequests : KeyOfRecipient[q] = KeyOfRecipient[r]
                            <=> Org[Site[q]] = Org[Site[r]] /\ Recipient[q] = Recipient[r]
    BY <2>1 DEF KeyOfRecipient
  <2>4. Q!Window(r, Q!OfRecipient(r, Q!Rows("email")), Day) = Within(RecipientMails, r, Day)
    BY <1>3, <2>3 DEF RecipientMails, Q!OfRecipient
  <2>5. /\ Cardinality(Within(OrgMails, r, Day)) <= MailDaily
        /\ Cardinality(Within(RecipientMails, r, Day)) <= RecipientDaily
        /\ Cardinality(OrgMails[r] \cap Running) <= MailOpen
    BY <2>1 DEF QuotaInv, WindowKept, RunningKept
  <2> QED
    BY <2>2, <2>4, <2>5
<1>4. ASSUME NEW r \in Q!Active(Q!Rows("public"))
      PROVE  /\ Q!Active(Q!OfHost(r, Q!Rows("public"))) = {r}
             /\ Q!Cardinality(Q!Active(Q!OfUser(r, Q!Rows("public")))) <= UserConcurrent
  <2>1. r \in QuotaRequests /\ r \in UserAudits[r] /\ r \in HostAudits[r] /\ r \in Running
    BY <1>4 DEF UserAudits, HostAudits
  <2>2. /\ Q!Active(Q!OfUser(r, Q!Rows("public"))) = UserAudits[r] \cap Running
        /\ Q!Active(Q!OfHost(r, Q!Rows("public"))) = HostAudits[r] \cap Running
    BY <1>4 DEF UserAudits, HostAudits, KeyOfUser, KeyOfHost
  <2>3. Cardinality(HostAudits[r] \cap Running) <= 1 /\ Cardinality(UserAudits[r] \cap Running) <= UserConcurrent
    BY <2>1 DEF QuotaInv, RunningKept
  <2>4. IsFiniteSet(HostAudits[r] \cap Running)
    <3>1. HostAudits[r] \cap Running \subseteq QuotaRequests
      OBVIOUS
    <3> QED
      BY <3>1, RequestsAssumption, FS_Subset
  <2>5. HostAudits[r] \cap Running = {r}
    <3> DEFINE audits == HostAudits[r] \cap Running
    <3>1. r \in audits /\ Cardinality(audits) \in Nat /\ Cardinality(audits) # 0
      BY <2>1, <2>4, FS_CardinalityType, FS_EmptySet
    <3>2. Cardinality(audits) = 1
      BY <2>3, <3>1
    <3>3. PICK x : audits = {x}
      BY <2>4, <3>2, FS_Singleton
    <3> QED
      BY <3>1, <3>3
  <2> QED
    BY <2>2, <2>3, <2>5
<1> QED
  BY <1>1, <1>2, <1>3, <1>4 DEF Q!WindowsBounded, Q!AuditsExclusive

---------------------------------------------------------------------------
(* The ownership proof of a site (OwnershipProof).                         *)

\* A challenge is the newest one ever issued, and who verifies one has read it.
ChallengeIsNewest == challenge # 0 => challenge = issued
VerifiersHoldTokens == \A c \in ProofCalls : call[c].kind = "verify" => call[c].token # 0
ProofInv == O!TypeOK /\ ChallengeIsNewest /\ VerifiersHoldTokens

LEMMA ProofsStart == O!Init => ProofInv
<1> USE ChallengesAssumption
<1> SUFFICES ASSUME O!Init PROVE ProofInv
  OBVIOUS
<1>1. call \in [ProofCalls -> O!Call] /\ VerifiersHoldTokens
  BY DEF O!Init, O!NoCall, O!Call, O!Kinds, O!Answers, VerifiersHoldTokens
<1>2. proof \in O!Proofs /\ proof.token = 0
  BY DEF O!Init, O!NoProof, O!Proofs
<1>3. lapsed \in BOOLEAN
  BY DEF O!Init
<1>4. issued = 0 /\ challenge = 0 /\ site = "pending" /\ record = {}
  BY DEF O!Init
<1> QED
  BY <1>1, <1>2, <1>3, <1>4 DEF ProofInv, O!TypeOK, ChallengeIsNewest

\* What a call may become: nothing, or what it was with an answer.
LEMMA VerifierEnds ==
  ASSUME ProofInv, NEW c \in ProofCalls, call' = [call EXCEPT ![c] = O!NoCall]
  PROVE  call' \in [ProofCalls -> O!Call] /\ VerifiersHoldTokens'
BY DEF ProofInv, O!TypeOK, VerifiersHoldTokens, O!NoCall, O!Call, O!Kinds, O!Answers

LEMMA VerifierBegins ==
  ASSUME ProofInv, NEW c \in ProofCalls, NEW k \in O!Kinds, NEW token \in {0} \cup O!Tokens,
         O!Begin(c, k, token), k = "verify" => token # 0
  PROVE  ProofInv'
<1>1. call' = [call EXCEPT ![c] = [kind |-> k, token |-> token, answer |-> "none"]]
  BY DEF O!Begin
<1>2. [kind |-> k, token |-> token, answer |-> "none"] \in O!Call
  BY DEF O!Call, O!Answers
<1>3. call' \in [ProofCalls -> O!Call]
  BY <1>1, <1>2 DEF ProofInv, O!TypeOK
<1>4. VerifiersHoldTokens'
  BY <1>1 DEF ProofInv, O!TypeOK, VerifiersHoldTokens
<1> QED
  BY <1>3, <1>4 DEF O!Begin, ProofInv, O!TypeOK, ChallengeIsNewest

LEMMA ProofSteps ==
  ASSUME ProofInv, [O!Next]_(O!vars)
  PROVE  ProofInv'
<1> USE ChallengesAssumption DEF ProofInv
<1>1. CASE O!EditRecord
  BY <1>1 DEF O!EditRecord, O!TypeOK, ChallengeIsNewest, VerifiersHoldTokens
<1>2. CASE O!PauseOrResume
  BY <1>2 DEF O!PauseOrResume, O!TypeOK, ChallengeIsNewest, VerifiersHoldTokens
<1>3. CASE O!Expire
  <2>1. proof' \in O!Proofs /\ proof'.token = proof.token
    BY <1>3 DEF O!Expire, O!TypeOK, O!Proofs
  <2> QED
    BY <1>3, <2>1 DEF O!Expire, O!TypeOK, ChallengeIsNewest, VerifiersHoldTokens
<1>4. ASSUME NEW c \in ProofCalls, O!Step(c) PROVE ProofInv'
  <2>1. CASE O!BeginIssue(c)
    BY <2>1, VerifierBegins DEF O!BeginIssue, O!Kinds
  <2>2. CASE O!IssueChallenge(c)
    <3>1. call' \in [ProofCalls -> O!Call] /\ VerifiersHoldTokens'
      BY <2>2, VerifierEnds DEF O!IssueChallenge
    <3>2. lapsed' \in BOOLEAN
      BY <2>2 DEF O!IssueChallenge
    <3>3. proof.token \in Nat
      BY DEF O!TypeOK, O!Proofs, O!Tokens
    <3>4. /\ issued < MaxChallenges /\ issued' = issued + 1 /\ challenge' = issued + 1
          /\ UNCHANGED <<site, proof, record>>
      BY <2>2 DEF O!IssueChallenge
    <3> QED
      BY <3>1, <3>2, <3>3, <3>4 DEF O!TypeOK, ChallengeIsNewest
  <2>3. CASE O!BeginVerify(c)
    <3>1. challenge \in {0} \cup O!Tokens /\ proof.token \in {0} \cup O!Tokens
      BY DEF O!TypeOK, O!Proofs, O!Tokens
    <3> QED
      BY <2>3, <3>1, VerifierBegins DEF O!BeginVerify, O!Kinds
  <2>4. CASE O!BeginRefresh(c)
    <3>1. proof.token \in {0} \cup O!Tokens
      BY DEF O!TypeOK, O!Proofs
    <3> QED
      BY <2>4, <3>1, VerifierBegins DEF O!BeginRefresh, O!Kinds
  <2>5. CASE O!LookUp(c)
    <3>1. PICK answer \in O!Answers : call' = [call EXCEPT ![c].answer = answer]
      BY <2>5 DEF O!LookUp, O!Answers
    <3>2. [call[c] EXCEPT !.answer = answer] \in O!Call
      BY DEF O!TypeOK, O!Call
    <3>3. call' \in [ProofCalls -> O!Call]
      BY <3>1, <3>2 DEF O!TypeOK
    <3>4. VerifiersHoldTokens'
      BY <3>1 DEF O!TypeOK, O!Call, VerifiersHoldTokens
    <3> QED
      BY <2>5, <3>3, <3>4 DEF O!LookUp, O!TypeOK, ChallengeIsNewest
  <2>6. CASE O!GiveUp(c)
    BY <2>6, VerifierEnds DEF O!GiveUp, O!TypeOK, ChallengeIsNewest
  <2>7. CASE O!Verify(c)
    <3>1. call' \in [ProofCalls -> O!Call] /\ VerifiersHoldTokens'
      BY <2>7, VerifierEnds DEF O!Verify
    <3>2. CASE O!SameChallenge(c)
      <4>1. call[c].token # 0 /\ call[c].token = challenge
        BY <2>7, <3>2 DEF O!Verify, O!SameChallenge, VerifiersHoldTokens
      <4>2. proof' \in O!Proofs /\ proof'.token = call[c].token
        BY <2>7, <3>2 DEF O!Verify, O!TypeOK, O!Call, O!Proofs, O!NoProof
      <4>3. issued' = issued /\ record' = record /\ challenge' = 0
        BY <2>7, <3>2 DEF O!Verify, O!UsedUp
      <4>4. site' \in {"active", "paused"}
        BY <2>7, <3>2 DEF O!Verify, O!TypeOK
      <4>5. lapsed' \in BOOLEAN
        BY <2>7, <3>2 DEF O!Verify
      <4>6. proof.token \in Nat
        BY DEF O!TypeOK, O!Proofs, O!Tokens
      <4> QED
        BY <3>1, <4>1, <4>2, <4>3, <4>4, <4>5, <4>6 DEF O!TypeOK, ChallengeIsNewest
    <3>3. CASE ~O!SameChallenge(c)
      BY <2>7, <3>1, <3>3 DEF O!Verify, O!TypeOK, ChallengeIsNewest
    <3> QED
      BY <3>2, <3>3
  <2>8. CASE O!Refresh(c)
    <3>1. call' \in [ProofCalls -> O!Call] /\ VerifiersHoldTokens'
      BY <2>8, VerifierEnds DEF O!Refresh
    <3>2. proof' \in O!Proofs /\ proof'.token = proof.token
      BY Zenon, <2>8 DEF O!Refresh, O!TypeOK, O!Proofs
    <3> QED
      BY <2>8, <3>1, <3>2 DEF O!Refresh, O!TypeOK, ChallengeIsNewest
  <2>9. CASE O!Invalidate(c)
    <3>1. call' \in [ProofCalls -> O!Call] /\ VerifiersHoldTokens'
      BY <2>9, VerifierEnds DEF O!Invalidate
    <3>2. proof' \in O!Proofs /\ proof'.token = proof.token
      BY <2>9 DEF O!Invalidate, O!TypeOK, O!Proofs
    <3> QED
      BY <2>9, <3>1, <3>2 DEF O!Invalidate, O!TypeOK, ChallengeIsNewest
  <2> QED
    BY <1>4, <2>1, <2>2, <2>3, <2>4, <2>5, <2>6, <2>7, <2>8, <2>9 DEF O!Step
<1>5. CASE UNCHANGED O!vars
  BY <1>5 DEF O!vars, O!TypeOK, ChallengeIsNewest, VerifiersHoldTokens
<1> QED
  BY <1>1, <1>2, <1>3, <1>4, <1>5 DEF O!Next

\* The columns of the proof change in four ways only: they expire, or a call
\* verifies, prolongs or invalidates.
LEMMA ProofChanges ==
  ASSUME ProofInv, [O!Next]_(O!vars), proof' # proof
  PROVE  \/ proof' = [proof EXCEPT !.expired = TRUE]
         \/ \E c \in ProofCalls : \/ O!Verify(c) /\ O!SameChallenge(c)
                                  \/ O!Refresh(c) /\ O!SameProof(c)
                                  \/ O!Invalidate(c) /\ O!SameProof(c)
BY DEF O!Next, O!vars, O!EditRecord, O!PauseOrResume, O!Expire, O!Step, O!BeginIssue,
       O!IssueChallenge, O!Begin, O!BeginVerify, O!BeginRefresh, O!LookUp, O!GiveUp, O!Verify,
       O!Refresh, O!Invalidate

\* What a step may do to the proof.
ByChallenge ==
  /\ proof'.token # proof.token =>
       proof'.token = challenge /\ proof'.token = issued /\ challenge' = 0
  /\ proof.invalid /\ ~proof'.invalid => proof'.token # proof.token
ByLookup ==
  \A answer \in {"match", "missing"} :
    /\ proof'.token = proof.token
    /\ \/ answer = "match" /\ proof.expired /\ ~proof'.expired
       \/ answer = "missing" /\ ~proof.invalid /\ proof'.invalid
    => \E c \in ProofCalls : call[c].answer = answer /\ call[c].token = proof.token

LEMMA ChallengesFollowed ==
  ASSUME ProofInv, [O!Next]_(O!vars)
  PROVE  ByChallenge
<1> USE DEF ByChallenge
<1>1. proof \in O!Proofs
  BY DEF ProofInv, O!TypeOK
<1>2. CASE proof' = proof
  BY <1>2
<1>3. CASE proof' = [proof EXCEPT !.expired = TRUE]
  BY <1>1, <1>3 DEF O!Proofs
<1>4. ASSUME NEW c \in ProofCalls, O!Verify(c), O!SameChallenge(c) PROVE ByChallenge
  <2>1. call[c].token = challenge /\ challenge # 0 /\ challenge = issued
    BY <1>4 DEF O!Verify, O!SameChallenge, ProofInv, VerifiersHoldTokens, ChallengeIsNewest
  <2>2. challenge > proof.token /\ challenge # proof.token
    BY <2>1, <1>1 DEF ProofInv, O!TypeOK, O!Proofs, O!Tokens
  <2>3. proof'.token = call[c].token /\ challenge' = 0
    BY <1>4 DEF O!Verify, O!NoProof, O!UsedUp
  <2> QED
    BY <2>1, <2>2, <2>3
<1>5. ASSUME NEW c \in ProofCalls, O!Refresh(c) \/ O!Invalidate(c), O!SameProof(c) PROVE ByChallenge
  BY <1>1, <1>5 DEF O!Refresh, O!Invalidate, O!SameProof, O!Proofs
<1> QED
  BY <1>2, <1>3, <1>4, <1>5, ProofChanges

LEMMA LookupsFollowed ==
  ASSUME ProofInv, [O!Next]_(O!vars)
  PROVE  ByLookup
<1> USE DEF ByLookup
<1>1. proof \in O!Proofs
  BY DEF ProofInv, O!TypeOK
<1>2. CASE proof' = proof
  BY <1>2
<1>3. CASE proof' = [proof EXCEPT !.expired = TRUE]
  BY <1>1, <1>3 DEF O!Proofs
<1>4. ASSUME NEW c \in ProofCalls, O!Verify(c), O!SameChallenge(c) PROVE ByLookup
  <2>1. call[c].token = challenge /\ challenge # 0
    BY <1>4 DEF O!Verify, O!SameChallenge, ProofInv, VerifiersHoldTokens
  <2>2. challenge # proof.token
    BY <2>1, <1>1 DEF ProofInv, O!TypeOK, O!Proofs, O!Tokens
  <2>3. proof'.token = call[c].token
    BY <1>4 DEF O!Verify, O!NoProof
  <2> QED
    BY <2>1, <2>2, <2>3
<1>5. ASSUME NEW c \in ProofCalls, O!Refresh(c), O!SameProof(c) PROVE ByLookup
  <2>1. proof'.invalid = proof.invalid
    BY <1>1, <1>5 DEF O!Refresh, O!Proofs
  <2> QED
    BY <1>5, <2>1 DEF O!Refresh, O!SameProof
<1>6. ASSUME NEW c \in ProofCalls, O!Invalidate(c), O!SameProof(c) PROVE ByLookup
  <2>1. proof'.expired = proof.expired
    BY <1>1, <1>6 DEF O!Invalidate, O!Proofs
  <2> QED
    BY <1>6, <2>1 DEF O!Invalidate, O!SameProof
<1> QED
  BY <1>2, <1>3, <1>4, <1>5, <1>6, ProofChanges

---------------------------------------------------------------------------
(* The grants of Deep audits (DeepGrants).                                 *)

AttemptRows == [status: G!Running \cup {"new", "denied", "persisted"},
         read: Nat, matched: BOOLEAN, proof: Nat,
         token: Nat, leased: BOOLEAN, outlived: BOOLEAN]

\* The fence: an attempt that outlived a revocation has lost its lease.
OutlivedHaveNoLease ==
  /\ attempt \in [Attempts -> AttemptRows]
  /\ \A a \in Attempts : attempt[a].outlived => ~attempt[a].leased

\* The grants are numbered: a challenge is the newest token, and newer than
\* the grant; whoever verifies one has read it.
TokensInOrder ==
  /\ tokens \in Nat /\ offered \in Nat
  /\ grant \in [token: Nat, revoked: BOOLEAN, expired: BOOLEAN]
  /\ grant.token <= tokens
  /\ offered # 0 => offered = tokens /\ offered > grant.token
  /\ admin \in [Admins -> [token: Nat, matched: BOOLEAN]]
  /\ \A c \in Admins : admin[c].matched => admin[c].token # 0

ProofIsNumbered == ownership \in [proof: Nat, current: BOOLEAN]
GrantInv == OutlivedHaveNoLease /\ TokensInOrder /\ ProofIsNumbered

(* The attempts.                                                           *)

LEMMA RowKeepsFence ==
  ASSUME OutlivedHaveNoLease, NEW a \in Attempts, NEW value \in AttemptRows,
         value.outlived => ~value.leased, attempt' = [attempt EXCEPT ![a] = value]
  PROVE  OutlivedHaveNoLease'
BY DEF OutlivedHaveNoLease

\* A row without a history: that of an attempt before it starts or when it ends.
LEMMA Unmarked ==
  ASSUME NEW status \in G!Running \cup {"new", "denied", "persisted"}
  PROVE  /\ [G!Fresh EXCEPT !.status = status] \in AttemptRows
         /\ ~[G!Fresh EXCEPT !.status = status].outlived
         /\ ~[G!Fresh EXCEPT !.status = status].leased
BY DEF G!Fresh, AttemptRows

LEMMA FenceEndsLeases ==
  ASSUME OutlivedHaveNoLease, attempt' = G!Fenced
  PROVE  OutlivedHaveNoLease'
<1>1. ASSUME NEW a \in Attempts
      PROVE  /\ G!Fenced[a] \in AttemptRows
             /\ G!Fenced[a].outlived => ~G!Fenced[a].leased
  <2>1. attempt[a] \in AttemptRows
    BY DEF OutlivedHaveNoLease
  <2>2. CASE a \in G!Under
    <3>1. G!Fenced[a] = [attempt[a] EXCEPT !.outlived = TRUE, !.leased = FALSE]
      BY Zenon, <2>2 DEF G!Fenced
    <3> QED
      BY <2>1, <3>1 DEF AttemptRows
  <2>3. CASE a \notin G!Under
    BY Zenon, <2>1, <2>3 DEF G!Fenced, OutlivedHaveNoLease
  <2> QED
    BY <2>2, <2>3
<1>2. G!Fenced = [a \in Attempts |-> G!Fenced[a]]
  BY Zenon DEF G!Fenced
<1> QED
  BY <1>1, <1>2 DEF OutlivedHaveNoLease

LEMMA StepKeepsFence ==
  ASSUME GrantInv, NEW a \in Attempts, G!Step(a)
  PROVE  OutlivedHaveNoLease' /\ ProofIsNumbered'
<1> USE DEF GrantInv, ProofIsNumbered
<1>1. attempt[a] \in AttemptRows /\ (attempt[a].outlived => ~attempt[a].leased)
  BY DEF OutlivedHaveNoLease
<1>2. G!Stop(a) \in AttemptRows /\ ~G!Stop(a).outlived
  BY Unmarked DEF G!Stop
<1>3. CASE G!Start(a)
  <2>1. [G!Fresh EXCEPT !.status = "lookup", !.leased = TRUE, !.read = grant.token] \in AttemptRows
    BY DEF G!Fresh, AttemptRows, G!Running, TokensInOrder
  <2>2. ~[G!Fresh EXCEPT !.status = "lookup", !.leased = TRUE, !.read = grant.token].outlived
    BY DEF G!Fresh
  <2> QED
    BY <1>3, <2>1, <2>2, RowKeepsFence DEF G!Start, G!Set
<1>4. CASE G!LookUp(a)
  <2>1. CASE G!Set(a, G!Stop(a)) /\ UNCHANGED ownership
    BY <2>1, <1>2, RowKeepsFence DEF G!Set
  <2>2. CASE ownership' = [proof |-> ownership.proof + 1, current |-> TRUE]
             /\ G!Set(a, [attempt[a] EXCEPT !.status = "answered", !.proof = ownership.proof + 1,
                          !.matched = attempt[a].read # 0 /\ attempt[a].read \in published])
    <3> DEFINE yes == attempt[a].read # 0 /\ attempt[a].read \in published
               next == [attempt[a] EXCEPT !.status = "answered", !.proof = ownership.proof + 1,
                                         !.matched = yes]
    <3>1. yes \in BOOLEAN /\ ownership.proof + 1 \in Nat /\ "answered" \in G!Running
      BY DEF G!Running
    <3> HIDE DEF yes
    <3>2. next \in AttemptRows /\ (next.outlived => ~next.leased)
      BY <1>1, <3>1 DEF AttemptRows
    <3>3. attempt' = [attempt EXCEPT ![a] = next]
      BY <2>2 DEF G!Set, yes
    <3> HIDE DEF next
    <3>4. OutlivedHaveNoLease'
      BY <3>2, <3>3, RowKeepsFence
    <3> QED
      BY <2>2, <3>4, <3>1
  <2> QED
    BY <1>4, <2>1, <2>2 DEF G!LookUp
<1>5. CASE G!Allow(a)
  <2>1. [attempt[a] EXCEPT !.status = "allowed", !.token = attempt[a].read] \in AttemptRows
    BY <1>1 DEF AttemptRows, G!Running
  <2>2. LET next == [attempt[a] EXCEPT !.status = "allowed", !.token = attempt[a].read]
        IN  next.outlived => ~next.leased
    BY <1>1 DEF AttemptRows
  <2> QED
    BY <1>2, <1>5, <2>1, <2>2, RowKeepsFence DEF G!Allow, G!Set
<1>6. CASE G!Persist(a)
  <2>1. [G!Fresh EXCEPT !.status = "persisted"] \in AttemptRows
        /\ ~[G!Fresh EXCEPT !.status = "persisted"].outlived
    BY Unmarked
  <2> QED
    BY <1>2, <1>6, <2>1, RowKeepsFence DEF G!Persist, G!Set
<1> QED
  BY <1>3, <1>4, <1>5, <1>6 DEF G!Step

LEMMA OthersKeepFence ==
  ASSUME GrantInv,
         \/ G!IssueChallenge \/ G!Revoke \/ G!EditRecord \/ G!Expire \/ G!OwnershipChanges
         \/ \E c \in Admins : G!BeginVerify(c) \/ G!LookUpChallenge(c) \/ G!Verify(c)
         \/ UNCHANGED G!vars
  PROVE  OutlivedHaveNoLease' /\ ProofIsNumbered'
<1>1. attempt' = attempt \/ attempt' = G!Fenced
  BY DEF G!IssueChallenge, G!Revoke, G!EditRecord, G!Expire, G!OwnershipChanges, G!BeginVerify,
         G!LookUpChallenge, G!Verify, G!vars
<1>2. OutlivedHaveNoLease'
  BY <1>1, FenceEndsLeases DEF GrantInv, OutlivedHaveNoLease
<1>3. ProofIsNumbered'
  <2>1. ownership \in [proof: Nat, current: BOOLEAN]
    BY DEF GrantInv, ProofIsNumbered
  <2>2. [proof |-> ownership.proof + 1, current |-> TRUE] \in [proof: Nat, current: BOOLEAN]
    BY <2>1
  <2>3. [ownership EXCEPT !.current = FALSE] \in [proof: Nat, current: BOOLEAN]
    BY <2>1
  <2>4. \/ ownership' = ownership
        \/ ownership' = [proof |-> ownership.proof + 1, current |-> TRUE]
        \/ ownership' = [ownership EXCEPT !.current = FALSE]
    BY DEF G!IssueChallenge, G!Revoke, G!EditRecord, G!Expire, G!OwnershipChanges, G!BeginVerify,
           G!LookUpChallenge, G!Verify, G!vars
  <2> QED
    BY <2>1, <2>2, <2>3, <2>4 DEF ProofIsNumbered
<1> QED
  BY <1>2, <1>3

(* The tokens.                                                             *)

LEMMA RevokedKeepsToken ==
  ASSUME TokensInOrder
  PROVE  G!Revoked \in [token: Nat, revoked: BOOLEAN, expired: BOOLEAN]
         /\ G!Revoked.token = grant.token
BY DEF TokensInOrder, G!Revoked

LEMMA VerifyKeepsOrder ==
  ASSUME GrantInv, NEW c \in Admins, G!Verify(c)
  PROVE  TokensInOrder'
<1> USE DEF GrantInv
<1>1. admin[c] \in [token: Nat, matched: BOOLEAN] /\ admin[c].token # 0
  BY DEF G!Verify, TokensInOrder
<1>2. admin' \in [Admins -> [token: Nat, matched: BOOLEAN]]
      /\ \A d \in Admins : admin'[d].matched => admin'[d].token # 0
  BY DEF G!Verify, TokensInOrder, G!NoCall
<1>3. CASE G!SameChallenge(c)
  <2>1. grant' = [G!NoGrant EXCEPT !.token = admin[c].token] /\ offered' = 0 /\ tokens' = tokens
    BY <1>3 DEF G!Verify
  <2>2. grant' \in [token: Nat, revoked: BOOLEAN, expired: BOOLEAN] /\ grant'.token = admin[c].token
    BY <1>1, <2>1 DEF G!NoGrant
  <2>3. admin[c].token = tokens
    BY <1>1, <1>3 DEF G!SameChallenge, TokensInOrder
  <2> QED
    BY <1>2, <2>1, <2>2, <2>3 DEF TokensInOrder
<1>4. CASE ~G!SameChallenge(c)
  BY <1>2, <1>4 DEF G!Verify, TokensInOrder
<1> QED
  BY <1>3, <1>4

LEMMA AdminsKeepOrder ==
  ASSUME GrantInv, NEW c \in Admins, G!BeginVerify(c) \/ G!LookUpChallenge(c)
  PROVE  TokensInOrder'
<1> USE DEF GrantInv
<1>1. CASE G!BeginVerify(c)
  <2>1. [admin[c] EXCEPT !.token = offered] \in [token: Nat, matched: BOOLEAN]
    BY DEF TokensInOrder
  <2>2. admin' = [admin EXCEPT ![c] = [admin[c] EXCEPT !.token = offered]]
    BY <1>1 DEF G!BeginVerify, TokensInOrder
  <2>3. offered # 0
    BY <1>1 DEF G!BeginVerify
  <2> QED
    BY <1>1, <2>1, <2>2, <2>3 DEF G!BeginVerify, TokensInOrder
<1>2. CASE G!LookUpChallenge(c)
  <2>1. [admin[c] EXCEPT !.matched = TRUE] \in [token: Nat, matched: BOOLEAN]
    BY DEF TokensInOrder
  <2>2. admin' = [admin EXCEPT ![c] = [admin[c] EXCEPT !.matched = TRUE]]
        \/ admin' = [admin EXCEPT ![c] = G!NoCall]
    BY <1>2 DEF G!LookUpChallenge, TokensInOrder
  <2>3. G!NoCall \in [token: Nat, matched: BOOLEAN] /\ ~G!NoCall.matched
    BY DEF G!NoCall
  <2>4. admin[c].token # 0
    BY <1>2 DEF G!LookUpChallenge
  <2> QED
    BY <1>2, <2>1, <2>2, <2>3, <2>4 DEF G!LookUpChallenge, TokensInOrder
<1> QED
  BY <1>1, <1>2

LEMMA GrantSteps ==
  ASSUME GrantInv, [G!Next]_(G!vars)
  PROVE  GrantInv'
<1>1. OutlivedHaveNoLease' /\ ProofIsNumbered'
  BY StepKeepsFence, OthersKeepFence DEF G!Next
<1>2. TokensInOrder'
  <2>1. CASE G!IssueChallenge
    BY <2>1, RevokedKeepsToken DEF G!IssueChallenge, GrantInv, TokensInOrder
  <2>2. CASE G!Revoke
    BY <2>2, RevokedKeepsToken DEF G!Revoke, GrantInv, TokensInOrder
  <2>3. CASE G!EditRecord \/ G!OwnershipChanges \/ UNCHANGED G!vars
    BY <2>3 DEF G!EditRecord, G!OwnershipChanges, G!vars, GrantInv, TokensInOrder
  <2>4. CASE G!Expire
    <3>1. [grant EXCEPT !.expired = TRUE] \in [token: Nat, revoked: BOOLEAN, expired: BOOLEAN]
          /\ [grant EXCEPT !.expired = TRUE].token = grant.token
      BY DEF GrantInv, TokensInOrder
    <3> QED
      BY <2>4, <3>1 DEF G!Expire, GrantInv, TokensInOrder
  <2>5. ASSUME NEW a \in Attempts, G!Step(a) PROVE TokensInOrder'
    <3>1. UNCHANGED <<tokens, offered, grant, admin>>
      BY <2>5 DEF G!Step, G!Start, G!LookUp, G!Allow, G!Persist, G!Set
    <3> QED
      BY <3>1 DEF GrantInv, TokensInOrder
  <2> QED
    BY <2>1, <2>2, <2>3, <2>4, <2>5, VerifyKeepsOrder, AdminsKeepOrder DEF G!Next
<1> QED
  BY <1>1, <1>2 DEF GrantInv

LEMMA GrantsStart == G!Init => GrantInv
<1> SUFFICES ASSUME G!Init PROVE GrantInv
  OBVIOUS
<1>1. OutlivedHaveNoLease
  <2>1. G!Fresh \in AttemptRows /\ ~G!Fresh.outlived
    BY DEF G!Fresh, AttemptRows
  <2> QED
    BY <2>1 DEF G!Init, OutlivedHaveNoLease
<1>2. TokensInOrder
  BY DEF G!Init, TokensInOrder, G!NoGrant, G!NoCall
<1>3. ProofIsNumbered
  BY DEF G!Init, ProofIsNumbered
<1> QED
  BY <1>1, <1>2, <1>3 DEF GrantInv

\* What a step may do to an attempt and to a grant.
OnlyAllowed ==
  \A a \in Attempts : attempt[a].status = "allowed" /\ attempt'[a].status = "persisted"
                      => ~attempt[a].outlived
OnlyReplaced == grant.revoked /\ ~grant'.revoked =>
                  grant'.token > grant.token /\ grant'.token = offered

LEMMA RevocationsStop ==
  ASSUME GrantInv, [G!Next]_(G!vars)
  PROVE  OnlyAllowed
<1> SUFFICES ASSUME NEW a \in Attempts, attempt[a].status = "allowed",
                    attempt'[a].status = "persisted"
             PROVE  ~attempt[a].outlived
  BY DEF OnlyAllowed
<1>1. attempt \in [Attempts -> AttemptRows] /\ attempt'[a] # attempt[a]
  BY DEF GrantInv, OutlivedHaveNoLease
<1>2. G!Fenced[a].status = attempt[a].status
  BY <1>1 DEF G!Fenced, AttemptRows
<1>3. PICK b \in Attempts : G!Step(b)
  BY <1>1, <1>2
  DEF G!Next, G!vars, G!IssueChallenge, G!Revoke, G!EditRecord, G!Expire, G!OwnershipChanges, G!BeginVerify,
      G!LookUpChallenge, G!Verify
<1>4. b = a
  BY <1>1, <1>3 DEF G!Step, G!Start, G!LookUp, G!Allow, G!Persist, G!Set
<1>5. G!Persist(a)
  BY <1>1, <1>3, <1>4 DEF G!Step, G!Start, G!LookUp, G!Allow, G!Fresh
<1>6. G!MayPersist(a)
  BY <1>1, <1>5 DEF G!Persist, G!Set, G!Stop, G!Fresh
<1> QED
  BY <1>6 DEF G!MayPersist, GrantInv, OutlivedHaveNoLease

LEMMA RevocationsStay ==
  ASSUME GrantInv, [G!Next]_(G!vars)
  PROVE  OnlyReplaced
<1> SUFFICES ASSUME grant.revoked, ~grant'.revoked
             PROVE  grant'.token > grant.token /\ grant'.token = offered
  BY DEF OnlyReplaced
<1>1. grant \in [token: Nat, revoked: BOOLEAN, expired: BOOLEAN] /\ grant' # grant
  BY DEF GrantInv, TokensInOrder
<1>2. grant' # G!Revoked /\ grant' # [grant EXCEPT !.expired = TRUE]
  BY <1>1 DEF G!Revoked
<1>3. PICK c \in Admins : G!Verify(c)
  BY Zenon, <1>1, <1>2
  DEF G!Next, G!vars, G!IssueChallenge, G!Revoke, G!EditRecord, G!Expire, G!OwnershipChanges, G!BeginVerify,
      G!LookUpChallenge, G!Step, G!Start, G!LookUp, G!Allow, G!Persist, G!Set
<1>4. G!SameChallenge(c)
  BY <1>1, <1>3 DEF G!Verify
<1>5. grant'.token = offered /\ offered # 0
  BY <1>3, <1>4 DEF G!Verify, G!SameChallenge, G!NoGrant, GrantInv, TokensInOrder
<1> QED
  BY <1>5 DEF GrantInv, TokensInOrder

---------------------------------------------------------------------------
(* The follow-up of a finding (FindingFollowup).                           *)

\* The commits are in order: the last event led to the status, and no event
\* begins after its own commit.
FollowupInv ==
  /\ "status" \in DOMAIN finding /\ "reason" \in DOMAIN finding
  /\ history \in Seq(F!Events)
  /\ finding.status = (IF history = <<>> THEN "none" ELSE history[Len(history)].to)
  /\ \A i \in 1..Len(history) : history[i].began < i
  /\ \A r \in scan : r.status \in F!Statuses /\ r.began \in 0..Len(history)
  /\ F!PeopleDecide /\ (finding.status = "accepted" => finding.reason)

\* What is read last led to the status, or was overlapped by what did.
LEMMA HistoryIsExplained == FollowupInv => F!HistoryExplains
<1> SUFFICES ASSUME FollowupInv PROVE F!StatusIsExplained
  BY DEF FollowupInv, F!HistoryExplains
<1>0. history \in Seq(F!Events) /\ \A i \in 1..Len(history) : history[i].began < i
  BY Zenon DEF FollowupInv
<1>1. /\ history \in Seq(F!Events) /\ Len(history) \in Nat /\ DOMAIN history = 1..Len(history)
      /\ \A i \in 1..Len(history) : history[i].began < i /\ history[i].began \in Nat
  <2>1. Len(history) \in Nat /\ DOMAIN history = 1..Len(history) /\ \A i \in 1..Len(history) : history[i] \in F!Events
    BY <1>0
  <2>2. \A e \in F!Events : e.began \in Nat
    BY DEF F!Events
  <2> QED
    BY Zenon, <1>0, <2>1, <2>2
<1>2. CASE history = <<>>
  BY <1>2 DEF FollowupInv, F!StatusIsExplained
<1>3. CASE history # <<>>
  <2>1. Len(history) \in DOMAIN history /\ finding.status = history[Len(history)].to
    BY <1>1, <1>3 DEF FollowupInv
  <2>2. ASSUME NEW i \in DOMAIN history, F!MayBeReadLast(i), i # Len(history)
        PROVE  F!CommittedOver(Len(history), i)
    <3>1. history[Len(history)].began <= history[i].began
      BY <2>1, <2>2 DEF F!MayBeReadLast
    <3> QED
      BY <1>1, <2>1, <2>2, <3>1 DEF F!CommittedOver
  <2> QED
    BY Zenon, <1>3, <2>1, <2>2 DEF F!StatusIsExplained
<1> QED
  BY <1>2, <1>3

LEMMA FollowupStarts == F!Init => FollowupInv
<1> SUFFICES ASSUME F!Init PROVE FollowupInv
  OBVIOUS
<1>1. /\ finding.status = "none" /\ "status" \in DOMAIN finding /\ "reason" \in DOMAIN finding
      /\ history = <<>> /\ scan = {}
  BY DEF F!Init
<1> QED
  BY <1>1 DEF FollowupInv, F!PeopleDecide

LEMMA StatusIsKnown == FollowupInv => finding.status \in F!Statuses \cup {"none"}
<1> SUFFICES ASSUME FollowupInv PROVE finding.status \in F!Statuses \cup {"none"}
  OBVIOUS
<1>1. history # <<>> => Len(history) \in DOMAIN history /\ history[Len(history)] \in F!Events
  BY DEF FollowupInv
<1> QED
  BY <1>1 DEF FollowupInv, F!Events

\* What an event adds to the history.
LEMMA EventsExplain ==
  ASSUME FollowupInv, NEW e \in F!Events, history' = Append(history, e), finding'.status = e.to,
         "status" \in DOMAIN finding', "reason" \in DOMAIN finding',
         e.by = "person" => e.from = finding.status, e.began <= Len(history),
         e.to \in {"fixed", "accepted"} => e.by = "person",
         finding'.status = "accepted" => finding'.reason,
         scan' = scan \/ scan' = {}
  PROVE  FollowupInv'
<1>1. /\ history' \in Seq(F!Events) /\ history' # <<>>
      /\ DOMAIN history = 1..Len(history) /\ Len(history) \in Nat
      /\ Len(history') = Len(history) + 1
      /\ DOMAIN history' = 1..Len(history) + 1
      /\ \A i \in 1..Len(history) : history'[i] = history[i]
      /\ history'[Len(history) + 1] = e
  BY DEF FollowupInv
<1>2. finding.status = (IF history = <<>> THEN "none" ELSE history[Len(history)].to)
  BY DEF FollowupInv
<1>b. \A i \in 1..Len(history') : history'[i].began < i
  <2>1. \A i \in 1..Len(history) : history'[i].began < i
    BY <1>1 DEF FollowupInv
  <2>2. e.began \in Nat /\ e.began < Len(history) + 1
    BY <1>1 DEF F!Events
  <2> QED
    BY <1>1, <2>1, <2>2
<1>s. \A r \in scan' : r.status \in F!Statuses /\ r.began \in 0..Len(history')
  <2>1. \A r \in scan : r.status \in F!Statuses /\ r.began \in 0..Len(history)
    BY DEF FollowupInv
  <2> QED
    BY <1>1, <2>1
<1>3. ASSUME NEW i \in DOMAIN history'
      PROVE  /\ history'[i].by = "person" =>
                  history'[i].from = (IF i = 1 THEN "none" ELSE history'[i - 1].to)
             /\ history'[i].to \in {"fixed", "accepted"} => history'[i].by = "person"
  <2>1. CASE i \in 1..Len(history)
    <3>1. history'[i] = history[i] /\ (i # 1 => history'[i - 1] = history[i - 1])
      BY <1>1, <2>1
    <3> QED
      BY <1>1, <2>1, <3>1 DEF FollowupInv, F!PeopleDecide
  <2>2. CASE i = Len(history) + 1
    <3>1. i = 1 => history = <<>>
      BY <1>1, <2>2 DEF FollowupInv
    <3>2. i # 1 => i - 1 = Len(history) /\ i - 1 \in 1..Len(history) /\ history # <<>>
      BY <1>1, <2>2
    <3>3. i # 1 => history'[i - 1] = history[Len(history)]
      BY <1>1, <3>2
    <3> QED
      BY Zenon, <1>1, <1>2, <2>2, <3>1, <3>2, <3>3
  <2> QED
    BY <1>1, <2>1, <2>2
<1>4. F!PeopleDecide'
  BY <1>3 DEF F!PeopleDecide
<1>5. finding'.status = (IF history' = <<>> THEN "none" ELSE history'[Len(history')].to)
  BY <1>1
<1> QED
  BY <1>1, <1>b, <1>s, <1>4, <1>5 DEF FollowupInv

LEMMA FollowupSteps ==
  ASSUME FollowupInv, [F!Next]_(F!vars)
  PROVE  FollowupInv'
<1>1. CASE F!UserUpdates
  <2>1. PICK status \in F!Statuses, began \in 0..Len(history) :
          /\ finding' = [status |-> status, reason |-> status = "accepted",
                         suggested |-> FALSE, seen |-> finding.seen]
          /\ history' = Append(history, [by |-> "person", from |-> finding.status, to |-> status,
                                         began |-> began])
    BY <1>1 DEF F!UserUpdates
  <2>2. finding.status \in F!Statuses \cup {"none"}
    BY StatusIsKnown
  <2>b. began \in Nat /\ began <= Len(history) /\ scan' = scan
    BY <1>1, <2>1 DEF FollowupInv, F!UserUpdates
  <2> DEFINE e == [by |-> "person", from |-> finding.status, to |-> status, began |-> began]
  <2>3. e \in F!Events
    BY <2>2, <2>b DEF F!Events
  <2>4. "status" \in DOMAIN finding' /\ "reason" \in DOMAIN finding' /\ finding'.status = status
        /\ (status = "accepted" => finding'.reason)
    BY <2>1
  <2>5. e.by = "person" /\ e.from = finding.status /\ e.to = status /\ e.began = began
        /\ history' = Append(history, e)
    BY <2>1
  <2> HIDE DEF e
  <2> QED
    BY <2>b, <2>3, <2>4, <2>5, EventsExplain
<1>2. CASE F!ScanWrites
  <2>1. PICK r \in scan :
          /\ finding' = F!Written(r)
          /\ history' = IF F!Decision(r) = r.status THEN history
                        ELSE Append(history, [by |-> "scan", from |-> r.status, to |-> F!Decision(r),
                                              began |-> r.began])
    BY <1>2 DEF F!ScanWrites
  <2>2. /\ "status" \in DOMAIN finding' /\ "reason" \in DOMAIN finding' /\ finding'.reason = finding.reason
        /\ finding'.status = IF F!Decision(r) # r.status THEN F!Decision(r) ELSE finding.status
    BY <2>1 DEF F!Written, FollowupInv
  <2>0. scan' = {}
    BY <1>2 DEF F!ScanWrites
  <2>3. CASE F!Decision(r) = r.status
    BY <2>0, <2>1, <2>2, <2>3 DEF FollowupInv, F!PeopleDecide
  <2>4. CASE F!Decision(r) # r.status
    <3>1. F!Decision(r) \in {"todo", "in_progress", "to_verify"}
      BY <2>4 DEF F!Decision, F!Reopened
    <3>2. r.status \in F!Statuses /\ r.began \in Nat /\ r.began <= Len(history)
      BY DEF FollowupInv
    <3> DEFINE e == [by |-> "scan", from |-> r.status, to |-> F!Decision(r), began |-> r.began]
    <3>3. e \in F!Events
      BY <3>1, <3>2 DEF F!Events, F!Statuses
    <3>4. e.by = "scan" /\ e.to = F!Decision(r) /\ e.began = r.began /\ history' = Append(history, e)
      BY <2>1, <2>4
    <3> HIDE DEF e
    <3>5. finding'.status = e.to /\ finding'.status # "accepted" /\ e.to \notin {"fixed", "accepted"}
      BY <2>2, <2>4, <3>1, <3>4
    <3>6. e.by # "person"
      BY <3>4
    <3> QED
      BY <2>0, <2>2, <3>2, <3>3, <3>4, <3>5, <3>6, EventsExplain
  <2> QED
    BY <2>3, <2>4
<1>3. CASE F!ScanReads \/ F!ScanRollsBack \/ UNCHANGED F!vars
  <2>1. finding.status \in F!Statuses \cup {"none"}
    BY StatusIsKnown
  <2>2. /\ UNCHANGED <<finding, history>>
        /\ \A r \in scan' : r.status \in F!Statuses /\ r.began \in 0..Len(history)
    BY <1>3, <2>1 DEF F!ScanReads, F!ScanRollsBack, F!vars, FollowupInv
  <2> QED
    BY <2>2 DEF FollowupInv, F!PeopleDecide
<1> QED
  BY <1>1, <1>2, <1>3 DEF F!Next

---------------------------------------------------------------------------
(* The creation of sites and organizations (SiteCreation).                 *)

Lines == Seq(Urls \cup {BadLine})
Kinds == {"none", "import", "create", "onboard"}
Places == D!Outside \cup {"locked", "read"}
CallState == [kind : Kinds, pc : Places, file : Lines, existing : SUBSET Urls]

\* A call alone takes a step, and its record gets new fields one by one.
Moves(g, h, c) == /\ h \in [Calls -> CallState] /\ \A d \in Calls : d # c => h[d] = g[d]

KindPut(g, h, c, k) == h = [g EXCEPT ![c].kind = k]
LEMMA KindMoves ==
  ASSUME NEW g \in [Calls -> CallState], NEW c \in Calls, NEW k \in Kinds, NEW h, KindPut(g, h, c, k)
  PROVE  /\ h \in [Calls -> CallState] /\ Moves(g, h, c) /\ h[c].kind = k
         /\ h[c].pc = g[c].pc /\ h[c].file = g[c].file /\ h[c].existing = g[c].existing
<1>1. g[c] \in CallState
  OBVIOUS
<1>2. PICK x : x = [g[c] EXCEPT !.kind = k]
  OBVIOUS
<1>3. /\ x \in CallState /\ x.kind = k /\ x.pc = g[c].pc
      /\ x.file = g[c].file /\ x.existing = g[c].existing
  BY <1>1, <1>2 DEF CallState
<1>4. h = [g EXCEPT ![c] = x]
  BY <1>2 DEF KindPut
<1> QED
  BY <1>3, <1>4 DEF Moves

PlacePut(g, h, c, p) == h = [g EXCEPT ![c].pc = p]
LEMMA PlaceMoves ==
  ASSUME NEW g \in [Calls -> CallState], NEW c \in Calls, NEW p \in Places, NEW h, PlacePut(g, h, c, p)
  PROVE  /\ h \in [Calls -> CallState] /\ Moves(g, h, c) /\ h[c].pc = p
         /\ h[c].kind = g[c].kind /\ h[c].file = g[c].file /\ h[c].existing = g[c].existing
<1>1. g[c] \in CallState
  OBVIOUS
<1>2. PICK x : x = [g[c] EXCEPT !.pc = p]
  OBVIOUS
<1>3. /\ x \in CallState /\ x.pc = p /\ x.kind = g[c].kind
      /\ x.file = g[c].file /\ x.existing = g[c].existing
  BY <1>1, <1>2 DEF CallState
<1>4. h = [g EXCEPT ![c] = x]
  BY <1>2 DEF PlacePut
<1> QED
  BY <1>3, <1>4 DEF Moves

FilePut(g, h, c, f) == h = [g EXCEPT ![c].file = f]
LEMMA FileMoves ==
  ASSUME NEW g \in [Calls -> CallState], NEW c \in Calls, NEW f \in Lines, NEW h, FilePut(g, h, c, f)
  PROVE  /\ h \in [Calls -> CallState] /\ Moves(g, h, c) /\ h[c].file = f
         /\ h[c].kind = g[c].kind /\ h[c].pc = g[c].pc /\ h[c].existing = g[c].existing
<1>1. g[c] \in CallState
  OBVIOUS
<1>2. PICK x : x = [g[c] EXCEPT !.file = f]
  OBVIOUS
<1>3. /\ x \in CallState /\ x.file = f /\ x.kind = g[c].kind
      /\ x.pc = g[c].pc /\ x.existing = g[c].existing
  BY <1>1, <1>2 DEF CallState
<1>4. h = [g EXCEPT ![c] = x]
  BY <1>2 DEF FilePut
<1> QED
  BY <1>3, <1>4 DEF Moves

SitesPut(g, h, c, e) == h = [g EXCEPT ![c].existing = e]
LEMMA SitesMoves ==
  ASSUME NEW g \in [Calls -> CallState], NEW c \in Calls, NEW e \in SUBSET Urls, NEW h, SitesPut(g, h, c, e)
  PROVE  /\ h \in [Calls -> CallState] /\ Moves(g, h, c) /\ h[c].existing = e
         /\ h[c].kind = g[c].kind /\ h[c].pc = g[c].pc /\ h[c].file = g[c].file
<1>1. g[c] \in CallState
  OBVIOUS
<1>2. PICK x : x = [g[c] EXCEPT !.existing = e]
  OBVIOUS
<1>3. /\ x \in CallState /\ x.existing = e /\ x.kind = g[c].kind
      /\ x.pc = g[c].pc /\ x.file = g[c].file
  BY <1>1, <1>2 DEF CallState
<1>4. h = [g EXCEPT ![c] = x]
  BY <1>2 DEF SitesPut
<1> QED
  BY <1>3, <1>4 DEF Moves

\* What the operations write.
LEMMA CallGoes ==
  ASSUME creation \in [Calls -> CallState], NEW c \in Calls, NEW p \in Places,
         creation' = [creation EXCEPT ![c].pc = p]
  PROVE  /\ Moves(creation, creation', c) /\ creation'[c].kind = creation[c].kind
         /\ creation'[c].pc = p /\ creation'[c].file = creation[c].file
<1>1. PlacePut(creation, creation', c, p)
  BY DEF PlacePut
<1> QED
  BY <1>1, PlaceMoves

LEMMA CallReads ==
  ASSUME creation \in [Calls -> CallState], NEW c \in Calls, NEW p \in Places, sites \in SUBSET Urls,
         creation' = [creation EXCEPT ![c].pc = p, ![c].existing = sites]
  PROVE  /\ Moves(creation, creation', c) /\ creation'[c].kind = creation[c].kind
         /\ creation'[c].pc = p /\ creation'[c].existing = sites
<1>1. PICK g : g = [creation EXCEPT ![c].pc = p]
  OBVIOUS
<1>2. PlacePut(creation, g, c, p) /\ SitesPut(g, creation', c, sites)
  BY <1>1 DEF PlacePut, SitesPut
<1>3. /\ Moves(creation, g, c) /\ g \in [Calls -> CallState]
      /\ g[c].pc = p /\ g[c].kind = creation[c].kind
  BY <1>2, PlaceMoves
<1>4. /\ Moves(g, creation', c) /\ creation'[c].kind = g[c].kind
      /\ creation'[c].pc = g[c].pc /\ creation'[c].existing = sites
  BY <1>2, <1>3, SitesMoves
<1> QED
  BY <1>3, <1>4 DEF Moves

LEMMA CallBegins ==
  ASSUME creation \in [Calls -> CallState], NEW c \in Calls, NEW k \in Kinds, NEW p \in Places,
         creation' = [creation EXCEPT ![c].kind = k, ![c].pc = p]
  PROVE  Moves(creation, creation', c) /\ creation'[c].kind = k /\ creation'[c].pc = p
<1>1. PICK g : g = [creation EXCEPT ![c].kind = k]
  OBVIOUS
<1>2. KindPut(creation, g, c, k) /\ PlacePut(g, creation', c, p)
  BY <1>1 DEF KindPut, PlacePut
<1>3. Moves(creation, g, c) /\ g[c].kind = k /\ g \in [Calls -> CallState]
  BY <1>2, KindMoves
<1>4. Moves(g, creation', c) /\ creation'[c].kind = g[c].kind /\ creation'[c].pc = p
  BY <1>2, <1>3, PlaceMoves
<1> QED
  BY <1>3, <1>4 DEF Moves

LEMMA ThreeMoves ==
  ASSUME NEW f \in [Calls -> CallState], NEW c \in Calls, NEW k \in Kinds, NEW p \in Places,
         NEW s \in Lines, NEW g, NEW h, NEW i,
         KindPut(f, g, c, k), FilePut(g, h, c, s), PlacePut(h, i, c, p)
  PROVE  Moves(f, i, c) /\ i[c].kind = k /\ i[c].pc = p
<1>1. Moves(f, g, c) /\ g[c].kind = k /\ g \in [Calls -> CallState]
  BY KindMoves
<1>2. Moves(g, h, c) /\ h[c].kind = g[c].kind /\ h \in [Calls -> CallState]
  BY <1>1, FileMoves
<1>3. Moves(h, i, c) /\ i[c].kind = h[c].kind /\ i[c].pc = p
  BY <1>2, PlaceMoves
<1> QED
  BY <1>1, <1>2, <1>3 DEF Moves

LEMMA CallTakesFile ==
  ASSUME creation \in [Calls -> CallState], NEW c \in Calls, NEW k \in Kinds, NEW p \in Places,
         NEW s \in Lines,
         creation' = [creation EXCEPT ![c].kind = k, ![c].file = s, ![c].pc = p]
  PROVE  Moves(creation, creation', c) /\ creation'[c].kind = k /\ creation'[c].pc = p
<1>1. PICK g : g = [creation EXCEPT ![c].kind = k]
  OBVIOUS
<1>2. PICK h : h = [g EXCEPT ![c].file = s]
  OBVIOUS
<1>3. creation' = [h EXCEPT ![c].pc = p]
  <2>1. h = [creation EXCEPT ![c].kind = k, ![c].file = s]
    BY <1>1, <1>2
  <2>2. [creation EXCEPT ![c].kind = k, ![c].file = s, ![c].pc = p] = [h EXCEPT ![c].pc = p]
    BY <2>1
  <2> QED
    BY <2>2
<1>4. KindPut(creation, g, c, k) /\ FilePut(g, h, c, s) /\ PlacePut(h, creation', c, p)
  BY <1>1, <1>2, <1>3 DEF KindPut, FilePut, PlacePut
<1> QED
  BY <1>4, ThreeMoves

Made(c) == {u \in Urls : <<u, c>> \in maker}
Recorded(c) == {e \in events : e.by = c}
Alone(u) == \E d \in Calls : creation[d].kind = "create" /\ <<u, d>> \in maker
Inside(c) == creation[c].pc \notin D!Outside

\* Who holds a lock is alone with it; what an import has not read was created
\* by a call of its own.
CallInv(c) ==
  /\ creation[c].pc = "new" => creation[c].kind = "none"
  /\ Inside(c) => creation[c].kind \in {"import", "onboard"}
  /\ creation[c].kind = "onboard" /\ creation[c].pc = "read" => owner = {}
  /\ creation[c].pc # "done" => Made(c) = {} /\ Recorded(c) = {}
  /\ creation[c].kind = "import" /\ creation[c].pc = "done" =>
       Recorded(c) = {[by |-> c, imported |-> D!Cardinality(Made(c)),
                       skipped |-> Len(creation[c].file) - D!Cardinality(Made(c))]}
  /\ creation[c].kind = "import" /\ creation[c].pc = "read" =>
       \A u \in sites \ creation[c].existing : Alone(u)
CallsInv ==
  /\ creation \in [Calls -> CallState] /\ sites \subseteq Urls
  /\ owner = {} \/ \E c : owner = {c}
  /\ \A c \in Calls : CallInv(c)
  /\ \A c, d \in Calls : creation[c].kind = creation[d].kind /\ Inside(c) /\ Inside(d) => c = d

LEMMA CallsStart == D!Init => CallsInv
<1> SUFFICES ASSUME D!Init PROVE CallsInv
  OBVIOUS
<1>1. creation = [c \in Calls |-> D!Fresh] /\ D!Fresh \in CallState /\ D!Fresh.pc = "new" /\ D!Fresh.kind = "none"
  BY DEF D!Init, D!Fresh, CallState, D!Outside, Kinds, Places, Lines
<1>2. owner = {} /\ sites = {} /\ events = {} /\ maker = {}
  BY DEF D!Init
<1> QED
  BY <1>1, <1>2 DEF CallsInv, CallInv, Inside, Made, Recorded, D!Outside

LEMMA ImportsHold == CallsInv => D!ImportsAreRecorded /\ D!LocksHold
<1> SUFFICES ASSUME CallsInv PROVE D!ImportsAreRecorded /\ D!LocksHold
  OBVIOUS
<1>1. D!ImportsAreRecorded
  BY DEF CallsInv, CallInv, D!ImportsAreRecorded, Made, Recorded
<1>2. D!Cardinality(owner) <= 1
  <2>1. \A set : D!Cardinality(set) = Cardinality(set)
    BY DEF Cardinality, D!Cardinality
  <2>2. Cardinality(owner) = 0 \/ Cardinality(owner) = 1
    BY FS_EmptySet, FS_Singleton DEF CallsInv
  <2> QED
    BY <2>1, <2>2
<1>3. \A c \in Calls : creation[c].kind = "import" /\ creation[c].pc = "read" =>
        \A u \in D!ToCreate(c) \cap sites : Alone(u)
  BY DEF CallsInv, CallInv, D!ToCreate
<1> QED
  BY <1>1, <1>2, <1>3 DEF D!LocksHold, Alone

\* A step of one call leaves the others alone when it writes no row of theirs.
LEMMA OthersStay ==
  ASSUME CallsInv, NEW c \in Calls, Moves(creation, creation', c), owner' = owner \/ Inside(c),
         owner' = owner \/ creation[c].kind = "onboard",
         \A d \in Calls : d # c => Made(d)' = Made(d) /\ Recorded(d)' = Recorded(d),
         \A u : Alone(u) => Alone(u)',
         (\A u \in sites' \ sites : Alone(u)') \/ (Inside(c) /\ creation[c].kind = "import"),
         CallInv(c)', sites' \subseteq Urls, owner' = {} \/ \E d : owner' = {d},
         \A d \in Calls : d # c /\ creation[d].kind = creation'[c].kind /\ Inside(d) => ~Inside(c)'
  PROVE  CallsInv'
<1>1. ASSUME NEW d \in Calls, d # c PROVE CallInv(d)'
  <2>1. creation'[d] = creation[d] /\ Made(d)' = Made(d) /\ Recorded(d)' = Recorded(d) /\ CallInv(d)
    BY <1>1 DEF Moves, CallsInv
  <2>2. creation[d].kind = "onboard" /\ creation[d].pc = "read" => owner' = {}
    BY <1>1, <2>1 DEF CallsInv, CallInv, Inside, D!Outside
  <2>3. creation[d].kind = "import" /\ creation[d].pc = "read" =>
          \A u \in sites' \ creation[d].existing : Alone(u)'
    BY <1>1, <2>1 DEF CallInv, CallsInv, Inside, D!Outside
  <2>4. Inside(d)' = Inside(d)
    BY <2>1 DEF Inside, D!Outside
  <2> QED
    BY <2>1, <2>2, <2>3, <2>4 DEF CallInv
<1>2. \A b, d \in Calls : creation'[b].kind = creation'[d].kind /\ Inside(b)' /\ Inside(d)' => b = d
  BY DEF CallsInv, Moves, Inside, D!Outside
<1> QED
  BY <1>1, <1>2 DEF CallsInv, Moves

LEMMA CallSteps ==
  ASSUME CallsInv, [D!Next]_(D!vars)
  PROVE  CallsInv'
<1> USE DEF D!Outside, Kinds, Places, Inside
<1>0. ASSUME NEW c \in Calls, UNCHANGED maker
      PROVE  \A d \in Calls : Made(d)' = Made(d)
  BY <1>0 DEF Made
<1>00. ASSUME UNCHANGED events
      PROVE  \A d \in Calls : Recorded(d)' = Recorded(d)
  BY <1>00 DEF Recorded
<1>1. ASSUME NEW c \in Calls, NEW k \in Kinds, NEW p \in Places, UNCHANGED <<owner, sites, events, maker>>,
             Moves(creation, creation', c), creation'[c].kind = k, creation'[c].pc = p,
             p # "new", p # "done", creation[c].pc # "done", creation[c].kind # "create",
             p \in {"locked", "read"} => k \in {"import", "onboard"},
             k = "onboard" /\ p = "read" => owner = {},
             k = "import" /\ p = "read" => creation'[c].existing = sites,
             \A d \in Calls : d # c /\ creation[d].kind = k /\ Inside(d) => p = "failed"
      PROVE  CallsInv'
  <2>1. \A u : Alone(u) => Alone(u)'
    BY <1>1 DEF Alone, Moves
  <2>2. Made(c) = {} /\ Recorded(c) = {} /\ Made(c)' = Made(c) /\ Recorded(c)' = Recorded(c)
    BY <1>0, <1>00, <1>1 DEF CallsInv, CallInv
  <2>3. CallInv(c)'
    BY <1>1, <2>2 DEF CallInv
  <2>4. sites' \subseteq Urls /\ (owner' = {} \/ \E d : owner' = {d})
    BY <1>1 DEF CallsInv
  <2> QED
    BY <1>0, <1>00, <1>1, <2>1, <2>3, <2>4, OthersStay
<1>2. ASSUME NEW c \in Calls, D!BeginImport(c) PROVE CallsInv'
  <2>1. PICK f \in Files : creation' = [creation EXCEPT ![c].kind = "import", ![c].file = f,
                                   ![c].pc = IF D!Valid(f) THEN "locked" ELSE "failed"]
    BY Zenon, <1>2 DEF D!BeginImport
  <2>2. /\ UNCHANGED <<owner, sites, events, maker>> /\ creation[c].pc = "new"
        /\ \A d \in Calls : creation[d].kind = "import" => ~Inside(d)
    BY <1>2 DEF D!BeginImport, D!Locked
  <2>3. PICK p \in {"locked", "failed"} : p = IF D!Valid(f) THEN "locked" ELSE "failed"
    OBVIOUS
  <2>4. creation' = [creation EXCEPT ![c].kind = "import", ![c].file = f, ![c].pc = p]
    BY <2>1, <2>3
  <2>5. f \in Lines
    BY FilesAssumption DEF Lines
  <2>6. Moves(creation, creation', c) /\ creation'[c].kind = "import" /\ creation'[c].pc = p
    BY Zenon, <2>4, <2>5, CallTakesFile DEF CallsInv
  <2>7. creation[c].kind = "none"
    BY <2>2 DEF CallsInv, CallInv
  <2> QED
    BY <1>1, <2>2, <2>6, <2>7
<1>3. ASSUME NEW c \in Calls, D!ReadSites(c) PROVE CallsInv'
  <2>1. /\ creation' = [creation EXCEPT ![c].pc = "read", ![c].existing = sites]
        /\ UNCHANGED <<owner, sites, events, maker>> /\ creation[c].kind = "import" /\ creation[c].pc = "locked"
    BY <1>3 DEF D!ReadSites
  <2>2. /\ Moves(creation, creation', c) /\ creation'[c].kind = "import"
        /\ creation'[c].pc = "read" /\ creation'[c].existing = sites
    BY Zenon, <2>1, CallReads DEF CallsInv
  <2>3. \A d \in Calls : d # c /\ creation[d].kind = "import" => ~Inside(d)
    BY <2>1 DEF CallsInv
  <2> QED
    BY <1>1, <2>1, <2>2, <2>3
<1>4. ASSUME NEW c \in Calls, D!Go(c, "failed"), creation[c].pc \in {"locked", "read"},
             UNCHANGED <<owner, sites, events, maker>>
      PROVE  CallsInv'
  <2>1. creation[c].kind \in {"import", "onboard"}
    BY <1>4 DEF CallsInv, CallInv
  <2>2. /\ Moves(creation, creation', c) /\ creation'[c].kind = creation[c].kind
        /\ creation'[c].pc = "failed"
    BY <1>4, CallGoes DEF CallsInv, D!Go
  <2> QED
    BY <1>1, <1>4, <2>1, <2>2
<1>5. ASSUME NEW c \in Calls, D!FinishImport(c) PROVE CallsInv'
  <2>1. CASE D!ToCreate(c) \cap sites # {}
    BY <1>4, <1>5, <2>1 DEF D!FinishImport
  <2>2. CASE D!ToCreate(c) \cap sites = {}
    <3> DEFINE new == D!ToCreate(c)
    <3>1. /\ creation[c].kind = "import" /\ creation[c].pc = "read" /\ UNCHANGED owner
          /\ D!Go(c, "done") /\ sites' = sites \cup new /\ maker' = maker \cup {<<u, c>> : u \in new}
          /\ events' = events \cup {[by |-> c, imported |-> D!Cardinality(new),
                                     skipped |-> Len(creation[c].file) - D!Cardinality(new)]}
      BY <1>5, <2>2 DEF D!FinishImport
    <3>2. new \subseteq Urls
      <4>1. creation[c].file \in Lines
        BY DEF CallsInv, CallState
      <4>2. \A i \in DOMAIN creation[c].file : creation[c].file[i] \in Urls \cup {BadLine}
        BY <4>1 DEF Lines
      <4> QED
        BY <4>2 DEF D!ToCreate, D!Ready, D!ToSet
    <3> HIDE DEF new
    <3>3. /\ Moves(creation, creation', c) /\ creation'[c].kind = "import"
          /\ creation'[c].pc = "done" /\ creation'[c].file = creation[c].file
      BY <3>1, CallGoes DEF CallsInv, D!Go
    <3>4. Made(c)' = new /\ \A d \in Calls : d # c => Made(d)' = Made(d)
      <4>1. Made(c) = {}
        BY <3>1 DEF CallsInv, CallInv
      <4> QED
        BY <3>1, <3>2, <4>1 DEF Made
    <3>5. PICK e : e = [by |-> c, imported |-> D!Cardinality(new),
                        skipped |-> Len(creation[c].file) - D!Cardinality(new)]
      OBVIOUS
    <3>6. e.by = c /\ events' = events \cup {e} /\ Recorded(c) = {}
      BY <3>1, <3>5 DEF CallsInv, CallInv
    <3>7. Recorded(c)' = {e} /\ \A d \in Calls : d # c => Recorded(d)' = Recorded(d)
      BY <3>6 DEF Recorded
    <3>8. e = [by |-> c, imported |-> D!Cardinality(Made(c)'),
               skipped |-> Len(creation'[c].file) - D!Cardinality(Made(c)')]
      BY <3>3, <3>4, <3>5
    <3>9. CallInv(c)'
      BY <3>3, <3>7, <3>8 DEF CallInv
    <3>10. \A d \in Calls : d # c /\ creation[d].kind = "import" => ~Inside(d)
      BY <3>1 DEF CallsInv
    <3>11. \A u : Alone(u) => Alone(u)'
      BY <3>1, <3>3 DEF Alone, Moves
    <3>12. sites' \subseteq Urls /\ (owner' = {} \/ \E d : owner' = {d})
      BY <3>1, <3>2 DEF CallsInv
    <3> QED
      BY <3>1, <3>3, <3>4, <3>7, <3>9, <3>10, <3>11, <3>12, OthersStay
  <2> QED
    BY <2>1, <2>2
<1>6. ASSUME NEW c \in Calls, D!CreateSite(c) PROVE CallsInv'
  <2>1. PICK u \in Urls :
          /\ creation' = [creation EXCEPT ![c].kind = "create", ![c].file = <<u>>,
                                          ![c].pc = IF u \in sites THEN "failed" ELSE "done"]
          /\ sites' = sites \cup {u}
          /\ maker' = IF u \in sites THEN maker ELSE maker \cup {<<u, c>>}
    BY Zenon, <1>6 DEF D!CreateSite
  <2>2. UNCHANGED <<owner, events>> /\ creation[c].pc = "new"
    BY <1>6 DEF D!CreateSite
  <2>3. PICK p \in {"failed", "done"} : p = IF u \in sites THEN "failed" ELSE "done"
    OBVIOUS
  <2>4. creation' = [creation EXCEPT ![c].kind = "create", ![c].file = <<u>>, ![c].pc = p]
    BY <2>1, <2>3
  <2>5. <<u>> \in Lines
    BY DEF Lines
  <2>6. Moves(creation, creation', c) /\ creation'[c].kind = "create" /\ creation'[c].pc = p
    BY Zenon, <2>4, <2>5, CallTakesFile DEF CallsInv
  <2>7. \A d \in Calls : d # c => Made(d)' = Made(d)
    BY <2>1 DEF Made
  <2>8. Made(c) = {} /\ Recorded(c) = {} /\ creation[c].kind = "none"
    BY <2>2 DEF CallsInv, CallInv
  <2>9. p = "failed" => Made(c)' = {}
    BY <2>1, <2>3, <2>8 DEF Made
  <2>10. CallInv(c)'
    BY <1>00, <2>2, <2>6, <2>8, <2>9 DEF CallInv
  <2>11. \A v : Alone(v) => Alone(v)'
    BY <2>1, <2>6, <2>8 DEF Alone, Moves
  <2>12. \A v \in sites' \ sites : Alone(v)'
    BY Zenon, <2>1, <2>6 DEF Alone
  <2>13. sites' \subseteq Urls /\ (owner' = {} \/ \E d : owner' = {d})
    BY <2>1, <2>2 DEF CallsInv
  <2> QED
    BY <1>00, <2>2, <2>6, <2>7, <2>10, <2>11, <2>12, <2>13, OthersStay
<1>7. ASSUME NEW c \in Calls, D!BeginOnboarding(c) PROVE CallsInv'
  <2>1. /\ creation' = [creation EXCEPT ![c].kind = "onboard", ![c].pc = IF owner = {} THEN "read" ELSE "failed"]
        /\ UNCHANGED <<owner, sites, events, maker>> /\ creation[c].pc = "new"
        /\ \A d \in Calls : creation[d].kind = "onboard" => ~Inside(d)
    BY <1>7 DEF D!BeginOnboarding, D!Locked
  <2>2. PICK p \in {"read", "failed"} : p = IF owner = {} THEN "read" ELSE "failed"
    OBVIOUS
  <2>3. creation' = [creation EXCEPT ![c].kind = "onboard", ![c].pc = p]
    BY <2>1, <2>2
  <2>4. Moves(creation, creation', c) /\ creation'[c].kind = "onboard" /\ creation'[c].pc = p
    BY Zenon, <2>3, CallBegins DEF CallsInv
  <2>5. creation[c].kind = "none"
    BY <2>1 DEF CallsInv, CallInv
  <2> QED
    BY <1>1, <2>1, <2>2, <2>4, <2>5
<1>8. ASSUME NEW c \in Calls, D!FinishOnboarding(c) PROVE CallsInv'
  <2>1. /\ creation[c].kind = "onboard" /\ creation[c].pc = "read" /\ owner' = owner \cup {c}
        /\ D!Go(c, "done") /\ UNCHANGED <<sites, events, maker>>
    BY <1>8 DEF D!FinishOnboarding
  <2>2. Moves(creation, creation', c) /\ creation'[c].kind = "onboard" /\ creation'[c].pc = "done"
    BY <2>1, CallGoes DEF CallsInv, D!Go
  <2>3. owner' = {c}
    BY <2>1 DEF CallsInv, CallInv
  <2>4. \A u : Alone(u) => Alone(u)'
    BY <2>1, <2>2 DEF Alone, Moves
  <2>5. CallInv(c)'
    BY <2>2 DEF CallInv
  <2>6. sites' \subseteq Urls
    BY <2>1 DEF CallsInv
  <2> QED
    BY <1>0, <1>00, <2>1, <2>2, <2>3, <2>4, <2>5, <2>6, OthersStay
<1>9. ASSUME NEW c \in Calls, D!Abort(c) PROVE CallsInv'
  <2>1. creation[c].pc \in {"locked", "read"}
    BY <1>9 DEF D!Abort, CallsInv, CallState
  <2> QED
    BY <1>4, <1>9, <2>1 DEF D!Abort
<1>10. CASE D!DeleteSite \/ UNCHANGED D!vars
  <2>1. UNCHANGED <<owner, events, creation, maker>> /\ sites' \subseteq sites
    BY <1>10 DEF D!DeleteSite, D!vars
  <2> QED
    BY <2>1 DEF CallsInv, CallInv, Made, Recorded, Alone
<1> QED
  BY <1>2, <1>3, <1>5, <1>6, <1>7, <1>8, <1>9, <1>10 DEF D!Next

---------------------------------------------------------------------------
(* The reviews of matches (Correlation).                                   *)

\* A fingerprint stands for all of the evidence.
ReviewInv == reviews = approved

LEMMA ReviewsStart == R!Init => ReviewInv
BY DEF R!Init, ReviewInv

LEMMA ReviewSteps ==
  ASSUME ReviewInv, [R!Next]_(R!vars)
  PROVE  ReviewInv'
<1>1. CASE R!Settle
  BY <1>1 DEF R!Settle, R!Fingerprint, ReviewInv
<1>2. CASE UNCHANGED <<reviews, approved>>
  BY <1>2 DEF ReviewInv
<1>3. R!Settle \/ UNCHANGED <<reviews, approved>>
  <2>1. ASSUME NEW w \in Workers,
               R!CompleteScan(w) \/ R!Begin(w) \/ R!Read(w) \/ R!Write(w) \/ R!Fail(w)
        PROVE  UNCHANGED <<reviews, approved>>
    BY <2>1 DEF R!CompleteScan, R!Begin, R!Read, R!Write, R!Fail, R!reviewing
  <2>2. ASSUME NEW i \in R!Ids, R!DeleteScan(i) \/ R!Declare(i) \/ R!Decide(i)
        PROVE  UNCHANGED <<reviews, approved>>
    BY <2>2 DEF R!DeleteScan, R!Declare, R!Decide, R!reviewing
  <2>3. R!Import \/ UNCHANGED R!vars => UNCHANGED <<reviews, approved>>
    BY DEF R!Import, R!vars, R!reviewing
  <2> QED
    BY <2>1, <2>2, <2>3 DEF R!Next
<1> QED
  BY <1>1, <1>2, <1>3

---------------------------------------------------------------------------
(* The types of these parts.                                               *)

\* Quotas: the locks and the rows are typed by their invariants; times are
\* noted from the clock, and sites are deleted by requests for them.
TimesInv ==
  /\ now \in 0..MaxTime /\ arrived \in [QuotaRequests -> 0..MaxTime]
  /\ gone \subseteq {Site[r] : r \in QuotaRequests}

LEMMA TimesStart == Q!Init => TimesInv
BY QuotasAssumption DEF Q!Init, TimesInv

LEMMA TimesSteps ==
  ASSUME TimesInv, [Q!Next]_(Q!vars)
  PROVE  TimesInv'
<1>1. /\ now' = now \/ (now' = now + 1 /\ now < MaxTime)
      /\ arrived' = arrived \/ \E r \in QuotaRequests : arrived' = [arrived EXCEPT ![r] = now]
      /\ gone' = gone \/ \E r \in QuotaRequests : gone' = gone \cup {Site[r]}
  <2>1. CASE \E r \in QuotaRequests : Q!Arrive(r)
    BY Zenon, <2>1 DEF Q!Arrive
  <2>2. CASE \E r \in QuotaRequests : Q!Lock(r) \/ Q!Count(r) \/ Q!End(r)
    BY Zenon, <2>2 DEF Q!Lock, Q!Count, Q!End
  <2>3. CASE \E r \in QuotaRequests : Q!Write(r)
    BY Zenon, <2>3 DEF Q!Write
  <2>4. CASE Q!Tick \/ UNCHANGED Q!vars
    BY Zenon, <2>4 DEF Q!Tick, Q!vars
  <2> QED
    BY Zenon, <2>1, <2>2, <2>3, <2>4 DEF Q!Next, Q!Step
<1>2. now' \in 0..MaxTime
  BY <1>1, QuotasAssumption DEF TimesInv
<1>3. arrived' \in [QuotaRequests -> 0..MaxTime]
  BY <1>1 DEF TimesInv
<1>4. gone' \subseteq {Site[r] : r \in QuotaRequests}
  BY <1>1 DEF TimesInv
<1> QED
  BY <1>2, <1>3, <1>4 DEF TimesInv

LEMMA QuotasTyped == QuotaInv /\ TimesInv => Q!TypeOK
<1> SUFFICES ASSUME QuotaInv, TimesInv PROVE Q!TypeOK
  OBVIOUS
<1>1. \A r \in QuotaRequests : /\ held[r] \in 0..Len(Q!LockOrder(r))
                               /\ pc[r] \in {"count", "write"} => held[r] = Len(Q!LockOrder(r))
  BY LocksAreSome DEF QuotaInv, LockInv, Transacting
<1> QED
  BY <1>1 DEF QuotaInv, LockInv, RowInv, TimesInv, Q!TypeOK

\* Grants: no token is newer than the last one issued.
TokensInv ==
  /\ tokens \in 0..MaxGrants /\ offered <= tokens /\ late \in BOOLEAN
  /\ ownership.proof \in 1..MaxProofs /\ published \subseteq 1..tokens
  /\ \A c \in Admins : admin[c].token <= tokens
  /\ \A a \in Attempts : /\ attempt[a].read <= tokens /\ attempt[a].token <= tokens
                         /\ attempt[a].proof <= MaxProofs

LEMMA TokensStart == G!Init => TokensInv
<1> SUFFICES ASSUME G!Init PROVE TokensInv
  OBVIOUS
<1>1. /\ tokens = 0 /\ offered = 0 /\ late = FALSE /\ published = {} /\ ownership.proof = 1
      /\ \A c \in Admins : admin[c].token = 0
      /\ \A a \in Attempts : attempt[a].read = 0 /\ attempt[a].token = 0 /\ attempt[a].proof = 0
  BY DEF G!Init, G!NoCall, G!Fresh
<1>2. MaxGrants \in Nat /\ MaxProofs \in Nat /\ 1 <= MaxProofs
  BY GrantsAssumption
<1>3. /\ tokens \in 0..MaxGrants /\ offered <= tokens
      /\ ownership.proof \in 1..MaxProofs /\ published \subseteq 1..tokens
  BY <1>1, <1>2
<1>4. /\ \A c \in Admins : admin[c].token <= tokens
      /\ \A a \in Attempts : /\ attempt[a].read <= tokens /\ attempt[a].token <= tokens
                             /\ attempt[a].proof <= MaxProofs
  BY <1>1, <1>2
<1>5. late \in BOOLEAN
  BY Zenon, <1>1
<1> QED
  BY Zenon, <1>3, <1>4, <1>5 DEF TokensInv

\* What an attempt writes of itself is of its grant and of the proof.
LEMMA AttemptsKeepTokens ==
  ASSUME GrantInv, TokensInv, NEW a \in Attempts, G!Step(a)
  PROVE  TokensInv'
<1> DEFINE Bounded(v) == v.read <= tokens /\ v.token <= tokens /\ v.proof <= MaxProofs
<1>1. UNCHANGED <<tokens, offered, late, published, admin>>
  BY DEF G!Step, G!Start, G!LookUp, G!Allow, G!Persist, G!Set
<1>2. /\ attempt \in [Attempts -> AttemptRows] /\ attempt[a] \in AttemptRows /\ Bounded(attempt[a])
      /\ tokens \in Nat /\ grant.token \in Nat /\ grant.token <= tokens /\ MaxProofs \in Nat
      /\ ownership \in [proof: Nat, current: BOOLEAN] /\ ownership.proof \in 1..MaxProofs
  BY GrantsAssumption DEF GrantInv, OutlivedHaveNoLease, TokensInOrder, ProofIsNumbered, TokensInv
<1>3. ASSUME NEW status \in G!Running \cup {"new", "denied", "persisted"}
      PROVE  Bounded([G!Fresh EXCEPT !.status = status])
  BY <1>2 DEF G!Fresh
<1>4. ASSUME NEW v, Bounded(v), G!Set(a, v), ownership'.proof \in 1..MaxProofs PROVE TokensInv'
  <2>1. attempt'[a] = v /\ \A b \in Attempts \ {a} : attempt'[b] = attempt[b]
    BY <1>2, <1>4 DEF G!Set
  <2> QED
    BY <1>1, <1>4, <2>1 DEF TokensInv
<1>5. CASE G!Start(a)
  <2>1. Bounded([G!Fresh EXCEPT !.status = "lookup", !.leased = TRUE, !.read = grant.token])
    BY <1>2 DEF G!Fresh
  <2> QED
    BY <1>2, <1>4, <1>5, <2>1 DEF G!Start
<1>6. CASE G!LookUp(a)
  <2>1. CASE G!Set(a, G!Stop(a)) /\ UNCHANGED ownership
    BY <1>2, <1>3, <1>4, <2>1 DEF G!Stop
  <2>2. CASE /\ ownership.proof < MaxProofs /\ ownership' = [proof |-> ownership.proof + 1, current |-> TRUE]
             /\ G!Set(a, [attempt[a] EXCEPT !.status = "answered", !.proof = ownership.proof + 1,
                          !.matched = attempt[a].read # 0 /\ attempt[a].read \in published])
    <3>1. PICK yes : yes = (attempt[a].read # 0 /\ attempt[a].read \in published)
      OBVIOUS
    <3>2. PICK v : v = [attempt[a] EXCEPT !.status = "answered", !.proof = ownership.proof + 1, !.matched = yes]
      OBVIOUS
    <3>3. v.read = attempt[a].read /\ v.token = attempt[a].token /\ v.proof = ownership.proof + 1
      BY <1>2, <3>2 DEF AttemptRows
    <3>4. Bounded(v) /\ ownership'.proof \in 1..MaxProofs
      BY <1>2, <2>2, <3>3
    <3>5. G!Set(a, v)
      BY <2>2, <3>1, <3>2
    <3> QED
      BY <1>4, <3>4, <3>5
  <2> QED
    BY <1>6, <2>1, <2>2 DEF G!LookUp
<1>7. CASE G!Allow(a)
  <2>1. PICK v : v = [attempt[a] EXCEPT !.status = "allowed", !.token = attempt[a].read]
    OBVIOUS
  <2>2. Bounded(v)
    BY <1>2, <2>1 DEF AttemptRows
  <2>3. Bounded(G!Stop(a)) /\ UNCHANGED ownership /\ (G!Set(a, v) \/ G!Set(a, G!Stop(a)))
    BY <1>3, <1>7, <2>1 DEF G!Allow, G!Stop
  <2> QED
    BY <1>2, <1>4, <2>2, <2>3
<1>8. CASE G!Persist(a)
  <2>1. /\ UNCHANGED ownership
        /\ \E status \in {"persisted", "denied"} : G!Set(a, [G!Fresh EXCEPT !.status = status])
    BY <1>8 DEF G!Persist, G!Stop
  <2> QED
    BY <1>2, <1>3, <1>4, <2>1
<1> QED
  BY <1>5, <1>6, <1>7, <1>8 DEF G!Step

LEMMA TokensSteps ==
  ASSUME GrantInv, TokensInv, [G!Next]_(G!vars)
  PROVE  TokensInv'
<1>1. /\ attempt \in [Attempts -> AttemptRows] /\ tokens \in Nat /\ offered \in Nat
      /\ admin \in [Admins -> [token: Nat, matched: BOOLEAN]]
      /\ ownership \in [proof: Nat, current: BOOLEAN] /\ MaxProofs \in Nat /\ MaxGrants \in Nat
      /\ grant.token \in Nat /\ grant.token <= tokens
  BY GrantsAssumption DEF GrantInv, OutlivedHaveNoLease, TokensInOrder, ProofIsNumbered
<1>2. \A a \in Attempts : /\ G!Fenced[a].read = attempt[a].read /\ G!Fenced[a].token = attempt[a].token
                          /\ G!Fenced[a].proof = attempt[a].proof
  BY <1>1 DEF G!Fenced, AttemptRows
<1>3. CASE G!IssueChallenge
  <2>1. /\ tokens' = tokens + 1 /\ offered' = tokens + 1 /\ tokens < MaxGrants /\ late' = FALSE
        /\ attempt' = G!Fenced /\ UNCHANGED <<ownership, published, admin>>
    BY <1>3 DEF G!IssueChallenge
  <2>2. \A a \in Attempts : /\ attempt'[a].read <= tokens /\ attempt'[a].token <= tokens
                            /\ attempt'[a].proof <= MaxProofs
    BY <1>2, <2>1 DEF TokensInv
  <2>3. \A a \in Attempts : attempt[a].read \in Nat /\ attempt[a].token \in Nat
    BY <1>1 DEF AttemptRows
  <2>4. \A a \in Attempts : attempt'[a].read <= tokens' /\ attempt'[a].token <= tokens'
    BY <1>1, <1>2, <2>1, <2>2, <2>3
  <2>5. \A c \in Admins : admin[c].token \in Nat /\ admin'[c].token <= tokens'
    BY <1>1, <2>1 DEF TokensInv
  <2>6. tokens' \in 0..MaxGrants /\ offered' <= tokens' /\ published' \subseteq 1..tokens'
    BY <1>1, <2>1 DEF TokensInv
  <2> QED
    BY <2>1, <2>2, <2>4, <2>5, <2>6 DEF TokensInv
<1>4. CASE G!Revoke
  <2>1. /\ offered' = 0 /\ late' = FALSE /\ attempt' = G!Fenced
        /\ UNCHANGED <<ownership, tokens, published, admin>>
    BY <1>4 DEF G!Revoke
  <2>2. \A a \in Attempts : /\ attempt'[a].read <= tokens /\ attempt'[a].token <= tokens
                            /\ attempt'[a].proof <= MaxProofs
    BY <1>2, <2>1 DEF TokensInv
  <2>3. offered' <= tokens'
    BY <1>1, <2>1
  <2>4. late' \in BOOLEAN
    BY Zenon, <2>1
  <2> QED
    BY <2>1, <2>2, <2>3, <2>4 DEF TokensInv
<1>5. CASE G!EditRecord \/ G!Expire \/ UNCHANGED G!vars
  <2>1. /\ UNCHANGED <<ownership, tokens, offered, admin, attempt>>
        /\ published' = published \/ published' \in SUBSET (1..tokens)
        /\ late' = late \/ late' = TRUE
    BY <1>5 DEF G!EditRecord, G!Expire, G!vars
  <2> QED
    BY <2>1 DEF TokensInv
<1>6. CASE G!OwnershipChanges
  <2>1. /\ UNCHANGED <<tokens, offered, late, published, admin, attempt>>
        /\ \/ ownership.proof < MaxProofs /\ ownership' = [proof |-> ownership.proof + 1, current |-> TRUE]
           \/ ownership' = [ownership EXCEPT !.current = FALSE]
    BY <1>6 DEF G!OwnershipChanges
  <2>2. ownership'.proof \in 1..MaxProofs
    BY <1>1, <2>1 DEF TokensInv
  <2> QED
    BY <2>1, <2>2 DEF TokensInv
<1>7. ASSUME NEW c \in Admins, G!BeginVerify(c) \/ G!LookUpChallenge(c) \/ G!Verify(c)
      PROVE  TokensInv'
  <2>1. UNCHANGED <<ownership, tokens, late, published, attempt>> /\ (offered' = offered \/ offered' = 0)
    BY <1>7 DEF G!BeginVerify, G!LookUpChallenge, G!Verify
  <2>2. PICK v : admin' = [admin EXCEPT ![c] = v] /\ v.token \in {offered, admin[c].token, 0}
    <3>1. CASE G!BeginVerify(c)
      <4>1. [admin[c] EXCEPT !.token = offered].token = offered
        BY <1>1
      <4> QED
        BY <3>1, <4>1 DEF G!BeginVerify
    <3>2. CASE G!LookUpChallenge(c)
      <4>1. [admin[c] EXCEPT !.matched = TRUE].token = admin[c].token /\ G!NoCall.token = 0
        BY <1>1 DEF G!NoCall
      <4> QED
        BY <3>2, <4>1 DEF G!LookUpChallenge
    <3>3. CASE G!Verify(c)
      <4>1. admin' = [admin EXCEPT ![c] = G!NoCall] /\ G!NoCall.token = 0
        BY <3>3 DEF G!Verify, G!NoCall
      <4> QED
        BY <4>1
    <3> QED
      BY <1>7, <3>1, <3>2, <3>3
  <2>3. \A d \in Admins : admin'[d].token <= tokens
    BY <1>1, <2>2 DEF TokensInv
  <2> QED
    BY <1>1, <2>1, <2>3 DEF TokensInv
<1> QED
  BY <1>3, <1>4, <1>5, <1>6, <1>7, AttemptsKeepTokens DEF G!Next

LEMMA GrantsTyped == GrantInv /\ TokensInv => G!TypeOK
<1> SUFFICES ASSUME GrantInv, TokensInv PROVE G!TypeOK
  OBVIOUS
<1>1. /\ ownership \in [proof: 1..MaxProofs, current: BOOLEAN]
      /\ tokens \in 0..MaxGrants /\ offered \in 0..tokens /\ late \in BOOLEAN
      /\ grant \in [token: 0..tokens, revoked: BOOLEAN, expired: BOOLEAN]
      /\ published \subseteq 1..tokens
  BY DEF GrantInv, TokensInOrder, ProofIsNumbered, TokensInv
<1>2. admin \in [Admins -> [token: 0..tokens, matched: BOOLEAN]]
  BY DEF GrantInv, TokensInOrder, TokensInv
<1>3. attempt \in [Attempts -> [status: G!Running \cup {"new", "denied", "persisted"},
                                read: 0..tokens, matched: BOOLEAN, proof: 0..MaxProofs,
                                token: 0..tokens, leased: BOOLEAN, outlived: BOOLEAN]]
  BY GrantsAssumption DEF GrantInv, OutlivedHaveNoLease, TokensInOrder, TokensInv, AttemptRows
<1> QED
  BY <1>1, <1>2, <1>3 DEF G!TypeOK

\* Follow-up: the row and what a scan has read of it have their fields.
FollowupTypes ==
  /\ finding \in F!Rows /\ Len(history) <= MaxEvents /\ scan \subseteq F!Reading

LEMMA FollowupTypesStart == F!Init => FollowupTypes
<1> SUFFICES ASSUME F!Init PROVE FollowupTypes
  OBVIOUS
<1>1. finding \in F!Rows
  BY DEF F!Init, F!Rows
<1>2. history = <<>> /\ scan = {}
  BY DEF F!Init
<1> QED
  BY <1>1, <1>2, HistoryAssumption DEF FollowupTypes

LEMMA FollowupTypesSteps ==
  ASSUME FollowupInv, FollowupTypes, [F!Next]_(F!vars)
  PROVE  FollowupTypes'
<1>1. history \in Seq(F!Events) /\ Len(history) \in Nat /\ MaxEvents \in Nat
  BY HistoryAssumption DEF FollowupInv
<1>2. \A e : Len(Append(history, e)) = Len(history) + 1
  BY <1>1
<1>3. CASE F!UserUpdates
  <2>1. PICK status \in F!Statuses, began \in 0..Len(history) :
          /\ finding' = [status |-> status, reason |-> status = "accepted",
                         suggested |-> FALSE, seen |-> finding.seen]
          /\ history' = Append(history, [by |-> "person", from |-> finding.status, to |-> status,
                                         began |-> began])
    BY <1>3 DEF F!UserUpdates
  <2>2. Len(history) < MaxEvents /\ scan' = scan
    BY <1>3 DEF F!UserUpdates
  <2>3. (status = "accepted") \in BOOLEAN
    OBVIOUS
  <2>4. finding' \in F!Rows
    BY <2>1, <2>3 DEF FollowupTypes, F!Rows
  <2>5. Len(history') <= MaxEvents
    BY <1>1, <1>2, <2>1, <2>2
  <2> QED
    BY <2>2, <2>4, <2>5 DEF FollowupTypes
<1>4. CASE F!ScanReads
  <2>1. PICK found \in BOOLEAN, complete \in BOOLEAN, version \in Metrics,
             began \in 0..Len(history) :
          scan' = {[status |-> finding.status, seen |-> finding.seen, observed |-> found,
                    complete |-> complete, version |-> version, began |-> began]}
    BY <1>4 DEF F!ScanReads
  <2>2. finding.status \in F!Statuses /\ finding.seen \in Metrics /\ UNCHANGED <<finding, history>>
    BY <1>4 DEF F!ScanReads, FollowupTypes, F!Rows
  <2>3. [status |-> finding.status, seen |-> finding.seen, observed |-> found,
         complete |-> complete, version |-> version, began |-> began] \in F!Reading
    BY <1>1, <2>2 DEF F!Reading
  <2> QED
    BY <2>1, <2>2, <2>3 DEF FollowupTypes
<1>5. CASE F!ScanWrites
  <2>1. PICK r \in scan :
          /\ finding' = F!Written(r)
          /\ history' = IF F!Decision(r) = r.status THEN history
                        ELSE Append(history, [by |-> "scan", from |-> r.status, to |-> F!Decision(r),
                                              began |-> r.began])
    BY <1>5 DEF F!ScanWrites
  <2>2. Len(history) < MaxEvents /\ scan' = {}
    BY <1>5 DEF F!ScanWrites
  <2>3. r \in F!Reading
    BY DEF FollowupTypes
  <2>4. F!Decision(r) \in F!Statuses
    BY <2>3 DEF F!Decision, F!Reopened, F!Reading, F!Statuses
  <2>5. PICK status \in F!Statuses \cup {"none"} :
          status = IF F!Decision(r) # r.status THEN F!Decision(r) ELSE finding.status
    BY <2>4 DEF FollowupTypes, F!Rows
  <2>6. PICK yes \in BOOLEAN : yes = (F!Suggestible(r) \/ (finding.suggested /\ ~r.observed))
    OBVIOUS
  <2>7. PICK version \in Metrics : version = IF r.observed THEN r.version ELSE finding.seen
    BY <2>3 DEF FollowupTypes, F!Rows, F!Reading
  <2>8. finding' = [finding EXCEPT !.status = status, !.suggested = yes, !.seen = version]
    BY <2>1, <2>5, <2>6, <2>7 DEF F!Written
  <2>9. finding' \in F!Rows
    BY <2>8 DEF FollowupTypes, F!Rows
  <2>10. Len(history') <= MaxEvents
    BY <1>1, <1>2, <2>1, <2>2
  <2> QED
    BY <2>2, <2>9, <2>10 DEF FollowupTypes
<1>6. CASE F!ScanRollsBack \/ UNCHANGED F!vars
  <2>1. UNCHANGED <<finding, history>> /\ (scan' = {} \/ scan' = scan)
    BY <1>6 DEF F!ScanRollsBack, F!vars
  <2> QED
    BY <2>1 DEF FollowupTypes
<1> QED
  BY <1>3, <1>4, <1>5, <1>6 DEF F!Next

LEMMA FollowupTyped == FollowupInv /\ FollowupTypes => F!TypeOK
BY Zenon DEF FollowupInv, FollowupTypes, F!TypeOK

\* Creation: an import has no more sites to create than its file has lines.
LEMMA LinesAreEnough ==
  ASSUME NEW f \in Lines, NEW set, set \subseteq D!ToSet(f)
  PROVE  D!Cardinality(set) \in Nat /\ D!Cardinality(set) <= Len(f)
<1>1. \A s : D!Cardinality(s) = Cardinality(s)
  BY DEF Cardinality, D!Cardinality
<1>2. Len(f) \in Nat /\ f \in [1..Len(f) -> Urls \cup {BadLine}] /\ DOMAIN f = 1..Len(f)
  BY DEF Lines
<1>3. ExistsSurjection(1..Len(f), D!ToSet(f))
  <2>1. f \in [1..Len(f) -> D!ToSet(f)] /\ \A u \in D!ToSet(f) : \E i \in 1..Len(f) : f[i] = u
    BY <1>2 DEF D!ToSet
  <2> QED
    BY <2>1 DEF ExistsSurjection, Surjection
<1>4. IsFiniteSet(D!ToSet(f)) /\ Cardinality(D!ToSet(f)) <= Len(f)
  BY <1>2, <1>3, FS_NatSurjection, FS_SurjCardinalityBound
<1>5. /\ IsFiniteSet(set) /\ Cardinality(set) <= Cardinality(D!ToSet(f))
      /\ Cardinality(set) \in Nat /\ Cardinality(D!ToSet(f)) \in Nat
  BY <1>4, FS_Subset, FS_CardinalityType
<1> QED
  BY <1>1, <1>2, <1>4, <1>5

EventTypes == [by: Calls, imported: Nat, skipped: Nat]
FileTypes == Files \cup {<<u>> : u \in Urls} \cup {<<>>}
CreationTypes ==
  /\ owner \subseteq Calls /\ maker \subseteq Urls \X Calls
  /\ events \subseteq EventTypes
  /\ \A c \in Calls : creation[c].file \in FileTypes

LEMMA CreationTypesStart == D!Init => CreationTypes
BY DEF D!Init, D!Fresh, CreationTypes, FileTypes

LEMMA CreationTypesSteps ==
  ASSUME CallsInv, CreationTypes, [D!Next]_(D!vars)
  PROVE  CreationTypes'
<1> DEFINE FilesStay == \A d \in Calls : creation'[d].file \in FileTypes
<1>1. ASSUME NEW c \in Calls, NEW k, NEW f \in FileTypes, NEW p,
             creation' = [creation EXCEPT ![c].kind = k, ![c].file = f, ![c].pc = p]
      PROVE  FilesStay
  BY <1>1 DEF CallsInv, CallState, CreationTypes
<1>2. ASSUME NEW c \in Calls, NEW p, D!Go(c, p) PROVE FilesStay
  BY <1>2 DEF D!Go, CallsInv, CallState, CreationTypes
<1>3. ASSUME NEW c \in Calls, D!BeginImport(c) PROVE CreationTypes'
  <2>1. PICK f \in Files : creation' = [creation EXCEPT ![c].kind = "import", ![c].file = f,
                                   ![c].pc = IF D!Valid(f) THEN "locked" ELSE "failed"]
    BY Zenon, <1>3 DEF D!BeginImport
  <2>2. FilesStay
    BY <1>1, <2>1 DEF FileTypes
  <2> QED
    BY <1>3, <2>2 DEF D!BeginImport, CreationTypes
<1>4. ASSUME NEW c \in Calls, D!ReadSites(c) \/ D!BeginOnboarding(c) PROVE CreationTypes'
  <2>1. /\ UNCHANGED <<owner, events, maker>>
        /\ \/ creation' = [creation EXCEPT ![c].pc = "read", ![c].existing = sites]
           \/ \E p : creation' = [creation EXCEPT ![c].kind = "onboard", ![c].pc = p]
    BY <1>4 DEF D!ReadSites, D!BeginOnboarding
  <2>2. FilesStay
    BY <2>1 DEF CallsInv, CallState, CreationTypes
  <2> QED
    BY <2>1, <2>2 DEF CreationTypes
<1>5. ASSUME NEW c \in Calls, D!FinishImport(c) PROVE CreationTypes'
  <2>1. CASE D!ToCreate(c) \cap sites # {}
    BY <1>2, <1>5, <2>1 DEF D!FinishImport, CreationTypes
  <2>2. CASE D!ToCreate(c) \cap sites = {}
    <3> DEFINE new == D!ToCreate(c)
    <3>1. /\ UNCHANGED owner /\ D!Go(c, "done") /\ maker' = maker \cup {<<u, c>> : u \in new}
          /\ events' = events \cup {[by |-> c, imported |-> D!Cardinality(new),
                                     skipped |-> Len(creation[c].file) - D!Cardinality(new)]}
      BY <1>5, <2>2 DEF D!FinishImport
    <3>2. creation[c].file \in Lines
      BY DEF CallsInv, CallState
    <3>3. new \subseteq D!ToSet(creation[c].file) /\ new \subseteq Urls
      <4>1. \A i \in DOMAIN creation[c].file : creation[c].file[i] \in Urls \cup {BadLine}
        BY <3>2 DEF Lines
      <4> QED
        BY <4>1 DEF D!ToCreate, D!Ready, D!ToSet
    <3> HIDE DEF new
    <3>4. D!Cardinality(new) \in Nat /\ D!Cardinality(new) <= Len(creation[c].file)
          /\ Len(creation[c].file) \in Nat
      BY <3>2, <3>3, LinesAreEnough DEF Lines
    <3>5. Len(creation[c].file) - D!Cardinality(new) \in Nat
      BY <3>4
    <3>6. events' \subseteq EventTypes
      BY <3>1, <3>4, <3>5 DEF CreationTypes, EventTypes
    <3> QED
      BY <1>2, <3>1, <3>3, <3>6 DEF CreationTypes
  <2> QED
    BY <2>1, <2>2
<1>6. ASSUME NEW c \in Calls, D!CreateSite(c) PROVE CreationTypes'
  <2>1. PICK u \in Urls :
          /\ creation' = [creation EXCEPT ![c].kind = "create", ![c].file = <<u>>,
                                          ![c].pc = IF u \in sites THEN "failed" ELSE "done"]
          /\ maker' = IF u \in sites THEN maker ELSE maker \cup {<<u, c>>}
    BY Zenon, <1>6 DEF D!CreateSite
  <2>2. <<u>> \in FileTypes
    BY DEF FileTypes
  <2>3. FilesStay
    BY <1>1, <2>1, <2>2
  <2> QED
    <3>1. UNCHANGED <<owner, events>> /\ maker' \subseteq maker \cup {<<u, c>>}
      BY Zenon, <1>6, <2>1 DEF D!CreateSite
    <3>2. maker' \subseteq Urls \X Calls
      BY <3>1 DEF CreationTypes
    <3> QED
      BY Zenon, <2>3, <3>1, <3>2 DEF CreationTypes
<1>7. ASSUME NEW c \in Calls, D!FinishOnboarding(c) \/ D!Abort(c) PROVE CreationTypes'
  <2>1. /\ UNCHANGED <<events, maker>> /\ (owner' = owner \/ owner' = owner \cup {c})
        /\ \E p : D!Go(c, p)
    BY <1>7 DEF D!FinishOnboarding, D!Abort
  <2> QED
    BY <1>2, <2>1 DEF CreationTypes
<1>8. CASE D!DeleteSite \/ UNCHANGED D!vars
  BY <1>8 DEF D!DeleteSite, D!vars, CreationTypes
<1> QED
  BY <1>3, <1>4, <1>5, <1>6, <1>7, <1>8 DEF D!Next

LEMMA CreationTyped == CallsInv /\ CreationTypes => D!TypeOK
<1> SUFFICES ASSUME CallsInv, CreationTypes PROVE D!TypeOK
  OBVIOUS
<1>1. \A c \in Calls : /\ creation[c].kind \in {"none", "import", "create", "onboard"}
                       /\ creation[c].pc \in D!Outside \cup {"locked", "read"}
                       /\ creation[c].existing \subseteq Urls
  BY DEF CallsInv, CallState, Kinds, Places
<1> QED
  BY <1>1 DEF CallsInv, CreationTypes, EventTypes, FileTypes, D!TypeOK

\* Reviews: who reconciles has read at most one status, of an observation it
\* has still to do, and no more was reviewed than members have acted.
Matches == {"potential", "confirmed"}
Statuses == Matches \cup {"not_applicable"}

Reconciles(k) ==
  /\ DOMAIN k = {"todo", "read"} /\ k.todo \in Seq(R!Ids)
  /\ \/ k.read = {}
     \/ k.todo # <<>> /\ \E status \in Statuses : k.read = {status}

RowTypes ==
  /\ scans \in 0..MaxScans /\ \A i \in R!Ids : scans < i => ~R!Exists(i)
  /\ observation \in [R!Ids -> {R!Gone} \cup [site : Sites, version : R!Versions \cup {R!None}]]
  /\ match \in [R!Ids -> {R!None} \cup Matches]
  /\ declared \in [R!Ids -> R!Versions \cup {R!None}]
  /\ \A i \in R!Ids : match[i] # R!None \/ declared[i] # R!None => R!Exists(i)
  /\ advisory \in [rule : {"none", "old", "all"}, exploited : BOOLEAN]

DecidedTypes ==
  /\ acts \in Nat /\ IsFiniteSet(reviews)
  /\ \/ decision = {} /\ Cardinality(reviews) <= acts
     \/ (\E d : decision = {d}) /\ Cardinality(reviews) + 1 <= acts

ReconcileTypes == DOMAIN correlator = Workers /\ \A w \in Workers : Reconciles(correlator[w])

ReviewTypes == RowTypes /\ DecidedTypes /\ ReconcileTypes

LEMMA StatusesOfRules ==
  ASSUME NEW rule, NEW version
  PROVE  R!Status(rule, version) \in Statuses
BY DEF R!Status, Statuses, Matches

LEMMA ReviewTypesStart == R!Init => ReviewTypes
<1> SUFFICES ASSUME R!Init PROVE ReviewTypes
  OBVIOUS
<1>1. RowTypes
  BY ReviewsAssumption DEF R!Init, RowTypes, R!Exists
<1>2. DecidedTypes
  BY FS_EmptySet DEF R!Init, DecidedTypes
<1>3. Reconciles(R!Idle)
  BY DEF Reconciles, R!Idle
<1> QED
  BY <1>1, <1>2, <1>3 DEF R!Init, ReconcileTypes, ReviewTypes

\* One worker goes on.
LEMMA OneReconciles ==
  ASSUME ReconcileTypes, NEW w \in Workers, NEW k, Reconciles(k),
         correlator' = [correlator EXCEPT ![w] = k]
  PROVE  ReconcileTypes'
BY DEF ReconcileTypes

LEMMA CurrentIsFinite == R!Cardinality(R!Current) \in Nat /\ R!Current \subseteq R!Ids
<1>1. R!Current \in SUBSET (1..MaxScans) /\ R!Current \subseteq R!Ids
  BY DEF R!Current, R!Ids
<1>2. IsFiniteSet(R!Current)
  <2>1. IsFiniteSet(1..MaxScans)
    BY ReviewsAssumption, FS_Interval
  <2> QED
    BY <1>1, <2>1, FS_Subset
<1>3. R!Cardinality(R!Current) = Cardinality(R!Current)
  BY DEF Cardinality, R!Cardinality
<1> QED
  BY <1>1, <1>2, <1>3, FS_CardinalityType

LEMMA WorkerTypes ==
  ASSUME ReviewTypes, NEW w \in Workers,
         R!CompleteScan(w) \/ R!Begin(w) \/ R!Read(w) \/ R!Write(w) \/ R!Fail(w)
  PROVE  ReviewTypes'
<1>0. /\ RowTypes /\ DecidedTypes /\ ReconcileTypes
      /\ Reconciles(correlator[w]) /\ correlator[w].todo \in Seq(R!Ids)
  BY DEF ReviewTypes, ReconcileTypes, Reconciles
<1>1. DecidedTypes'
  <2>1. UNCHANGED <<reviews, decision, acts>>
    BY DEF R!CompleteScan, R!Begin, R!Read, R!Write, R!Fail, R!reviewing, R!counters
  <2> QED
    BY <1>0, <2>1 DEF DecidedTypes
<1> SUFFICES RowTypes' /\ ReconcileTypes'
  BY <1>1 DEF ReviewTypes
<1>2. CASE R!CompleteScan(w)
  <2>1. scans' \in 1..MaxScans /\ scans' \in 0..MaxScans /\ scans' \in R!Ids
    BY <1>0, <1>2, ReviewsAssumption DEF R!CompleteScan, RowTypes, R!Ids
  <2>2. PICK s \in Sites, v \in R!Versions \cup {R!None} :
          observation' = [observation EXCEPT ![scans'] = [site |-> s, version |-> v]]
    BY <1>2 DEF R!CompleteScan
  <2>4. correlator[w] = [todo |-> <<>>, read |-> {}]
    BY <1>2 DEF R!CompleteScan, R!Idle
  <2> DEFINE k == [correlator[w] EXCEPT !.todo = <<scans'>>]
  <2>5. correlator' = [correlator EXCEPT ![w] = k]
    BY <1>2 DEF R!CompleteScan
  <2>6. DOMAIN k = {"todo", "read"} /\ k.todo = <<scans'>> /\ k.read = {}
    BY <2>4
  <2>7. <<scans'>> \in Seq(R!Ids)
    BY <2>1
  <2> HIDE DEF k
  <2>8. Reconciles(k)
    BY <2>6, <2>7 DEF Reconciles
  <2>9. ReconcileTypes'
    BY <1>0, <2>5, <2>8, OneReconciles
  <2>10. UNCHANGED <<match, declared, advisory>>
    BY <1>2 DEF R!CompleteScan
  <2>11. observation' \in [R!Ids -> {R!Gone} \cup [site : Sites, version : R!Versions \cup {R!None}]]
    BY <1>0, <2>1, <2>2 DEF RowTypes
  <2>12. ASSUME NEW i \in R!Ids
         PROVE  /\ scans' < i => ~R!Exists(i)'
                /\ match[i] # R!None \/ declared[i] # R!None => R!Exists(i)'
    <3>1. i \in Int /\ scans \in Int /\ scans' = scans + 1
      BY <1>0, <1>2, ReviewsAssumption DEF R!CompleteScan, RowTypes, R!Ids
    <3>2. CASE i # scans'
      <4>1. observation'[i] = observation[i]
        BY <1>0, <2>1, <2>2, <3>2 DEF RowTypes
      <4> QED
        BY <1>0, <3>1, <4>1 DEF RowTypes, R!Exists
    <3>3. CASE i = scans'
      <4>1. ~R!Exists(i)
        BY <1>0, <3>1, <3>3 DEF RowTypes
      <4> QED
        BY <1>0, <3>1, <3>3, <4>1 DEF RowTypes
    <3> QED
      BY <3>2, <3>3
  <2>13. RowTypes'
    BY <1>0, <2>1, <2>10, <2>11, <2>12 DEF RowTypes
  <2> QED
    BY <2>9, <2>13
<1>3. ASSUME UNCHANGED <<observation, match, declared, advisory, scans>>
      PROVE  RowTypes'
  BY <1>0, <1>3 DEF RowTypes, R!Exists
<1>4. CASE R!Begin(w)
  <2>1. PICK todo \in [1..R!Cardinality(R!Current) -> R!Current] :
          correlator' = [correlator EXCEPT ![w].todo = todo]
    BY <1>4 DEF R!Begin
  <2>2. todo \in Seq(R!Ids)
    BY CurrentIsFinite
  <2> DEFINE k == [correlator[w] EXCEPT !.todo = todo]
  <2>3. correlator' = [correlator EXCEPT ![w] = k]
    BY <2>1
  <2>4. correlator[w] = [todo |-> <<>>, read |-> {}]
    BY <1>4 DEF R!Begin, R!Idle
  <2>5. DOMAIN k = {"todo", "read"} /\ k.todo = todo /\ k.read = {}
    BY <2>4
  <2> HIDE DEF k
  <2>6. Reconciles(k)
    BY <2>2, <2>5 DEF Reconciles
  <2> QED
    BY <1>0, <1>3, <1>4, <2>3, <2>6, OneReconciles DEF R!Begin, R!rows, R!counters
<1>5. CASE R!Read(w)
  <2> DEFINE i == Head(correlator[w].todo)
  <2>1. correlator[w].todo # <<>> /\ correlator[w].read = {}
    BY <1>5 DEF R!Read
  <2>2. correlator' = IF R!Exists(i)
                   THEN [correlator EXCEPT ![w].read = {R!Status(advisory.rule, observation[i].version)}]
                   ELSE [correlator EXCEPT ![w].todo = Tail(@)]
    BY <1>5 DEF R!Read
  <2>3. CASE R!Exists(i)
    <3> DEFINE status == R!Status(advisory.rule, observation[i].version)
    <3> DEFINE k == [correlator[w] EXCEPT !.read = {status}]
    <3>1. correlator' = [correlator EXCEPT ![w] = k]
      BY <2>2, <2>3
    <3>2. status \in Statuses
      BY StatusesOfRules
    <3> HIDE DEF status
    <3>3. Reconciles(k)
      BY <1>0, <2>1, <3>2 DEF Reconciles
    <3> HIDE DEF k
    <3> QED
      BY <1>0, <1>3, <1>5, <3>1, <3>3, OneReconciles DEF R!Read, R!rows, R!counters
  <2>4. CASE ~R!Exists(i)
    <3> DEFINE k == [correlator[w] EXCEPT !.todo = Tail(correlator[w].todo)]
    <3>1. correlator' = [correlator EXCEPT ![w] = k]
      BY <2>2, <2>4
    <3>2. Tail(correlator[w].todo) \in Seq(R!Ids)
      BY <1>0, <2>1
    <3>3. Reconciles(k)
      BY <1>0, <2>1, <3>2 DEF Reconciles
    <3> HIDE DEF k
    <3> QED
      BY <1>0, <1>3, <1>5, <3>1, <3>3, OneReconciles DEF R!Read, R!rows, R!counters
  <2> QED
    BY <2>3, <2>4
<1>6. CASE R!Write(w)
  <2> DEFINE i == Head(correlator[w].todo)
  <2>1. PICK status \in correlator[w].read :
          /\ match' = [match EXCEPT ![i] = IF R!Exists(i) THEN R!Stored(status, match[i]) ELSE R!None]
          /\ correlator' = [correlator EXCEPT ![w] =
                              IF ~R!Exists(i) /\ status # "not_applicable" THEN R!Idle
                              ELSE [todo |-> Tail(correlator[w].todo), read |-> {}]]
    BY <1>6 DEF R!Write
  <2>2. status \in Statuses /\ correlator[w].todo # <<>>
    BY <1>0, <2>1 DEF Reconciles
  <2>3. i \in R!Ids /\ Tail(correlator[w].todo) \in Seq(R!Ids)
    BY <1>0, <2>2
  <2> DEFINE k == IF ~R!Exists(i) /\ status # "not_applicable" THEN R!Idle
                  ELSE [todo |-> Tail(correlator[w].todo), read |-> {}]
  <2>4. Reconciles(k)
    BY <2>3 DEF Reconciles, R!Idle
  <2>5. correlator' = [correlator EXCEPT ![w] = k]
    BY <2>1
  <2> HIDE DEF k, i
  <2>6. ReconcileTypes'
    BY <1>0, <2>4, <2>5, OneReconciles
  <2>7. R!Stored(status, match[i]) \in {R!None} \cup Matches
    BY <2>2 DEF R!Stored, Statuses, Matches, R!None
  <2>8. UNCHANGED <<observation, declared, advisory, scans>>
    BY <1>6 DEF R!Write, R!counters
  <2>9. match' \in [R!Ids -> {R!None} \cup Matches]
    BY <1>0, <2>1, <2>3, <2>7 DEF RowTypes, i
  <2>10. \A j \in R!Ids : match'[j] # R!None => match[j] # R!None \/ R!Exists(j)
    <3> SUFFICES ASSUME NEW j \in R!Ids, match'[j] # R!None, ~R!Exists(j) PROVE match[j] # R!None
      OBVIOUS
    <3> QED
      BY <1>0, <2>1, <2>3 DEF RowTypes, i
  <2>11. RowTypes'
    BY <1>0, <2>8, <2>9, <2>10 DEF RowTypes, R!Exists
  <2> QED
    BY <2>6, <2>11
<1>7. CASE R!Fail(w)
  <2>1. Reconciles(R!Idle)
    BY DEF Reconciles, R!Idle
  <2> QED
    BY Zenon, <1>0, <1>3, <1>7, <2>1, OneReconciles DEF R!Fail, R!rows
<1> QED
  BY Zenon, <1>2, <1>4, <1>5, <1>6, <1>7

LEMMA MoreActs ==
  ASSUME DecidedTypes, reviews' = reviews, acts' = acts + 1,
         \/ decision' = decision
         \/ decision = {} /\ \E d : decision' = {d}
  PROVE  DecidedTypes'
<1>1. /\ acts \in Nat /\ IsFiniteSet(reviews) /\ Cardinality(reviews) \in Nat
      /\ IsFiniteSet(reviews') /\ Cardinality(reviews') = Cardinality(reviews)
  BY FS_CardinalityType DEF DecidedTypes
<1>2. acts' \in Nat /\ Cardinality(reviews) <= acts
  BY <1>1 DEF DecidedTypes
<1>3. CASE decision' = {}
  BY <1>1, <1>2, <1>3 DEF DecidedTypes
<1>4. ASSUME NEW d, decision' = {d} PROVE DecidedTypes'
  <2>1. Cardinality(reviews') + 1 <= acts'
    BY <1>1, <1>2
  <2> QED
    BY <1>1, <1>2, <1>4, <2>1 DEF DecidedTypes
<1>5. decision' = {} \/ \E d : decision' = {d}
  BY DEF DecidedTypes
<1> QED
  BY <1>3, <1>4, <1>5

LEMMA WebTypes ==
  ASSUME ReviewTypes, NEW i \in R!Ids, R!DeleteScan(i) \/ R!Declare(i) \/ R!Decide(i)
  PROVE  ReviewTypes'
<1>0. RowTypes /\ DecidedTypes /\ ReconcileTypes
  BY DEF ReviewTypes
<1>1. ReconcileTypes'
  BY <1>0 DEF R!DeleteScan, R!Declare, R!Decide, ReconcileTypes
<1>2. CASE R!DeleteScan(i)
  <2>1. /\ observation' = [observation EXCEPT ![i] = R!Gone] /\ match' = [match EXCEPT ![i] = R!None]
        /\ declared' = [declared EXCEPT ![i] = R!None] /\ UNCHANGED <<advisory, scans, acts, reviews, decision>>
    BY <1>2 DEF R!DeleteScan, R!counters, R!reviewing
  <2>2. RowTypes'
    BY <1>0, <2>1 DEF RowTypes, R!Exists
  <2> QED
    BY <1>0, <1>1, <2>1, <2>2 DEF DecidedTypes, ReviewTypes
<1>3. CASE R!Declare(i)
  <2>1. /\ acts' = acts + 1 /\ UNCHANGED <<observation, match, advisory, scans, reviews, decision>>
        /\ R!Exists(i)
    BY <1>3 DEF R!Declare, R!Act, R!IsLatest, R!reviewing
  <2>2. \E v \in R!Versions \cup {R!None} : declared' = [declared EXCEPT ![i] = v]
    BY <1>3 DEF R!Declare
  <2>3. RowTypes'
    BY <1>0, <2>1, <2>2 DEF RowTypes, R!Exists
  <2>4. DecidedTypes'
    BY <1>0, <2>1, MoreActs
  <2> QED
    BY <1>1, <2>3, <2>4 DEF ReviewTypes
<1>4. CASE R!Decide(i)
  <2>1. /\ acts' = acts + 1 /\ UNCHANGED <<observation, match, declared, advisory, scans, reviews>>
        /\ decision = {} /\ \E d : decision' = {d}
    BY <1>4 DEF R!Decide, R!Act, R!rows
  <2>2. RowTypes'
    BY <1>0, <2>1 DEF RowTypes, R!Exists
  <2>3. DecidedTypes'
    BY <1>0, <2>1, MoreActs
  <2> QED
    BY <1>1, <2>2, <2>3 DEF ReviewTypes
<1> QED
  BY Zenon, <1>2, <1>3, <1>4

LEMMA SettleTypes == ReviewTypes /\ R!Settle => ReviewTypes'
<1> SUFFICES ASSUME ReviewTypes, R!Settle PROVE ReviewTypes'
  OBVIOUS
<1>1. UNCHANGED <<observation, match, declared, advisory, correlator, scans, acts>> /\ decision' = {}
  BY DEF R!Settle, R!rows, R!counters
<1>2. RowTypes' /\ ReconcileTypes'
  BY <1>1 DEF ReviewTypes, RowTypes, ReconcileTypes, R!Exists
<1>3. PICK f : reviews' = reviews \cup {f} \/ reviews' = reviews \ {f}
  BY DEF R!Settle
<1>4. IsFiniteSet(reviews) /\ Cardinality(reviews) \in Nat /\ acts \in Nat
  BY FS_CardinalityType DEF ReviewTypes, DecidedTypes
<1>5. IsFiniteSet(reviews') /\ Cardinality(reviews') <= Cardinality(reviews) + 1 /\ Cardinality(reviews') \in Nat
  <2>1. CASE reviews' = reviews \cup {f}
    BY <1>4, <2>1, FS_AddElement
  <2>2. CASE reviews' = reviews \ {f}
    <3>1. IsFiniteSet(reviews') /\ Cardinality(reviews') =
            IF f \in reviews THEN Cardinality(reviews) - 1 ELSE Cardinality(reviews)
      BY <1>4, <2>2, FS_RemoveElement
    <3>2. Cardinality(reviews') \in Nat
      BY <3>1, FS_CardinalityType
    <3> QED
      BY <1>4, <3>1, <3>2
  <2> QED
    BY <1>3, <2>1, <2>2
<1>6. Cardinality(reviews) + 1 <= acts
  <2>1. decision # {}
    BY DEF R!Settle
  <2> QED
    BY <2>1 DEF ReviewTypes, DecidedTypes
<1>7. DecidedTypes'
  BY <1>1, <1>4, <1>5, <1>6 DEF DecidedTypes
<1> QED
  BY <1>2, <1>7 DEF ReviewTypes

LEMMA ReviewTypesSteps ==
  ASSUME ReviewTypes, [R!Next]_(R!vars)
  PROVE  ReviewTypes'
<1>1. CASE R!Import
  <2>1. /\ advisory' \in [rule : {"none", "old", "all"}, exploited : BOOLEAN]
        /\ UNCHANGED <<observation, match, declared, correlator, scans, acts, reviews, decision>>
    BY <1>1 DEF R!Import, R!rows, R!reviewing
  <2> QED
    BY <2>1 DEF ReviewTypes, RowTypes, DecidedTypes, ReconcileTypes, R!Exists
<1>2. CASE UNCHANGED R!vars
  BY <1>2 DEF R!vars, ReviewTypes, RowTypes, DecidedTypes, ReconcileTypes, R!Exists
<1> QED
  BY <1>1, <1>2, WorkerTypes, WebTypes, SettleTypes DEF R!Next

LEMMA ReviewsTyped == ReviewTypes => R!TypeOK
<1> SUFFICES ASSUME ReviewTypes PROVE R!TypeOK
  OBVIOUS
<1>1. \A set : R!Cardinality(set) = Cardinality(set)
  BY DEF Cardinality, R!Cardinality
<1>2. ASSUME NEW w \in Workers
      PROVE  correlator[w].todo \in Seq(R!Ids) /\ R!Cardinality(correlator[w].read) <= 1
  <2>1. Reconciles(correlator[w])
    BY DEF ReviewTypes, ReconcileTypes
  <2>2. correlator[w].read = {} \/ \E status : correlator[w].read = {status}
    BY <2>1 DEF Reconciles
  <2>3. Cardinality(correlator[w].read) <= 1
    <3>1. CASE correlator[w].read = {}
      BY <3>1, FS_EmptySet
    <3>2. ASSUME NEW status, correlator[w].read = {status}
          PROVE  Cardinality(correlator[w].read) <= 1
      <4>1. Cardinality({status}) = 1
        BY FS_Singleton
      <4> QED
        BY <3>2, <4>1
    <3> QED
      BY <2>2, <3>1, <3>2
  <2> QED
    BY <1>1, <2>1, <2>3 DEF Reconciles
<1>3. R!Cardinality(decision) <= 1 /\ R!Cardinality(reviews) <= acts
  <2>1. Cardinality(decision) <= 1
    BY FS_EmptySet, FS_Singleton DEF ReviewTypes, DecidedTypes
  <2>2. Cardinality(reviews) <= acts
    BY FS_CardinalityType DEF ReviewTypes, DecidedTypes
  <2> QED
    BY <1>1, <2>1, <2>2
<1>4. match \in [R!Ids -> {R!None, "potential", "confirmed"}]
  BY DEF ReviewTypes, RowTypes, Matches
<1> QED
  BY Zenon, <1>2, <1>3, <1>4 DEF ReviewTypes, RowTypes, R!TypeOK

---------------------------------------------------------------------------
(* The parts of Components that this module is about.                      *)

RecordsInv ==
  /\ part = "quotas" => QuotaInv /\ TimesInv
  /\ part = "ownership" => ProofInv
  /\ part = "grants" => GrantInv /\ TokensInv
  /\ part = "followup" => FollowupInv /\ FollowupTypes
  /\ part = "creation" => CallsInv /\ CreationTypes
  /\ part = "reviews" => ReviewInv /\ ReviewTypes

\* Each part makes its own steps.
LEMMA RecordsMove ==
  ASSUME [Next]_vars
  PROVE  /\ part' = part
         /\ part = "quotas" => [Q!Next]_(Q!vars)
         /\ part = "ownership" => [O!Next]_(O!vars)
         /\ part # "ownership" => UNCHANGED O!vars
         /\ part = "grants" => [G!Next]_(G!vars)
         /\ part # "grants" => UNCHANGED G!vars
         /\ part = "followup" => [F!Next]_(F!vars)
         /\ part = "creation" => [D!Next]_(D!vars)
         /\ part = "reviews" => [R!Next]_(R!vars)
<1> USE DEF vars, requestVars, auditVars, quotaVars, proofVars, grantVars, followupVars, siteVars,
            creationVars, reviewVars
<1>1. part' = part
  BY Zenon DEF Next
<1>2. part = "quotas" => [Q!Next]_(Q!vars)
  BY Zenon DEF Next, Q!vars
<1>3. part = "ownership" => [O!Next]_(O!vars)
  BY Zenon DEF Next, O!vars
<1>4. part # "ownership" => UNCHANGED O!vars
  BY Zenon DEF Next, O!vars
<1>5. part = "grants" => [G!Next]_(G!vars)
  BY Zenon DEF Next, G!vars
<1>6. part # "grants" => UNCHANGED G!vars
  BY Zenon DEF Next, G!vars
<1>7. part = "followup" => [F!Next]_(F!vars)
  BY Zenon DEF Next, F!vars
<1>8. part = "creation" => [D!Next]_(D!vars)
  BY Zenon DEF Next, D!vars
<1>9. part = "reviews" => [R!Next]_(R!vars)
  BY Zenon DEF Next, R!vars
<1> QED
  BY Zenon, <1>1, <1>2, <1>3, <1>4, <1>5, <1>6, <1>7, <1>8, <1>9

LEMMA RecordsStart == Init => RecordsInv
<1> SUFFICES ASSUME Init PROVE RecordsInv
  OBVIOUS
<1>1. Q!Init /\ O!Init /\ G!Init /\ F!Init /\ D!Init /\ R!Init
  BY Zenon DEF Init
<1> QED
  BY Zenon, <1>1, QuotasStart, TimesStart, ProofsStart, GrantsStart, TokensStart,
     FollowupStarts, FollowupTypesStart, CallsStart, CreationTypesStart, ReviewsStart,
     ReviewTypesStart
  DEF RecordsInv

LEMMA RecordsStep ==
  ASSUME RecordsInv, [Next]_vars
  PROVE  RecordsInv'
<1>1. part' = part
  BY Zenon, RecordsMove
<1>2. CASE part = "quotas"
  BY <1>1, <1>2, RecordsMove, QuotaSteps, TimesSteps DEF RecordsInv
<1>3. CASE part = "ownership"
  BY <1>1, <1>3, RecordsMove, ProofSteps DEF RecordsInv
<1>4. CASE part = "grants"
  BY <1>1, <1>4, RecordsMove, GrantSteps, TokensSteps DEF RecordsInv
<1>5. CASE part = "followup"
  BY <1>1, <1>5, RecordsMove, FollowupSteps, FollowupTypesSteps DEF RecordsInv
<1>6. CASE part = "creation"
  BY <1>1, <1>6, RecordsMove, CallSteps, CreationTypesSteps DEF RecordsInv
<1>7. CASE part = "reviews"
  BY <1>1, <1>7, RecordsMove, ReviewSteps, ReviewTypesSteps DEF RecordsInv
<1>8. CASE part \notin {"quotas", "ownership", "grants", "followup", "creation", "reviews"}
  BY Zenon, <1>1, <1>8 DEF RecordsInv
<1> QED
  BY Zenon, <1>2, <1>3, <1>4, <1>5, <1>6, <1>7, <1>8

LEMMA RecordsInvHolds == Spec => []RecordsInv
BY RecordsStart, RecordsStep, PTL DEF Spec

\* The types of these parts follow.
LEMMA RecordsTyped ==
  ASSUME RecordsInv
  PROVE  /\ part = "quotas" => Q!TypeOK
         /\ part = "ownership" => O!TypeOK
         /\ part = "grants" => G!TypeOK
         /\ part = "followup" => F!TypeOK
         /\ part = "creation" => D!TypeOK
         /\ part = "reviews" => R!TypeOK
BY Zenon, QuotasTyped, GrantsTyped, FollowupTyped, CreationTyped, ReviewsTyped
DEF RecordsInv, ProofInv

\* The transactions that count and insert: no window ever holds more than its
\* limit, and two audits of one site or host are never active together.
THEOREM QuotasAreNeverExceeded == Spec => []QuotasHold
<1>1. RecordsInv => QuotasHold
  BY QuotasAreKept DEF RecordsInv, QuotasHold
<1> QED
  BY <1>1, RecordsInvHolds, PTL

\* The advisory locks have one order: some transaction always goes on.
THEOREM LocksNeverDeadlock == Spec => []SomeoneGoesOn
<1>1. RecordsInv => SomeoneGoesOn
  BY LocksCloseNoCircle DEF RecordsInv, QuotaInv, SomeoneGoesOn
<1> QED
  BY <1>1, RecordsInvHolds, PTL

\* The history of a finding explains its status, the events of imports the
\* sites there are, and the locks keep imports and onboardings apart.
THEOREM RecordsExplain == Spec => []HistoryExplains
<1>1. RecordsInv => HistoryExplains
  BY Zenon, ImportsHold, HistoryIsExplained DEF RecordsInv, HistoryExplains
<1> QED
  BY <1>1, RecordsInvHolds, PTL

\* A match is hidden only by a review of what it says now.
THEOREM ReviewsAreFaithful == Spec => []ReviewsCoverTheirEvidence
<1>1. RecordsInv => ReviewsCoverTheirEvidence
  BY DEF RecordsInv, ReviewInv, ReviewsCoverTheirEvidence, R!ReviewsCoverTheirEvidence,
         R!Reviewed, R!Fingerprint
<1> QED
  BY <1>1, RecordsInvHolds, PTL

\* A challenge names the newest token and a proof an older one, at any time.
THEOREM ProofsAreOrdered == Spec => [](part = "ownership" => O!TypeOK)
<1>1. RecordsInv => (part = "ownership" => O!TypeOK)
  BY DEF RecordsInv, ProofInv
<1> QED
  BY <1>1, RecordsInvHolds, PTL

\* Whatever lookups overtake each other: a token becomes the proof only as the
\* newest challenge, which it uses up, what was lost comes back only so, and a
\* proof is prolonged or lost only by an answer about its own token.
THEOREM ProofsAreFollowed == Spec => ProofsFollowDNS
<1>1. RecordsInv /\ [Next]_vars => [ByChallenge]_(O!vars) /\ [ByLookup]_(O!vars)
  BY Zenon, RecordsMove, ChallengesFollowed, LookupsFollowed DEF RecordsInv
<1>2. Spec => [][ByChallenge]_(O!vars)
  BY <1>1, RecordsInvHolds, PTL DEF Spec
<1>3. Spec => [][ByLookup]_(O!vars)
  BY <1>1, RecordsInvHolds, PTL DEF Spec
<1> QED
  BY <1>2, <1>3 DEF ProofsFollowDNS, O!ProofsFollowChallenges, O!ProofsFollowLookups, ByChallenge,
                    ByLookup

\* However a revocation and the statements of an attempt interleave: results
\* are stored only by an attempt that began after the last revocation, a
\* revoked grant is replaced only by the grant of a challenge issued after it,
\* and an audit that was stopped begins nothing.
THEOREM StopsStay == Spec => StopsAreFinal
<1>1. RecordsInv /\ [Next]_vars => [OnlyAllowed]_(G!vars) /\ [OnlyReplaced]_(G!vars)
  BY Zenon, RecordsMove, RevocationsStop, RevocationsStay DEF RecordsInv
<1>2. Spec => [][OnlyAllowed]_(G!vars)
  BY <1>1, RecordsInvHolds, PTL DEF Spec
<1>3. Spec => [][OnlyReplaced]_(G!vars)
  BY <1>1, RecordsInvHolds, PTL DEF Spec
<1> QED
  BY <1>2, <1>3, StoppedAuditsAreSilent
  DEF StopsAreFinal, G!RevocationStopsResults, G!RevokedStaysRevoked, OnlyAllowed, OnlyReplaced

---------------------------------------------------------------------------
(* The synchronization of the advisories.                                  *)

\* The two sizes that Components explores.
SP == INSTANCE VulnerabilitySyncProofs WITH
  Workers <- {"v", "w"}, CVEs <- {"c", "d"}, KevCatalogs <- {{"c"}},
  Day <- 3, MaxSpan <- 5, MaxWindow <- 2, MinSplit <- 1, MaxRequests <- 3, Attempts <- 3,
  StaleAfter <- 0, Refresh <- 2, MaxClock <- 2, MaxCycles <- 2, MaxChanges <- 1, MaxFaults <- 1
LP == INSTANCE VulnerabilitySyncProofs WITH
  Workers <- {"v"}, CVEs <- {"c", "d"}, KevCatalogs <- {{"c"}},
  Day <- 3, MaxSpan <- 5, MaxWindow <- 2, MinSplit <- 1, MaxRequests <- 3, Attempts <- 3,
  StaleAfter <- 1, Refresh <- 2, MaxClock <- 3, MaxCycles <- 3, MaxChanges <- 2, MaxFaults <- 0

LEMMA SizesAreSane == SP!Sane /\ LP!Sane
BY DEF SP!Sane, LP!Sane

LEMMA ManyRuns ==
  /\ S!Init => SP!Init
  /\ [S!Next]_(S!vars) => [SP!Next]_(SP!vars)
  /\ SP!CursorLeavesNothingBehind => S!CursorLeavesNothingBehind
  /\ SP!TypeOK => S!TypeOK
<1> USE DEF S!Source, SP!Source, S!Advisory, SP!Advisory, S!Idle, SP!Idle, S!Init,
            SP!Init, S!Tick, SP!Tick, S!Publish, SP!Publish, S!Outside, SP!Outside,
            S!Catalogue, SP!Catalogue, S!Table, SP!Table, S!Goes, SP!Goes, S!At, SP!At,
            S!Fault, SP!Fault, S!NoFault, SP!NoFault, S!JobAfter, SP!JobAfter, S!From,
            SP!From, S!Span, SP!Span, S!ReadWindow, SP!ReadWindow, S!ReadFreshness,
            SP!ReadFreshness, S!Window, SP!Window, S!Stale, SP!Stale, S!StartRun,
            SP!StartRun, S!Unlock, SP!Unlock, S!Failed, SP!Failed, S!Finish, SP!Finish,
            S!CorrelationFails, SP!CorrelationFails, S!Crash, SP!Crash, S!Within,
            SP!Within, S!Read, SP!Read, S!Width, SP!Width, S!Halves, SP!Halves,
            S!Fetching, SP!Fetching, S!Split, SP!Split, S!Spend, SP!Spend, S!SplitWide,
            SP!SplitWide, S!Asking, SP!Asking, S!FetchWindow, SP!FetchWindow,
            S!FetchPartial, SP!FetchPartial, S!RequestsSpent, SP!RequestsSpent,
            S!FetchFails, SP!FetchFails, S!FetchKev, SP!FetchKev, S!FetchProduct,
            SP!FetchProduct, S!ReadAdvisory, SP!ReadAdvisory, S!Ignored, SP!Ignored,
            S!Collides, SP!Collides, S!WriteAdvisory, SP!WriteAdvisory, S!WriteFails,
            SP!WriteFails, S!Complete, SP!Complete, S!PageDone, SP!PageDone, S!Step,
            SP!Step, S!Next, SP!Next, S!None, SP!None, S!Sources, SP!Sources, S!vars,
            SP!vars, S!counters, SP!counters, S!CursorLeavesNothingBehind,
            SP!CursorLeavesNothingBehind, S!TypeOK, SP!TypeOK, S!Cardinality,
            SP!Cardinality
<1>1. S!Init => SP!Init
  OBVIOUS
<1>2. S!Next => SP!Next
  BY Zenon
<1>3. UNCHANGED S!vars => UNCHANGED SP!vars
  OBVIOUS
<1>4. SP!CursorLeavesNothingBehind => S!CursorLeavesNothingBehind
  OBVIOUS
<1>5. SP!TypeOK => S!TypeOK
  OBVIOUS
<1> QED
  BY Zenon, <1>1, <1>2, <1>3, <1>4, <1>5

LEMMA LongRuns ==
  /\ L!Init => LP!Init
  /\ [L!Next]_(L!vars) => [LP!Next]_(LP!vars)
  /\ LP!CursorLeavesNothingBehind => L!CursorLeavesNothingBehind
  /\ LP!TypeOK => L!TypeOK
<1> USE DEF L!Source, LP!Source, L!Advisory, LP!Advisory, L!Idle, LP!Idle, L!Init,
            LP!Init, L!Tick, LP!Tick, L!Publish, LP!Publish, L!Outside, LP!Outside,
            L!Catalogue, LP!Catalogue, L!Table, LP!Table, L!Goes, LP!Goes, L!At, LP!At,
            L!Fault, LP!Fault, L!NoFault, LP!NoFault, L!JobAfter, LP!JobAfter, L!From,
            LP!From, L!Span, LP!Span, L!ReadWindow, LP!ReadWindow, L!ReadFreshness,
            LP!ReadFreshness, L!Window, LP!Window, L!Stale, LP!Stale, L!StartRun,
            LP!StartRun, L!Unlock, LP!Unlock, L!Failed, LP!Failed, L!Finish, LP!Finish,
            L!CorrelationFails, LP!CorrelationFails, L!Crash, LP!Crash, L!Within,
            LP!Within, L!Read, LP!Read, L!Width, LP!Width, L!Halves, LP!Halves,
            L!Fetching, LP!Fetching, L!Split, LP!Split, L!Spend, LP!Spend, L!SplitWide,
            LP!SplitWide, L!Asking, LP!Asking, L!FetchWindow, LP!FetchWindow,
            L!FetchPartial, LP!FetchPartial, L!RequestsSpent, LP!RequestsSpent,
            L!FetchFails, LP!FetchFails, L!FetchKev, LP!FetchKev, L!FetchProduct,
            LP!FetchProduct, L!ReadAdvisory, LP!ReadAdvisory, L!Ignored, LP!Ignored,
            L!Collides, LP!Collides, L!WriteAdvisory, LP!WriteAdvisory, L!WriteFails,
            LP!WriteFails, L!Complete, LP!Complete, L!PageDone, LP!PageDone, L!Step,
            LP!Step, L!Next, LP!Next, L!None, LP!None, L!Sources, LP!Sources, L!vars,
            LP!vars, L!counters, LP!counters, L!CursorLeavesNothingBehind,
            LP!CursorLeavesNothingBehind, L!TypeOK, LP!TypeOK, L!Cardinality,
            LP!Cardinality
<1>1. L!Init => LP!Init
  OBVIOUS
<1>2. L!Next => LP!Next
  BY Zenon
<1>3. UNCHANGED L!vars => UNCHANGED LP!vars
  OBVIOUS
<1>4. LP!CursorLeavesNothingBehind => L!CursorLeavesNothingBehind
  OBVIOUS
<1>5. LP!TypeOK => L!TypeOK
  OBVIOUS
<1> QED
  BY Zenon, <1>1, <1>2, <1>3, <1>4, <1>5

---------------------------------------------------------------------------
(* What PartsProofs proves: the rules of robots.txt (RobotsPolicy), the    *)
(* weekly schedule (WeeklySchedule) and the loading of a page              *)
(* (ObservedPerformance), of which Components makes two instances.         *)

MP == INSTANCE PartsProofs WITH
  Files <- RobotsFiles, Paths <- RobotsPaths,
  Workers <- Tickers, Day <- DayLength, Slots <- WeekSlots, MaxTime <- MaxMoment,
  now <- instant, row <- schedule,
  Requests <- {"a", "b"}, Urls <- {"u", "v"}, Size <- [a |-> 1, b |-> 2], MaxItems <- 2,
  MaxEntries <- 3, phase <- measuring, url <- address, awaited <- reads
HP == INSTANCE PartsProofs WITH
  Files <- RobotsFiles, Paths <- RobotsPaths,
  Workers <- Tickers, Day <- DayLength, Slots <- WeekSlots, MaxTime <- MaxMoment,
  now <- instant, row <- schedule,
  Requests <- {"a", "b"}, Urls <- {"u", "v"}, Size <- [a |-> 1, b |-> 2], MaxItems <- 1,
  MaxEntries <- 2, phase <- measuring, url <- address, awaited <- reads

LEMMA RulesAreSane == MP!Sane /\ MP!WeekIsSane
BY RobotsAssumption, ScheduleAssumption DEF MP!Sane, MP!Line, MP!WeekIsSane

LEMMA TwoRequests ==
  /\ MP!IsFiniteSet({"a", "b"}) /\ HP!IsFiniteSet({"a", "b"})
  /\ [a |-> 1, b |-> 2] \in [{"a", "b"} -> Nat]
<1>1. IsFiniteSet({"a"}) /\ {"a", "b"} = {"a"} \cup {"b"}
  BY FS_Singleton
<1>2. IsFiniteSet({"a", "b"})
  BY <1>1, FS_AddElement
<1>3. MP!IsFiniteSet({"a", "b"})
  BY <1>2 DEF IsFiniteSet, MP!IsFiniteSet
<1>4. HP!IsFiniteSet({"a", "b"})
  BY <1>2 DEF IsFiniteSet, HP!IsFiniteSet
<1> QED
  BY <1>3, <1>4

\* The instances are the same, definition by definition.
LEMMA RobotsOfAll ==
  /\ P!Init => MP!Init
  /\ [P!Next]_(P!vars) => [MP!Next]_(MP!vars)
  /\ MP!RobotsAsPublished => P!RobotsAsPublished
  /\ MP!TypeOK => P!TypeOK
<1> USE DEF P!vars, MP!vars, P!AgentLine, MP!AgentLine, P!RuleLine, MP!RuleLine, P!Read,
            MP!Read, P!Groups, MP!Groups, P!RulesFor, MP!RulesFor, P!Chosen, MP!Chosen,
            P!TooMany, MP!TooMany, P!Start, MP!Start, P!Init, MP!Init, P!Load, MP!Load, P!Ask,
            MP!Ask, P!Anchored, MP!Anchored, P!Body, MP!Body, P!PatternEnds, MP!PatternEnds,
            P!PathEnds, MP!PathEnds, P!Character, MP!Character, P!StarsLeft, MP!StarsLeft,
            P!Matches, MP!Matches, P!Fails, MP!Fails, P!Advanced, MP!Advanced, P!Better,
            MP!Better, P!Won, MP!Won, P!Cost, MP!Cost, P!Step, MP!Step, P!Skip, MP!Skip,
            P!Decide, MP!Decide, P!Next, MP!Next, P!TypeOK, MP!TypeOK, P!AgentsOf, MP!AgentsOf,
            P!OurLines, MP!OurLines, P!Covers, MP!Covers, P!Lengths, MP!Lengths, P!Covered,
            MP!Covered, P!Forbidden, MP!Forbidden, P!RobotsAsPublished, MP!RobotsAsPublished,
            P!FlattenSeq, MP!FlattenSeq, P!Last, MP!Last, P!Front, MP!Front, P!Cardinality,
            MP!Cardinality
<1>1. P!Init => MP!Init
  OBVIOUS
<1>2. P!Next => MP!Next
  BY Zenon
<1>3. UNCHANGED P!vars => UNCHANGED MP!vars
  OBVIOUS
<1>4. MP!RobotsAsPublished => P!RobotsAsPublished
  BY Zenon
<1>5. MP!TypeOK => P!TypeOK
  OBVIOUS
<1> QED
  BY Zenon, <1>1, <1>2, <1>3, <1>4, <1>5

LEMMA WeeksOfAll ==
  /\ W!Init => MP!W!Init
  /\ [W!Next]_(W!vars) => [MP!W!Next]_(MP!W!vars)
  /\ MP!W!SlotsRunOnce => W!SlotsRunOnce
  /\ MP!W!TypeOK => W!TypeOK
<1> USE DEF W!vars, MP!W!vars, W!Moments, MP!W!Moments, W!None, MP!W!None, W!Wall, MP!W!Wall,
            W!Moment, MP!W!Moment, W!Later, MP!W!Later, W!NextRun, MP!W!NextRun, W!NoTick,
            MP!W!NoTick, W!Init, MP!W!Init, W!Pass, MP!W!Pass, W!Save, MP!W!Save, W!Begin,
            MP!W!Begin, W!Initialize, MP!W!Initialize, W!Taken, MP!W!Taken, W!Claim, MP!W!Claim,
            W!Die, MP!W!Die, W!Next, MP!W!Next, W!TypeOK, MP!W!TypeOK, W!SlotsOf, MP!W!SlotsOf,
            W!SlotsRunOnce, MP!W!SlotsRunOnce, W!Max, MP!W!Max, W!Min, MP!W!Min
<1>1. W!Init => MP!W!Init
  BY Zenon
<1>2. W!Next => MP!W!Next
  BY Zenon
<1>3. UNCHANGED W!vars => UNCHANGED MP!W!vars
  OBVIOUS
<1>4. MP!W!SlotsRunOnce => W!SlotsRunOnce
  BY Zenon
<1>5. MP!W!TypeOK => W!TypeOK
  OBVIOUS
<1> QED
  BY Zenon, <1>1, <1>2, <1>3, <1>4, <1>5

LEMMA RoomForAll ==
  /\ M!Init => MP!M!Init
  /\ [M!Next]_(M!vars) => [MP!M!Next]_(MP!M!vars)
  /\ MP!M!PerformanceIsObserved => M!PerformanceIsObserved
  /\ MP!M!TypeOK => M!TypeOK
<1> USE DEF M!vars, MP!M!vars, M!NoItem, MP!M!NoItem, M!NoTimings, MP!M!NoTimings, M!NoAnalysis,
            MP!M!NoAnalysis, M!Init, MP!M!Init, M!Open, MP!M!Open, M!Sent, MP!M!Sent, M!Kept,
            MP!M!Kept, M!InScope, MP!M!InScope, M!Pending, MP!M!Pending, M!Rest, MP!M!Rest,
            M!RequestSeen, MP!M!RequestSeen, M!ResponseSeen, MP!M!ResponseSeen,
            M!RequestFinished, MP!M!RequestFinished, M!RequestFailed, MP!M!RequestFailed,
            M!HeadersRead, MP!M!HeadersRead, M!HeadersLost, MP!M!HeadersLost, M!SizesRead,
            MP!M!SizesRead, M!Wait, MP!M!Wait, M!WaitEnds, MP!M!WaitEnds, M!WaitTimesOut,
            MP!M!WaitTimesOut, M!Snapshot, MP!M!Snapshot, M!Timed, MP!M!Timed, M!Matched,
            MP!M!Matched, M!Transfer, MP!M!Transfer, M!LeftOut, MP!M!LeftOut, M!Unknown,
            MP!M!Unknown, M!Blocked, MP!M!Blocked, M!Coverage, MP!M!Coverage, M!Known,
            MP!M!Known, M!Analyze, MP!M!Analyze, M!Next, MP!M!Next, M!TypeOK, MP!M!TypeOK,
            M!ObservedIsWhole, MP!M!ObservedIsWhole, M!TimingsBelong, MP!M!TimingsBelong,
            M!PerformanceIsObserved, MP!M!PerformanceIsObserved, M!Cardinality,
            MP!M!Cardinality, M!SumFunction, MP!M!SumFunction, M!SumFunctionOnSet,
            MP!M!SumFunctionOnSet, M!FoldFunctionOnSet, MP!M!FoldFunctionOnSet,
            M!MapThenFoldSet, MP!M!MapThenFoldSet
<1>1. M!Init => MP!M!Init
  OBVIOUS
<1>2. M!Next => MP!M!Next
  BY Zenon
<1>3. UNCHANGED M!vars => UNCHANGED MP!M!vars
  OBVIOUS
<1>4. MP!M!PerformanceIsObserved => M!PerformanceIsObserved
  OBVIOUS
<1>5. MP!M!TypeOK => M!TypeOK
  OBVIOUS
<1> QED
  BY Zenon, <1>1, <1>2, <1>3, <1>4, <1>5

LEMMA RoomForOne ==
  /\ M!Init => HP!M!Init
  /\ [H!Next]_(H!vars) => [HP!M!Next]_(HP!M!vars)
  /\ HP!M!PerformanceIsObserved => H!PerformanceIsObserved
  /\ HP!M!TypeOK => H!TypeOK
<1> USE DEF H!vars, HP!M!vars, H!NoItem, HP!M!NoItem, H!NoTimings, HP!M!NoTimings, H!NoAnalysis,
            HP!M!NoAnalysis, H!Init, HP!M!Init, H!Open, HP!M!Open, H!Sent, HP!M!Sent, H!Kept,
            HP!M!Kept, H!InScope, HP!M!InScope, H!Pending, HP!M!Pending, H!Rest, HP!M!Rest,
            H!RequestSeen, HP!M!RequestSeen, H!ResponseSeen, HP!M!ResponseSeen,
            H!RequestFinished, HP!M!RequestFinished, H!RequestFailed, HP!M!RequestFailed,
            H!HeadersRead, HP!M!HeadersRead, H!HeadersLost, HP!M!HeadersLost, H!SizesRead,
            HP!M!SizesRead, H!Wait, HP!M!Wait, H!WaitEnds, HP!M!WaitEnds, H!WaitTimesOut,
            HP!M!WaitTimesOut, H!Snapshot, HP!M!Snapshot, H!Timed, HP!M!Timed, H!Matched,
            HP!M!Matched, H!Transfer, HP!M!Transfer, H!LeftOut, HP!M!LeftOut, H!Unknown,
            HP!M!Unknown, H!Blocked, HP!M!Blocked, H!Coverage, HP!M!Coverage, H!Known,
            HP!M!Known, H!Analyze, HP!M!Analyze, H!Next, HP!M!Next, H!TypeOK, HP!M!TypeOK,
            H!ObservedIsWhole, HP!M!ObservedIsWhole, H!TimingsBelong, HP!M!TimingsBelong,
            H!PerformanceIsObserved, HP!M!PerformanceIsObserved, H!Cardinality,
            HP!M!Cardinality, H!SumFunction, HP!M!SumFunction, H!SumFunctionOnSet,
            HP!M!SumFunctionOnSet, H!FoldFunctionOnSet, HP!M!FoldFunctionOnSet,
            H!MapThenFoldSet, HP!M!MapThenFoldSet
<1>1. M!Init => HP!M!Init
  BY DEF M!Init, M!NoItem, M!NoTimings, M!NoAnalysis
<1>2. H!Next => HP!M!Next
  BY Zenon
<1>3. UNCHANGED H!vars => UNCHANGED HP!M!vars
  OBVIOUS
<1>4. HP!M!PerformanceIsObserved => H!PerformanceIsObserved
  OBVIOUS
<1>5. HP!M!TypeOK => H!TypeOK
  OBVIOUS
<1> QED
  BY Zenon, <1>1, <1>2, <1>3, <1>4, <1>5

---------------------------------------------------------------------------
(* The parts of Components that have theorems of their own.                *)

OthersInv ==
  /\ part = "sync" => SP!TypesInv
  /\ part = "long sync" => LP!TypesInv
  /\ part = "robots" => MP!IInv
  /\ part = "schedule" => MP!ScheduleInv
  /\ part = "performance" => MP!RecordInv /\ MP!RecordTyped
  /\ part = "full performance" => HP!RecordInv /\ HP!RecordTyped

LEMMA OthersMove ==
  ASSUME [Next]_vars
  PROVE  /\ part = "sync" => [S!Next]_(S!vars)
         /\ part = "long sync" => [L!Next]_(L!vars)
         /\ part = "robots" => [P!Next]_(P!vars)
         /\ part = "schedule" => [W!Next]_(W!vars)
         /\ part = "performance" => [M!Next]_(M!vars)
         /\ part = "full performance" => [H!Next]_(H!vars)
<1> USE DEF vars, requestVars, auditVars, siteVars, syncVars, webVars, robotsVars, scheduleVars,
            performanceVars
<1>1. part = "sync" => [S!Next]_(S!vars)
  BY Zenon DEF Next, S!vars, S!counters
<1>2. part = "long sync" => [L!Next]_(L!vars)
  BY Zenon DEF Next, L!vars, L!counters
<1>3. part = "robots" => [P!Next]_(P!vars)
  BY Zenon DEF Next, P!vars
<1>4. part = "schedule" => [W!Next]_(W!vars)
  BY Zenon DEF Next, W!vars
<1>5. part = "performance" => [M!Next]_(M!vars)
  BY Zenon DEF Next, M!vars
<1>6. part = "full performance" => [H!Next]_(H!vars)
  BY Zenon DEF Next, H!vars
<1> QED
  BY Zenon, <1>1, <1>2, <1>3, <1>4, <1>5, <1>6

LEMMA OthersStart == Init => OthersInv
<1> SUFFICES ASSUME Init PROVE OthersInv
  OBVIOUS
<1>1. part = "long sync" => LP!TypesInv
  <2>1. part = "long sync" => L!Init
    BY Zenon DEF Init
  <2> QED
    BY Zenon, <2>1, LongRuns, SizesAreSane, LP!TypesStart
<1>2. part = "sync" => SP!TypesInv
  <2>1. part = "sync" => S!Init
    BY DEF Init
  <2> QED
    BY <2>1, ManyRuns, SizesAreSane, SP!TypesStart
<1>3. MP!IInv /\ MP!ScheduleInv
  <2>1. P!Init /\ W!Init
    BY Zenon DEF Init
  <2> QED
    BY <2>1, RobotsOfAll, WeeksOfAll, RulesAreSane, MP!InvInit, MP!ScheduleStarts
<1>4. MP!RecordInv /\ MP!RecordTyped /\ HP!RecordInv /\ HP!RecordTyped
  <2>1. MP!M!Init /\ HP!M!Init
    BY Zenon, RoomForAll, RoomForOne DEF Init
  <2> QED
    BY <2>1, TwoRequests, MP!InitHolds, HP!InitHolds, MP!TypesHold, HP!TypesHold
<1> QED
  BY Zenon, <1>1, <1>2, <1>3, <1>4 DEF OthersInv

LEMMA OthersStep ==
  ASSUME OthersInv, [Next]_vars
  PROVE  OthersInv'
<1>1. part' = part
  BY Zenon, RecordsMove
<1>2. CASE part = "sync"
  <2>1. SP!TypesInv /\ [SP!Next]_(SP!vars)
    BY <1>2, OthersMove, ManyRuns DEF OthersInv
  <2>2. SP!TypesInv'
    BY Zenon, <2>1, SP!TypesStep
  <2> QED
    BY <1>1, <1>2, <2>2 DEF OthersInv
<1>3. CASE part = "long sync"
  <2>1. LP!TypesInv /\ [LP!Next]_(LP!vars)
    BY Zenon, <1>3, OthersMove, LongRuns DEF OthersInv
  <2>2. LP!TypesInv'
    BY Zenon, <2>1, LP!TypesStep
  <2> QED
    BY Zenon, <1>1, <1>3, <2>2 DEF OthersInv
<1>4. CASE part = "robots"
  <2>1. MP!IInv /\ [MP!Next]_(MP!vars)
    BY Zenon, <1>4, OthersMove, RobotsOfAll DEF OthersInv
  <2>2. MP!IInv'
    BY <2>1, RulesAreSane, MP!InvKept
  <2> QED
    BY Zenon, <1>1, <1>4, <2>2 DEF OthersInv
<1>5. CASE part = "schedule"
  <2>1. MP!ScheduleInv /\ [MP!W!Next]_(MP!W!vars)
    BY Zenon, <1>5, OthersMove, WeeksOfAll DEF OthersInv
  <2>2. MP!ScheduleInv'
    BY <2>1, RulesAreSane, MP!ScheduleSteps
  <2> QED
    BY Zenon, <1>1, <1>5, <2>2 DEF OthersInv
<1>6. CASE part = "performance"
  <2>1. MP!RecordInv /\ MP!RecordTyped /\ [MP!M!Next]_(MP!M!vars)
    BY Zenon, <1>6, OthersMove, RoomForAll DEF OthersInv
  <2>2. MP!RecordInv'
    BY <2>1, TwoRequests, MP!StepHolds
  <2>3. MP!RecordTyped'
    BY <2>1, <2>2, TwoRequests, MP!TypesStep
  <2> QED
    BY Zenon, <1>1, <1>6, <2>2, <2>3 DEF OthersInv
<1>7. CASE part = "full performance"
  <2>1. HP!RecordInv /\ HP!RecordTyped /\ [HP!M!Next]_(HP!M!vars)
    BY Zenon, <1>7, OthersMove, RoomForOne DEF OthersInv
  <2>2. HP!RecordInv'
    BY <2>1, TwoRequests, HP!StepHolds
  <2>3. HP!RecordTyped'
    BY <2>1, <2>2, TwoRequests, HP!TypesStep
  <2> QED
    BY Zenon, <1>1, <1>7, <2>2, <2>3 DEF OthersInv
<1>8. CASE part \notin {"sync", "long sync", "robots", "schedule", "performance",
                        "full performance"}
  BY Zenon, <1>1, <1>8 DEF OthersInv
<1> QED
  BY Zenon, <1>2, <1>3, <1>4, <1>5, <1>6, <1>7, <1>8

LEMMA OthersInvHolds == Spec => []OthersInv
BY OthersStart, OthersStep, PTL DEF Spec

LEMMA OthersTyped ==
  ASSUME OthersInv
  PROVE  /\ part = "sync" => S!TypeOK
         /\ part = "long sync" => L!TypeOK
         /\ part = "robots" => P!TypeOK
         /\ part = "schedule" => W!TypeOK
         /\ part = "performance" => M!TypeOK
         /\ part = "full performance" => H!TypeOK
<1>1. part = "sync" => S!TypeOK
  BY Zenon, ManyRuns, SP!TypesInvTyped DEF OthersInv
<1>2. part = "long sync" => L!TypeOK
  BY Zenon, LongRuns, LP!TypesInvTyped DEF OthersInv
<1>3. part = "robots" => P!TypeOK
  BY Zenon, RobotsOfAll, RulesAreSane, MP!InvAnswers DEF OthersInv
<1>4. part = "schedule" => W!TypeOK
  BY Zenon, WeeksOfAll, RulesAreSane, MP!SlotsAreKept DEF OthersInv
<1>5. part = "performance" => M!TypeOK
  BY Zenon, RoomForAll DEF OthersInv, MP!RecordTyped
<1>6. part = "full performance" => H!TypeOK
  BY Zenon, RoomForOne DEF OthersInv, HP!RecordTyped
<1> QED
  BY Zenon, <1>1, <1>2, <1>3, <1>4, <1>5, <1>6

\* The cursor of the synchronization leaves nothing behind, whether many runs
\* are made in a short time or a few in a long one.
THEOREM CursorsAreComplete == Spec => []CursorLeavesNothingBehind
<1>1. OthersInv => CursorLeavesNothingBehind
  <2> SUFFICES ASSUME OthersInv PROVE CursorLeavesNothingBehind
    OBVIOUS
  <2>1. part = "sync" => S!CursorLeavesNothingBehind
    BY Zenon, ManyRuns, SP!InvCovers DEF OthersInv, SP!TypesInv
  <2>2. part = "long sync" => L!CursorLeavesNothingBehind
    BY Zenon, LongRuns, LP!InvCovers DEF OthersInv, LP!TypesInv
  <2> QED
    BY Zenon, <2>1, <2>2 DEF CursorLeavesNothingBehind
<1> QED
  BY <1>1, OthersInvHolds, PTL

\* What calls itself complete is: the coverage of a Deep audit, the crawl and
\* the network metadata of a scan, the loading of a page, a text.
THEOREM CompleteThingsAreWhole == Spec => []CompleteIsWhole
<1>1. NetInv /\ OthersInv => CompleteIsWhole
  <2> SUFFICES ASSUME NetInv, OthersInv PROVE CompleteIsWhole
    OBVIOUS
  <2>1. part = "network" => A!FullCoverageIsFull
    BY DEF NetInv, HonestInv
  <2>2. part = "crawl" => C!CompleteCrawlIsWhole
    BY DEF NetInv, TrackerInv
  <2>3. part = "captures" => N!CompleteNetworkIsWhole
    BY DEF NetInv, CaptureInv
  <2>4. part = "performance" => M!PerformanceIsObserved
    BY RoomForAll DEF OthersInv, MP!RecordInv, MP!AnalysisInv
  <2>5. part = "full performance" => H!PerformanceIsObserved
    BY Zenon, RoomForOne DEF OthersInv, HP!RecordInv, HP!AnalysisInv
  <2>6. part = "fetch" => B!TextIsWhole
    BY DEF NetInv, TextInv
  <2> QED
    BY Zenon, <2>1, <2>2, <2>3, <2>4, <2>5, <2>6 DEF CompleteIsWhole
<1> QED
  BY <1>1, NetInvHolds, OthersInvHolds, PTL

\* Whatever workers tick and however the clocks of a place are changed: the
\* cursor of a schedule is the first slot after the time it was computed from,
\* and each slot has one scan, in their order; and for any file of rules and
\* any path, a page is taken for allowed only if the file allows it.
THEOREM RulesFollowed == Spec => []RulesAreFollowed
<1>1. OthersInv => RulesAreFollowed
  <2> SUFFICES ASSUME OthersInv PROVE RulesAreFollowed
    OBVIOUS
  <2>1. part = "schedule" => W!SlotsRunOnce
    BY WeeksOfAll, RulesAreSane, MP!SlotsAreKept DEF OthersInv
  <2>2. part = "robots" => P!RobotsAsPublished
    BY RobotsOfAll, RulesAreSane, MP!InvAnswers DEF OthersInv
  <2> QED
    BY <2>1, <2>2 DEF RulesAreFollowed
<1> QED
  BY <1>1, OthersInvHolds, PTL

\* The parts that Components explores.
Parts == {"quotas", "ownership", "grants", "followup", "readers", "creation", "schedule",
          "services", "network", "sync", "long sync", "matching", "reviews", "robots",
          "crawl", "captures", "performance", "full performance", "fetch"}

\* Every part keeps its types, whatever the sizes are: the records have the
\* fields and values of their tables, the counters stay within their limits,
\* what is under way refers to what there is, and nothing that is stored or
\* read is newer than the clock that dated it.
THEOREM TypesCorrect == Spec => []TypeOK
<1>1. NetInv /\ RecordsInv /\ OthersInv /\ part \in Parts => TypeOK
  <2> SUFFICES ASSUME NetInv, RecordsInv, OthersInv, part \in Parts PROVE TypeOK
    OBVIOUS
  <2>1. CASE part = "quotas"
    BY Zenon, <2>1, RecordsTyped DEF TypeOK
  <2>2. CASE part = "ownership"
    BY Zenon, <2>2, RecordsTyped DEF TypeOK
  <2>3. CASE part = "grants"
    BY Zenon, <2>3, RecordsTyped DEF TypeOK
  <2>4. CASE part = "followup"
    BY Zenon, <2>4, RecordsTyped DEF TypeOK
  <2>5. CASE part = "creation"
    BY Zenon, <2>5, RecordsTyped DEF TypeOK
  <2>6. CASE part = "reviews"
    BY Zenon, <2>6, RecordsTyped DEF TypeOK
  <2>7. CASE part = "network"
    BY Zenon, <2>7, NetTyped DEF TypeOK
  <2>8. CASE part = "crawl"
    BY Zenon, <2>8, NetTyped DEF TypeOK
  <2>9. CASE part = "captures"
    BY Zenon, <2>9, NetTyped DEF TypeOK
  <2>10. CASE part = "fetch"
    BY Zenon, <2>10, NetTyped DEF TypeOK
  <2>11. CASE part = "readers"
    BY Zenon, <2>11, NetTyped DEF TypeOK
  <2>12. CASE part = "services"
    BY Zenon, <2>12, NetTyped DEF TypeOK
  <2>13. CASE part = "matching"
    BY Zenon, <2>13, NetTyped DEF TypeOK
  <2>14. CASE part = "sync"
    BY Zenon, <2>14, OthersTyped DEF TypeOK
  <2>15. CASE part = "long sync"
    BY Zenon, <2>15, OthersTyped DEF TypeOK
  <2>16. CASE part = "robots"
    BY Zenon, <2>16, OthersTyped DEF TypeOK
  <2>17. CASE part = "schedule"
    BY Zenon, <2>17, OthersTyped DEF TypeOK
  <2>18. CASE part = "performance"
    BY Zenon, <2>18, OthersTyped DEF TypeOK
  <2>19. CASE part = "full performance"
    BY Zenon, <2>19, OthersTyped DEF TypeOK
  <2> QED
    BY Zenon, <2>1, <2>2, <2>3, <2>4, <2>5, <2>6, <2>7, <2>8, <2>9, <2>10, <2>11,
       <2>12, <2>13, <2>14, <2>15, <2>16, <2>17, <2>18, <2>19 DEF Parts
<1>2. Init => part \in Parts
  BY Zenon DEF Init, Parts
<1>3. part \in Parts /\ [Next]_vars => (part \in Parts)'
  BY Zenon, RecordsMove
<1> QED
  BY <1>1, <1>2, <1>3, NetInvHolds, RecordsInvHolds, OthersInvHolds, PTL DEF Spec
=============================================================================
