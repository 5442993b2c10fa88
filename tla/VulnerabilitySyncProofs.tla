---------------------- MODULE VulnerabilitySyncProofs -----------------------
(***************************************************************************)
(* Theorems of VulnerabilitySync, for any number of workers, advisories    *)
(* and windows, however long they are and wherever a run fails; and the    *)
(* invariant from which its types follow (TypesInv).                       *)
(***************************************************************************)
EXTENDS VulnerabilitySync, FiniteSetTheorems, TLAPS

\* What is presumed of the constants.
Sane ==
  /\ "gone" \notin Workers /\ Day \in Int
  /\ MaxRequests \in Nat /\ Attempts \in Nat /\ MaxClock \in Nat \ {0}
  /\ \A S \in KevCatalogs : S \subseteq CVEs

---------------------------------------------------------------------------
(* Types.                                                                  *)

Fields == {"pc", "job", "since", "from", "to", "first", "todo", "seen", "page", "doing", "exists",
           "failed", "requests"}
Pcs == {"idle", "read", "start", "fetch", "import", "correlate"}
Jobs == {"kev", "nvd", "product"}
Windows == [from : Int, to : Int]
Entries == [cve : CVEs, at : Nat, rules : BOOLEAN]
Advisories == [at : Nat, rules : BOOLEAN]

Typed(h) ==
  /\ DOMAIN h = Fields
  /\ h.pc \in Pcs /\ h.job \in Jobs /\ h.since \in Nat /\ h.from \in Int /\ h.to \in Int
  /\ h.first \in BOOLEAN /\ h.todo \in Seq(Windows) /\ h.seen \subseteq CVEs
  /\ h.page \subseteq Entries /\ h.doing \subseteq Entries
  /\ h.exists \in BOOLEAN /\ h.failed \in BOOLEAN /\ h.requests \in 0..MaxRequests

WorkersTyped == DOMAIN worker = Workers /\ \A w \in Workers : Typed(worker[w])

\* The advisories of NVD are not newer than the clock.
FeedTyped ==
  /\ clock \in Nat /\ 1 <= clock /\ clock <= MaxClock
  /\ nvd \in [CVEs -> {None} \cup Advisories]
  /\ \A c \in CVEs : nvd[c] # None => 1 <= nvd[c].at /\ nvd[c].at <= clock

CatalogueTyped == stored \in [CVEs -> {None} \cup Advisories] /\ known \subseteq CVEs

TableTyped ==
  /\ DOMAIN lock = Sources
  /\ \A s \in Sources : lock[s] = None \/ lock[s] \in [owner : Workers \cup {"gone"}, since : Nat]
  /\ cursor = None \/ cursor \in [since : Nat, to : Int]
  /\ fresh = None \/ fresh \in [at : Nat]
  /\ origins \subseteq Int /\ overtaken \in BOOLEAN

Types == Sane /\ WorkersTyped /\ FeedTyped /\ CatalogueTyped /\ TableTyped

---------------------------------------------------------------------------
(* The steps, as what they make of a worker's record h.                    *)

SameRun(g, h) == /\ g.job = h.job /\ g.since = h.since /\ g.from = h.from /\ g.to = h.to
                 /\ g.first = h.first
SamePage(g, h) == /\ g.seen = h.seen /\ g.page = h.page /\ g.doing = h.doing
                  /\ g.exists = h.exists /\ g.failed = h.failed
SameRequests(g, h) == g.todo = h.todo /\ g.requests = h.requests

\* The run is over, or there is none.
Rests(g) ==
  /\ g.pc \in {"idle", "read"} /\ g.job \in Jobs /\ (g.pc = "idle" => g.job = "kev")
  /\ g.since = 0 /\ g.from = 0 /\ g.to = 0 /\ g.first = FALSE /\ g.todo = <<>> /\ g.seen = {}
  /\ g.page = {} /\ g.doing = {} /\ g.exists = FALSE /\ g.failed = FALSE /\ g.requests = 0
  /\ DOMAIN g = Fields

LEMMA PutWorker ==
  ASSUME WorkersTyped, NEW w \in Workers, NEW h, Goes(w, h)
  PROVE  /\ DOMAIN worker' = Workers /\ worker'[w] = h
         /\ \A v \in Workers : v # w => worker'[v] = worker[v]
BY DEF WorkersTyped, Goes

LEMMA IdleRests ==
  /\ Rests(Idle)
  /\ \A j \in Jobs : Rests([Idle EXCEPT !.pc = "read", !.job = j])
<1>1. Rests(Idle)
  BY DEF Rests, Idle, Fields, Jobs
<1>2. ASSUME NEW j \in Jobs PROVE Rests([Idle EXCEPT !.pc = "read", !.job = j])
  BY DEF Rests, Idle, Fields
<1> QED
  BY <1>1, <1>2

LEMMA RestsTyped == ASSUME NEW g, Rests(g), Sane PROVE Typed(g)
<1>1. g.todo \in Seq(Windows)
  BY DEF Rests
<1>2. g.first \in BOOLEAN /\ g.exists \in BOOLEAN /\ g.failed \in BOOLEAN
  BY DEF Rests
<1>3. g.requests \in 0..MaxRequests /\ g.since \in Nat /\ g.from \in Int /\ g.to \in Int
  BY DEF Rests, Sane
<1>4. /\ g.pc \in Pcs /\ g.job \in Jobs /\ DOMAIN g = Fields
      /\ g.seen \subseteq CVEs /\ g.page \subseteq Entries /\ g.doing \subseteq Entries
  BY DEF Rests, Pcs, Jobs
<1> QED
  BY <1>1, <1>2, <1>3, <1>4 DEF Typed

LEMMA JobAfterRests ==
  ASSUME NEW w \in Workers
  PROVE  Rests(JobAfter(w))
BY IdleRests DEF JobAfter, Jobs

\* A window to ask for.
LEMMA ReadWindowMoves ==
  ASSUME Types, NEW w \in Workers, ReadWindow(w)
  PROVE  /\ UNCHANGED <<clock, nvd, stored, known, lock, cursor, fresh, origins, overtaken>>
         /\ \A v \in Workers : v # w => worker'[v] = worker[v]
         /\ DOMAIN worker' = Workers
         /\ \/ Rests(worker'[w])
            \/ /\ worker[w].pc = "read" /\ worker[w].job = "nvd"
               /\ worker'[w].pc = "start" /\ worker'[w].job = "nvd"
               /\ worker'[w].to \in Int /\ worker'[w].to <= clock
               /\ worker'[w].from = From(worker'[w].to)
               /\ worker'[w].first = (cursor = None)
               /\ worker'[w].since = worker[w].since
               /\ SamePage(worker'[w], worker[w]) /\ SameRequests(worker'[w], worker[w])
               /\ DOMAIN worker'[w] = Fields
<1>1. UNCHANGED <<clock, nvd, stored, known, lock, cursor, fresh, origins, overtaken>>
  BY DEF ReadWindow, Outside, Catalogue, Table
<1>2. PICK to \in {clock - 1, clock} :
        \/ Goes(w, [worker[w] EXCEPT !.pc = "start", !.from = From(to), !.to = to,
                      !.first = (cursor = None)])
        \/ Goes(w, Idle)
  BY DEF ReadWindow
<1>3. clock \in Int /\ Typed(worker[w]) /\ WorkersTyped
  BY DEF Types, FeedTyped, WorkersTyped
<1>4. CASE Goes(w, Idle)
  BY <1>1, <1>3, <1>4, PutWorker, IdleRests
<1>5. CASE Goes(w, [worker[w] EXCEPT !.pc = "start", !.from = From(to), !.to = to,
                      !.first = (cursor = None)])
  <2> DEFINE g == [worker[w] EXCEPT !.pc = "start", !.from = From(to), !.to = to,
                      !.first = (cursor = None)]
  <2>1. /\ g.pc = "start" /\ g.from = From(to) /\ g.to = to /\ g.first = (cursor = None)
        /\ g.job = worker[w].job /\ g.since = worker[w].since
        /\ SamePage(g, worker[w]) /\ SameRequests(g, worker[w]) /\ DOMAIN g = Fields
    BY <1>3 DEF Typed, Fields, SamePage, SameRequests
  <2>2. to \in Int /\ to <= clock
    BY <1>3
  <2>3. worker[w].pc = "read" /\ worker[w].job = "nvd"
    BY DEF ReadWindow, At
  <2> HIDE DEF g
  <2>4. worker'[w] = g
    BY <1>5, <1>3, PutWorker DEF g
  <2>5. DOMAIN worker' = Workers /\ \A v \in Workers : v # w => worker'[v] = worker[v]
    BY <1>5, <1>3, PutWorker
  <2> QED
    BY <1>1, <2>1, <2>2, <2>3, <2>4, <2>5
<1> QED
  BY <1>2, <1>4, <1>5
LEMMA ReadFreshnessMoves ==
  ASSUME Types, NEW w \in Workers, ReadFreshness(w)
  PROVE  /\ UNCHANGED <<clock, nvd, stored, known, lock, cursor, fresh, origins, overtaken>>
         /\ \A v \in Workers : v # w => worker'[v] = worker[v]
         /\ DOMAIN worker' = Workers
         /\ \/ Rests(worker'[w])
            \/ /\ worker[w].pc = "read" /\ worker[w].job = "product"
               /\ worker'[w].pc = "start" /\ SameRun(worker'[w], worker[w])
               /\ SamePage(worker'[w], worker[w]) /\ SameRequests(worker'[w], worker[w])
               /\ DOMAIN worker'[w] = Fields
<1>1. UNCHANGED <<clock, nvd, stored, known, lock, cursor, fresh, origins, overtaken>>
  BY DEF ReadFreshness, Outside, Catalogue, Table
<1>2. Typed(worker[w]) /\ WorkersTyped /\ worker[w].pc = "read" /\ worker[w].job = "product"
  BY DEF Types, WorkersTyped, ReadFreshness, At
<1>3. CASE Goes(w, Idle)
  BY <1>1, <1>2, <1>3, PutWorker, IdleRests
<1>4. CASE Goes(w, [worker[w] EXCEPT !.pc = "start"])
  <2> DEFINE g == [worker[w] EXCEPT !.pc = "start"]
  <2>1. /\ g.pc = "start" /\ SameRun(g, worker[w]) /\ SamePage(g, worker[w])
        /\ SameRequests(g, worker[w]) /\ DOMAIN g = Fields
    BY <1>2 DEF Typed, Fields, SameRun, SamePage, SameRequests
  <2> HIDE DEF g
  <2>2. worker'[w] = g
    BY <1>4, <1>2, PutWorker DEF g
  <2>3. DOMAIN worker' = Workers /\ \A v \in Workers : v # w => worker'[v] = worker[v]
    BY <1>4, <1>2, PutWorker
  <2> QED
    BY <1>1, <1>2, <2>1, <2>2, <2>3
<1> QED
  BY <1>3, <1>4 DEF ReadFreshness

\* A run that begins takes the lock of its source.
Took(w, s) ==
  /\ lock' = [lock EXCEPT ![s] = [owner |-> w, since |-> clock]]
  /\ overtaken' = (overtaken \/ (lock[s] # None /\ lock[s].owner \in Workers))

Began(g, h, w) ==
  /\ g.pc = "fetch" /\ g.since = clock /\ g.job = h.job
  /\ g.from = h.from /\ g.to = h.to /\ g.first = h.first
  /\ g.todo = IF h.job = "nvd" THEN <<Window(w)>> ELSE <<>>
  /\ g.requests = h.requests /\ SamePage(g, h) /\ DOMAIN g = Fields

LEMMA StartRunMoves ==
  ASSUME Types, NEW w \in Workers, StartRun(w)
  PROVE  /\ UNCHANGED <<clock, nvd, stored, known, cursor, fresh, origins>>
         /\ \A v \in Workers : v # w => worker'[v] = worker[v]
         /\ DOMAIN worker' = Workers
         /\ worker[w].pc \in {"start", "idle"}
         /\ \/ Rests(worker'[w]) /\ UNCHANGED <<lock, overtaken>>
            \/ Took(w, Source(worker[w].job)) /\ Began(worker'[w], worker[w], w)
<1>1. UNCHANGED <<clock, nvd, stored, known, cursor, fresh, origins>>
  BY DEF StartRun, Outside, Catalogue, Table
<1>2. Typed(worker[w]) /\ WorkersTyped /\ worker[w].pc \in {"start", "idle"}
  BY DEF Types, WorkersTyped, StartRun, At
<1> DEFINE todo == IF worker[w].job = "nvd" THEN <<Window(w)>> ELSE <<>>
           g == [worker[w] EXCEPT !.pc = "fetch", !.since = clock, !.todo = todo]
<1>3. CASE Goes(w, Idle) /\ UNCHANGED Table
  BY <1>1, <1>2, <1>3, PutWorker, IdleRests DEF Table
<1>4. CASE Goes(w, g) /\ Took(w, Source(worker[w].job))
  <2>1. worker'[w] = g
    BY <1>4, <1>2, PutWorker
  <2>2. DOMAIN worker' = Workers /\ \A v \in Workers : v # w => worker'[v] = worker[v]
    BY <1>4, <1>2, PutWorker
  <2>3. Began(g, worker[w], w)
    <3> HIDE DEF todo
    <3>1. /\ g.pc = "fetch" /\ g.since = clock /\ g.todo = todo /\ g.job = worker[w].job
          /\ g.from = worker[w].from /\ g.to = worker[w].to /\ g.first = worker[w].first
          /\ g.requests = worker[w].requests
          /\ SamePage(g, worker[w]) /\ DOMAIN g = Fields
      BY <1>2 DEF Typed, Fields, SamePage
    <3> HIDE DEF g
    <3> QED
      BY <3>1 DEF Began, todo
  <2> HIDE DEF g
  <2> QED
    BY <1>1, <1>2, <1>4, <2>1, <2>2, <2>3
<1>5. \/ Goes(w, Idle) /\ UNCHANGED Table
      \/ Goes(w, g) /\ Took(w, Source(worker[w].job))
  BY DEF StartRun, Took
<1> HIDE DEF g
<1> QED
  BY <1>3, <1>4, <1>5

LEMMA FailedMoves ==
  ASSUME Types, NEW w \in Workers, Failed(w)
  PROVE  /\ UNCHANGED <<cursor, fresh, origins, overtaken>> /\ lock' = Unlock(w)
         /\ \A v \in Workers : v # w => worker'[v] = worker[v]
         /\ DOMAIN worker' = Workers /\ Rests(worker'[w])
BY PutWorker, IdleRests DEF Failed, Types

\* Each other step of a run.
LEMMA FinishMoves ==
  ASSUME Types, NEW w \in Workers, Finish(w)
  PROVE  /\ UNCHANGED <<clock, nvd, stored, known, overtaken>> /\ lock' = Unlock(w)
         /\ \A v \in Workers : v # w => worker'[v] = worker[v]
         /\ DOMAIN worker' = Workers /\ Rests(worker'[w]) /\ worker[w].pc = "correlate"
         /\ \/ cursor' = cursor
            \/ /\ worker[w].job = "nvd"
               /\ cursor' = [since |-> worker[w].since, to |-> worker[w].to]
         /\ origins' = IF worker[w].first THEN origins \cup {worker[w].from} ELSE origins
         /\ fresh' = IF worker[w].job = "product" THEN [at |-> clock] ELSE fresh
BY PutWorker, JobAfterRests DEF Finish, Types, At, Outside, Catalogue

LEMMA CrashMoves ==
  ASSUME Types, NEW w \in Workers, Crash(w)
  PROVE  /\ UNCHANGED <<clock, nvd, stored, known, cursor, fresh, origins, overtaken>>
         /\ \A v \in Workers : v # w => worker'[v] = worker[v]
         /\ DOMAIN worker' = Workers /\ Rests(worker'[w])
         /\ lock' = [s \in Sources |-> IF lock[s] # None /\ lock[s].owner = w
                               THEN [lock[s] EXCEPT !.owner = "gone"] ELSE lock[s]]
BY PutWorker, IdleRests DEF Crash, Types, Outside, Catalogue
---------------------------------------------------------------------------
(* The steps within a run.                                                 *)

\* The worker goes on with its run; the catalogue may change.
Quiet == UNCHANGED <<clock, nvd, lock, cursor, fresh, origins, overtaken>>
GoesOn(w) ==
  /\ Quiet /\ DOMAIN worker' = Workers
  /\ \A v \in Workers : v # w => worker'[v] = worker[v]
  /\ SameRun(worker'[w], worker[w]) /\ DOMAIN worker'[w] = Fields
  /\ worker'[w].requests \in 0..MaxRequests

Halved(g, h) ==
  /\ h.pc = "fetch" /\ h.job = "nvd" /\ g.pc = "fetch" /\ SamePage(g, h)
  /\ g.todo = Halves(Head(h.todo)) \o Tail(h.todo)

\* A page is there, and nothing of it is done.
Fetched(g, h) ==
  /\ h.pc = "fetch" /\ g.pc = "import"
  /\ g.doing = h.doing /\ g.exists = h.exists /\ g.failed = h.failed

FetchedWindow(g, h) ==
  /\ h.job = "nvd" /\ g.seen = h.seen /\ g.todo = Tail(h.todo)
  /\ g.page = {a \in Read({c \in CVEs : Within(c, Head(h.todo))}) : a.cve \notin h.seen}
FetchedProduct(g, h) ==
  /\ h.job = "product" /\ g.seen = h.seen /\ g.todo = h.todo
  /\ g.page = Read({c \in CVEs : nvd[c] # None})
FetchedKev(g, h) ==
  /\ h.job = "kev" /\ g.seen \subseteq CVEs /\ g.todo = h.todo
  /\ g.page = {[cve |-> c, at |-> 0, rules |-> FALSE] : c \in g.seen}

Begins(g, h, a) ==
  /\ h.pc = "import" /\ h.doing = {} /\ a \in h.page
  /\ g.pc = "import" /\ g.page = h.page \ {a} /\ g.doing = {a} /\ g.seen = h.seen \cup {a.cve}
  /\ g.exists = (stored[a.cve] # None) /\ g.failed = h.failed /\ g.todo = h.todo

Ends(g, h) ==
  /\ h.pc = "import" /\ g.pc = "import" /\ g.page = h.page /\ g.doing = {} /\ g.seen = h.seen
  /\ g.exists = h.exists /\ g.todo = h.todo

Turns(g, h) ==
  /\ h.pc = "import" /\ h.page = {} /\ h.doing = {} /\ ~h.failed
  /\ SamePage(g, h) /\ g.todo = h.todo
  /\ g.pc = IF h.todo # <<>> THEN "fetch" ELSE "correlate"

LEMMA OneGoesOn ==
  ASSUME Types, Quiet, NEW w \in Workers, NEW g, Goes(w, g),
         SameRun(g, worker[w]), DOMAIN g = Fields, g.requests \in 0..MaxRequests
  PROVE  GoesOn(w) /\ worker'[w] = g
BY PutWorker DEF GoesOn, Types

LEMMA Spending ==
  ASSUME Types, NEW w \in Workers, NEW n \in {1, Attempts}, worker[w].requests + n <= MaxRequests
  PROVE  worker[w].requests + n \in 0..MaxRequests /\ worker[w].requests \in 0..MaxRequests
<1>1. worker[w].requests \in Nat /\ n \in Nat /\ MaxRequests \in Nat
  BY DEF Types, Sane, WorkersTyped, Typed
<1>2. worker[w].requests \in 0..MaxRequests
  BY DEF Types, WorkersTyped, Typed
<1> QED
  BY <1>1, <1>2

LEMMA SplitWideMoves ==
  ASSUME Types, NEW w \in Workers, SplitWide(w)
  PROVE  GoesOn(w) /\ UNCHANGED <<stored, known>> /\ Halved(worker'[w], worker[w])
<1>1. /\ Quiet /\ UNCHANGED <<stored, known>>
      /\ Goes(w, [worker[w] EXCEPT !.todo = Halves(Head(@)) \o Tail(@)])
      /\ worker[w].pc = "fetch" /\ worker[w].job = "nvd"
  BY DEF SplitWide, Split, Fetching, At, Quiet, Outside, Catalogue, Table
<1>2. Typed(worker[w])
  BY DEF Types, WorkersTyped
<1> DEFINE todo == Halves(Head(worker[w].todo)) \o Tail(worker[w].todo)
           g == [worker[w] EXCEPT !.todo = todo]
<1>3. Goes(w, g)
  BY <1>1
<1> HIDE DEF todo
<1>4. /\ SameRun(g, worker[w]) /\ SamePage(g, worker[w]) /\ DOMAIN g = Fields
      /\ g.requests = worker[w].requests /\ g.pc = worker[w].pc /\ g.todo = todo
  BY <1>2 DEF Typed, Fields, SameRun, SamePage
<1>5. g.requests \in 0..MaxRequests
  BY <1>2, <1>4 DEF Typed
<1> HIDE DEF g
<1>6. GoesOn(w) /\ worker'[w] = g
  BY <1>1, <1>3, <1>4, <1>5, OneGoesOn
<1> QED
  BY <1>1, <1>4, <1>6 DEF Halved, todo

LEMMA FetchWindowMoves ==
  ASSUME Types, NEW w \in Workers, FetchWindow(w)
  PROVE  /\ GoesOn(w) /\ UNCHANGED <<stored, known>>
         /\ Fetched(worker'[w], worker[w]) /\ FetchedWindow(worker'[w], worker[w])
<1> DEFINE p == Read({c \in CVEs : Within(c, Head(worker[w].todo))})
           page == {a \in p : a.cve \notin worker[w].seen}
           todo == Tail(worker[w].todo)
<1>1. PICK n \in {1, Attempts} :
        /\ worker[w].requests + n <= MaxRequests
        /\ Goes(w, [Spend(w, n) EXCEPT !.pc = "import", !.todo = Tail(@),
                         !.page = {a \in p : a.cve \notin worker[w].seen}])
  BY DEF FetchWindow
<1>2. Quiet /\ UNCHANGED <<stored, known>> /\ worker[w].pc = "fetch" /\ worker[w].job = "nvd"
  BY DEF FetchWindow, Asking, Fetching, At, Quiet, Outside, Catalogue, Table
<1>3. Typed(worker[w])
  BY DEF Types, WorkersTyped
<1> DEFINE spent == [worker[w] EXCEPT !.requests = worker[w].requests + n]
           g == [spent EXCEPT !.pc = "import", !.todo = todo, !.page = page]
<1>4. /\ SameRun(spent, worker[w]) /\ SamePage(spent, worker[w]) /\ DOMAIN spent = Fields
      /\ spent.todo = worker[w].todo /\ spent.requests = worker[w].requests + n
  BY <1>3 DEF Typed, Fields, SameRun, SamePage
<1>5. Spend(w, n) = spent
  BY DEF Spend
<1>6. Goes(w, g)
  BY <1>1, <1>4, <1>5
<1> HIDE DEF spent, page, todo
<1>7. /\ SameRun(g, spent) /\ DOMAIN g = Fields /\ g.requests = spent.requests
      /\ g.pc = "import" /\ g.page = page /\ g.todo = todo /\ g.seen = spent.seen
      /\ g.doing = spent.doing /\ g.exists = spent.exists /\ g.failed = spent.failed
  BY <1>4 DEF Fields, SameRun
<1>8. g.requests \in 0..MaxRequests /\ SameRun(g, worker[w])
  BY <1>1, <1>4, <1>7, Spending DEF SameRun
<1> HIDE DEF g
<1>9. GoesOn(w) /\ worker'[w] = g
  BY <1>2, <1>6, <1>7, <1>8, OneGoesOn
<1>10. Fetched(g, worker[w])
  BY <1>2, <1>4, <1>7 DEF Fetched, SamePage
<1>11. FetchedWindow(g, worker[w])
  BY <1>2, <1>4, <1>7 DEF FetchedWindow, SamePage, page, todo
<1> QED
  BY <1>2, <1>9, <1>10, <1>11
LEMMA FetchPartialMoves ==
  ASSUME Types, NEW w \in Workers, FetchPartial(w), ~Failed(w)
  PROVE  GoesOn(w) /\ UNCHANGED <<stored, known>> /\ Halved(worker'[w], worker[w])
<1> DEFINE todo == Halves(Head(worker[w].todo)) \o Tail(worker[w].todo)
<1>1. PICK n \in {1, Attempts} :
        /\ worker[w].requests + n <= MaxRequests
        /\ Goes(w, [Spend(w, n) EXCEPT !.todo = Halves(Head(@)) \o Tail(@)])
        /\ UNCHANGED Table
  BY DEF FetchPartial
<1>2. Quiet /\ UNCHANGED <<stored, known>> /\ worker[w].pc = "fetch" /\ worker[w].job = "nvd"
  BY <1>1 DEF FetchPartial, Asking, Fetching, At, Quiet, Outside, Catalogue, Table
<1>3. Typed(worker[w])
  BY DEF Types, WorkersTyped
<1> DEFINE spent == [worker[w] EXCEPT !.requests = worker[w].requests + n]
           g == [spent EXCEPT !.todo = todo]
<1>4. /\ SameRun(spent, worker[w]) /\ SamePage(spent, worker[w]) /\ DOMAIN spent = Fields
      /\ spent.todo = worker[w].todo /\ spent.requests = worker[w].requests + n
      /\ spent.pc = worker[w].pc
  BY <1>3 DEF Typed, Fields, SameRun, SamePage
<1>5. Spend(w, n) = spent
  BY DEF Spend
<1>6. Goes(w, g)
  BY <1>1, <1>4, <1>5
<1> HIDE DEF spent, todo
<1>7. /\ SameRun(g, spent) /\ DOMAIN g = Fields /\ g.requests = spent.requests
      /\ g.pc = spent.pc /\ g.todo = todo /\ SamePage(g, spent)
  BY <1>4 DEF Fields, SameRun, SamePage
<1>8. g.requests \in 0..MaxRequests /\ SameRun(g, worker[w])
  BY <1>1, <1>4, <1>7, Spending DEF SameRun
<1> HIDE DEF g
<1>9. GoesOn(w) /\ worker'[w] = g
  BY <1>2, <1>6, <1>7, <1>8, OneGoesOn
<1>10. SamePage(g, worker[w])
  BY <1>4, <1>7 DEF SamePage
<1> QED
  BY <1>2, <1>4, <1>7, <1>9, <1>10 DEF Halved, todo

LEMMA FetchKevMoves ==
  ASSUME Types, NEW w \in Workers, FetchKev(w)
  PROVE  /\ GoesOn(w) /\ UNCHANGED <<stored, known>>
         /\ Fetched(worker'[w], worker[w]) /\ FetchedKev(worker'[w], worker[w])
<1>1. PICK S \in KevCatalogs :
        Goes(w, [worker[w] EXCEPT !.pc = "import",
                   !.page = {[cve |-> c, at |-> 0, rules |-> FALSE] : c \in S}, !.seen = S])
  BY DEF FetchKev
<1>2. Quiet /\ UNCHANGED <<stored, known>> /\ worker[w].pc = "fetch" /\ worker[w].job = "kev"
  BY DEF FetchKev, Fetching, At, Quiet, Outside, Catalogue, Table
<1>3. Typed(worker[w]) /\ S \subseteq CVEs
  BY DEF Types, WorkersTyped, Sane
<1> DEFINE page == {[cve |-> c, at |-> 0, rules |-> FALSE] : c \in S}
           g == [worker[w] EXCEPT !.pc = "import", !.page = page, !.seen = S]
<1>4. Goes(w, g)
  BY <1>1
<1> HIDE DEF page
<1>5. /\ SameRun(g, worker[w]) /\ DOMAIN g = Fields /\ g.requests = worker[w].requests
      /\ g.pc = "import" /\ g.page = page /\ g.seen = S /\ g.todo = worker[w].todo
      /\ g.doing = worker[w].doing /\ g.exists = worker[w].exists /\ g.failed = worker[w].failed
  BY <1>3 DEF Typed, Fields, SameRun
<1>6. g.requests \in 0..MaxRequests
  BY <1>3, <1>5 DEF Typed
<1> HIDE DEF g
<1>7. GoesOn(w) /\ worker'[w] = g
  BY <1>2, <1>4, <1>5, <1>6, OneGoesOn
<1> QED
  BY <1>2, <1>3, <1>5, <1>7 DEF Fetched, FetchedKev, page

LEMMA FetchProductMoves ==
  ASSUME Types, NEW w \in Workers, FetchProduct(w)
  PROVE  /\ GoesOn(w) /\ UNCHANGED <<stored, known>>
         /\ Fetched(worker'[w], worker[w]) /\ FetchedProduct(worker'[w], worker[w])
<1> DEFINE page == Read({c \in CVEs : nvd[c] # None})
           g == [worker[w] EXCEPT !.pc = "import", !.page = page]
<1>1. Goes(w, g)
  BY DEF FetchProduct
<1>2. Quiet /\ UNCHANGED <<stored, known>> /\ worker[w].pc = "fetch" /\ worker[w].job = "product"
  BY DEF FetchProduct, Fetching, At, Quiet, Outside, Catalogue, Table
<1>3. Typed(worker[w])
  BY DEF Types, WorkersTyped
<1> HIDE DEF page
<1>4. /\ SameRun(g, worker[w]) /\ DOMAIN g = Fields /\ g.requests = worker[w].requests
      /\ g.pc = "import" /\ g.page = page /\ g.seen = worker[w].seen
      /\ g.todo = worker[w].todo
      /\ g.doing = worker[w].doing /\ g.exists = worker[w].exists /\ g.failed = worker[w].failed
  BY <1>3 DEF Typed, Fields, SameRun
<1>5. g.requests \in 0..MaxRequests
  BY <1>3, <1>4 DEF Typed
<1> HIDE DEF g
<1>6. GoesOn(w) /\ worker'[w] = g
  BY <1>1, <1>2, <1>4, <1>5, OneGoesOn
<1> QED
  BY <1>2, <1>4, <1>6 DEF Fetched, FetchedProduct, page

LEMMA ReadAdvisoryMoves ==
  ASSUME Types, NEW w \in Workers, ReadAdvisory(w)
  PROVE  /\ GoesOn(w) /\ UNCHANGED <<stored, known>>
         /\ \E a \in worker[w].page : Begins(worker'[w], worker[w], a)
<1>1. PICK a \in worker[w].page :
        Goes(w, [worker[w] EXCEPT !.page = @ \ {a}, !.doing = {a},
                   !.exists = stored[a.cve] # None, !.seen = @ \cup {a.cve}])
  BY DEF ReadAdvisory
<1>2. Quiet /\ UNCHANGED <<stored, known>> /\ worker[w].pc = "import" /\ worker[w].doing = {}
  BY DEF ReadAdvisory, At, Quiet, Outside, Catalogue, Table
<1>3. Typed(worker[w])
  BY DEF Types, WorkersTyped
<1> DEFINE page == worker[w].page \ {a}
           seen == worker[w].seen \cup {a.cve}
           exists == (stored[a.cve] # None)
           g == [worker[w] EXCEPT !.page = page, !.doing = {a}, !.exists = exists, !.seen = seen]
<1>4. Goes(w, g)
  <2>1. g = [worker[w] EXCEPT !.page = @ \ {a}, !.doing = {a},
                   !.exists = stored[a.cve] # None, !.seen = @ \cup {a.cve}]
    BY <1>3 DEF Typed, Fields
  <2> QED
    BY <1>1, <2>1
<1> HIDE DEF page, seen, exists
<1>5. /\ SameRun(g, worker[w]) /\ DOMAIN g = Fields /\ g.requests = worker[w].requests
      /\ g.pc = worker[w].pc /\ g.page = page /\ g.doing = {a} /\ g.exists = exists
      /\ g.seen = seen /\ g.failed = worker[w].failed /\ g.todo = worker[w].todo
  BY <1>3 DEF Typed, Fields, SameRun
<1>6. g.requests \in 0..MaxRequests
  BY <1>3, <1>5 DEF Typed
<1> HIDE DEF g
<1>7. GoesOn(w) /\ worker'[w] = g
  BY <1>2, <1>4, <1>5, <1>6, OneGoesOn
<1>8. Begins(g, worker[w], a)
  BY <1>2, <1>5 DEF Begins, page, seen, exists
<1> QED
  BY <1>2, <1>7, <1>8

\* What is written is what was read, unless it is known from KEV only.
Writes(w, a) ==
  \/ Ignored(w, a) /\ UNCHANGED <<stored, known>>
  \/ /\ worker[w].job = "kev" /\ ~Collides(w, a) /\ known' = known \cup {a.cve}
     /\ stored' = [stored EXCEPT ![a.cve] = IF worker[w].exists THEN stored[a.cve]
                                            ELSE Advisory(0, FALSE)]
  \/ /\ worker[w].job # "kev" /\ ~Ignored(w, a) /\ ~Collides(w, a) /\ known' = known
     /\ stored' = [stored EXCEPT ![a.cve] = Advisory(a.at, a.rules)]

LEMMA WriteAdvisoryMoves ==
  ASSUME Types, NEW w \in Workers, WriteAdvisory(w)
  PROVE  /\ GoesOn(w) /\ Ends(worker'[w], worker[w]) /\ worker'[w].failed = worker[w].failed
         /\ \E a \in worker[w].doing : Writes(w, a)
<1> DEFINE g == [worker[w] EXCEPT !.doing = {}]
<1>1. PICK a \in worker[w].doing :
        /\ Goes(w, g) /\ (Ignored(w, a) \/ ~Collides(w, a))
        /\ IF Ignored(w, a) THEN UNCHANGED Catalogue
           ELSE IF worker[w].job = "kev"
           THEN /\ known' = known \cup {a.cve}
                /\ stored' = [stored EXCEPT ![a.cve] = IF worker[w].exists THEN @
                                                       ELSE Advisory(0, FALSE)]
           ELSE stored' = [stored EXCEPT ![a.cve] = Advisory(a.at, a.rules)] /\ UNCHANGED known
  BY DEF WriteAdvisory
<1>2. Quiet /\ worker[w].pc = "import"
  BY DEF WriteAdvisory, At, Quiet, Outside, Catalogue, Table
<1>3. Typed(worker[w]) /\ a.cve \in CVEs /\ DOMAIN stored = CVEs
  BY DEF Types, WorkersTyped, Typed, Entries, CatalogueTyped
<1>4. Writes(w, a)
  BY <1>1, <1>3 DEF Writes, Catalogue
<1>5. /\ SameRun(g, worker[w]) /\ DOMAIN g = Fields /\ g.requests = worker[w].requests
      /\ g.pc = worker[w].pc /\ g.page = worker[w].page /\ g.doing = {}
      /\ g.exists = worker[w].exists
      /\ g.seen = worker[w].seen /\ g.failed = worker[w].failed /\ g.todo = worker[w].todo
  BY <1>3 DEF Typed, Fields, SameRun
<1>6. g.requests \in 0..MaxRequests
  BY <1>3, <1>5 DEF Typed
<1>7. Goes(w, g)
  BY <1>1
<1> HIDE DEF g
<1>8. GoesOn(w) /\ worker'[w] = g
  BY <1>2, <1>7, <1>5, <1>6, OneGoesOn
<1> QED
  BY <1>2, <1>4, <1>5, <1>8 DEF Ends

LEMMA WriteFailsMoves ==
  ASSUME Types, NEW w \in Workers, WriteFails(w)
  PROVE  /\ GoesOn(w) /\ UNCHANGED <<stored, known>>
         /\ Ends(worker'[w], worker[w]) /\ worker'[w].failed = TRUE
<1> DEFINE g == [worker[w] EXCEPT !.doing = {}, !.failed = TRUE]
<1>1. Goes(w, g) /\ Quiet /\ UNCHANGED <<stored, known>> /\ worker[w].pc = "import"
  BY DEF WriteFails, At, Quiet, Outside, Catalogue, Table
<1>2. Typed(worker[w])
  BY DEF Types, WorkersTyped
<1>3. /\ SameRun(g, worker[w]) /\ DOMAIN g = Fields /\ g.requests = worker[w].requests
      /\ g.pc = worker[w].pc /\ g.page = worker[w].page /\ g.doing = {}
      /\ g.exists = worker[w].exists
      /\ g.seen = worker[w].seen /\ g.failed = TRUE /\ g.todo = worker[w].todo
  BY <1>2 DEF Typed, Fields, SameRun
<1>4. g.requests \in 0..MaxRequests
  BY <1>2, <1>3 DEF Typed
<1> HIDE DEF g
<1>5. GoesOn(w) /\ worker'[w] = g
  BY <1>1, <1>3, <1>4, OneGoesOn
<1> QED
  BY <1>1, <1>3, <1>5 DEF Ends

LEMMA PageDoneMoves ==
  ASSUME Types, NEW w \in Workers, PageDone(w), ~worker[w].failed
  PROVE  /\ GoesOn(w) /\ stored' = stored /\ known' \subseteq known
         /\ Turns(worker'[w], worker[w])
<1> DEFINE pc == IF worker[w].todo # <<>> THEN "fetch" ELSE "correlate"
           g == [worker[w] EXCEPT !.pc = pc]
<1>1. /\ Goes(w, g) /\ Quiet /\ stored' = stored /\ known' \subseteq known
      /\ worker[w].pc = "import" /\ worker[w].page \cup worker[w].doing = {}
  BY DEF PageDone, Complete, At, Quiet, Outside, Catalogue, Table
<1>2. Typed(worker[w])
  BY DEF Types, WorkersTyped
<1> HIDE DEF pc
<1>3. /\ SameRun(g, worker[w]) /\ DOMAIN g = Fields /\ g.requests = worker[w].requests
      /\ g.pc = pc /\ SamePage(g, worker[w]) /\ g.todo = worker[w].todo
  BY <1>2 DEF Typed, Fields, SameRun, SamePage
<1>4. g.requests \in 0..MaxRequests
  BY <1>2, <1>3 DEF Typed
<1> HIDE DEF g
<1>5. GoesOn(w) /\ worker'[w] = g
  BY <1>1, <1>3, <1>4, OneGoesOn
<1> QED
  BY <1>1, <1>3, <1>5 DEF Turns, pc
---------------------------------------------------------------------------
(* What a step may be.                                                     *)

Lost(w) == [s \in Sources |-> IF lock[s] # None /\ lock[s].owner = w
                             THEN [lock[s] EXCEPT !.owner = "gone"] ELSE lock[s]]

Alike(w) == DOMAIN worker' = Workers /\ \A v \in Workers : v # w => worker'[v] = worker[v]

\* The run is given up, or none was begun.
Stops(w) ==
  /\ UNCHANGED <<clock, nvd, stored, cursor, fresh, origins, overtaken>> /\ known' \subseteq known
  /\ Alike(w) /\ Rests(worker'[w]) /\ lock' \in {lock, Unlock(w), Lost(w)}

Chooses(w) ==
  /\ UNCHANGED <<clock, nvd, stored, known, lock, cursor, fresh, origins, overtaken>>
  /\ Alike(w)
  /\ worker[w].pc = "read" /\ worker'[w].pc = "start" /\ worker'[w].job = worker[w].job
  /\ \/ SameRun(worker'[w], worker[w]) /\ worker[w].job = "product"
     \/ /\ worker'[w].to \in Int /\ worker'[w].to <= clock /\ worker[w].job = "nvd"
        /\ worker'[w].from = From(worker'[w].to) /\ worker'[w].first = (cursor = None)
        /\ worker'[w].since = worker[w].since
  /\ SamePage(worker'[w], worker[w]) /\ SameRequests(worker'[w], worker[w])
  /\ DOMAIN worker'[w] = Fields

Starts(w) ==
  /\ UNCHANGED <<clock, nvd, stored, known, cursor, fresh, origins>>
  /\ Alike(w) /\ worker[w].pc \in {"start", "idle"}
  /\ Took(w, Source(worker[w].job)) /\ Began(worker'[w], worker[w], w)

Works(w) ==
  /\ GoesOn(w) /\ known' \subseteq known /\ UNCHANGED stored
  /\ \/ Halved(worker'[w], worker[w])
     \/ /\ Fetched(worker'[w], worker[w])
        /\ \/ FetchedWindow(worker'[w], worker[w])
           \/ FetchedProduct(worker'[w], worker[w])
           \/ FetchedKev(worker'[w], worker[w])
     \/ \E a \in worker[w].page : Begins(worker'[w], worker[w], a)
     \/ Ends(worker'[w], worker[w]) /\ worker'[w].failed = TRUE
     \/ Turns(worker'[w], worker[w])

Saves(w) ==
  /\ GoesOn(w) /\ Ends(worker'[w], worker[w]) /\ worker'[w].failed = worker[w].failed
  /\ \E a \in worker[w].doing : Writes(w, a)

Closes(w) ==
  /\ UNCHANGED <<clock, nvd, stored, known, overtaken>> /\ lock' = Unlock(w)
  /\ Alike(w) /\ Rests(worker'[w]) /\ worker[w].pc = "correlate"
  /\ \/ cursor' = cursor
     \/ /\ worker[w].job = "nvd"
        /\ cursor' = [since |-> worker[w].since, to |-> worker[w].to]
  /\ origins' = IF worker[w].first THEN origins \cup {worker[w].from} ELSE origins
  /\ fresh' = IF worker[w].job = "product" THEN [at |-> clock] ELSE fresh

LEMMA StepCases ==
  ASSUME Types, NEW w \in Workers, Step(w)
  PROVE  Stops(w) \/ Chooses(w) \/ Starts(w) \/ Works(w) \/ Saves(w) \/ Closes(w)
<1> USE DEF Alike
<1>1. CASE ReadWindow(w)
  <2>1. CASE Rests(worker'[w])
    BY <1>1, <2>1, ReadWindowMoves DEF Stops
  <2>2. CASE ~Rests(worker'[w])
    BY <1>1, <2>2, ReadWindowMoves DEF Chooses
  <2> QED
    BY <2>1, <2>2
<1>2. CASE ReadFreshness(w)
  <2>1. CASE Rests(worker'[w])
    BY <1>2, <2>1, ReadFreshnessMoves DEF Stops
  <2>2. CASE ~Rests(worker'[w])
    BY <1>2, <2>2, ReadFreshnessMoves DEF Chooses, SameRun
  <2> QED
    BY <2>1, <2>2
<1>3. CASE StartRun(w)
  BY <1>3, StartRunMoves DEF Stops, Starts
<1>4. CASE Failed(w) /\ UNCHANGED <<clock, nvd, stored>> /\ known' \subseteq known
  BY <1>4, FailedMoves DEF Stops
<1>5. CASE SplitWide(w)
  BY <1>5, SplitWideMoves DEF Works
<1>6. CASE FetchWindow(w)
  BY <1>6, FetchWindowMoves DEF Works
<1>7. CASE FetchPartial(w)
  <2>1. CASE Failed(w)
    BY <1>4, <1>7, <2>1 DEF FetchPartial, Outside, Catalogue
  <2>2. CASE ~Failed(w)
    BY <1>7, <2>2, FetchPartialMoves DEF Works
  <2> QED
    BY <2>1, <2>2
<1>8. CASE RequestsSpent(w) \/ FetchFails(w) \/ CorrelationFails(w)
  BY <1>4, <1>8 DEF RequestsSpent, FetchFails, CorrelationFails, Outside, Catalogue
<1>9. CASE FetchKev(w)
  BY <1>9, FetchKevMoves DEF Works
<1>10. CASE FetchProduct(w)
  BY <1>10, FetchProductMoves DEF Works
<1>11. CASE ReadAdvisory(w)
  BY <1>11, ReadAdvisoryMoves DEF Works
<1>12. CASE WriteAdvisory(w)
  BY <1>12, WriteAdvisoryMoves DEF Saves
<1>13. CASE WriteFails(w)
  BY <1>13, WriteFailsMoves DEF Works
<1>14. CASE PageDone(w)
  <2>1. CASE worker[w].failed
    BY <1>4, <1>14, <2>1 DEF PageDone, Complete, Outside, Catalogue
  <2>2. CASE ~worker[w].failed
    BY <1>14, <2>2, PageDoneMoves DEF Works
  <2> QED
    BY <2>1, <2>2
<1>15. CASE Finish(w)
  BY <1>15, FinishMoves DEF Closes
<1>16. CASE Crash(w)
  BY <1>16, CrashMoves DEF Stops, Lost
<1> QED
  BY <1>1, <1>2, <1>3, <1>5, <1>6, <1>7, <1>8, <1>9, <1>10, <1>11, <1>12, <1>13, <1>14, <1>15,
     <1>16 DEF Step
---------------------------------------------------------------------------
(* Types and shapes are kept.                                              *)

Shaped(h) ==
  /\ h.pc \in {"idle", "read", "start"} => h.page = {} /\ h.doing = {} /\ h.seen = {} /\ ~h.failed
  /\ h.pc = "idle" => h.job = "kev"
  /\ h.pc \in {"fetch", "correlate"} => h.page = {} /\ h.doing = {} /\ ~h.failed
  /\ h.pc = "correlate" => h.todo = <<>>
  /\ h.pc = "fetch" /\ h.job = "nvd" => h.todo # <<>>
  /\ h.doing = {} \/ \E a \in h.doing : h.doing = {a}

Shapes == \A w \in Workers : Shaped(worker[w])

LEMMA Advised ==
  /\ None \notin Advisories
  /\ \A at \in Nat, rules \in BOOLEAN : Advisory(at, rules) \in Advisories
  /\ \A a \in Advisories : a = Advisory(a.at, a.rules) /\ a.at \in Nat /\ a.rules \in BOOLEAN
<1>1. None \notin Advisories
  BY DEF None, Advisories
<1>2. \A at \in Nat, rules \in BOOLEAN : Advisory(at, rules) \in Advisories
  BY DEF Advisory, Advisories
<1>3. \A a \in Advisories : a = Advisory(a.at, a.rules) /\ a.at \in Nat /\ a.rules \in BOOLEAN
  BY DEF Advisory, Advisories
<1> QED
  BY <1>1, <1>2, <1>3

LEMMA RestsShaped == ASSUME NEW g, Rests(g) PROVE Shaped(g)
BY DEF Rests, Shaped

LEMMA HalvesTyped ==
  ASSUME NEW todo \in Seq(Windows), todo # <<>>
  PROVE  /\ Halves(Head(todo)) \o Tail(todo) \in Seq(Windows)
         /\ Halves(Head(todo)) \o Tail(todo) # <<>>
<1>1. PICK f \in Int, t \in Int : Head(todo) = [from |-> f, to |-> t]
  <2>1. Head(todo) \in Windows
    OBVIOUS
  <2>2. Head(todo) = [from |-> Head(todo).from, to |-> Head(todo).to]
        /\ Head(todo).from \in Int /\ Head(todo).to \in Int
    BY <2>1 DEF Windows
  <2> QED
    BY <2>2
<1> DEFINE mid == f + (t - f) \div 2
<1>2. mid \in Int
  <2>1. (t - f) \div 2 \in Int
    <3> DEFINE d == t - f
    <3>1. d \in Int
      OBVIOUS
    <3> HIDE DEF d
    <3>2. d \div 2 \in Int
      BY <3>1
    <3> QED
      BY <3>2 DEF d
  <2> QED
    BY <2>1
<1>3. Halves(Head(todo)) = <<[from |-> f, to |-> mid], [from |-> mid, to |-> t]>>
  BY <1>1 DEF Halves, Width
<1> HIDE DEF mid
<1>4. Halves(Head(todo)) \in Seq(Windows) /\ Halves(Head(todo)) # <<>>
  <2>1. [from |-> f, to |-> mid] \in Windows /\ [from |-> mid, to |-> t] \in Windows
    BY <1>2 DEF Windows
  <2>2. ASSUME NEW x \in Windows, NEW y \in Windows
        PROVE  <<x, y>> \in Seq(Windows) /\ <<x, y>> # <<>>
    OBVIOUS
  <2> QED
    BY <1>3, <2>1, <2>2
<1>5. Tail(todo) \in Seq(Windows)
  OBVIOUS
<1> HIDE DEF mid
<1>6. ASSUME NEW p \in Seq(Windows), p # <<>>, NEW q \in Seq(Windows)
      PROVE  p \o q \in Seq(Windows) /\ p \o q # <<>>
  <2>1. p \o q \in Seq(Windows)
    OBVIOUS
  <2>2. Len(p) > 0 /\ Len(p \o q) = Len(p) + Len(q) /\ Len(q) \in Nat
    BY <1>6
  <2> QED
    BY <2>1, <2>2
<1> QED
  BY <1>4, <1>5, <1>6

\* What is read of NVD has its type.
LEMMA ReadTyped ==
  ASSUME FeedTyped, NEW S \in SUBSET {c \in CVEs : nvd[c] # None}
  PROVE  Read(S) \subseteq Entries
<1> SUFFICES ASSUME NEW c \in S PROVE [cve |-> c, at |-> nvd[c].at, rules |-> nvd[c].rules] \in Entries
  BY DEF Read
<1>1. c \in CVEs /\ nvd[c] \in Advisories
  BY DEF FeedTyped
<1> QED
  BY <1>1, Advised DEF Entries

LEMMA WorkTyped ==
  ASSUME Types, Shapes, NEW w \in Workers, Works(w)
  PROVE  Typed(worker'[w]) /\ Shaped(worker'[w])
<1> DEFINE g == worker'[w]
           h == worker[w]
<1>1. Typed(h) /\ Shaped(h)
  BY DEF Types, WorkersTyped, Shapes
<1>2. SameRun(g, h) /\ DOMAIN g = Fields /\ g.requests \in 0..MaxRequests
  BY DEF Works, GoesOn
<1> HIDE DEF g, h
<1>3. g.job \in Jobs /\ g.since \in Nat /\ g.from \in Int /\ g.to \in Int /\ g.first \in BOOLEAN
  BY <1>1, <1>2 DEF Typed, SameRun
<1>4. CASE Halved(g, h)
  <2>1. g.todo \in Seq(Windows) /\ g.todo # <<>>
    BY <1>1, <1>4, HalvesTyped DEF Halved, Typed, Shaped
  <2>2. /\ g.pc \in Pcs /\ g.seen \subseteq CVEs /\ g.page \subseteq Entries
        /\ g.doing \subseteq Entries /\ g.exists \in BOOLEAN /\ g.failed \in BOOLEAN
    BY <1>1, <1>4 DEF Halved, Typed, SamePage, Pcs
  <2>3. Shaped(g)
    BY <1>1, <1>4, <2>1 DEF Halved, Shaped, SamePage
  <2> QED
    BY <1>2, <1>3, <2>1, <2>2, <2>3 DEF Typed, g
<1>5. CASE Fetched(g, h)
           /\ (FetchedWindow(g, h) \/ FetchedProduct(g, h) \/ FetchedKev(g, h))
  <2>1. g.page \subseteq Entries /\ g.seen \subseteq CVEs /\ g.todo \in Seq(Windows)
    <3>1. CASE FetchedWindow(g, h)
      <4>1. {c \in CVEs : Within(c, Head(h.todo))} \in SUBSET {c \in CVEs : nvd[c] # None}
        BY DEF Within
      <4>2. g.page \subseteq Entries
        BY <3>1, <4>1, ReadTyped DEF FetchedWindow, Types
      <4>3. h.todo # <<>>
        BY <1>1, <1>5, <3>1 DEF Fetched, FetchedWindow, Shaped
      <4> QED
        BY <1>1, <3>1, <4>2, <4>3 DEF FetchedWindow, Typed
    <3>2. CASE FetchedProduct(g, h)
      BY <1>1, <3>2, ReadTyped DEF FetchedProduct, Typed, Types
    <3>3. CASE FetchedKev(g, h)
      <4>1. ASSUME NEW c \in CVEs PROVE [cve |-> c, at |-> 0, rules |-> FALSE] \in Entries
        <5>1. FALSE \in BOOLEAN
          OBVIOUS
        <5> QED
          BY <5>1 DEF Entries
      <4>2. g.page \subseteq Entries
        BY <3>3, <4>1 DEF FetchedKev
      <4> QED
        BY <1>1, <3>3, <4>2 DEF FetchedKev, Typed
    <3> QED
      BY <1>5, <3>1, <3>2, <3>3
  <2>2. /\ g.pc = "import" /\ g.doing = {} /\ g.exists \in BOOLEAN /\ g.failed \in BOOLEAN
    BY <1>1, <1>5 DEF Fetched, Typed, Shaped
  <2> QED
    BY <1>2, <1>3, <2>1, <2>2 DEF Typed, Shaped, Pcs, g
<1>6. CASE \E a \in h.page : Begins(g, h, a)
  <2>1. PICK a \in h.page : Begins(g, h, a)
    BY <1>6
  <2>2. a \in Entries /\ a.cve \in CVEs
    BY <1>1 DEF Typed, Entries
  <2>3. g.exists \in BOOLEAN
    BY <2>1 DEF Begins
  <2>4. /\ g.pc = "import" /\ g.page \subseteq Entries /\ g.doing = {a} /\ g.seen \subseteq CVEs
        /\ g.failed \in BOOLEAN /\ g.todo \in Seq(Windows)
    BY <1>1, <2>1, <2>2 DEF Begins, Typed
  <2> QED
    BY <1>2, <1>3, <2>2, <2>3, <2>4 DEF Typed, Shaped, Pcs, g
<1>7. CASE Ends(g, h) /\ g.failed = TRUE
  <2>1. /\ g.pc = "import" /\ g.page \subseteq Entries /\ g.doing = {} /\ g.seen \subseteq CVEs
        /\ g.exists \in BOOLEAN /\ g.todo \in Seq(Windows)
    BY <1>1, <1>7 DEF Ends, Typed
  <2>2. g.failed \in BOOLEAN
    BY <1>7
  <2> QED
    BY <1>2, <1>3, <2>1, <2>2 DEF Typed, Shaped, Pcs, g
<1>8. CASE Turns(g, h)
  <2>1. /\ g.pc \in {"fetch", "correlate"} /\ g.page = {} /\ g.doing = {} /\ g.seen \subseteq CVEs
        /\ g.todo \in Seq(Windows) /\ ~g.failed
        /\ g.pc = "correlate" => g.todo = <<>>
        /\ g.pc = "fetch" => g.todo # <<>>
    BY <1>1, <1>8 DEF Turns, SamePage, Typed
  <2>2. g.exists \in BOOLEAN /\ g.failed \in BOOLEAN
    BY <1>1, <1>8 DEF Turns, SamePage, Typed
  <2> QED
    BY <1>2, <1>3, <2>1, <2>2 DEF Typed, Shaped, Pcs, g
<1> QED
  BY <1>4, <1>5, <1>6, <1>7, <1>8 DEF Works, g, h
LEMMA ChoiceTyped ==
  ASSUME Types, Shapes, NEW w \in Workers, Chooses(w)
  PROVE  Typed(worker'[w]) /\ Shaped(worker'[w])
<1> DEFINE g == worker'[w]
           h == worker[w]
<1>1. Typed(h) /\ Shaped(h)
  BY DEF Types, WorkersTyped, Shapes
<1>2. /\ h.pc = "read" /\ g.pc = "start" /\ g.job = h.job /\ DOMAIN g = Fields
      /\ SamePage(g, h) /\ SameRequests(g, h)
  BY DEF Chooses
<1>3. g.since \in Nat /\ g.from \in Int /\ g.to \in Int /\ g.first \in BOOLEAN
  <2>1. CASE SameRun(g, h)
    BY <1>1, <2>1 DEF SameRun, Typed
  <2>2. CASE ~SameRun(g, h)
    <3>1. /\ g.to \in Int /\ g.from = From(g.to) /\ g.first = (cursor = None)
          /\ g.since = h.since
      BY <2>2 DEF Chooses
    <3>2. g.first \in BOOLEAN
      BY <3>1
    <3>3. g.from \in Int
      <4>1. CASE cursor = None
        BY <3>1, <4>1 DEF From, Types, Sane
      <4>2. CASE cursor # None
        <5>1. cursor \in [since : Nat, to : Int]
          BY <4>2 DEF Types, TableTyped
        <5>2. g.from = cursor.to
          BY <3>1, <4>2 DEF From
        <5> QED
          BY <5>1, <5>2
      <4> QED
        BY <4>1, <4>2
    <3> QED
      BY <1>1, <3>1, <3>2, <3>3 DEF Typed
  <2> QED
    BY <2>1, <2>2
<1> HIDE DEF g, h
<1>4. /\ g.pc \in Pcs /\ g.job \in Jobs /\ g.seen \subseteq CVEs /\ g.page \subseteq Entries
      /\ g.doing \subseteq Entries /\ g.todo \in Seq(Windows) /\ g.requests \in 0..MaxRequests
  BY <1>1, <1>2 DEF Typed, SamePage, SameRequests, Pcs
<1>5. g.exists \in BOOLEAN /\ g.failed \in BOOLEAN
  BY <1>1, <1>2 DEF Typed, SamePage
<1>6. Shaped(g)
  BY <1>1, <1>2 DEF Shaped, SamePage
<1> QED
  BY <1>2, <1>3, <1>4, <1>5, <1>6 DEF Typed, g

LEMMA StartTyped ==
  ASSUME Types, Shapes, NEW w \in Workers, Starts(w)
  PROVE  Typed(worker'[w]) /\ Shaped(worker'[w])
<1> DEFINE g == worker'[w]
           h == worker[w]
<1>1. Typed(h) /\ Shaped(h) /\ clock \in Nat
  BY DEF Types, WorkersTyped, Shapes, FeedTyped
<1>2. h.pc \in {"start", "idle"} /\ Began(g, h, w)
  BY DEF Starts
<1>3. g.todo \in Seq(Windows) /\ (h.job = "nvd" => g.todo # <<>>)
  <2>1. Window(w) \in Windows
    BY <1>1 DEF Window, Windows, Typed
  <2>2. ASSUME NEW x \in Windows PROVE <<x>> \in Seq(Windows) /\ <<x>> # <<>>
    OBVIOUS
  <2>3. <<>> \in Seq(Windows)
    OBVIOUS
  <2> QED
    BY <1>2, <2>1, <2>2, <2>3 DEF Began
<1> HIDE DEF g, h
<1>4. /\ g.pc \in Pcs /\ g.job \in Jobs /\ g.since \in Nat /\ g.from \in Int /\ g.to \in Int
      /\ g.seen \subseteq CVEs /\ g.page \subseteq Entries /\ g.doing \subseteq Entries
      /\ g.requests \in 0..MaxRequests /\ DOMAIN g = Fields
  BY <1>1, <1>2 DEF Began, Typed, SamePage, Pcs
<1>5. g.first \in BOOLEAN /\ g.exists \in BOOLEAN /\ g.failed \in BOOLEAN
  BY <1>1, <1>2 DEF Began, Typed, SamePage
<1>6. Shaped(g)
  BY <1>1, <1>2, <1>3 DEF Shaped, SamePage, Began
<1> QED
  BY <1>3, <1>4, <1>5, <1>6 DEF Typed, g

LEMMA SaveTyped ==
  ASSUME Types, Shapes, NEW w \in Workers, Saves(w)
  PROVE  Typed(worker'[w]) /\ Shaped(worker'[w])
<1> DEFINE g == worker'[w]
           h == worker[w]
<1>1. Typed(h) /\ Shaped(h)
  BY DEF Types, WorkersTyped, Shapes
<1>2. /\ SameRun(g, h) /\ DOMAIN g = Fields /\ g.requests \in 0..MaxRequests
      /\ Ends(g, h) /\ g.failed = h.failed
  BY DEF Saves, GoesOn
<1> HIDE DEF g, h
<1>3. /\ g.pc = "import" /\ g.job \in Jobs /\ g.since \in Nat /\ g.from \in Int /\ g.to \in Int
      /\ g.seen \subseteq CVEs /\ g.page \subseteq Entries /\ g.doing = {}
      /\ g.todo \in Seq(Windows)
  BY <1>1, <1>2 DEF Ends, SameRun, Typed
<1>4. g.first \in BOOLEAN /\ g.exists \in BOOLEAN /\ g.failed \in BOOLEAN
  BY <1>1, <1>2 DEF Ends, SameRun, Typed
<1> QED
  BY <1>2, <1>3, <1>4 DEF Typed, Shaped, Pcs, g

\* What is stored has its type.
LEMMA WritesTyped ==
  ASSUME Types, NEW w \in Workers, NEW a \in worker[w].doing, Writes(w, a)
  PROVE  CatalogueTyped'
<1>1. a \in Entries /\ CatalogueTyped
  BY DEF Types, WorkersTyped, Typed
<1>2. a.cve \in CVEs /\ a.at \in Nat /\ a.rules \in BOOLEAN
  BY <1>1 DEF Entries
<1>3. Advisory(a.at, a.rules) \in Advisories
  BY <1>2, Advised
<1>4. Advisory(0, FALSE) \in Advisories
  <2>1. FALSE \in BOOLEAN
    OBVIOUS
  <2> QED
    BY <2>1, Advised
<1>5. CASE UNCHANGED <<stored, known>>
  BY <1>1, <1>5 DEF CatalogueTyped
<1>6. CASE /\ known' = known \cup {a.cve}
           /\ stored' = [stored EXCEPT ![a.cve] = IF worker[w].exists THEN stored[a.cve]
                                                  ELSE Advisory(0, FALSE)]
  BY <1>1, <1>2, <1>4, <1>6 DEF CatalogueTyped
<1>7. CASE known' = known /\ stored' = [stored EXCEPT ![a.cve] = Advisory(a.at, a.rules)]
  BY <1>1, <1>2, <1>3, <1>7 DEF CatalogueTyped
<1> QED
  BY <1>5, <1>6, <1>7 DEF Writes

\* The rows of the runs.
Rows == [owner : Workers \cup {"gone"}, since : Nat]
LocksTyped == DOMAIN lock = Sources /\ \A s \in Sources : lock[s] = None \/ lock[s] \in Rows

LEMMA LocksKept ==
  ASSUME Types, NEW w \in Workers,
         lock' \in {lock, Unlock(w), Lost(w)} \/ Took(w, Source(worker[w].job))
  PROVE  LocksTyped'
<1>1. LocksTyped /\ Source(worker[w].job) \in Sources /\ clock \in Nat
  BY DEF Types, TableTyped, LocksTyped, Rows, Source, Sources, FeedTyped
<1>2. CASE lock' = lock
  BY <1>1, <1>2 DEF LocksTyped
<1>3. CASE lock' = Unlock(w)
  BY <1>1, <1>3 DEF LocksTyped, Unlock
<1>4. CASE lock' = Lost(w)
  <2>1. ASSUME NEW s \in Sources, lock[s] # None, lock[s].owner = w
        PROVE  [lock[s] EXCEPT !.owner = "gone"] \in Rows
    <3>1. lock[s] \in Rows
      BY <1>1, <2>1 DEF LocksTyped
    <3> QED
      BY <3>1 DEF Rows
  <2> QED
    BY <1>1, <1>4, <2>1 DEF LocksTyped, Lost
<1>5. CASE Took(w, Source(worker[w].job))
  <2>1. [owner |-> w, since |-> clock] \in Rows
    BY <1>1 DEF Rows
  <2> QED
    BY <1>1, <1>5, <2>1 DEF LocksTyped, Took
<1> QED
  BY <1>2, <1>3, <1>4, <1>5

LEMMA TypesKept ==
  ASSUME Types, Shapes, NEW w \in Workers,
         Stops(w) \/ Chooses(w) \/ Starts(w) \/ Works(w) \/ Saves(w) \/ Closes(w)
  PROVE  Types' /\ Shapes'
<1>1. Typed(worker'[w]) /\ Shaped(worker'[w])
  BY RestsTyped, RestsShaped, ChoiceTyped, StartTyped, WorkTyped, SaveTyped
  DEF Stops, Closes, Types
<1>2. /\ UNCHANGED <<clock, nvd>> /\ DOMAIN worker' = Workers
      /\ \A v \in Workers : v # w => worker'[v] = worker[v]
  BY DEF Stops, Chooses, Starts, Works, Saves, Closes, GoesOn, Quiet, Alike
<1>3. FeedTyped'
  BY <1>2 DEF Types, FeedTyped
<1>4. CatalogueTyped'
  <2>1. CASE Saves(w)
    BY <2>1, WritesTyped DEF Saves
  <2>2. CASE ~Saves(w)
    <3>1. stored' = stored /\ known' \subseteq known
      BY <2>2 DEF Stops, Chooses, Starts, Works, Closes
    <3> QED
      BY <3>1 DEF Types, CatalogueTyped
  <2> QED
    BY <2>1, <2>2
<1>5. LocksTyped'
  BY LocksKept DEF Stops, Chooses, Starts, Works, Saves, Closes, GoesOn, Quiet
<1>6. cursor' = None \/ cursor' \in [since : Nat, to : Int]
  <2>1. CASE cursor' = cursor
    BY <2>1 DEF Types, TableTyped
  <2>2. CASE cursor' = [since |-> worker[w].since, to |-> worker[w].to]
    BY <2>2 DEF Types, WorkersTyped, Typed
  <2> QED
    BY <2>1, <2>2 DEF Stops, Chooses, Starts, Works, Saves, Closes, GoesOn, Quiet
<1>7. fresh' = None \/ fresh' \in [at : Nat]
  <2>1. fresh' = fresh \/ fresh' = [at |-> clock]
    BY DEF Stops, Chooses, Starts, Works, Saves, Closes, GoesOn, Quiet
  <2> QED
    BY <2>1 DEF Types, TableTyped, FeedTyped
<1>8. origins' \subseteq Int
  <2>1. origins' = origins \/ origins' = origins \cup {worker[w].from}
    BY DEF Stops, Chooses, Starts, Works, Saves, Closes, GoesOn, Quiet
  <2> QED
    BY <2>1 DEF Types, TableTyped, WorkersTyped, Typed
<1>9. overtaken' \in BOOLEAN
  <2>1. CASE Starts(w)
    BY <2>1 DEF Starts, Took
  <2>2. CASE ~Starts(w)
    BY <2>2 DEF Stops, Chooses, Works, Saves, Closes, GoesOn, Quiet, Types, TableTyped
  <2> QED
    BY <2>1, <2>2
<1>10. TableTyped'
  BY <1>5, <1>6, <1>7, <1>8, <1>9 DEF TableTyped, LocksTyped, Rows
<1>11. WorkersTyped' /\ Shapes'
  BY <1>1, <1>2 DEF Types, WorkersTyped, Shapes
<1> QED
  BY <1>3, <1>4, <1>10, <1>11 DEF Types, Sane
---------------------------------------------------------------------------
(* The invariant.                                                          *)

Live(w) == worker[w].pc \in {"fetch", "import", "correlate"}
\* A worker that has a window of its own.
Asks(w) == worker[w].job = "nvd" /\ (Live(w) \/ worker[w].pc = "start")
\* A run that writes what NVD says.
Copies(w) == Live(w) /\ worker[w].job # "kev"

\* Nothing is asked for that is not over yet.
Times ==
  /\ \A w \in Workers :
       /\ Asks(w) => worker[w].to <= clock /\ (~worker[w].first => worker[w].from <= clock)
       /\ Live(w) => worker[w].since <= clock
       /\ Asks(w) /\ Live(w) => worker[w].to <= worker[w].since
  /\ cursor # None => cursor.to <= clock

\* A run has the lock of its source, so no other run of the source is live.
Alone ==
  \A w \in Workers :
    Live(w) => lock[Source(worker[w].job)] = [owner |-> w, since |-> worker[w].since]

\* Whoever writes what NVD says began when the last cursor, and the windows
\* that begin at one, were over.
Ordered ==
  \A w \in Workers : Copies(w) =>
    /\ cursor # None => cursor.to <= worker[w].since
    /\ \A v \in Workers : Asks(v) /\ ~worker[v].first => worker[v].from <= worker[w].since

\* The advisory is stored as NVD has it, or is not worth storing.
Fine(n, s) == s = n \/ (~n.rules /\ (s = None \/ s.at = 0))
Good(c) == Fine(nvd[c], stored[c])

Held(w) == worker[w].page \cup worker[w].doing

\* A page says what NVD says, but for what is modified since the run began.
Pages ==
  \A w \in Workers : Copies(w) =>
    \A a \in Held(w) :
      /\ nvd[a.cve] # None
      /\ nvd[a.cve] = Advisory(a.at, a.rules) \/ nvd[a.cve].at >= worker[w].since

\* An advisory that was not found is still unknown, or known from KEV only.
Unknown ==
  \A w \in Workers : Copies(w) /\ ~worker[w].exists =>
    \A a \in worker[w].doing : stored[a.cve] = None \/ stored[a.cve].at = 0

\* What was seen is stored, unless the run is going to fail.
Seen ==
  \A w \in Workers : Copies(w) =>
    \A c \in worker[w].seen :
      nvd[c] # None /\ nvd[c].at < worker[w].since =>
        Good(c) \/ worker[w].failed \/ \E a \in Held(w) : a.cve = c

\* What a window of the list asks for.
Asked(c, todo) == \E i \in DOMAIN todo : Within(c, todo[i])

\* What the run's window spans is stored, or in a page, or still to be asked.
Spanned ==
  \A w \in Workers : Copies(w) /\ worker[w].job = "nvd" =>
    \A c \in CVEs :
      nvd[c] # None /\ worker[w].from <= nvd[c].at /\ nvd[c].at < worker[w].to =>
        \/ Good(c) \/ worker[w].failed \/ \E a \in Held(w) : a.cve = c
        \/ Asked(c, worker[w].todo)

\* All that was modified before t is stored.
Covered(t) ==
  \A c \in CVEs :
    nvd[c] # None /\ (\A o \in origins : nvd[c].at >= o) /\ nvd[c].at < t => Good(c)
Covers ==
  /\ cursor # None => Covered(cursor.to)
  /\ \A w \in Workers : Asks(w) /\ ~worker[w].first => Covered(worker[w].from)

Undisturbed == Alone /\ Ordered /\ Pages /\ Unknown /\ Seen /\ Spanned /\ Covers
Inv == Types /\ Shapes /\ Times /\ (~overtaken => Undisturbed)

---------------------------------------------------------------------------
(* What a step of a worker changes of who runs and of what is asked.       *)

Moves(w) == Stops(w) \/ Chooses(w) \/ Starts(w) \/ Works(w) \/ Saves(w) \/ Closes(w)

LEMMA RestsIsOver ==
  ASSUME NEW w \in Workers, Rests(worker'[w])
  PROVE  ~Live(w)' /\ ~Asks(w)' /\ ~Copies(w)'
BY DEF Rests, Live, Asks, Copies

LEMMA GoingOn ==
  ASSUME NEW w \in Workers, Works(w) \/ Saves(w)
  PROVE  Live(w) /\ Live(w)' /\ SameRun(worker'[w], worker[w])
BY DEF Works, Saves, GoesOn, Live, Halved, Fetched, Begins, Ends, Turns

LEMMA ClockStays ==
  ASSUME NEW w \in Workers, Moves(w)
  PROVE  /\ clock' = clock /\ nvd' = nvd /\ origins \subseteq origins'
         /\ \A v \in Workers : v # w => worker'[v] = worker[v]
         /\ ~overtaken' => ~overtaken
<1>1. CASE Starts(w)
  BY <1>1 DEF Starts, Took, Alike
<1>2. CASE ~Starts(w)
  BY <1>2 DEF Moves, Stops, Chooses, Works, Saves, Closes, GoesOn, Quiet, Alike
<1> QED
  BY <1>1, <1>2

\* A run that copies was copying before, or begins now.
LEMMA CopiesBefore ==
  ASSUME NEW w \in Workers, Moves(w), NEW v \in Workers, Copies(v)'
  PROVE  \/ Copies(v) /\ SameRun(worker'[v], worker[v])
         \/ v = w /\ Starts(w)
<1>1. CASE v # w
  BY <1>1, ClockStays DEF Copies, Live, SameRun
<1>2. CASE v = w
  <2>1. ~Rests(worker'[w])
    BY <1>2, RestsIsOver
  <2>2. ~Chooses(w)
    BY <1>2 DEF Chooses, Copies, Live
  <2>3. CASE Works(w) \/ Saves(w)
    BY <1>2, <2>3, GoingOn DEF Copies, SameRun
  <2> QED
    BY <1>2, <2>1, <2>2, <2>3 DEF Moves, Stops, Closes
<1> QED
  BY <1>1, <1>2

\* Who asks was asking before, or chooses its window now.
LEMMA AsksBefore ==
  ASSUME Shapes, NEW w \in Workers, Moves(w), NEW v \in Workers, Asks(v)'
  PROVE  \/ /\ Asks(v) /\ worker'[v].to = worker[v].to /\ worker'[v].from = worker[v].from
            /\ worker'[v].first = worker[v].first
         \/ /\ v = w /\ Chooses(w) /\ worker'[w].to <= clock
            /\ worker'[w].from = From(worker'[w].to) /\ worker'[w].first = (cursor = None)
<1>1. CASE v # w
  BY <1>1, ClockStays DEF Asks, Live
<1>2. CASE v = w
  <2>1. ~Rests(worker'[w])
    BY <1>2, RestsIsOver
  <2>2. CASE Chooses(w)
    BY <1>2, <2>2 DEF Chooses, Asks
  <2>3. CASE Works(w) \/ Saves(w)
    BY <1>2, <2>3, GoingOn DEF Asks, SameRun
  <2>4. CASE Starts(w)
    <3>1. worker[w].job = "nvd" /\ worker[w].pc \in {"start", "idle"}
      BY <1>2, <2>4 DEF Starts, Began, Asks
    <3>2. worker[w].pc = "start"
      BY <3>1 DEF Shapes, Shaped
    <3> QED
      BY <1>2, <2>4, <3>1, <3>2 DEF Starts, Began, Asks
  <2> QED
    BY <1>2, <2>1, <2>2, <2>3, <2>4 DEF Moves, Stops, Closes
<1> QED
  BY <1>1, <1>2

LEMMA Numbers ==
  ASSUME Types
  PROVE  /\ clock \in Int
         /\ \A w \in Workers : /\ worker[w].since \in Int /\ worker[w].from \in Int
                               /\ worker[w].to \in Int /\ worker[w].first \in BOOLEAN
         /\ cursor # None => cursor.to \in Int
         /\ \A c \in CVEs : nvd[c] # None => nvd[c].at \in Int /\ nvd[c].at <= clock
<1>1. clock \in Int /\ \A c \in CVEs : nvd[c] # None => nvd[c].at \in Int /\ nvd[c].at <= clock
  BY Advised DEF Types, FeedTyped
<1>2. \A w \in Workers : /\ worker[w].since \in Int /\ worker[w].from \in Int
                         /\ worker[w].to \in Int /\ worker[w].first \in BOOLEAN
  BY DEF Types, WorkersTyped, Typed
<1>3. cursor # None => cursor.to \in Int
  BY DEF Types, TableTyped
<1> QED
  BY <1>1, <1>2, <1>3

LEMMA TimesKept ==
  ASSUME Types, Shapes, Times, NEW w \in Workers, Moves(w), Types'
  PROVE  Times'
<1>1. clock' = clock /\ \A v \in Workers : v # w => worker'[v] = worker[v]
  BY ClockStays
<1>2. ASSUME NEW v \in Workers, Asks(v)'
      PROVE  /\ worker'[v].to <= clock
             /\ ~worker'[v].first => worker'[v].from <= clock
  <2>1. CASE Asks(v) /\ worker'[v].to = worker[v].to /\ worker'[v].from = worker[v].from
                     /\ worker'[v].first = worker[v].first
    BY <2>1 DEF Times
  <2>2. CASE /\ worker'[v].to <= clock /\ worker'[v].from = From(worker'[v].to)
             /\ worker'[v].first = (cursor = None)
    BY <2>2 DEF From, Times
  <2> QED
    BY <1>2, <2>1, <2>2, AsksBefore
<1>3. ASSUME NEW v \in Workers, Live(v)'
      PROVE  worker'[v].since <= clock
  <2>1. CASE v # w
    BY <1>1, <1>3, <2>1 DEF Times, Live
  <2>2. CASE v = w /\ (Works(w) \/ Saves(w))
    BY <2>2, GoingOn DEF SameRun, Times
  <2>3. CASE v = w /\ Starts(w)
    BY <2>3, Numbers DEF Starts, Began
  <2> QED
    BY <1>3, <2>1, <2>2, <2>3, RestsIsOver DEF Moves, Stops, Chooses, Closes, Live
<1>4. ASSUME NEW v \in Workers, Live(v)', Asks(v)'
      PROVE  worker'[v].to <= worker'[v].since
  <2>1. CASE v # w
    BY <1>1, <1>4, <2>1 DEF Times, Live, Asks
  <2>2. CASE v = w /\ (Works(w) \/ Saves(w))
    BY <1>4, <2>2, GoingOn DEF SameRun, Times, Asks
  <2>3. CASE v = w /\ Starts(w)
    BY <1>2, <1>4, <2>3 DEF Starts, Began
  <2> QED
    BY <1>4, <2>1, <2>2, <2>3, RestsIsOver DEF Moves, Stops, Chooses, Closes, Live
<1>5. cursor' # None => cursor'.to <= clock
  <2>1. CASE cursor' = cursor
    BY <2>1 DEF Times
  <2>2. CASE /\ Closes(w) /\ worker[w].job = "nvd"
             /\ cursor' = [since |-> worker[w].since, to |-> worker[w].to]
    <3>1. Asks(w) /\ cursor'.to = worker[w].to
      BY <2>2 DEF Asks, Live, Closes
    <3> QED
      BY <3>1 DEF Times
  <2> QED
    BY <2>1, <2>2 DEF Moves, Stops, Chooses, Starts, Works, Saves, Closes, GoesOn, Quiet
<1> QED
  BY <1>1, <1>2, <1>3, <1>4, <1>5 DEF Times

---------------------------------------------------------------------------
(* The locks.                                                              *)

LEMMA AloneKept ==
  ASSUME Types, Alone, NEW w \in Workers, Moves(w), ~overtaken'
  PROVE  Alone'
<1> SUFFICES ASSUME NEW v \in Workers, Live(v)'
             PROVE  lock'[Source(worker'[v].job)]
                      = [owner |-> v, since |-> worker'[v].since]
  BY DEF Alone
<1>1. DOMAIN lock = Sources /\ \A j \in Jobs : Source(j) \in Sources
  BY DEF Types, TableTyped, Source, Sources
<1>2. worker[w].job \in Jobs /\ worker[v].job \in Jobs
  BY DEF Types, WorkersTyped, Typed
<1>3. CASE v # w
  <2>1. worker'[v] = worker[v]
    BY <1>3, ClockStays
  <2> DEFINE s == Source(worker[v].job)
             row == [owner |-> v, since |-> worker[v].since]
  <2>2. lock[s] = row
    BY <2>1 DEF Alone, Live
  <2>3. s \in Sources /\ row.owner = v /\ row # None
    BY <1>1, <1>2 DEF None
  <2> HIDE DEF s, row
  <2>4. ASSUME lock' = lock PROVE lock'[s] = row
    BY <2>2, <2>4
  <2>5. ASSUME lock' = Unlock(w) PROVE lock'[s] = row
    <3>1. lock[s] # [owner |-> w, since |-> worker[w].since]
      BY <1>3, <2>2, <2>3
    <3> QED
      BY <1>1, <2>2, <2>3, <2>5, <3>1 DEF Unlock
  <2>6. ASSUME lock' = Lost(w) PROVE lock'[s] = row
    BY <1>1, <1>3, <2>2, <2>3, <2>6 DEF Lost
  <2>7. ASSUME Took(w, Source(worker[w].job)) PROVE lock'[s] = row
    <3>1. s # Source(worker[w].job)
      BY <2>2, <2>3, <2>7 DEF Took
    <3> QED
      BY <1>1, <2>2, <2>3, <2>7, <3>1 DEF Took
  <2>8. lock'[s] = row
    BY <2>2, <2>4, <2>5, <2>6, <2>7
    DEF Moves, Stops, Chooses, Starts, Works, Saves, Closes, GoesOn, Quiet
  <2> QED
    BY <2>1, <2>8 DEF s, row
<1>4. CASE v = w
  <2>1. ~Rests(worker'[w]) /\ ~Chooses(w)
    BY <1>4, RestsIsOver DEF Chooses, Live
  <2>2. CASE Works(w) \/ Saves(w)
    <3>1. lock' = lock
      BY <2>2 DEF Works, Saves, GoesOn, Quiet
    <3> QED
      BY <1>4, <2>2, <3>1, GoingOn DEF Alone, SameRun
  <2>3. CASE Starts(w)
    <3>1. /\ worker'[w].job = worker[w].job /\ worker'[w].since = clock
          /\ lock' = [lock EXCEPT ![Source(worker[w].job)] = [owner |-> w, since |-> clock]]
      BY <2>3 DEF Starts, Began, Took
    <3> QED
      BY <1>1, <1>2, <1>4, <3>1
  <2> QED
    BY <2>1, <2>2, <2>3 DEF Moves, Stops, Closes
<1> QED
  BY <1>3, <1>4

\* Two runs that copy are one.
LEMMA OneCopies ==
  ASSUME Alone, NEW v \in Workers, NEW w \in Workers, Copies(v), Copies(w)
  PROVE  v = w
<1>1. Source(worker[v].job) = "nvd" /\ Source(worker[w].job) = "nvd"
  BY DEF Copies, Source
<1>2. [owner |-> v, since |-> worker[v].since] = [owner |-> w, since |-> worker[w].since]
  BY <1>1 DEF Alone, Copies
<1>3. [owner |-> v, since |-> worker[v].since].owner
        = [owner |-> w, since |-> worker[w].since].owner
  BY <1>2
<1> QED
  BY <1>3

LEMMA OrderedKept ==
  ASSUME Types, Shapes, Times, Alone, Ordered, NEW w \in Workers, Moves(w), Types', Times'
  PROVE  Ordered'
<1> SUFFICES ASSUME NEW v \in Workers, Copies(v)'
             PROVE  /\ cursor' # None => cursor'.to <= worker'[v].since
                    /\ \A u \in Workers : Asks(u)' /\ ~worker'[u].first
                                            => worker'[u].from <= worker'[v].since
  BY DEF Ordered
<1>1. clock' = clock
  BY ClockStays
<1>2. CASE v = w /\ Starts(w)
  <2>1. worker'[v].since = clock
    BY <1>2 DEF Starts, Began
  <2> QED
    BY <1>1, <2>1 DEF Times
<1>3. CASE Copies(v) /\ SameRun(worker'[v], worker[v])
  <2>1. cursor' = cursor
    <3>1. CASE Closes(w)
      <4>1. CASE cursor' # cursor
        <5>1. Copies(w)
          BY <3>1, <4>1 DEF Closes, Copies, Live
        <5>2. v = w
          BY <1>3, <5>1, OneCopies
        <5> QED
          BY <3>1, <5>2, RestsIsOver DEF Closes
      <4> QED
        BY <4>1
    <3> QED
      BY <3>1 DEF Moves, Stops, Chooses, Starts, Works, Saves, GoesOn, Quiet
  <2>2. worker'[v].since = worker[v].since
    BY <1>3 DEF SameRun
  <2>3. ASSUME NEW u \in Workers, Asks(u)', ~worker'[u].first
        PROVE  worker'[u].from <= worker[v].since
    <3>1. CASE Asks(u) /\ worker'[u].from = worker[u].from /\ worker'[u].first = worker[u].first
      BY <1>3, <2>3, <3>1 DEF Ordered
    <3>2. CASE worker'[u].from = From(worker'[u].to) /\ worker'[u].first = (cursor = None)
      BY <1>3, <2>3, <3>2 DEF Ordered, From
    <3> QED
      BY <2>3, <3>1, <3>2, AsksBefore
  <2> QED
    BY <1>3, <2>1, <2>2, <2>3 DEF Ordered
<1> QED
  BY <1>2, <1>3, CopiesBefore
---------------------------------------------------------------------------
(* What is stored.                                                         *)

\* Nothing else writes the catalogue.
LEMMA StoredStays ==
  ASSUME NEW w \in Workers, Moves(w), ~Saves(w)
  PROVE  stored' = stored
BY DEF Moves, Stops, Chooses, Starts, Works, Closes

LEMMA OneDone ==
  ASSUME Types, Shapes, NEW w \in Workers, NEW a \in worker[w].doing
  PROVE  /\ worker[w].doing = {a} /\ a.cve \in CVEs /\ a \in Held(w)
         /\ DOMAIN stored = CVEs
BY DEF Shapes, Shaped, Types, WorkersTyped, Typed, Entries, Held, CatalogueTyped

\* What is written is good, unless NVD has modified it meanwhile.
LEMMA Saved ==
  ASSUME Types, Shapes, Pages, Unknown, NEW w \in Workers, Copies(w),
         NEW a \in worker[w].doing, Writes(w, a), nvd' = nvd,
         nvd[a.cve].at < worker[w].since
  PROVE  Good(a.cve)'
<1> DEFINE c == a.cve
<1>1. a \in Held(w) /\ c \in CVEs /\ DOMAIN stored = CVEs
  BY OneDone
<1>2. worker[w].since \in Int /\ nvd[c] # None /\ nvd[c].at \in Int
  BY <1>1, Numbers DEF Pages
<1>3. nvd[c] = Advisory(a.at, a.rules)
  BY <1>1, <1>2 DEF Pages
<1>4. worker[w].job # "kev"
  BY DEF Copies
<1>5. CASE Ignored(w, a) /\ stored' = stored
  <2>1. ~a.rules /\ ~worker[w].exists
    BY <1>5 DEF Ignored
  <2>2. ~nvd[c].rules
    BY <1>3, <2>1 DEF Advisory
  <2>3. stored[c] = None \/ stored[c].at = 0
    BY <2>1 DEF Unknown
  <2> QED
    BY <1>5, <2>2, <2>3 DEF Good, Fine
<1>6. CASE stored' = [stored EXCEPT ![a.cve] = Advisory(a.at, a.rules)]
  BY <1>1, <1>3, <1>6 DEF Good, Fine
<1> QED
  BY <1>4, <1>5, <1>6 DEF Writes

\* What is good remains so, unless a run writes what NVD said before.
LEMMA GoodKept ==
  ASSUME Types, Shapes, Pages, NEW w \in Workers, Moves(w), NEW c \in CVEs,
         nvd[c] # None, Good(c), Copies(w) => nvd[c].at < worker[w].since
  PROVE  Good(c)'
<1>1. nvd' = nvd
  BY ClockStays
<1>2. CASE stored'[c] = stored[c]
  BY <1>1, <1>2 DEF Good
<1>3. CASE Saves(w)
  <2>1. PICK a \in worker[w].doing : Writes(w, a)
    BY <1>3 DEF Saves
  <2>2. a \in Held(w) /\ a.cve \in CVEs /\ DOMAIN stored = CVEs
    BY <2>1, OneDone
  <2>3. CASE Ignored(w, a) /\ stored' = stored
    BY <1>2, <2>3
  <2>4. CASE /\ worker[w].job = "kev" /\ ~Collides(w, a)
             /\ stored' = [stored EXCEPT ![a.cve] = IF worker[w].exists THEN stored[a.cve]
                                                    ELSE Advisory(0, FALSE)]
    <3>1. CASE a.cve # c \/ worker[w].exists
      BY <1>2, <2>2, <2>4, <3>1
    <3>2. CASE a.cve = c /\ ~worker[w].exists
      <4>1. stored[c] = None
        BY <2>4, <3>2 DEF Collides
      <4>2. ~nvd[c].rules
        BY <4>1 DEF Good, Fine
      <4>3. stored'[c] = Advisory(0, FALSE) /\ Advisory(0, FALSE).at = 0
        BY <2>2, <2>4, <3>2 DEF Advisory
      <4> QED
        BY <1>1, <4>2, <4>3 DEF Good, Fine
    <3> QED
      BY <3>1, <3>2
  <2>5. CASE /\ worker[w].job # "kev"
             /\ stored' = [stored EXCEPT ![a.cve] = Advisory(a.at, a.rules)]
    <3>1. CASE a.cve # c
      BY <1>2, <2>2, <2>5, <3>1
    <3>2. CASE a.cve = c
      <4>1. Copies(w)
        BY <1>3, <2>5, GoingOn DEF Copies
      <4>2. worker[w].since \in Int /\ nvd[c].at \in Int /\ nvd[c].at < worker[w].since
        BY <4>1, Numbers
      <4>3. nvd[c] = Advisory(a.at, a.rules)
        BY <2>2, <3>2, <4>1, <4>2 DEF Pages
      <4> QED
        BY <1>1, <2>2, <2>5, <3>2, <4>3 DEF Good, Fine
    <3> QED
      BY <3>1, <3>2
  <2> QED
    BY <2>1, <2>3, <2>4, <2>5 DEF Writes
<1> QED
  BY <1>2, <1>3, StoredStays

---------------------------------------------------------------------------
(* The pages.                                                              *)

LEMMA ReadSays ==
  ASSUME Types, NEW S \in SUBSET {c \in CVEs : nvd[c] # None}, NEW a \in Read(S)
  PROVE  a.cve \in S /\ nvd[a.cve] # None /\ nvd[a.cve] = Advisory(a.at, a.rules)
<1>1. PICK c \in S : a = [cve |-> c, at |-> nvd[c].at, rules |-> nvd[c].rules]
  BY DEF Read
<1>2. nvd[c] \in Advisories /\ nvd[c] # None
  BY DEF Types, FeedTyped
<1> QED
  BY <1>1, <1>2, Advised

LEMMA PagesKept ==
  ASSUME Types, Shapes, Pages, NEW w \in Workers, Moves(w)
  PROVE  Pages'
<1> SUFFICES ASSUME NEW v \in Workers, Copies(v)', NEW a \in Held(v)'
             PROVE  /\ nvd'[a.cve] # None
                    /\ \/ nvd'[a.cve] = Advisory(a.at, a.rules)
                       \/ nvd'[a.cve].at >= worker'[v].since
  BY DEF Pages
<1>1. nvd' = nvd
  BY ClockStays
<1>2. CASE v = w /\ Starts(w)
  <2>1. Held(v)' = {}
    BY <1>2 DEF Starts, Began, SamePage, Shapes, Shaped, Held
  <2> QED
    BY <2>1
<1>3. CASE Copies(v) /\ worker'[v].since = worker[v].since
  <2>1. CASE a \in Held(v)
    BY <1>1, <1>3, <2>1 DEF Pages
  <2>2. CASE a \notin Held(v)
    <3>1. v = w
      BY <2>2, ClockStays DEF Held
    <3>2. ~Rests(worker'[w]) /\ ~Chooses(w)
      BY <3>1, RestsIsOver DEF Chooses, Copies, Live
    <3>3. ~Saves(w)
      BY <2>2, <3>1 DEF Saves, Ends, Held
    <3>4. ~Starts(w)
      BY <1>3, <3>1 DEF Starts, Copies, Live
    <3>5. Works(w)
      BY <3>2, <3>3, <3>4 DEF Moves, Stops, Closes
    <3>6. /\ Fetched(worker'[w], worker[w])
          /\ FetchedWindow(worker'[w], worker[w]) \/ FetchedProduct(worker'[w], worker[w])
      BY <1>3, <2>2, <3>1, <3>5
      DEF Works, Halved, Begins, Ends, Turns, SamePage, FetchedKev, Copies, Held
    <3>7. worker'[w].doing = {}
      BY <3>6 DEF Fetched, Shapes, Shaped
    <3>8. PICK S \in SUBSET {c \in CVEs : nvd[c] # None} : a \in Read(S)
      <4>1. {c \in CVEs : Within(c, Head(worker[w].todo))}
              \in SUBSET {c \in CVEs : nvd[c] # None}
        BY DEF Within
      <4>2. a \in worker'[w].page
        BY <3>1, <3>7 DEF Held
      <4> QED
        BY <3>6, <4>1, <4>2 DEF FetchedWindow, FetchedProduct
    <3> QED
      BY <1>1, <3>8, ReadSays
  <2> QED
    BY <2>1, <2>2
<1> QED
  BY <1>2, <1>3, CopiesBefore DEF SameRun

LEMMA UnknownKept ==
  ASSUME Types, Shapes, Alone, Unknown, NEW w \in Workers, Moves(w)
  PROVE  Unknown'
<1> SUFFICES ASSUME NEW v \in Workers, Copies(v)', ~worker'[v].exists,
                    NEW a \in worker'[v].doing
             PROVE  stored'[a.cve] = None \/ stored'[a.cve].at = 0
  BY DEF Unknown
<1>1. CASE v = w
  <2>1. ~Rests(worker'[w]) /\ ~Chooses(w)
    BY <1>1, RestsIsOver DEF Chooses, Copies, Live
  <2>2. ~Starts(w) /\ ~Saves(w)
    BY <1>1 DEF Starts, Began, SamePage, Shapes, Shaped, Saves, Ends
  <2>3. Works(w)
    BY <2>1, <2>2 DEF Moves, Stops, Closes
  <2>4. stored' = stored /\ Copies(w)
    BY <1>1, <2>3, GoingOn DEF Works, Copies, SameRun
  <2>5. CASE worker[w].doing = worker'[w].doing /\ worker'[w].exists = worker[w].exists
    BY <1>1, <2>4, <2>5 DEF Unknown
  <2>6. CASE \E b \in worker[w].page : Begins(worker'[w], worker[w], b)
    BY <1>1, <2>4, <2>6 DEF Begins
  <2> QED
    BY <1>1, <2>3, <2>5, <2>6 DEF Works, Halved, Fetched, Ends, Turns, SamePage
<1>2. CASE v # w
  <2>1. Copies(v) /\ worker'[v] = worker[v]
    BY <1>2, ClockStays DEF Copies, Live
  <2>2. stored[a.cve] = None \/ stored[a.cve].at = 0
    BY <2>1 DEF Unknown
  <2>3. CASE Saves(w)
    <3>1. PICK b \in worker[w].doing : Writes(w, b)
      BY <2>3 DEF Saves
    <3>2. b.cve \in CVEs /\ DOMAIN stored = CVEs
      BY <3>1, OneDone
    <3>3. worker[w].job = "kev"
      BY <1>2, <2>1, <2>3, GoingOn, OneCopies DEF Copies
    <3>4. Advisory(0, FALSE).at = 0
      BY DEF Advisory
    <3>5. CASE stored' = stored
      BY <2>2, <3>5
    <3>6. CASE stored' = [stored EXCEPT ![b.cve] = IF worker[w].exists THEN stored[b.cve]
                                                   ELSE Advisory(0, FALSE)]
      <4>1. a.cve \in CVEs
        BY <2>1, OneDone
      <4>2. CASE a.cve # b.cve \/ worker[w].exists
        BY <2>2, <3>2, <3>6, <4>1, <4>2
      <4>3. CASE a.cve = b.cve /\ ~worker[w].exists
        BY <3>2, <3>4, <3>6, <4>3
      <4> QED
        BY <4>2, <4>3
    <3> QED
      BY <3>1, <3>3, <3>5, <3>6 DEF Writes
  <2>4. CASE ~Saves(w)
    BY <2>2, <2>4, StoredStays
  <2> QED
    BY <2>3, <2>4
<1> QED
  BY <1>1, <1>2
---------------------------------------------------------------------------
(* What is seen, and what is still to be asked.                            *)

\* A run ends its advisory with the row stored.
LEMMA SavedOne ==
  ASSUME Types, Shapes, Pages, Unknown, NEW w \in Workers, Copies(w), Saves(w),
         NEW a \in worker[w].doing, nvd[a.cve].at < worker[w].since
  PROVE  Good(a.cve)'
<1>1. PICK b \in worker[w].doing : Writes(w, b)
  BY DEF Saves
<1>2. a = b
  BY <1>1, OneDone
<1>3. nvd' = nvd
  BY DEF Saves, GoesOn, Quiet
<1> QED
  BY <1>1, <1>2, <1>3, Saved

\* Where a run of another worker, or another run, is not concerned.
LEMMA HeldStays ==
  ASSUME NEW w \in Workers, Moves(w), NEW v \in Workers, v # w
  PROVE  /\ worker'[v] = worker[v] /\ Held(v)' = Held(v)
         /\ Copies(v)' = Copies(v)
BY ClockStays DEF Held, Copies, Live

\* What a run that goes on does with its page.
LEMMA PageTurns ==
  ASSUME Types, Shapes, NEW w \in Workers, Works(w), Copies(w)
  PROVE  /\ stored' = stored
         /\ \/ /\ Halved(worker'[w], worker[w]) \/ Turns(worker'[w], worker[w])
               /\ SamePage(worker'[w], worker[w]) /\ Held(w)' = Held(w)
            \/ /\ \E a \in worker[w].page : Begins(worker'[w], worker[w], a)
               /\ Held(w)' = Held(w) /\ worker'[w].todo = worker[w].todo
            \/ worker'[w].failed
            \/ /\ Held(w) = {} /\ ~worker[w].failed /\ worker'[w].seen = worker[w].seen
               /\ FetchedProduct(worker'[w], worker[w])
            \/ /\ Held(w) = {} /\ ~worker[w].failed /\ worker'[w].seen = worker[w].seen
               /\ FetchedWindow(worker'[w], worker[w]) /\ worker[w].todo # <<>>
<1>1. stored' = stored
  BY DEF Works
<1>2. CASE Halved(worker'[w], worker[w]) \/ Turns(worker'[w], worker[w])
  BY <1>1, <1>2 DEF Halved, Turns, SamePage, Held
<1>3. CASE \E a \in worker[w].page : Begins(worker'[w], worker[w], a)
  BY <1>1, <1>3 DEF Begins, Held
<1>4. CASE worker'[w].failed = TRUE
  BY <1>1, <1>4
<1>5. CASE Fetched(worker'[w], worker[w])
           /\ (FetchedWindow(worker'[w], worker[w]) \/ FetchedProduct(worker'[w], worker[w]))
  <2>1. Held(w) = {} /\ ~worker[w].failed
    BY <1>5 DEF Fetched, Shapes, Shaped, Held
  <2>2. FetchedWindow(worker'[w], worker[w]) => worker[w].todo # <<>>
    BY <1>5 DEF Fetched, FetchedWindow, Shapes, Shaped
  <2> QED
    BY <1>1, <1>5, <2>1, <2>2 DEF FetchedWindow, FetchedProduct
<1> QED
  BY <1>2, <1>3, <1>4, <1>5 DEF Works, FetchedKev, Copies

LEMMA SeenKept ==
  ASSUME Types, Shapes, Alone, Pages, Unknown, Seen, NEW w \in Workers, Moves(w), Types'
  PROVE  Seen'
<1> SUFFICES ASSUME NEW v \in Workers, Copies(v)', NEW c \in worker'[v].seen,
                    nvd'[c] # None, nvd'[c].at < worker'[v].since
             PROVE  Good(c)' \/ worker'[v].failed \/ \E a \in Held(v)' : a.cve = c
  BY DEF Seen
<1>1. nvd' = nvd
  BY ClockStays
<1>2. c \in CVEs
  BY DEF Types, WorkersTyped, Typed
<1>3. CASE v = w /\ Starts(w)
  BY <1>3 DEF Starts, Began, SamePage, Shapes, Shaped
<1>4. CASE Copies(v) /\ worker'[v].since = worker[v].since
  <2>1. ASSUME Good(c) PROVE Good(c)'
    <3>1. Copies(w) => v = w
      BY <1>4, OneCopies
    <3> QED
      BY <1>1, <1>2, <1>4, <2>1, <3>1, GoodKept
  <2>2. ASSUME c \in worker[v].seen
        PROVE  Good(c) \/ worker[v].failed \/ \E a \in Held(v) : a.cve = c
    BY <1>1, <1>4, <2>2 DEF Seen
  <2>3. CASE v # w
    BY <2>1, <2>2, <2>3, HeldStays
  <2>4. CASE v = w
    <3>1. ~Rests(worker'[w]) /\ ~Chooses(w) /\ ~Starts(w)
      BY <1>4, <2>4, RestsIsOver DEF Chooses, Starts, Copies, Live
    <3>2. CASE Works(w)
      <4>1. CASE SamePage(worker'[w], worker[w]) /\ Held(w)' = Held(w)
        BY <2>1, <2>2, <2>4, <4>1 DEF SamePage
      <4>2. CASE /\ \E a \in worker[w].page : Begins(worker'[w], worker[w], a)
                 /\ Held(w)' = Held(w)
        <5>1. PICK a \in worker[w].page : Begins(worker'[w], worker[w], a)
          BY <4>2
        <5>2. CASE c = a.cve
          BY <2>4, <4>2, <5>1, <5>2 DEF Held
        <5>3. CASE c # a.cve
          <6>1. c \in worker[w].seen /\ worker'[w].failed = worker[w].failed
            BY <2>4, <5>1, <5>3 DEF Begins
          <6> QED
            BY <2>1, <2>2, <2>4, <4>2, <6>1
        <5> QED
          BY <5>2, <5>3
      <4>3. CASE worker'[w].failed
        BY <2>4, <4>3
      <4>4. CASE Held(w) = {} /\ ~worker[w].failed /\ worker'[w].seen = worker[w].seen
        BY <2>1, <2>2, <2>4, <4>4
      <4> QED
        BY <1>4, <2>4, <3>2, <4>1, <4>2, <4>3, <4>4, PageTurns
    <3>3. CASE Saves(w)
      <4>1. /\ worker'[w].seen = worker[w].seen /\ worker'[w].failed = worker[w].failed
            /\ worker'[w].page = worker[w].page
        BY <3>3 DEF Saves, Ends
      <4>2. ASSUME NEW a \in Held(w), a.cve = c
            PROVE  Good(c)' \/ \E b \in Held(w)' : b.cve = c
        <5>1. CASE a \in worker[w].page
          BY <4>1, <4>2, <5>1 DEF Held
        <5>2. CASE a \in worker[w].doing
          BY <1>1, <1>4, <2>4, <3>3, <4>2, <5>2, SavedOne
        <5> QED
          BY <5>1, <5>2 DEF Held
      <4> QED
        BY <2>1, <2>2, <2>4, <4>1, <4>2
    <3> QED
      BY <3>1, <3>2, <3>3 DEF Moves, Stops, Closes
  <2> QED
    BY <2>3, <2>4
<1> QED
  BY <1>3, <1>4, CopiesBefore DEF SameRun

\* An instant of a window is in one of its halves.
LEMMA HalvesCover ==
  ASSUME NEW todo \in Seq(Windows), todo # <<>>, NEW c \in CVEs, Types, nvd[c] # None,
         NEW i \in DOMAIN todo, Within(c, todo[i])
  PROVE  \E j \in DOMAIN (Halves(Head(todo)) \o Tail(todo)) :
            Within(c, (Halves(Head(todo)) \o Tail(todo))[j])
<1> DEFINE f == Head(todo).from
           t == Head(todo).to
           mid == f + (t - f) \div 2
           p == <<[from |-> f, to |-> mid], [from |-> mid, to |-> t]>>
           q == Tail(todo)
<1>1. Head(todo) \in Windows
  OBVIOUS
<1>2. f \in Int /\ t \in Int
  BY <1>1 DEF Windows
<1>3. mid \in Int
  <2>1. (t - f) \div 2 \in Int
    <3> HIDE DEF f, t
    <3> DEFINE d == t - f
    <3>1. d \in Int
      BY <1>2
    <3> HIDE DEF d
    <3>2. d \div 2 \in Int
      BY <3>1
    <3> QED
      BY <3>2 DEF d
  <2> HIDE DEF f, t
  <2> QED
    BY <1>2, <2>1
<1>4. Halves(Head(todo)) = p
  BY DEF Halves, Width
<1>5. nvd[c].at \in Int
  BY Numbers
<1>6. p[1].from = f /\ p[1].to = mid /\ p[2].from = mid /\ p[2].to = t /\ Len(p) = 2
  OBVIOUS
<1>7. p \in Seq(Windows)
  <2> HIDE DEF f, t, mid
  <2>1. [from |-> f, to |-> mid] \in Windows /\ [from |-> mid, to |-> t] \in Windows
    BY <1>2, <1>3 DEF Windows
  <2>2. ASSUME NEW x \in Windows, NEW y \in Windows PROVE <<x, y>> \in Seq(Windows)
    OBVIOUS
  <2> QED
    BY <2>1, <2>2
<1>8. q \in Seq(Windows) /\ Len(q) = Len(todo) - 1 /\ todo[1] = Head(todo)
      /\ \A j \in 2..Len(todo) : q[j - 1] = todo[j]
  OBVIOUS
<1>9. i \in 1..Len(todo) /\ Len(todo) \in Nat
  OBVIOUS
<1> HIDE DEF p, q, mid
<1>10. /\ Len(p \o q) = 2 + Len(q) /\ DOMAIN (p \o q) = 1..Len(p \o q)
       /\ (p \o q)[1] = p[1] /\ (p \o q)[2] = p[2]
       /\ \A j \in 1..Len(q) : (p \o q)[j + 2] = q[j]
  <2>1. ASSUME NEW x \in Seq(Windows), NEW y \in Seq(Windows), Len(x) = 2
        PROVE  /\ Len(x \o y) = 2 + Len(y) /\ DOMAIN (x \o y) = 1..Len(x \o y)
               /\ (x \o y)[1] = x[1] /\ (x \o y)[2] = x[2]
               /\ \A j \in 1..Len(y) : (x \o y)[j + 2] = y[j]
    <3>1. x \o y \in Seq(Windows) /\ Len(x \o y) = 2 + Len(y) /\ Len(y) \in Nat
      <4>1. x \o y \in Seq(Windows)
        OBVIOUS
      <4>2. Len(x \o y) = Len(x) + Len(y) /\ Len(y) \in Nat
        OBVIOUS
      <4> QED
        BY <2>1, <4>1, <4>2
    <3>2. DOMAIN (x \o y) = 1..Len(x \o y)
      BY <3>1
    <3>3. (x \o y)[1] = x[1] /\ (x \o y)[2] = x[2]
      BY <2>1, <3>1
    <3>4. ASSUME NEW j \in 1..Len(y) PROVE (x \o y)[j + 2] = y[j]
      BY <2>1, <3>1
    <3> QED
      BY <3>1, <3>2, <3>3, <3>4
  <2> QED
    BY <1>6, <1>7, <1>8, <2>1
<1>11. Len(q) \in Nat
  BY <1>8
<1>12. CASE i = 1
  <2>1. f <= nvd[c].at /\ nvd[c].at <= t
    BY <1>8, <1>12 DEF Within
  <2> HIDE DEF f, t
  <2>2. Within(c, p[1]) \/ Within(c, p[2])
    BY <1>2, <1>3, <1>5, <1>6, <2>1 DEF Within
  <2>3. 1 \in 1..(2 + Len(q)) /\ 2 \in 1..(2 + Len(q))
    BY <1>11
  <2> QED
    BY <1>4, <1>10, <2>2, <2>3 DEF q
<1>13. CASE i # 1
  <2>1. i - 1 \in 1..Len(q) /\ q[i - 1] = todo[i]
    BY <1>8, <1>9, <1>13
  <2>2. (p \o q)[(i - 1) + 2] = todo[i] /\ (i - 1) + 2 \in 1..(2 + Len(q))
    BY <1>9, <1>10, <1>11, <2>1
  <2> QED
    BY <1>4, <1>10, <2>2 DEF q
<1> QED
  BY <1>12, <1>13
LEMMA SpannedKept ==
  ASSUME Types, Shapes, Times, Alone, Pages, Unknown, Seen, Spanned,
         NEW w \in Workers, Moves(w), Types', Times'
  PROVE  Spanned'
<1> SUFFICES ASSUME NEW v \in Workers, Copies(v)', worker'[v].job = "nvd", NEW c \in CVEs,
                    nvd'[c] # None, worker'[v].from <= nvd'[c].at, nvd'[c].at < worker'[v].to
             PROVE  \/ Good(c)' \/ worker'[v].failed \/ \E a \in Held(v)' : a.cve = c
                    \/ Asked(c, worker'[v].todo)
  <2>1. nvd' = nvd
    BY ClockStays
  <2>2. ASSUME NEW v \in Workers, NEW c \in CVEs, Asked(c, worker'[v].todo)
        PROVE  Asked(c, worker[v].todo)'
    BY <2>1, <2>2 DEF Asked, Within
  <2> QED
    BY <2>2 DEF Spanned
<1>1. nvd' = nvd
  BY ClockStays
<1>2. nvd[c].at \in Int
  BY <1>1, Numbers
<1>3. CASE v = w /\ Starts(w)
  <2>1. worker'[w].todo = <<Window(w)>> /\ worker'[w].from = worker[w].from
        /\ worker'[w].to = worker[w].to
    BY <1>3 DEF Starts, Began
  <2>2. worker[w].from \in Int /\ worker[w].to \in Int
    BY Numbers
  <2>3. Within(c, Window(w))
    BY <1>1, <1>2, <1>3, <2>1, <2>2 DEF Within, Window
  <2>4. 1 \in DOMAIN worker'[w].todo /\ worker'[w].todo[1] = Window(w)
    BY <2>1
  <2> QED
    BY <1>3, <2>3, <2>4 DEF Asked
<1>4. CASE Copies(v) /\ SameRun(worker'[v], worker[v])
  <2>1. /\ worker[v].job = "nvd" /\ worker[v].from <= nvd[c].at /\ nvd[c].at < worker[v].to
        /\ nvd[c] # None /\ worker'[v].since = worker[v].since
    BY <1>1, <1>4 DEF SameRun
  <2>2. nvd[c].at < worker[v].since
    <3>1. worker[v].to <= worker[v].since
      BY <1>4, <2>1 DEF Copies, Asks, Times
    <3> QED
      BY <1>2, <2>1, <3>1, Numbers
  <2>3. ASSUME Good(c) PROVE Good(c)'
    <3>1. Copies(w) => v = w
      BY <1>4, OneCopies
    <3> QED
      BY <2>1, <2>2, <2>3, <3>1, GoodKept
  <2>4. \/ Good(c) \/ worker[v].failed \/ \E a \in Held(v) : a.cve = c
        \/ Asked(c, worker[v].todo)
    BY <1>4, <2>1 DEF Spanned
  <2>5. CASE v # w
    BY <2>3, <2>4, <2>5, HeldStays
  <2>6. CASE v = w /\ Works(w)
    <3>1. CASE Turns(worker'[w], worker[w]) /\ SamePage(worker'[w], worker[w])
               /\ Held(w)' = Held(w)
      BY <2>3, <2>4, <2>6, <3>1 DEF Turns, SamePage
    <3>2. CASE Halved(worker'[w], worker[w]) /\ SamePage(worker'[w], worker[w])
               /\ Held(w)' = Held(w)
      <4>1. /\ worker[w].todo \in Seq(Windows) /\ worker[w].todo # <<>>
            /\ worker'[w].todo = Halves(Head(worker[w].todo)) \o Tail(worker[w].todo)
        BY <3>2 DEF Halved, Types, WorkersTyped, Typed, Shapes, Shaped
      <4>2. ASSUME NEW i \in DOMAIN worker[w].todo, Within(c, worker[w].todo[i])
            PROVE  Asked(c, worker'[w].todo)
        BY <2>1, <4>1, <4>2, HalvesCover DEF Asked
      <4>3. Asked(c, worker[w].todo) => Asked(c, worker'[w].todo)
        BY <4>2 DEF Asked
      <4> QED
        BY <2>3, <2>4, <2>6, <3>2, <4>3 DEF SamePage
    <3>3. CASE /\ \E a \in worker[w].page : Begins(worker'[w], worker[w], a)
               /\ Held(w)' = Held(w) /\ worker'[w].todo = worker[w].todo
      <4>1. worker'[w].failed = worker[w].failed
        BY <3>3 DEF Begins
      <4> QED
        BY <2>3, <2>4, <2>6, <3>3, <4>1
    <3>4. CASE worker'[w].failed
      BY <2>6, <3>4
    <3>5. CASE FetchedProduct(worker'[w], worker[w])
      BY <2>1, <2>6, <3>5 DEF FetchedProduct
    <3>6. CASE /\ Held(w) = {} /\ ~worker[w].failed /\ worker'[w].seen = worker[w].seen
               /\ FetchedWindow(worker'[w], worker[w]) /\ worker[w].todo # <<>>
      <4>1. /\ worker[w].todo \in Seq(Windows) /\ worker'[w].todo = Tail(worker[w].todo)
            /\ worker'[w].page = {a \in Read({d \in CVEs : Within(d, Head(worker[w].todo))}) :
                                    a.cve \notin worker[w].seen}
        BY <3>6 DEF FetchedWindow, Types, WorkersTyped, Typed
      <4>2. CASE Good(c)
        BY <2>3, <4>2
      <4>3. ASSUME NEW i \in DOMAIN worker[w].todo, Within(c, worker[w].todo[i]), ~Good(c)
            PROVE  (\E a \in Held(w)' : a.cve = c) \/ Asked(c, worker'[w].todo)
        <5>1. CASE i = 1
          <6>1. c \notin worker[w].seen
            BY <1>4, <2>1, <2>2, <2>6, <3>6, <4>3 DEF Seen
          <6>2. Within(c, Head(worker[w].todo))
            BY <3>6, <4>1, <4>3, <5>1
          <6>3. [cve |-> c, at |-> nvd[c].at, rules |-> nvd[c].rules] \in worker'[w].page
            BY <4>1, <6>1, <6>2 DEF Read
          <6> QED
            BY <6>3 DEF Held
        <5>2. CASE i # 1
          <6>1. i \in 2..Len(worker[w].todo) /\ Len(worker[w].todo) \in Nat
            BY <4>1, <4>3, <5>2
          <6>2. /\ i - 1 \in DOMAIN Tail(worker[w].todo)
                /\ Tail(worker[w].todo)[i - 1] = worker[w].todo[i]
            BY <3>6, <4>1, <6>1
          <6> QED
            BY <4>1, <4>3, <6>2 DEF Asked
        <5> QED
          BY <5>1, <5>2
      <4> QED
        BY <2>4, <2>6, <3>6, <4>2, <4>3 DEF Asked
    <3> QED
      BY <1>4, <2>6, <3>1, <3>2, <3>3, <3>4, <3>5, <3>6, PageTurns
  <2>7. CASE v = w /\ Saves(w)
    <3>1. /\ worker'[w].failed = worker[w].failed /\ worker'[w].page = worker[w].page
          /\ worker'[w].todo = worker[w].todo
      BY <2>7 DEF Saves, Ends
    <3>2. ASSUME NEW a \in Held(w), a.cve = c
          PROVE  Good(c)' \/ \E b \in Held(w)' : b.cve = c
      <4>1. CASE a \in worker[w].page
        BY <3>1, <3>2, <4>1 DEF Held
      <4>2. CASE a \in worker[w].doing
        BY <1>4, <2>2, <2>7, <3>2, <4>2, SavedOne
      <4> QED
        BY <4>1, <4>2 DEF Held
    <3> QED
      BY <2>3, <2>4, <2>7, <3>1, <3>2
  <2>8. v = w => Works(w) \/ Saves(w)
    <3>1. CASE v = w
      <4>1. ~Rests(worker'[w]) /\ ~Chooses(w) /\ ~Starts(w)
        BY <1>4, <3>1, RestsIsOver DEF Chooses, Starts, Copies, Live
      <4> QED
        BY <4>1 DEF Moves, Stops, Closes
    <3> QED
      BY <3>1
  <2> QED
    BY <2>5, <2>6, <2>7, <2>8
<1> QED
  BY <1>3, <1>4, CopiesBefore

---------------------------------------------------------------------------
(* What the cursor covers.                                                 *)

LEMMA CoveredKept ==
  ASSUME Types, Shapes, Pages, NEW w \in Workers, Moves(w), NEW t \in Int, Covered(t),
         Copies(w) => t <= worker[w].since, Types'
  PROVE  Covered(t)'
<1> SUFFICES ASSUME NEW c \in CVEs, nvd'[c] # None, \A o \in origins' : nvd'[c].at >= o,
                    nvd'[c].at < t
             PROVE  Good(c)'
  BY DEF Covered
<1>1. nvd' = nvd /\ origins \subseteq origins'
  BY ClockStays
<1>2. Good(c) /\ nvd[c].at \in Int
  BY <1>1, Numbers DEF Covered
<1>3. Copies(w) => nvd[c].at < worker[w].since
  BY <1>1, <1>2, Numbers
<1> QED
  BY <1>1, <1>2, <1>3, GoodKept

\* A run that closes has stored all its window, and what was before it.
LEMMA CloseCovers ==
  ASSUME Types, Shapes, Times, Spanned, Covers, NEW w \in Workers, Closes(w),
         worker[w].job = "nvd", NEW t, t = worker[w].to
  PROVE  Covered(t)'
<1> SUFFICES ASSUME NEW c \in CVEs, nvd'[c] # None, \A o \in origins' : nvd'[c].at >= o,
                    nvd'[c].at < t
             PROVE  Good(c)'
  BY DEF Covered
<1>1. nvd' = nvd /\ stored' = stored /\ worker[w].pc = "correlate"
      /\ origins' = IF worker[w].first THEN origins \cup {worker[w].from} ELSE origins
  BY DEF Closes
<1>2. Copies(w) /\ Asks(w)
  BY <1>1 DEF Copies, Asks, Live
<1>3. /\ ~worker[w].failed /\ Held(w) = {} /\ worker[w].todo = <<>>
  BY <1>1 DEF Shapes, Shaped, Held
<1>4. DOMAIN worker[w].todo = {}
  BY <1>3
<1>5. nvd[c].at \in Int /\ worker[w].from \in Int
  BY <1>1, Numbers
<1>6. CASE worker[w].from <= nvd[c].at
  <2>1. Good(c)
    BY <1>1, <1>2, <1>3, <1>4, <1>6 DEF Spanned, Asked
  <2> QED
    BY <1>1, <2>1 DEF Good
<1>7. CASE nvd[c].at < worker[w].from
  <2>1. ~worker[w].first
    BY <1>1, <1>5, <1>7
  <2>2. Good(c)
    BY <1>1, <1>2, <1>7, <2>1 DEF Covers, Covered
  <2> QED
    BY <1>1, <2>2 DEF Good
<1> QED
  BY <1>5, <1>6, <1>7

LEMMA CoversKept ==
  ASSUME Types, Shapes, Times, Ordered, Pages, Spanned, Covers, NEW w \in Workers, Moves(w),
         Types'
  PROVE  Covers'
<1>1. ASSUME cursor # None, NEW t, t = cursor.to
      PROVE  Covered(t)'
  <2>1. t \in Int /\ Covered(t)
    BY <1>1, Numbers DEF Covers
  <2>2. Copies(w) => t <= worker[w].since
    BY <1>1 DEF Ordered
  <2> QED
    BY <2>1, <2>2, CoveredKept
<1>2. ASSUME cursor' # None, NEW t, t = cursor'.to
      PROVE  Covered(t)'
  <2>1. CASE cursor' = cursor
    BY <1>1, <1>2, <2>1
  <2>2. CASE /\ Closes(w) /\ worker[w].job = "nvd"
             /\ cursor' = [since |-> worker[w].since, to |-> worker[w].to]
    <3>1. t = worker[w].to
      BY <1>2, <2>2
    <3> QED
      BY <2>2, <3>1, CloseCovers
  <2> QED
    BY <2>1, <2>2 DEF Moves, Stops, Chooses, Starts, Works, Saves, Closes, GoesOn, Quiet
<1>3. ASSUME NEW v \in Workers, Asks(v)', ~worker'[v].first, NEW t, t = worker'[v].from
      PROVE  Covered(t)'
  <2>1. CASE Asks(v) /\ worker'[v].from = worker[v].from /\ worker'[v].first = worker[v].first
    <3>1. t \in Int /\ Covered(t)
      BY <1>3, <2>1, Numbers DEF Covers
    <3>2. Copies(w) => t <= worker[w].since
      BY <1>3, <2>1 DEF Ordered
    <3> QED
      BY <3>1, <3>2, CoveredKept
  <2>2. CASE worker'[v].from = From(worker'[v].to) /\ worker'[v].first = (cursor = None)
    <3>1. cursor # None /\ t = cursor.to
      BY <1>3, <2>2 DEF From
    <3> QED
      BY <1>1, <3>1
  <2> QED
    BY <1>3, <2>1, <2>2, AsksBefore
<1>4. (cursor # None => Covered(cursor.to))'
  BY <1>2 DEF Covered
<1>5. ASSUME NEW v \in Workers, Asks(v)', ~worker'[v].first
      PROVE  Covered(worker[v].from)'
  BY <1>3, <1>5 DEF Covered
<1> QED
  BY <1>4, <1>5 DEF Covers

---------------------------------------------------------------------------
(* The clock and NVD go on.                                                *)

LEMMA TickKeeps == ASSUME Inv, Tick PROVE Inv'
<1>1. /\ clock' = clock + 1 /\ clock < MaxClock
      /\ UNCHANGED <<nvd, stored, known, lock, cursor, fresh, worker, origins, overtaken>>
  BY DEF Tick
<1>2. Types' /\ Shapes'
  <2>1. FeedTyped'
    <3>1. /\ clock \in Nat /\ 1 <= clock /\ clock' \in Nat /\ 1 <= clock' /\ clock' <= MaxClock
      BY <1>1 DEF Inv, Types, FeedTyped, Sane
    <3>2. ASSUME NEW c \in CVEs, nvd[c] # None PROVE 1 <= nvd[c].at /\ nvd[c].at <= clock'
      <4>1. nvd[c].at \in Nat /\ 1 <= nvd[c].at /\ nvd[c].at <= clock
        BY <3>2, Advised DEF Inv, Types, FeedTyped
      <4> QED
        BY <1>1, <3>1, <4>1
    <3> QED
      BY <1>1, <3>1, <3>2 DEF Inv, Types, FeedTyped
  <2> QED
    BY <1>1, <2>1
    DEF Inv, Types, Sane, WorkersTyped, CatalogueTyped, TableTyped, Shapes
<1>3. Times'
  BY <1>1, <1>2, Numbers DEF Inv, Times, Asks, Live
<1>4. ~overtaken' => Undisturbed'
  BY <1>1 DEF Inv, Undisturbed, Alone, Ordered, Pages, Unknown, Seen, Spanned, Covers, Covered,
              Asks, Live, Copies, Held, Good, Within, Asked
<1> QED
  BY <1>2, <1>3, <1>4 DEF Inv

LEMMA PublishKeeps == ASSUME Inv, Publish PROVE Inv'
<1>1. UNCHANGED <<clock, stored, known, lock, cursor, fresh, worker, origins, overtaken>>
  BY DEF Publish
<1>2. PICK x \in CVEs, rules \in BOOLEAN : nvd' = [nvd EXCEPT ![x] = Advisory(clock, rules)]
  BY DEF Publish
<1>3. Types /\ clock \in Nat /\ DOMAIN nvd = CVEs
  BY DEF Inv, Types, FeedTyped
<1>4. /\ nvd'[x] = Advisory(clock, rules) /\ nvd'[x] # None /\ nvd'[x].at = clock
      /\ \A c \in CVEs : c # x => nvd'[c] = nvd[c]
  <2>1. Advisory(clock, rules) # None /\ Advisory(clock, rules).at = clock
    BY DEF Advisory, None
  <2> QED
    BY <1>2, <1>3, <2>1
<1>5. Types' /\ Shapes'
  <2>1. nvd' \in [CVEs -> {None} \cup Advisories]
    <3>1. Advisory(clock, rules) \in Advisories
      BY <1>3, Advised
    <3> QED
      BY <1>2, <1>3, <3>1 DEF Types, FeedTyped
  <2>2. FeedTyped'
    BY <1>1, <1>3, <1>4, <2>1 DEF Types, FeedTyped
  <2> QED
    BY <1>1, <2>2
    DEF Inv, Types, Sane, WorkersTyped, CatalogueTyped, TableTyped, Shapes
<1>6. Times'
  BY <1>1 DEF Inv, Times, Asks, Live
<1>7. ASSUME ~overtaken' PROVE Undisturbed'
  <2>1. Undisturbed /\ Times
    BY <1>1, <1>7 DEF Inv
  <2>2. \A w \in Workers : /\ Copies(w)' = Copies(w) /\ Held(w)' = Held(w)
                           /\ Asks(w)' = Asks(w) /\ Live(w)' = Live(w)
    BY <1>1 DEF Copies, Held, Asks, Live
  <2>3. \A w \in Workers : worker[w].since \in Int /\ worker[w].to \in Int /\ worker[w].from \in Int
    BY <1>3, Numbers
  <2>4. \A w \in Workers : Copies(w) => worker[w].since <= clock
    BY <2>1 DEF Copies, Times
  <2>5. Alone' /\ Ordered' /\ Unknown'
    BY <1>1, <2>1, <2>2 DEF Undisturbed, Alone, Ordered, Unknown
  <2>6. Pages'
    <3> SUFFICES ASSUME NEW w \in Workers, Copies(w), NEW a \in Held(w)
                 PROVE  /\ nvd'[a.cve] # None
                        /\ \/ nvd'[a.cve] = Advisory(a.at, a.rules)
                           \/ nvd'[a.cve].at >= worker[w].since
      BY <1>1, <2>2 DEF Pages
    <3>1. a.cve \in CVEs
      BY <1>3 DEF Held, Types, WorkersTyped, Typed, Entries
    <3>2. CASE a.cve = x
      BY <1>3, <1>4, <2>3, <2>4, <3>2
    <3>3. CASE a.cve # x
      BY <1>4, <2>1, <3>1, <3>3 DEF Undisturbed, Pages
    <3> QED
      BY <3>2, <3>3
  <2>7. \A c \in CVEs :
          c # x => /\ Good(c)' = Good(c)
                   /\ \A w \in Workers : Asked(c, worker[w].todo)' = Asked(c, worker[w].todo)
    BY <1>1, <1>4 DEF Good, Asked, Within
  <2>8. Seen'
    <3> SUFFICES ASSUME NEW w \in Workers, Copies(w), NEW c \in worker[w].seen,
                        nvd'[c] # None, nvd'[c].at < worker[w].since
                 PROVE  Good(c)' \/ worker[w].failed \/ \E a \in Held(w) : a.cve = c
      BY <1>1, <2>2 DEF Seen
    <3>1. c \in CVEs
      BY <1>3 DEF Types, WorkersTyped, Typed
    <3>2. c # x
      BY <1>3, <1>4, <2>3, <2>4
    <3> QED
      BY <1>4, <2>1, <2>7, <3>1, <3>2 DEF Undisturbed, Seen
  <2>9. Spanned'
    <3> SUFFICES ASSUME NEW w \in Workers, Copies(w), worker[w].job = "nvd", NEW c \in CVEs,
                        nvd'[c] # None, worker[w].from <= nvd'[c].at, nvd'[c].at < worker[w].to
                 PROVE  \/ Good(c)' \/ worker[w].failed \/ \E a \in Held(w) : a.cve = c
                        \/ Asked(c, worker[w].todo)'
      BY <1>1, <2>2 DEF Spanned
    <3>1. worker[w].to <= clock
      BY <2>1 DEF Times, Asks, Copies
    <3>2. c # x
      BY <1>3, <1>4, <2>3, <3>1
    <3> QED
      BY <1>4, <2>1, <2>7, <3>2 DEF Undisturbed, Spanned
  <2>10. ASSUME NEW t \in Int, t <= clock, Covered(t) PROVE Covered(t)'
    <3> SUFFICES ASSUME NEW c \in CVEs, nvd'[c] # None, \A o \in origins : nvd'[c].at >= o,
                        nvd'[c].at < t
                 PROVE  Good(c)'
      BY <1>1 DEF Covered
    <3>1. c # x
      BY <1>3, <1>4, <2>10
    <3> QED
      BY <1>4, <2>7, <2>10, <3>1 DEF Covered
  <2>11. (cursor # None => Covered(cursor.to))'
    <3> SUFFICES ASSUME cursor # None, NEW t, t = cursor.to PROVE Covered(t)'
      BY <1>1 DEF Covered
    <3> QED
      BY <1>3, <2>1, <2>10, Numbers DEF Undisturbed, Covers, Times
  <2>12. ASSUME NEW v \in Workers, Asks(v), ~worker[v].first
         PROVE  Covered(worker[v].from)'
    <3> SUFFICES ASSUME NEW t, t = worker[v].from PROVE Covered(t)'
      BY <1>1 DEF Covered
    <3> QED
      BY <1>3, <2>1, <2>3, <2>10, <2>12 DEF Undisturbed, Covers, Times
  <2>13. Covers'
    BY <1>1, <2>2, <2>11, <2>12 DEF Covers
  <2> QED
    BY <2>5, <2>6, <2>8, <2>9, <2>13 DEF Undisturbed
<1> QED
  BY <1>5, <1>6, <1>7 DEF Inv

---------------------------------------------------------------------------
(* The theorem.                                                            *)

LEMMA InvInit == ASSUME Sane, Init PROVE Inv
<1>1. /\ clock = 1 /\ nvd = [c \in CVEs |-> None] /\ stored = [c \in CVEs |-> None]
      /\ known = {} /\ lock = [s \in Sources |-> None] /\ cursor = None /\ fresh = None
      /\ worker = [w \in Workers |-> Idle] /\ origins = {} /\ overtaken = FALSE
  BY DEF Init
<1>2. \A w \in Workers : worker[w] = Idle
  BY <1>1
<1>3. Typed(Idle) /\ Shaped(Idle) /\ Idle.pc = "idle" /\ Rests(Idle)
  BY IdleRests, RestsTyped, RestsShaped DEF Idle
<1>4. WorkersTyped /\ Shapes
  BY <1>1, <1>2, <1>3 DEF WorkersTyped, Shapes
<1>5. FeedTyped
  BY <1>1 DEF FeedTyped, Sane
<1>6. CatalogueTyped
  BY <1>1 DEF CatalogueTyped
<1>7. TableTyped
  <2>1. overtaken \in BOOLEAN
    BY <1>1
  <2> QED
    BY <1>1, <2>1 DEF TableTyped
<1>8. \A w \in Workers : ~Live(w) /\ ~Asks(w) /\ ~Copies(w)
  BY <1>2, <1>3 DEF Live, Asks, Copies
<1>9. Times /\ Undisturbed
  BY <1>1, <1>8
  DEF Times, Undisturbed, Alone, Ordered, Pages, Unknown, Seen, Spanned, Covers
<1> QED
  BY <1>4, <1>5, <1>6, <1>7, <1>9 DEF Inv, Types

LEMMA InvKept == ASSUME Inv, [Next]_vars PROVE Inv'
<1>1. CASE Tick
  BY <1>1, TickKeeps
<1>2. CASE Publish
  BY <1>2, PublishKeeps
<1>3. ASSUME NEW w \in Workers, Step(w) PROVE Inv'
  <2>1. Types /\ Shapes /\ Times
    BY DEF Inv
  <2>2. Moves(w)
    BY <1>3, <2>1, StepCases DEF Moves
  <2>3. Types' /\ Shapes'
    BY <2>1, <2>2, TypesKept DEF Moves
  <2>4. Times'
    BY <2>1, <2>2, <2>3, TimesKept
  <2>5. ASSUME ~overtaken' PROVE Undisturbed'
    <3>1. Undisturbed
      BY <2>2, <2>5, ClockStays DEF Inv
    <3>2. Alone' /\ Ordered' /\ Pages' /\ Unknown'
      BY <2>1, <2>2, <2>3, <2>4, <2>5, <3>1, AloneKept, OrderedKept, PagesKept, UnknownKept
      DEF Undisturbed
    <3>3. Seen' /\ Spanned' /\ Covers'
      BY <2>1, <2>2, <2>3, <2>4, <3>1, SeenKept, SpannedKept, CoversKept DEF Undisturbed
    <3> QED
      BY <3>2, <3>3 DEF Undisturbed
  <2> QED
    BY <2>3, <2>4, <2>5 DEF Inv
<1>4. CASE UNCHANGED vars
  <2> USE <1>4 DEF vars
  <2>1. Types' /\ Shapes'
    BY DEF Inv, Types, Sane, WorkersTyped, FeedTyped, CatalogueTyped, TableTyped, Shapes
  <2>2. Times'
    BY DEF Inv, Times, Asks, Live
  <2>3. ~overtaken' => Undisturbed'
    BY DEF Inv, Undisturbed, Alone, Ordered, Pages, Unknown, Seen, Spanned, Covers, Covered,
           Asks, Live, Copies, Held, Good, Within, Asked
  <2> QED
    BY <2>1, <2>2, <2>3 DEF Inv
<1> QED
  BY <1>1, <1>2, <1>3, <1>4 DEF Next

LEMMA InvCovers == ASSUME Inv PROVE CursorLeavesNothingBehind
<1> SUFFICES ASSUME cursor # None, ~overtaken, NEW c \in CVEs, nvd[c] # None,
                    \A o \in origins : nvd[c].at >= o, nvd[c].at < cursor.to
             PROVE  \/ stored[c] = nvd[c]
                    \/ ~nvd[c].rules /\ (stored[c] = None \/ stored[c].at = 0)
  BY DEF CursorLeavesNothingBehind
<1>1. Good(c)
  BY DEF Inv, Undisturbed, Covers, Covered
<1> QED
  BY <1>1 DEF Good, Fine

\* The next window may begin where the last one ended: whatever was modified
\* before is stored, for any number of runs that fail, crash, split their
\* windows or wait for one another.
THEOREM CursorsLeaveNothingBehind ==
  ASSUME Sane PROVE Spec => []CursorLeavesNothingBehind
<1>1. Init => Inv
  BY InvInit
<1>2. Inv /\ [Next]_vars => Inv'
  BY InvKept
<1>3. Inv => CursorLeavesNothingBehind
  BY InvCovers
<1> QED
  BY <1>1, <1>2, <1>3, PTL DEF Spec

---------------------------------------------------------------------------
(* The type invariant: what is stored or read is no newer than the clock.  *)

Older(h) == \A a \in h.page \cup h.doing : a.at <= clock
Recent ==
  /\ \A c \in CVEs : stored[c] # None => stored[c].at <= clock
  /\ \A w \in Workers : Older(worker[w])
  /\ \A s \in Sources : lock[s] # None => 1 <= lock[s].since /\ lock[s].since <= clock

LEMMA RecentStarts == ASSUME Sane, Init PROVE Recent
<1>1. \A w \in Workers : worker[w] = Idle
  BY DEF Init
<1>2. Idle.page = {} /\ Idle.doing = {}
  BY DEF Idle
<1> QED
  BY <1>1, <1>2 DEF Init, Recent, Older

LEMMA ReadIsOlder ==
  ASSUME FeedTyped, NEW S \in SUBSET {c \in CVEs : nvd[c] # None}, NEW a \in Read(S)
  PROVE  a.at <= clock
<1>1. PICK c \in S : a = [cve |-> c, at |-> nvd[c].at, rules |-> nvd[c].rules]
  BY DEF Read
<1>2. a.at = nvd[c].at /\ c \in CVEs /\ nvd[c] # None
  BY <1>1
<1> QED
  BY <1>2 DEF FeedTyped

LEMMA OlderPages ==
  ASSUME Types, Recent, NEW w \in Workers, Works(w)
  PROVE  Older(worker'[w])
<1> DEFINE g == worker'[w]
           h == worker[w]
<1>1. Older(h) /\ FeedTyped /\ clock \in Nat
  BY DEF Recent, Types, FeedTyped
<1> SUFFICES ASSUME NEW a \in g.page \cup g.doing PROVE a.at <= clock
  BY DEF Older
<1>2. CASE Halved(g, h) \/ Ends(g, h) \/ Turns(g, h)
  <2>1. g.page = h.page /\ g.doing \subseteq h.doing
    BY <1>2 DEF Halved, Ends, Turns, SamePage
  <2> QED
    BY <1>1, <2>1 DEF Older
<1>3. ASSUME NEW b \in h.page, Begins(g, h, b) PROVE a.at <= clock
  BY <1>1, <1>3 DEF Begins, Older
<1>4. CASE Fetched(g, h) /\ FetchedWindow(g, h)
  <2>1. {c \in CVEs : Within(c, Head(h.todo))} \in SUBSET {c \in CVEs : nvd[c] # None}
    BY DEF Within
  <2>2. CASE a \in g.page
    <3>1. a \in Read({c \in CVEs : Within(c, Head(h.todo))})
      BY <1>4, <2>2 DEF FetchedWindow
    <3> QED
      BY <1>1, <2>1, <3>1, ReadIsOlder
  <2>3. CASE a \in g.doing
    BY <1>1, <1>4, <2>3 DEF Fetched, Older
  <2> QED
    BY <2>2, <2>3
<1>5. CASE Fetched(g, h) /\ FetchedProduct(g, h)
  <2>1. CASE a \in g.page
    BY <1>1, <1>5, <2>1, ReadIsOlder DEF FetchedProduct
  <2>2. CASE a \in g.doing
    BY <1>1, <1>5, <2>2 DEF Fetched, Older
  <2> QED
    BY <2>1, <2>2
<1>6. CASE Fetched(g, h) /\ FetchedKev(g, h)
  <2>1. CASE a \in g.page
    <3>1. PICK c \in g.seen : a = [cve |-> c, at |-> 0, rules |-> FALSE]
      BY <1>6, <2>1 DEF FetchedKev
    <3>2. a.at = 0
      BY <3>1
    <3> QED
      BY <1>1, <3>2
  <2>2. CASE a \in g.doing
    BY <1>1, <1>6, <2>2 DEF Fetched, Older
  <2> QED
    BY <2>1, <2>2
<1> QED
  BY <1>2, <1>3, <1>4, <1>5, <1>6 DEF Works

LEMMA RecentKept ==
  ASSUME Types, Shapes, Recent, NEW w \in Workers, Moves(w)
  PROVE  Recent'
<1>0. /\ clock' = clock /\ clock \in Nat /\ 1 <= clock
      /\ \A v \in Workers : v # w => worker'[v] = worker[v]
  BY ClockStays DEF Types, FeedTyped
<1>1. Older(worker'[w])
  <2>1. Older(worker[w])
    BY DEF Recent
  <2>2. CASE Stops(w) \/ Closes(w)
    BY <2>2 DEF Stops, Closes, Rests, Older
  <2>3. CASE Chooses(w) \/ Starts(w) \/ Saves(w)
    <3>1. worker'[w].page = worker[w].page /\ worker'[w].doing \subseteq worker[w].doing
      BY <2>3 DEF Chooses, Starts, Began, Saves, Ends, SamePage
    <3> QED
      BY <2>1, <3>1 DEF Older
  <2> QED
    BY <2>2, <2>3, OlderPages DEF Moves
<1>2. ASSUME NEW c \in CVEs, stored'[c] # None PROVE stored'[c].at <= clock
  <2>1. CASE stored'[c] = stored[c]
    BY <1>2, <2>1 DEF Recent
  <2>2. CASE stored'[c] # stored[c]
    <3>1. PICK a \in worker[w].doing : Writes(w, a)
      BY <2>2 DEF Moves, Stops, Chooses, Starts, Works, Saves, Closes
    <3>2. a.at <= clock /\ a.at \in Nat /\ DOMAIN stored = CVEs
      BY DEF Recent, Older, Types, WorkersTyped, Typed, Entries, CatalogueTyped
    <3>3. stored'[c] = Advisory(0, FALSE) \/ stored'[c] = Advisory(a.at, a.rules)
      BY <2>2, <3>1, <3>2 DEF Writes
    <3> QED
      BY <1>0, <3>2, <3>3 DEF Advisory
  <2> QED
    BY <2>1, <2>2
<1>3. ASSUME NEW s \in Sources, lock'[s] # None
      PROVE  1 <= lock'[s].since /\ lock'[s].since <= clock
  <2>1. lock' \in {lock, Unlock(w), Lost(w)} \/ Took(w, Source(worker[w].job))
    BY DEF Moves, Stops, Chooses, Starts, Works, Saves, Closes, GoesOn, Quiet
  <2>2. DOMAIN lock = Sources /\ (lock[s] = None \/ lock[s] \in Rows)
    BY DEF Types, TableTyped, Rows
  <2>3. lock[s] # None => 1 <= lock[s].since /\ lock[s].since <= clock
    BY DEF Recent
  <2>4. CASE lock'[s] = lock[s]
    BY <1>3, <2>3, <2>4
  <2>5. CASE lock' = Unlock(w)
    BY <1>3, <2>2, <2>3, <2>5 DEF Unlock
  <2>6. CASE lock' = Lost(w) /\ lock'[s] # lock[s]
    <3>1. lock[s] # None /\ lock'[s] = [lock[s] EXCEPT !.owner = "gone"]
      BY <2>6 DEF Lost
    <3>2. lock'[s].since = lock[s].since
      BY <2>2, <3>1 DEF Rows
    <3> QED
      BY <2>3, <3>1, <3>2
  <2>7. CASE Took(w, Source(worker[w].job)) /\ lock'[s] # lock[s]
    <3>1. lock'[s] = [owner |-> w, since |-> clock]
      BY <2>2, <2>7 DEF Took
    <3> QED
      BY <1>0, <3>1
  <2> QED
    BY <2>1, <2>4, <2>5, <2>6, <2>7
<1>4. \A v \in Workers : Older(worker'[v])
  BY <1>0, <1>1 DEF Recent
<1> QED
  BY <1>0, <1>2, <1>3, <1>4 DEF Recent, Older

\* The invariant of the types.
TypesInv == Inv /\ Recent

LEMMA TypesStart == ASSUME Sane, Init PROVE TypesInv
BY InvInit, RecentStarts DEF TypesInv

LEMMA TypesStep == ASSUME TypesInv, [Next]_vars PROVE TypesInv'
<1>1. Types /\ Shapes /\ Inv'
  BY InvKept DEF TypesInv, Inv
<1>2. CASE Tick
  <2>1. /\ UNCHANGED <<stored, worker, lock>> /\ clock' = clock + 1 /\ clock \in Nat
        /\ stored \in [CVEs -> {None} \cup Advisories] /\ Recent
        /\ \A w \in Workers : \A a \in worker[w].page \cup worker[w].doing : a.at \in Nat
        /\ \A s \in Sources : lock[s] = None \/ lock[s] \in Rows
    BY <1>1, <1>2 DEF Tick, Types, FeedTyped, CatalogueTyped, WorkersTyped, Typed, Entries,
       TableTyped, Rows, TypesInv
  <2>2. \A c \in CVEs : stored'[c] # None => stored'[c].at <= clock'
    BY <2>1, Advised DEF Recent
  <2>3. \A w \in Workers : \A a \in worker'[w].page \cup worker'[w].doing : a.at <= clock'
    BY <2>1 DEF Recent, Older
  <2>4. \A s \in Sources : lock'[s] # None => 1 <= lock'[s].since /\ lock'[s].since <= clock'
    BY <2>1 DEF Recent, Rows
  <2> QED
    BY <1>1, <2>2, <2>3, <2>4 DEF TypesInv, Recent, Older
<1>3. CASE Publish \/ UNCHANGED vars
  BY <1>1, <1>3 DEF Publish, vars, TypesInv, Recent, Older
<1>4. ASSUME NEW w \in Workers, Step(w) PROVE TypesInv'
  <2>1. Moves(w) /\ Recent
    BY <1>1, <1>4, StepCases DEF Moves, TypesInv
  <2> QED
    BY <1>1, <2>1, RecentKept DEF TypesInv
<1> QED
  BY <1>2, <1>3, <1>4 DEF Next

LEMMA TypesInvTyped == TypesInv => TypeOK
<1> SUFFICES ASSUME TypesInv PROVE TypeOK
  OBVIOUS
<1>1. Types /\ Shapes /\ Recent /\ clock \in Nat /\ 1 <= clock /\ clock <= MaxClock /\ MaxClock \in Nat
  BY DEF TypesInv, Inv, Types, FeedTyped, Sane
<1>2. clock \in 1..MaxClock /\ known \subseteq CVEs
  BY <1>1 DEF Types, CatalogueTyped
<1>3. ASSUME NEW c \in CVEs, nvd[c] # None PROVE nvd[c] \in [at : 1..MaxClock, rules : BOOLEAN]
  <2>1. nvd[c] \in Advisories /\ 1 <= nvd[c].at /\ nvd[c].at <= clock
    BY <1>1, <1>3 DEF Types, FeedTyped
  <2>2. nvd[c].at \in 1..MaxClock
    BY <1>1, <2>1 DEF Advisories
  <2> QED
    BY <2>1, <2>2 DEF Advisories
<1>4. ASSUME NEW c \in CVEs, stored[c] # None PROVE stored[c] \in [at : 0..MaxClock, rules : BOOLEAN]
  <2>1. stored[c] \in Advisories /\ stored[c].at <= clock
    BY <1>1, <1>4 DEF Types, CatalogueTyped, Recent
  <2>2. stored[c].at \in 0..MaxClock
    BY <1>1, <2>1 DEF Advisories
  <2> QED
    BY <2>1, <2>2 DEF Advisories
<1>5. ASSUME NEW s \in Sources, lock[s] # None
      PROVE  lock[s] \in [owner : Workers \cup {"gone"}, since : 1..MaxClock]
  <2>1. lock[s] \in [owner : Workers \cup {"gone"}, since : Nat]
        /\ 1 <= lock[s].since /\ lock[s].since <= clock
    BY <1>1, <1>5 DEF Types, TableTyped, Recent
  <2>2. lock[s].since \in 1..MaxClock
    BY <1>1, <2>1
  <2> QED
    BY <2>1, <2>2
<1>6. ASSUME NEW w \in Workers PROVE Cardinality(worker[w].doing) <= 1
  <2>1. worker[w].doing = {} \/ \E a \in worker[w].doing : worker[w].doing = {a}
    BY <1>1 DEF Shapes, Shaped
  <2>2. CASE worker[w].doing = {}
    BY <2>2, FS_EmptySet
  <2>3. CASE \E a \in worker[w].doing : worker[w].doing = {a}
    BY <2>3, FS_Singleton
  <2> QED
    BY <2>1, <2>2, <2>3
<1>7. \A w \in Workers : /\ worker[w].pc \in {"idle", "read", "start", "fetch", "import", "correlate"}
                         /\ worker[w].requests \in 0..MaxRequests
                         /\ worker[w].pc = "fetch" /\ worker[w].job = "nvd" => worker[w].todo # <<>>
  BY <1>1 DEF Types, WorkersTyped, Typed, Pcs, Shapes, Shaped
<1> QED
  BY Zenon, <1>2, <1>3, <1>4, <1>5, <1>6, <1>7 DEF TypeOK
=============================================================================
