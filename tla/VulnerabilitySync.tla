------------------------- MODULE VulnerabilitySync -------------------------
(***************************************************************************)
(* The synchronization of the advisory catalogue with NVD and the CISA     *)
(* list of exploited vulnerabilities (KEV): vulnerability-sync.ts and its  *)
(* coordinator in apps/worker.  A cycle runs KEV, then the NVD advisories  *)
(* modified since the last completed window, then the observed products.   *)
(* Advisories are imported one by one, each in a transaction of its own,   *)
(* after a read outside it.  The table of runs is kept as what is read     *)
(* from it: the running row of each source, the cursor of the completed    *)
(* windowed run that started last, and the last completed product run.     *)
(***************************************************************************)
EXTENDS Integers, Sequences, FiniteSets

CONSTANTS Workers, CVEs,
          KevCatalogs,    \* the contents the KEV feed may have
          Day,            \* the first window, when there is no cursor
          MaxSpan,        \* 119 days, the longest window NVD answers
          MaxWindow, MinSplit, MaxRequests, Attempts,
          StaleAfter,     \* the age at which a running row is given up
          Refresh,        \* the age at which a product is synchronized again
          MaxClock, MaxCycles, MaxChanges, MaxFaults  \* bounds of the model

VARIABLES clock, nvd, stored, known,
          lock,       \* the running row of a source: whose run, and since when
          cursor,     \* the completed window that started last
          fresh,      \* when the last product run completed
          worker,
          origins,    \* history: the starts of completed windows that had no cursor
          overtaken,  \* history: a live run was declared stale
          cycles, changes, faults

vars == <<clock, nvd, stored, known, lock, cursor, fresh, worker, origins,
          overtaken, cycles, changes, faults>>
counters == <<cycles, changes, faults>>

None == [no |-> "row"]  \* no running row, no cursor, no advisory
Sources == {"nvd", "kev"}
Source(job) == IF job = "kev" THEN "kev" ELSE "nvd"

\* modifiedAt of an advisory and whether it has a supported rule; the KEV
\* feed creates advisories without either.
Advisory(at, rules) == [at |-> at, rules |-> rules]
Idle == [pc |-> "idle", job |-> "kev", since |-> 0, from |-> 0, to |-> 0, first |-> FALSE,
         todo |-> <<>>, seen |-> {}, page |-> {}, doing |-> {}, exists |-> FALSE,
         failed |-> FALSE, requests |-> 0]

Init ==
  /\ clock = 1 /\ nvd = [c \in CVEs |-> None] /\ stored = [c \in CVEs |-> None]
  /\ known = {} /\ lock = [s \in Sources |-> None] /\ cursor = None /\ fresh = None
  /\ worker = [w \in Workers |-> Idle] /\ origins = {}
  /\ overtaken = FALSE /\ cycles = 0 /\ changes = 0 /\ faults = 0

Tick == /\ clock < MaxClock /\ clock' = clock + 1
        /\ UNCHANGED <<nvd, stored, known, lock, cursor, fresh, worker, origins, overtaken,
                       counters>>

\* NVD publishes or modifies an advisory, with or without supported rules.
Publish ==
  /\ changes < MaxChanges /\ changes' = changes + 1
  /\ \E c \in CVEs, rules \in BOOLEAN : nvd' = [nvd EXCEPT ![c] = Advisory(clock, rules)]
  /\ UNCHANGED <<clock, stored, known, lock, cursor, fresh, worker, origins, overtaken,
                 cycles, faults>>

\* What a step of a worker leaves alone unless it says otherwise.
Outside == UNCHANGED <<clock, nvd, changes>>
Catalogue == <<stored, known>>
Table == <<lock, cursor, fresh, origins, overtaken, cycles>>

Goes(w, to) == worker' = [worker EXCEPT ![w] = to]
At(w, pc) == worker[w].pc = pc
Fault == faults < MaxFaults /\ faults' = faults + 1
NoFault == UNCHANGED faults

\* The job after a job: an error before the products ends the cycle.
JobAfter(w) == IF worker[w].job = "kev" THEN [Idle EXCEPT !.pc = "read", !.job = "nvd"]
            ELSE IF worker[w].job = "nvd" THEN [Idle EXCEPT !.pc = "read", !.job = "product"]
            ELSE Idle

-----------------------------------------------------------------------------
(* Starting a run.                                                         *)

\* lastNvdCursor: only rows of completed runs with a window count.
From(to) == IF cursor = None THEN to - Day ELSE cursor.to
Span(from, to) == to > from /\ to - from <= MaxSpan

\* The end of the window is taken before the cursor is read.
ReadWindow(w) ==
  /\ At(w, "read") /\ worker[w].job = "nvd"
  /\ \E to \in {clock - 1, clock} :
       IF Span(From(to), to)
       THEN Goes(w, [worker[w] EXCEPT !.pc = "start", !.from = From(to), !.to = to,
                       !.first = (cursor = None)])
       ELSE Goes(w, Idle)
  /\ Outside /\ NoFault /\ UNCHANGED <<Catalogue, Table>>

ReadFreshness(w) ==
  /\ At(w, "read") /\ worker[w].job = "product"
  /\ IF fresh # None /\ fresh.at >= clock - Refresh THEN Goes(w, Idle)
     ELSE Goes(w, [worker[w] EXCEPT !.pc = "start"])
  /\ Outside /\ NoFault /\ UNCHANGED <<Catalogue, Table>>

Window(w) == [from |-> worker[w].from, to |-> worker[w].to]

Stale(row) == row.since < clock - StaleAfter
\* startRun, for KEV at the beginning of a cycle: stale rows of the source are
\* failed, and the unique index refuses a second running one.
StartRun(w) ==
  LET job == worker[w].job
      row == lock[Source(job)]
  IN  /\ At(w, "start") \/ (At(w, "idle") /\ cycles < MaxCycles)
      /\ IF row # None /\ ~Stale(row)
         THEN At(w, "start") /\ Goes(w, Idle) /\ UNCHANGED Table
         ELSE /\ lock' = [lock EXCEPT ![Source(job)] = [owner |-> w, since |-> clock]]
              /\ overtaken' = (overtaken \/ (row # None /\ row.owner \in Workers))
              /\ Goes(w, [worker[w] EXCEPT !.pc = "fetch", !.since = clock,
                            !.todo = IF job = "nvd" THEN <<Window(w)>> ELSE <<>>])
              /\ cycles' = IF At(w, "idle") THEN cycles + 1 ELSE cycles
              /\ UNCHANGED <<cursor, fresh, origins>>
      /\ Outside /\ NoFault /\ UNCHANGED Catalogue

-----------------------------------------------------------------------------
(* The end of a run.  finishRun writes the row by its identifier, whatever *)
(* its status has become.                                                  *)

\* The lock is free again if the running row was this run's own.
Unlock(w) ==
  LET s == Source(worker[w].job)
  IN  IF lock[s] = [owner |-> w, since |-> worker[w].since] THEN [lock EXCEPT ![s] = None] ELSE lock

FailedWithItsWindow(w) ==
  /\ lock' = Unlock(w) /\ Goes(w, Idle) /\ UNCHANGED <<fresh, overtaken, cycles>>
  /\ cursor' = IF worker[w].job = "nvd" THEN [since |-> worker[w].since, to |-> worker[w].to] ELSE cursor
  /\ origins' = IF worker[w].first THEN origins \cup {worker[w].from} ELSE origins
Failed(w) ==
  /\ lock' = Unlock(w) /\ Goes(w, Idle)
  /\ UNCHANGED <<cursor, fresh, origins, overtaken, cycles>>

\* A run that has imported all its pages correlates and completes.
Finish(w) ==
  LET job == worker[w].job
      mine == [since |-> worker[w].since, to |-> worker[w].to]
  IN  /\ At(w, "correlate") /\ NoFault
      /\ lock' = Unlock(w) /\ Goes(w, JobAfter(w))
      /\ cursor' = IF job = "nvd" /\ (cursor = None \/ cursor.since <= mine.since)
                   THEN mine ELSE cursor
      /\ origins' = IF worker[w].first THEN origins \cup {worker[w].from} ELSE origins
      /\ fresh' = IF job = "product" THEN [at |-> clock] ELSE fresh
      /\ Outside /\ UNCHANGED <<Catalogue, overtaken, cycles>>

\* The correlation of the observations fails.
CorrelationFails(w) ==
  At(w, "correlate") /\ Fault /\ Failed(w) /\ Outside /\ UNCHANGED Catalogue

\* The process ends anywhere in a run: its row stays "running".
Crash(w) ==
  /\ worker[w].pc \in {"fetch", "import", "correlate"} /\ Fault /\ Goes(w, Idle)
  /\ lock' = [s \in Sources |-> IF lock[s] # None /\ lock[s].owner = w
                               THEN [lock[s] EXCEPT !.owner = "gone"] ELSE lock[s]]
  /\ Outside /\ UNCHANGED <<Catalogue, cursor, fresh, origins, overtaken, cycles>>

-----------------------------------------------------------------------------
(* Fetching.                                                               *)

\* lastModStartDate and lastModEndDate are both inclusive.
Within(c, window) == nvd[c] # None /\ nvd[c].at >= window.from /\ nvd[c].at <= window.to
Read(S) == {[cve |-> c, at |-> nvd[c].at, rules |-> nvd[c].rules] : c \in S}

Width(window) == window.to - window.from
Halves(window) ==
  LET mid == window.from + Width(window) \div 2
  IN  <<[from |-> window.from, to |-> mid], [from |-> mid, to |-> window.to]>>

Fetching(w, job) == At(w, "fetch") /\ worker[w].job = job
Split(w) == Goes(w, [worker[w] EXCEPT !.todo = Halves(Head(@)) \o Tail(@)])
Spend(w, n) == [worker[w] EXCEPT !.requests = @ + n]

\* processWindow: a window longer than six hours is split unasked.
SplitWide(w) ==
  /\ Fetching(w, "nvd") /\ Width(Head(worker[w].todo)) > MaxWindow
  /\ Split(w) /\ Outside /\ NoFault /\ UNCHANGED <<Catalogue, Table>>

Asking(w) == Fetching(w, "nvd") /\ Width(Head(worker[w].todo)) <= MaxWindow

\* The page is whole, after n requests.
FetchWindow(w) ==
  /\ Asking(w)
  /\ \E n \in {1, Attempts} :
       /\ worker[w].requests + n <= MaxRequests
       /\ IF n = 1 THEN NoFault ELSE Fault
       /\ LET p == Read({c \in CVEs : Within(c, Head(worker[w].todo))})
          IN  Goes(w, [Spend(w, n) EXCEPT !.pc = "import", !.todo = Tail(@),
                         !.page = {a \in p : a.cve \notin worker[w].seen}])
  /\ Outside /\ UNCHANGED <<Catalogue, Table>>

\* The page is too large, incoherent or not whole: the window is split, or
\* the run fails when it is a minute or less.
FetchPartial(w) ==
  /\ Asking(w) /\ Fault
  /\ \E n \in {1, Attempts} :
       /\ worker[w].requests + n <= MaxRequests
       /\ IF Width(Head(worker[w].todo)) > MinSplit
          THEN /\ Goes(w, [Spend(w, n) EXCEPT !.todo = Halves(Head(@)) \o Tail(@)])
               /\ UNCHANGED Table
          ELSE Failed(w)
  /\ Outside /\ UNCHANGED Catalogue

\* The requests of the run are spent.
RequestsSpent(w) ==
  /\ Asking(w) /\ worker[w].requests = MaxRequests
  /\ Failed(w) /\ Outside /\ NoFault /\ UNCHANGED Catalogue

\* The feed is down, or refuses three times.
FetchFails(w) ==
  /\ At(w, "fetch") /\ Fault /\ Failed(w) /\ Outside /\ UNCHANGED Catalogue

\* fetchKevPayload: a catalogue that is empty or ill-formed is an error.
FetchKev(w) ==
  /\ Fetching(w, "kev")
  /\ \E S \in KevCatalogs :
       Goes(w, [worker[w] EXCEPT !.pc = "import",
                  !.page = {[cve |-> c, at |-> 0, rules |-> FALSE] : c \in S},
                  !.seen = S])
  /\ Outside /\ NoFault /\ UNCHANGED <<Catalogue, Table>>

\* syncNvdProductCatalog: every advisory of the product, whatever its date.
FetchProduct(w) ==
  /\ Fetching(w, "product")
  /\ Goes(w, [worker[w] EXCEPT !.pc = "import", !.page = Read({c \in CVEs : nvd[c] # None})])
  /\ Outside /\ NoFault /\ UNCHANGED <<Catalogue, Table>>

-----------------------------------------------------------------------------
(* Importing a page.                                                       *)

\* advisoryByCve, outside the transaction that follows.
ReadAdvisory(w) ==
  /\ At(w, "import") /\ worker[w].doing = {}
  /\ \E a \in worker[w].page :
       Goes(w, [worker[w] EXCEPT !.page = @ \ {a}, !.doing = {a}, !.exists = stored[a.cve] # None,
                  !.seen = @ \cup {a.cve}])
  /\ Outside /\ NoFault /\ UNCHANGED <<Catalogue, Table>>

Ignored(w, a) == worker[w].job # "kev" /\ ~a.rules /\ ~worker[w].exists
\* The row was created by another run since it was not found.
Collides(w, a) == ~worker[w].exists /\ stored[a.cve] # None

\* upsertNvdAdvisory or upsertKevEntry.
WriteAdvisory(w) ==
  \E a \in worker[w].doing :
    /\ At(w, "import") /\ NoFault /\ (Ignored(w, a) \/ ~Collides(w, a))
    /\ Goes(w, [worker[w] EXCEPT !.doing = {}])
    /\ IF Ignored(w, a) THEN UNCHANGED Catalogue
       ELSE IF worker[w].job = "kev"
       THEN /\ known' = known \cup {a.cve}
            /\ stored' = [stored EXCEPT ![a.cve] = IF worker[w].exists THEN @ ELSE Advisory(0, FALSE)]
       ELSE stored' = [stored EXCEPT ![a.cve] = Advisory(a.at, a.rules)] /\ UNCHANGED known
    /\ Outside /\ UNCHANGED Table

\* The transaction fails; the rest of the page is imported all the same.
WriteFails(w) ==
  \E a \in worker[w].doing :
    /\ At(w, "import") /\ ~Ignored(w, a)
    /\ IF Collides(w, a) THEN NoFault ELSE Fault
    /\ Goes(w, [worker[w] EXCEPT !.doing = {}, !.failed = TRUE])
    /\ Outside /\ UNCHANGED <<Catalogue, Table>>

\* One advisory that failed fails the run, once its page is through.
Complete(w) == ~worker[w].failed

\* The page is imported: the next window, or the KEV flags of the entries
\* that have left the catalogue, and the correlation.
PageDone(w) ==
  /\ At(w, "import") /\ worker[w].page \cup worker[w].doing = {}
  /\ IF ~Complete(w) THEN Failed(w) /\ UNCHANGED Catalogue
     ELSE /\ Goes(w, [worker[w] EXCEPT !.pc = IF worker[w].todo # <<>> THEN "fetch" ELSE "correlate"])
          /\ known' = IF worker[w].job = "kev" THEN known \cap worker[w].seen ELSE known
          /\ UNCHANGED <<stored, Table>>
  /\ Outside /\ NoFault

-----------------------------------------------------------------------------

Step(w) ==
  \/ ReadWindow(w) \/ ReadFreshness(w) \/ StartRun(w)
  \/ SplitWide(w) \/ FetchWindow(w) \/ FetchPartial(w) \/ RequestsSpent(w) \/ FetchFails(w)
  \/ FetchKev(w) \/ FetchProduct(w)
  \/ ReadAdvisory(w) \/ WriteAdvisory(w) \/ WriteFails(w) \/ PageDone(w)
  \/ Finish(w) \/ CorrelationFails(w) \/ Crash(w)

Next == Tick \/ Publish \/ \E w \in Workers : Step(w)
Spec == Init /\ [][Next]_vars

TypeOK ==
  /\ clock \in 1..MaxClock /\ known \subseteq CVEs
  /\ \A c \in CVEs : nvd[c] = None \/ nvd[c] \in [at : 1..MaxClock, rules : BOOLEAN]
  /\ \A c \in CVEs : stored[c] = None \/ stored[c] \in [at : 0..MaxClock, rules : BOOLEAN]
  /\ \A s \in Sources : lock[s] = None \/ lock[s] \in [owner : Workers \cup {"gone"}, since : 1..MaxClock]
  /\ \A w \in Workers : /\ worker[w].pc \in {"idle", "read", "start", "fetch", "import", "correlate"}
                        /\ worker[w].requests \in 0..MaxRequests
                        /\ Cardinality(worker[w].doing) <= 1
                        /\ worker[w].pc = "fetch" /\ worker[w].job = "nvd" => worker[w].todo # <<>>

\* What the last cursor has passed is in the catalogue: an advisory modified
\* between a first window and the cursor is stored as NVD has it, or was not
\* worth storing.  The next run asks only from the cursor on, so an advisory
\* whose import failed, that fell between two windows, or that a product run
\* brought in an older form, would never be asked for again.  (A run that
\* outlives its two hours may still write what it read before; and if two
\* first windows begin more than a day apart, nobody asks for what is between.)
CursorLeavesNothingBehind ==
  cursor # None /\ ~overtaken =>
    \A c \in CVEs :
      nvd[c] # None /\ (\A o \in origins : nvd[c].at >= o) /\ nvd[c].at < cursor.to =>
        \/ stored[c] = nvd[c]
        \/ ~nvd[c].rules /\ (stored[c] = None \/ stored[c].at = 0)
=============================================================================
