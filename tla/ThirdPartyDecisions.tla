------------------------ MODULE ThirdPartyDecisions ------------------------
(***************************************************************************)
(* What the members of an organization decide about the third parties that *)
(* its scans observe on a site (apps/web/src/lib/third-party-service.ts).  *)
(* A confirmation asks StackLegal for the provider, through a cache of one *)
(* hour (stacklegal.ts), outside every transaction; the transaction that   *)
(* follows reads the decision it replaces and locks nothing.  A snapshot   *)
(* is never changed after it was stored, so a decision holds its snapshot  *)
(* here and not its number.                                                *)
(***************************************************************************)
EXTENDS Integers

CONSTANTS Providers,   \* the allowlisted services
          Calls,       \* calls of decideThirdParty under way at most
          CacheTime,   \* CACHE_MS: one hour
          Timeout,     \* the time one request may take
          MaxTime,     \* bound on the clock
          MaxAsks,     \* bound on the calls
          MaxScans     \* bound on the scans that complete

VARIABLES hour,          \* the clock
          observations,  \* providers some stored scan observed
          latest,        \* providers the latest completed scan observed
          cache,         \* per provider, the answer kept by the process
          decisions,     \* per provider, the row of third_party_decisions
          current,       \* per provider, the newest snapshot since the service
                         \* was last ignored or reset (history)
          deciding,      \* per call, its state
          asks,          \* calls begun
          completed      \* scans completed

decisionVars == <<hour, observations, latest, cache, decisions, current, deciding, asks, completed>>

Time == 0..MaxTime
\* What StackLegal published of one provider at one time.
Snapshot == [id : Providers, published : Time]
NoSnapshot == [id |-> "none", published |-> -1]
NoRow == [status |-> "undecided", snapshot |-> NoSnapshot]
NotCached == [expires |-> 0, provider |-> NoSnapshot]
Idle == [pc |-> "idle"]

Row == [status : {"undecided", "confirmed", "ignored"}, snapshot : Snapshot \cup {NoSnapshot}]
Call == [pc : {"fetching", "fetched", "deciding"}, provider : Providers,
         status : {"confirmed", "ignored"}, began : Time,
         answer : Snapshot \cup {NoSnapshot}, previous : Row, overtaken : BOOLEAN]

TypeOK ==
  /\ hour \in Time /\ asks \in 0..MaxAsks /\ completed \in 0..MaxScans
  /\ latest \subseteq observations /\ observations \subseteq Providers
  /\ cache \in [Providers -> [expires : 0..MaxTime + CacheTime, provider : Snapshot \cup {NoSnapshot}]]
  /\ decisions \in [Providers -> Row]
  /\ current \in [Providers -> Snapshot \cup {NoSnapshot}]
  /\ \A c \in Calls : deciding[c] = Idle \/ deciding[c] \in Call

Init ==
  /\ hour = 0 /\ asks = 0 /\ completed = 0
  /\ observations = {} /\ latest = {}
  /\ cache = [p \in Providers |-> NotCached]
  /\ decisions = [p \in Providers |-> NoRow]
  /\ current = [p \in Providers |-> NoSnapshot]
  /\ deciding = [c \in Calls |-> Idle]

\* Time passes; a request under way ends within its timeout.
Tick ==
  /\ hour < MaxTime
  /\ \A c \in Calls : deciding[c].pc = "fetching" => hour < deciding[c].began + Timeout
  /\ hour' = hour + 1
  /\ UNCHANGED <<observations, latest, cache, decisions, current, deciding, asks, completed>>

\* A scan completes and stores what it observed.
ScanCompletes(found) ==
  /\ completed < MaxScans
  /\ completed' = completed + 1
  /\ latest' = found
  /\ observations' = observations \cup found
  /\ UNCHANGED <<hour, cache, decisions, current, deciding, asks>>

CachedForever(p) == cache[p].provider
\* The answer the process still holds.
Cached(p) == IF cache[p].expires > hour THEN cache[p].provider ELSE NoSnapshot

\* A member who manages the organization decides about a service that was
\* observed: to ignore it asks nobody, to confirm it asks the cache first.
Ask(c, p, status) ==
  /\ deciding[c] = Idle /\ asks < MaxAsks
  /\ p \in observations
  /\ asks' = asks + 1
  /\ deciding' = [deciding EXCEPT ![c] =
       [pc |-> IF status = "confirmed" /\ Cached(p) = NoSnapshot THEN "fetching" ELSE "fetched",
        provider |-> p, status |-> status, began |-> hour,
        answer |-> IF status = "confirmed" THEN Cached(p) ELSE NoSnapshot,
        previous |-> NoRow, overtaken |-> FALSE]]
  /\ UNCHANGED <<hour, observations, latest, cache, decisions, current, completed>>

\* A response is used only when it has the expected form, version and provider.
Parsed(p, proper, content) ==
  IF proper /\ content.id = p THEN content ELSE NoSnapshot

\* StackLegal answers, with what it published at some time since it was asked.
Answered(c) ==
  /\ deciding[c].pc = "fetching"
  /\ \E proper \in BOOLEAN, content \in [id : Providers \cup {"other"}, published : deciding[c].began..hour] :
       LET p == deciding[c].provider
           provider == Parsed(p, proper, content)
       IN  /\ deciding' = [deciding EXCEPT ![c].pc = "fetched", ![c].answer = provider]
           /\ cache' = IF provider = NoSnapshot THEN cache
                       ELSE [cache EXCEPT ![p] = [expires |-> hour + CacheTime, provider |-> provider]]
  /\ UNCHANGED <<hour, observations, latest, decisions, current, asks, completed>>

\* The request fails, or its answer is too large: the call goes on without it.
NotAnswered(c) ==
  /\ deciding[c].pc = "fetching"
  /\ deciding' = [deciding EXCEPT ![c].pc = "fetched"]
  /\ UNCHANGED <<hour, observations, latest, cache, decisions, current, asks, completed>>

\* The transaction reads the decision it is about to replace.
ReadPrevious(c) ==
  /\ deciding[c].pc = "fetched"
  /\ deciding' = [deciding EXCEPT ![c].pc = "deciding",
                                  ![c].previous = decisions[deciding[c].provider]]
  /\ UNCHANGED <<hour, observations, latest, cache, decisions, current, asks, completed>>

KeptOnlyWithAnAnswer(status, answer, previous) == answer
\* The snapshot of the new decision: the answer, or that of a service which was
\* confirmed already, or none.
Kept(status, answer, previous) ==
  IF answer # NoSnapshot THEN answer
  ELSE IF status = "confirmed" /\ previous.status = "confirmed" THEN previous.snapshot
  ELSE NoSnapshot

\* Calls whose transaction has read the decision of p that is changed now.
Overtaking(p, calls) ==
  [c \in Calls |-> IF calls[c].pc = "deciding" /\ calls[c].provider = p
                   THEN [calls[c] EXCEPT !.overtaken = TRUE] ELSE calls[c]]

Decide(c) ==
  /\ deciding[c].pc = "deciding"
  /\ LET k == deciding[c]
         snapshot == Kept(k.status, k.answer, k.previous)
     IN  /\ decisions' = [decisions EXCEPT ![k.provider] = [status |-> k.status, snapshot |-> snapshot]]
         /\ current' = [current EXCEPT ![k.provider] =
              IF k.overtaken THEN snapshot
              ELSE IF k.status = "ignored" THEN NoSnapshot
              ELSE IF k.answer # NoSnapshot THEN k.answer ELSE @]
         /\ deciding' = Overtaking(k.provider, [deciding EXCEPT ![c] = Idle])
  /\ UNCHANGED <<hour, observations, latest, cache, asks, completed>>

\* resetThirdPartyDecision deletes the row.
Reset(p) ==
  /\ decisions[p] # NoRow
  /\ decisions' = [decisions EXCEPT ![p] = NoRow]
  /\ current' = [current EXCEPT ![p] = NoSnapshot]
  /\ deciding' = Overtaking(p, deciding)
  /\ UNCHANGED <<hour, observations, latest, cache, asks, completed>>

Next ==
  \/ Tick
  \/ \E found \in SUBSET Providers : ScanCompletes(found)
  \/ \E c \in Calls, p \in Providers, status \in {"confirmed", "ignored"} : Ask(c, p, status)
  \/ \E c \in Calls : Answered(c) \/ NotAnswered(c) \/ ReadPrevious(c) \/ Decide(c)
  \/ \E p \in Providers : Reset(p)
Spec == Init /\ [][Next]_decisionVars

(***************************************************************************)
(* The page.                                                               *)
(***************************************************************************)
\* getThirdPartyOverview lists what the latest completed scan observed and what
\* was decided; details only for a confirmed service, from a snapshot of it.
Listed == latest \cup {p \in Providers : decisions[p] # NoRow}
Details(p) ==
  IF decisions[p].status = "confirmed" /\ decisions[p].snapshot.id = p
  THEN decisions[p].snapshot ELSE NoSnapshot

\* A service that is confirmed shows the newest snapshot stored since it was
\* last ignored or reset: a confirmation whose request failed keeps it, unless
\* the decision changed between its transaction's read and its write; and no
\* answer about another service ever hides it.
SnapshotsAreKept ==
  \A p \in Listed : Details(p) = IF decisions[p].status = "confirmed" THEN current[p] ELSE NoSnapshot

\* However answers and the cache overtake each other, a call uses nothing that
\* StackLegal had replaced an hour and one request's time before the call began.
AnswersAreRecent ==
  \A c \in Calls : deciding[c] # Idle /\ deciding[c].answer # NoSnapshot =>
    deciding[c].answer.published > deciding[c].began - (CacheTime + Timeout)

ServicesShowTheirSnapshots == SnapshotsAreKept /\ AnswersAreRecent
=============================================================================
