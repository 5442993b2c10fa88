----------------------------- MODULE Correlation -----------------------------
(***************************************************************************)
(* The correlation of observed technologies with an advisory, and its      *)
(* review: reconcileTechnologyObservation and its callers in apps/worker,  *)
(* and in apps/web the declared versions (site-technology-version.ts), the *)
(* matches as they are shown (vulnerability-intelligence.ts) and the       *)
(* reviews (vulnerability-review.ts and its fingerprint).                  *)
(*                                                                         *)
(* One product and one advisory.  A scan leaves one observation, numbered  *)
(* by its age.  What a rule says of a version is VersionMatching's; here   *)
(* the rule of the advisory affects no version ("none"), the "old" one, or *)
(* "all".                                                                  *)
(***************************************************************************)
EXTENDS Naturals, Sequences, FiniteSets, FiniteSetsExt, Functions

CONSTANTS Sites, Workers,
          MaxScans, MaxImports, MaxFaults, MaxActs  \* bounds of the model

VARIABLES observation,  \* the site and the version of each, or Gone
          match,        \* the stored status of each, None when there is none
          declared,     \* the version an administrator gave for it
          advisory,     \* the rule and whether it is known to be exploited
          worker,       \* what each reconciliation has left to do and has read
          reviews,      \* the fingerprints
          decision,     \* a review between its reads and its write
          approved,     \* history: the evidence that was reviewed
          scans, imports, faults, acts

vars == <<observation, match, declared, advisory, worker, reviews, decision, approved,
          scans, imports, faults, acts>>
rows == <<observation, match, declared>>
reviewing == <<reviews, decision, approved>>
counters == <<scans, imports, faults, acts>>

None == "none"
Gone == [site |-> None, version |-> None]
Ids == 1..MaxScans
Versions == {"old", "new"}
Idle == [todo |-> <<>>, read |-> {}]

Init ==
  /\ observation = [i \in Ids |-> Gone] /\ match = [i \in Ids |-> None]
  /\ declared = [i \in Ids |-> None] /\ advisory = [rule |-> "none", exploited |-> FALSE]
  /\ worker = [w \in Workers |-> Idle]
  /\ reviews = {} /\ decision = {} /\ approved = {}
  /\ scans = 0 /\ imports = 0 /\ faults = 0 /\ acts = 0

Exists(i) == observation[i] # Gone
Of(s) == {i \in Ids : Exists(i) /\ observation[i].site = s}
\* selectDistinctOn, the newest first.
Latest(s) == Max(Of(s))
IsLatest(i) == Exists(i) /\ i = Latest(observation[i].site)

Status(rule, version) ==
  IF rule = "none" THEN "not_applicable"
  ELSE IF version = None THEN "potential"
  ELSE IF rule = "all" \/ version = "old" THEN "confirmed" ELSE "not_applicable"

-----------------------------------------------------------------------------
(* The worker.                                                             *)

\* A scan completes; its worker goes on with reconcileScanVulnerabilities.
CompleteScan(w) ==
  /\ worker[w] = Idle /\ scans < MaxScans /\ scans' = scans + 1
  /\ \E s \in Sites, v \in Versions \cup {None} :
       observation' = [observation EXCEPT ![scans'] = [site |-> s, version |-> v]]
  /\ worker' = [worker EXCEPT ![w].todo = <<scans'>>]
  /\ UNCHANGED <<match, declared, advisory, reviewing, imports, faults, acts>>

\* A synchronization imports a change of the advisory.
Import ==
  /\ imports < MaxImports /\ imports' = imports + 1
  /\ advisory' \in [rule : {"none", "old", "all"}, exploited : BOOLEAN]
  /\ UNCHANGED <<rows, worker, reviewing, scans, faults, acts>>

Current == {i \in Ids : IsLatest(i)}
\* reconcileLatestTechnologyObservations, at the end of each synchronization.
Begin(w) ==
  /\ worker[w] = Idle
  /\ \E todo \in [1..Cardinality(Current) -> Current] :
       /\ Range(todo) = Current
       /\ worker' = [worker EXCEPT ![w].todo = todo]
  /\ UNCHANGED <<rows, advisory, reviewing, counters>>

\* reconcileTechnologyObservation reads the observation and the rules ...
Read(w) ==
  /\ worker[w].todo # <<>> /\ worker[w].read = {}
  /\ LET i == Head(worker[w].todo)
     IN  worker' = IF Exists(i)
                   THEN [worker EXCEPT ![w].read = {Status(advisory.rule, observation[i].version)}]
                   ELSE [worker EXCEPT ![w].todo = Tail(@)]
  /\ UNCHANGED <<rows, advisory, reviewing, counters>>

\* ... and writes in a transaction of its own: what no longer matches is
\* deleted (mutated, it is left).  A foreign key refuses a match of an
\* observation that is gone.
StoredOrKept(status, old) == IF status = "not_applicable" THEN old ELSE status
Stored(status, old) == IF status = "not_applicable" THEN None ELSE status
Write(w) ==
  /\ \E status \in worker[w].read :
       LET i == Head(worker[w].todo)
           refused == ~Exists(i) /\ status # "not_applicable"
       IN  /\ match' = [match EXCEPT ![i] = IF Exists(i) THEN Stored(status, @) ELSE None]
           /\ worker' = [worker EXCEPT ![w] =
                           IF refused THEN Idle ELSE [todo |-> Tail(@.todo), read |-> {}]]
  /\ UNCHANGED <<observation, declared, advisory, reviewing, counters>>

\* An error, or the end of the process.
Fail(w) ==
  /\ worker[w] # Idle /\ faults < MaxFaults /\ faults' = faults + 1
  /\ worker' = [worker EXCEPT ![w] = Idle]
  /\ UNCHANGED <<rows, advisory, reviewing, scans, imports, acts>>

\* Retention deletes a scan, and with it all that hangs on its observation.
DeleteScan(i) ==
  /\ Exists(i)
  /\ observation' = [observation EXCEPT ![i] = Gone]
  /\ match' = [match EXCEPT ![i] = None] /\ declared' = [declared EXCEPT ![i] = None]
  /\ UNCHANGED <<advisory, worker, reviewing, counters>>

-----------------------------------------------------------------------------
(* The web application.                                                    *)

Act == acts < MaxActs /\ acts' = acts + 1

\* setSiteTechnologyVersion.
Declare(i) ==
  /\ Act /\ IsLatest(i)
  /\ \/ observation[i].version = None
        /\ \E v \in Versions : declared' = [declared EXCEPT ![i] = v]
     \/ declared[i] # None /\ declared' = [declared EXCEPT ![i] = None]
  /\ UNCHANGED <<observation, match, advisory, worker, reviewing, scans, imports, faults>>

\* loadMatches: the evidence of a stored match.  A declared version is compared
\* with the rules of the moment; without a rule it remains to be checked.
Evidence(i) ==
  [site |-> observation[i].site, exploited |-> advisory.exploited,
   by |-> IF declared[i] = None THEN "scan" ELSE "admin",
   version |-> IF declared[i] = None THEN observation[i].version ELSE declared[i],
   status |-> IF declared[i] = None THEN match[i]
              ELSE IF advisory.rule = "none" THEN "potential"
              ELSE Status(advisory.rule, declared[i])]
Shown(i) == Exists(i) /\ match[i] # None
\* vulnerabilityReviewFingerprint.  Mutated, one review would do for all sites.
FingerprintOfAdvisory(e) == [e EXCEPT !.site = None]
Fingerprint(e) == e
Reviewed(i) == Fingerprint(Evidence(i)) \in reviews

\* setSiteVulnerabilityReview reads the overview, whatever the page showed ...
Decide(i) ==
  /\ Act /\ decision = {} /\ IsLatest(i) /\ Shown(i)
  /\ Evidence(i).status # "not_applicable"
  /\ \E reviewed \in BOOLEAN : decision' = {[evidence |-> Evidence(i), reviewed |-> reviewed]}
  /\ UNCHANGED <<rows, advisory, worker, reviews, approved, scans, imports, faults>>

\* ... and inserts or deletes the fingerprint.
Settle ==
  /\ \E d \in decision :
       IF d.reviewed
       THEN reviews' = reviews \cup {Fingerprint(d.evidence)} /\ approved' = approved \cup {d.evidence}
       ELSE reviews' = reviews \ {Fingerprint(d.evidence)} /\ approved' = approved \ {d.evidence}
  /\ decision' = {}
  /\ UNCHANGED <<rows, advisory, worker, counters>>

-----------------------------------------------------------------------------
Next ==
  \/ \E w \in Workers : CompleteScan(w) \/ Begin(w) \/ Read(w) \/ Write(w) \/ Fail(w)
  \/ \E i \in Ids : DeleteScan(i) \/ Declare(i) \/ Decide(i)
  \/ Import \/ Settle

\* What goes on: reconciliations end, and some worker synchronizes again.
Proceed(w) == Read(w) \/ Write(w)
Synchronize == \E w \in Workers : Begin(w)
Spec == /\ Init /\ [][Next]_vars
        /\ \A w \in Workers : WF_vars(Proceed(w))
        /\ WF_vars(Synchronize)

TypeOK ==
  /\ observation \in [Ids -> {Gone} \cup [site : Sites, version : Versions \cup {None}]]
  /\ match \in [Ids -> {None, "potential", "confirmed"}]
  /\ declared \in [Ids -> Versions \cup {None}]
  /\ advisory \in [rule : {"none", "old", "all"}, exploited : BOOLEAN]
  /\ \A w \in Workers : worker[w].todo \in Seq(Ids) /\ Cardinality(worker[w].read) <= 1
  /\ Cardinality(decision) <= 1 /\ Cardinality(reviews) <= acts
  /\ \A i \in Ids : match[i] # None \/ declared[i] # None => Exists(i)

\* Whatever reconciliations overtook each other with what they had read, failed
\* or were about a scan that was deleted: in the end the matches of the newest
\* observation of every site are those of the advisory as it is.
Agrees(i) == match[i] = Stored(Status(advisory.rule, observation[i].version), None)
MatchesCatchUp == <>[](\A i \in Current : Agrees(i))

\* A match is counted as reviewed only if a review of this site was given for
\* this evidence: another site, status, version or the knowledge that it is
\* exploited brings it back to the follow-up.
ReviewsCoverTheirEvidence == \A i \in Ids : Shown(i) /\ Reviewed(i) => Evidence(i) \in approved
=============================================================================
