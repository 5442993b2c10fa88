--------------------------- MODULE OwnershipProof ---------------------------
(***************************************************************************)
(* The proof that an organization controls the domain of a site.  A        *)
(* challenge names a token; publishing it in a TXT record of the domain    *)
(* and having it verified makes the token the proof of the site, which     *)
(* expires and is refreshed by further lookups, and is lost for good when  *)
(* a lookup does not find the token.  A lookup takes seconds: what was     *)
(* read before it may have changed when its answer arrives.                *)
(***************************************************************************)
EXTENDS Naturals

CONSTANTS Calls,          \* requests of the web application, attempts of the worker
          MaxChallenges   \* bound

VARIABLES issued,      \* challenges ever issued, which number their tokens
          challenge,   \* row of site_verification_challenges, 0 when there is none
          lapsed,      \* its time is over
          site,        \* status of the site
          proof,       \* its ownership columns
          record,      \* tokens the TXT record of the domain holds
          call         \* calls under way

vars == <<issued, challenge, lapsed, site, proof, record, call>>

Tokens == 1..MaxChallenges
Proofs == [token: {0} \cup Tokens, expired: BOOLEAN, invalid: BOOLEAN]
NoProof == [token |-> 0, expired |-> FALSE, invalid |-> FALSE]
Kinds == {"issue", "verify", "refresh"}
Answers == {"none", "match", "missing", "outage"}
Call == [kind: Kinds \cup {"none"}, token: {0} \cup Tokens, answer: Answers]
NoCall == [kind |-> "none", token |-> 0, answer |-> "none"]

Init ==
  /\ issued = 0 /\ challenge = 0 /\ lapsed = FALSE
  /\ site = "pending" /\ proof = NoProof
  /\ record = {}
  /\ call = [c \in Calls |-> NoCall]

\* hasCompleteOwnershipProof and hasCurrentSiteOwnershipProof.  The columns
\* are set together; the address of a site never changes.
Complete == proof.token # 0
Current == site = "active" /\ Complete /\ ~proof.invalid /\ ~proof.expired

---------------------------------------------------------------------------
\* The administrator and the domain.

\* The record is edited outside of the program.
EditRecord ==
  /\ \E tokens \in SUBSET (1..issued) : record' = tokens
  /\ UNCHANGED <<issued, challenge, lapsed, site, proof, call>>

\* A site is paused and resumed by hand.
PauseOrResume ==
  /\ site # "pending"
  /\ site' = IF site = "active" THEN "paused" ELSE "active"
  /\ UNCHANGED <<issued, challenge, lapsed, proof, record, call>>

Expire ==
  /\ \/ challenge # 0 /\ lapsed' = TRUE /\ UNCHANGED proof
     \/ Complete /\ proof' = [proof EXCEPT !.expired = TRUE] /\ UNCHANGED lapsed
  /\ UNCHANGED <<issued, challenge, site, record, call>>

---------------------------------------------------------------------------
\* The calls.  What each reads first is all it knows when it acts.

Begin(c, kind, token) ==
  /\ call[c] = NoCall
  /\ call' = [call EXCEPT ![c] = [kind |-> kind, token |-> token, answer |-> "none"]]
  /\ UNCHANGED <<issued, challenge, lapsed, site, proof, record>>

\* createSiteVerificationChallenge refuses when the proof is current, then
\* replaces the challenge of the site, whatever happened in between.
BeginIssue(c) == ~Current /\ Begin(c, "issue", 0)
IssueChallenge(c) ==
  /\ call[c].kind = "issue" /\ issued < MaxChallenges
  /\ issued' = issued + 1
  /\ challenge' = issued + 1 /\ lapsed' = FALSE
  /\ call' = [call EXCEPT ![c] = NoCall]
  /\ UNCHANGED <<site, proof, record>>

\* verifySiteDnsChallenge: the challenge, or without one an expired proof.
BeginVerify(c) ==
  \/ challenge # 0 /\ ~lapsed /\ Begin(c, "verify", challenge)
  \/ /\ challenge = 0 /\ Complete /\ ~proof.invalid /\ proof.expired
     /\ site = "active" /\ Begin(c, "refresh", proof.token)

\* revalidateSiteOwnershipProof, ensureSiteOwnershipProof: forced, which every
\* Deep attempt does, or when the proof is stale.
BeginRefresh(c) ==
  /\ site = "active" /\ Complete /\ ~proof.invalid
  /\ Begin(c, "refresh", proof.token)

\* resolveTxtBounded and classifyOwnershipDnsFailure.
LookUp(c) ==
  /\ call[c].kind \in {"verify", "refresh"} /\ call[c].answer = "none"
  /\ \E answer \in {"outage", IF call[c].token \in record THEN "match" ELSE "missing"} :
       call' = [call EXCEPT ![c].answer = answer]
  /\ UNCHANGED <<issued, challenge, lapsed, site, proof, record>>

\* An outage, and an unknown token when verifying, end the call.
GiveUp(c) ==
  /\ \/ call[c].answer = "outage"
     \/ call[c].answer = "missing" /\ call[c].kind = "verify"
  /\ call' = [call EXCEPT ![c] = NoCall]
  /\ UNCHANGED <<issued, challenge, lapsed, site, proof, record>>

\* The challenge under its lock is still the one that was looked up.
\* Mutated, there is one.
AnyChallenge(c) == challenge # 0 /\ ~lapsed
SameChallenge(c) == challenge = call[c].token /\ ~lapsed

\* The challenge is deleted with its verification.  Mutated, it stays.
Kept == challenge
UsedUp == 0

\* The transaction of verifySiteDnsChallenge.
Verify(c) ==
  /\ call[c].kind = "verify" /\ call[c].answer = "match"
  /\ call' = [call EXCEPT ![c] = NoCall]
  /\ IF SameChallenge(c)
     THEN /\ proof' = [NoProof EXCEPT !.token = call[c].token]
          /\ site' = IF site = "pending" THEN "active" ELSE site
          /\ challenge' = UsedUp /\ lapsed' = FALSE
     ELSE UNCHANGED <<proof, site, challenge, lapsed>>
  /\ UNCHANGED <<issued, record>>

\* The proof is the one that was looked up and was not lost since.  Mutated,
\* any proof will do.
AnyValidProof(c) == ~proof.invalid
SameProof(c) == proof.token = call[c].token /\ ~proof.invalid

\* The transaction of a refresh that found its token.
Refresh(c) ==
  /\ call[c].kind = "refresh" /\ call[c].answer = "match"
  /\ call' = [call EXCEPT ![c] = NoCall]
  /\ proof' = IF site = "active" /\ SameProof(c)
              THEN [proof EXCEPT !.expired = FALSE] ELSE proof
  /\ UNCHANGED <<issued, challenge, lapsed, site, record>>

\* markOwnershipProofInvalidated: whatever the status of the site.
Invalidate(c) ==
  /\ call[c].kind = "refresh" /\ call[c].answer = "missing"
  /\ call' = [call EXCEPT ![c] = NoCall]
  /\ proof' = IF SameProof(c) THEN [proof EXCEPT !.invalid = TRUE] ELSE proof
  /\ UNCHANGED <<issued, challenge, lapsed, site, record>>

Step(c) == \/ BeginIssue(c) \/ IssueChallenge(c)
           \/ BeginVerify(c) \/ BeginRefresh(c) \/ LookUp(c) \/ GiveUp(c)
           \/ Verify(c) \/ Refresh(c) \/ Invalidate(c)
Next == \/ EditRecord \/ PauseOrResume \/ Expire
        \/ \E c \in Calls : Step(c)
Spec == Init /\ [][Next]_vars

---------------------------------------------------------------------------
\* The types of all variables; a pending site has no proof, and no token is
\* both challenged and proved.
TypeOK ==
  /\ issued \in 0..MaxChallenges /\ challenge \in 0..issued /\ lapsed \in BOOLEAN
  /\ site \in {"pending", "active", "paused"}
  /\ proof \in Proofs /\ proof.token <= issued
  /\ record \subseteq 1..issued
  /\ call \in [Calls -> Call]
  /\ site = "pending" <=> proof.token = 0
  /\ challenge # 0 => challenge > proof.token

\* A token becomes the proof at most once, as the newest challenge there is,
\* and no lookup that began before a challenge was replaced can bring back an
\* older one.  A proof that was lost comes back only so.
ProofsFollowChallenges ==
  [][/\ proof'.token # proof.token =>
          proof'.token = challenge /\ proof'.token = issued /\ challenge' = 0
     /\ proof.invalid /\ ~proof'.invalid => proof'.token # proof.token]_vars

\* A proof is prolonged only by an answer that held its own token, and is lost
\* only by an answer that missed it: neither an outage nor an answer about an
\* earlier proof does either.
ProofsFollowLookups ==
  [][\A answer \in {"match", "missing"} :
       /\ proof'.token = proof.token
       /\ \/ answer = "match" /\ proof.expired /\ ~proof'.expired
          \/ answer = "missing" /\ ~proof.invalid /\ proof'.invalid
       => \E c \in Calls : call[c].answer = answer /\ call[c].token = proof.token]_vars
=============================================================================
