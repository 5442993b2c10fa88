----------------------------- MODULE DeepGrants -----------------------------
(***************************************************************************)
(* The grants an administrator may add to the proof of a site, and revoke, *)
(* to allow Deep audits.  An attempt looks up the TXT record, takes the    *)
(* identity of the proof and of the grant it was allowed with, works for   *)
(* minutes, and stores its results only if nothing of it changed.  The     *)
(* lease of attempts is DeepLease's: here it lives until it is ended.      *)
(***************************************************************************)
EXTENDS Naturals

CONSTANTS Attempts,     \* executions of Deep audits of the site, one after the other
          Admins,       \* calls of administrators under way
          MaxGrants,    \* bound: challenges issued
          MaxProofs     \* bound: changes of the proof of the site

VARIABLES site,         \* its ownership proof: which and whether current
          issued, challenge, lapsed,    \* as in OwnershipProof, of the grant
          grant,        \* row of deep_audit_authorizations
          record,       \* grant tokens the TXT record holds
          admin,        \* calls of verifyDeepAuditChallenge
          attempt

vars == <<site, issued, challenge, lapsed, grant, record, admin, attempt>>

NoGrant == [token |-> 0, revoked |-> FALSE, expired |-> FALSE]
NoCall == [token |-> 0, matched |-> FALSE]
\* status: the attempt; read: the grant's token when it began, 0 without one;
\* proof, token: the identity it was allowed with; leased: its lease was not
\* ended; outlived: a revocation or rotation since it began, which only the
\* properties look at.
Fresh == [status |-> "new", read |-> 0, matched |-> FALSE, proof |-> 0,
          token |-> 0, leased |-> FALSE, outlived |-> FALSE]

Init ==
  /\ site = [proof |-> 1, current |-> TRUE]
  /\ issued = 0 /\ challenge = 0 /\ lapsed = FALSE
  /\ grant = NoGrant
  /\ record = {}
  /\ admin = [c \in Admins |-> NoCall]
  /\ attempt = [a \in Attempts |-> Fresh]

Running == {"lookup", "answered", "allowed"}
Under == {a \in Attempts : attempt[a].status \in Running}

---------------------------------------------------------------------------
\* The web application.

\* fenceRunningDeepAttempts.  Mutated, only those that were allowed with the
\* grant are fenced.
FencedHolders == [a \in Attempts |->
  IF a \notin Under THEN attempt[a]
  ELSE [attempt[a] EXCEPT !.outlived = TRUE,
          !.leased = @ /\ (grant.token = 0 \/ attempt[a].token # grant.token)]]
Fenced == [a \in Attempts |->
  IF a \notin Under THEN attempt[a]
  ELSE [attempt[a] EXCEPT !.outlived = TRUE, !.leased = FALSE]]
Revoked == IF grant = NoGrant THEN grant ELSE [grant EXCEPT !.revoked = TRUE]

\* issueDeepAuditChallenge: rotation revokes the grant.  That a paused site is
\* refused is left out.
IssueChallenge ==
  /\ issued < MaxGrants
  /\ issued' = issued + 1 /\ challenge' = issued + 1 /\ lapsed' = FALSE
  /\ grant' = Revoked /\ attempt' = Fenced
  /\ UNCHANGED <<site, record, admin>>

\* revokeDeepAuditGrant, which drops the challenge too.
Revoke ==
  /\ challenge' = 0 /\ lapsed' = FALSE
  /\ grant' = Revoked /\ attempt' = Fenced
  /\ UNCHANGED <<site, issued, record, admin>>

\* verifyDeepAuditChallenge reads the challenge and looks it up.
BeginVerify(c) ==
  /\ admin[c] = NoCall /\ challenge # 0
  /\ admin' = [admin EXCEPT ![c].token = challenge]
  /\ UNCHANGED <<site, issued, challenge, lapsed, grant, record, attempt>>

LookUpChallenge(c) ==
  /\ admin[c].token # 0 /\ ~admin[c].matched
  /\ admin' = [admin EXCEPT ![c] = IF @.token \in record THEN [@ EXCEPT !.matched = TRUE]
                                   ELSE NoCall]
  /\ UNCHANGED <<site, issued, challenge, lapsed, grant, record, attempt>>

\* The challenge under its lock.  Mutated, it is not compared with the one
\* that was looked up.
SomeChallenge(c) == ~lapsed
SameChallenge(c) == challenge = admin[c].token /\ ~lapsed

Verify(c) ==
  /\ admin[c].matched
  /\ admin' = [admin EXCEPT ![c] = NoCall]
  /\ IF SameChallenge(c)
     THEN /\ grant' = [NoGrant EXCEPT !.token = admin[c].token]
          /\ challenge' = 0
     ELSE UNCHANGED <<grant, challenge>>
  /\ UNCHANGED <<site, issued, lapsed, record, attempt>>

EditRecord ==
  /\ \E tokens \in SUBSET (1..issued) : record' = tokens
  /\ UNCHANGED <<site, issued, challenge, lapsed, grant, admin, attempt>>

Expire ==
  /\ \/ challenge # 0 /\ lapsed' = TRUE /\ UNCHANGED grant
     \/ grant # NoGrant /\ grant' = [grant EXCEPT !.expired = TRUE] /\ UNCHANGED lapsed
  /\ UNCHANGED <<site, issued, challenge, record, admin, attempt>>

\* OwnershipProof: a call of another process refreshes or replaces the proof,
\* or it ends: it expires, is lost, or the site is paused.
OwnershipChanges ==
  /\ \/ site.proof < MaxProofs /\ site' = [proof |-> site.proof + 1, current |-> TRUE]
     \/ site.current /\ site' = [site EXCEPT !.current = FALSE]
  /\ UNCHANGED <<issued, challenge, lapsed, grant, record, admin, attempt>>

---------------------------------------------------------------------------
\* The attempts.

Set(a, value) ==
  /\ attempt' = [attempt EXCEPT ![a] = value]
  /\ UNCHANGED <<issued, challenge, lapsed, record, admin>>

Stop(a) == [Fresh EXCEPT !.status = "denied"]

\* claimDeepAttempt, then revalidateDeepAuditAuthorization reads the grant.
\* One attempt runs at a time; after a fence the next may begin.
Start(a) ==
  /\ attempt[a] = Fresh
  /\ \A b \in Under : ~attempt[b].leased
  /\ Set(a, [Fresh EXCEPT !.status = "lookup", !.leased = TRUE, !.read = grant.token])
  /\ UNCHANGED <<site, grant>>

\* ensureSiteOwnershipProof, forced: the answer prolongs the proof, which
\* changes its identity, and tells whether the grant's token is there too.
\* Without an answer, or with a grant that is over, the attempt is denied.
LookUp(a) ==
  /\ attempt[a].status = "lookup"
  /\ \/ /\ site.proof < MaxProofs
        /\ site' = [proof |-> site.proof + 1, current |-> TRUE]
        /\ Set(a, [attempt[a] EXCEPT !.status = "answered", !.proof = site.proof + 1,
                     !.matched = attempt[a].read # 0 /\ attempt[a].read \in record])
     \/ Set(a, Stop(a)) /\ UNCHANGED site
  /\ UNCHANGED grant

\* The second transaction of revalidateDeepAuditAuthorization, under the locks
\* of the site and of the grant.
Allowable(a) ==
  /\ site.current /\ site.proof = attempt[a].proof
  /\ attempt[a].read # 0 =>
       /\ attempt[a].matched /\ grant.token = attempt[a].read
       /\ ~grant.revoked /\ ~grant.expired

Allow(a) ==
  /\ attempt[a].status = "answered"
  /\ IF Allowable(a)
     THEN Set(a, [attempt[a] EXCEPT !.status = "allowed", !.token = attempt[a].read])
     ELSE Set(a, Stop(a))
  /\ UNCHANGED <<site, grant>>

\* persistDeepCheckRuns, under the same locks.  A grant the attempt was not
\* allowed with is not read.
MayPersist(a) ==
  /\ attempt[a].leased
  /\ site.current /\ site.proof = attempt[a].proof
  /\ attempt[a].token # 0 =>
       /\ grant.token = attempt[a].token
       /\ ~grant.revoked /\ ~grant.expired

Persist(a) ==
  /\ attempt[a].status = "allowed"
  /\ Set(a, IF MayPersist(a) THEN [Fresh EXCEPT !.status = "persisted"] ELSE Stop(a))
  /\ UNCHANGED <<site, grant>>

Step(a) == Start(a) \/ LookUp(a) \/ Allow(a) \/ Persist(a)
Next == \/ IssueChallenge \/ Revoke \/ EditRecord \/ Expire \/ OwnershipChanges
        \/ \E c \in Admins : BeginVerify(c) \/ LookUpChallenge(c) \/ Verify(c)
        \/ \E a \in Attempts : Step(a)
Spec == Init /\ [][Next]_vars

---------------------------------------------------------------------------
\* The types of all variables.
TypeOK ==
  /\ site \in [proof: 1..MaxProofs, current: BOOLEAN]
  /\ issued \in 0..MaxGrants /\ challenge \in 0..issued /\ lapsed \in BOOLEAN
  /\ grant \in [token: 0..issued, revoked: BOOLEAN, expired: BOOLEAN]
  /\ record \subseteq 1..issued
  /\ admin \in [Admins -> [token: 0..issued, matched: BOOLEAN]]
  /\ attempt \in [Attempts -> [status: Running \cup {"new", "denied", "persisted"},
                               read: 0..issued, matched: BOOLEAN, proof: 0..MaxProofs,
                               token: 0..issued, leased: BOOLEAN, outlived: BOOLEAN]]

\* Results are stored only by an attempt that began after the last revocation
\* or rotation, whether it was allowed with a grant, before one was issued, or
\* while the revocation went on.
RevocationStopsResults ==
  [][\A a \in Attempts :
       attempt[a].status = "allowed" /\ attempt'[a].status = "persisted"
         => ~attempt[a].outlived]_vars

\* A revoked grant is replaced only by one whose challenge was issued after
\* the revocation: a verification already under way does not bring it back.
RevokedStaysRevoked ==
  [][grant.revoked /\ ~grant'.revoked =>
       grant'.token > grant.token /\ grant'.token = challenge]_vars
=============================================================================
