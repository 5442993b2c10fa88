-------------------------- MODULE VersionMatching --------------------------
(***************************************************************************)
(* How an observed technology is compared with the rules of an advisory:   *)
(* packages/contracts/src/vulnerability-matching.ts, the aliases of        *)
(* vulnerability-products.ts and the choice among several rules of         *)
(* apps/worker/src/vulnerability-correlation.ts.  A pure algorithm: one    *)
(* comparison is chosen, and the property holds of its result.             *)
(*                                                                         *)
(* A version is a triple of numbers, <<>> when it is not of the form       *)
(* a.b.c, and None when it is absent (for an exact version of a rule, "*"  *)
(* and "-" are absent too).                                                *)
(***************************************************************************)
EXTENDS Naturals, Sequences

CONSTANTS Versions,   \* the readable versions that bounds are chosen from
          Radix       \* above each part of them

VARIABLE comparison   \* the comparison that was made, as a set of one

None == <<"none">>
Unreadable == <<>>
Readable(v) == v \in Versions
Bound == Versions \cup {None, Unreadable}

\* The aliases of a product: NVD files nginx under two vendors, and an
\* unknown product only matches its own name.
Aliases == [nginx |-> {"f5:nginx", "nginx:nginx"}, php |-> {"php:php"}]
ProductMatches(observation, rule) ==
  IF observation.product \in DOMAIN Aliases
  THEN rule.product \in Aliases[observation.product]
  ELSE rule.product = observation.product

BeforeAsText(v, w) ==
  LET Text(n) == IF n > 9 THEN n \div 10 ELSE n
  IN  \E i \in DOMAIN v : Text(v[i]) < Text(w[i]) /\ \A j \in 1..i-1 : v[j] = w[j]
\* compareVersions: component by component, the first difference decides.
Before(v, w) ==
  \E i \in DOMAIN v : v[i] < w[i] /\ \A j \in 1..i-1 : v[j] = w[j]

-----------------------------------------------------------------------------
(* One rule: an exact version, or versionStartIncluding (from),            *)
(* versionStartExcluding (after), versionEndIncluding (upto) and           *)
(* versionEndExcluding (before).                                           *)

\* affectedRange is empty exactly when nothing is given.
Given(rule) == {b \in {"exact", "from", "after", "upto", "before"} : rule[b] # None}

Holds(v, bound, rule) ==
  CASE bound = "exact"  -> v = rule.exact
    [] bound = "from"   -> ~Before(v, rule.from)
    [] bound = "after"  -> Before(rule.after, v)
    [] bound = "upto"   -> ~Before(rule.upto, v)
    [] bound = "before" -> Before(v, rule.before)

Trusted(observation) ==
  observation.exact /\ observation.high /\ Readable(observation.version)

\* Nothing, both bounds of one side, or an exact version beside a bound.
Contradictory(rule) ==
  \/ Given(rule) = {}
  \/ {"from", "after"} \subseteq Given(rule)
  \/ {"upto", "before"} \subseteq Given(rule)
  \/ "exact" \in Given(rule) /\ Given(rule) # {"exact"}

Lower(rule) == IF rule.from # None THEN rule.from ELSE rule.after
Upper(rule) == IF rule.upto # None THEN rule.upto ELSE rule.before
\* Both sides are given and exclude every version.
Inverted(rule) ==
  /\ Readable(Lower(rule)) /\ Readable(Upper(rule))
  /\ \/ Before(Upper(rule), Lower(rule))
     \/ Lower(rule) = Upper(rule) /\ {"after", "before"} \cap Given(rule) # {}

\* matchTechnologyToRule, in the order of its returns.
Match(observation, rule) ==
  IF ~ProductMatches(observation, rule) THEN "not_applicable"
  ELSE IF \/ ~Trusted(observation) \/ rule.context \/ Contradictory(rule)
          \/ \E b \in Given(rule) : ~Readable(rule[b])
          \/ Inverted(rule) THEN "potential"
  ELSE IF \A b \in Given(rule) : Holds(observation.version, b, rule)
       THEN "confirmed" ELSE "not_applicable"

\* chooseMatch and matchTechnologyToRules: one affected rule is enough, one
\* undecided rule keeps the advisory.
Choose(results) ==
  IF "confirmed" \in results THEN "confirmed"
  ELSE IF "potential" \in results THEN "potential" ELSE "not_applicable"

-----------------------------------------------------------------------------
(* The comparisons: every rule for a handful of observations, alone or     *)
(* beside a rule that affects, spares or cannot decide a version.          *)

Observations ==
  [product : {"nginx"}, version : Versions, exact : {TRUE}, high : {TRUE}]
  \cup [product : {"nginx", "php", "other"}, version : Bound, exact : BOOLEAN, high : BOOLEAN]

NoRule == [product |-> "f5:nginx", exact |-> None, from |-> None, after |-> None,
           upto |-> None, before |-> None, context |-> FALSE]
\* All bounds for one product, and all products with a few bounds.
Rules ==
  [product : {"f5:nginx"}, exact : {None, Unreadable} \cup Versions, from : Bound,
   after : Bound, upto : Bound, before : Bound, context : {FALSE}]
Variants ==
  {[NoRule EXCEPT !.product = p, !.exact = v, !.context = c] :
     p \in {"f5:nginx", "nginx:nginx", "php:php", "other"}, v \in Bound, c \in BOOLEAN}

Init == comparison = {}
Compared(observation, rules) ==
  comparison' = {[observation |-> observation, rules |-> rules,
                  result |-> Choose({Match(observation, rule) : rule \in rules})]}

\* reconcileTechnologyObservation compares an observation with the rules of
\* an advisory: one of them here ...
CompareOne ==
  comparison = {} /\ \E rule \in Rules, v \in Versions :
    Compared([product |-> "nginx", version |-> v, exact |-> TRUE, high |-> TRUE], {rule})
\* ... or two.
CompareTwo ==
  comparison = {} /\ \E o \in Observations, r, s \in Variants : Compared(o, {r, s})

Next == CompareOne \/ CompareTwo

TypeOK == \A c \in comparison : c.result \in {"confirmed", "potential", "not_applicable"}

-----------------------------------------------------------------------------
(* What the answer means, by the versions that a rule describes.           *)

\* The place of a version among all versions, however its parts compare.
Rank(v) == (v[1] * Radix + v[2]) * Radix + v[3]

\* The versions a rule calls affected, by their rank: unlike Holds this is
\* one interval.
Affected(rule) ==
  {v \in Versions :
     /\ rule.exact  # None => Rank(v) = Rank(rule.exact)
     /\ rule.from   # None => Rank(v) >= Rank(rule.from)
     /\ rule.after  # None => Rank(v) > Rank(rule.after)
     /\ rule.upto   # None => Rank(v) <= Rank(rule.upto)
     /\ rule.before # None => Rank(v) < Rank(rule.before)}

\* A rule that can be decided: it says something, once a side, legibly, and
\* is not empty by its own two ends.
Decidable(rule) ==
  /\ ~rule.context
  /\ \A b \in Given(rule) : Readable(rule[b])
  /\ \/ Given(rule) = {"exact"}
     \/ Given(rule) \in {{s} : s \in {"from", "after", "upto", "before"}}
     \/ Given(rule) = {"from", "upto"} /\ Rank(rule.from) <= Rank(rule.upto)
     \/ \E l \in {"from", "after"}, u \in {"upto", "before"} :
          /\ Given(rule) = {l, u} /\ {l, u} # {"from", "upto"}
          /\ Rank(rule[l]) < Rank(rule[u])

\* An advisory is confirmed only by a rule of the product that describes the
\* very version, and is set aside only when every rule of the product can be
\* decided and describes other versions; everything else stays a question.
\* A boundary taken the wrong way, 1.10 read as less than 1.9, or one
\* excluding rule that hides an undecided one would hide a vulnerability.
MatchingIsSound ==
  \A c \in comparison :
    LET o == c.observation
        about == {r \in c.rules : ProductMatches(o, r)}
        decided == {r \in about : Trusted(o) /\ Decidable(r)}
    IN  c.result =
          CASE \E r \in decided : o.version \in Affected(r) -> "confirmed"
            [] \A r \in about : r \in decided /\ o.version \notin Affected(r) -> "not_applicable"
            [] OTHER -> "potential"
=============================================================================
