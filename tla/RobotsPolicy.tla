---------------------------- MODULE RobotsPolicy ----------------------------
(***************************************************************************)
(* What a robots.txt allows: apps/worker/src/scanner-v2/robots.ts.  A file *)
(* is read into groups of rules, the groups of our agent are chosen, and   *)
(* each of their patterns is matched with the path of a page by a loop     *)
(* that falls back to the last star and has a budget for all rules.        *)
(*                                                                         *)
(* A line is [key, value]: an agent, or a pattern as a sequence of         *)
(* characters; "*" stands for any characters and a last "$" for the end.   *)
(***************************************************************************)
EXTENDS Naturals, Sequences, SequencesExt

CONSTANTS Files, Paths,    \* what is read, and for which paths
          Agent,           \* our own token
          MaxRules,        \* MAX_ROBOTS_RULES
          MaxMatchSteps    \* MAX_ROBOTS_MATCH_STEPS

VARIABLES file, path,
          rules,     \* those still to be matched, the first one now
          at,        \* the indices of ruleMatches
          winner,    \* the rule that decides so far, as a set
          budget,    \* steps left
          verdict    \* "unread", "read", "none", "allowed" or "refused"

vars == <<file, path, rules, at, winner, budget, verdict>>

-----------------------------------------------------------------------------
(* parseRobotsTxt.                                                         *)

\* An agent line after a rule begins a group; an empty Disallow only ends the
\* list of agents.  Mutated, each agent line begins a group.
AgentAlone(groups, line) ==
  Append(groups, [agents |-> {line.value}, rules |-> <<>>, closed |-> FALSE])
AgentLine(groups, line) ==
  IF groups = <<>> \/ Last(groups).closed
  THEN Append(groups, [agents |-> {line.value}, rules |-> <<>>, closed |-> FALSE])
  ELSE [groups EXCEPT ![Len(groups)].agents = @ \cup {line.value}]
RuleLine(groups, line) ==
  IF groups = <<>> THEN groups
  ELSE LET empty == line.key = "disallow" /\ line.value = <<>>
       IN  [groups EXCEPT ![Len(groups)].closed = TRUE,
                          ![Len(groups)].rules = IF empty THEN @ ELSE Append(@, line)]
Read(groups, line) ==
  IF line.key = "agent" THEN AgentLine(groups, line) ELSE RuleLine(groups, line)
Groups(lines) ==
  LET read[n \in 0..Len(lines)] == IF n = 0 THEN <<>> ELSE Read(read[n - 1], lines[n])
  IN  read[Len(lines)]

\* The rules of the groups of our agent, or else of those of every agent.
RulesFor(groups, agent) ==
  FlattenSeq([i \in DOMAIN groups |-> IF agent \in groups[i].agents THEN groups[i].rules ELSE <<>>])
Chosen(groups) ==
  RulesFor(groups, IF \E i \in DOMAIN groups : Agent \in groups[i].agents THEN Agent ELSE "*")

TooMany(groups) == Len(FlattenSeq([i \in DOMAIN groups |-> groups[i].rules])) > MaxRules

-----------------------------------------------------------------------------
(* isRobotsPathAllowed and ruleMatches.                                    *)

Start == [pattern |-> 1, path |-> 1, star |-> 0, back |-> 0]

Init ==
  /\ file = <<>> /\ path = <<>> /\ rules = <<>>
  /\ at = Start /\ winner = {} /\ budget = MaxMatchSteps
  /\ verdict = "unread"

\* A file is read ...
Load ==
  /\ verdict = "unread"
  /\ \E f \in Files :
       LET groups == Groups(f)
       IN  /\ file' = f
           /\ IF TooMany(groups) THEN verdict' = "refused" /\ UNCHANGED rules
              ELSE verdict' = "read" /\ rules' = Chosen(groups)
  /\ UNCHANGED <<path, at, winner, budget>>

\* ... and asked about a path.
Ask ==
  /\ verdict = "read" /\ path' \in Paths /\ verdict' = "none"
  /\ UNCHANGED <<file, rules, at, winner, budget>>

Anchored(rule) == rule.value # <<>> /\ Last(rule.value) = "$"
Body(rule) == IF Anchored(rule) THEN Front(rule.value) ELSE rule.value

\* One turn of the loop of ruleMatches.  At the end of the path the stars
\* that are left cost a step each.
PatternEnds == at.pattern > Len(Body(Head(rules)))
PathEnds == at.path > Len(path)
Character == Body(Head(rules))[at.pattern]
StarsLeft == IF PathEnds /\ ~PatternEnds
             THEN Cardinality({i \in DOMAIN Body(Head(rules)) :
                    /\ i >= at.pattern
                    /\ \A j \in at.pattern..i : Body(Head(rules))[j] = "*"})
             ELSE 0
Matches == \/ ~Anchored(Head(rules)) /\ PatternEnds
           \/ PathEnds /\ at.pattern + StarsLeft > Len(Body(Head(rules)))
Fails == /\ ~Matches
         /\ \/ PathEnds
            \/ at.star = 0 /\ (PatternEnds \/ Character \notin {"*", path[at.path]})
\* Where the loop goes on otherwise.
Advanced ==
  IF ~PatternEnds /\ Character = "*"
  THEN [at EXCEPT !.star = at.pattern, !.back = at.path, !.pattern = @ + 1]
  ELSE IF ~PatternEnds /\ Character = path[at.path]
  THEN [at EXCEPT !.pattern = @ + 1, !.path = @ + 1]
  ELSE [at EXCEPT !.back = @ + 1, !.path = at.back + 1, !.pattern = at.star + 1]

\* The longest pattern decides, and of two as long the one that allows.
Better(rule, other) ==
  \/ Len(rule.value) > Len(other.value)
  \/ Len(rule.value) = Len(other.value) /\ rule.key = "allow"
Won(rule) == IF \A other \in winner : Better(rule, other) THEN {rule} ELSE winner

Cost == 1 + IF Matches \/ Fails THEN StarsLeft ELSE 0
Step ==
  /\ verdict = "none" /\ rules # <<>> /\ Head(rules).value # <<>> /\ budget >= Cost
  /\ budget' = budget - Cost
  /\ IF Matches \/ Fails THEN at' = Start /\ rules' = Tail(rules)
                         ELSE at' = Advanced /\ UNCHANGED rules
  /\ winner' = IF Matches THEN Won(Head(rules)) ELSE winner
  /\ UNCHANGED <<file, path, verdict>>

\* An empty pattern is passed over.
Skip ==
  /\ verdict = "none" /\ rules # <<>> /\ Head(rules).value = <<>>
  /\ rules' = Tail(rules)
  /\ UNCHANGED <<file, path, at, winner, budget, verdict>>

Decide ==
  /\ verdict = "none"
  /\ \/ /\ rules = <<>>
        /\ verdict' = IF \E rule \in winner : rule.key = "disallow" THEN "refused" ELSE "allowed"
     \/ /\ rules # <<>> /\ Head(rules).value # <<>> /\ budget < Cost
        /\ verdict' = "refused"
  /\ UNCHANGED <<file, path, rules, at, winner, budget>>

Next == Load \/ Ask \/ Step \/ Skip \/ Decide
Spec == Init /\ [][Next]_vars

-----------------------------------------------------------------------------
TypeOK ==
  /\ verdict = "unread" => file = <<>> /\ rules = <<>>
  /\ path \in Paths \cup {<<>>}
  /\ at.path \in 1..Len(path) + 1 /\ at.back \in 0..Len(path) + 1 /\ at.star < at.pattern
  /\ Cardinality(winner) <= 1 /\ budget \in 0..MaxMatchSteps
  /\ verdict \in {"unread", "read", "none", "allowed", "refused"}

\* The agents a rule is for: the last run of agent lines before it.
AgentsOf(lines, i) ==
  {lines[j].value : j \in {j \in 1..i - 1 : /\ lines[j].key = "agent"
     /\ ~ \E k, l \in j..i - 1 : k < l /\ lines[k].key # "agent" /\ lines[l].key = "agent"}}
\* The lines that concern us.
OurLines(lines) ==
  LET named == \E i \in DOMAIN lines : lines[i] = [key |-> "agent", value |-> Agent]
  IN  {i \in DOMAIN lines : /\ lines[i].key # "agent"
                            /\ (IF named THEN Agent ELSE "*") \in AgentsOf(lines, i)}

\* The lengths of the beginnings of a path that the beginnings of a pattern
\* cover.
Covers(route, lengths, c) ==
  IF c = "*" THEN {n \in 0..Len(route) : \E m \in lengths : m <= n}
  ELSE {n \in 1..Len(route) : n - 1 \in lengths /\ route[n] = c}
Lengths(route, pattern) ==
  LET covered[n \in 0..Len(pattern)] ==
        IF n = 0 THEN {0} ELSE Covers(route, covered[n - 1], pattern[n])
  IN  covered
Covered(route, rule) ==
  /\ rule.value # <<>>
  /\ LET lengths == Lengths(route, Body(rule))[Len(Body(rule))]
     IN  IF Anchored(rule) THEN Len(route) \in lengths ELSE lengths # {}

\* A line forbids the path when no line that concerns us too and allows it
\* is as long.
Forbidden(lines, route) ==
  LET ours == {lines[i] : i \in {i \in OurLines(lines) : Covered(route, lines[i])}}
  IN  \E rule \in ours : /\ rule.key = "disallow"
                         /\ \A other \in ours : other.key = "allow" =>
                              Len(other.value) < Len(rule.value)

\* A page is taken for allowed only if the file allows it, and is refused
\* only if the file forbids it, has too many rules or is too costly to match.
RobotsAsPublished ==
  /\ verdict = "allowed" => ~Forbidden(file, path)
  /\ verdict = "refused" => Forbidden(file, path) \/ TooMany(Groups(file)) \/ rules # <<>>
=============================================================================
