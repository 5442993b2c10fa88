----------------------------- MODULE PartsProofs -----------------------------
(***************************************************************************)
(* Theorems of three parts of Components: what a robots.txt allows         *)
(* (RobotsPolicy, which this module extends), the weekly schedule and the  *)
(* record of the loading of a page, for any files, patterns and paths, any *)
(* weeks, clocks and slots, and any requests.                              *)
(***************************************************************************)
EXTENDS RobotsPolicy, FiniteSetTheorems, SequenceTheorems, TLAPS

CONSTANTS Workers, Days, Day, Spring, Fall, Shift, Slots, Skew, MaxTime, MaxSaves,
          Requests, Urls, Size, MaxItems, MaxEntries

VARIABLES now, row, since, tick, runs, saves,
          phase, url, outside, wire, item, headers, sizes, awaited, truncated, timings, analysis

W == INSTANCE WeeklySchedule
M == INSTANCE ObservedPerformance

Line == [key : {"agent"}, value : STRING] \cup [key : {"allow", "disallow"}, value : Seq(STRING)]
Rule == [key : {"allow", "disallow"}, value : Seq(STRING)]
Group == [agents : SUBSET STRING, rules : Seq(Rule), closed : BOOLEAN]

---------------------------------------------------------------------------
(* Functions that are defined by what comes before.                        *)

LEMMA LeastNumber ==
  ASSUME NEW T, T \subseteq Nat, T # {}
  PROVE  \E x \in T : \A y \in T : x <= y
<1> DEFINE R == OpToRel(<, Nat)
<1>1. IsWellFoundedOn(R, Nat)
  BY NatLessThanWellFounded
<1>2. \A x, y \in Nat : y < x => <<y, x>> \in R
  BY DEF OpToRel
<1> HIDE DEF R
<1>3. PICK x \in T : \A y \in T : ~ (<<y, x>> \in R)
  BY <1>1, WFMin
<1>4. \A y \in T : ~(y < x)
  BY <1>2, <1>3
<1>5. \A y \in T : x <= y
  BY <1>4
<1> QED
  BY <1>5

\* Induction on a set of numbers.
LEMMA AllNumbers ==
  ASSUME NEW S, NEW b \in Nat, NEW k \in Nat, b \in S, \A n \in b + 1..k : n - 1 \in S => n \in S
  PROVE  \A n \in b..k : n \in S
<1> DEFINE T == (b..k) \ S
<1>1. SUFFICES ASSUME T # {} PROVE FALSE
  OBVIOUS
<1>2. T \subseteq Nat
  OBVIOUS
<1> HIDE DEF T
<1>3. PICK x \in T : \A y \in T : x <= y
  BY <1>1, <1>2, LeastNumber
<1>4. x \in b + 1..k /\ x - 1 \in b..k
  BY <1>3 DEF T
<1>5. x - 1 \notin T
  BY <1>3, <1>4
<1> QED
  BY <1>3, <1>4, <1>5 DEF T

Defined(V, b, k, base, step) ==
  \E g \in [b..k -> V] : g[b] = base /\ \A n \in b + 1..k : g[n] = step[<<g[n - 1], n>>]

LEMMA Recursion ==
  ASSUME NEW V, NEW b \in Nat, NEW k \in Nat, b <= k, NEW base \in V,
         NEW step \in [V \X (b + 1..k) -> V]
  PROVE  Defined(V, b, k, base, step)
<1> DEFINE Fits(g, m) == g = [n \in b..m |-> IF n = b THEN base ELSE step[<<g[n - 1], n>>]]
<1> DEFINE S == {m \in b..k : \E g \in [b..m -> V] : Fits(g, m)}
<1>1. b \in S
  <2> DEFINE g == [n \in b..b |-> base]
  <2>1. g \in [b..b -> V]
    OBVIOUS
  <2>2. \A n \in b..b : base = IF n = b THEN base ELSE step[<<g[n - 1], n>>]
    OBVIOUS
  <2>3. g = [n \in b..b |-> base]
    OBVIOUS
  <2> HIDE DEF g
  <2>4. Fits(g, b)
    BY <2>2, <2>3
  <2> QED
    BY <2>1, <2>4
<1>2. ASSUME NEW m \in b + 1..k, m - 1 \in S
      PROVE  m \in S
  <2>1. PICK g \in [b..m - 1 -> V] : Fits(g, m - 1)
    BY <1>2
  <2> DEFINE h == [n \in b..m |-> IF n = m THEN step[<<g[m - 1], m>>] ELSE g[n]]
  <2>2. g[m - 1] \in V /\ step[<<g[m - 1], m>>] \in V
    OBVIOUS
  <2>3. h \in [b..m -> V]
    BY <2>2
  <2>4. ASSUME NEW n \in b..m
        PROVE  h[n] = IF n = b THEN base ELSE step[<<h[n - 1], n>>]
    <3>1. CASE n = m
      <4>1. h[m - 1] = g[m - 1] /\ m # b
        OBVIOUS
      <4> QED
        BY <3>1, <4>1
    <3>2. CASE n # m /\ n # b
      <4>1. n \in b..m - 1 /\ n - 1 \in b..m - 1 /\ n - 1 # m
        BY <3>2
      <4>2. g[n] = step[<<g[n - 1], n>>]
        BY <2>1, <3>2, <4>1
      <4>3. h[n] = g[n] /\ h[n - 1] = g[n - 1]
        BY <3>2, <4>1
      <4> QED
        BY <3>2, <4>2, <4>3
    <3>3. CASE n # m /\ n = b
      <4>1. g[b] = base /\ h[b] = g[b]
        BY <2>1, <3>3
      <4> QED
        BY <3>3, <4>1
    <3> QED
      BY <3>1, <3>2, <3>3
  <2> HIDE DEF h
  <2>5. DOMAIN h = b..m /\ h = [n \in b..m |-> h[n]]
    BY <2>3
  <2>6. Fits(h, m)
    BY Zenon, <2>4, <2>5
  <2>7. m \in b..k
    OBVIOUS
  <2> QED
    BY Zenon, <2>3, <2>6, <2>7
<1> HIDE DEF S
<1>3. k \in S
  BY <1>1, <1>2, AllNumbers
<1>4. PICK g \in [b..k -> V] : Fits(g, k)
  BY <1>3 DEF S
<1>5. g[b] = base /\ \A n \in b + 1..k : g[n] = step[<<g[n - 1], n>>]
  BY <1>4
<1> QED
  BY <1>5 DEF Defined

---------------------------------------------------------------------------
(* The groups of a file.                                                   *)

LEMMA Lines ==
  ASSUME NEW f \in Seq(Line), NEW i \in 1..Len(f)
  PROVE  /\ f[i] \in Line
         /\ f[i].key = "agent" => f[i] = [key |-> "agent", value |-> f[i].value] /\ f[i].value \in STRING
         /\ f[i].key # "agent" => f[i] \in Rule
<1>1. f[i] \in Line
  BY ElementOfSeq
<1>2. CASE f[i] \in [key : {"agent"}, value : STRING]
  BY <1>1, <1>2
<1>3. CASE f[i] \in [key : {"allow", "disallow"}, value : Seq(STRING)]
  BY <1>1, <1>3 DEF Rule
<1> QED
  BY <1>1, <1>2, <1>3 DEF Line

\* The agent line at j is in the run of agent lines before line i.
Near(f, j, i) == /\ f[j].key = "agent"
                 /\ \A k, l \in j..i - 1 : k < l /\ f[l].key = "agent" => f[k].key = "agent"

LEMMA AgentsAre ==
  ASSUME NEW f, NEW i \in Nat, NEW a
  PROVE  a \in AgentsOf(f, i) <=> \E j \in 1..i - 1 : Near(f, j, i) /\ a = f[j].value
BY DEF AgentsOf, Near

LEMMA AgentsKept ==
  ASSUME NEW f \in Seq(Line), NEW n \in 1..Len(f), f[n].key # "agent"
  PROVE  AgentsOf(f, n + 1) = AgentsOf(f, n)
<1>1. ASSUME NEW j \in 1..n
      PROVE  Near(f, j, n + 1) <=> j < n /\ Near(f, j, n)
  <2>1. (n + 1) - 1 = n /\ j \in Nat /\ n \in Nat
    OBVIOUS
  <2>2. ASSUME Near(f, j, n + 1)
        PROVE  j < n /\ Near(f, j, n)
    BY <2>1, <2>2 DEF Near
  <2>3. ASSUME j < n, Near(f, j, n), NEW k \in j..n, NEW l \in j..n, k < l, f[l].key = "agent"
        PROVE  f[k].key = "agent"
    <3>1. k \in j..n - 1 /\ l \in j..n - 1
      BY <2>3
    <3> QED
      BY <2>3, <3>1 DEF Near
  <2> QED
    BY <2>1, <2>2, <2>3 DEF Near
<1>2. ASSUME NEW a
      PROVE  a \in AgentsOf(f, n + 1) <=> a \in AgentsOf(f, n)
  <2>1. n \in Nat /\ n + 1 \in Nat /\ 1..(n + 1) - 1 = 1..n
    OBVIOUS
  <2> QED
    BY <1>1, <2>1, AgentsAre
<1> QED
  BY <1>2

LEMMA AgentsAdded ==
  ASSUME NEW f \in Seq(Line), NEW n \in 2..Len(f), f[n].key = "agent", f[n - 1].key = "agent"
  PROVE  AgentsOf(f, n + 1) = AgentsOf(f, n) \cup {f[n].value}
<1>1. ASSUME NEW j \in 1..n - 1
      PROVE  Near(f, j, n + 1) <=> Near(f, j, n)
  <2>1. n - 1 \in j..n - 1 /\ j..n - 1 \subseteq j..n
    OBVIOUS
  <2>2. ASSUME Near(f, j, n), NEW k \in j..n, k < n
        PROVE  f[k].key = "agent"
    <3>1. k \in j..n - 1
      BY <2>2
    <3> QED
      BY <2>1, <2>2, <3>1 DEF Near
  <2> QED
    BY <2>1, <2>2 DEF Near
<1>2. Near(f, n, n + 1)
  BY DEF Near
<1>3. ASSUME NEW a
      PROVE  a \in AgentsOf(f, n + 1) <=> a \in AgentsOf(f, n) \/ a = f[n].value
  <2>1. n \in Nat /\ n + 1 \in Nat /\ 1..(n + 1) - 1 = (1..n - 1) \cup {n}
    OBVIOUS
  <2> QED
    BY <1>1, <1>2, <2>1, AgentsAre
<1> QED
  BY <1>3

LEMMA AgentsBegin ==
  ASSUME NEW f \in Seq(Line), NEW n \in 1..Len(f), f[n].key = "agent",
         n > 1 => f[n - 1].key # "agent"
  PROVE  AgentsOf(f, n + 1) = {f[n].value}
<1>1. ASSUME NEW j \in 1..n - 1, Near(f, j, n + 1)
      PROVE  FALSE
  <2>1. n - 1 \in j..n /\ n \in j..n /\ n - 1 < n /\ n > 1
    OBVIOUS
  <2> QED
    BY <1>1, <2>1 DEF Near
<1>2. Near(f, n, n + 1)
  BY DEF Near
<1>3. ASSUME NEW a
      PROVE  a \in AgentsOf(f, n + 1) <=> a = f[n].value
  <2>1. n \in Nat /\ n + 1 \in Nat /\ 1..(n + 1) - 1 = (1..n - 1) \cup {n}
    OBVIOUS
  <2> QED
    BY <1>1, <1>2, <2>1, AgentsAre
<1> QED
  BY <1>3

\* What groups say, and what the first n lines of a file do.
Said(G, a, r) == \E i \in DOMAIN G : a \in G[i].agents /\ r \in Range(G[i].rules)
Named(G, a) == \E i \in DOMAIN G : a \in G[i].agents
Empty(r) == r.key = "disallow" /\ r.value = <<>>
Written(f, a, r, n) == \E j \in 1..n : f[j] = r /\ a \in AgentsOf(f, j)
Begun(f, a, n) == \E j \in 1..n : f[j].key = "agent" /\ f[j].value = a

ParsedTo(f, G, n) ==
  /\ G \in Seq(Group)
  /\ G = <<>> => \A i \in 1..n : f[i].key # "agent"
  /\ G # <<>> => /\ n > 0
                 /\ Last(G).agents = AgentsOf(f, n + 1)
                 /\ Last(G).closed <=> f[n].key # "agent"
                 /\ f[n].key = "agent" => Last(G).rules = <<>>
  /\ \A a : Named(G, a) <=> Begun(f, a, n)
  /\ \A a : \A r \in Rule : Said(G, a, r) <=> Written(f, a, r, n) /\ ~Empty(r)

LEMMA NothingParsed ==
  ASSUME NEW f
  PROVE  ParsedTo(f, <<>>, 0)
<1>1. <<>> \in Seq(Group) /\ DOMAIN <<>> = {} /\ 1..0 = {}
  OBVIOUS
<1> QED
  BY <1>1 DEF ParsedTo, Named, Begun, Said, Written

LEMMA GroupAppended ==
  ASSUME NEW G \in Seq(Group), NEW g \in Group, NEW H, H = Append(G, g)
  PROVE  /\ H \in Seq(Group) /\ H # <<>> /\ Last(H) = g
         /\ \A a : Named(H, a) <=> Named(G, a) \/ a \in g.agents
         /\ \A a : \A r \in Rule : Said(H, a, r) <=> Said(G, a, r) \/ (a \in g.agents /\ r \in Range(g.rules))
<1>1. /\ H \in Seq(Group) /\ Len(H) = Len(G) + 1 /\ H[Len(G) + 1] = g
      /\ \A i \in 1..Len(G) : H[i] = G[i]
  BY AppendProperties
<1>2. /\ DOMAIN H = (1..Len(G)) \cup {Len(G) + 1} /\ DOMAIN G = 1..Len(G)
      /\ Len(G) \in Nat
  BY <1>1, LenProperties
<1>3. H # <<>> /\ Last(H) = g
  BY <1>1 DEF Last
<1> QED
  BY <1>1, <1>2, <1>3 DEF Named, Said

LEMMA GroupReplaced ==
  ASSUME NEW G \in Seq(Group), G # <<>>, NEW g \in Group, NEW H, H = [G EXCEPT ![Len(G)] = g]
  PROVE  /\ H \in Seq(Group) /\ H # <<>> /\ Last(H) = g
         /\ Last(G) \in Group
         /\ \A a : Named(G, a) /\ Last(G).agents \subseteq g.agents => Named(H, a)
         /\ \A a : Named(H, a) => Named(G, a) \/ a \in g.agents
         /\ \A a : a \in g.agents => Named(H, a)
         /\ \A a : \A r \in Rule : Said(H, a, r) => Said(G, a, r) \/ (a \in g.agents /\ r \in Range(g.rules))
         /\ \A a : \A r \in Rule : a \in g.agents /\ r \in Range(g.rules) => Said(H, a, r)
         /\ \A a : \A r \in Rule :
              Said(G, a, r) => Said(H, a, r) \/ (a \in Last(G).agents /\ r \in Range(Last(G).rules))
<1>1. /\ Len(G) \in Nat \ {0} /\ DOMAIN G = 1..Len(G) /\ Len(G) \in 1..Len(G)
  BY LenProperties, EmptySeq
<1>2. /\ H \in Seq(Group) /\ Len(H) = Len(G) /\ H[Len(G)] = g
      /\ \A i \in 1..Len(G) : i # Len(G) => H[i] = G[i]
  <2>1. G \in [1..Len(G) -> Group]
    BY LenProperties
  <2>2. /\ H \in [1..Len(G) -> Group]
        /\ H[Len(G)] = g /\ \A i \in 1..Len(G) : i # Len(G) => H[i] = G[i]
    BY <1>1, <2>1
  <2>3. H \in Seq(Group)
    <3>1. Len(G) \in Nat
      BY <1>1
    <3> QED
      BY Zenon, <2>2, <3>1, SeqDef
  <2>4. Len(H) = Len(G)
    <3>1. DOMAIN H = 1..Len(G)
      BY Zenon, <2>2
    <3>2. Len(H) \in Nat /\ DOMAIN H = 1..Len(H)
      BY Zenon, <2>3, LenProperties
    <3>3. 1..Len(H) = 1..Len(G)
      BY Zenon, <3>1, <3>2
    <3>4. Len(G) \in 1..Len(H) /\ (Len(H) = 0 \/ Len(H) \in 1..Len(G))
      BY <1>1, <3>2, <3>3
    <3> QED
      BY <1>1, <3>2, <3>4
  <2> QED
    BY <2>2, <2>3, <2>4
<1>3. DOMAIN H = 1..Len(G)
  BY <1>2, LenProperties
<1>4. H # <<>> /\ Last(H) = g
  BY <1>1, <1>2 DEF Last
<1>5. Last(G) \in Group /\ Last(G) = G[Len(G)]
  BY <1>1, ElementOfSeq DEF Last
<1> QED
  BY <1>1, <1>2, <1>3, <1>4, <1>5 DEF Named, Said
LEMMA RangeOfAppend ==
  ASSUME NEW s \in Seq(Rule), NEW r \in Rule
  PROVE  Append(s, r) \in Seq(Rule) /\ Range(Append(s, r)) = Range(s) \cup {r}
<1>1. /\ Append(s, r) \in Seq(Rule) /\ Len(Append(s, r)) = Len(s) + 1
      /\ \A i \in 1..Len(s) : Append(s, r)[i] = s[i]
      /\ Append(s, r)[Len(s) + 1] = r
  BY AppendProperties
<1>2. /\ Len(s) \in Nat /\ DOMAIN s = 1..Len(s)
      /\ DOMAIN Append(s, r) = (1..Len(s)) \cup {Len(s) + 1}
  BY <1>1, LenProperties
<1> QED
  BY <1>1, <1>2 DEF Range

LEMMA GroupChanged ==
  ASSUME NEW x \in Group, NEW A, NEW R, NEW c
  PROVE  /\ [x EXCEPT !.agents = @ \cup A]
              = [agents |-> x.agents \cup A, rules |-> x.rules, closed |-> x.closed]
         /\ [[x EXCEPT !.closed = c] EXCEPT !.rules = R]
              = [agents |-> x.agents, rules |-> R, closed |-> c]
<1>1. PICK a, r, d : x = [agents |-> a, rules |-> r, closed |-> d]
  BY DEF Group
<1>2. [x EXCEPT !.agents = @ \cup A]
        = [agents |-> x.agents \cup A, rules |-> x.rules, closed |-> x.closed]
  BY <1>1
<1>3. [x EXCEPT !.closed = c] = [agents |-> x.agents, rules |-> x.rules, closed |-> c]
  BY <1>1
<1>4. ASSUME NEW y, y = [agents |-> x.agents, rules |-> x.rules, closed |-> c]
      PROVE  [y EXCEPT !.rules = R] = [agents |-> x.agents, rules |-> R, closed |-> c]
  BY <1>4
<1> QED
  BY <1>2, <1>3, <1>4

LEMMA AgentLineParsed ==
  ASSUME NEW f \in Seq(Line), NEW n \in 1..Len(f), NEW G, ParsedTo(f, G, n - 1),
         f[n].key = "agent"
  PROVE  ParsedTo(f, AgentLine(G, f[n]), n)
<1> DEFINE v == f[n].value
<1> DEFINE H == AgentLine(G, f[n])
<1>1. v \in STRING
  BY Lines
<1>2. 1..n = (1..n - 1) \cup {n} /\ n \in Nat /\ n > 0
  OBVIOUS
<1>3. \A a : Begun(f, a, n) <=> Begun(f, a, n - 1) \/ a = v
  BY <1>2 DEF Begun
<1>4. \A a : \A r \in Rule : Written(f, a, r, n) <=> Written(f, a, r, n - 1)
  <2>1. \A r \in Rule : r # f[n]
    BY DEF Rule
  <2> QED
    BY <1>2, <2>1 DEF Written
<1>5. G \in Seq(Group)
  BY DEF ParsedTo
<1>6. CASE G = <<>> \/ Last(G).closed
  <2> DEFINE g == [agents |-> {v}, rules |-> <<>>, closed |-> FALSE]
  <2>1. g \in Group /\ g.agents = {v} /\ g.rules = <<>> /\ ~g.closed /\ Range(g.rules) = {}
    BY <1>1 DEF Group, Range
  <2>2. H = Append(G, g)
    BY <1>6 DEF AgentLine
  <2> HIDE DEF g, H
  <2>3. /\ H \in Seq(Group) /\ H # <<>> /\ Last(H) = g
        /\ \A a : Named(H, a) <=> Named(G, a) \/ a \in g.agents
        /\ \A a : \A r \in Rule : Said(H, a, r) <=> Said(G, a, r) \/ (a \in g.agents /\ r \in Range(g.rules))
    BY <1>5, <2>1, <2>2, GroupAppended
  <2>4. n > 1 => f[n - 1].key # "agent"
    <3>1. n > 1 => n - 1 \in 1..n - 1
      OBVIOUS
    <3> QED
      BY <1>6, <3>1 DEF ParsedTo
  <2>5. AgentsOf(f, n + 1) = {v}
    BY <2>4, AgentsBegin
  <2> HIDE DEF v
  <2>6. \A a : Named(H, a) <=> Begun(f, a, n)
    BY <1>3, <2>1, <2>3 DEF ParsedTo
  <2>7. \A a : \A r \in Rule : Said(H, a, r) <=> Written(f, a, r, n) /\ ~Empty(r)
    BY <1>4, <2>1, <2>3 DEF ParsedTo
  <2>8. ~Last(H).closed /\ Last(H).agents = AgentsOf(f, n + 1) /\ Last(H).rules = <<>>
    BY <2>1, <2>3, <2>5
  <2> QED
    BY <1>2, <2>3, <2>6, <2>7, <2>8 DEF ParsedTo, H
<1>7. CASE G # <<>> /\ ~Last(G).closed
  <2> DEFINE g == [agents |-> Last(G).agents \cup {v}, rules |-> Last(G).rules,
                   closed |-> Last(G).closed]
  <2>1. Last(G) \in Group /\ Len(G) \in 1..Len(G) /\ DOMAIN G = 1..Len(G)
    BY <1>5, <1>7, LenProperties, EmptySeq, ElementOfSeq DEF Last
  <2>2. f[n - 1].key = "agent" /\ Last(G).rules = <<>> /\ Last(G).agents = AgentsOf(f, n) /\ n - 1 > 0
    BY <1>7 DEF ParsedTo
  <2>3. g \in Group /\ g.agents = Last(G).agents \cup {v} /\ g.rules = <<>> /\ ~g.closed
        /\ Range(g.rules) = {} /\ Range(Last(G).rules) = {}
    BY <1>1, <1>7, <2>1, <2>2 DEF Group, Range
  <2>4. H = [G EXCEPT ![Len(G)] = g]
    <3>1. [Last(G) EXCEPT !.agents = @ \cup {v}] = g
      BY <2>1, GroupChanged
    <3>2. H = [G EXCEPT ![Len(G)] = [G[Len(G)] EXCEPT !.agents = @ \cup {v}]]
      BY <1>7, <2>1 DEF AgentLine
    <3> QED
      BY <3>1, <3>2 DEF Last
  <2>5. AgentsOf(f, n + 1) = g.agents
    BY <2>2, <2>3, AgentsAdded
  <2> HIDE DEF g, H, v
  <2>6. /\ H \in Seq(Group) /\ H # <<>> /\ Last(H) = g
        /\ \A a : Named(G, a) /\ Last(G).agents \subseteq g.agents => Named(H, a)
        /\ \A a : Named(H, a) => Named(G, a) \/ a \in g.agents
        /\ \A a : a \in g.agents => Named(H, a)
        /\ \A a : \A r \in Rule : Said(H, a, r) => Said(G, a, r) \/ (a \in g.agents /\ r \in Range(g.rules))
        /\ \A a : \A r \in Rule :
             Said(G, a, r) => Said(H, a, r) \/ (a \in Last(G).agents /\ r \in Range(Last(G).rules))
    BY Zenon, <1>5, <1>7, <2>3, <2>4, GroupReplaced
  <2>7. \A a : a \in Last(G).agents => Named(G, a)
    BY <2>1 DEF Named, Last
  <2>8. \A a : Named(H, a) <=> Begun(f, a, n)
    BY <1>3, <2>3, <2>6, <2>7 DEF ParsedTo
  <2>9. \A a : \A r \in Rule : Said(H, a, r) <=> Written(f, a, r, n) /\ ~Empty(r)
    BY <1>4, <2>3, <2>6 DEF ParsedTo
  <2>10. ~Last(H).closed /\ Last(H).agents = AgentsOf(f, n + 1) /\ Last(H).rules = <<>>
    BY <2>3, <2>5, <2>6
  <2> QED
    BY <1>2, <2>6, <2>8, <2>9, <2>10 DEF ParsedTo, H
<1> QED
  BY <1>6, <1>7

LEMMA RuleLineParsed ==
  ASSUME NEW f \in Seq(Line), NEW n \in 1..Len(f), NEW G, ParsedTo(f, G, n - 1),
         f[n].key # "agent"
  PROVE  ParsedTo(f, RuleLine(G, f[n]), n)
<1> DEFINE line == f[n]
<1> DEFINE H == RuleLine(G, line)
<1>1. line \in Rule
  BY Lines
<1>2. 1..n = (1..n - 1) \cup {n} /\ n \in Nat /\ n > 0
  OBVIOUS
<1>3. \A a : Begun(f, a, n) <=> Begun(f, a, n - 1)
  BY <1>2 DEF Begun
<1>4. \A a : \A r \in Rule : Written(f, a, r, n) <=> Written(f, a, r, n - 1)
                                             \/ (r = line /\ a \in AgentsOf(f, n))
  BY <1>2 DEF Written
<1>5. G \in Seq(Group)
  BY DEF ParsedTo
<1>6. CASE G = <<>>
  <2>1. H = G
    BY <1>6 DEF RuleLine
  <2>2. \A a : a \notin AgentsOf(f, n)
    BY <1>2, <1>6, AgentsAre DEF ParsedTo, Near
  <2> HIDE DEF H
  <2>3. \A i \in 1..n : f[i].key # "agent"
    BY <1>2, <1>6 DEF ParsedTo
  <2>4. ParsedTo(f, H, n)
    BY <1>3, <1>4, <1>6, <2>1, <2>2, <2>3 DEF ParsedTo
  <2> QED
    BY <2>4 DEF H
<1>7. CASE G # <<>>
  <2> DEFINE kept == IF Empty(line) THEN Last(G).rules ELSE Append(Last(G).rules, line)
  <2> DEFINE g == [agents |-> Last(G).agents, rules |-> kept, closed |-> TRUE]
  <2>1. Last(G) \in Group /\ Len(G) \in 1..Len(G) /\ DOMAIN G = 1..Len(G)
    BY <1>5, <1>7, LenProperties, EmptySeq, ElementOfSeq DEF Last
  <2>2. Last(G).agents = AgentsOf(f, n) /\ Last(G).rules \in Seq(Rule)
    BY <1>7, <2>1 DEF ParsedTo, Group
  <2>3. kept \in Seq(Rule) /\ Range(kept) = Range(Last(G).rules) \cup (IF Empty(line) THEN {} ELSE {line})
    BY <1>1, <2>2, RangeOfAppend
  <2>4. H = [G EXCEPT ![Len(G)] = g]
    <3>1. [[Last(G) EXCEPT !.closed = TRUE] EXCEPT !.rules = kept] = g
      BY <2>1, GroupChanged
    <3>2. H = [[G EXCEPT ![Len(G)] = [G[Len(G)] EXCEPT !.closed = TRUE]] EXCEPT
                 ![Len(G)] = [[G[Len(G)] EXCEPT !.closed = TRUE] EXCEPT !.rules = kept]]
      BY <1>7, <2>1 DEF RuleLine, Empty, Last
    <3> QED
      BY <2>1, <3>1, <3>2 DEF Last
  <2> HIDE DEF kept
  <2>5. g \in Group /\ g.agents = Last(G).agents /\ g.rules = kept /\ g.closed
    BY <2>1, <2>3 DEF Group
  <2> HIDE DEF g, H
  <2>6. AgentsOf(f, n + 1) = g.agents
    BY <2>2, <2>5, AgentsKept
  <2>7. /\ H \in Seq(Group) /\ H # <<>> /\ Last(H) = g
        /\ \A a : Named(G, a) /\ Last(G).agents \subseteq g.agents => Named(H, a)
        /\ \A a : Named(H, a) => Named(G, a) \/ a \in g.agents
        /\ \A a : \A r \in Rule : Said(H, a, r) => Said(G, a, r) \/ (a \in g.agents /\ r \in Range(g.rules))
        /\ \A a : \A r \in Rule : a \in g.agents /\ r \in Range(g.rules) => Said(H, a, r)
        /\ \A a : \A r \in Rule :
             Said(G, a, r) => Said(H, a, r) \/ (a \in Last(G).agents /\ r \in Range(Last(G).rules))
    BY Zenon, <1>5, <1>7, <2>4, <2>5, GroupReplaced
  <2>8. /\ \A a : a \in Last(G).agents => Named(G, a)
        /\ \A a, r : a \in Last(G).agents /\ r \in Range(Last(G).rules) => Said(G, a, r)
    BY <2>1 DEF Named, Said, Last
  <2>9. \A a : Named(H, a) <=> Begun(f, a, n)
    BY <1>3, <2>5, <2>7, <2>8 DEF ParsedTo
  <2>10. ASSUME NEW a, NEW r \in Rule
         PROVE  Said(H, a, r) <=> Said(G, a, r) \/ (a \in AgentsOf(f, n) /\ r = line /\ ~Empty(line))
    <3>1. g.agents = AgentsOf(f, n) /\ Last(G).agents = AgentsOf(f, n)
      BY <2>2, <2>5
    <3>2. r \in Range(g.rules) <=> r \in Range(Last(G).rules) \/ (r = line /\ ~Empty(line))
      BY <2>3, <2>5
    <3>3. Said(H, a, r) => Said(G, a, r) \/ (a \in g.agents /\ r \in Range(g.rules))
      BY <2>7
    <3>4. a \in g.agents /\ r \in Range(g.rules) => Said(H, a, r)
      BY <2>7
    <3>5. Said(G, a, r) => Said(H, a, r) \/ (a \in Last(G).agents /\ r \in Range(Last(G).rules))
      BY <2>7
    <3>6. a \in Last(G).agents /\ r \in Range(Last(G).rules) => Said(G, a, r)
      BY <2>8
    <3> QED
      BY Zenon, <3>1, <3>2, <3>3, <3>4, <3>5, <3>6
  <2>11. \A a : \A r \in Rule : Said(H, a, r) <=> Written(f, a, r, n) /\ ~Empty(r)
    BY <1>4, <2>10 DEF ParsedTo
  <2>12. Last(H).closed /\ Last(H).agents = AgentsOf(f, n + 1)
    BY <2>5, <2>6, <2>7
  <2>13. ParsedTo(f, H, n)
    BY <1>2, <2>7, <2>9, <2>11, <2>12 DEF ParsedTo
  <2> QED
    BY <2>13 DEF H
<1> QED
  BY <1>6, <1>7

LEMMA LineParsed ==
  ASSUME NEW f \in Seq(Line), NEW n \in 1..Len(f), NEW G, ParsedTo(f, G, n - 1)
  PROVE  ParsedTo(f, Read(G, f[n]), n)
BY AgentLineParsed, RuleLineParsed DEF Read
LEMMA ReadTyped ==
  ASSUME NEW G \in Seq(Group), NEW line \in Line
  PROVE  Read(G, line) \in Seq(Group)
<1>1. /\ line.key = "agent" => line.value \in STRING
      /\ line.key # "agent" => line \in Rule
  <2>1. CASE line \in [key : {"agent"}, value : STRING]
    BY <2>1
  <2>2. CASE line \in [key : {"allow", "disallow"}, value : Seq(STRING)]
    BY <2>2 DEF Rule
  <2> QED
    BY <2>1, <2>2 DEF Line
<1>2. G # <<>> => Last(G) \in Group /\ Last(G) = G[Len(G)] /\ Len(G) \in 1..Len(G) /\ DOMAIN G = 1..Len(G)
  BY LenProperties, EmptySeq, ElementOfSeq DEF Last
<1>3. CASE line.key = "agent" /\ (G = <<>> \/ Last(G).closed)
  <2> DEFINE g == [agents |-> {line.value}, rules |-> <<>>, closed |-> FALSE]
  <2>1. g \in Group
    BY <1>1, <1>3 DEF Group
  <2>2. Read(G, line) = Append(G, g)
    BY <1>3 DEF Read, AgentLine
  <2> HIDE DEF g
  <2> QED
    BY <2>1, <2>2, AppendProperties
<1>4. CASE line.key = "agent" /\ G # <<>> /\ ~Last(G).closed
  <2> DEFINE g == [agents |-> Last(G).agents \cup {line.value}, rules |-> Last(G).rules,
                   closed |-> Last(G).closed]
  <2>1. g \in Group
    BY <1>1, <1>2, <1>4 DEF Group
  <2>2. [Last(G) EXCEPT !.agents = @ \cup {line.value}] = g
    BY <1>2, <1>4, GroupChanged
  <2>3. Read(G, line) = [G EXCEPT ![Len(G)] = [G[Len(G)] EXCEPT !.agents = @ \cup {line.value}]]
    BY <1>2, <1>4 DEF Read, AgentLine
  <2>4. Read(G, line) = [G EXCEPT ![Len(G)] = g]
    BY <1>2, <1>4, <2>2, <2>3
  <2> HIDE DEF g
  <2> QED
    BY Zenon, <1>4, <2>1, <2>4, GroupReplaced
<1>5. CASE line.key # "agent" /\ G = <<>>
  BY <1>5 DEF Read, RuleLine
<1>6. CASE line.key # "agent" /\ G # <<>>
  <2> DEFINE kept == IF Empty(line) THEN Last(G).rules ELSE Append(Last(G).rules, line)
  <2> DEFINE g == [agents |-> Last(G).agents, rules |-> kept, closed |-> TRUE]
  <2>1. kept \in Seq(Rule)
    <3>1. Last(G).rules \in Seq(Rule) /\ line \in Rule
      BY <1>1, <1>2, <1>6 DEF Group
    <3> QED
      BY <3>1, RangeOfAppend
  <2>2. Read(G, line) = [[G EXCEPT ![Len(G)] = [G[Len(G)] EXCEPT !.closed = TRUE]] EXCEPT
                          ![Len(G)] = [[G[Len(G)] EXCEPT !.closed = TRUE] EXCEPT !.rules = kept]]
    BY <1>2, <1>6 DEF Read, RuleLine, Empty
  <2> HIDE DEF kept
  <2>3. g \in Group
    BY <1>2, <1>6, <2>1 DEF Group
  <2>4. [[Last(G) EXCEPT !.closed = TRUE] EXCEPT !.rules = kept] = g
    BY <1>2, <1>6, GroupChanged
  <2>5. Read(G, line) = [G EXCEPT ![Len(G)] = g]
    BY <1>2, <1>6, <2>2, <2>4
  <2> HIDE DEF g
  <2> QED
    BY Zenon, <1>6, <2>3, <2>5, GroupReplaced
<1> QED
  BY <1>3, <1>4, <1>5, <1>6

\* All groups together say what the file says.
LEMMA Parsed ==
  ASSUME NEW f \in Seq(Line)
  PROVE  ParsedTo(f, Groups(f), Len(f))
<1> DEFINE k == Len(f)
<1> DEFINE Fits(g) == g = [n \in 0..k |-> IF n = 0 THEN <<>> ELSE Read(g[n - 1], f[n])]
<1> DEFINE step == [x \in Seq(Group) \X (0 + 1..k) |-> Read(x[1], f[x[2]])]
<1> DEFINE read == CHOOSE g : Fits(g)
<1>1. k \in Nat /\ 0 \in Nat /\ 0 <= k /\ <<>> \in Seq(Group)
  BY LenProperties
<1>2. \A n \in 0 + 1..k : f[n] \in Line
  BY ElementOfSeq
<1>3. step \in [Seq(Group) \X (0 + 1..k) -> Seq(Group)]
  <2>1. \A x \in Seq(Group) \X (0 + 1..k) : Read(x[1], f[x[2]]) \in Seq(Group)
    BY <1>2, ReadTyped
  <2> QED
    BY Zenon, <2>1
<1>4. \A G \in Seq(Group), n \in 0 + 1..k : step[<<G, n>>] = Read(G, f[n])
  OBVIOUS
<1> HIDE DEF k, step
<1>5. PICK g \in [0..k -> Seq(Group)] :
               g[0] = <<>> /\ \A n \in 0 + 1..k : g[n] = step[<<g[n - 1], n>>]
  <2>1. Defined(Seq(Group), 0, k, <<>>, step)
    BY <1>1, <1>3, Recursion
  <2> QED
    BY <2>1 DEF Defined
<1>6. Fits(g)
  <2>1. ASSUME NEW n \in 0..k
        PROVE  g[n] = IF n = 0 THEN <<>> ELSE Read(g[n - 1], f[n])
    <3>1. CASE n = 0
      BY <1>5, <3>1
    <3>2. CASE n # 0
      <4>1. n \in 0 + 1..k /\ g[n - 1] \in Seq(Group)
        BY <1>1, <3>2
      <4> QED
        BY <1>4, <1>5, <3>2, <4>1
    <3> QED
      BY <3>1, <3>2
  <2>2. g = [n \in 0..k |-> g[n]]
    OBVIOUS
  <2> QED
    BY Zenon, <2>1, <2>2
<1>7. Fits(read)
  BY Zenon, <1>6
<1>8. Groups(f) = read[k]
  BY DEF Groups, k
<1> DEFINE S == {n \in 0..k : ParsedTo(f, read[n], n)}
<1> HIDE DEF read
<1>9. 0 \in S
  <2>1. 0 \in 0..k
    BY <1>1
  <2>2. read[0] = <<>>
    BY <1>7, <2>1
  <2> QED
    BY <2>1, <2>2, NothingParsed
<1>10. ASSUME NEW n \in 0 + 1..k, n - 1 \in S
       PROVE  n \in S
  <2>1. n \in 0..k /\ n # 0 /\ n \in 1..Len(f)
    BY <1>1 DEF k
  <2>2. read[n] = Read(read[n - 1], f[n])
    BY <1>7, <2>1
  <2>3. ParsedTo(f, read[n - 1], n - 1)
    BY <1>10
  <2> QED
    BY <2>1, <2>2, <2>3, LineParsed
<1> HIDE DEF S
<1>11. \A n \in 0..k : n \in S
  BY Zenon, <1>1, <1>9, <1>10, AllNumbers
<1>12. k \in S
  BY <1>1, <1>11
<1> QED
  BY <1>8, <1>12 DEF S, k
---------------------------------------------------------------------------
(* The rules that are chosen.                                              *)

LEMMA RangeOfBoth ==
  ASSUME NEW s \in Seq(Rule), NEW t \in Seq(Rule)
  PROVE  s \o t \in Seq(Rule) /\ Range(s \o t) = Range(s) \cup Range(t)
<1>1. /\ s \o t \in Seq(Rule) /\ Len(s \o t) = Len(s) + Len(t)
      /\ \A i \in 1..Len(s) + Len(t) : (s \o t)[i] = IF i <= Len(s) THEN s[i] ELSE t[i - Len(s)]
  BY ConcatProperties
<1>2. /\ Len(s) \in Nat /\ DOMAIN s = 1..Len(s) /\ Len(t) \in Nat /\ DOMAIN t = 1..Len(t)
      /\ DOMAIN (s \o t) = 1..Len(s) + Len(t)
  BY <1>1, LenProperties
<1>3. \A i \in 1..Len(s) : (s \o t)[i] = s[i] /\ i \in 1..Len(s) + Len(t)
  BY <1>1, <1>2
<1>4. \A i \in 1..Len(t) : (s \o t)[Len(s) + i] = t[i] /\ Len(s) + i \in 1..Len(s) + Len(t)
  BY <1>1, <1>2
<1>5. \A i \in 1..Len(s) + Len(t) : i \in 1..Len(s) \/ (i - Len(s) \in 1..Len(t) /\ i = Len(s) + (i - Len(s)))
  BY <1>2
<1>6. ASSUME NEW r
      PROVE  r \in Range(s \o t) <=> r \in Range(s) \/ r \in Range(t)
  <2>1. r \in Range(s) => r \in Range(s \o t)
    BY <1>2, <1>3 DEF Range
  <2>2. r \in Range(t) => r \in Range(s \o t)
    BY <1>2, <1>4 DEF Range
  <2>3. r \in Range(s \o t) => r \in Range(s) \/ r \in Range(t)
    BY <1>1, <1>2, <1>5 DEF Range
  <2> QED
    BY <2>1, <2>2, <2>3
<1> QED
  BY <1>1, <1>6

LEMMA Flattened ==
  ASSUME NEW seqs \in Seq(Seq(Rule))
  PROVE  /\ FlattenSeq(seqs) \in Seq(Rule)
         /\ \A r : r \in Range(FlattenSeq(seqs)) <=> \E i \in DOMAIN seqs : r \in Range(seqs[i])
<1>1. CASE Len(seqs) = 0
  <2>1. seqs = <<>> /\ FlattenSeq(seqs) = seqs
    BY <1>1, EmptySeq DEF FlattenSeq
  <2>2. <<>> \in Seq(Rule) /\ DOMAIN <<>> = {}
    OBVIOUS
  <2> QED
    BY <2>1, <2>2 DEF Range
<1>2. CASE Len(seqs) # 0
  <2> DEFINE k == Len(seqs)
  <2> DEFINE Fits(g) == g = [n \in 1..k |-> IF n = 1 THEN seqs[n] ELSE g[n - 1] \o seqs[n]]
  <2> DEFINE step == [x \in Seq(Rule) \X (1 + 1..k) |-> x[1] \o seqs[x[2]]]
  <2> DEFINE flatten == CHOOSE g : Fits(g)
  <2>1. k \in Nat /\ 1 \in Nat /\ 1 <= k /\ DOMAIN seqs = 1..k
    BY <1>2, LenProperties
  <2>2. \A n \in 1..k : seqs[n] \in Seq(Rule)
    BY ElementOfSeq
  <2>3. seqs[1] \in Seq(Rule) /\ \A n \in 1 + 1..k : seqs[n] \in Seq(Rule)
    BY <2>1, <2>2
  <2>4. step \in [Seq(Rule) \X (1 + 1..k) -> Seq(Rule)]
    <3>1. \A x \in Seq(Rule) \X (1 + 1..k) : x[1] \o seqs[x[2]] \in Seq(Rule)
      BY <2>3, RangeOfBoth
    <3> QED
      BY Zenon, <3>1
  <2>5. \A s \in Seq(Rule), n \in 1 + 1..k : step[<<s, n>>] = s \o seqs[n]
    OBVIOUS
  <2> HIDE DEF k, step
  <2>6. PICK g \in [1..k -> Seq(Rule)] :
                 g[1] = seqs[1] /\ \A n \in 1 + 1..k : g[n] = step[<<g[n - 1], n>>]
    <3>1. Defined(Seq(Rule), 1, k, seqs[1], step)
      BY <2>1, <2>3, <2>4, Recursion
    <3> QED
      BY <3>1 DEF Defined
  <2>7. Fits(g)
    <3>1. ASSUME NEW n \in 1..k
          PROVE  g[n] = IF n = 1 THEN seqs[n] ELSE g[n - 1] \o seqs[n]
      <4>1. CASE n = 1
        BY <2>6, <4>1
      <4>2. CASE n # 1
        <5>1. n \in 1 + 1..k /\ g[n - 1] \in Seq(Rule)
          BY <2>1, <4>2
        <5> QED
          BY <2>5, <2>6, <4>2, <5>1
      <4> QED
        BY <4>1, <4>2
    <3>2. g = [n \in 1..k |-> g[n]]
      OBVIOUS
    <3> QED
      BY Zenon, <3>1, <3>2
  <2>8. Fits(flatten)
    BY Zenon, <2>7
  <2>9. FlattenSeq(seqs) = flatten[k]
    BY <1>2 DEF FlattenSeq, k
  <2> DEFINE S == {n \in 1..k : /\ flatten[n] \in Seq(Rule)
                                /\ \A r : r \in Range(flatten[n]) <=> \E i \in 1..n : r \in Range(seqs[i])}
  <2> HIDE DEF flatten
  <2>10. 1 \in S
    <3>1. 1 \in 1..k
      BY <2>1
    <3>2. flatten[1] = seqs[1]
      BY <2>8, <3>1
    <3>3. \A i \in 1..1 : i = 1
      OBVIOUS
    <3> QED
      BY <2>3, <3>1, <3>2, <3>3
  <2>11. ASSUME NEW n \in 1 + 1..k, n - 1 \in S
         PROVE  n \in S
    <3>1. n \in 1..k /\ n # 1 /\ 1..n = (1..n - 1) \cup {n}
      BY <2>1
    <3>2. flatten[n] = flatten[n - 1] \o seqs[n]
      BY <2>8, <3>1
    <3>3. /\ flatten[n - 1] \in Seq(Rule)
          /\ \A r : r \in Range(flatten[n - 1]) <=> \E i \in 1..n - 1 : r \in Range(seqs[i])
      BY <2>11
    <3>4. flatten[n] \in Seq(Rule) /\ Range(flatten[n]) = Range(flatten[n - 1]) \cup Range(seqs[n])
      BY <2>3, <3>2, <3>3, RangeOfBoth
    <3> QED
      BY <3>1, <3>3, <3>4
  <2> HIDE DEF S
  <2>12. \A n \in 1..k : n \in S
    BY Zenon, <2>1, <2>10, <2>11, AllNumbers
  <2>13. k \in S
    BY <2>1, <2>12
  <2> QED
    BY <2>1, <2>9, <2>13 DEF S
<1> QED
  BY <1>1, <1>2

LEMMA RulesForSaid ==
  ASSUME NEW G \in Seq(Group), NEW a
  PROVE  /\ RulesFor(G, a) \in Seq(Rule)
         /\ \A r : r \in Range(RulesFor(G, a)) <=> Said(G, a, r)
<1> DEFINE seqs == [i \in DOMAIN G |-> IF a \in G[i].agents THEN G[i].rules ELSE <<>>]
<1>1. Len(G) \in Nat /\ DOMAIN G = 1..Len(G)
  BY LenProperties
<1>2. \A i \in 1..Len(G) : G[i].rules \in Seq(Rule)
  <2>1. \A i \in 1..Len(G) : G[i] \in Group
    BY ElementOfSeq
  <2> QED
    BY <2>1 DEF Group
<1>3. seqs \in [1..Len(G) -> Seq(Rule)]
  BY <1>1, <1>2
<1>4. seqs \in Seq(Seq(Rule))
  <2>1. Seq(Seq(Rule)) = UNION {[1..n -> Seq(Rule)] : n \in Nat}
    BY Zenon, SeqDef
  <2> QED
    BY Zenon, <1>1, <1>3, <2>1
<1>5. RulesFor(G, a) = FlattenSeq(seqs)
  BY DEF RulesFor
<1>6. \A i \in DOMAIN G : seqs[i] = IF a \in G[i].agents THEN G[i].rules ELSE <<>>
  OBVIOUS
<1>7. DOMAIN seqs = DOMAIN G
  OBVIOUS
<1> HIDE DEF seqs
<1>8. \A r : r \notin Range(<<>>)
  BY DEF Range
<1> QED
  BY <1>4, <1>5, <1>6, <1>7, <1>8, Flattened DEF Said

\* The rules that concern us, but the empty ones.
Ours(f) == {f[i] : i \in {i \in OurLines(f) : ~Empty(f[i])}}

LEMMA ChosenAreOurs ==
  ASSUME NEW f \in Seq(Line)
  PROVE  Chosen(Groups(f)) \in Seq(Rule) /\ Range(Chosen(Groups(f))) = Ours(f)
<1> DEFINE G == Groups(f)
<1> DEFINE named == \E i \in DOMAIN f : f[i] = [key |-> "agent", value |-> Agent]
<1> DEFINE a == IF named THEN Agent ELSE "*"
<1>1. DOMAIN f = 1..Len(f)
  BY LenProperties
<1>2. ParsedTo(f, G, Len(f))
  BY Parsed
<1>3. G \in Seq(Group)
  BY <1>2 DEF ParsedTo
<1> HIDE DEF G
<1>4. (\E i \in DOMAIN G : Agent \in G[i].agents) <=> named
  <2>1. Named(G, Agent) <=> Begun(f, Agent, Len(f))
    BY <1>2 DEF ParsedTo
  <2>2. Begun(f, Agent, Len(f)) <=> named
    BY <1>1, Lines DEF Begun
  <2> QED
    BY <2>1, <2>2 DEF Named
<1>5. Chosen(G) = RulesFor(G, a)
  BY <1>4 DEF Chosen
<1>6. OurLines(f) = {i \in 1..Len(f) : f[i].key # "agent" /\ a \in AgentsOf(f, i)}
  BY <1>1 DEF OurLines
<1> HIDE DEF named, a
<1>7. Chosen(G) \in Seq(Rule) /\ \A r : r \in Range(Chosen(G)) <=> Said(G, a, r)
  BY <1>3, <1>5, RulesForSaid
<1>8. ASSUME NEW r \in Rule
      PROVE  r \in Range(Chosen(G)) <=> r \in Ours(f)
  <2>1. Said(G, a, r) <=> Written(f, a, r, Len(f)) /\ ~Empty(r)
    BY <1>2 DEF ParsedTo
  <2>2. r.key # "agent"
    BY DEF Rule
  <2>3. Written(f, a, r, Len(f)) /\ ~Empty(r) <=> r \in Ours(f)
    BY <1>6, <2>2 DEF Written, Ours
  <2> QED
    BY <1>7, <2>1, <2>3
<1>9. Ours(f) \subseteq Rule
  BY <1>6, Lines DEF Ours
<1>10. Range(Chosen(G)) \subseteq Rule
  BY <1>7, LenProperties DEF Range
<1> QED
  BY <1>7, <1>8, <1>9, <1>10 DEF G
---------------------------------------------------------------------------
(* What the beginnings of a pattern cover.                                 *)

Table(L, route, B) ==
  /\ route \in Seq(STRING) /\ B \in Seq(STRING)
  /\ Len(route) \in Nat /\ Len(B) \in Nat
  /\ L \in [0..Len(B) -> SUBSET (0..Len(route))]
  /\ L[0] = {0}
  /\ \A n \in 1..Len(B) : L[n] = Covers(route, L[n - 1], B[n])

LEMMA LengthsAre ==
  ASSUME NEW route \in Seq(STRING), NEW B \in Seq(STRING)
  PROVE  Table(Lengths(route, B), route, B)
<1> DEFINE k == Len(B)
<1> DEFINE V == SUBSET (0..Len(route))
<1> DEFINE Fits(g) == g = [n \in 0..k |-> IF n = 0 THEN {0} ELSE Covers(route, g[n - 1], B[n])]
<1> DEFINE step == [x \in V \X (0 + 1..k) |-> Covers(route, x[1], B[x[2]])]
<1> DEFINE covered == CHOOSE g : Fits(g)
<1>1. k \in Nat /\ 0 \in Nat /\ 0 <= k /\ {0} \in V /\ Len(route) \in Nat
  BY LenProperties
<1>2. \A lengths, c : Covers(route, lengths, c) \in V
  BY <1>1 DEF Covers
<1>3. step \in [V \X (0 + 1..k) -> V]
  BY Zenon, <1>2
<1>4. \A v \in V, n \in 0 + 1..k : step[<<v, n>>] = Covers(route, v, B[n])
  OBVIOUS
<1> HIDE DEF k, step, V
<1>5. PICK g \in [0..k -> V] : g[0] = {0} /\ \A n \in 0 + 1..k : g[n] = step[<<g[n - 1], n>>]
  <2>1. Defined(V, 0, k, {0}, step)
    BY <1>1, <1>3, Recursion
  <2> QED
    BY <2>1 DEF Defined
<1>6. Fits(g)
  <2>1. ASSUME NEW n \in 0..k
        PROVE  g[n] = IF n = 0 THEN {0} ELSE Covers(route, g[n - 1], B[n])
    <3>1. CASE n = 0
      BY <1>5, <3>1
    <3>2. CASE n # 0
      <4>1. n \in 0 + 1..k /\ g[n - 1] \in V
        BY <1>1, <3>2
      <4> QED
        BY <1>4, <1>5, <3>2, <4>1
    <3> QED
      BY <3>1, <3>2
  <2>2. g = [n \in 0..k |-> g[n]]
    OBVIOUS
  <2> QED
    BY Zenon, <2>1, <2>2
<1>7. Fits(covered)
  BY Zenon, <1>6
<1>8. Lengths(route, B) = covered
  BY DEF Lengths, k
<1> HIDE DEF covered
<1>9. /\ covered[0] = {0}
      /\ \A n \in 1..k : covered[n] = Covers(route, covered[n - 1], B[n])
      /\ DOMAIN covered = 0..k /\ covered = [n \in 0..k |-> covered[n]]
  <2>1. DOMAIN covered = 0..k
    BY Zenon, <1>7
  <2>2. covered = [n \in 0..k |-> covered[n]]
    BY Zenon, <1>7
  <2>3. ASSUME NEW n \in 0..k
        PROVE  covered[n] = IF n = 0 THEN {0} ELSE Covers(route, covered[n - 1], B[n])
    BY Zenon, <1>7
  <2>4. covered[0] = {0}
    BY <1>1, <2>3
  <2>5. ASSUME NEW n \in 1..k
        PROVE  covered[n] = Covers(route, covered[n - 1], B[n])
    <3>1. n \in 0..k /\ n # 0
      BY <1>1
    <3> QED
      BY <2>3, <3>1
  <2> QED
    BY <2>1, <2>2, <2>4, <2>5
<1>10. ASSUME NEW n \in 0..k
       PROVE  covered[n] \in V
  <2>1. CASE n = 0
    BY <1>1, <1>9, <2>1
  <2>2. CASE n # 0
    <3>1. n \in 1..k
      BY <1>1, <2>2
    <3>2. covered[n] = Covers(route, covered[n - 1], B[n])
      BY <1>9, <3>1
    <3> QED
      BY <1>2, <3>2
  <2> QED
    BY <2>1, <2>2
<1>11. covered \in [0..k -> V]
  BY Zenon, <1>9, <1>10
<1> QED
  BY <1>1, <1>8, <1>9, <1>11 DEF Table, k, V

LEMMA LengthsTyped ==
  ASSUME NEW L, NEW route, NEW B, Table(L, route, B), NEW n \in 0..Len(B)
  PROVE  L[n] \subseteq 0..Len(route) /\ L[n] \subseteq Nat
<1>1. L[n] \in SUBSET (0..Len(route)) /\ Len(route) \in Nat
  BY DEF Table
<1> QED
  BY <1>1

NoStars(B, s, e) == \A i \in s + 1..e : B[i] # "*"
Fit(route, B, s, e, o) ==
  \A i \in s + 1..e : o + (i - s) <= Len(route) /\ route[o + (i - s)] = B[i]

\* Without stars a part of a pattern covers as many characters as it has.
LEMMA Segment ==
  ASSUME NEW L, NEW route, NEW B, Table(L, route, B),
         NEW s \in 0..Len(B), NEW e \in s..Len(B), NoStars(B, s, e)
  PROVE  \A x : x \in L[e] <=> \E o \in L[s] : x = o + (e - s) /\ Fit(route, B, s, e, o)
<1> DEFINE S == {n \in s..e : \A x : x \in L[n] <=> \E o \in L[s] : x = o + (n - s) /\ Fit(route, B, s, n, o)}
<1>1. s \in Nat /\ e \in Nat /\ Len(B) \in Nat /\ Len(route) \in Nat
  BY DEF Table
<1>2. L[s] \subseteq Nat
  BY <1>1 DEF Table
<1>3. s \in S
  <2>1. \A o : Fit(route, B, s, s, o)
    BY <1>1 DEF Fit
  <2>2. \A o \in L[s] : o + (s - s) = o
    BY <1>1, <1>2
  <2>3. s \in s..e
    BY <1>1
  <2> QED
    BY <2>1, <2>2, <2>3
<1>4. ASSUME NEW n \in s + 1..e, n - 1 \in S
      PROVE  n \in S
  <2>1. n \in 1..Len(B) /\ n \in s..e /\ n \in Nat /\ s + 1..n = (s + 1..n - 1) \cup {n}
    BY <1>1
  <2>2. L[n] = {x \in 1..Len(route) : x - 1 \in L[n - 1] /\ route[x] = B[n]}
    BY <2>1 DEF Table, Covers, NoStars
  <2>3. ASSUME NEW o \in L[s]
        PROVE  /\ Fit(route, B, s, n, o) <=> /\ Fit(route, B, s, n - 1, o)
                                             /\ o + (n - s) <= Len(route)
                                             /\ route[o + (n - s)] = B[n]
               /\ (o + (n - s)) - 1 = o + ((n - 1) - s) /\ o + (n - s) >= 1 /\ o + (n - s) \in Nat
    <3>1. (o + (n - s)) - 1 = o + ((n - 1) - s) /\ o + (n - s) >= 1 /\ o + (n - s) \in Nat
      BY <1>1, <1>2, <2>1
    <3>2. Fit(route, B, s, n, o)
            <=> \A i \in (s + 1..n - 1) \cup {n} : o + (i - s) <= Len(route) /\ route[o + (i - s)] = B[i]
      BY Zenon, <2>1 DEF Fit
    <3>3. Fit(route, B, s, n, o) <=> /\ Fit(route, B, s, n - 1, o)
                                     /\ o + (n - s) <= Len(route)
                                     /\ route[o + (n - s)] = B[n]
      BY Zenon, <3>2 DEF Fit
    <3> QED
      BY <3>1, <3>3
  <2>4. \A x : x \in L[n - 1] <=> \E o \in L[s] : x = o + ((n - 1) - s) /\ Fit(route, B, s, n - 1, o)
    BY <1>4
  <2>5. ASSUME NEW x \in L[n]
        PROVE  \E o \in L[s] : x = o + (n - s) /\ Fit(route, B, s, n, o)
    <3>1. x \in 1..Len(route) /\ x - 1 \in L[n - 1] /\ route[x] = B[n]
      BY <2>2
    <3>2. PICK o \in L[s] : x - 1 = o + ((n - 1) - s) /\ Fit(route, B, s, n - 1, o)
      BY <2>4, <3>1
    <3>3. x = o + (n - s)
      BY <1>1, <1>2, <2>1, <3>1, <3>2
    <3> QED
      BY <2>3, <3>1, <3>2, <3>3
  <2>6. ASSUME NEW o \in L[s], Fit(route, B, s, n, o)
        PROVE  o + (n - s) \in L[n]
    <3>1. (o + (n - s)) - 1 \in L[n - 1]
      BY <2>3, <2>4, <2>6
    <3> QED
      BY <1>1, <2>2, <2>3, <2>6, <3>1
  <2> QED
    BY <2>1, <2>5, <2>6
<1> HIDE DEF S
<1>5. \A n \in s..e : n \in S
  BY Zenon, <1>1, <1>3, <1>4, AllNumbers
<1>6. e \in S
  BY <1>1, <1>5
<1> QED
  BY <1>6 DEF S

\* Stars keep the end of the path, and nothing else where there was only that.
LEMMA StarsKeep ==
  ASSUME NEW L, NEW route, NEW B, Table(L, route, B),
         NEW s \in 0..Len(B), NEW e \in s..Len(B), \A i \in s + 1..e : B[i] = "*"
  PROVE  /\ Len(route) \in L[s] => Len(route) \in L[e]
         /\ L[s] \subseteq {Len(route)} => L[e] \subseteq {Len(route)}
<1> DEFINE S == {n \in s..e : /\ Len(route) \in L[s] => Len(route) \in L[n]
                              /\ L[s] \subseteq {Len(route)} => L[n] \subseteq {Len(route)}}
<1>1. s \in Nat /\ e \in Nat /\ Len(B) \in Nat /\ Len(route) \in Nat
  BY DEF Table
<1>2. s \in S
  BY <1>1
<1>3. ASSUME NEW n \in s + 1..e, n - 1 \in S
      PROVE  n \in S
  <2>1. n \in 1..Len(B) /\ n \in s..e /\ n - 1 \in 0..Len(B)
    BY <1>1
  <2>2. L[n] = {x \in 0..Len(route) : \E m \in L[n - 1] : m <= x}
    BY <2>1 DEF Table, Covers
  <2>3. Len(route) \in L[n - 1] => Len(route) \in L[n]
    BY <1>1, <2>2
  <2>4. L[n - 1] \subseteq {Len(route)} => L[n] \subseteq {Len(route)}
    BY <1>1, <2>2
  <2> QED
    BY <1>3, <2>1, <2>3, <2>4
<1> HIDE DEF S
<1>4. \A n \in s..e : n \in S
  BY Zenon, <1>1, <1>2, <1>3, AllNumbers
<1>5. e \in S
  BY <1>1, <1>4
<1> QED
  BY <1>5 DEF S

LEMMA NothingLeft ==
  ASSUME NEW L, NEW route, NEW B, Table(L, route, B),
         NEW s \in 0..Len(B), NEW e \in s..Len(B), L[s] = {}
  PROVE  L[e] = {}
<1> DEFINE S == {n \in s..e : L[n] = {}}
<1>1. s \in Nat /\ e \in Nat /\ Len(B) \in Nat /\ Len(route) \in Nat
  BY DEF Table
<1>2. s \in S
  BY <1>1
<1>3. ASSUME NEW n \in s + 1..e, n - 1 \in S
      PROVE  n \in S
  <2>1. n \in 1..Len(B) /\ n \in s..e
    BY <1>1
  <2>2. L[n] = Covers(route, {}, B[n])
    BY <1>3, <2>1 DEF Table
  <2> QED
    BY <2>1, <2>2 DEF Covers
<1> HIDE DEF S
<1>4. \A n \in s..e : n \in S
  BY Zenon, <1>1, <1>2, <1>3, AllNumbers
<1>5. e \in S
  BY <1>1, <1>4
<1> QED
  BY <1>5 DEF S
---------------------------------------------------------------------------
(* The loop that matches a pattern.                                        *)

\* The part of a pattern after a star ends at e: with the pattern or before
\* the next star.
Ends(B, s, e) == NoStars(B, s, e) /\ (e = Len(B) \/ B[e + 1] = "*")
\* After the star nothing comes of a beginning of o characters.
Dead(route, rule, s, o) ==
  \A e \in s..Len(Body(rule)) :
    Ends(Body(rule), s, e) => \/ ~Fit(route, Body(rule), s, e, o)
                              \/ Anchored(rule) /\ e = Len(Body(rule)) /\ o + (e - s) # Len(route)

\* The pattern is read up to p, the path up to q: since the last star, at s,
\* which ends the first o characters, all signs fit, and no shorter beginning
\* will do.
Follows(L, route, rule, p, q, s, o) ==
  /\ p \in 1..Len(Body(rule)) + 1 /\ q \in 1..Len(route) + 1 /\ s \in 0..p - 1 /\ o \in Nat
  /\ q = (p - s) + o
  /\ s = 0 => o = 0
  /\ s > 0 => Body(rule)[s] = "*"
  /\ NoStars(Body(rule), s, p - 1) /\ Fit(route, Body(rule), s, p - 1, o)
  /\ o \in L[s]
  /\ \A m \in L[s] : m < o => Dead(route, rule, s, m)

LEMMA PartEnds ==
  ASSUME NEW B, Len(B) \in Nat, NEW s \in 0..Len(B)
  PROVE  \E e \in s..Len(B) : Ends(B, s, e)
<1> DEFINE T == {e \in s..Len(B) : e = Len(B) \/ B[e + 1] = "*"}
<1>1. T \subseteq Nat /\ T # {}
  OBVIOUS
<1>2. PICK e \in T : \A d \in T : e <= d
  BY Zenon, <1>1, LeastNumber
<1>3. ASSUME NEW i \in s + 1..e
      PROVE  B[i] # "*"
  <2>1. i - 1 \in s..Len(B) /\ i - 1 < e /\ (i - 1) + 1 = i
    BY <1>2
  <2>2. ASSUME i - 1 \in T
        PROVE  FALSE
    <3>1. e <= i - 1
      BY Zenon, <1>2, <2>2
    <3> QED
      BY <1>2, <2>1, <3>1
  <2> QED
    BY <2>1, <2>2
<1> QED
  BY <1>2, <1>3 DEF Ends, NoStars

\* The part ends after each of its signs.
LEMMA PartGoesOn ==
  ASSUME NEW B, Len(B) \in Nat, NEW s \in 0..Len(B), NEW p \in s + 1..Len(B) + 1,
         NoStars(B, s, p - 1), NEW e \in s..Len(B), Ends(B, s, e)
  PROVE  e >= p - 1 /\ (p <= Len(B) /\ B[p] # "*" => e >= p)
<1>1. ASSUME e + 1 \in s + 1..p - 1
      PROVE  FALSE
  BY <1>1 DEF Ends, NoStars
<1>2. ASSUME p <= Len(B), B[p] # "*", e + 1 = p
      PROVE  FALSE
  BY <1>2 DEF Ends
<1> QED
  BY <1>1, <1>2

LEMMA Begins ==
  ASSUME NEW L, NEW route, NEW rule, Table(L, route, Body(rule))
  PROVE  Follows(L, route, rule, 1, 1, 0, 0)
<1>1. Len(Body(rule)) \in Nat /\ Len(route) \in Nat /\ L[0] = {0}
  BY DEF Table
<1>2. 0 + 1..1 - 1 = {}
  OBVIOUS
<1> QED
  BY <1>1, <1>2 DEF Follows, NoStars, Fit

\* A star ends with the shortest beginning.
LEMMA OnStar ==
  ASSUME NEW L, NEW route, NEW rule, NEW p, NEW q, NEW s, NEW o,
         Table(L, route, Body(rule)), Follows(L, route, rule, p, q, s, o),
         p <= Len(Body(rule)), Body(rule)[p] = "*"
  PROVE  Follows(L, route, rule, p + 1, q, p, q - 1)
<1> DEFINE B == Body(rule)
<1>1. /\ p \in 1..Len(B) /\ q \in 1..Len(route) + 1 /\ s \in 0..p - 1 /\ o \in Nat
      /\ p \in Nat /\ q \in Nat /\ s \in Nat /\ Len(B) \in Nat /\ Len(route) \in Nat
      /\ q - 1 = o + ((p - 1) - s) /\ s \in 0..Len(B) /\ p - 1 \in s..Len(B)
  BY DEF Table, Follows
<1>2. NoStars(B, s, p - 1) /\ Fit(route, B, s, p - 1, o) /\ o \in L[s]
  BY DEF Follows
<1>3. \A x : x \in L[p - 1] <=> \E m \in L[s] : x = m + ((p - 1) - s) /\ Fit(route, B, s, p - 1, m)
  BY <1>1, <1>2, Segment
<1>4. q - 1 \in L[p - 1]
  BY <1>1, <1>2, <1>3
<1>5. L[p] = {x \in 0..Len(route) : \E m \in L[p - 1] : m <= x}
  BY <1>1 DEF Table, Covers
<1>6. q - 1 \in L[p]
  BY <1>1, <1>4, <1>5
<1>7. ASSUME NEW x \in L[p], x < q - 1
      PROVE  FALSE
  <2>1. PICK y \in L[p - 1] : y <= x
    BY <1>5
  <2>2. PICK m \in L[s] : y = m + ((p - 1) - s) /\ Fit(route, B, s, p - 1, m)
    BY <1>3, <2>1
  <2>3. m \in Nat /\ x \in Nat
    BY <1>1, <1>5, LengthsTyped
  <2>4. m < o
    BY <1>1, <1>7, <2>1, <2>2, <2>3
  <2>5. Ends(B, s, p - 1)
    BY <1>1, <1>2 DEF Ends
  <2>6. Dead(route, rule, s, m)
    BY <2>4 DEF Follows
  <2>7. p - 1 # Len(B)
    BY <1>1
  <2> QED
    BY <1>1, <2>2, <2>5, <2>6, <2>7 DEF Dead
<1>8. NoStars(B, p, (p + 1) - 1) /\ Fit(route, B, p, (p + 1) - 1, q - 1)
  BY <1>1 DEF NoStars, Fit
<1>9. /\ p + 1 \in 1..Len(B) + 1 /\ p \in 0..(p + 1) - 1 /\ q - 1 \in Nat
      /\ q = ((p + 1) - p) + (q - 1) /\ p # 0
  BY <1>1
<1> QED
  BY <1>1, <1>6, <1>7, <1>8, <1>9 DEF Follows

\* A sign that fits is passed.
LEMMA OnSign ==
  ASSUME NEW L, NEW route, NEW rule, NEW p, NEW q, NEW s, NEW o,
         Table(L, route, Body(rule)), Follows(L, route, rule, p, q, s, o),
         p <= Len(Body(rule)), q <= Len(route),
         Body(rule)[p] # "*", Body(rule)[p] = route[q]
  PROVE  Follows(L, route, rule, p + 1, q + 1, s, o)
<1> DEFINE B == Body(rule)
<1>1. /\ p \in 1..Len(B) /\ q \in 1..Len(route) /\ s \in 0..p - 1 /\ o \in Nat
      /\ p \in Nat /\ q \in Nat /\ s \in Nat /\ Len(B) \in Nat /\ Len(route) \in Nat
      /\ q = o + (p - s)
  BY DEF Table, Follows
<1>2. NoStars(B, s, p - 1) /\ Fit(route, B, s, p - 1, o)
  BY DEF Follows
<1>3. s + 1..(p + 1) - 1 = (s + 1..p - 1) \cup {p}
  BY <1>1
<1>4. NoStars(B, s, (p + 1) - 1)
  BY <1>2, <1>3 DEF NoStars
<1>5. Fit(route, B, s, (p + 1) - 1, o)
  BY <1>1, <1>2, <1>3 DEF Fit
<1>6. /\ p + 1 \in 1..Len(B) + 1 /\ q + 1 \in 1..Len(route) + 1 /\ s \in 0..(p + 1) - 1
      /\ q + 1 = ((p + 1) - s) + o
  BY <1>1
<1> QED
  BY <1>1, <1>4, <1>5, <1>6 DEF Follows

\* One that does not lets the last star take a character more.
LEMMA OnBack ==
  ASSUME NEW L, NEW route, NEW rule, NEW p, NEW q, NEW s, NEW o,
         Table(L, route, Body(rule)), Follows(L, route, rule, p, q, s, o),
         s > 0, q <= Len(route),
         IF p > Len(Body(rule)) THEN Anchored(rule)
         ELSE Body(rule)[p] # "*" /\ Body(rule)[p] # route[q]
  PROVE  Follows(L, route, rule, s + 1, o + 2, s, o + 1)
<1> DEFINE B == Body(rule)
<1>1. /\ p \in 1..Len(B) + 1 /\ q \in 1..Len(route) /\ s \in 1..p - 1 /\ o \in Nat
      /\ p \in Nat /\ q \in Nat /\ s \in Nat /\ Len(B) \in Nat /\ Len(route) \in Nat
      /\ q = o + (p - s) /\ s \in 1..Len(B) /\ o + 1 <= Len(route) /\ p \in s + 1..Len(B) + 1
  BY DEF Table, Follows
<1>2. NoStars(B, s, p - 1) /\ B[s] = "*" /\ o \in L[s]
  BY <1>1 DEF Follows
<1>3. L[s] = {x \in 0..Len(route) : \E m \in L[s - 1] : m <= x}
  BY <1>1, <1>2 DEF Table, Covers
<1>4. o + 1 \in L[s]
  <2>1. PICK m \in L[s - 1] : m <= o
    BY <1>2, <1>3
  <2>2. m \in Nat
    <3>1. s - 1 \in 0..Len(B)
      BY <1>1
    <3> QED
      BY <2>1, <3>1, LengthsTyped
  <2>3. m <= o + 1 /\ o + 1 \in 0..Len(route)
    BY <1>1, <2>1, <2>2
  <2> QED
    BY <1>3, <2>1, <2>3
<1>5. Dead(route, rule, s, o)
  <2>1. SUFFICES ASSUME NEW e \in s..Len(B), Ends(B, s, e), Fit(route, B, s, e, o)
                 PROVE  Anchored(rule) /\ e = Len(B) /\ o + (e - s) # Len(route)
    BY DEF Dead
  <2>2. s \in 0..Len(B)
    BY <1>1
  <2>3. e >= p - 1 /\ (p <= Len(B) /\ B[p] # "*" => e >= p)
    BY <1>1, <1>2, <2>1, <2>2, PartGoesOn
  <2>4. CASE p > Len(B)
    BY <1>1, <2>1, <2>3, <2>4
  <2>5. CASE p <= Len(B)
    <3>1. B[p] # route[q] /\ p \in s + 1..e
      BY <1>1, <2>1, <2>3, <2>5
    <3> QED
      BY <1>1, <2>1, <3>1 DEF Fit
  <2> QED
    BY <1>1, <2>4, <2>5
<1>6. \A m \in L[s] : m < o + 1 => Dead(route, rule, s, m)
  <2>1. \A m \in L[s] : m < o + 1 => m < o \/ m = o
    BY <1>1, <1>3
  <2> QED
    BY <1>5, <2>1 DEF Follows
<1>7. NoStars(B, s, (s + 1) - 1) /\ Fit(route, B, s, (s + 1) - 1, o + 1)
  BY <1>1 DEF NoStars, Fit
<1>8. /\ s + 1 \in 1..Len(B) + 1 /\ o + 2 \in 1..Len(route) + 1 /\ s \in 0..(s + 1) - 1
      /\ o + 2 = ((s + 1) - s) + (o + 1) /\ o + 1 \in Nat /\ s # 0
  BY <1>1
<1> QED
  BY <1>2, <1>4, <1>6, <1>7, <1>8 DEF Follows
CoveredBy(L, route, rule) ==
  IF Anchored(rule) THEN Len(route) \in L[Len(Body(rule))] ELSE L[Len(Body(rule))] # {}

LEMMA Numbers ==
  ASSUME NEW L, NEW route, NEW rule, NEW p, NEW q, NEW s, NEW o,
         Table(L, route, Body(rule)), Follows(L, route, rule, p, q, s, o)
  PROVE  /\ p \in 1..Len(Body(rule)) + 1 /\ q \in 1..Len(route) + 1 /\ s \in 0..p - 1 /\ o \in Nat
         /\ q = (p - s) + o /\ p \in Nat /\ q \in Nat /\ s \in Nat
         /\ Len(Body(rule)) \in Nat /\ Len(route) \in Nat
<1>1. /\ p \in 1..Len(Body(rule)) + 1 /\ q \in 1..Len(route) + 1 /\ s \in 0..p - 1 /\ o \in Nat
      /\ q = (p - s) + o
  BY DEF Follows
<1>2. Len(Body(rule)) \in Nat /\ Len(route) \in Nat
  BY DEF Table
<1> QED
  BY <1>1, <1>2

\* What was followed so far is a length that the pattern so far covers.
LEMMA FollowedCovers ==
  ASSUME NEW L, NEW route, NEW rule, NEW p, NEW q, NEW s, NEW o,
         Table(L, route, Body(rule)), Follows(L, route, rule, p, q, s, o)
  PROVE  q - 1 \in L[p - 1]
<1> DEFINE B == Body(rule)
<1>1. /\ p \in 1..Len(B) + 1 /\ q \in Nat /\ s \in 0..p - 1 /\ o \in Nat
      /\ p \in Nat /\ s \in Nat /\ Len(B) \in Nat
      /\ q - 1 = o + ((p - 1) - s) /\ s \in 0..Len(B) /\ p - 1 \in s..Len(B)
  BY DEF Table, Follows
<1>2. NoStars(B, s, p - 1) /\ Fit(route, B, s, p - 1, o) /\ o \in L[s]
  BY DEF Follows
<1>3. \A x : x \in L[p - 1] <=> \E m \in L[s] : x = m + ((p - 1) - s) /\ Fit(route, B, s, p - 1, m)
  BY <1>1, <1>2, Segment
<1> QED
  BY <1>1, <1>2, <1>3

\* A match is a match: at the end of a pattern that is not anchored ...
LEMMA AtPatternEnd ==
  ASSUME NEW L, NEW route, NEW rule, NEW p, NEW q, NEW s, NEW o,
         Table(L, route, Body(rule)), Follows(L, route, rule, p, q, s, o),
         p > Len(Body(rule)), ~Anchored(rule)
  PROVE  CoveredBy(L, route, rule)
<1>1. p - 1 = Len(Body(rule))
  BY Numbers
<1> QED
  BY <1>1, FollowedCovers DEF CoveredBy

\* ... and when the path has ended and only stars are left.
LEMMA AtPathEnd ==
  ASSUME NEW L, NEW route, NEW rule, NEW p, NEW q, NEW s, NEW o,
         Table(L, route, Body(rule)), Follows(L, route, rule, p, q, s, o),
         q > Len(route), \A i \in p..Len(Body(rule)) : Body(rule)[i] = "*"
  PROVE  CoveredBy(L, route, rule)
<1>1. /\ q - 1 = Len(route) /\ p - 1 \in 0..Len(Body(rule)) /\ Len(Body(rule)) \in p - 1..Len(Body(rule))
      /\ \A i \in (p - 1) + 1..Len(Body(rule)) : Body(rule)[i] = "*"
  <2>1. /\ p \in 1..Len(Body(rule)) + 1 /\ q \in 1..Len(route) + 1 /\ p \in Nat /\ q \in Nat
        /\ Len(Body(rule)) \in Nat /\ Len(route) \in Nat
    BY Numbers
  <2> QED
    BY <2>1
<1>2. Len(route) \in L[p - 1]
  BY <1>1, FollowedCovers
<1>3. Len(route) \in L[Len(Body(rule))]
  BY <1>1, <1>2, StarsKeep
<1> QED
  BY <1>3 DEF CoveredBy

\* A failure is one: the path has ended and more than stars are left ...
LEMMA SignsLeft ==
  ASSUME NEW L, NEW route, NEW rule, NEW p, NEW q, NEW s, NEW o,
         Table(L, route, Body(rule)), Follows(L, route, rule, p, q, s, o),
         q > Len(route), \E i \in p..Len(Body(rule)) : Body(rule)[i] # "*"
  PROVE  ~CoveredBy(L, route, rule)
<1> DEFINE B == Body(rule)
<1> DEFINE k == Len(B)
<1>1. /\ p \in 1..k /\ q = Len(route) + 1 /\ s \in 0..p - 1 /\ o \in Nat
      /\ p \in Nat /\ s \in Nat /\ k \in Nat /\ Len(route) \in Nat
      /\ q = o + (p - s) /\ s \in 0..k /\ p - 1 \in s..k /\ p \in s + 1..k + 1
  <2>1. /\ p \in 1..k + 1 /\ q \in 1..Len(route) + 1 /\ s \in 0..p - 1 /\ o \in Nat
        /\ q = (p - s) + o /\ p \in Nat /\ q \in Nat /\ s \in Nat
        /\ k \in Nat /\ Len(route) \in Nat
    BY Numbers
  <2>2. p <= k /\ q = Len(route) + 1
    BY <2>1
  <2> HIDE DEF k
  <2> QED
    BY <2>1, <2>2
<1>2. NoStars(B, s, p - 1) /\ \A m \in L[s] : m < o => Dead(route, rule, s, m)
  BY DEF Follows
<1>3. L[s] \subseteq Nat
  BY <1>1, LengthsTyped
<1>4. CASE B[p] # "*"
  <2>1. PICK e \in s..k : Ends(B, s, e)
    BY <1>1, PartEnds
  <2>2. e >= p /\ p \in s + 1..e /\ e \in Nat
    <3>1. e >= p
      BY <1>1, <1>2, <1>4, <2>1, PartGoesOn
    <3> QED
      BY <1>1, <2>1, <3>1
  <2>3. ASSUME NEW m \in L[s], Fit(route, B, s, e, m)
        PROVE  Anchored(rule) /\ e = k /\ m + (e - s) # Len(route)
    <3>1. m < o
      <4>1. m + (p - s) <= Len(route)
        BY <2>2, <2>3 DEF Fit
      <4> QED
        BY <1>1, <1>3, <4>1
    <3>2. Dead(route, rule, s, m)
      BY <1>2, <3>1
    <3> QED
      BY <2>1, <2>3, <3>2 DEF Dead
  <2>4. \A x : x \in L[e] <=> \E m \in L[s] : x = m + (e - s) /\ Fit(route, B, s, e, m)
    BY <1>1, <2>1, Segment DEF Ends
  <2>5. CASE Anchored(rule) /\ e = k
    <3>1. Len(route) \notin L[k]
      BY <2>3, <2>4, <2>5
    <3> QED
      BY <2>5, <3>1 DEF CoveredBy
  <2>6. CASE ~(Anchored(rule) /\ e = k)
    <3>1. L[e] = {}
      BY <2>3, <2>4, <2>6
    <3>2. e \in 0..k /\ k \in e..k
      BY <1>1, <2>2
    <3>3. L[k] = {}
      BY <3>1, <3>2, NothingLeft
    <3> QED
      BY <3>3 DEF CoveredBy
  <2> QED
    BY <2>5, <2>6
<1>5. CASE B[p] = "*"
  <2>1. Ends(B, s, p - 1) /\ p - 1 # k
    BY <1>1, <1>2, <1>5 DEF Ends
  <2>2. \A x : x \in L[p - 1] <=> \E m \in L[s] : x = m + ((p - 1) - s) /\ Fit(route, B, s, p - 1, m)
    BY <1>1, <1>2, Segment
  <2>3. ASSUME NEW x \in L[p - 1]
        PROVE  x = Len(route)
    <3>1. PICK m \in L[s] : x = m + ((p - 1) - s) /\ Fit(route, B, s, p - 1, m)
      BY <2>2
    <3>2. ~(m < o)
      BY <1>1, <1>2, <2>1, <3>1 DEF Dead
    <3>3. x \in 0..Len(route)
      <4>1. p - 1 \in 0..k
        BY <1>1
      <4> QED
        BY <4>1, LengthsTyped
    <3> QED
      BY <1>1, <1>3, <3>1, <3>2, <3>3
  <2> DEFINE T == {i \in p..k : B[i] # "*"}
  <2>4. T \subseteq Nat /\ T # {}
    BY <1>1
  <2>5. PICK e \in T : \A i \in T : e <= i
    BY Zenon, <2>4, LeastNumber
  <2>6. e \in p..k /\ B[e] # "*" /\ e \in 1..k
    BY <1>1, <2>5
  <2>7. ASSUME NEW i \in (p - 1) + 1..e - 1
        PROVE  B[i] = "*"
    <3>1. i \in p..k /\ ~(e <= i)
      BY <1>1, <2>6
    <3> QED
      BY <2>5, <3>1
  <2> HIDE DEF T
  <2>8. p - 1 \in 0..k /\ e - 1 \in p - 1..k
    BY <1>1, <2>6
  <2>9. L[e - 1] \subseteq {Len(route)}
    BY <2>3, <2>7, <2>8, StarsKeep
  <2>10. L[e] = {x \in 1..Len(route) : x - 1 \in L[e - 1] /\ route[x] = B[e]}
    BY <2>6 DEF Table, Covers
  <2>11. L[e] = {}
    BY <1>1, <2>9, <2>10
  <2>12. e \in 0..k /\ k \in e..k
    BY <1>1, <2>6
  <2>13. L[k] = {}
    BY <2>11, <2>12, NothingLeft
  <2> QED
    BY <2>13 DEF CoveredBy
<1> QED
  BY <1>4, <1>5

\* ... or a sign does not fit and there is no star to take more.
LEMMA NoStarYet ==
  ASSUME NEW L, NEW route, NEW rule, NEW p, NEW q, NEW s, NEW o,
         Table(L, route, Body(rule)), Follows(L, route, rule, p, q, s, o),
         s = 0, q <= Len(route),
         IF p > Len(Body(rule)) THEN Anchored(rule)
         ELSE Body(rule)[p] # "*" /\ Body(rule)[p] # route[q]
  PROVE  ~CoveredBy(L, route, rule)
<1> DEFINE B == Body(rule)
<1> DEFINE k == Len(B)
<1>1. /\ p \in 1..k + 1 /\ q \in 1..Len(route) /\ o = 0 /\ q = p /\ p \in Nat /\ k \in Nat
      /\ L[0] = {0} /\ 0 \in 0..k /\ Len(route) \in Nat
  BY DEF Table, Follows
<1>2. NoStars(B, 0, p - 1)
  BY DEF Follows
<1>3. CASE p > k
  <2>1. p - 1 = k /\ k \in 0..k
    BY <1>1, <1>3
  <2>2. \A x : x \in L[k] <=> \E m \in L[0] : x = m + (k - 0) /\ Fit(route, B, 0, k, m)
    BY <1>1, <1>2, <2>1, Segment
  <2>3. Len(route) \notin L[k]
    BY <1>1, <2>1, <2>2
  <2> QED
    BY <1>3, <2>3 DEF CoveredBy
<1>4. CASE p <= k
  <2>1. B[p] # "*" /\ B[p] # route[p]
    BY <1>1, <1>4
  <2>2. p \in 0..k /\ 0 + 1..p = (0 + 1..p - 1) \cup {p} /\ k \in p..k
    BY <1>1, <1>4
  <2>3. NoStars(B, 0, p)
    BY <1>2, <2>1, <2>2 DEF NoStars
  <2>4. \A x : x \in L[p] <=> \E m \in L[0] : x = m + (p - 0) /\ Fit(route, B, 0, p, m)
    <3>1. p \in 0..k /\ 0 \in 0..k
      BY <1>1, <2>2
    <3> QED
      BY Zenon, <2>3, <3>1, Segment
  <2>5. ~Fit(route, B, 0, p, 0)
    <3>1. p \in 0 + 1..p /\ 0 + (p - 0) = p
      BY <1>1
    <3> QED
      BY <2>1, <3>1 DEF Fit
  <2>6. L[p] = {}
    BY <1>1, <2>4, <2>5
  <2>7. L[k] = {}
    BY <2>2, <2>6, NothingLeft
  <2> QED
    BY <2>7 DEF CoveredBy
<1> QED
  BY <1>1, <1>3, <1>4
---------------------------------------------------------------------------
(* The answer.                                                             *)

Off(a) == IF a.star = 0 THEN 0 ELSE a.back - 1

\* Where the loop is tells which beginnings of the path are excluded.
Tracks(a, rule, route) ==
  /\ a \in [pattern : Nat, path : Nat, star : Nat, back : Nat]
  /\ a.star > 0 => a.back > 0
  /\ a.back <= Len(route) + 1
  /\ Follows(Lengths(route, Body(rule)), route, rule, a.pattern, a.path, a.star, Off(a))

LEMMA Bodies ==
  ASSUME NEW rule \in Rule
  PROVE  rule.value \in Seq(STRING) /\ Body(rule) \in Seq(STRING)
<1>1. rule.value \in Seq(STRING)
  BY DEF Rule
<1>2. rule.value # <<>> => Front(rule.value) \in Seq(STRING)
  <2>1. Len(rule.value) \in Nat /\ \A i \in 1..Len(rule.value) - 1 : rule.value[i] \in STRING
    BY <1>1, LenProperties, ElementOfSeq
  <2> QED
    BY <2>1, SubSeqProperties DEF Front
<1> QED
  BY <1>1, <1>2 DEF Body, Anchored

LEMMA TracksStart ==
  ASSUME NEW rule \in Rule, NEW route \in Seq(STRING)
  PROVE  Tracks(Start, rule, route)
<1>1. Table(Lengths(route, Body(rule)), route, Body(rule))
  BY Bodies, LengthsAre
<1>2. Follows(Lengths(route, Body(rule)), route, rule, 1, 1, 0, 0)
  BY <1>1, Begins
<1>3. Len(route) \in Nat
  BY <1>1 DEF Table
<1>4. /\ Start.pattern = 1 /\ Start.path = 1 /\ Start.star = 0 /\ Start.back = 0
      /\ Start \in [pattern : Nat, path : Nat, star : Nat, back : Nat]
  BY DEF Start
<1> QED
  BY <1>2, <1>3, <1>4 DEF Tracks, Off

Here == /\ rules \in Seq(Rule) /\ rules # <<>> /\ path \in Seq(STRING)
        /\ Tracks(at, Head(rules), path)

LEMMA HereIs ==
  ASSUME Here
  PROVE  /\ Head(rules) \in Rule
         /\ Table(Lengths(path, Body(Head(rules))), path, Body(Head(rules)))
         /\ Follows(Lengths(path, Body(Head(rules))), path, Head(rules),
                    at.pattern, at.path, at.star, Off(at))
         /\ at \in [pattern : Nat, path : Nat, star : Nat, back : Nat]
         /\ at.star > 0 => at.back > 0
         /\ at.path \in 1..Len(path) + 1 /\ at.back \in 0..Len(path) + 1 /\ at.star < at.pattern
<1>1. Head(rules) \in Rule
  BY HeadTailProperties DEF Here
<1>2. Table(Lengths(path, Body(Head(rules))), path, Body(Head(rules)))
  BY <1>1, Bodies, LengthsAre DEF Here
<1>3. /\ Follows(Lengths(path, Body(Head(rules))), path, Head(rules),
                 at.pattern, at.path, at.star, Off(at))
      /\ at \in [pattern : Nat, path : Nat, star : Nat, back : Nat]
      /\ at.star > 0 => at.back > 0
      /\ at.back <= Len(path) + 1
  BY DEF Here, Tracks
<1>4. /\ at.path \in 1..Len(path) + 1 /\ at.star \in 0..at.pattern - 1 /\ Len(path) \in Nat
  BY <1>2, <1>3, Numbers
<1>5. at.back \in 0..Len(path) + 1 /\ at.star < at.pattern
  BY <1>3, <1>4
<1> QED
  BY <1>1, <1>2, <1>3, <1>4, <1>5

\* The stars that are counted are all that is left, or something else is.
LEMMA StarsCounted ==
  ASSUME Here, PathEnds, ~PatternEnds
  PROVE  /\ StarsLeft \in Nat
         /\ at.pattern + StarsLeft > Len(Body(Head(rules)))
              <=> \A i \in at.pattern..Len(Body(Head(rules))) : Body(Head(rules))[i] = "*"
<1> DEFINE B == Body(Head(rules))
<1> DEFINE p == at.pattern
<1> DEFINE T == {i \in p..Len(B) + 1 : i = Len(B) + 1 \/ B[i] # "*"}
<1>1. p \in Nat /\ p >= 1 /\ p <= Len(B) /\ Len(B) \in Nat /\ DOMAIN B = 1..Len(B)
  <2>1. p \in 1..Len(B) + 1 /\ p \in Nat /\ Len(B) \in Nat
    BY HereIs, Numbers
  <2>2. DOMAIN B = 1..Len(B)
    BY HereIs, LenProperties DEF Table
  <2> QED
    BY <2>1, <2>2 DEF PatternEnds
<1>2. T \subseteq Nat /\ T # {}
  <2>1. Len(B) + 1 \in T
    BY <1>1
  <2> QED
    BY <1>1, <2>1
<1>3. PICK e \in T : \A i \in T : e <= i
  BY Zenon, <1>2, LeastNumber
<1>4. e \in p..Len(B) + 1 /\ (e = Len(B) + 1 \/ B[e] # "*")
  BY <1>3
<1>5. ASSUME NEW i \in p..e - 1
      PROVE  B[i] = "*" /\ i \in DOMAIN B
  <2>1. i \in p..Len(B) + 1 /\ i # Len(B) + 1 /\ ~(e <= i) /\ i \in 1..Len(B)
    BY <1>1, <1>4
  <2> QED
    BY <1>1, <1>3, <2>1
<1> HIDE DEF T
<1>6. {i \in DOMAIN B : i >= p /\ \A j \in p..i : B[j] = "*"} = p..e - 1
  <2>1. ASSUME NEW i \in p..e - 1
        PROVE  i \in DOMAIN B /\ i >= p /\ \A j \in p..i : B[j] = "*"
    <3>1. \A j \in p..i : j \in p..e - 1
      BY <1>1, <1>4
    <3> QED
      BY <1>1, <1>4, <1>5, <3>1
  <2>2. ASSUME NEW i \in DOMAIN B, i >= p, \A j \in p..i : B[j] = "*"
        PROVE  i \in p..e - 1
    <3>1. i \in Nat /\ i <= Len(B)
      BY <1>1
    <3>2. ASSUME i >= e
          PROVE  FALSE
      <4>1. e \in p..i /\ e # Len(B) + 1
        BY <1>1, <1>4, <3>1, <3>2
      <4> QED
        BY <1>4, <2>2, <4>1
    <3> QED
      BY <1>1, <1>4, <2>2, <3>1, <3>2
  <2> QED
    BY <2>1, <2>2
<1>7. StarsLeft = Cardinality(p..e - 1)
  BY <1>6 DEF StarsLeft
<1>8. Cardinality(p..e - 1) = e - p
  <2>1. p \in Int /\ e - 1 \in Int /\ e - 1 >= p - 1 /\ e \in Int
    BY <1>1, <1>4
  <2>2. Cardinality(p..e - 1) = IF p > e - 1 THEN 0 ELSE (e - 1) - p + 1
    BY <2>1, FS_Interval
  <2> QED
    BY <2>1, <2>2
<1>9. StarsLeft = e - p
  BY <1>7, <1>8
<1> HIDE DEF B, p
<1>10. StarsLeft \in Nat /\ (p + StarsLeft > Len(B) <=> e = Len(B) + 1)
  BY <1>1, <1>4, <1>9
<1>11. e = Len(B) + 1 <=> \A i \in p..Len(B) : B[i] = "*"
  BY <1>1, <1>4, <1>5
<1> QED
  BY <1>10, <1>11 DEF B, p

LEMMA CoveredIs ==
  ASSUME NEW rule, NEW route, rule.value # <<>>
  PROVE  Covered(route, rule) <=> CoveredBy(Lengths(route, Body(rule)), route, rule)
BY DEF Covered, CoveredBy

LEMMA MatchIsRight ==
  ASSUME Here, Matches, Head(rules).value # <<>>
  PROVE  Covered(path, Head(rules))
<1> DEFINE L == Lengths(path, Body(Head(rules)))
<1>1. /\ Table(L, path, Body(Head(rules)))
      /\ Follows(L, path, Head(rules), at.pattern, at.path, at.star, Off(at))
  BY HereIs
<1>2. at.pattern \in Nat /\ Len(Body(Head(rules))) \in Nat
  BY <1>1, Numbers
<1>3. CASE PatternEnds /\ ~Anchored(Head(rules))
  <2>1. CoveredBy(L, path, Head(rules))
    BY Zenon, <1>1, <1>3, AtPatternEnd DEF PatternEnds
  <2> QED
    BY <2>1, CoveredIs
<1>4. CASE PathEnds /\ at.pattern + StarsLeft > Len(Body(Head(rules)))
  <2>1. \A i \in at.pattern..Len(Body(Head(rules))) : Body(Head(rules))[i] = "*"
    <3>1. CASE PatternEnds
      BY <1>2, <3>1 DEF PatternEnds
    <3>2. CASE ~PatternEnds
      BY <1>4, <3>2, StarsCounted
    <3> QED
      BY <3>1, <3>2
  <2>2. CoveredBy(L, path, Head(rules))
    BY Zenon, <1>1, <1>4, <2>1, AtPathEnd DEF PathEnds
  <2> QED
    BY <2>2, CoveredIs
<1> QED
  BY <1>3, <1>4 DEF Matches

LEMMA FailureIsRight ==
  ASSUME Here, Fails, Head(rules).value # <<>>
  PROVE  ~Covered(path, Head(rules))
<1> DEFINE L == Lengths(path, Body(Head(rules)))
<1>1. /\ Table(L, path, Body(Head(rules)))
      /\ Follows(L, path, Head(rules), at.pattern, at.path, at.star, Off(at))
  BY HereIs
<1>2. /\ at.pattern \in Nat /\ Len(Body(Head(rules))) \in Nat
      /\ at.path \in Nat /\ Len(path) \in Nat /\ at.star \in Nat
  BY <1>1, Numbers
<1>3. ~Matches
  BY DEF Fails
<1>4. CASE PathEnds
  <2>1. ~PatternEnds
    <3>1. ASSUME PatternEnds
          PROVE  Matches
      <4>1. StarsLeft = 0
        BY <3>1 DEF StarsLeft
      <4> QED
        BY <1>2, <1>4, <3>1, <4>1 DEF Matches, PatternEnds
    <3> QED
      BY <1>3, <3>1
  <2>2. ~(at.pattern + StarsLeft > Len(Body(Head(rules))))
    BY <1>3, <1>4 DEF Matches
  <2>3. \E i \in at.pattern..Len(Body(Head(rules))) : Body(Head(rules))[i] # "*"
    BY <1>4, <2>1, <2>2, StarsCounted
  <2>4. ~CoveredBy(L, path, Head(rules))
    BY Zenon, <1>1, <1>4, <2>3, SignsLeft DEF PathEnds
  <2> QED
    BY <2>4, CoveredIs
<1>5. CASE ~PathEnds
  <2>1. at.star = 0 /\ at.path <= Len(path) /\ (PatternEnds \/ Character \notin {"*", path[at.path]})
    BY <1>2, <1>5 DEF Fails, PathEnds
  <2>2. PatternEnds => Anchored(Head(rules))
    BY <1>3 DEF Matches
  <2>3. IF at.pattern > Len(Body(Head(rules))) THEN Anchored(Head(rules))
        ELSE Body(Head(rules))[at.pattern] # "*" /\ Body(Head(rules))[at.pattern] # path[at.path]
    BY <2>1, <2>2 DEF PatternEnds, Character
  <2>4. ~CoveredBy(L, path, Head(rules))
    BY Zenon, <1>1, <2>1, <2>3, NoStarYet
  <2> QED
    BY <2>4, CoveredIs
<1> QED
  BY <1>4, <1>5

LEMMA AdvanceIsRight ==
  ASSUME Here, ~Matches, ~Fails
  PROVE  Tracks(Advanced, Head(rules), path)
<1> DEFINE L == Lengths(path, Body(Head(rules)))
<1> DEFINE p == at.pattern
<1> DEFINE q == at.path
<1>1. /\ Table(L, path, Body(Head(rules)))
      /\ Follows(L, path, Head(rules), p, q, at.star, Off(at))
      /\ at \in [pattern : Nat, path : Nat, star : Nat, back : Nat]
      /\ at.star > 0 => at.back > 0
      /\ at.back \in 0..Len(path) + 1
  BY HereIs
<1>2. /\ p \in 1..Len(Body(Head(rules))) + 1 /\ q \in 1..Len(path) + 1
      /\ p \in Nat /\ Len(Body(Head(rules))) \in Nat
      /\ q \in Nat /\ Len(path) \in Nat /\ at.star \in Nat /\ at.back \in Nat
  BY <1>1, Numbers
<1>3. ~PathEnds
  BY DEF Fails
<1>4. q <= Len(path)
  BY <1>2, <1>3 DEF PathEnds
<1>5. CASE ~PatternEnds /\ Character = "*"
  <2> DEFINE b == [pattern |-> p + 1, path |-> q, star |-> p, back |-> q]
  <2>1. Advanced = b
    BY <1>1, <1>5 DEF Advanced
  <2>2. Follows(L, path, Head(rules), p + 1, q, p, q - 1)
    BY <1>1, <1>2, <1>5, OnStar DEF PatternEnds, Character
  <2>3. Off(b) = q - 1
    BY <1>2 DEF Off
  <2> QED
    BY <1>2, <2>1, <2>2, <2>3 DEF Tracks
<1>6. CASE ~PatternEnds /\ Character # "*" /\ Character = path[q]
  <2> DEFINE b == [pattern |-> p + 1, path |-> q + 1, star |-> at.star, back |-> at.back]
  <2>1. Advanced = b
    BY <1>1, <1>6 DEF Advanced
  <2>2. Follows(L, path, Head(rules), p + 1, q + 1, at.star, Off(at))
    BY <1>1, <1>2, <1>4, <1>6, OnSign DEF PatternEnds, Character
  <2>3. Off(b) = Off(at)
    BY DEF Off
  <2> QED
    BY <1>1, <1>2, <2>1, <2>2, <2>3 DEF Tracks
<1>7. CASE PatternEnds \/ (Character # "*" /\ Character # path[q])
  <2> DEFINE b == [pattern |-> at.star + 1, path |-> at.back + 1, star |-> at.star,
                   back |-> at.back + 1]
  <2>1. at.star > 0
    BY <1>2, <1>7 DEF Fails
  <2>2. Advanced = b
    BY <1>1, <1>7 DEF Advanced
  <2>3. PatternEnds => Anchored(Head(rules))
    BY DEF Matches
  <2>4. IF p > Len(Body(Head(rules))) THEN Anchored(Head(rules))
        ELSE Body(Head(rules))[p] # "*" /\ Body(Head(rules))[p] # path[q]
    BY <1>7, <2>3 DEF PatternEnds, Character
  <2>5. Follows(L, path, Head(rules), at.star + 1, Off(at) + 2, at.star, Off(at) + 1)
    BY Zenon, <1>1, <1>4, <2>1, <2>4, OnBack
  <2>6. Off(at) = at.back - 1 /\ Off(at) + 2 = at.back + 1 /\ Off(at) + 1 = at.back /\ Off(b) = at.back
    BY <1>1, <1>2, <2>1 DEF Off
  <2>7. at.back + 1 <= Len(path) + 1
    <3>1. Off(at) + 2 \in 1..Len(path) + 1
      BY <2>5 DEF Follows
    <3> QED
      BY <2>6, <3>1
  <2> QED
    BY <1>1, <1>2, <2>1, <2>2, <2>5, <2>6, <2>7 DEF Tracks
<1> QED
  BY <1>5, <1>6, <1>7
---------------------------------------------------------------------------
(* The rule that decides.                                                  *)

\* A rule that decides at least as much as another.
AtLeast(w, r) == \/ Len(w.value) > Len(r.value)
                 \/ Len(w.value) = Len(r.value) /\ (w.key = "allow" \/ r.key = "disallow")

\* While rules are matched: what is left is ours, what was covered is at most
\* as good as the winner.
Matching(f, route, rs, a, win) ==
  /\ rs \in Seq(Rule)
  /\ \A r \in Range(rs) : r \in Ours(f)
  /\ IF rs # <<>> /\ Head(rs).value # <<>> THEN Tracks(a, Head(rs), route) ELSE a = Start
  /\ \A w \in win : w \in Ours(f) /\ Covered(route, w)
  /\ \A r \in Ours(f) : Covered(route, r) => r \in Range(rs) \/ \E w \in win : AtLeast(w, r)

\* The bounds of TypeOK.
Bounded(a, route, win) ==
  /\ a \in [pattern : Nat, path : Nat, star : Nat, back : Nat]
  /\ a.path \in 1..Len(route) + 1 /\ a.back \in 0..Len(route) + 1 /\ a.star < a.pattern
  /\ \A v, w \in win : v = w

IInv ==
  /\ verdict \in {"unread", "read", "none", "allowed", "refused"}
  /\ budget \in 0..MaxMatchSteps
  /\ path \in Paths \cup {<<>>}
  /\ Bounded(at, path, winner)
  /\ verdict \in {"unread", "read"} => path = <<>> /\ at = Start /\ winner = {}
  /\ verdict = "unread" => file = <<>> /\ rules = <<>>
  /\ verdict \in {"read", "none"} => file \in Files
  /\ verdict = "read" => rules = Chosen(Groups(file))
  /\ verdict = "none" => path \in Paths /\ Matching(file, path, rules, at, winner)
  /\ RobotsAsPublished

\* Files are read into lines, and paths into characters.
Sane == Files \subseteq Seq(Line) /\ Paths \subseteq Seq(STRING) /\ MaxMatchSteps \in Nat

LEMMA OursAreRules ==
  ASSUME NEW f \in Seq(Line)
  PROVE  /\ Ours(f) \subseteq Rule
         /\ \A route, r \in Rule :
              Covered(route, r) => (r \in Ours(f) <=> \E i \in OurLines(f) : f[i] = r)
<1>1. \A i \in OurLines(f) : i \in 1..Len(f) /\ f[i].key # "agent"
  BY LenProperties DEF OurLines
<1>2. Ours(f) \subseteq Rule
  BY <1>1, Lines DEF Ours
<1> QED
  BY <1>2 DEF Ours, Covered, Empty

LEMMA Ranked ==
  ASSUME NEW r \in Rule, NEW w \in Rule
  PROVE  /\ Better(r, w) => AtLeast(r, w)
         /\ ~Better(r, w) => AtLeast(w, r)
         /\ AtLeast(r, r)
         /\ \A v \in Rule : AtLeast(r, w) /\ AtLeast(w, v) => AtLeast(r, v)
<1>1. \A v \in Rule : Len(v.value) \in Nat /\ v.key \in {"allow", "disallow"}
  BY LenProperties DEF Rule
<1> QED
  BY <1>1 DEF Better, AtLeast

LEMMA WinnerForbids ==
  ASSUME NEW f \in Seq(Line), NEW route, NEW win,
         \A w \in win : w \in Ours(f) /\ Covered(route, w), \A v, w \in win : v = w,
         \A r \in Ours(f) : Covered(route, r) => \E w \in win : AtLeast(w, r)
  PROVE  Forbidden(f, route) <=> \E w \in win : w.key = "disallow"
<1> DEFINE ours == {f[i] : i \in {i \in OurLines(f) : Covered(route, f[i])}}
<1>1. ASSUME NEW r
      PROVE  r \in ours <=> r \in Ours(f) /\ Covered(route, r)
  <2>1. \A i \in OurLines(f) : Covered(route, f[i]) => ~Empty(f[i])
    BY DEF Covered, Empty
  <2> QED
    BY <2>1 DEF Ours
<1>2. Forbidden(f, route) <=> \E r \in ours : /\ r.key = "disallow"
                                              /\ \A s \in ours : s.key = "allow" => Len(s.value) < Len(r.value)
  BY Zenon DEF Forbidden
<1> HIDE DEF ours
<1>3. \A r \in ours : r \in Rule
  BY <1>1, OursAreRules
<1>4. \A r \in Rule : Len(r.value) \in Nat /\ r.key \in {"allow", "disallow"}
  BY LenProperties DEF Rule
<1>5. \A w \in win : w \in ours
  BY <1>1
<1>6. ASSUME NEW w \in win, w.key = "disallow"
      PROVE  Forbidden(f, route)
  <2>1. w \in ours /\ w \in Rule
    BY <1>3, <1>5
  <2>2. ASSUME NEW s \in ours, s.key = "allow"
        PROVE  Len(s.value) < Len(w.value)
    <3>1. AtLeast(w, s)
      BY <1>1
    <3> QED
      BY <1>3, <1>4, <1>6, <2>1, <2>2, <3>1 DEF AtLeast
  <2> QED
    BY <1>2, <1>6, <2>1, <2>2
<1>7. ASSUME NEW r \in ours, r.key = "disallow",
             \A s \in ours : s.key = "allow" => Len(s.value) < Len(r.value)
      PROVE  \E w \in win : w.key = "disallow"
  <2>1. PICK w \in win : AtLeast(w, r)
    BY <1>1
  <2>2. w \in ours /\ w \in Rule /\ r \in Rule
    BY <1>3, <1>5
  <2>3. w.key # "allow"
    <3>1. ASSUME w.key = "allow"
          PROVE  FALSE
      <4>1. Len(w.value) < Len(r.value)
        BY <1>7, <2>2, <3>1
      <4> QED
        BY <1>4, <2>1, <2>2, <4>1 DEF AtLeast
    <3> QED
      BY <3>1
  <2> QED
    BY <1>4, <2>2, <2>3
<1> QED
  BY <1>2, <1>6, <1>7

LEMMA Fresh ==
  ASSUME NEW route, Len(route) \in Nat
  PROVE  Bounded(Start, route, {})
<1>1. /\ Start.pattern = 1 /\ Start.path = 1 /\ Start.star = 0 /\ Start.back = 0
      /\ Start \in [pattern : Nat, path : Nat, star : Nat, back : Nat]
  BY DEF Start
<1> QED
  BY <1>1 DEF Bounded

LEMMA InvInit ==
  ASSUME Sane, Init
  PROVE  IInv
<1>1. Len(<<>>) = 0
  OBVIOUS
<1>2. Bounded(at, path, winner)
  BY <1>1, Fresh DEF Init
<1> QED
  BY <1>2 DEF Init, IInv, Sane, RobotsAsPublished

LEMMA LoadKeeps ==
  ASSUME Sane, IInv, Load
  PROVE  IInv'
<1>1. PICK f \in Files :
        /\ file' = f
        /\ IF TooMany(Groups(f)) THEN verdict' = "refused" /\ UNCHANGED rules
           ELSE verdict' = "read" /\ rules' = Chosen(Groups(f))
  BY DEF Load
<1>2. /\ path' = path /\ at' = at /\ winner' = winner /\ budget' = budget
      /\ path = <<>> /\ at = Start /\ winner = {}
  BY DEF Load, IInv
<1>3. Bounded(at, path, winner) /\ budget \in 0..MaxMatchSteps
  BY DEF IInv
<1>4. CASE TooMany(Groups(f))
  <2>1. verdict' = "refused" /\ TooMany(Groups(file'))
    BY <1>1, <1>4
  <2> QED
    BY <1>2, <1>3, <2>1 DEF IInv, RobotsAsPublished
<1>5. CASE ~TooMany(Groups(f))
  BY <1>1, <1>2, <1>3, <1>5 DEF IInv, RobotsAsPublished
<1> QED
  BY <1>4, <1>5

LEMMA AskKeeps ==
  ASSUME Sane, IInv, Ask
  PROVE  IInv'
<1>1. /\ file \in Files /\ file \in Seq(Line) /\ path' \in Paths /\ path' \in Seq(STRING)
      /\ rules = Chosen(Groups(file)) /\ at = Start /\ winner = {} /\ budget \in 0..MaxMatchSteps
      /\ verdict' = "none"
      /\ file' = file /\ rules' = rules /\ at' = at /\ winner' = winner /\ budget' = budget
  BY DEF Ask, IInv, Sane
<1>2. rules \in Seq(Rule) /\ Range(rules) = Ours(file)
  BY <1>1, ChosenAreOurs
<1>3. ASSUME rules # <<>>
      PROVE  Tracks(Start, Head(rules), path')
  <2>1. Head(rules) \in Rule
    BY <1>2, <1>3, HeadTailProperties
  <2> QED
    BY <1>1, <2>1, TracksStart
<1>4. Matching(file, path', rules, at, winner)
  BY <1>1, <1>2, <1>3 DEF Matching
<1>5. Bounded(at, path', winner)
  <2>1. Len(path') \in Nat
    BY <1>1, LenProperties
  <2> QED
    BY <1>1, <2>1, Fresh
<1> QED
  BY <1>1, <1>4, <1>5 DEF IInv, RobotsAsPublished

\* A rule is done with: the next one is matched from the start.
LEMMA NextRule ==
  ASSUME NEW f \in Seq(Line), NEW route \in Seq(STRING), NEW rs, NEW a, NEW win,
         Matching(f, route, rs, a, win), rs # <<>>,
         NEW new, \A w \in new : w \in Ours(f) /\ Covered(route, w),
         Covered(route, Head(rs)) => \E w \in new : AtLeast(w, Head(rs)),
         \A v \in win : \E w \in new : AtLeast(w, v)
  PROVE  Matching(f, route, Tail(rs), Start, new)
<1>1. /\ rs \in Seq(Rule) /\ \A r \in Range(rs) : r \in Ours(f)
      /\ \A w \in win : w \in Ours(f)
      /\ \A r \in Ours(f) : Covered(route, r) => r \in Range(rs) \/ \E w \in win : AtLeast(w, r)
  BY DEF Matching
<1>2. Tail(rs) \in Seq(Rule)
  BY <1>1, HeadTailProperties
<1>3. \A r : r \in Range(rs) <=> r = Head(rs) \/ r \in Range(Tail(rs))
  <2>1. /\ Len(rs) \in Nat \ {0} /\ DOMAIN rs = 1..Len(rs) /\ DOMAIN Tail(rs) = 1..Len(rs) - 1
        /\ Head(rs) = rs[1] /\ \A i \in 1..Len(rs) - 1 : Tail(rs)[i] = rs[i + 1]
    BY <1>1, <1>2, HeadTailProperties, LenProperties, EmptySeq
  <2>2. \A i \in 1..Len(rs) - 1 : i + 1 \in 1..Len(rs)
    BY <2>1
  <2>3. \A i \in 1..Len(rs) : i = 1 \/ (i - 1 \in 1..Len(rs) - 1 /\ (i - 1) + 1 = i)
    BY <2>1
  <2>4. 1 \in 1..Len(rs)
    BY <2>1
  <2>5. ASSUME NEW r \in Range(rs)
        PROVE  r = Head(rs) \/ r \in Range(Tail(rs))
    <3>1. PICK i \in 1..Len(rs) : r = rs[i]
      BY <2>1 DEF Range
    <3>2. CASE i = 1
      BY <2>1, <3>1, <3>2
    <3>3. CASE i # 1
      <4>1. i - 1 \in 1..Len(rs) - 1 /\ Tail(rs)[i - 1] = r
        BY <2>1, <2>3, <3>1, <3>3
      <4> QED
        BY <2>1, <4>1 DEF Range
    <3> QED
      BY <3>2, <3>3
  <2>6. Head(rs) \in Range(rs)
    BY <2>1, <2>4 DEF Range
  <2>7. ASSUME NEW r \in Range(Tail(rs))
        PROVE  r \in Range(rs)
    <3>1. PICK i \in 1..Len(rs) - 1 : r = Tail(rs)[i]
      BY <2>1 DEF Range
    <3> QED
      BY <2>1, <2>2, <3>1 DEF Range
  <2> QED
    BY <2>5, <2>6, <2>7
<1>4. ASSUME Tail(rs) # <<>>
      PROVE  Tracks(Start, Head(Tail(rs)), route)
  <2>1. Head(Tail(rs)) \in Rule
    BY <1>2, <1>4, HeadTailProperties
  <2> QED
    BY <2>1, TracksStart
<1>5. ASSUME NEW r \in Ours(f), Covered(route, r), r \notin Range(Tail(rs))
      PROVE  \E w \in new : AtLeast(w, r)
  <2>1. CASE r = Head(rs)
    BY <1>5, <2>1
  <2>2. CASE r # Head(rs)
    <3>1. PICK v \in win : AtLeast(v, r)
      BY <1>1, <1>3, <1>5, <2>2
    <3>2. PICK w \in new : AtLeast(w, v)
      BY <3>1
    <3>3. r \in Rule /\ v \in Rule /\ w \in Rule
      BY <1>1, <1>5, OursAreRules
    <3>4. AtLeast(w, r)
      BY <3>1, <3>2, <3>3, Ranked
    <3> QED
      BY <3>4
  <2> QED
    BY <2>1, <2>2
<1> QED
  BY <1>1, <1>2, <1>3, <1>4, <1>5 DEF Matching
\* The positions of the next turn are within the path.
LEMMA TracksAreBounded ==
  ASSUME NEW rule \in Rule, NEW route \in Seq(STRING), NEW a, NEW win,
         Tracks(a, rule, route), \A v, w \in win : v = w
  PROVE  Bounded(a, route, win)
<1> DEFINE L == Lengths(route, Body(rule))
<1>1. Table(L, route, Body(rule))
  BY Bodies, LengthsAre
<1>2. /\ Follows(L, route, rule, a.pattern, a.path, a.star, Off(a))
      /\ a \in [pattern : Nat, path : Nat, star : Nat, back : Nat]
      /\ a.back <= Len(route) + 1
  BY DEF Tracks
<1>3. /\ a.path \in 1..Len(route) + 1 /\ a.star \in 0..a.pattern - 1 /\ Len(route) \in Nat
  BY <1>1, <1>2, Numbers
<1>4. a.back \in 0..Len(route) + 1 /\ a.star < a.pattern
  BY <1>2, <1>3
<1> QED
  BY <1>2, <1>3, <1>4 DEF Bounded

\* What holds while rules are matched.
LEMMA WhileMatching ==
  ASSUME Sane, IInv, verdict = "none"
  PROVE  /\ file \in Files /\ file \in Seq(Line) /\ path \in Paths /\ path \in Seq(STRING)
         /\ Matching(file, path, rules, at, winner)
         /\ Bounded(at, path, winner) /\ budget \in 0..MaxMatchSteps /\ MaxMatchSteps \in Nat
         /\ rules \in Seq(Rule) /\ (rules # <<>> => Head(rules) \in Rule /\ Head(rules) \in Ours(file))
         /\ (rules # <<>> /\ Head(rules).value # <<>> => Here)
         /\ winner \subseteq Rule /\ (\A v, w \in winner : v = w)
         /\ Len(path) \in Nat
<1>1. /\ file \in Files /\ file \in Seq(Line) /\ path \in Paths /\ path \in Seq(STRING)
      /\ Matching(file, path, rules, at, winner)
      /\ Bounded(at, path, winner) /\ budget \in 0..MaxMatchSteps /\ MaxMatchSteps \in Nat
  BY DEF IInv, Sane
<1>2. /\ rules \in Seq(Rule) /\ (\A r \in Range(rules) : r \in Ours(file))
      /\ (\A w \in winner : w \in Ours(file))
      /\ (rules # <<>> /\ Head(rules).value # <<>> => Tracks(at, Head(rules), path))
  BY <1>1 DEF Matching
<1>3. rules # <<>> => Head(rules) \in Range(rules)
  <2>1. /\ Len(rules) \in Nat /\ DOMAIN rules = 1..Len(rules)
        /\ (rules # <<>> => Len(rules) # 0 /\ Head(rules) = rules[1])
    BY <1>2, HeadTailProperties, LenProperties, EmptySeq
  <2>2. rules # <<>> => 1 \in DOMAIN rules
    BY <2>1
  <2> QED
    BY <2>1, <2>2 DEF Range
<1>4. winner \subseteq Rule /\ (rules # <<>> => Head(rules) \in Rule /\ Head(rules) \in Ours(file))
  BY <1>1, <1>2, <1>3, OursAreRules
<1>5. Len(path) \in Nat
  BY <1>1, LenProperties
<1>6. \A v, w \in winner : v = w
  BY <1>1 DEF Bounded
<1>7. rules # <<>> /\ Head(rules).value # <<>> => Here
  BY <1>1, <1>2 DEF Here
<1> QED
  BY <1>1, <1>2, <1>4, <1>5, <1>6, <1>7

LEMMA CostCounts ==
  ASSUME Here
  PROVE  Cost \in Nat
<1>1. StarsLeft \in Nat
  <2>1. CASE PathEnds /\ ~PatternEnds
    BY <2>1, StarsCounted
  <2>2. CASE ~(PathEnds /\ ~PatternEnds)
    BY <2>2 DEF StarsLeft
  <2> QED
    BY <2>1, <2>2
<1> QED
  BY <1>1 DEF Cost

\* A rule that is done with leaves a rule to match from its start.
LEMMA DoneKeeps ==
  ASSUME Sane, IInv, verdict = "none", rules # <<>>,
         rules' = Tail(rules), at' = Start,
         \A w \in winner' : w \in Ours(file) /\ Covered(path, w),
         \A v, w \in winner' : v = w,
         Covered(path, Head(rules)) => \E w \in winner' : AtLeast(w, Head(rules)),
         \A v \in winner : \E w \in winner' : AtLeast(w, v),
         budget' \in 0..MaxMatchSteps,
         UNCHANGED <<file, path, verdict>>
  PROVE  IInv'
<1>1. /\ file \in Files /\ file \in Seq(Line) /\ path \in Paths /\ path \in Seq(STRING)
      /\ Matching(file, path, rules, at, winner) /\ Len(path) \in Nat
  BY WhileMatching
<1>2. Matching(file, path, Tail(rules), Start, winner')
  BY Zenon, <1>1, NextRule
<1>3. Bounded(Start, path, winner')
  <2>1. Bounded(Start, path, {})
    BY <1>1, Fresh
  <2> QED
    BY <2>1 DEF Bounded
<1>4. /\ file' = file /\ path' = path /\ verdict' = "none"
      /\ Matching(file', path', rules', at', winner') /\ Bounded(at', path', winner')
  BY <1>2, <1>3
<1> QED
  BY <1>1, <1>4 DEF IInv, RobotsAsPublished

LEMMA StepKeeps ==
  ASSUME Sane, IInv, Step
  PROVE  IInv'
<1>1. /\ verdict = "none" /\ rules # <<>> /\ Head(rules).value # <<>> /\ budget >= Cost
      /\ budget' = budget - Cost
      /\ file' = file /\ path' = path /\ verdict' = verdict
      /\ winner' = IF Matches THEN Won(Head(rules)) ELSE winner
      /\ IF Matches \/ Fails THEN at' = Start /\ rules' = Tail(rules)
                             ELSE at' = Advanced /\ rules' = rules
  BY DEF Step
<1>2. /\ file \in Files /\ file \in Seq(Line) /\ path \in Paths /\ path \in Seq(STRING)
      /\ Matching(file, path, rules, at, winner)
      /\ budget \in 0..MaxMatchSteps /\ MaxMatchSteps \in Nat
      /\ rules \in Seq(Rule) /\ Head(rules) \in Rule /\ Head(rules) \in Ours(file) /\ Here
      /\ winner \subseteq Rule /\ (\A v, w \in winner : v = w)
  BY <1>1, WhileMatching
<1>3. budget' \in 0..MaxMatchSteps
  <2>1. Cost \in Nat
    BY <1>2, CostCounts
  <2> QED
    BY <1>1, <1>2, <2>1
<1>4. \A w \in winner : w \in Ours(file) /\ Covered(path, w)
  BY <1>2 DEF Matching
<1>5. CASE Matches
  <2>1. Covered(path, Head(rules)) /\ winner' = Won(Head(rules))
    BY <1>1, <1>2, <1>5, MatchIsRight
  <2>2. CASE \A other \in winner : Better(Head(rules), other)
    <3>1. winner' = {Head(rules)}
      BY <2>1, <2>2 DEF Won
    <3>2. AtLeast(Head(rules), Head(rules)) /\ (\A v \in winner : AtLeast(Head(rules), v))
      BY <1>2, <2>2, Ranked
    <3> QED
      BY <1>1, <1>2, <1>3, <1>5, <2>1, <3>1, <3>2, DoneKeeps
  <2>3. CASE ~ \A other \in winner : Better(Head(rules), other)
    <3>1. winner' = winner
      BY <2>1, <2>3 DEF Won
    <3>2. PICK other \in winner : ~Better(Head(rules), other)
      BY <2>3
    <3>3. AtLeast(other, Head(rules))
      BY <1>2, <3>2, Ranked
    <3>4. \A v \in winner : AtLeast(v, v)
      BY <1>2, Ranked
    <3> QED
      BY <1>1, <1>2, <1>3, <1>4, <1>5, <3>1, <3>2, <3>3, <3>4, DoneKeeps
  <2> QED
    BY <2>2, <2>3
<1>6. CASE ~Matches /\ Fails
  <2>1. ~Covered(path, Head(rules)) /\ winner' = winner
    BY <1>1, <1>2, <1>6, FailureIsRight
  <2>2. \A v \in winner : AtLeast(v, v)
    BY <1>2, Ranked
  <2> QED
    BY <1>1, <1>2, <1>3, <1>4, <1>6, <2>1, <2>2, DoneKeeps
<1>7. CASE ~Matches /\ ~Fails
  <2>1. Tracks(Advanced, Head(rules), path)
    BY <1>2, <1>7, AdvanceIsRight
  <2>2. at' = Advanced /\ rules' = rules /\ winner' = winner
    BY <1>1, <1>7
  <2>3. Bounded(Advanced, path, winner)
    BY <1>2, <2>1, TracksAreBounded
  <2>4. Matching(file, path, rules, Advanced, winner)
    BY <1>1, <1>2, <2>1 DEF Matching
  <2>5. Matching(file', path', rules', at', winner') /\ Bounded(at', path', winner')
    BY <1>1, <2>2, <2>3, <2>4
  <2> QED
    BY <1>1, <1>2, <1>3, <2>5 DEF IInv, RobotsAsPublished
<1> QED
  BY <1>5, <1>6, <1>7

LEMMA SkipKeeps ==
  ASSUME Sane, IInv, Skip
  PROVE  IInv'
<1>1. /\ verdict = "none" /\ rules # <<>> /\ Head(rules).value = <<>>
      /\ rules' = Tail(rules) /\ at' = at /\ winner' = winner /\ budget' = budget
      /\ UNCHANGED <<file, path, verdict>>
  BY DEF Skip
<1>2. /\ Matching(file, path, rules, at, winner) /\ budget \in 0..MaxMatchSteps
      /\ winner \subseteq Rule /\ (\A v, w \in winner : v = w)
  BY <1>1, WhileMatching
<1>3. at = Start /\ (\A w \in winner : w \in Ours(file) /\ Covered(path, w))
  BY <1>1, <1>2 DEF Matching
<1>4. ~Covered(path, Head(rules))
  BY <1>1 DEF Covered
<1>5. \A v \in winner : AtLeast(v, v)
  BY <1>2, Ranked
<1> QED
  BY <1>1, <1>2, <1>3, <1>4, <1>5, DoneKeeps

LEMMA DecideKeeps ==
  ASSUME Sane, IInv, Decide
  PROVE  IInv'
<1>1. /\ verdict = "none" /\ file' = file /\ path' = path /\ rules' = rules
      /\ at' = at /\ winner' = winner /\ budget' = budget
  BY DEF Decide
<1>2. /\ file \in Seq(Line) /\ path \in Paths
      /\ Matching(file, path, rules, at, winner)
      /\ Bounded(at, path, winner) /\ budget \in 0..MaxMatchSteps
      /\ (\A v, w \in winner : v = w)
  BY <1>1, WhileMatching
<1>3. CASE rules = <<>>
  <2>1. \A r \in Ours(file) : Covered(path, r) => \E w \in winner : AtLeast(w, r)
    <3>1. Range(rules) = {}
      BY <1>3 DEF Range
    <3> QED
      BY <1>2, <3>1 DEF Matching
  <2>2. \A w \in winner : w \in Ours(file) /\ Covered(path, w)
    BY <1>2 DEF Matching
  <2>3. Forbidden(file, path) <=> \E w \in winner : w.key = "disallow"
    BY Zenon, <1>2, <2>1, <2>2, WinnerForbids
  <2>4. verdict' = IF \E w \in winner : w.key = "disallow" THEN "refused" ELSE "allowed"
    BY <1>3 DEF Decide
  <2>5. \/ verdict' = "refused" /\ Forbidden(file, path)
        \/ verdict' = "allowed" /\ ~Forbidden(file, path)
    BY <2>3, <2>4
  <2>6. CASE verdict' = "refused" /\ Forbidden(file, path)
    BY <1>1, <1>2, <2>6 DEF IInv, RobotsAsPublished
  <2>7. CASE verdict' = "allowed" /\ ~Forbidden(file, path)
    BY <1>1, <1>2, <2>7 DEF IInv, RobotsAsPublished
  <2> QED
    BY <2>5, <2>6, <2>7
<1>4. CASE rules # <<>>
  <2>1. verdict' = "refused"
    BY <1>4 DEF Decide
  <2> QED
    BY <1>1, <1>2, <1>4, <2>1 DEF IInv, RobotsAsPublished
<1> QED
  BY <1>3, <1>4

LEMMA InvKept ==
  ASSUME Sane, IInv, [Next]_vars
  PROVE  IInv'
<1>1. ASSUME UNCHANGED vars
      PROVE  IInv'
  BY <1>1 DEF vars, IInv, RobotsAsPublished
<1> QED
  BY Zenon, <1>1, LoadKeeps, AskKeeps, StepKeeps, SkipKeeps, DecideKeeps DEF Next

LEMMA InvAnswers ==
  ASSUME Sane, IInv
  PROVE  RobotsAsPublished /\ TypeOK
<1>1. /\ at.path \in 1..Len(path) + 1 /\ at.back \in 0..Len(path) + 1 /\ at.star < at.pattern
      /\ (\A v, w \in winner : v = w)
  BY DEF IInv, Bounded
<1>2. Cardinality(winner) <= 1
  <2>1. CASE winner = {}
    <3>1. Cardinality(winner) = 0
      BY <2>1, FS_EmptySet
    <3> QED
      BY <3>1
  <2>2. CASE winner # {}
    <3>1. PICK w \in winner : winner = {w}
      BY <1>1, <2>2
    <3>2. Cardinality({w}) = 1
      BY FS_Singleton
    <3> QED
      BY <3>1, <3>2
  <2> QED
    BY <2>1, <2>2
<1> QED
  BY <1>1, <1>2 DEF IInv, TypeOK

---------------------------------------------------------------------------
(* The weekly schedule (WeeklySchedule).                                   *)

\* A week has days and a day its units; a slot is a day of the week and a unit
\* of it.  The clock of a worker is ahead by no more than slots are apart, and
\* by less than a week.
WeekIsSane ==
  /\ Days \in Nat \ {0} /\ Day \in Nat \ {0}
  /\ {Spring, Fall, Shift, MaxTime, MaxSaves} \subseteq Nat
  /\ Slots \subseteq [day: 0..Days - 1, time: 0..Day - 1]
  /\ Skew \in {0, 1} /\ Skew + Shift <= Days * Day

Times == 0..MaxTime + Skew
Week == Days * Day

LEMMA WeekIsNumber ==
  ASSUME WeekIsSane
  PROVE  /\ Week \in Nat /\ Week >= Day /\ Day > 0 /\ Week > 0
         /\ Day \in Nat /\ Days \in Nat /\ Days > 0
<1>1. \A d, e \in Nat : d > 0 /\ e > 0 => d * e >= e /\ d * e \in Nat
  OBVIOUS
<1> QED
  BY <1>1 DEF Week, WeekIsSane

LEMMA Products ==
  ASSUME NEW a \in Int, NEW b \in Int, NEW d \in Nat
  PROVE  /\ a <= b => a * d <= b * d
         /\ a * d \in Int
         /\ (a + b) * d = a * d + b * d
         /\ (a - b) * d = a * d - b * d
OBVIOUS

LEMMA Division ==
  ASSUME NEW n \in Nat, NEW d \in Nat, d > 0
  PROVE  /\ n \div d \in Nat /\ n % d \in 0..d - 1
         /\ n = d * (n \div d) + (n % d)
         /\ \A q \in Nat : q * d <= n => q <= n \div d
<1>1. n \div d \in Nat /\ n % d \in 0..d - 1
  OBVIOUS
<1>2. n = d * (n \div d) + (n % d)
  OBVIOUS
<1>3. ASSUME NEW q \in Nat, q * d <= n
      PROVE  q <= n \div d
  <2> DEFINE k == n \div d
  <2>1. SUFFICES ASSUME q >= k + 1 PROVE FALSE
    BY <1>1
  <2>2. q * d >= (k + 1) * d
    BY <2>1, <1>1, Products
  <2>3. (k + 1) * d = d * k + d
    BY <1>1
  <2> QED
    BY <1>1, <1>2, <1>3, <2>2, <2>3
<1> QED
  BY <1>1, <1>2, <1>3

LEMMA Remainders ==
  ASSUME NEW x \in Nat, NEW d \in Nat, x < d
  PROVE  x % d = x /\ (x + d) % d = x
<1>1. ASSUME NEW n \in Nat, NEW q \in Nat, n = d * q + x
      PROVE  n % d = x
  <2> DEFINE k == n \div d
  <2> DEFINE r == n % d
  <2>1. k \in Nat /\ r \in 0..d - 1 /\ n = d * k + r
    BY Division
  <2> HIDE DEF k
  <2>2. d * q = q * d /\ d * k = k * d /\ q * d \in Int /\ k * d \in Int
    BY <1>1, <2>1
  <2>3. CASE q > k
    <3>1. (k + 1) * d <= q * d /\ (k + 1) * d = k * d + d
      BY <1>1, <2>1, <2>3, Products
    <3> QED
      BY <1>1, <2>1, <2>2, <3>1
  <2>4. CASE k > q
    <3>1. (q + 1) * d <= k * d /\ (q + 1) * d = q * d + d
      BY <1>1, <2>1, <2>4, Products
    <3> QED
      BY <1>1, <2>1, <2>2, <3>1
  <2>5. CASE k = q
    BY <1>1, <2>1, <2>2, <2>5
  <2> QED
    BY <1>1, <2>1, <2>3, <2>4, <2>5
<1>2. x = d * 0 + x /\ x + d = d * 1 + x
  OBVIOUS
<1> QED
  BY <1>1, <1>2

LEMMA WallGoesOn ==
  ASSUME WeekIsSane, NEW t \in Times
  PROVE  W!Wall(t) \in t..t + Shift
BY DEF W!Wall, Times, WeekIsSane

LEMMA MomentIsLater ==
  ASSUME WeekIsSane, NEW after \in Times, NEW w \in W!Moments, w > W!Wall(after)
  PROVE  W!Moment(w) > after /\ W!Moment(w) <= w /\ W!Moment(w) \in Nat
<1> DEFINE meant == {t \in {w - Shift, w} \cap W!Moments : W!Wall(t) = w}
<1> USE WeekIsNumber DEF Times, W!Wall, WeekIsSane
<1>1. w \in Nat /\ after \in Nat
  BY DEF W!Moments
<1>2. CASE meant = {}
  <2>1. W!Moment(w) = w
    BY <1>2 DEF W!Moment
  <2> QED
    BY <1>1, <2>1
<1>3. CASE W!Wall(w) = w
  <2>1. w \in meant /\ \A t \in meant : w >= t
    BY <1>1, <1>3
  <2>2. W!Max(meant) = w
    BY <2>1, <1>1 DEF W!Max
  <2>3. W!Moment(w) = w
    BY <2>1, <2>2 DEF W!Moment
  <2> QED
    BY <1>1, <2>3
<1>4. CASE W!Wall(w) # w /\ meant # {}
  <2>1. meant = {w - Shift} /\ w - Shift \in W!Moments /\ W!Wall(w - Shift) = w
    BY <1>4
  <2>2. W!Max(meant) = w - Shift
    BY <2>1, <1>1 DEF W!Max, W!Moments
  <2>3. W!Moment(w) = w - Shift
    BY <1>4, <2>2 DEF W!Moment
  <2>4. w - Shift > after
    BY <1>1, <1>4, <2>1
  <2> QED
    BY <2>1, <2>3, <2>4, <1>1 DEF W!Moments
<1> QED
  BY <1>2, <1>3, <1>4

First(slot, after) == {s \in W!SlotsOf(slot) : s > W!Wall(after)}

\* The day after next that is a slot's, counted from the beginning of a week.
LEMMA DayOfSlot ==
  ASSUME WeekIsSane, NEW d \in Nat, NEW day \in 0..Days - 1
  PROVE  LET ahead == ((day + Days) - (d % Days)) % Days
         IN  ahead \in 0..Days - 1 /\ \E m \in Nat : d + ahead = m * Days + day
<1> DEFINE weekday == d % Days
<1> DEFINE k == d \div Days
<1> DEFINE ahead == ((day + Days) - weekday) % Days
<1> USE WeekIsNumber
<1>1. weekday \in 0..Days - 1 /\ k \in Nat /\ d = Days * k + weekday
  BY Division
<1> HIDE DEF weekday, k
<1>2. Days * k = k * Days /\ (k + 1) * Days = k * Days + Days
  BY <1>1
<1> DEFINE x == (day + Days) - weekday
<1>3. ahead = x % Days
  BY Zenon
<1> HIDE DEF ahead
<1>4. ASSUME day >= weekday PROVE ahead \in 0..Days - 1 /\ d + ahead = k * Days + day
  <2>1. day - weekday \in Nat /\ day - weekday < Days /\ x = (day - weekday) + Days
    BY <1>1, <1>4
  <2> HIDE DEF x
  <2>2. ahead = day - weekday
    BY Zenon, <1>3, <2>1, Remainders, WeekIsNumber
  <2> QED
    BY <2>2, <1>1, <1>2, <1>4
<1>5. ASSUME day < weekday PROVE ahead \in 0..Days - 1 /\ d + ahead = (k + 1) * Days + day
  <2>1. x \in Nat /\ x < Days
    BY <1>1, <1>5
  <2>2. ahead = x
    BY Zenon, <1>3, <2>1, Remainders, WeekIsNumber
  <2> QED
    BY <2>1, <2>2, <1>1, <1>2
<1>6. ahead \in 0..Days - 1 /\ \E m \in Nat : d + ahead = m * Days + day
  <2>1. k + 1 \in Nat /\ (day >= weekday \/ day < weekday)
    BY <1>1
  <2> QED
    BY Zenon, <1>1, <1>4, <1>5, <2>1
<1> QED
  BY <1>6 DEF ahead, weekday

LEMMA LeastIsMin ==
  ASSUME NEW S, NEW c \in S, c \in Nat, \A s \in S : s \in Nat /\ c <= s
  PROVE  W!Min(S) = c
<1> DEFINE m == W!Min(S)
<1>1. m \in S /\ \A y \in S : m <= y
  BY Zenon DEF W!Min
<1> HIDE DEF m
<1>2. m = c
  BY <1>1
<1> QED
  BY Zenon, <1>2 DEF m

LEMMA MomentsGoDown ==
  ASSUME WeekIsSane, NEW c \in W!Moments, NEW x \in Nat, x <= c
  PROVE  x \in W!Moments
<1>1. 2 * Days * Day \in Nat /\ MaxTime \in Nat
  BY DEF WeekIsSane
<1> QED
  BY <1>1 DEF W!Moments

LEMMA CursorIsFirst ==
  ASSUME WeekIsSane, NEW slot \in Slots, NEW after \in Times
  PROVE  /\ W!NextRun(slot, after) > after
         /\ W!NextRun(slot, after) \in W!Moments
         /\ W!NextRun(slot, after) = W!Moment(W!Min(First(slot, after)))
<1> DEFINE wall == W!Wall(after)
<1> DEFINE d == wall \div Day
<1> DEFINE ahead == ((slot.day + Days) - (d % Days)) % Days
<1> DEFINE candidate == (wall - (wall % Day)) + ahead * Day + slot.time
<1> DEFINE c == IF W!Later(candidate, wall) THEN candidate ELSE candidate + Days * Day
<1> DEFINE offset == slot.day * Day + slot.time
<1> USE WeekIsNumber
<1>1. slot.day \in 0..Days - 1 /\ slot.time \in 0..Day - 1
  BY DEF WeekIsSane
<1>2. wall \in Nat /\ wall <= after + Shift
  BY WallGoesOn DEF Times, WeekIsSane
<1>3. d \in Nat /\ wall % Day \in 0..Day - 1 /\ wall = Day * d + (wall % Day)
  BY <1>2, Division
<1>4. ahead \in 0..Days - 1 /\ \E m \in Nat : d + ahead = m * Days + slot.day
  BY <1>1, <1>3, DayOfSlot
<1>5. PICK m \in Nat : d + ahead = m * Days + slot.day
  BY <1>4
<1>6. W!NextRun(slot, after) = W!Moment(c)
  BY DEF W!NextRun
<1> HIDE DEF wall, d, ahead
<1> DEFINE today == d * Day
<1> DEFINE later == ahead * Day
<1> DEFINE base == m * Week
<1>7. today \in Nat /\ later \in Nat /\ later <= Week - Day /\ wall - (wall % Day) = today
  <2>1. Day * d = today /\ today \in Nat
    BY <1>3
  <2>2. later <= (Days - 1) * Day /\ later \in Nat
    BY <1>4
  <2>3. (Days - 1) * Day = Week - Day
    BY DEF Week
  <2> QED
    BY <1>2, <1>3, <2>1, <2>2, <2>3
<1>8. today + later = base + slot.day * Day /\ base \in Nat
  <2>1. (d + ahead) * Day = d * Day + ahead * Day
    BY <1>3, <1>4, Products
  <2>2. (m * Days + slot.day) * Day = (m * Days) * Day + slot.day * Day
    BY <1>1, <1>5, Products
  <2>3. (m * Days) * Day = m * Week
    BY <1>5 DEF Week
  <2> QED
    BY <1>5, <2>1, <2>2, <2>3
<1>9. candidate = today + later + slot.time
  BY Zenon, <1>7
<1>10. offset \in Nat /\ candidate = base + offset
  <2>1. slot.day * Day \in Nat
    BY <1>1
  <2> HIDE DEF today, later, base, candidate
  <2> QED
    BY <1>1, <1>7, <1>8, <1>9, <2>1
<1>11. PICK n \in Nat : n * Week \in Nat /\ c = n * Week + offset /\ c > wall /\ c - Week <= wall
  <2>1. (m + 1) * Week = base + Week
    BY <1>5
  <2>2. c = IF candidate > wall THEN candidate ELSE candidate + Week
    BY DEF W!Later, Week
  <2> HIDE DEF today, later, base, candidate, c, offset
  <2>3. wall - Day < today /\ today <= wall
    <3> DEFINE r == wall % Day
    <3>1. r \in 0..Day - 1 /\ wall - r = today
      BY <1>3, <1>7
    <3> HIDE DEF r
    <3> QED
      BY <1>2, <1>7, <3>1
  <2>4. candidate >= today /\ candidate - Week < today
    <3>1. slot.time \in 0..Day - 1 /\ Day \in Nat /\ Week \in Nat
      BY <1>1
    <3> QED
      BY <1>7, <1>9, <3>1
  <2>5. CASE candidate > wall
    <3>1. c = base + offset /\ c > wall /\ c - Week <= wall
      BY <1>2, <1>7, <1>8, <1>10, <2>2, <2>3, <2>4, <2>5
    <3> QED
      BY <1>5, <1>8, <3>1 DEF base
  <2>6. CASE ~(candidate > wall)
    <3>1. c = base + Week + offset /\ c > wall /\ c - Week <= wall
      BY <1>2, <1>7, <1>8, <1>10, <2>2, <2>3, <2>4, <2>6
    <3>2. m + 1 \in Nat /\ (m + 1) * Week \in Nat
      BY <1>5, <1>8, <2>1
    <3> QED
      BY Zenon, <2>1, <3>1, <3>2
  <2> QED
    BY <2>5, <2>6
<1> HIDE DEF c, candidate, base, today, later
<1>12. c \in Nat /\ c <= wall + Week /\ c \in W!Moments
  <2>1. c \in Nat /\ c <= wall + Week
    BY <1>2, <1>10, <1>11
  <2>2. 2 * Days * Day = 2 * Week
    BY DEF Week
  <2> QED
    BY <1>2, <2>1, <2>2 DEF W!Moments, Times, Week, WeekIsSane
<1>13. c \in First(slot, after)
  <2>1. W!None \in Nat /\ n * Week <= W!None
    <3>1. 2 * Days * Day = 2 * Week
      BY DEF Week
    <3> QED
      BY <1>10, <1>11, <1>12, <3>1 DEF W!None, W!Moments, WeekIsSane
  <2>2. n \in 0..W!None \div Week
    BY <2>1, Division
  <2>3. n * Days * Day = n * Week
    BY <1>11 DEF Week
  <2>4. c = n * Days * Day + slot.day * Day + slot.time
    <3>1. slot.day * Day \in Nat
      BY <1>1
    <3> QED
      BY <1>1, <1>11, <2>3, <3>1
  <2> QED
    BY <1>11, <2>2, <2>4 DEF First, W!SlotsOf, Week, wall
<1>14. ASSUME NEW s \in First(slot, after)
       PROVE  s \in Nat /\ c <= s
  <2>1. PICK week \in 0..(W!None \div (Days * Day)) : s = week * Days * Day + slot.day * Day + slot.time
    BY <1>14 DEF First, W!SlotsOf
  <2>2. week \in Nat /\ week * Days * Day = week * Week
    <3>1. W!None \div (Days * Day) \in Int
      BY Division DEF W!None, Week, WeekIsSane
    <3> QED
      BY <2>1, <3>1 DEF Week
  <2>3. s = week * Week + offset /\ week * Week \in Nat
    BY <1>1, <2>1, <2>2
  <2>4. s > wall
    BY <1>14 DEF First, wall
  <2>5. week >= n
    <3>1. SUFFICES ASSUME week + 1 <= n PROVE FALSE
      BY <2>2
    <3>2. (week + 1) * Week <= n * Week /\ (week + 1) * Week = week * Week + Week
      BY <2>2, <3>1, Products
    <3> QED
      BY <1>2, <1>10, <1>11, <2>3, <2>4, <3>2
  <2>6. n * Week <= week * Week
    BY <2>2, <2>5, Products
  <2> QED
    BY <1>10, <1>11, <2>3, <2>6
<1>15. W!Min(First(slot, after)) = c
  <2> DEFINE S == First(slot, after)
  <2> HIDE DEF S
  <2>1. c \in S /\ c \in Nat /\ \A s \in S : s \in Nat /\ c <= s
    BY Zenon, <1>12, <1>13, <1>14 DEF S
  <2>2. W!Min(S) = c
    BY <2>1, LeastIsMin
  <2> QED
    BY Zenon, <2>2 DEF S
<1>16. W!Moment(c) > after /\ W!Moment(c) <= c /\ W!Moment(c) \in Nat
  BY <1>11, <1>12, MomentIsLater DEF wall
<1>17. W!Moment(c) \in W!Moments
  <2> DEFINE x == W!Moment(c)
  <2> HIDE DEF x
  <2>1. x <= c /\ x \in Nat
    BY Zenon, <1>16 DEF x
  <2>2. x \in W!Moments
    BY <1>12, <2>1, MomentsGoDown
  <2> QED
    BY Zenon, <2>2 DEF x
<1> QED
  BY Zenon, <1>6, <1>15, <1>16, <1>17

---------------------------------------------------------------------------
TickInv ==
  \A w \in Workers : \A t \in tick[w] :
    t.at \in Times /\ t.at <= now + Skew /\ t.pc \in {"initialize", "claim"}

\* The scans are in order, and none is later than a worker's clock.
RunsInOrder ==
  /\ runs \in Seq(Times)
  /\ \A i \in DOMAIN runs : runs[i] <= now + Skew
  /\ \A i, j \in DOMAIN runs : i < j => runs[i] < runs[j]

\* The cursor is the first slot, no scan comes after it, and where it is
\* missing there is none yet.
RowInv ==
  /\ row \in [enabled: BOOLEAN, slot: Slots, next: W!Moments \cup {W!None}]
  /\ row.enabled /\ row.next = W!None => runs = <<>>
  /\ row.next # W!None =>
       /\ row.next > since
       /\ row.next = W!Moment(W!Min(First(row.slot, since)))
       /\ \A i \in DOMAIN runs : runs[i] <= row.next

ScheduleInv ==
  /\ now \in 0..MaxTime /\ since \in Times /\ saves \in 0..MaxSaves
  /\ DOMAIN tick = Workers /\ TickInv /\ RunsInOrder /\ RowInv

LEMMA NoneIsNoMoment ==
  ASSUME WeekIsSane
  PROVE  W!None \notin W!Moments /\ W!None \in Nat
<1>1. 2 * Days * Day \in Nat /\ MaxTime \in Nat
  BY DEF WeekIsSane
<1> QED
  BY <1>1 DEF W!Moments, W!None

LEMMA TimesAreNumbers ==
  ASSUME WeekIsSane
  PROVE  /\ \A t : t \in Times <=> t \in Nat /\ t <= MaxTime + Skew
         /\ MaxTime \in Nat /\ Skew \in {0, 1} /\ Times \subseteq Nat
BY DEF Times, WeekIsSane

LEMMA ScheduleStarts ==
  ASSUME WeekIsSane
  PROVE  W!Init => ScheduleInv
<1> SUFFICES ASSUME W!Init PROVE ScheduleInv
  OBVIOUS
<1> USE DEF W!Init
<1>1. now \in 0..MaxTime /\ since \in Times /\ saves \in 0..MaxSaves
  BY DEF Times, WeekIsSane
<1>2. TickInv /\ DOMAIN tick = Workers
  BY DEF TickInv, W!NoTick
<1>3. RunsInOrder
  BY DEF RunsInOrder
<1>4. row \in [enabled: BOOLEAN, slot: Slots, next: W!Moments \cup {W!None}] /\ row.next = W!None
  OBVIOUS
<1>5. RowInv
  BY <1>4 DEF RowInv
<1> QED
  BY <1>1, <1>2, <1>3, <1>5 DEF ScheduleInv

\* A cursor that is computed.
LEMMA CursorComputed ==
  ASSUME WeekIsSane, ScheduleInv, NEW t \in Times, NEW slot \in Slots, NEW enabled \in BOOLEAN,
         since' = t, row' = [enabled |-> enabled, slot |-> slot, next |-> W!NextRun(slot, t)],
         \A i \in DOMAIN runs' : runs'[i] <= W!NextRun(slot, t)
  PROVE  RowInv' /\ since' \in Times
<1>1. /\ W!NextRun(slot, t) > t /\ W!NextRun(slot, t) \in W!Moments
      /\ W!NextRun(slot, t) = W!Moment(W!Min(First(slot, t)))
  BY CursorIsFirst
<1>2. /\ row'.enabled = enabled /\ row'.slot = slot /\ row'.next = W!NextRun(slot, t)
      /\ row'.next # W!None
  BY <1>1, NoneIsNoMoment
<1>3. row' \in [enabled: BOOLEAN, slot: Slots, next: W!Moments \cup {W!None}]
  BY <1>1
<1>4. row'.next > since' /\ row'.next = W!Moment(W!Min(First(row'.slot, since')))
  BY Zenon, <1>1, <1>2
<1> QED
  BY Zenon, <1>2, <1>3, <1>4 DEF RowInv

\* Nothing but the tick of one worker changes.
LEMMA TicksMove ==
  ASSUME WeekIsSane, ScheduleInv, NEW w \in Workers, NEW v, tick' = [tick EXCEPT ![w] = v],
         now' = now,
         \A t \in v : t.at \in Times /\ t.at <= now + Skew /\ t.pc \in {"initialize", "claim"}
  PROVE  DOMAIN tick' = Workers /\ TickInv'
BY DEF ScheduleInv, TickInv

LEMMA TypedRuns ==
  ASSUME WeekIsSane
  PROVE  ScheduleInv => \A i \in DOMAIN runs : runs[i] \in Times
<1> SUFFICES ASSUME ScheduleInv PROVE \A i \in DOMAIN runs : runs[i] \in Times
  OBVIOUS
<1>1. runs \in Seq(Times)
  BY DEF ScheduleInv, RunsInOrder
<1> QED
  BY <1>1

LEMMA ScheduleSteps ==
  ASSUME WeekIsSane, ScheduleInv, [W!Next]_(W!vars)
  PROVE  ScheduleInv'
<1>1. CASE W!Pass
  <2>1. now' = now + 1 /\ now' \in 0..MaxTime /\ UNCHANGED <<row, since, tick, runs, saves>>
    BY <1>1, TimesAreNumbers DEF W!Pass, ScheduleInv
  <2>2. TickInv'
    BY <2>1, TimesAreNumbers DEF ScheduleInv, TickInv
  <2>3. RunsInOrder'
    <3>1. runs' \in Seq(Times) /\ \A i, j \in DOMAIN runs' : i < j => runs'[i] < runs'[j]
      BY <2>1 DEF ScheduleInv, RunsInOrder
    <3>2. \A i \in DOMAIN runs : runs[i] \in Times /\ runs[i] <= now + Skew
      BY TypedRuns DEF ScheduleInv, RunsInOrder
    <3>3. \A i \in DOMAIN runs' : runs'[i] <= now' + Skew
      BY <2>1, <3>2, TimesAreNumbers DEF ScheduleInv
    <3> QED
      BY Zenon, <3>1, <3>3 DEF RunsInOrder
  <2>4. RowInv'
    BY Zenon, <2>1 DEF ScheduleInv, RowInv
  <2> QED
    BY Zenon, <2>1, <2>2, <2>3, <2>4 DEF ScheduleInv
<1>2. CASE W!Save
  <2>1. PICK slot \in Slots, enabled \in BOOLEAN :
          row' = [enabled |-> enabled, slot |-> slot,
                  next |-> IF enabled THEN W!NextRun(slot, now) ELSE W!None]
    BY Zenon, <1>2 DEF W!Save
  <2>2. since' = now /\ now' = now /\ UNCHANGED <<tick, runs>> /\ saves' = saves + 1
    BY Zenon, <1>2 DEF W!Save
  <2>3. saves' \in 0..MaxSaves
    BY <1>2, <2>2 DEF W!Save, ScheduleInv, WeekIsSane
  <2>4. now \in Times
    BY TimesAreNumbers DEF ScheduleInv
  <2>5. RowInv' /\ since' \in Times
    <3>1. CASE enabled
      <4>1. W!NextRun(slot, now) > now /\ W!NextRun(slot, now) \in Nat
        BY <2>4, CursorIsFirst DEF W!Moments, WeekIsSane
      <4>2. \A i \in DOMAIN runs : runs[i] <= now + Skew /\ runs[i] \in Times
        BY TypedRuns DEF ScheduleInv, RunsInOrder
      <4>3. \A i \in DOMAIN runs' : runs'[i] <= W!NextRun(slot, now)
        BY <2>2, <2>4, <4>1, <4>2, TimesAreNumbers
      <4>4. row' = [enabled |-> enabled, slot |-> slot, next |-> W!NextRun(slot, now)]
        BY <2>1, <3>1
      <4> QED
        BY Zenon, <2>2, <2>4, <4>3, <4>4, CursorComputed
    <3>2. CASE ~enabled
      <4>1. row' = [enabled |-> enabled, slot |-> slot, next |-> W!None]
        BY <2>1, <3>2
      <4>2. /\ row' \in [enabled: BOOLEAN, slot: Slots, next: W!Moments \cup {W!None}]
            /\ row'.next = W!None /\ ~row'.enabled
        BY <3>2, <4>1
      <4> QED
        BY Zenon, <2>2, <2>4, <4>2 DEF RowInv
    <3> QED
      BY <3>1, <3>2
  <2>6. TickInv' /\ RunsInOrder' /\ DOMAIN tick' = Workers
    BY Zenon, <2>2 DEF ScheduleInv, TickInv, RunsInOrder
  <2> QED
    BY Zenon, <2>2, <2>3, <2>5, <2>6 DEF ScheduleInv
<1>3. ASSUME NEW w \in Workers, W!Begin(w)
      PROVE  ScheduleInv'
  <2>1. PICK ahead \in 0..Skew : tick' = [tick EXCEPT ![w] = {[at |-> now + ahead, pc |-> "initialize"]}]
    BY Zenon, <1>3 DEF W!Begin
  <2>2. UNCHANGED <<now, row, since, runs, saves>>
    BY Zenon, <1>3 DEF W!Begin
  <2>3. now + ahead \in Times /\ now + ahead <= now + Skew
    BY TimesAreNumbers DEF ScheduleInv
  <2>4. DOMAIN tick' = Workers /\ TickInv'
    <3> DEFINE t == [at |-> now + ahead, pc |-> "initialize"]
    <3>1. t.at = now + ahead /\ t.pc = "initialize"
      OBVIOUS
    <3> HIDE DEF t
    <3>2. \A u \in {t} : u.at \in Times /\ u.at <= now + Skew /\ u.pc \in {"initialize", "claim"}
      BY <2>3, <3>1
    <3>3. tick' = [tick EXCEPT ![w] = {t}]
      BY Zenon, <2>1 DEF t
    <3> QED
      BY Zenon, <2>2, <3>2, <3>3, TicksMove
  <2>5. RowInv' /\ RunsInOrder'
    BY Zenon, <2>2 DEF ScheduleInv, RowInv, RunsInOrder
  <2> QED
    BY Zenon, <2>2, <2>4, <2>5 DEF ScheduleInv
<1>4. ASSUME NEW w \in Workers, W!Initialize(w)
      PROVE  ScheduleInv'
  <2>1. PICK t \in tick[w] :
           /\ tick' = [tick EXCEPT ![w] = {[t EXCEPT !.pc = "claim"]}]
           /\ IF row.enabled /\ row.next = W!None
              THEN row' = [row EXCEPT !.next = W!NextRun(row.slot, t.at)] /\ since' = t.at
              ELSE UNCHANGED <<row, since>>
    BY Zenon, <1>4 DEF W!Initialize
  <2>2. UNCHANGED <<now, runs, saves>>
    BY Zenon, <1>4 DEF W!Initialize
  <2>3. t.at \in Times /\ t.at <= now + Skew
    BY Zenon DEF ScheduleInv, TickInv
  <2>4. DOMAIN tick' = Workers /\ TickInv'
    <3> DEFINE u == [t EXCEPT !.pc = "claim"]
    <3>1. u.at = t.at /\ (u.pc = "claim" \/ u.pc = t.pc)
      OBVIOUS
    <3> HIDE DEF u
    <3>2. t.pc \in {"initialize", "claim"}
      BY Zenon DEF ScheduleInv, TickInv
    <3>3. \A x \in {u} : x.at \in Times /\ x.at <= now + Skew /\ x.pc \in {"initialize", "claim"}
      BY <2>3, <3>1, <3>2
    <3>4. tick' = [tick EXCEPT ![w] = {u}]
      BY Zenon, <2>1 DEF u
    <3> QED
      BY Zenon, <2>2, <3>3, <3>4, TicksMove
  <2>5. RunsInOrder'
    BY Zenon, <2>2 DEF ScheduleInv, RunsInOrder
  <2>6. RowInv' /\ since' \in Times
    <3>1. CASE row.enabled /\ row.next = W!None
      <4>1. row' = [enabled |-> row.enabled, slot |-> row.slot, next |-> W!NextRun(row.slot, t.at)]
            /\ since' = t.at /\ row.slot \in Slots /\ row.enabled \in BOOLEAN
        BY <2>1, <3>1 DEF ScheduleInv, RowInv
      <4>2. runs' = <<>>
        BY <2>2, <3>1 DEF ScheduleInv, RowInv
      <4>3. \A i \in DOMAIN runs' : runs'[i] <= W!NextRun(row.slot, t.at)
        BY <4>2
      <4> QED
        BY Zenon, <2>3, <4>1, <4>3, CursorComputed
    <3>2. CASE ~(row.enabled /\ row.next = W!None)
      BY Zenon, <2>1, <2>2, <3>2 DEF ScheduleInv, RowInv
    <3> QED
      BY Zenon, <3>1, <3>2
  <2> QED
    BY Zenon, <2>2, <2>4, <2>5, <2>6 DEF ScheduleInv
<1>5. ASSUME NEW w \in Workers, W!Claim(w)
      PROVE  ScheduleInv'
  <2>1. PICK t \in tick[w] :
         \/ UNCHANGED <<row, since, runs>>
         \/ /\ row.enabled /\ row.next <= t.at
            /\ row' = [row EXCEPT !.next = W!NextRun(row.slot, t.at)] /\ since' = t.at
            /\ \/ UNCHANGED runs
               \/ ~W!Taken(row.next) /\ runs' = Append(runs, row.next)
    BY Zenon, <1>5 DEF W!Claim
  <2>2. tick' = [tick EXCEPT ![w] = W!NoTick] /\ UNCHANGED <<now, saves>>
    BY Zenon, <1>5 DEF W!Claim
  <2>3. t.at \in Times /\ t.at <= now + Skew
    BY Zenon DEF ScheduleInv, TickInv
  <2>4. DOMAIN tick' = Workers /\ TickInv'
    BY <2>2, TicksMove DEF W!NoTick
  <2>5. CASE UNCHANGED <<row, since, runs>>
    <3>1. RowInv' /\ RunsInOrder'
      BY Zenon, <2>2, <2>5 DEF ScheduleInv, RowInv, RunsInOrder
    <3> QED
      BY Zenon, <2>2, <2>4, <2>5, <3>1 DEF ScheduleInv
  <2>6. CASE /\ row.enabled /\ row.next <= t.at
             /\ row' = [row EXCEPT !.next = W!NextRun(row.slot, t.at)] /\ since' = t.at
             /\ \/ UNCHANGED runs
                \/ ~W!Taken(row.next) /\ runs' = Append(runs, row.next)
    <3> DEFINE next == W!NextRun(row.slot, t.at)
    <3>1. row \in [enabled: BOOLEAN, slot: Slots, next: W!Moments \cup {W!None}]
      BY DEF ScheduleInv, RowInv
    <3>2. row' = [enabled |-> row.enabled, slot |-> row.slot, next |-> next]
      BY <2>6, <3>1
    <3>3. next > t.at /\ next \in Nat
      BY <2>3, <3>1, CursorIsFirst DEF W!Moments, WeekIsSane
    <3>4. row.next # W!None
      <4>1. W!None > MaxTime + Skew
        <5>1. 2 * Days * Day \in Nat /\ 2 * Days * Day >= Skew
          BY DEF WeekIsSane
        <5> QED
          BY <5>1 DEF W!None, WeekIsSane
      <4> QED
        BY <2>3, <2>6, <4>1, NoneIsNoMoment, TimesAreNumbers
    <3>5. row.next \in Nat /\ row.next \in Times
      <4>1. row.next \in W!Moments /\ row.next <= t.at
        BY <2>6, <3>1, <3>4
      <4>2. 2 * Days * Day \in Nat
        BY DEF WeekIsSane
      <4>3. row.next \in Nat
        BY <4>1, <4>2, TimesAreNumbers DEF W!Moments
      <4> QED
        BY <2>3, <4>1, <4>3, TimesAreNumbers
    <3>6. \A i \in DOMAIN runs : runs[i] \in Times /\ runs[i] <= row.next
      BY Zenon, <3>4, TypedRuns DEF ScheduleInv, RowInv
    <3> HIDE DEF next
    <3>7. RunsInOrder' /\ \A i \in DOMAIN runs' : runs'[i] <= next
      <4>1. CASE UNCHANGED runs
        <5>1. RunsInOrder'
          BY Zenon, <2>2, <4>1 DEF ScheduleInv, RunsInOrder
        <5>2. \A i \in DOMAIN runs' : runs'[i] <= next
          BY <2>3, <2>6, <3>3, <3>5, <3>6, <4>1, TimesAreNumbers
        <5> QED
          BY Zenon, <5>1, <5>2
      <4>2. CASE ~W!Taken(row.next) /\ runs' = Append(runs, row.next)
        <5>1. runs \in Seq(Times) /\ now \in Nat
          BY DEF ScheduleInv, RunsInOrder
        <5>2. /\ runs' \in Seq(Times) /\ Len(runs') = Len(runs) + 1
              /\ DOMAIN runs' = 1..Len(runs) + 1 /\ DOMAIN runs = 1..Len(runs)
              /\ \A i \in DOMAIN runs : runs'[i] = runs[i]
              /\ runs'[Len(runs) + 1] = row.next
          BY <3>5, <4>2, <5>1
        <5>3. \A i \in DOMAIN runs : runs[i] < row.next
          BY <3>5, <3>6, <4>2, TimesAreNumbers DEF W!Taken
        <5>4. \A i \in DOMAIN runs' : runs'[i] \in Times /\ runs'[i] <= row.next
          BY <3>5, <3>6, <5>2
        <5>5. \A i \in DOMAIN runs' : runs'[i] <= next /\ runs'[i] <= now' + Skew
          BY <2>2, <2>3, <2>6, <3>3, <3>5, <5>1, <5>4, TimesAreNumbers
        <5>6. ASSUME NEW i \in DOMAIN runs', NEW j \in DOMAIN runs', i < j
              PROVE  runs'[i] < runs'[j]
          <6>1. i \in DOMAIN runs
            BY <5>1, <5>2, <5>6
          <6>2. CASE j \in DOMAIN runs
            BY Zenon, <5>2, <5>6, <6>1, <6>2 DEF ScheduleInv, RunsInOrder
          <6>3. CASE j = Len(runs) + 1
            BY Zenon, <5>2, <5>3, <6>1, <6>3
          <6> QED
            BY <5>1, <5>2, <6>2, <6>3
        <5> QED
          BY Zenon, <5>2, <5>5, <5>6 DEF RunsInOrder
      <4> QED
        BY <2>6, <4>1, <4>2
    <3>8. RowInv' /\ since' \in Times
      <4>1. row.slot \in Slots /\ row.enabled \in BOOLEAN /\ since' = t.at
        BY <2>6, <3>1
      <4> QED
        BY Zenon, <2>3, <3>2, <3>7, <4>1, CursorComputed DEF next
    <3> QED
      BY Zenon, <2>2, <2>4, <3>7, <3>8 DEF ScheduleInv
  <2> QED
    BY Zenon, <2>1, <2>5, <2>6
<1>6. ASSUME NEW w \in Workers, W!Die(w)
      PROVE  ScheduleInv'
  <2>1. tick' = [tick EXCEPT ![w] = W!NoTick] /\ UNCHANGED <<now, row, since, runs, saves>>
    BY Zenon, <1>6 DEF W!Die
  <2>2. DOMAIN tick' = Workers /\ TickInv'
    BY <2>1, TicksMove DEF W!NoTick
  <2>3. RowInv' /\ RunsInOrder'
    BY Zenon, <2>1 DEF ScheduleInv, RowInv, RunsInOrder
  <2> QED
    BY Zenon, <2>1, <2>2, <2>3 DEF ScheduleInv
<1>7. CASE UNCHANGED W!vars
  BY Zenon, <1>7 DEF W!vars, ScheduleInv, TickInv, RowInv, RunsInOrder
<1> QED
  BY Zenon, <1>1, <1>2, <1>3, <1>4, <1>5, <1>6, <1>7 DEF W!Next

LEMMA SlotsAreKept ==
  ASSUME WeekIsSane
  PROVE  ScheduleInv => W!SlotsRunOnce /\ W!TypeOK
<1> SUFFICES ASSUME ScheduleInv PROVE W!SlotsRunOnce /\ W!TypeOK
  OBVIOUS
<1>1. W!SlotsRunOnce
  BY Zenon DEF ScheduleInv, RowInv, RunsInOrder, W!SlotsRunOnce, First
<1>2. W!TypeOK
  <2>1. \A i \in DOMAIN runs : runs[i] \in 0..MaxTime + Skew
    BY TypedRuns DEF Times
  <2> QED
    BY Zenon, <2>1 DEF ScheduleInv, RowInv, W!TypeOK, TickInv, Times
<1> QED
  BY <1>1, <1>2

---------------------------------------------------------------------------
(* The record of the loading of a page (ObservedPerformance).              *)

Items == [kept : BOOLEAN, status : BOOLEAN, size : Nat, blocked : BOOLEAN]

\* What was noted of the requests: each one that was sent is kept, or the
\* record is truncated; what did not come through is blocked; sizes are those
\* of the transfers.
NotesInv ==
  /\ item \in [Requests -> Items]
  /\ wire \in [Requests -> {"none", "sent", "answered", "finished", "failed"}]
  /\ \A r \in Requests :
       /\ wire[r] # "none" => item[r].kept \/ truncated
       /\ item[r].kept => wire[r] # "none"
       /\ item[r].kept /\ ~M!InScope(r) => item[r].blocked
       /\ item[r].kept /\ wire[r] = "failed" => item[r].blocked
       /\ item[r].status => wire[r] \in {"answered", "finished", "failed"}
       /\ item[r].size \in {0, Size[r]}

\* What the reads left: a read that is lost truncates the record, and so does
\* one that is still awaited when the wait is over.
ReadsInv ==
  /\ headers \in [Requests -> {"none", "pending", "read", "lost"}]
  /\ \A r \in Requests : headers[r] # "none" => wire[r] \in {"answered", "finished", "failed"}
  /\ \A r \in Requests : headers[r] = "lost" => truncated
  /\ \A r \in Requests : <<r, "headers">> \in awaited => headers[r] # "none"
  /\ phase \in {"reading", "read"} =>
       truncated \/ \A r \in Requests : <<r, "headers">> \in awaited => headers[r] # "pending"

AnalysisInv ==
  /\ timings.entries \subseteq M!Sent
  /\ phase # "done" => analysis = M!NoAnalysis
  /\ M!PerformanceIsObserved

RecordInv == NotesInv /\ ReadsInv /\ AnalysisInv

LEMMA InitHolds == M!Init => RecordInv
<1> SUFFICES ASSUME M!Init PROVE RecordInv
  OBVIOUS
<1>1. item \in [Requests -> Items] /\ \A r \in Requests : item[r] = M!NoItem
  BY DEF M!Init, Items, M!NoItem
<1>2. NotesInv
  BY <1>1 DEF M!Init, NotesInv, M!NoItem
<1>3. ReadsInv
  BY DEF M!Init, ReadsInv
<1>4. timings.entries = {} /\ analysis.coverage = "none" /\ analysis.timing = {}
  BY DEF M!Init, M!NoTimings, M!NoAnalysis
<1>5. AnalysisInv
  BY <1>4 DEF M!Init, AnalysisInv, M!PerformanceIsObserved, M!ObservedIsWhole, M!TimingsBelong
<1> QED
  BY <1>2, <1>3, <1>5 DEF RecordInv

---------------------------------------------------------------------------
(* The events.                                                             *)

\* Until the analysis nothing is told.
LEMMA NothingToldYet ==
  ASSUME phase' # "done", analysis' = analysis, AnalysisInv, phase # "done",
         timings'.entries \subseteq M!Sent'
  PROVE  AnalysisInv'
<1>1. analysis'.coverage = "none" /\ analysis'.timing = {}
  BY DEF AnalysisInv, M!NoAnalysis
<1> QED
  BY <1>1 DEF AnalysisInv, M!PerformanceIsObserved, M!ObservedIsWhole, M!TimingsBelong

LEMMA ItemFields ==
  ASSUME NEW i \in Items
  PROVE  /\ [i EXCEPT !.status = TRUE] \in Items /\ [i EXCEPT !.blocked = TRUE] \in Items
         /\ \A n \in Nat : [i EXCEPT !.size = n] \in Items
<1>1. TRUE \in BOOLEAN
  OBVIOUS
<1> QED
  BY <1>1 DEF Items

LEMMA EventSteps ==
  ASSUME RecordInv, Size \in [Requests -> Nat], NEW r \in Requests,
         \/ M!RequestSeen(r) \/ M!ResponseSeen(r) \/ M!RequestFinished(r) \/ M!RequestFailed(r)
         \/ M!HeadersRead(r) \/ M!HeadersLost(r) \/ M!SizesRead(r)
  PROVE  RecordInv'
<1>0. /\ UNCHANGED <<url, outside, awaited, timings, analysis, phase>> /\ phase # "done"
      /\ truncated => truncated'
  BY DEF M!RequestSeen, M!ResponseSeen, M!RequestFinished, M!RequestFailed, M!HeadersRead, M!HeadersLost,
     M!SizesRead,
         M!Rest, M!Open
<1>1. \A q \in Requests : M!InScope(q)' = M!InScope(q)
  BY <1>0 DEF M!InScope
\* The request, the item and the read of each event.
<1>2. /\ item' \in [Requests -> Items]
      /\ wire' \in [Requests -> {"none", "sent", "answered", "finished", "failed"}]
      /\ \A q \in Requests \ {r} : item'[q] = item[q] /\ wire'[q] = wire[q]
      /\ wire[r] # "none" => wire'[r] # "none"
      /\ wire'[r] # "none" => item'[r].kept \/ truncated'
      /\ item'[r].kept => wire'[r] # "none"
      /\ item'[r].kept /\ ~M!InScope(r) => item'[r].blocked
      /\ item'[r].kept /\ wire'[r] = "failed" => item'[r].blocked
      /\ item'[r].status => wire'[r] \in {"answered", "finished", "failed"}
      /\ item'[r].size \in {0, Size[r]}
  <2>0. item[r] \in Items /\ Size[r] \in Nat
    BY DEF RecordInv, NotesInv
  <2>1. CASE M!RequestSeen(r)
    <3>1. PICK i : i = [M!NoItem EXCEPT !.kept = TRUE, !.blocked = ~M!InScope(r)]
      OBVIOUS
    <3>2. i \in Items /\ i.kept = TRUE /\ i.blocked = ~M!InScope(r) /\ i.status = FALSE /\ i.size = 0
      <4>1. i = [kept |-> TRUE, status |-> FALSE, size |-> 0, blocked |-> ~M!InScope(r)]
        BY <3>1 DEF M!NoItem
      <4>2. TRUE \in BOOLEAN /\ FALSE \in BOOLEAN /\ (~M!InScope(r)) \in BOOLEAN
        OBVIOUS
      <4> QED
        BY <4>1, <4>2 DEF Items
    <3>3. wire[r] = "none" /\ wire' = [wire EXCEPT ![r] = "sent"]
          /\ (item' = [item EXCEPT ![r] = i] \/ (truncated' = TRUE /\ item' = item))
      BY <2>1, <3>1 DEF M!RequestSeen
    <3> QED
      BY <2>0, <3>2, <3>3 DEF RecordInv, NotesInv
  <2>2. CASE M!ResponseSeen(r)
    <3>1. PICK i \in Items : i = [item[r] EXCEPT !.status = TRUE]
      BY <2>0, ItemFields
    <3>2. i.kept = item[r].kept /\ i.blocked = item[r].blocked /\ i.size = item[r].size
      BY <2>0, <3>1 DEF Items
    <3>3. wire[r] = "sent" /\ wire' = [wire EXCEPT ![r] = "answered"]
          /\ (item' = [item EXCEPT ![r] = i] \/ item' = item)
      BY <2>2, <3>1 DEF M!ResponseSeen, RecordInv, NotesInv
    <3> QED
      BY <1>0, <2>0, <3>2, <3>3 DEF RecordInv, NotesInv
  <2>3. CASE M!RequestFinished(r)
    BY <1>0, <2>0, <2>3 DEF M!RequestFinished, RecordInv, NotesInv
  <2>4. CASE M!RequestFailed(r)
    <3>1. PICK i \in Items : i = [item[r] EXCEPT !.blocked = TRUE]
      BY <2>0, ItemFields
    <3>2. i.kept = item[r].kept /\ i.status = item[r].status /\ i.size = item[r].size /\ i.blocked = TRUE
      BY <2>0, <3>1 DEF Items
    <3>3. wire[r] \in {"sent", "answered"} /\ wire' = [wire EXCEPT ![r] = "failed"]
          /\ (IF item[r].kept THEN item' = [item EXCEPT ![r] = i] ELSE item' = item)
      BY <2>4, <3>1 DEF M!RequestFailed, RecordInv, NotesInv
    <3> QED
      BY <1>0, <2>0, <3>2, <3>3 DEF RecordInv, NotesInv
  <2>5. CASE M!HeadersRead(r) \/ M!HeadersLost(r)
    BY <1>0, <2>0, <2>5 DEF M!HeadersRead, M!HeadersLost, RecordInv, NotesInv
  <2>6. CASE M!SizesRead(r)
    <3>1. PICK i \in Items : i = [item[r] EXCEPT !.size = Size[r]]
      BY <2>0, ItemFields
    <3>2. i.kept = item[r].kept /\ i.status = item[r].status /\ i.size = Size[r] /\ i.blocked = item[r].blocked
      BY <2>0, <3>1 DEF Items
    <3>3. wire' = wire /\ (item' = [item EXCEPT ![r] = i] \/ item' = item)
      BY <2>6, <3>1 DEF M!SizesRead, RecordInv, NotesInv
    <3> QED
      BY <1>0, <2>0, <3>2, <3>3 DEF RecordInv, NotesInv
  <2> QED
    BY <2>1, <2>2, <2>3, <2>4, <2>5, <2>6
<1>3. NotesInv'
  BY <1>0, <1>1, <1>2 DEF RecordInv, NotesInv
<1>4. /\ headers' \in [Requests -> {"none", "pending", "read", "lost"}]
      /\ \A q \in Requests \ {r} : headers'[q] = headers[q]
      /\ headers'[r] = "lost" => truncated'
      /\ headers'[r] # "none" => wire'[r] \in {"answered", "finished", "failed"}
      /\ headers[r] # "none" => headers'[r] # "none"
      /\ headers'[r] = "pending" => headers[r] \in {"pending", "none"}
  <2>1. CASE M!ResponseSeen(r)
    <3>1. headers[r] = "none" /\ wire'[r] = "answered" /\ truncated' = truncated
          /\ (headers' = headers \/ headers' = [headers EXCEPT ![r] = "pending"])
      BY <2>1 DEF M!ResponseSeen, RecordInv, NotesInv, ReadsInv
    <3> QED
      BY <3>1 DEF RecordInv, ReadsInv
  <2>2. CASE M!RequestSeen(r) \/ M!RequestFinished(r) \/ M!RequestFailed(r) \/ M!SizesRead(r)
    <3>1. headers' = headers /\ wire[r] \in {"none", "sent", "answered", "finished", "failed"}
          /\ (wire'[r] = wire[r] \/ wire[r] = "none" \/ wire'[r] \in {"finished", "failed"})
      BY <2>2 DEF M!RequestSeen, M!RequestFinished, M!RequestFailed, M!SizesRead, RecordInv, NotesInv
    <3> QED
      BY <1>0, <3>1 DEF RecordInv, ReadsInv
  <2>3. CASE M!HeadersRead(r) \/ M!HeadersLost(r)
    <3>1. PICK state \in {"read", "lost"} : headers' = [headers EXCEPT ![r] = state]
                                           /\ (state = "lost" => truncated') /\ wire' = wire
      BY <2>3 DEF M!HeadersRead, M!HeadersLost
    <3>2. headers[r] = "pending"
      BY <2>3 DEF M!HeadersRead, M!HeadersLost
    <3> QED
      BY <1>0, <3>1, <3>2 DEF RecordInv, ReadsInv
  <2> QED
    BY <2>1, <2>2, <2>3
<1>5. ReadsInv'
  BY <1>0, <1>2, <1>4 DEF RecordInv, ReadsInv
<1>6. timings'.entries \subseteq M!Sent'
  BY <1>0, <1>2 DEF RecordInv, AnalysisInv, M!Sent
<1> QED
  BY <1>0, <1>3, <1>5, <1>6, NothingToldYet DEF RecordInv

---------------------------------------------------------------------------
(* The analysis.                                                           *)

\* With nothing left out, the timing of a request is its own.
LEMMA TimingsMatch ==
  ASSUME RecordInv, IsFiniteSet(Requests), NEW r \in M!Kept, NEW e \in M!Matched(r)
  PROVE  e = r
<1> DEFINE named == {q \in M!Kept : url[q] = url[r]}
<1>1. Cardinality(named) = 1 /\ ~truncated /\ e \in M!Timed(r)
  BY DEF M!Matched, M!Cardinality, Cardinality
<1>2. e \in Requests /\ wire[e] # "none" /\ url[e] = url[r]
  BY <1>1 DEF M!Timed, RecordInv, AnalysisInv, M!Sent
<1>3. e \in named /\ r \in named
  BY <1>1, <1>2 DEF RecordInv, NotesInv, M!Kept
<1>4. IsFiniteSet(named)
  BY FS_Subset DEF M!Kept
<1>5. PICK x : named = {x}
  BY <1>1, <1>4, FS_Singleton
<1> QED
  BY <1>3, <1>5

LEMMA AnalysisStep ==
  ASSUME RecordInv, IsFiniteSet(Requests), Size \in [Requests -> Nat], M!Analyze
  PROVE  RecordInv'
<1>1. /\ UNCHANGED <<url, outside, wire, item, headers, sizes, awaited, truncated, timings>>
      /\ phase = "read" /\ phase' = "done"
      /\ analysis'.coverage = M!Coverage /\ analysis'.known = M!Known
      /\ analysis'.bytes = M!SumFunction([r \in M!Known |-> M!Transfer(r)])
      /\ analysis'.timing = {pair \in M!Kept \X Requests : pair[2] \in M!Matched(pair[1])}
  BY DEF M!Analyze
<1>2. M!TimingsBelong'
  <2>1. \A r \in M!Kept : \A e \in M!Matched(r) : e = r
    BY TimingsMatch
  <2> QED
    BY <1>1, <2>1 DEF M!TimingsBelong
<1>3. ASSUME M!Coverage = "observed"
      PROVE  M!ObservedIsWhole'
  <2>1. ~M!LeftOut /\ ~M!Unknown /\ ~M!Blocked
    BY <1>3 DEF M!Coverage
  <2>2. ~truncated
    BY <2>1 DEF M!LeftOut
  <2>3. M!Kept = M!Sent
    BY <2>2 DEF M!Kept, M!Sent, RecordInv, NotesInv
  <2>4. \A r \in M!Kept : ~item[r].blocked /\ item[r].status /\ M!Transfer(r) # 0 /\ M!InScope(r)
    BY <2>1, <2>3 DEF M!Unknown, M!Blocked
  <2>5. \A r \in M!Kept : M!Transfer(r) = Size[r] /\ M!Transfer(r) > 0
    <3> SUFFICES ASSUME NEW r \in M!Kept PROVE M!Transfer(r) = Size[r] /\ M!Transfer(r) > 0
      OBVIOUS
    <3>1. r \in Requests /\ Size[r] \in Nat /\ item[r].size \in {0, Size[r]} /\ M!Transfer(r) # 0
      BY <2>4 DEF M!Kept, RecordInv, NotesInv
    <3>2. CASE item[r].size > 0
      BY <3>1, <3>2 DEF M!Transfer
    <3>3. CASE ~(item[r].size > 0)
      <4>1. M!Matched(r) \cap timings.sized # {} /\ M!Transfer(r) = Size[CHOOSE e \in M!Matched(r) : TRUE]
        BY <3>1, <3>3 DEF M!Transfer
      <4>2. (CHOOSE e \in M!Matched(r) : TRUE) \in M!Matched(r)
        BY <4>1
      <4>3. M!Transfer(r) = Size[r]
        BY <4>1, <4>2, TimingsMatch
      <4> QED
        BY <3>1, <4>3
    <3> QED
      BY <3>2, <3>3
  <2>6. M!Known = M!Sent
    BY <2>3, <2>4, <2>5 DEF M!Known
  <2>7. analysis'.bytes = M!SumFunction([r \in M!Sent |-> Size[r]])
    <3>1. [r \in M!Known |-> M!Transfer(r)] = [r \in M!Sent |-> Size[r]]
      BY <2>3, <2>5, <2>6
    <3> QED
      BY <1>1, <3>1
  <2>8. \A r \in M!Sent : M!InScope(r) /\ wire[r] \in {"answered", "finished"}
    BY <2>3, <2>4 DEF M!Kept, RecordInv, NotesInv
  <2>9. \A r \in Requests : <<r, "headers">> \in awaited => headers[r] = "read"
    BY <1>1, <2>2 DEF RecordInv, ReadsInv
  <2>10. M!Kept' = M!Kept /\ M!Sent' = M!Sent /\ \A r \in M!Sent : M!InScope(r)' = M!InScope(r)
    BY <1>1 DEF M!Kept, M!Sent, M!InScope
  <2> QED
    BY <1>1, <2>3, <2>6, <2>7, <2>8, <2>9, <2>10 DEF M!ObservedIsWhole
<1>4. M!ObservedIsWhole'
  BY <1>1, <1>3 DEF M!ObservedIsWhole
<1>5. NotesInv' /\ ReadsInv'
  BY <1>1 DEF RecordInv, NotesInv, ReadsInv, M!InScope
<1>6. timings'.entries \subseteq M!Sent'
  BY <1>1 DEF RecordInv, AnalysisInv, M!Sent
<1> QED
  BY <1>1, <1>2, <1>4, <1>5, <1>6 DEF RecordInv, AnalysisInv, M!PerformanceIsObserved

LEMMA StepHolds ==
  ASSUME RecordInv, IsFiniteSet(Requests), Size \in [Requests -> Nat], [M!Next]_(M!vars)
  PROVE  RecordInv'
<1>1. CASE M!Wait
  <2>1. /\ UNCHANGED <<url, outside, wire, item, headers, sizes, truncated, timings, analysis>>
        /\ phase = "loading" /\ phase' = "waiting" /\ awaited' = M!Pending
    BY <1>1 DEF M!Wait
  <2>2. NotesInv'
    BY <2>1 DEF RecordInv, NotesInv, M!InScope
  <2>3. \A r \in Requests : <<r, "headers">> \in M!Pending => headers[r] # "none"
    BY DEF M!Pending
  <2>4. ReadsInv'
    BY <2>1, <2>3 DEF RecordInv, ReadsInv
  <2>5. timings'.entries \subseteq M!Sent'
    BY <2>1 DEF RecordInv, AnalysisInv, M!Sent
  <2> QED
    BY <2>1, <2>2, <2>4, <2>5, NothingToldYet DEF RecordInv
<1>2. CASE M!WaitEnds \/ M!WaitTimesOut
  <2>1. /\ UNCHANGED <<url, outside, wire, item, headers, sizes, awaited, timings, analysis>>
        /\ phase = "waiting" /\ phase' = "reading"
        /\ truncated => truncated'
        /\ truncated' \/ awaited \cap M!Pending = {}
    BY <1>2 DEF M!WaitEnds, M!WaitTimesOut, M!Rest
  <2>2. NotesInv'
    BY <2>1 DEF RecordInv, NotesInv, M!InScope
  <2>3. awaited \cap M!Pending = {} => \A r \in Requests : <<r, "headers">> \in awaited => headers[r] # "pending"
    <3> SUFFICES ASSUME NEW r \in Requests, <<r, "headers">> \in awaited, headers[r] = "pending"
                 PROVE  awaited \cap M!Pending # {}
      OBVIOUS
    <3>1. <<r, "headers">> \in M!Pending
      BY DEF M!Pending
    <3> QED
      BY <3>1
  <2>4. ReadsInv'
    BY <2>1, <2>3 DEF RecordInv, ReadsInv
  <2>5. timings'.entries \subseteq M!Sent'
    BY <2>1 DEF RecordInv, AnalysisInv, M!Sent
  <2> QED
    BY <2>1, <2>2, <2>4, <2>5, NothingToldYet DEF RecordInv
<1>3. CASE M!Snapshot
  <2>1. /\ UNCHANGED <<url, outside, wire, item, headers, sizes, awaited, truncated, analysis>>
        /\ phase = "reading" /\ phase' = "read"
        /\ \/ timings'.entries \subseteq {r \in Requests : wire[r] \in {"finished", "failed"}}
           \/ timings' = timings
    BY <1>3 DEF M!Snapshot
  <2>2. NotesInv'
    BY <2>1 DEF RecordInv, NotesInv, M!InScope
  <2>3. ReadsInv'
    BY <2>1 DEF RecordInv, ReadsInv
  <2>4. timings'.entries \subseteq M!Sent'
    BY <2>1 DEF RecordInv, AnalysisInv, M!Sent
  <2> QED
    BY <2>1, <2>2, <2>3, <2>4, NothingToldYet DEF RecordInv
<1>4. CASE UNCHANGED M!vars
  <2>1. UNCHANGED <<phase, url, outside, wire, item, headers, sizes, awaited, truncated, timings, analysis>>
    BY <1>4 DEF M!vars
  <2>2. M!Kept' = M!Kept /\ M!Sent' = M!Sent /\ \A r \in Requests : M!InScope(r)' = M!InScope(r)
    BY <2>1 DEF M!Kept, M!Sent, M!InScope
  <2>3. NotesInv' /\ ReadsInv'
    BY <2>1, <2>2 DEF RecordInv, NotesInv, ReadsInv
  <2>4. M!ObservedIsWhole' /\ M!TimingsBelong'
    BY <2>1, <2>2 DEF RecordInv, AnalysisInv, M!PerformanceIsObserved, M!ObservedIsWhole, M!TimingsBelong, M!Sent
  <2> QED
    BY <2>1, <2>2, <2>3, <2>4 DEF RecordInv, AnalysisInv, M!PerformanceIsObserved
<1> QED
  BY <1>1, <1>2, <1>3, <1>4, EventSteps, AnalysisStep DEF M!Next

\* A record that is called "observed" leaves out no request of the page and no
\* byte that was read, whatever the order of the events and of the reads behind
\* them; and no request is told the timing of another one.
THEOREM RecordsAreObserved ==
  ASSUME IsFiniteSet(Requests), Size \in [Requests -> Nat]
  PROVE  M!Spec => []M!PerformanceIsObserved
<1>1. RecordInv => M!PerformanceIsObserved
  BY DEF RecordInv, AnalysisInv
<1>2. RecordInv /\ [M!Next]_(M!vars) => RecordInv'
  BY StepHolds
<1> QED
  BY <1>1, <1>2, InitHolds, PTL DEF M!Spec
---------------------------------------------------------------------------
(* The types of the record.                                                *)

RecordTyped == M!TypeOK /\ DOMAIN sizes = Requests

LEMMA SameCardinality == \A S : M!Cardinality(S) = Cardinality(S)
BY DEF Cardinality, M!Cardinality

LEMMA TypesHold ==
  ASSUME M!Init, MaxItems \in Nat
  PROVE  RecordTyped
<1>1. M!Kept = {}
  BY DEF M!Init, M!Kept, M!NoItem
<1>2. M!Cardinality(M!Kept) = 0
  BY <1>1, SameCardinality, FS_EmptySet
<1>3. analysis.coverage = "none"
  BY DEF M!Init, M!NoAnalysis
<1> QED
  BY <1>2, <1>3 DEF M!Init, M!TypeOK, RecordTyped

\* What is noted of a request: only of one that is kept are there reads, and
\* one more is kept only if there is room.
LEMMA NotesTyped ==
  ASSUME RecordInv, RecordTyped, NEW r \in Requests,
         \/ M!RequestSeen(r) \/ M!ResponseSeen(r) \/ M!RequestFinished(r) \/ M!RequestFailed(r)
         \/ M!HeadersRead(r) \/ M!HeadersLost(r) \/ M!SizesRead(r)
  PROVE  /\ phase' = phase /\ analysis' = analysis /\ DOMAIN sizes' = Requests
         /\ \A q \in Requests : headers'[q] # "none" \/ sizes'[q] # "none" => item'[q].kept
         /\ \/ \A q \in Requests : item'[q].kept = item[q].kept
            \/ /\ Cardinality(M!Kept) < MaxItems
               /\ \A q \in Requests \ {r} : item'[q].kept = item[q].kept
<1>1. /\ phase' = phase /\ analysis' = analysis
  BY DEF M!RequestSeen, M!ResponseSeen, M!RequestFinished, M!RequestFailed, M!HeadersRead,
         M!HeadersLost, M!SizesRead, M!Rest
<1>2. /\ item \in [Requests -> Items] /\ DOMAIN sizes = Requests /\ DOMAIN headers = Requests
      /\ \A q \in Requests : headers[q] # "none" \/ sizes[q] # "none" => item[q].kept
  BY DEF RecordInv, NotesInv, ReadsInv, RecordTyped, M!TypeOK
<1>3. item[r] \in Items
  BY <1>2
<1>4. CASE M!RequestSeen(r)
  <2>1. headers' = headers /\ sizes' = sizes
    BY <1>4 DEF M!RequestSeen
  <2>2. CASE M!Cardinality(M!Kept) < MaxItems
    <3>1. PICK i : i = [M!NoItem EXCEPT !.kept = TRUE, !.blocked = ~M!InScope(r)]
      OBVIOUS
    <3>2. i = [kept |-> TRUE, status |-> FALSE, size |-> 0, blocked |-> ~M!InScope(r)]
      BY <3>1 DEF M!NoItem
    <3>3. i.kept
      BY <3>2
    <3>4. item' = [item EXCEPT ![r] = i]
      BY <1>4, <2>2, <3>1 DEF M!RequestSeen
    <3>5. item'[r].kept /\ \A q \in Requests \ {r} : item'[q] = item[q]
      BY <1>2, <3>3, <3>4
    <3> QED
      BY <1>1, <1>2, <2>1, <2>2, <3>5, SameCardinality
  <2>3. CASE ~(M!Cardinality(M!Kept) < MaxItems)
    <3>1. item' = item
      BY <1>4, <2>3 DEF M!RequestSeen
    <3> QED
      BY <1>1, <1>2, <2>1, <3>1
  <2> QED
    BY <2>2, <2>3
<1>5. CASE M!ResponseSeen(r)
  <2>1. sizes' = sizes
    BY <1>5 DEF M!ResponseSeen
  <2>2. CASE item[r].kept
    <3>1. PICK i \in Items : i = [item[r] EXCEPT !.status = TRUE]
      BY <1>3, ItemFields
    <3>2. i.kept = item[r].kept
      BY <1>3, <3>1 DEF Items
    <3>3. item' = [item EXCEPT ![r] = i] /\ headers' = [headers EXCEPT ![r] = "pending"]
      BY <1>5, <2>2, <3>1 DEF M!ResponseSeen
    <3>4. \A q \in Requests : item'[q].kept = item[q].kept
      BY <1>2, <3>2, <3>3
    <3>5. \A q \in Requests \ {r} : headers'[q] = headers[q]
      BY <1>2, <3>3
    <3> QED
      BY <1>1, <1>2, <2>1, <2>2, <3>4, <3>5
  <2>3. CASE ~item[r].kept
    <3>1. item' = item /\ headers' = headers
      BY <1>5, <2>3 DEF M!ResponseSeen
    <3> QED
      BY <1>1, <1>2, <2>1, <3>1
  <2> QED
    BY <2>2, <2>3
<1>6. CASE M!RequestFinished(r)
  <2>1. /\ item' = item /\ headers' = headers
        /\ sizes' = IF item[r].kept THEN [sizes EXCEPT ![r] = "pending"] ELSE sizes
    BY <1>6 DEF M!RequestFinished
  <2> QED
    BY <1>1, <1>2, <2>1
<1>7. CASE M!RequestFailed(r)
  <2>1. headers' = headers /\ sizes' = sizes
    BY <1>7 DEF M!RequestFailed
  <2>2. PICK i \in Items : i = [item[r] EXCEPT !.blocked = TRUE]
    BY <1>3, ItemFields
  <2>3. i.kept = item[r].kept
    BY <1>3, <2>2 DEF Items
  <2>4. item' = IF item[r].kept THEN [item EXCEPT ![r] = i] ELSE item
    BY <1>7, <2>2 DEF M!RequestFailed
  <2>5. \A q \in Requests : item'[q].kept = item[q].kept
    BY <1>2, <2>3, <2>4
  <2> QED
    BY <1>1, <1>2, <2>1, <2>5
<1>8. CASE M!HeadersRead(r) \/ M!HeadersLost(r)
  <2>1. /\ item' = item /\ sizes' = sizes /\ headers[r] = "pending"
        /\ \A q \in Requests \ {r} : headers'[q] = headers[q]
    BY <1>2, <1>8 DEF M!HeadersRead, M!HeadersLost
  <2> QED
    BY <1>1, <1>2, <2>1
<1>9. CASE M!SizesRead(r)
  <2>1. headers' = headers /\ sizes[r] = "pending" /\ sizes' = [sizes EXCEPT ![r] = "read"]
    BY <1>9 DEF M!SizesRead
  <2>2. \A q \in Requests : item'[q].kept = item[q].kept
    <3> DEFINE i == [item[r] EXCEPT !.size = Size[r]]
    <3>1. i.kept = item[r].kept
      BY <1>3 DEF Items
    <3>2. item' = [item EXCEPT ![r] = i] \/ item' = item
      BY <1>9 DEF M!SizesRead
    <3> HIDE DEF i
    <3> QED
      BY <1>2, <3>1, <3>2
  <2> QED
    BY <1>1, <1>2, <2>1, <2>2
<1> QED
  BY <1>4, <1>5, <1>6, <1>7, <1>8, <1>9

LEMMA TypesStep ==
  ASSUME RecordInv, RecordInv', RecordTyped, IsFiniteSet(Requests), MaxItems \in Nat,
         [M!Next]_(M!vars)
  PROVE  RecordTyped'
<1>1. wire' \in [Requests -> {"none", "sent", "answered", "finished", "failed"}]
  BY DEF RecordInv, NotesInv
<1>2. /\ phase \in {"loading", "waiting", "reading", "read", "done"}
      /\ \A q \in Requests : headers[q] # "none" \/ sizes[q] # "none" => item[q].kept
      /\ Cardinality(M!Kept) <= MaxItems
      /\ analysis.coverage \in {"none", "unavailable", "limited", "observed"}
      /\ DOMAIN sizes = Requests
  BY SameCardinality DEF RecordTyped, M!TypeOK
<1>3. ASSUME NEW r \in Requests,
             \/ M!RequestSeen(r) \/ M!ResponseSeen(r) \/ M!RequestFinished(r) \/ M!RequestFailed(r)
             \/ M!HeadersRead(r) \/ M!HeadersLost(r) \/ M!SizesRead(r)
      PROVE  RecordTyped'
  <2>1. /\ phase' = phase /\ analysis' = analysis /\ DOMAIN sizes' = Requests
        /\ \A q \in Requests : headers'[q] # "none" \/ sizes'[q] # "none" => item'[q].kept
        /\ \/ \A q \in Requests : item'[q].kept = item[q].kept
           \/ /\ Cardinality(M!Kept) < MaxItems
              /\ \A q \in Requests \ {r} : item'[q].kept = item[q].kept
    BY <1>3, NotesTyped
  <2>2. IsFiniteSet(M!Kept) /\ Cardinality(M!Kept) \in Nat
    <3>1. M!Kept \subseteq Requests
      BY DEF M!Kept
    <3> QED
      BY <3>1, FS_Subset, FS_CardinalityType
  <2>3. Cardinality(M!Kept') <= MaxItems
    <3>1. CASE \A q \in Requests : item'[q].kept = item[q].kept
      <4>1. M!Kept' = M!Kept
        BY <3>1 DEF M!Kept
      <4> QED
        BY <1>2, <4>1
    <3>2. CASE Cardinality(M!Kept) < MaxItems /\ \A q \in Requests \ {r} : item'[q].kept = item[q].kept
      <4>1. M!Kept' \subseteq M!Kept \cup {r}
        BY <3>2 DEF M!Kept
      <4>2. /\ IsFiniteSet(M!Kept \cup {r}) /\ Cardinality(M!Kept \cup {r}) \in Nat
            /\ Cardinality(M!Kept \cup {r}) <= Cardinality(M!Kept) + 1
        <5>1. /\ IsFiniteSet(M!Kept \cup {r})
              /\ \/ Cardinality(M!Kept \cup {r}) = Cardinality(M!Kept)
                 \/ Cardinality(M!Kept \cup {r}) = Cardinality(M!Kept) + 1
          BY <2>2, FS_AddElement
        <5> QED
          BY <2>2, <5>1
      <4>3. Cardinality(M!Kept') <= Cardinality(M!Kept \cup {r}) /\ Cardinality(M!Kept') \in Nat
        BY <4>1, <4>2, FS_Subset, FS_CardinalityType
      <4> QED
        BY <2>2, <3>2, <4>2, <4>3
    <3> QED
      BY <2>1, <3>1, <3>2
  <2>4. M!Cardinality(M!Kept') <= MaxItems
    BY <2>3, SameCardinality
  <2> QED
    BY <1>1, <1>2, <2>1, <2>4 DEF RecordTyped, M!TypeOK, M!Kept
<1>4. ASSUME /\ UNCHANGED <<headers, sizes, item>>
             /\ phase' \in {"loading", "waiting", "reading", "read", "done"}
             /\ analysis'.coverage \in {"none", "unavailable", "limited", "observed"}
      PROVE  RecordTyped'
  <2>1. M!Kept' = M!Kept
    BY <1>4 DEF M!Kept
  <2>2. M!Cardinality(M!Kept)' <= MaxItems
    <3>1. M!Cardinality(M!Kept') = Cardinality(M!Kept')
      BY SameCardinality
    <3>2. Cardinality(M!Kept') <= MaxItems
      BY <1>2, <2>1
    <3>3. M!Cardinality(M!Kept') <= MaxItems
      BY <3>1, <3>2
    <3> QED
      BY <3>3 DEF M!Kept
  <2> QED
    BY <1>1, <1>2, <1>4, <2>2 DEF RecordTyped, M!TypeOK
<1>5. CASE M!Wait \/ M!WaitEnds \/ M!WaitTimesOut \/ M!Snapshot
  <2>1. /\ UNCHANGED <<headers, sizes, item, analysis>>
        /\ phase' \in {"loading", "waiting", "reading", "read", "done"}
    BY <1>5 DEF M!Wait, M!WaitEnds, M!WaitTimesOut, M!Snapshot, M!Rest
  <2> QED
    BY <1>2, <1>4, <2>1
<1>6. CASE M!Analyze
  <2>1. UNCHANGED <<headers, sizes, item>> /\ phase' = "done" /\ analysis'.coverage = M!Coverage
    BY <1>6 DEF M!Analyze
  <2>2. M!Coverage \in {"unavailable", "limited", "observed"}
    BY DEF M!Coverage
  <2> QED
    BY <1>4, <2>1, <2>2
<1>7. CASE UNCHANGED M!vars
  <2>1. UNCHANGED <<headers, sizes, item, phase, analysis>>
    BY <1>7 DEF M!vars
  <2> QED
    BY <1>2, <1>4, <2>1
<1> QED
  BY <1>3, <1>5, <1>6, <1>7 DEF M!Next
=============================================================================
