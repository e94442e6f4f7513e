-------------------------- MODULE CondExploreProofs -------------------------
(***************************************************************************)
(* Why exploring one configuration at a time says what the whole module     *)
(* means, for every module and every set of condition variables.           *)
(***************************************************************************)
EXTENDS CondExplore, FiniteSetTheorems, SequenceTheorems, WellFoundedInduction, TLAPS

-----------------------------------------------------------------------------
(* Induction over the naturals as a fact about sets, which cites no operator *)
(* parameter: the least element of a set that lacks a natural number.        *)

LessThan == {p \in Nat \X Nat : p[1] < p[2]}

LEMMA LeastElement ==
  ASSUME NEW T, T \subseteq Nat, T # {}
  PROVE  \E x \in T : \A y \in T : x <= y
<1>1. IsWellFoundedOn(LessThan, Nat)
  BY NatLessThanWellFounded DEF OpToRel, LessThan
<1>2. PICK x \in T : \A y \in T : <<y, x>> \notin LessThan
  BY <1>1, WFMin
<1>3. \A y \in T : x <= y
  <2> SUFFICES ASSUME NEW y \in T PROVE x <= y
    OBVIOUS
  <2>1. x \in Nat /\ y \in Nat
    OBVIOUS
  <2>2. ~(y < x)
    BY <1>2, <2>1 DEF LessThan
  <2> QED
    BY <2>1, <2>2
<1> QED
  BY <1>3

LEMMA Induction ==
  ASSUME NEW S, 0 \in S, \A n \in Nat : n \in S => n + 1 \in S
  PROVE  Nat \subseteq S
<1> SUFFICES ASSUME Nat \ S # {} PROVE FALSE
  OBVIOUS
<1>1. PICK x \in Nat \ S : \A y \in Nat \ S : x <= y
  BY LeastElement
<1>2. x # 0 /\ x - 1 \in Nat
  BY <1>1
<1>3. x - 1 \in S
  BY <1>1, <1>2
<1> QED
  BY <1>1, <1>2, <1>3

(***************************************************************************)
(* A function whose value at x depends on its values at points of a lower   *)
(* rank only exists.  R is one round of its equation.                       *)
(***************************************************************************)
Descends(D, V, Rank, R) ==
  /\ Rank \in [D -> Nat]
  /\ R \in [[D -> V] -> [D -> V]]
  /\ \A g, h \in [D -> V] : \A x \in D :
       (\A y \in D : Rank[y] < Rank[x] => g[y] = h[y]) => R[g][x] = R[h][x]

LEMMA Recursion ==
  ASSUME NEW D, NEW V, NEW Rank, NEW R, Descends(D, V, Rank, R), [D -> V] # {}
  PROVE  \E f \in [D -> V] : f = R[f]
<1> USE DEF Descends
<1> PICK start \in [D -> V] : TRUE
  OBVIOUS
<1> DEFINE G == [D -> V]
           Upto(g, n) == g \in G /\ \A x \in D : Rank[x] < n => g[x] = R[g][x]
           S == {n \in Nat : \E g : Upto(g, n)}
<1>1. Upto(start, 0)
  OBVIOUS
<1>2. ASSUME NEW n \in Nat, NEW g, Upto(g, n) PROVE Upto(R[g], n + 1)
  <2>1. R[g] \in G
    BY <1>2
  <2>2. ASSUME NEW x \in D, Rank[x] < n + 1 PROVE R[g][x] = R[R[g]][x]
    <3>1. \A y \in D : Rank[y] < Rank[x] => g[y] = R[g][y]
      BY <1>2, <2>2
    <3> QED
      BY <1>2, <2>1, <3>1
  <2> QED
    BY <2>1, <2>2
<1>3. \A n \in Nat : \E g : Upto(g, n)
  <2>1. 0 \in S
    <3> HIDE DEF Upto
    <3> QED
      BY <1>1
  <2>2. \A n \in Nat : n \in S => n + 1 \in S
    <3> HIDE DEF Upto
    <3> QED
      BY <1>2
  <2>3. Nat \subseteq S
    <3> HIDE DEF S
    <3> QED
      BY <2>1, <2>2, Induction
  <2> HIDE DEF Upto
  <2> QED
    BY <2>3
<1>4. ASSUME NEW n \in Nat, NEW g, NEW h, Upto(g, n), Upto(h, n)
      PROVE  \A x \in D : Rank[x] < n => g[x] = h[x]
  <2> DEFINE E == {m \in Nat : m <= n => \A x \in D : Rank[x] < m => g[x] = h[x]}
  <2>1. 0 \in E
    OBVIOUS
  <2>2. ASSUME NEW m \in Nat, m \in E PROVE m + 1 \in E
    <3> SUFFICES ASSUME m + 1 <= n, NEW x \in D, Rank[x] < m + 1 PROVE g[x] = h[x]
      OBVIOUS
    <3>1. \A y \in D : Rank[y] < Rank[x] => g[y] = h[y]
      BY <2>2
    <3>2. R[g][x] = R[h][x]
      BY <1>4, <3>1
    <3> QED
      BY <1>4, <3>2
  <2>3. Nat \subseteq E
    <3> HIDE DEF E
    <3> QED
      BY <2>1, <2>2, Induction
  <2> QED
    BY <2>3
<1> DEFINE At(n) == CHOOSE g : Upto(g, n)
<1>5. \A n \in Nat : Upto(At(n), n)
  <2> HIDE DEF Upto
  <2> QED
    BY <1>3
<1> HIDE DEF At
<1> DEFINE f == [x \in D |-> At(Rank[x] + 1)[x]]
<1>6. f \in G
  <2>1. \A x \in D : At(Rank[x] + 1) \in G
    BY <1>5
  <2> QED
    BY <2>1
<1>7. ASSUME NEW x \in D PROVE f[x] = R[f][x]
  <2>1. PICK g : g = At(Rank[x] + 1)
    OBVIOUS
  <2>2. Upto(g, Rank[x] + 1)
    BY <1>5, <2>1
  <2>3. ASSUME NEW y \in D, Rank[y] < Rank[x] PROVE f[y] = g[y]
    <3>1. Upto(At(Rank[y] + 1), Rank[y] + 1)
      BY <1>5
    <3>2. Upto(g, Rank[y] + 1)
      BY <2>2, <2>3
    <3>3. \A z \in D : Rank[z] < Rank[y] + 1 => At(Rank[y] + 1)[z] = g[z]
      <4> HIDE DEF Upto
      <4>1. Rank[y] + 1 \in Nat
        OBVIOUS
      <4> QED
        BY <1>4, <3>1, <3>2, <4>1
    <3> QED
      BY <3>3
  <2>4. g[x] = R[g][x] /\ g \in G /\ f[x] = g[x]
    BY <2>1, <2>2
  <2>5. R[f][x] = R[g][x]
    <3> HIDE DEF f
    <3> QED
      BY <1>6, <2>3, <2>4
  <2> QED
    BY <2>4, <2>5
<1>8. R[f] \in G
  BY <1>6
<1> HIDE DEF f
<1> QED
  BY <1>6, <1>7, <1>8

-----------------------------------------------------------------------------
(* Formulas.                                                               *)

\* A conjunction of two assumptions holds where both do, and a formula and its
\* negation have no model in common and leave none out.
LEMMA ModelsOfUnion ==
  ASSUME NEW p, NEW q
  PROVE  Models(p \cup q) = Models(p) \cap Models(q)
BY DEF Models

LEMMA ModelsOfMore ==
  ASSUME NEW p, NEW q, p \subseteq q
  PROVE  Models(q) \subseteq Models(p)
BY DEF Models

LEMMA Negation ==
  ASSUME NEW c \in Conditions
  PROVE  /\ Not(c) \in Conditions
         /\ Conjuncts(c) \in Assumptions
         /\ \A v \in Valuations : v \in Models(Conjuncts(Not(c))) <=> v \notin Models(Conjuncts(c))
<1>1. c.op \in {"and", "or"} /\ c.args \subseteq SUBSET Valuations
  BY DEF Conditions, Assumptions
<1>2. Not(c) = [op |-> IF c.op = "and" THEN "or" ELSE "and",
                args |-> {Valuations \ x : x \in c.args}]
  BY DEF Not
<1>3. Not(c) \in Conditions
  <2>1. {Valuations \ x : x \in c.args} \subseteq SUBSET Valuations
    OBVIOUS
  <2> QED
    BY <1>1, <1>2, <2>1 DEF Conditions, Assumptions
<1>4. Conjuncts(c) \in Assumptions
  BY <1>1 DEF Conjuncts, Assumptions
<1>5. ASSUME NEW v \in Valuations
      PROVE  v \in Models(Conjuncts(Not(c))) <=> v \notin Models(Conjuncts(c))
  <2>1. CASE c.op = "and"
    <3>1. v \in Models(Conjuncts(c)) <=> \A x \in c.args : v \in x
      BY <2>1 DEF Conjuncts, Models
    <3>2. Conjuncts(Not(c)) = {UNION {Valuations \ x : x \in c.args}}
      BY <1>2, <2>1 DEF Conjuncts
    <3>3. v \in Models(Conjuncts(Not(c))) <=> \E x \in c.args : v \in Valuations \ x
      BY <3>2 DEF Models
    <3> QED
      BY <3>1, <3>3
  <2>2. CASE c.op = "or"
    <3>1. v \in Models(Conjuncts(c)) <=> \E x \in c.args : v \in x
      BY <2>2 DEF Conjuncts, Models
    <3>2. Conjuncts(Not(c)) = {Valuations \ x : x \in c.args}
      BY <1>2, <2>2 DEF Conjuncts
    <3>3. v \in Models(Conjuncts(Not(c))) <=> \A x \in c.args : v \in Valuations \ x
      BY <3>2 DEF Models
    <3> QED
      BY <3>1, <3>3
  <2> QED
    BY <1>1, <2>1, <2>2
<1> QED
  BY <1>3, <1>4, <1>5

-----------------------------------------------------------------------------
(* The specializer's recursion meets its equations.                        *)

Visitors == [Items -> [Walks -> Walks]]

\* The three shapes of an item.
IsLeaf(item) == item \in [kind : {"leaf"}, name : Leaves]
IsIf(item) == item \in [kind : {"if"}, cond : Conditions,
                        then : Seq(Below(item)), else : Seq(Below(item))]
IsBody(item) == item \in [kind : {"body"}, items : Seq(Below(item))]

LEMMA Shapes ==
  ASSUME NEW item \in Items
  PROVE  IsLeaf(item) \/ IsIf(item) \/ IsBody(item)
BY ItemsAssumption DEF IsLeaf, IsIf, IsBody

\* What `instrs` computes: the last of the states that visiting one item after the
\* other goes through.
Along(visit, s, items, w) ==
  /\ w \in [0..Len(items) -> Walks]
  /\ w[0] = s
  /\ \A k \in 1..Len(items) : w[k] = visit[items[k]][w[k - 1]]

LEMMA WalkExists ==
  ASSUME NEW visit, NEW items \in Seq(Items), NEW s \in Walks,
         \A k \in 1..Len(items) : visit[items[k]] \in [Walks -> Walks]
  PROVE  \E w : Along(visit, s, items, w) /\ instrs(visit, s, items) = w[Len(items)]
<1> DEFINE D == 0..Len(items)
           Round(w) == [k \in D |-> IF k = 0 THEN s ELSE visit[items[k]][w[k - 1]]]
           R == [w \in [D -> Walks] |-> Round(w)]
           Rank == [k \in D |-> k]
<1>1. Len(items) \in Nat
  OBVIOUS
<1>2. \A w \in [D -> Walks] : Round(w) \in [D -> Walks]
  <2> SUFFICES ASSUME NEW w \in [D -> Walks], NEW k \in D, k # 0
               PROVE  visit[items[k]][w[k - 1]] \in Walks
    OBVIOUS
  <2>1. k - 1 \in D /\ visit[items[k]] \in [Walks -> Walks]
    BY <1>1
  <2> QED
    BY <2>1
<1>3. R \in [[D -> Walks] -> [D -> Walks]]
  BY <1>2
<1>4. \A g, h \in [D -> Walks] : \A x \in D :
        (\A y \in D : Rank[y] < Rank[x] => g[y] = h[y]) => R[g][x] = R[h][x]
  <2> SUFFICES ASSUME NEW g \in [D -> Walks], NEW h \in [D -> Walks], NEW x \in D,
                      \A y \in D : Rank[y] < Rank[x] => g[y] = h[y]
               PROVE  R[g][x] = R[h][x]
    OBVIOUS
  <2>1. x # 0 => x - 1 \in D /\ g[x - 1] = h[x - 1]
    BY <1>1
  <2> QED
    BY <2>1
<1>5. Rank \in [D -> Nat] /\ [k \in D |-> s] \in [D -> Walks]
  BY <1>1
<1>6. \E w \in [D -> Walks] : w = R[w]
  <2> HIDE DEF D, R, Rank
  <2>1. Descends(D, Walks, Rank, R)
    BY <1>3, <1>4, <1>5 DEF Descends
  <2>2. [D -> Walks] # {}
    BY <1>5
  <2> QED
    BY <2>1, <2>2, Recursion
<1>7. \E w : w = Round(w)
  BY <1>6
<1> DEFINE walk == CHOOSE w : w = Round(w)
<1>8. walk = Round(walk)
  <2> HIDE DEF Round
  <2> QED
    BY <1>7
<1>9. instrs(visit, s, items) = walk[Len(items)]
  BY DEF instrs
<1> HIDE DEF walk
<1>10. walk \in [D -> Walks]
  <2> DEFINE E == {n \in Nat : n \in D => walk[n] \in Walks}
  <2>1. 0 \in E
    BY <1>1, <1>8
  <2>2. ASSUME NEW n \in Nat, n \in E PROVE n + 1 \in E
    <3> SUFFICES ASSUME n + 1 \in D PROVE walk[n + 1] \in Walks
      OBVIOUS
    <3>1. /\ n \in D /\ n + 1 \in 1..Len(items) /\ walk[n] \in Walks
          /\ visit[items[n + 1]] \in [Walks -> Walks]
      BY <1>1, <2>2
    <3>2. walk[n + 1] = visit[items[n + 1]][walk[n]]
      BY <1>8
    <3> QED
      BY <3>1, <3>2
  <2>3. Nat \subseteq E
    <3> HIDE DEF E
    <3> QED
      BY <2>1, <2>2, Induction
  <2>4. \A k \in D : walk[k] \in Walks
    BY <1>1, <2>3
  <2>5. walk = [k \in D |-> walk[k]]
    BY <1>8
  <2> QED
    BY <2>4, <2>5
<1>11. Along(visit, s, items, walk)
  <2>1. walk[0] = s
    BY <1>1, <1>8
  <2>2. \A k \in 1..Len(items) : walk[k] = visit[items[k]][walk[k - 1]]
    <3> TAKE k \in 1..Len(items)
    <3>1. k \in D /\ k # 0
      BY <1>1
    <3> QED
      BY <1>8, <3>1
  <2> QED
    BY <1>10, <2>1, <2>2 DEF Along
<1> QED
  BY <1>9, <1>11

\* A walk depends on the visits of its own items only.
LEMMA WalkAgrees ==
  ASSUME NEW visit, NEW other \in Visitors, NEW items \in Seq(Items),
         NEW s \in Walks, \A i \in 1..Len(items) : visit[items[i]] = other[items[i]]
  PROVE  instrs(visit, s, items) = instrs(other, s, items)
<1>0. \A i \in 1..Len(items) : other[items[i]] \in [Walks -> Walks]
  BY DEF Visitors
<1>1. PICK w : Along(visit, s, items, w) /\ instrs(visit, s, items) = w[Len(items)]
  BY <1>0, WalkExists
<1>2. PICK x : Along(other, s, items, x) /\ instrs(other, s, items) = x[Len(items)]
  BY <1>0, WalkExists
<1> DEFINE E == {n \in Nat : n <= Len(items) => w[n] = x[n]}
<1>3. 0 \in E
  BY <1>1, <1>2 DEF Along
<1>4. ASSUME NEW n \in Nat, n \in E PROVE n + 1 \in E
  BY <1>1, <1>2, <1>4 DEF Along
<1>5. Nat \subseteq E
  <2> HIDE DEF E
  <2> QED
    BY <1>3, <1>4, Induction
<1>6. Len(items) \in Nat
  OBVIOUS
<1> QED
  BY <1>1, <1>2, <1>5, <1>6

LEMMA WalkTyped ==
  ASSUME NEW visit \in Visitors, NEW items \in Seq(Items), NEW s \in Walks
  PROVE  instrs(visit, s, items) \in Walks
<1>1. \A i \in 1..Len(items) : visit[items[i]] \in [Walks -> Walks]
  BY DEF Visitors
<1>2. PICK w : Along(visit, s, items, w) /\ instrs(visit, s, items) = w[Len(items)]
  BY <1>1, WalkExists
<1> QED
  BY <1>2 DEF Along

\* The states that a branch is entered in.
Entered(s, c) == [s EXCEPT !.under = @ \cup Conjuncts(c), !.full = @ \cup Conjuncts(c)]

LEMMA EnteredTyped ==
  ASSUME NEW s \in Walks, NEW c \in Conditions
  PROVE  /\ Entered(s, c) \in Walks
         /\ Entered(s, c).under = s.under \cup Conjuncts(c)
         /\ Entered(s, c).full = s.full \cup Conjuncts(c)
         /\ Entered(s, c).enqueued = s.enqueued /\ Entered(s, c).leaves = s.leaves
BY Negation DEF Entered, Walks, Assumptions

\* The assumptions of the two branches, and the walk that has handed on the second.
ThenUnder(s, item) == s.under \cup Conjuncts(item.cond)
ElseUnder(s, item) == s.under \cup Conjuncts(Not(item.cond))
HandedOn(s, item) == [s EXCEPT !.enqueued = Append(@, ElseUnder(s, item))]

\* The three ways an #[if] is resolved.
TakesElse(visit, s, item, t) ==
  /\ ~Satisfiable(ThenUnder(s, item))
  /\ t = [instrs(visit, Entered(s, Not(item.cond)), item.else)
            EXCEPT !.under = ElseUnder(s, item)]
TakesThen(visit, s, item, t) ==
  /\ Satisfiable(ThenUnder(s, item)) /\ ~Satisfiable(ElseUnder(s, item))
  /\ t = [instrs(visit, Entered(s, item.cond), item.then) EXCEPT !.under = ThenUnder(s, item)]
TakesBoth(visit, s, item, t) ==
  /\ Satisfiable(ThenUnder(s, item)) /\ Satisfiable(ElseUnder(s, item))
  /\ t = [instrs(visit, Entered(HandedOn(s, item), item.cond), item.then)
            EXCEPT !.under = ThenUnder(s, item)]

LEMMA Choices ==
  ASSUME NEW visit, NEW s, NEW item
  PROVE  \/ TakesElse(visit, s, item, choose(visit, s, item))
         \/ TakesThen(visit, s, item, choose(visit, s, item))
         \/ TakesBoth(visit, s, item, choose(visit, s, item))
BY DEF choose, Taken, Entered, ThenUnder, ElseUnder, HandedOn, TakesElse, TakesThen, TakesBoth

LEMMA InnerItems ==
  ASSUME NEW item \in Items, NEW items \in Seq(Below(item))
  PROVE  /\ items \in Seq(Items) /\ Len(items) \in Nat
         /\ \A i \in 1..Len(items) : items[i] \in Items /\ Level[items[i]] < Level[item]
<1>1. \A i \in 1..Len(items) : items[i] \in Below(item)
  OBVIOUS
<1>2. \A i \in 1..Len(items) : items[i] \in Items /\ Level[items[i]] < Level[item]
  BY <1>1 DEF Below
<1>3. items = [i \in 1..Len(items) |-> items[i]] /\ Len(items) \in Nat
  OBVIOUS
<1> QED
  BY <1>2, <1>3

LEMMA EnqueueTyped ==
  ASSUME NEW s \in Walks, NEW a \in Assumptions
  PROVE  /\ [s EXCEPT !.enqueued = Append(@, a)] \in Walks
         /\ [s EXCEPT !.enqueued = Append(@, a)].enqueued = Append(s.enqueued, a)
         /\ [s EXCEPT !.enqueued = Append(@, a)].under = s.under
         /\ [s EXCEPT !.enqueued = Append(@, a)].full = s.full
         /\ [s EXCEPT !.enqueued = Append(@, a)].leaves = s.leaves
<1>1. s.enqueued \in Seq(Assumptions)
  BY DEF Walks
<1>2. Append(s.enqueued, a) \in Seq(Assumptions)
  BY <1>1
<1> QED
  BY <1>2 DEF Walks

LEMMA UnderTyped ==
  ASSUME NEW s \in Walks, NEW a \in Assumptions
  PROVE  /\ [s EXCEPT !.under = a] \in Walks
         /\ [s EXCEPT !.under = a].under = a
         /\ [s EXCEPT !.under = a].full = s.full
         /\ [s EXCEPT !.under = a].enqueued = s.enqueued
         /\ [s EXCEPT !.under = a].leaves = s.leaves
BY DEF Walks

LEMMA JoinTyped ==
  ASSUME NEW s \in Walks, NEW c \in Conditions
  PROVE  s.under \cup Conjuncts(c) \in Assumptions /\ s.under \in Assumptions
BY Negation DEF Walks, Assumptions

LEMMA IfTyped ==
  ASSUME NEW item \in Items, NEW s \in Walks, IsIf(item)
  PROVE  /\ item.kind = "if" /\ item.cond \in Conditions /\ Not(item.cond) \in Conditions
         /\ item.then \in Seq(Below(item)) /\ item.else \in Seq(Below(item))
         /\ item.then \in Seq(Items) /\ item.else \in Seq(Items)
         /\ ThenUnder(s, item) \in Assumptions /\ ElseUnder(s, item) \in Assumptions
         /\ HandedOn(s, item) \in Walks
<1>1. /\ item.kind = "if" /\ item.cond \in Conditions /\ Not(item.cond) \in Conditions
      /\ item.then \in Seq(Below(item)) /\ item.else \in Seq(Below(item))
  BY Negation DEF IsIf
<1>2. item.then \in Seq(Items) /\ item.else \in Seq(Items)
  BY <1>1, InnerItems
<1>3. ThenUnder(s, item) \in Assumptions /\ ElseUnder(s, item) \in Assumptions
  BY <1>1, JoinTyped DEF ThenUnder, ElseUnder
<1> QED
  BY <1>1, <1>2, <1>3, EnqueueTyped DEF HandedOn

LEMMA VisitedTyped ==
  ASSUME NEW visit \in Visitors, NEW item \in Items, NEW s \in Walks
  PROVE  Visited(visit, s, item) \in Walks
<1>1. CASE IsLeaf(item)
  BY <1>1 DEF IsLeaf, Visited, Walks
<1>2. CASE IsIf(item)
  <2>1. /\ instrs(visit, Entered(s, Not(item.cond)), item.else) \in Walks
        /\ instrs(visit, Entered(s, item.cond), item.then) \in Walks
        /\ instrs(visit, Entered(HandedOn(s, item), item.cond), item.then) \in Walks
    BY <1>2, IfTyped, EnteredTyped, WalkTyped
  <2>2. choose(visit, s, item) \in Walks
    BY <1>2, <2>1, IfTyped, UnderTyped, Choices DEF TakesElse, TakesThen, TakesBoth
  <2> QED
    BY <1>2, <2>2 DEF IsIf, Visited
<1>3. CASE IsBody(item)
  <2>1. item.items \in Seq(Items) /\ item.kind = "body"
    BY <1>3, InnerItems DEF IsBody
  <2>2. instrs(visit, s, item.items) \in Walks /\ s.under \in Assumptions
    BY <2>1, WalkTyped DEF Walks
  <2> QED
    BY <2>1, <2>2, UnderTyped DEF Visited
<1> QED
  BY <1>1, <1>2, <1>3, Shapes

\* Visiting an item depends on the visits of what it holds only.
LEMMA VisitedAgrees ==
  ASSUME NEW visit, NEW other \in Visitors, NEW item \in Items, NEW s \in Walks,
         \A inner \in Items : Level[inner] < Level[item] => visit[inner] = other[inner]
  PROVE  Visited(visit, s, item) = Visited(other, s, item)
<1>1. ASSUME NEW items \in Seq(Below(item)), NEW t \in Walks
      PROVE  instrs(visit, t, items) = instrs(other, t, items)
  BY <1>1, InnerItems, WalkAgrees
<1>2. CASE IsLeaf(item)
  BY <1>2 DEF IsLeaf, Visited
<1>3. CASE IsIf(item)
  <2>1. /\ item.cond \in Conditions /\ Not(item.cond) \in Conditions
        /\ item.then \in Seq(Below(item)) /\ item.else \in Seq(Below(item))
    BY <1>3, IfTyped
  <2>2. [s EXCEPT !.enqueued = Append(@, s.under \cup Conjuncts(Not(item.cond)))] \in Walks
    BY <1>3, IfTyped DEF HandedOn, ElseUnder
  <2>3. \A t \in Walks :
          /\ Taken(visit, t, item.cond, item.then) = Taken(other, t, item.cond, item.then)
          /\ Taken(visit, t, Not(item.cond), item.else)
               = Taken(other, t, Not(item.cond), item.else)
    BY <1>1, <2>1, EnteredTyped DEF Taken, Entered
  <2>4. choose(visit, s, item) = choose(other, s, item)
    BY <2>2, <2>3 DEF choose
  <2> QED
    BY <1>3, <2>4 DEF IsIf, Visited
<1>4. CASE IsBody(item)
  BY <1>1, <1>4 DEF IsBody, Visited
<1> QED
  BY <1>2, <1>3, <1>4, Shapes

\* The specializer's equation.
LEMMA InstrMeetsEquation ==
  /\ instr \in Visitors
  /\ \A item \in Items : \A s \in Walks : instr[item][s] = Visited(instr, s, item)
<1> DEFINE V == [Walks -> Walks]
           Round(f) == [item \in Items |-> [s \in Walks |-> Visited(f, s, item)]]
           R == [f \in [Items -> V] |-> Round(f)]
<1>1. \A f \in [Items -> V] : Round(f) \in [Items -> V]
  BY VisitedTyped DEF Visitors
<1>2. R \in [[Items -> V] -> [Items -> V]]
  BY <1>1
<1>3. ASSUME NEW g \in [Items -> V], NEW h \in [Items -> V], NEW x \in Items,
             \A y \in Items : Level[y] < Level[x] => g[y] = h[y]
      PROVE  R[g][x] = R[h][x]
  <2>1. \A s \in Walks : Visited(g, s, x) = Visited(h, s, x)
    BY <1>3, VisitedAgrees DEF Visitors
  <2>2. [s \in Walks |-> Visited(g, s, x)] = [s \in Walks |-> Visited(h, s, x)]
    BY <2>1
  <2> QED
    BY <2>2
<1>4. [item \in Items |-> [s \in Walks |-> s]] \in [Items -> V]
  OBVIOUS
<1>5. \E f \in [Items -> V] : f = R[f]
  <2> HIDE DEF R, V
  <2>1. Descends(Items, V, Level, R)
    BY <1>2, <1>3, ItemsAssumption DEF Descends
  <2>2. [Items -> V] # {}
    BY <1>4
  <2> QED
    BY <2>1, <2>2, Recursion
<1>6. \E f : f = Round(f)
  BY <1>5
<1>7. instr = Round(instr)
  <2> HIDE DEF Round
  <2>1. instr = CHOOSE f : f = Round(f)
    BY DEF instr, Round
  <2> QED
    BY <1>6, <2>1
<1>8. PICK f \in [Items -> V] : f = Round(f)
  BY <1>5
<1> DEFINE E == {n \in Nat : \A item \in Items : Level[item] < n => instr[item] = f[item]}
<1>9. 0 \in E
  BY ItemsAssumption
<1>10. ASSUME NEW n \in Nat, n \in E PROVE n + 1 \in E
  <2> SUFFICES ASSUME NEW item \in Items, Level[item] < n + 1
               PROVE  instr[item] = f[item]
    OBVIOUS
  <2>1. \A inner \in Items : Level[inner] < Level[item] => instr[inner] = f[inner]
    BY <1>10, ItemsAssumption
  <2>2. \A s \in Walks : Visited(instr, s, item) = Visited(f, s, item)
    BY <2>1, VisitedAgrees DEF Visitors
  <2>3. instr[item] = [s \in Walks |-> Visited(instr, s, item)]
    BY <1>7
  <2>4. f[item] = [s \in Walks |-> Visited(f, s, item)]
    BY <1>8
  <2> QED
    BY <2>2, <2>3, <2>4
<1>11. Nat \subseteq E
  <2> HIDE DEF E
  <2> QED
    BY <1>9, <1>10, Induction
<1>12. \A item \in Items : instr[item] = f[item]
  <2> TAKE item \in Items
  <2>1. Level[item] \in Nat /\ Level[item] + 1 \in E
    BY <1>11, ItemsAssumption
  <2> QED
    BY <2>1
<1>13. instr \in Visitors
  <2>1. instr = [item \in Items |-> instr[item]]
    BY <1>7
  <2> QED
    BY <1>12, <2>1 DEF Visitors
<1> QED
  BY <1>7, <1>13

-----------------------------------------------------------------------------
(* The reference's recursion meets its equation too.                       *)

Meanings == [Items -> [Valuations -> SUBSET Leaves]]

LEMMA MeaningTyped ==
  ASSUME NEW selected \in Meanings, NEW item \in Items, NEW v \in Valuations
  PROVE  Meaning(selected, item, v) \subseteq Leaves
<1>1. ASSUME NEW items \in Seq(Below(item)) PROVE SelectedIn(selected, items, v) \subseteq Leaves
  <2>1. \A i \in DOMAIN items : selected[items[i]][v] \subseteq Leaves
    BY <1>1, InnerItems DEF Meanings
  <2> QED
    BY <2>1 DEF SelectedIn
<1>2. CASE IsLeaf(item)
  BY <1>2 DEF IsLeaf, Meaning
<1>3. CASE IsIf(item)
  BY <1>1, <1>3 DEF IsIf, Meaning
<1>4. CASE IsBody(item)
  BY <1>1, <1>4 DEF IsBody, Meaning
<1> QED
  BY <1>2, <1>3, <1>4, Shapes

LEMMA MeaningAgrees ==
  ASSUME NEW selected, NEW other, NEW item \in Items, NEW v,
         \A inner \in Items : Level[inner] < Level[item] => selected[inner] = other[inner]
  PROVE  Meaning(selected, item, v) = Meaning(other, item, v)
<1>1. ASSUME NEW items \in Seq(Below(item))
      PROVE  SelectedIn(selected, items, v) = SelectedIn(other, items, v)
  <2>1. \A i \in DOMAIN items : selected[items[i]] = other[items[i]]
    BY <1>1, InnerItems
  <2> QED
    BY <2>1 DEF SelectedIn
<1>2. CASE IsLeaf(item)
  BY <1>2 DEF IsLeaf, Meaning
<1>3. CASE IsIf(item)
  BY <1>1, <1>3 DEF IsIf, Meaning
<1>4. CASE IsBody(item)
  BY <1>1, <1>4 DEF IsBody, Meaning
<1> QED
  BY <1>2, <1>3, <1>4, Shapes

LEMMA SelectedMeetsEquation ==
  /\ Selected \in Meanings
  /\ \A item \in Items : \A v \in Valuations : Selected[item][v] = Meaning(Selected, item, v)
<1> DEFINE V == [Valuations -> SUBSET Leaves]
           Round(f) == [item \in Items |-> [v \in Valuations |-> Meaning(f, item, v)]]
           R == [f \in [Items -> V] |-> Round(f)]
<1>1. \A f \in [Items -> V] : Round(f) \in [Items -> V]
  BY MeaningTyped DEF Meanings
<1>2. R \in [[Items -> V] -> [Items -> V]]
  BY <1>1
<1>3. ASSUME NEW g \in [Items -> V], NEW h \in [Items -> V], NEW x \in Items,
             \A y \in Items : Level[y] < Level[x] => g[y] = h[y]
      PROVE  R[g][x] = R[h][x]
  <2>1. \A v \in Valuations : Meaning(g, x, v) = Meaning(h, x, v)
    BY <1>3, MeaningAgrees
  <2>2. [v \in Valuations |-> Meaning(g, x, v)] = [v \in Valuations |-> Meaning(h, x, v)]
    BY <2>1
  <2> QED
    BY <2>2
<1>4. [item \in Items |-> [v \in Valuations |-> {}]] \in [Items -> V]
  OBVIOUS
<1>5. \E f \in [Items -> V] : f = R[f]
  <2> HIDE DEF R, V
  <2>1. Descends(Items, V, Level, R)
    BY <1>2, <1>3, ItemsAssumption DEF Descends
  <2>2. [Items -> V] # {}
    BY <1>4
  <2> QED
    BY <2>1, <2>2, Recursion
<1>6. \E f : f = Round(f)
  BY <1>5
<1>7. Selected = Round(Selected)
  <2> HIDE DEF Round
  <2>1. Selected = CHOOSE f : f = Round(f)
    BY DEF Selected, Round
  <2> QED
    BY <1>6, <2>1
<1>8. PICK f \in [Items -> V] : f = Round(f)
  BY <1>5
<1> DEFINE E == {n \in Nat : \A item \in Items : Level[item] < n => Selected[item] = f[item]}
<1>9. 0 \in E
  BY ItemsAssumption
<1>10. ASSUME NEW n \in Nat, n \in E PROVE n + 1 \in E
  <2> SUFFICES ASSUME NEW item \in Items, Level[item] < n + 1
               PROVE  Selected[item] = f[item]
    OBVIOUS
  <2>1. \A inner \in Items : Level[inner] < Level[item] => Selected[inner] = f[inner]
    BY <1>10, ItemsAssumption
  <2>2. \A v \in Valuations : Meaning(Selected, item, v) = Meaning(f, item, v)
    BY <2>1, MeaningAgrees
  <2>3. Selected[item] = [v \in Valuations |-> Meaning(Selected, item, v)]
    BY <1>7
  <2>4. f[item] = [v \in Valuations |-> Meaning(f, item, v)]
    BY <1>8
  <2> QED
    BY <2>2, <2>3, <2>4
<1>11. Nat \subseteq E
  <2> HIDE DEF E
  <2> QED
    BY <1>9, <1>10, Induction
<1>12. \A item \in Items : Selected[item] = f[item]
  <2> TAKE item \in Items
  <2>1. Level[item] \in Nat /\ Level[item] + 1 \in E
    BY <1>11, ItemsAssumption
  <2> QED
    BY <2>1
<1>13. Selected \in Meanings
  <2>1. Selected = [item \in Items |-> Selected[item]]
    BY <1>7
  <2> QED
    BY <1>12, <2>1 DEF Meanings
<1> QED
  BY <1>7, <1>13

-----------------------------------------------------------------------------
(* What a walk keeps.                                                      *)

\* The assumptions that were handed to the explorer between two states of a walk.
HandedOver(s, t) ==
  {t.enqueued[i] : i \in {j \in DOMAIN t.enqueued : j > Len(s.enqueued)}}

(***************************************************************************)
(* From s to t a walk has passed code that means `meaning`:                 *)
(*   Extends   it has only added to what it has so far;                     *)
(*   Truthful  in every valuation of its full assumption it has selected    *)
(*             the leaves of that valuation;                                *)
(*   Stronger  what it handed over is reachable and stronger than what it   *)
(*             set out under;                                               *)
(*   Gapless   a valuation it set out for is one it still stands for, or    *)
(*             one that it handed over.                                     *)
(***************************************************************************)
Extends(s, t) ==
  /\ s.under \subseteq t.under
  /\ s.full \subseteq t.full
  /\ Len(s.enqueued) <= Len(t.enqueued)
  /\ \A i \in DOMAIN s.enqueued : t.enqueued[i] = s.enqueued[i]

Truthful(s, t, meaning) ==
  \A v \in Models(t.full) : t.leaves = s.leaves \cup meaning[v]

Stronger(s, t) ==
  \A a \in HandedOver(s, t) :
    s.under \subseteq a /\ Satisfiable(a) /\ Models(a) # Models(s.under)

Gapless(s, t) ==
  \A v \in Models(s.under) \cap Models(s.full) :
    \/ v \in Models(t.under) \cap Models(t.full)
    \/ \E a \in HandedOver(s, t) : v \in Models(a)

Follows(s, t, meaning) ==
  /\ t \in Walks
  /\ Extends(s, t)
  /\ Truthful(s, t, meaning)
  /\ Stronger(s, t)
  /\ Gapless(s, t)

LEMMA EnqueuedTyped ==
  ASSUME NEW s \in Walks
  PROVE  /\ s.enqueued \in Seq(Assumptions) /\ Len(s.enqueued) \in Nat
         /\ DOMAIN s.enqueued = 1..Len(s.enqueued)
         /\ s.under \in Assumptions /\ s.full \in Assumptions
BY DEF Walks

LEMMA HandedOverTwice ==
  ASSUME NEW s \in Walks, NEW t \in Walks, NEW u \in Walks, Extends(s, t), Extends(t, u)
  PROVE  HandedOver(s, u) = HandedOver(s, t) \cup HandedOver(t, u)
<1>1. /\ DOMAIN s.enqueued = 1..Len(s.enqueued) /\ Len(s.enqueued) \in Nat
      /\ DOMAIN t.enqueued = 1..Len(t.enqueued) /\ Len(t.enqueued) \in Nat
      /\ DOMAIN u.enqueued = 1..Len(u.enqueued) /\ Len(u.enqueued) \in Nat
      /\ Len(s.enqueued) <= Len(t.enqueued) /\ Len(t.enqueued) <= Len(u.enqueued)
      /\ \A i \in DOMAIN t.enqueued : u.enqueued[i] = t.enqueued[i]
  BY EnqueuedTyped DEF Extends
<1>2. HandedOver(s, u) \subseteq HandedOver(s, t) \cup HandedOver(t, u)
  BY <1>1 DEF HandedOver
<1>3. HandedOver(s, t) \subseteq HandedOver(s, u)
  BY <1>1 DEF HandedOver
<1>4. HandedOver(t, u) \subseteq HandedOver(s, u)
  BY <1>1 DEF HandedOver
<1> QED
  BY <1>2, <1>3, <1>4

\* One walk after another.
LEMMA FollowsTwice ==
  ASSUME NEW s \in Walks, NEW t, NEW u, NEW first, NEW second, NEW both,
         Follows(s, t, first), Follows(t, u, second),
         \A v \in Valuations : both[v] = first[v] \cup second[v]
  PROVE  Follows(s, u, both)
<1>1. t \in Walks /\ u \in Walks /\ Extends(s, t) /\ Extends(t, u)
  BY DEF Follows
<1>2. HandedOver(s, u) = HandedOver(s, t) \cup HandedOver(t, u)
  BY <1>1, HandedOverTwice
<1>3. Extends(s, u)
  BY <1>1, EnqueuedTyped DEF Extends
<1>4. Models(u.full) \subseteq Models(t.full) /\ Models(t.under) \subseteq Models(s.under)
  BY <1>1, ModelsOfMore DEF Extends
<1>5. Truthful(s, u, both)
  <2> SUFFICES ASSUME NEW v \in Models(u.full) PROVE u.leaves = s.leaves \cup both[v]
    BY DEF Truthful
  <2>1. v \in Valuations /\ v \in Models(t.full)
    BY <1>4 DEF Models
  <2>2. t.leaves = s.leaves \cup first[v] /\ u.leaves = t.leaves \cup second[v]
    BY <2>1 DEF Follows, Truthful
  <2> QED
    BY <2>1, <2>2
<1>6. Stronger(s, u)
  <2> SUFFICES ASSUME NEW a \in HandedOver(s, u)
               PROVE  s.under \subseteq a /\ Satisfiable(a) /\ Models(a) # Models(s.under)
    BY DEF Stronger
  <2>1. CASE a \in HandedOver(s, t)
    BY <2>1 DEF Follows, Stronger
  <2>2. CASE a \in HandedOver(t, u)
    <3>1. t.under \subseteq a /\ Satisfiable(a) /\ Models(a) # Models(t.under)
      BY <2>2 DEF Follows, Stronger
    <3>2. Models(a) \subseteq Models(t.under)
      BY <3>1, ModelsOfMore
    <3>3. s.under \subseteq a
      BY <1>1, <3>1 DEF Extends
    <3> QED
      BY <1>4, <3>1, <3>2, <3>3
  <2> QED
    BY <1>2, <2>1, <2>2
<1>7. Gapless(s, u)
  BY <1>2 DEF Follows, Gapless
<1> QED
  BY <1>1, <1>3, <1>5, <1>6, <1>7 DEF Follows

LEMMA FollowsNothing ==
  ASSUME NEW s \in Walks, NEW meaning, \A v \in Valuations : meaning[v] = {}
  PROVE  Follows(s, s, meaning)
<1>1. HandedOver(s, s) = {}
  BY EnqueuedTyped DEF HandedOver
<1>2. \A v \in Models(s.full) : meaning[v] = {}
  BY DEF Models
<1> QED
  BY <1>1, <1>2, EnqueuedTyped DEF Follows, Extends, Truthful, Stronger, Gapless

\* A walk over a list, if each of its items is walked that way.
LEMMA FollowsList ==
  ASSUME NEW items \in Seq(Items), NEW s \in Walks,
         \A i \in 1..Len(items) : \A t \in Walks :
           Follows(t, instr[items[i]][t], Selected[items[i]])
  PROVE  Follows(s, instrs(instr, s, items),
                 [v \in Valuations |-> SelectedIn(Selected, items, v)])
<1> DEFINE Sofar(k) == [v \in Valuations |-> UNION {Selected[items[i]][v] : i \in 1..k}]
<1>1. Len(items) \in Nat /\ DOMAIN items = 1..Len(items)
  OBVIOUS
<1>2. \A i \in 1..Len(items) : instr[items[i]] \in [Walks -> Walks]
  BY InstrMeetsEquation DEF Visitors
<1>3. PICK w : Along(instr, s, items, w) /\ instrs(instr, s, items) = w[Len(items)]
  BY <1>2, WalkExists
<1> DEFINE E == {n \in Nat : n <= Len(items) => Follows(s, w[n], Sofar(n))}
<1>4. 0 \in E
  <2>1. \A v \in Valuations : Sofar(0)[v] = {}
    OBVIOUS
  <2>2. w[0] = s
    BY <1>3 DEF Along
  <2>3. Follows(s, w[0], Sofar(0))
    <3> HIDE DEF Sofar
    <3> QED
      BY <2>1, <2>2, FollowsNothing
  <2> QED
    BY <2>3
<1>5. ASSUME NEW n \in Nat, n \in E PROVE n + 1 \in E
  <2> SUFFICES ASSUME n + 1 <= Len(items) PROVE Follows(s, w[n + 1], Sofar(n + 1))
    OBVIOUS
  <2>1. Follows(s, w[n], Sofar(n)) /\ n + 1 \in 1..Len(items)
    BY <1>1, <1>5
  <2>2. w[n] \in Walks /\ w[n + 1] = instr[items[n + 1]][w[n]]
    BY <1>1, <1>3, <2>1 DEF Along
  <2>3. Follows(w[n], w[n + 1], Selected[items[n + 1]])
    BY <2>1, <2>2
  <2>4. \A v \in Valuations : Sofar(n + 1)[v] = Sofar(n)[v] \cup Selected[items[n + 1]][v]
    <3> SUFFICES ASSUME NEW v \in Valuations
                 PROVE  UNION {Selected[items[i]][v] : i \in 1..(n + 1)}
                          = (UNION {Selected[items[i]][v] : i \in 1..n})
                              \cup Selected[items[n + 1]][v]
      OBVIOUS
    <3>1. 1..(n + 1) = 1..n \cup {n + 1}
      BY <1>1
    <3> QED
      BY <3>1
  <2> HIDE DEF Sofar
  <2> QED
    BY <2>1, <2>3, <2>4, FollowsTwice
<1>6. Nat \subseteq E
  <2> HIDE DEF E
  <2> QED
    BY <1>4, <1>5, Induction
<1>7. Follows(s, w[Len(items)], Sofar(Len(items)))
  BY <1>1, <1>6
<1>8. Sofar(Len(items)) = [v \in Valuations |-> SelectedIn(Selected, items, v)]
  BY <1>1 DEF SelectedIn
<1> QED
  <2> HIDE DEF Sofar
  <2> QED
    BY <1>3, <1>7, <1>8

\* A branch was walked up to t, `back` is what is returned, and the whole item means
\* what the branch does where the branch is taken.
Branch(s, c, t, meaning, whole, back) ==
  /\ \A v \in Models(Conjuncts(c)) : whole[v] = meaning[v]
  /\ Follows(Entered(s, c), t, meaning)
  /\ back = [t EXCEPT !.under = s.under \cup Conjuncts(c)]

\* What a branch keeps, on the way back to the assumption that holds after it.
LEMMA FollowsBranch ==
  ASSUME NEW s \in Walks, NEW c \in Conditions, NEW t, NEW meaning, NEW whole, NEW back,
         Branch(s, c, t, meaning, whole, back)
  PROVE  /\ back \in Walks /\ Extends(s, back) /\ Truthful(s, back, whole)
         /\ HandedOver(s, back) = HandedOver(Entered(s, c), t)
         /\ \A a \in HandedOver(s, back) : s.under \subseteq a /\ Satisfiable(a)
                                            /\ Models(a) # Models(s.under)
         /\ \A v \in Models(s.under) \cap Models(s.full) : v \in Models(Conjuncts(c)) =>
              \/ v \in Models(back.under) \cap Models(back.full)
              \/ \E a \in HandedOver(s, back) : v \in Models(a)
<1> DEFINE e == Entered(s, c)
<1>1. /\ e \in Walks /\ e.under = s.under \cup Conjuncts(c)
      /\ e.full = s.full \cup Conjuncts(c) /\ e.enqueued = s.enqueued /\ e.leaves = s.leaves
  BY EnteredTyped
<1>2. t \in Walks /\ Extends(e, t) /\ Truthful(e, t, meaning) /\ Stronger(e, t) /\ Gapless(e, t)
  BY DEF Branch, Follows
<1>3. /\ back \in Walks /\ back.under = s.under \cup Conjuncts(c) /\ back.full = t.full
      /\ back.enqueued = t.enqueued /\ back.leaves = t.leaves
  BY <1>2, JoinTyped, UnderTyped DEF Branch
<1> HIDE DEF e
<1>4. Extends(s, back)
  BY <1>1, <1>2, <1>3 DEF Extends
<1>5. Truthful(s, back, whole)
  <2> SUFFICES ASSUME NEW v \in Models(back.full) PROVE back.leaves = s.leaves \cup whole[v]
    BY DEF Truthful
  <2>1. Conjuncts(c) \subseteq back.full
    BY <1>1, <1>2, <1>3 DEF Extends
  <2>2. v \in Models(Conjuncts(c))
    BY <2>1, ModelsOfMore
  <2>3. t.leaves = e.leaves \cup meaning[v]
    BY <1>2, <1>3 DEF Truthful
  <2> QED
    BY <1>1, <1>3, <2>2, <2>3 DEF Branch
<1>6. HandedOver(s, back) = HandedOver(e, t)
  BY <1>1, <1>3 DEF HandedOver
<1>7. ASSUME NEW a \in HandedOver(s, back)
      PROVE  s.under \subseteq a /\ Satisfiable(a) /\ Models(a) # Models(s.under)
  <2>1. e.under \subseteq a /\ Satisfiable(a) /\ Models(a) # Models(e.under)
    BY <1>2, <1>6, <1>7 DEF Stronger
  <2>2. Models(a) \subseteq Models(e.under) /\ Models(e.under) \subseteq Models(s.under)
    BY <1>1, <2>1, ModelsOfMore
  <2> QED
    BY <1>1, <2>1, <2>2
<1>8. ASSUME NEW v \in Models(s.under) \cap Models(s.full), v \in Models(Conjuncts(c))
      PROVE  \/ v \in Models(back.under) \cap Models(back.full)
             \/ \E a \in HandedOver(s, back) : v \in Models(a)
  <2>1. v \in Models(e.under) \cap Models(e.full)
    BY <1>1, <1>8, ModelsOfUnion
  <2>2. \/ v \in Models(t.under) \cap Models(t.full)
        \/ \E a \in HandedOver(e, t) : v \in Models(a)
    BY <1>2, <2>1 DEF Gapless
  <2>3. v \in Models(back.under)
    BY <1>1, <1>3, <2>1
  <2> QED
    BY <1>3, <1>6, <2>2, <2>3
<1> QED
  BY <1>3, <1>4, <1>5, <1>6, <1>7, <1>8 DEF e

\* Handing over the other branch: it is reachable, stronger, and closes the gap.
LEMMA HandingOn ==
  ASSUME NEW s \in Walks, NEW item \in Items, IsIf(item),
         Satisfiable(ThenUnder(s, item)), Satisfiable(ElseUnder(s, item))
  PROVE  LET t == HandedOn(s, item) IN
            /\ t \in Walks /\ Extends(s, t)
            /\ t.under = s.under /\ t.full = s.full /\ t.leaves = s.leaves
            /\ HandedOver(s, t) = {ElseUnder(s, item)}
            /\ s.under \subseteq ElseUnder(s, item)
            /\ Models(ElseUnder(s, item)) # Models(s.under)
<1> DEFINE t == HandedOn(s, item)
<1>1. /\ item.cond \in Conditions /\ ElseUnder(s, item) \in Assumptions
  BY IfTyped
<1>2. /\ t \in Walks /\ t.enqueued = Append(s.enqueued, ElseUnder(s, item))
      /\ t.under = s.under /\ t.full = s.full /\ t.leaves = s.leaves
  BY <1>1, EnqueueTyped DEF HandedOn
<1>3. s.enqueued \in Seq(Assumptions) /\ Len(s.enqueued) \in Nat
  BY EnqueuedTyped
<1> HIDE DEF t
<1>4. /\ Len(t.enqueued) = Len(s.enqueued) + 1
      /\ DOMAIN s.enqueued = 1..Len(s.enqueued) /\ DOMAIN t.enqueued = 1..(Len(s.enqueued) + 1)
      /\ t.enqueued[Len(s.enqueued) + 1] = ElseUnder(s, item)
      /\ \A i \in 1..Len(s.enqueued) : t.enqueued[i] = s.enqueued[i]
  BY <1>1, <1>2, <1>3
<1>5. HandedOver(s, t) = {ElseUnder(s, item)}
  <2>1. {j \in DOMAIN t.enqueued : j > Len(s.enqueued)} = {Len(s.enqueued) + 1}
    BY <1>3, <1>4
  <2> QED
    BY <1>4, <2>1 DEF HandedOver
<1>6. Extends(s, t)
  BY <1>2, <1>3, <1>4 DEF Extends
<1>7. s.under \subseteq ElseUnder(s, item)
  BY DEF ElseUnder
<1>8. Models(ElseUnder(s, item)) # Models(s.under)
  <2>1. PICK v : v \in Models(ThenUnder(s, item))
    BY DEF Satisfiable
  <2>2. v \in Models(s.under) /\ v \in Models(Conjuncts(item.cond)) /\ v \in Valuations
    BY <2>1, ModelsOfUnion DEF ThenUnder, Models
  <2>3. v \notin Models(Conjuncts(Not(item.cond)))
    BY <1>1, <2>2, Negation
  <2> QED
    BY <2>2, <2>3, ModelsOfUnion DEF ElseUnder
<1> QED
  BY <1>2, <1>5, <1>6, <1>7, <1>8 DEF t

LEMMA FollowsIf ==
  ASSUME NEW item \in Items, IsIf(item), NEW s \in Walks,
         \A inner \in Items : Level[inner] < Level[item] =>
           \A t \in Walks : Follows(t, instr[inner][t], Selected[inner])
  PROVE  Follows(s, choose(instr, s, item), Selected[item])
<1> DEFINE c == item.cond
           Then == [v \in Valuations |-> SelectedIn(Selected, item.then, v)]
           Else == [v \in Valuations |-> SelectedIn(Selected, item.else, v)]
           t == choose(instr, s, item)
<1>1. /\ item.kind = "if" /\ c \in Conditions /\ Not(c) \in Conditions
      /\ item.then \in Seq(Items) /\ item.else \in Seq(Items)
      /\ HandedOn(s, item) \in Walks
  BY IfTyped
<1>2. ASSUME NEW items \in Seq(Below(item)), NEW u \in Walks
      PROVE  Follows(u, instrs(instr, u, items),
                     [v \in Valuations |-> SelectedIn(Selected, items, v)])
  BY <1>2, InnerItems, FollowsList
<1>3. \A u \in Walks : /\ Follows(u, instrs(instr, u, item.then), Then)
                       /\ Follows(u, instrs(instr, u, item.else), Else)
  BY <1>2, IfTyped
<1>4. \A v \in Models(Conjuncts(c)) : v \in Valuations /\ Selected[item][v] = Then[v]
  BY <1>1, SelectedMeetsEquation DEF Models, Meaning
<1>5. \A v \in Models(Conjuncts(Not(c))) : v \in Valuations /\ Selected[item][v] = Else[v]
  <2> TAKE v \in Models(Conjuncts(Not(c)))
  <2>1. v \in Valuations
    BY DEF Models
  <2>2. v \notin Models(Conjuncts(c))
    BY <1>1, <2>1, Negation
  <2> QED
    BY <1>1, <2>1, <2>2, SelectedMeetsEquation DEF Meaning
<1>6. CASE TakesElse(instr, s, item, t)
  <2> DEFINE r == instrs(instr, Entered(s, Not(c)), item.else)
  <2>1. Entered(s, Not(c)) \in Walks /\ Follows(Entered(s, Not(c)), r, Else)
    BY <1>1, <1>3, EnteredTyped
  <2>2. t = [r EXCEPT !.under = s.under \cup Conjuncts(Not(c))]
    BY <1>6 DEF TakesElse, ElseUnder
  <2> HIDE DEF r, t, c, Then, Else
  <2>0. Branch(s, Not(c), r, Else, Selected[item], t)
    BY <1>5, <2>1, <2>2 DEF Branch
  <2>3. /\ t \in Walks /\ Extends(s, t) /\ Truthful(s, t, Selected[item]) /\ Stronger(s, t)
        /\ \A v \in Models(s.under) \cap Models(s.full) : v \in Models(Conjuncts(Not(c))) =>
             \/ v \in Models(t.under) \cap Models(t.full)
             \/ \E a \in HandedOver(s, t) : v \in Models(a)
    BY <1>1, <2>0, FollowsBranch DEF Stronger
  <2>4. ASSUME NEW v \in Models(s.under) PROVE v \in Models(Conjuncts(Not(c)))
    <3>1. v \notin Models(ThenUnder(s, item)) /\ v \in Valuations
      BY <1>6 DEF TakesElse, Satisfiable, Models
    <3>2. v \notin Models(Conjuncts(c))
      BY <3>1, ModelsOfUnion DEF ThenUnder, c
    <3> QED
      BY <1>1, <3>1, <3>2, Negation
  <2> QED
    BY <2>3, <2>4 DEF Follows, Gapless, t
<1>7. CASE TakesThen(instr, s, item, t)
  <2> DEFINE r == instrs(instr, Entered(s, c), item.then)
  <2>1. Entered(s, c) \in Walks /\ Follows(Entered(s, c), r, Then)
    BY <1>1, <1>3, EnteredTyped
  <2>2. t = [r EXCEPT !.under = s.under \cup Conjuncts(c)]
    BY <1>7 DEF TakesThen, ThenUnder
  <2> HIDE DEF r, t, c, Then, Else
  <2>0. Branch(s, c, r, Then, Selected[item], t)
    BY <1>4, <2>1, <2>2 DEF Branch
  <2>3. /\ t \in Walks /\ Extends(s, t) /\ Truthful(s, t, Selected[item]) /\ Stronger(s, t)
        /\ \A v \in Models(s.under) \cap Models(s.full) : v \in Models(Conjuncts(c)) =>
             \/ v \in Models(t.under) \cap Models(t.full)
             \/ \E a \in HandedOver(s, t) : v \in Models(a)
    BY <1>1, <2>0, FollowsBranch DEF Stronger
  <2>4. ASSUME NEW v \in Models(s.under) PROVE v \in Models(Conjuncts(c))
    <3>1. v \notin Models(ElseUnder(s, item)) /\ v \in Valuations
      BY <1>7 DEF TakesThen, Satisfiable, Models
    <3>2. v \notin Models(Conjuncts(Not(c)))
      BY <3>1, ModelsOfUnion DEF ElseUnder, c
    <3> QED
      BY <1>1, <3>1, <3>2, Negation
  <2> QED
    BY <2>3, <2>4 DEF Follows, Gapless, t
<1>8. CASE TakesBoth(instr, s, item, t)
  <2> DEFINE h == HandedOn(s, item)
             r == instrs(instr, Entered(h, c), item.then)
  <2>1. Entered(h, c) \in Walks /\ Follows(Entered(h, c), r, Then)
    BY <1>1, <1>3, EnteredTyped
  <2>2. /\ h \in Walks /\ Extends(s, h) /\ h.under = s.under /\ h.full = s.full
        /\ h.leaves = s.leaves /\ HandedOver(s, h) = {ElseUnder(s, item)}
        /\ s.under \subseteq ElseUnder(s, item)
        /\ Models(ElseUnder(s, item)) # Models(s.under)
        /\ Satisfiable(ElseUnder(s, item))
    BY <1>8, HandingOn DEF TakesBoth
  <2>3. t = [r EXCEPT !.under = h.under \cup Conjuncts(c)]
    BY <1>8, <2>2 DEF TakesBoth, ThenUnder
  <2> HIDE DEF r, h, t, c, Then, Else
  <2>0. Branch(h, c, r, Then, Selected[item], t)
    BY <1>4, <2>1, <2>3 DEF Branch
  <2>4. /\ t \in Walks /\ Extends(h, t) /\ Truthful(h, t, Selected[item])
        /\ \A a \in HandedOver(h, t) : h.under \subseteq a /\ Satisfiable(a)
                                        /\ Models(a) # Models(h.under)
        /\ \A v \in Models(h.under) \cap Models(h.full) : v \in Models(Conjuncts(c)) =>
             \/ v \in Models(t.under) \cap Models(t.full)
             \/ \E a \in HandedOver(h, t) : v \in Models(a)
    BY <1>1, <2>0, <2>2, FollowsBranch
  <2>5. HandedOver(s, t) = HandedOver(h, t) \cup {ElseUnder(s, item)}
    BY <2>2, <2>4, HandedOverTwice
  <2>6. Extends(s, t)
    BY <2>2, <2>4, EnqueuedTyped DEF Extends
  <2>7. Truthful(s, t, Selected[item])
    BY <2>2, <2>4 DEF Truthful
  <2>8. Stronger(s, t)
    BY <2>2, <2>4, <2>5 DEF Stronger
  <2>9. Gapless(s, t)
    <3> SUFFICES ASSUME NEW v \in Models(s.under) \cap Models(s.full)
                 PROVE  \/ v \in Models(t.under) \cap Models(t.full)
                        \/ \E a \in HandedOver(s, t) : v \in Models(a)
      BY DEF Gapless
    <3>1. v \in Valuations
      BY DEF Models
    <3>2. CASE v \in Models(Conjuncts(c))
      BY <2>2, <2>4, <2>5, <3>2
    <3>3. CASE v \notin Models(Conjuncts(c))
      <4>1. v \in Models(Conjuncts(Not(c)))
        BY <1>1, <3>1, <3>3, Negation
      <4>2. v \in Models(ElseUnder(s, item))
        BY <4>1, ModelsOfUnion DEF ElseUnder, c
      <4> QED
        BY <2>5, <4>2
    <3> QED
      BY <3>2, <3>3
  <2> QED
    BY <2>4, <2>6, <2>7, <2>8, <2>9 DEF Follows, t
<1> QED
  BY <1>6, <1>7, <1>8, Choices

LEMMA FollowsBody ==
  ASSUME NEW item \in Items, IsBody(item), NEW s \in Walks,
         \A inner \in Items : Level[inner] < Level[item] =>
           \A t \in Walks : Follows(t, instr[inner][t], Selected[inner])
  PROVE  Follows(s, [instrs(instr, s, item.items) EXCEPT !.under = s.under], Selected[item])
<1> DEFINE r == instrs(instr, s, item.items)
           t == [r EXCEPT !.under = s.under]
           Body == [v \in Valuations |-> SelectedIn(Selected, item.items, v)]
<1>1. item.kind = "body" /\ item.items \in Seq(Below(item)) /\ item.items \in Seq(Items)
  BY InnerItems DEF IsBody
<1>2. Follows(s, r, Body)
  BY <1>1, InnerItems, FollowsList
<1>3. \A v \in Valuations : Selected[item][v] = Body[v]
  BY <1>1, SelectedMeetsEquation DEF Meaning
<1>4. r \in Walks /\ Extends(s, r) /\ Truthful(s, r, Body) /\ Stronger(s, r) /\ Gapless(s, r)
  BY <1>2 DEF Follows
<1>5. /\ t \in Walks /\ t.under = s.under /\ t.full = r.full /\ t.enqueued = r.enqueued
      /\ t.leaves = r.leaves
  BY <1>4, EnqueuedTyped, UnderTyped
<1> HIDE DEF r, t, Body
<1>6. HandedOver(s, t) = HandedOver(s, r)
  BY <1>5 DEF HandedOver
<1>7. Extends(s, t)
  BY <1>4, <1>5 DEF Extends
<1>8. Truthful(s, t, Selected[item])
  BY <1>3, <1>4, <1>5 DEF Truthful, Models
<1>9. Stronger(s, t)
  BY <1>4, <1>6 DEF Stronger
<1>10. Gapless(s, t)
  BY <1>4, <1>5, <1>6 DEF Gapless
<1> QED
  BY <1>5, <1>7, <1>8, <1>9, <1>10 DEF Follows, t, r

LEMMA FollowsLeaf ==
  ASSUME NEW item \in Items, IsLeaf(item), NEW s \in Walks
  PROVE  Follows(s, [s EXCEPT !.leaves = @ \cup {item.name}], Selected[item])
<1> DEFINE t == [s EXCEPT !.leaves = @ \cup {item.name}]
<1>1. item.kind = "leaf" /\ item.name \in Leaves
  BY DEF IsLeaf
<1>2. /\ t \in Walks /\ t.under = s.under /\ t.full = s.full /\ t.enqueued = s.enqueued
      /\ t.leaves = s.leaves \cup {item.name}
  BY <1>1 DEF Walks
<1>3. \A v \in Valuations : Selected[item][v] = {item.name}
  BY <1>1, SelectedMeetsEquation DEF Meaning
<1> HIDE DEF t
<1>4. HandedOver(s, t) = {}
  BY <1>2, EnqueuedTyped DEF HandedOver
<1>5. Truthful(s, t, Selected[item])
  BY <1>2, <1>3 DEF Truthful, Models
<1>6. Extends(s, t) /\ Stronger(s, t) /\ Gapless(s, t)
  BY <1>2, <1>4, EnqueuedTyped DEF Extends, Stronger, Gapless
<1> QED
  BY <1>2, <1>5, <1>6 DEF Follows, t

LEMMA FollowsItem ==
  \A item \in Items : \A s \in Walks : Follows(s, instr[item][s], Selected[item])
<1> DEFINE E == {n \in Nat : \A item \in Items : Level[item] < n =>
                   \A s \in Walks : Follows(s, instr[item][s], Selected[item])}
<1>1. 0 \in E
  BY ItemsAssumption
<1>2. ASSUME NEW n \in Nat, n \in E PROVE n + 1 \in E
  <2> SUFFICES ASSUME NEW item \in Items, Level[item] < n + 1, NEW s \in Walks
               PROVE  Follows(s, instr[item][s], Selected[item])
    OBVIOUS
  <2>1. \A inner \in Items : Level[inner] < Level[item] =>
          \A t \in Walks : Follows(t, instr[inner][t], Selected[inner])
    BY <1>2, ItemsAssumption
  <2>2. instr[item][s] = Visited(instr, s, item)
    BY InstrMeetsEquation
  <2>3. CASE IsLeaf(item)
    <3>1. Visited(instr, s, item) = [s EXCEPT !.leaves = @ \cup {item.name}]
      BY <2>3 DEF IsLeaf, Visited
    <3> QED
      BY <2>2, <2>3, <3>1, FollowsLeaf
  <2>4. CASE IsIf(item)
    <3>1. Visited(instr, s, item) = choose(instr, s, item)
      BY <2>4 DEF IsIf, Visited
    <3> QED
      BY <2>1, <2>2, <2>4, <3>1, FollowsIf
  <2>5. CASE IsBody(item)
    <3>1. Visited(instr, s, item) = [instrs(instr, s, item.items) EXCEPT !.under = s.under]
      BY <2>5 DEF IsBody, Visited
    <3> QED
      BY <2>1, <2>2, <2>5, <3>1, FollowsBody
  <2> QED
    BY <2>3, <2>4, <2>5, Shapes
<1>3. Nat \subseteq E
  <2> HIDE DEF E
  <2> QED
    BY <1>1, <1>2, Induction
<1> SUFFICES ASSUME NEW item \in Items
             PROVE  \A s \in Walks : Follows(s, instr[item][s], Selected[item])
  OBVIOUS
<1>4. Level[item] \in Nat /\ Level[item] + 1 \in E
  BY <1>3, ItemsAssumption
<1> QED
  BY <1>4

(***************************************************************************)
(* One configuration of a module.                                          *)
(***************************************************************************)
LEMMA Specialized ==
  ASSUME NEW a \in Assumptions, NEW module \in Programs, NEW s, s = specialize(a, module)
  PROVE  /\ s.full \in Assumptions /\ s.leaves \subseteq Leaves
         /\ s.enqueued \in Seq(Assumptions)
         /\ \A v \in Models(s.full) : s.leaves = SelectedIn(Selected, module, v)
         /\ \A i \in DOMAIN s.enqueued :
              /\ a \subseteq s.enqueued[i] /\ Satisfiable(s.enqueued[i])
              /\ Models(s.enqueued[i]) # Models(a)
         /\ \A v \in Models(a) :
              \/ v \in Models(s.full)
              \/ \E i \in DOMAIN s.enqueued : v \in Models(s.enqueued[i])
<1> DEFINE o == Walked(a)
           meaning == [v \in Valuations |-> SelectedIn(Selected, module, v)]
<1>1. /\ o \in Walks /\ o.under = a /\ o.full = {} /\ o.enqueued = << >> /\ o.leaves = {}
  BY DEF Walked, Walks, Assumptions
<1>2. module \in Seq(Items)
  BY ItemsAssumption
<1>3. Follows(o, s, meaning)
  <2>1. \A i \in 1..Len(module) : module[i] \in Items
    BY <1>2
  <2>2. \A i \in 1..Len(module) : \A t \in Walks :
          Follows(t, instr[module[i]][t], Selected[module[i]])
    BY <2>1, FollowsItem
  <2>3. s = instrs(instr, o, module)
    BY DEF specialize
  <2> HIDE DEF o
  <2> QED
    BY <1>1, <1>2, <2>2, <2>3, FollowsList
<1> HIDE DEF o
<1>4. /\ s \in Walks /\ Truthful(o, s, meaning) /\ Stronger(o, s) /\ Gapless(o, s)
  BY <1>3 DEF Follows
<1>5. s.enqueued \in Seq(Assumptions) /\ DOMAIN s.enqueued = 1..Len(s.enqueued)
  BY <1>4, EnqueuedTyped
<1>6. HandedOver(o, s) = {s.enqueued[i] : i \in DOMAIN s.enqueued}
  BY <1>1, <1>5 DEF HandedOver
<1>7. \A v \in Models(s.full) : s.leaves = SelectedIn(Selected, module, v)
  BY <1>1, <1>4 DEF Truthful, Models
<1>8. \A i \in DOMAIN s.enqueued :
        /\ a \subseteq s.enqueued[i] /\ Satisfiable(s.enqueued[i])
        /\ Models(s.enqueued[i]) # Models(a)
  BY <1>1, <1>4, <1>6 DEF Stronger
<1>9. ASSUME NEW v \in Models(a)
      PROVE  \/ v \in Models(s.full)
             \/ \E i \in DOMAIN s.enqueued : v \in Models(s.enqueued[i])
  <2>1. v \in Models(o.under) \cap Models(o.full)
    BY <1>1 DEF Models
  <2> QED
    BY <1>4, <1>6, <2>1 DEF Gapless
<1> QED
  BY <1>4, <1>5, <1>7, <1>8, <1>9 DEF Walks

-----------------------------------------------------------------------------
(* The explorer.                                                           *)

\* The diagnostics of the module of one valuation.
CheckOf(v) == check(SelectedIn(Selected, program, v))

\* What was found is a diagnostic of the valuations it is said to be reachable in,
\* and in a valuation that was covered every diagnostic was found.
ErrorsInStep ==
  \A d \in Diagnostics : /\ errors[d] \subseteq Occurs(d)
                         /\ feasible \cap Occurs(d) \subseteq errors[d]

\* Every assumption that was taken was checked, or cannot hold, or was one too many.
TakenIsChecked ==
  truncated \/ \A i \in 1..head : queue[i] \in processed \/ ~Satisfiable(queue[i])

(***************************************************************************)
(* A configuration that was checked covers the valuations of its            *)
(* assumption, but for those of a stronger assumption in the queue.         *)
(***************************************************************************)
CheckedIsCovered ==
  \A p \in processed : \A v \in Models(p) :
    \/ v \in feasible
    \/ \E i \in DOMAIN queue : /\ v \in Models(queue[i])
                               /\ Models(queue[i]) \subseteq Models(p)
                               /\ Models(queue[i]) # Models(p)

ExploreInv ==
  /\ TypeOK
  /\ processed \subseteq Assumptions /\ IsFiniteSet(processed)
  /\ queue # << >> /\ queue[1] = {}
  /\ ErrorsInStep
  /\ TakenIsChecked
  /\ CheckedIsCovered
  /\ phase = "done" => /\ truncated \/ head = Len(queue)
                       /\ reported = {d \in Diagnostics : Reportable(d)}

LEMMA ExploreInitially == Init => ExploreInv
<1> SUFFICES ASSUME Init PROVE ExploreInv
  OBVIOUS
<1>1. {} \in Assumptions /\ << {} >> \in Seq(Assumptions) /\ Len(<< {} >>) = 1
  BY DEF Assumptions
<1>2. IsFiniteSet({}) /\ Cardinality({}) = 0
  BY FS_EmptySet
<1>3. TypeOK
  <2>1. max_configurations \in Nat \ {0}
    BY CapsAssumption DEF Init
  <2>2. count \in 0..max_configurations /\ Cardinality(processed) = count
    BY <1>2, <2>1 DEF Init
  <2>3. queue \in Seq(Assumptions) /\ head \in 0..Len(queue)
    BY <1>1 DEF Init
  <2> QED
    BY <2>2, <2>3 DEF Init, TypeOK
<1>4. ErrorsInStep
  BY DEF Init, ErrorsInStep
<1> QED
  BY <1>1, <1>2, <1>3, <1>4 DEF Init, ExploreInv, TakenIsChecked, CheckedIsCovered

\* A step that leaves the module and what was found alone keeps what is known of them.
LEMMA ErrorsKept ==
  ASSUME ErrorsInStep, UNCHANGED <<program, feasible, errors>>
  PROVE  ErrorsInStep'
BY DEF ErrorsInStep, Occurs

LEMMA NextAssumption ==
  ASSUME ExploreInv, head < Len(queue)
  PROVE  /\ Next1 \in Assumptions /\ head + 1 \in DOMAIN queue /\ head \in Nat
         /\ Len(queue) \in Nat /\ DOMAIN queue = 1..Len(queue)
         /\ 1..(head + 1) = 1..head \cup {head + 1}
BY DEF ExploreInv, TypeOK, Next1

(***************************************************************************)
(* One configuration more: what it found, what it covers, what it queues.   *)
(***************************************************************************)
LEMMA CheckKeeps == ExploreInv /\ checkConfiguration => ExploreInv'
<1> SUFFICES ASSUME ExploreInv, checkConfiguration PROVE ExploreInv'
  OBVIOUS
<1> DEFINE s == specialize(Next1, program)
           full == Models(s.full)
           found == IF full = {} THEN {} ELSE check(s.leaves)
<1>1. /\ phase = "explore" /\ ~truncated /\ head < Len(queue) /\ head' = head + 1
      /\ Next1 \notin processed /\ count < max_configurations
      /\ processed' = processed \cup {Next1} /\ count' = count + 1
      /\ queue' = queue \o s.enqueued
      /\ feasible' = feasible \cup full
      /\ errors' = [d \in Diagnostics |->
                      IF d \in found THEN errors[d] \cup full ELSE errors[d]]
      /\ UNCHANGED <<program, max_configurations, truncated, phase, reported>>
  BY DEF checkConfiguration, Takes, Known
<1>2. /\ program \in Programs /\ max_configurations \in Caps /\ queue \in Seq(Assumptions)
      /\ head \in 0..Len(queue) /\ count \in 0..max_configurations
      /\ Cardinality(processed) = count /\ feasible \subseteq Valuations
      /\ errors \in [Diagnostics -> SUBSET Valuations] /\ reported \subseteq Diagnostics
      /\ max_configurations \in Nat
  BY CapsAssumption DEF ExploreInv, TypeOK
<1>3. Next1 \in Assumptions /\ head + 1 \in DOMAIN queue /\ head \in Nat /\ Len(queue) \in Nat
      /\ DOMAIN queue = 1..Len(queue) /\ 1..(head + 1) = 1..head \cup {head + 1}
  BY <1>1, NextAssumption
<1>4. /\ s.full \in Assumptions /\ s.leaves \subseteq Leaves
      /\ s.enqueued \in Seq(Assumptions)
      /\ \A v \in full : s.leaves = SelectedIn(Selected, program, v)
      /\ \A i \in DOMAIN s.enqueued :
           /\ Next1 \subseteq s.enqueued[i] /\ Satisfiable(s.enqueued[i])
           /\ Models(s.enqueued[i]) # Models(Next1)
      /\ \A v \in Models(Next1) :
           \/ v \in full
           \/ \E i \in DOMAIN s.enqueued : v \in Models(s.enqueued[i])
  BY <1>2, <1>3, Specialized
<1> HIDE DEF s
<1>5. full \subseteq Valuations
  BY DEF Models
<1>6. \A v \in full : v \in Valuations /\ CheckOf(v) = found
  BY <1>4, <1>5 DEF CheckOf
<1> HIDE DEF full, found
<1>7. \A d \in Diagnostics : Occurs(d) = {v \in Valuations : d \in CheckOf(v)}
  BY DEF Occurs, CheckOf
<1>8. /\ queue' \in Seq(Assumptions) /\ Len(queue') = Len(queue) + Len(s.enqueued)
      /\ Len(s.enqueued) \in Nat /\ DOMAIN queue' = 1..Len(queue')
      /\ DOMAIN s.enqueued = 1..Len(s.enqueued)
      /\ \A i \in DOMAIN queue : i \in DOMAIN queue' /\ queue'[i] = queue[i]
      /\ \A i \in DOMAIN s.enqueued : /\ Len(queue) + i \in DOMAIN queue'
                                      /\ queue'[Len(queue) + i] = s.enqueued[i]
  BY <1>1, <1>2, <1>3, <1>4
<1>9. processed' \subseteq Assumptions /\ IsFiniteSet(processed') /\ Cardinality(processed') = count'
  <2>1. processed \subseteq Assumptions /\ IsFiniteSet(processed)
    BY DEF ExploreInv
  <2> QED
    BY <1>1, <1>2, <1>3, <2>1, FS_AddElement
<1>10. TypeOK'
  <2>1. errors' \in [Diagnostics -> SUBSET Valuations] /\ feasible' \subseteq Valuations
    BY <1>1, <1>2, <1>5
  <2>2. head' \in 0..Len(queue') /\ count' \in 0..max_configurations'
    BY <1>1, <1>2, <1>3, <1>8
  <2>3. phase' \in {"explore", "done"} /\ truncated' \in BOOLEAN
    BY <1>1 DEF ExploreInv, TypeOK
  <2> QED
    BY <1>1, <1>2, <1>8, <1>9, <2>1, <2>2, <2>3 DEF TypeOK
<1>11. ErrorsInStep'
  <2> SUFFICES ASSUME NEW d \in Diagnostics
               PROVE  /\ errors'[d] \subseteq Occurs(d)
                      /\ feasible' \cap Occurs(d) \subseteq errors'[d]
    <3>1. \A d \in Diagnostics : Occurs(d)' = Occurs(d)
      BY <1>1 DEF Occurs
    <3> QED
      BY <3>1 DEF ErrorsInStep
  <2>1. errors[d] \subseteq Occurs(d) /\ feasible \cap Occurs(d) \subseteq errors[d]
    BY DEF ExploreInv, ErrorsInStep
  <2>2. errors'[d] = IF d \in found THEN errors[d] \cup full ELSE errors[d]
    BY <1>1
  <2>3. \A v \in full : v \in Occurs(d) <=> d \in found
    BY <1>6, <1>7
  <2> QED
    BY <1>1, <2>1, <2>2, <2>3
<1>12. TakenIsChecked'
  <2>1. \A i \in 1..head : queue[i] \in processed \/ ~Satisfiable(queue[i])
    BY <1>1 DEF ExploreInv, TakenIsChecked
  <2>2. \A i \in 1..(head + 1) : queue'[i] = queue[i]
    BY <1>3, <1>8
  <2>3. queue[head + 1] \in processed'
    BY <1>1 DEF Next1
  <2> QED
    BY <1>1, <1>3, <2>1, <2>2, <2>3 DEF TakenIsChecked
<1>13. CheckedIsCovered'
  <2> SUFFICES ASSUME NEW p \in processed', NEW v \in Models(p)
               PROVE  \/ v \in feasible'
                      \/ \E i \in DOMAIN queue' : /\ v \in Models(queue'[i])
                                                  /\ Models(queue'[i]) \subseteq Models(p)
                                                  /\ Models(queue'[i]) # Models(p)
    BY DEF CheckedIsCovered
  <2>1. CASE p \in processed
    <3>1. \/ v \in feasible
          \/ \E i \in DOMAIN queue : /\ v \in Models(queue[i])
                                     /\ Models(queue[i]) \subseteq Models(p)
                                     /\ Models(queue[i]) # Models(p)
      BY <2>1 DEF ExploreInv, CheckedIsCovered
    <3>2. CASE v \in feasible
      BY <1>1, <3>2
    <3>3. ASSUME NEW i \in DOMAIN queue, v \in Models(queue[i]),
                 Models(queue[i]) \subseteq Models(p), Models(queue[i]) # Models(p)
          PROVE  \E j \in DOMAIN queue' : /\ v \in Models(queue'[j])
                                          /\ Models(queue'[j]) \subseteq Models(p)
                                          /\ Models(queue'[j]) # Models(p)
      <4>1. i \in DOMAIN queue' /\ queue'[i] = queue[i]
        BY <1>8
      <4> QED
        BY <3>3, <4>1
    <3> QED
      BY <3>1, <3>2, <3>3
  <2>2. CASE p = Next1
    <3>1. CASE v \in full
      BY <1>1, <3>1
    <3>2. CASE v \notin full
      <4>1. PICK i \in DOMAIN s.enqueued : v \in Models(s.enqueued[i])
        BY <1>4, <2>2, <3>2
      <4>2. Models(s.enqueued[i]) \subseteq Models(p) /\ Models(s.enqueued[i]) # Models(p)
        BY <1>4, <2>2, ModelsOfMore
      <4>3. /\ Len(queue) + i \in DOMAIN queue'
            /\ queue'[Len(queue) + i] = s.enqueued[i]
        BY <1>8
      <4> QED
        BY <4>1, <4>2, <4>3
    <3> QED
      BY <3>1, <3>2
  <2> QED
    BY <1>1, <2>1, <2>2
<1>14. queue' # << >> /\ queue'[1] = {}
  <2>1. queue[1] = {}
    BY DEF ExploreInv
  <2>2. 1 \in DOMAIN queue
    BY <1>3
  <2>3. 1 \in DOMAIN queue' /\ queue'[1] = {}
    BY <1>8, <2>1, <2>2
  <2>4. queue' # << >>
    BY <1>8, <2>3
  <2> QED
    BY <2>3, <2>4
<1> QED
  BY <1>1, <1>9, <1>10, <1>11, <1>12, <1>13, <1>14 DEF ExploreInv

LEMMA ExplorePreserved == ExploreInv /\ [Next]_vars => ExploreInv'
<1> SUFFICES ASSUME ExploreInv, [Next]_vars PROVE ExploreInv'
  OBVIOUS
<1> USE DEF ExploreInv
<1>1. CASE skip
  <2>1. /\ head < Len(queue) /\ head' = head + 1 /\ Known /\ phase = "explore"
        /\ UNCHANGED <<program, max_configurations, queue, processed, count, truncated,
                       feasible, errors, phase, reported>>
    BY <1>1 DEF skip, Takes
  <2>2. TakenIsChecked'
    <3>1. queue[head + 1] \in processed \/ ~Satisfiable(queue[head + 1])
      BY <2>1 DEF Known, Next1
    <3> QED
      BY <2>1, <3>1, NextAssumption DEF TakenIsChecked
  <2>3. TypeOK'
    BY <2>1, NextAssumption DEF TypeOK
  <2> QED
    BY <2>1, <2>2, <2>3, ErrorsKept DEF CheckedIsCovered
<1>2. CASE truncate
  <2>1. /\ head < Len(queue) /\ head' = head + 1 /\ truncated' = TRUE /\ phase = "explore"
        /\ UNCHANGED <<program, max_configurations, queue, processed, count,
                       feasible, errors, phase, reported>>
    BY <1>2 DEF truncate, Takes
  <2>2. TypeOK'
    BY <2>1, NextAssumption DEF TypeOK
  <2> QED
    BY <2>1, <2>2, ErrorsKept DEF CheckedIsCovered, TakenIsChecked
<1>3. CASE checkConfiguration
  BY <1>3, CheckKeeps
<1>4. CASE report
  <2>1. /\ truncated \/ head = Len(queue)
        /\ phase' = "done" /\ reported' = {d \in Diagnostics : Reportable(d)}
        /\ UNCHANGED <<program, max_configurations, queue, head, processed, count,
                       truncated, feasible, errors>>
    BY <1>4 DEF report
  <2>2. TypeOK'
    BY <2>1 DEF TypeOK
  <2>3. \A d : Reportable(d)' = Reportable(d)
    BY <2>1 DEF Reportable
  <2> QED
    BY <2>1, <2>2, <2>3, ErrorsKept DEF CheckedIsCovered, TakenIsChecked
<1>5. CASE UNCHANGED vars
  BY <1>5, ErrorsKept DEF vars, TypeOK, CheckedIsCovered, TakenIsChecked, Reportable
<1> QED
  BY <1>1, <1>2, <1>3, <1>4, <1>5 DEF Next, Finished

LEMMA ExploreInvariant == Spec => []ExploreInv
BY ExploreInitially, ExplorePreserved, PTL DEF Spec

(***************************************************************************)
(* A hint "reachable when ..." is true, for every module, every number of   *)
(* condition variables and every cap: wherever a diagnostic is said to be   *)
(* reachable, the module of that valuation has it, even when the            *)
(* exploration was cut short.                                               *)
(***************************************************************************)
THEOREM ReachSound == Spec => []ReachIsSound
<1>1. ExploreInv => ReachIsSound
  BY DEF ExploreInv, ErrorsInStep, ReachIsSound
<1> QED
  BY <1>1, ExploreInvariant, PTL

\* An assumption that is stronger than another has fewer models.
LEMMA FewerModels ==
  ASSUME NEW p, NEW q, Models(q) \subseteq Models(p), Models(q) # Models(p)
  PROVE  /\ Cardinality(Models(p)) \in Nat /\ Cardinality(Models(q)) \in Nat
         /\ Cardinality(Models(q)) < Cardinality(Models(p))
<1>1. IsFiniteSet(Valuations)
  BY ItemsAssumption, FS_SUBSET DEF Valuations
<1>2. IsFiniteSet(Models(p))
  BY <1>1, FS_Subset DEF Models
<1> QED
  BY <1>2, FS_Subset, FS_CardinalityType

\* When everything in the queue was taken, every valuation is covered.
LEMMA AllCovered ==
  ASSUME ExploreInv, ~truncated, head = Len(queue)
  PROVE  feasible = Valuations
<1>1. Len(queue) \in Nat /\ DOMAIN queue = 1..Len(queue) /\ 1 \in DOMAIN queue
  BY DEF ExploreInv, TypeOK
<1>2. \A i \in DOMAIN queue : \A v \in Models(queue[i]) : queue[i] \in processed
  BY <1>1 DEF ExploreInv, TakenIsChecked, Satisfiable
<1> SUFFICES ASSUME NEW v \in Valuations, v \notin feasible PROVE FALSE
  BY DEF ExploreInv, TypeOK
<1> DEFINE T == {Cardinality(Models(p)) : p \in {q \in processed : v \in Models(q)}}
<1>3. IsFiniteSet(Valuations)
  BY ItemsAssumption, FS_SUBSET DEF Valuations
<1>4. T \subseteq Nat
  <2>1. \A p : IsFiniteSet(Models(p))
    BY <1>3, FS_Subset DEF Models
  <2> QED
    BY <2>1, FS_CardinalityType
<1>5. T # {}
  <2>1. v \in Models(queue[1])
    BY DEF ExploreInv, Models
  <2> QED
    BY <1>1, <1>2, <2>1
<1>6. PICK least \in T : \A other \in T : least <= other
  <2> HIDE DEF T
  <2> QED
    BY <1>4, <1>5, LeastElement
<1>7. PICK p \in processed : v \in Models(p) /\ least = Cardinality(Models(p))
  BY <1>6
<1>8. PICK i \in DOMAIN queue : /\ v \in Models(queue[i])
                                /\ Models(queue[i]) \subseteq Models(p)
                                /\ Models(queue[i]) # Models(p)
  BY <1>7 DEF ExploreInv, CheckedIsCovered
<1>9. Cardinality(Models(queue[i])) \in T
  BY <1>2, <1>8
<1>10. /\ Cardinality(Models(p)) \in Nat /\ Cardinality(Models(queue[i])) \in Nat
       /\ Cardinality(Models(queue[i])) < Cardinality(Models(p))
  BY <1>8, FewerModels
<1> QED
  <2> HIDE DEF T
  <2> QED
    BY <1>6, <1>7, <1>9, <1>10

(***************************************************************************)
(* An exploration that was not cut short covers every valuation, although   *)
(* decisions are forgotten between the bodies and assumptions that were     *)
(* seen before are skipped: a diagnostic is reported exactly where it       *)
(* occurs, and a universal one exactly if it occurs everywhere.             *)
(***************************************************************************)
THEOREM CoverageComplete == Spec => []CoverageIsComplete
<1>1. ASSUME ExploreInv PROVE CoverageIsComplete
  <2> SUFFICES ASSUME phase = "done", ~truncated
               PROVE  /\ feasible = Valuations
                      /\ \A d \in Diagnostics : errors[d] = Occurs(d)
                      /\ Universal \in reported <=> Occurs(Universal) = Valuations
    BY DEF CoverageIsComplete
  <2>1. feasible = Valuations /\ reported = {d \in Diagnostics : Reportable(d)}
    BY <1>1, AllCovered DEF ExploreInv
  <2>2. \A d \in Diagnostics : errors[d] = Occurs(d)
    BY <1>1, <2>1 DEF ExploreInv, ErrorsInStep, Occurs
  <2>3. Universal \in reported <=> Occurs(Universal) = Valuations
    <3>1. Universal \in Diagnostics /\ {} \in Valuations /\ Occurs(Universal) \subseteq Valuations
      BY DEF Diagnostics, Valuations, Occurs
    <3> QED
      BY <2>1, <2>2, <3>1 DEF Reportable
  <2> QED
    BY <2>1, <2>2, <2>3
<1> QED
  BY <1>1, ExploreInvariant, PTL

(***************************************************************************)
(* What a configuration puts in the queue is reachable and strictly         *)
(* stronger than the assumption it was found under, so the queue runs dry   *)
(* of itself.                                                               *)
(***************************************************************************)
THEOREM QueueGetsStronger == Spec => EnqueuedIsStronger
<1> DEFINE Step ==
      checkConfiguration =>
        \A i \in DOMAIN queue' \ DOMAIN queue :
          /\ Satisfiable(queue'[i])
          /\ Models(queue'[i]) \subseteq Models(Next1)
          /\ Models(queue'[i]) # Models(Next1)
<1>1. ASSUME ExploreInv, checkConfiguration, NEW i \in DOMAIN queue' \ DOMAIN queue
      PROVE  /\ Satisfiable(queue'[i])
             /\ Models(queue'[i]) \subseteq Models(Next1)
             /\ Models(queue'[i]) # Models(Next1)
  <2> DEFINE s == specialize(Next1, program)
  <2>1. queue' = queue \o s.enqueued /\ head < Len(queue)
    BY <1>1 DEF checkConfiguration, Takes
  <2>2. Next1 \in Assumptions /\ program \in Programs /\ queue \in Seq(Assumptions)
    BY <1>1, <2>1, NextAssumption DEF ExploreInv, TypeOK
  <2>3. /\ s.enqueued \in Seq(Assumptions)
        /\ \A j \in DOMAIN s.enqueued :
             /\ Next1 \subseteq s.enqueued[j] /\ Satisfiable(s.enqueued[j])
             /\ Models(s.enqueued[j]) # Models(Next1)
    BY <2>2, Specialized
  <2> HIDE DEF s
  <2>4. i - Len(queue) \in DOMAIN s.enqueued /\ queue'[i] = s.enqueued[i - Len(queue)]
    BY <1>1, <2>1, <2>2, <2>3
  <2> QED
    BY <2>3, <2>4, ModelsOfMore
<1>2. ExploreInv /\ [Next]_vars => [Step]_vars
  BY <1>1
<1> QED
  BY <1>2, ExploreInvariant, PTL DEF Spec, EnqueuedIsStronger
=============================================================================
