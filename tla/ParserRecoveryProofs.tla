------------------------ MODULE ParserRecoveryProofs ------------------------
(***************************************************************************)
(* What drive_recovering keeps, for every grammar whose tables are what the *)
(* assumptions of ParserRecovery say and for every input.                   *)
(*                                                                         *)
(* The stacks.  StacksInStep alone is not inductive: a reduction must not   *)
(* pop past the bottom.  Grounded adds why it cannot: the state at height i *)
(* is reachable in i - 1 transitions, and a reduction pops no more than     *)
(* that.  Unwinding keeps a prefix of both stacks, so it keeps both facts.  *)
(*                                                                         *)
(* The repairs.  That no token is reported twice is a fact about the walk   *)
(* over the tables: a repair is made only if the walk from the stack takes  *)
(* the tokens spliced in and the offending one, and the loop then follows   *)
(* that walk step by step.  Promise says so of every state in between:      *)
(* what was spliced in and the token in hand can still be shifted.  It      *)
(* holds over an induction on the fuel of the walk, and on the rounds of    *)
(* auto_close; the fuel the loop needs not be the fuel that found the walk, *)
(* so Reaches leaves the fuel out.                                          *)
(***************************************************************************)
EXTENDS ParserRecovery, TLAPS, SequenceTheorems, WellFoundedInduction

-----------------------------------------------------------------------------
(* Induction over the naturals as a fact about sets, which cites no operator *)
(* parameter: the least element of a set that lacks a natural number.        *)

LessThan == {p \in Nat \X Nat : p[1] < p[2]}

LEMMA LeastElement ==
  ASSUME NEW T, T \subseteq Nat, T # {}
  PROVE  \E x \in T : \A y \in T : x <= y
<1>1. IsWellFoundedOn(LessThan, Nat)
  BY NatLessThanWellFounded DEF OpToRel, LessThan
<1>2. PICK x \in T : \A y \in T : <<y, x>> \notin LessThan
  BY <1>1, WFMin
<1>3. \A y \in T : x <= y
  <2> SUFFICES ASSUME NEW y \in T PROVE x <= y
    OBVIOUS
  <2>1. x \in Nat /\ y \in Nat
    OBVIOUS
  <2>2. ~(y < x)
    BY <1>2, <2>1 DEF LessThan
  <2> QED
    BY <2>1, <2>2
<1> QED
  BY <1>3

LEMMA Induction ==
  ASSUME NEW S, 0 \in S, \A n \in Nat : n \in S => n + 1 \in S
  PROVE  Nat \subseteq S
<1> SUFFICES ASSUME Nat \ S # {} PROVE FALSE
  OBVIOUS
<1>1. PICK x \in Nat \ S : \A y \in Nat \ S : x <= y
  BY LeastElement
<1>2. x # 0 /\ x - 1 \in Nat
  BY <1>1
<1>3. x - 1 \in S
  BY <1>1, <1>2
<1> QED
  BY <1>1, <1>2, <1>3

\* A function that each number takes from the one before exists.
LEMMA Iterates ==
  ASSUME NEW H, NEW x \in H, NEW g \in [H -> H]
  PROVE  \E f \in [Nat -> H] : \A n \in Nat : f[n] = IF n = 0 THEN x ELSE g[f[n - 1]]
<1> DEFINE From(h, n) == /\ h \in [0..n -> H] /\ h[0] = x
                         /\ \A i \in 1..n : h[i] = g[h[i - 1]]
           S == {n \in Nat : \E h : From(h, n)}
<1>1. 0 \in S
  <2>1. From([i \in 0..0 |-> x], 0)
    OBVIOUS
  <2> QED
    BY <2>1
<1>2. ASSUME NEW n \in Nat, n \in S PROVE n + 1 \in S
  <2>1. PICK h : From(h, n)
    BY <1>2
  <2> DEFINE k == [i \in 0..(n + 1) |-> IF i = n + 1 THEN g[h[n]] ELSE h[i]]
  <2>2. k \in [0..(n + 1) -> H]
    BY <2>1
  <2>3. k[0] = x
    BY <2>1
  <2>4. \A i \in 1..(n + 1) : k[i] = g[k[i - 1]]
    <3> TAKE i \in 1..(n + 1)
    <3>1. CASE i = n + 1
      BY <3>1
    <3>2. CASE i \in 1..n
      BY <2>1, <3>2
    <3> QED
      BY <3>1, <3>2
  <2>5. From(k, n + 1)
    BY <2>2, <2>3, <2>4
  <2> HIDE DEF From, k
  <2> QED
    BY <2>5
<1>3. \A n \in Nat : \E h : From(h, n)
  <2> HIDE DEF From
  <2>1. Nat \subseteq S
    BY <1>1, <1>2, Induction
  <2> QED
    BY <2>1
<1>4. ASSUME NEW m \in Nat, NEW n \in Nat, NEW h, NEW k, From(h, m), From(k, n)
      PROVE  \A i \in Nat : i <= m /\ i <= n => h[i] = k[i]
  <2> DEFINE E == {i \in Nat : i <= m /\ i <= n => h[i] = k[i]}
  <2>1. 0 \in E
    BY <1>4
  <2>2. ASSUME NEW i \in Nat, i \in E PROVE i + 1 \in E
    <3> SUFFICES ASSUME i + 1 <= m, i + 1 <= n PROVE h[i + 1] = k[i + 1]
      OBVIOUS
    <3>1. h[i] = k[i]
      BY <2>2
    <3>2. h[i + 1] = g[h[i]] /\ k[i + 1] = g[k[i]]
      BY <1>4
    <3> QED
      BY <3>1, <3>2
  <2>3. Nat \subseteq E
    <3> HIDE DEF E, From
    <3> QED
      BY <2>1, <2>2, Induction
  <2> QED
    BY <2>3
<1> DEFINE H0(n) == CHOOSE h : From(h, n)
           f == [n \in Nat |-> H0(n)[n]]
<1>5. \A n \in Nat : From(H0(n), n)
  <2> HIDE DEF From
  <2> QED
    BY <1>3
<1>6. f \in [Nat -> H]
  <2>1. \A n \in Nat : H0(n)[n] \in H
    <3> HIDE DEF H0
    <3> QED
      BY <1>5
  <2> QED
    BY <2>1
<1>7. ASSUME NEW n \in Nat PROVE f[n] = IF n = 0 THEN x ELSE g[f[n - 1]]
  <2> HIDE DEF H0
  <2>1. CASE n = 0
    BY <1>5, <2>1
  <2>2. CASE n # 0
    <3>1. n - 1 \in Nat /\ n \in 1..n
      BY <2>2
    <3>2. From(H0(n), n) /\ From(H0(n - 1), n - 1)
      BY <1>5, <3>1
    <3>3. H0(n)[n] = g[H0(n)[n - 1]]
      BY <3>1, <3>2
    <3>4. H0(n)[n - 1] = H0(n - 1)[n - 1]
      <4> HIDE DEF From
      <4>1. n - 1 <= n /\ n - 1 <= n - 1
        BY <3>1
      <4> QED
        BY <1>4, <3>1, <3>2, <4>1
    <3> QED
      BY <2>2, <3>1, <3>3, <3>4
  <2> QED
    BY <2>1, <2>2
<1> QED
  BY <1>6, <1>7

LEMMA ShiftFacts ==
  ASSUME NEW s \in State, NEW x, yy_state(s, x).kind = "shift"
  PROVE  /\ x \in Symbol
         /\ yy_state(s, x).next \in State
         /\ Accessing[yy_state(s, x).next] = x
         /\ Depth[yy_state(s, x).next] <= Depth[s] + 1
<1>1. x \in DOMAIN Table[s] /\ yy_state(s, x) = Table[s][x]
  BY DEF yy_state
<1>2. Table[s][x] \in Decision
  BY <1>1, TableAssumption
<1>3. Table[s][x] \in [kind : {"shift"}, next : State]
  BY <1>1, <1>2 DEF Decision
<1>4. x \in Symbol
  BY <1>1 DEF Symbol
<1> QED
  BY <1>1, <1>3, <1>4, TableAssumption

\* What a state does on a symbol that it has a column for.
LEMMA DecisionFacts ==
  ASSUME NEW s \in State, NEW x
  PROVE  /\ yy_state(s, x).kind \in {"shift", "reduce", "reduceNow", "accept", "error"}
         /\ Reduces(yy_state(s, x)) => /\ yy_state(s, x).count \in Nat
                                       /\ yy_state(s, x).lhs \in Symbol
         /\ yy_state(s, x).kind # "error" => x \in DOMAIN Table[s] /\ yy_state(s, x) = Table[s][x]
<1>1. CASE x \notin DOMAIN Table[s]
  BY <1>1 DEF yy_state, Reduces
<1>2. CASE x \in DOMAIN Table[s]
  <2>1. yy_state(s, x) = Table[s][x] /\ Table[s][x] \in Decision
    BY <1>2, TableAssumption DEF yy_state
  <2> QED
    BY <1>2, <2>1 DEF Decision, Reduces
<1> QED
  BY <1>1, <1>2

Walks == [Simulation -> SUBSET Seq(State)]

\* What is left of a stack after a pop.
LEMMA PopFacts ==
  ASSUME NEW st \in Seq(State), NEW n \in Nat, n < Len(st)
  PROVE  LET t == SubSeq(st, 1, Len(st) - n)
         IN  t \in Seq(State) /\ Len(t) = Len(st) - n /\ Len(t) > 0 /\ Top(t) \in State
BY DEF Top

LEMMA SimStepType ==
  ASSUME NEW h \in Walks
  PROVE  [c \in Simulation |-> SimStep(h, c)] \in Walks
<1> SUFFICES ASSUME NEW c \in Simulation PROVE SimStep(h, c) \subseteq Seq(State)
  BY DEF Walks
<1> DEFINE t == SubSeq(c.stack, 1, Len(c.stack) - c.count)
           d == yy_state(Top(t), IF c.lhs = "none" THEN c.symbol ELSE c.lhs)
<1>1. c.stack \in Seq(State) /\ c.symbol \in Symbol \cup {End} /\ c.count \in Nat
  BY DEF Simulation
<1>2. CASE c.count >= Len(c.stack)
  BY <1>2 DEF SimStep
<1>3. CASE c.count < Len(c.stack)
  <2>1. t \in Seq(State) /\ Top(t) \in State
    BY <1>1, <1>3, PopFacts
  <2> DEFINE result ==
               CASE d.kind = "shift" /\ c.lhs = "none" -> {Append(t, d.next)}
                 [] d.kind = "shift" /\ c.lhs # "none" ->
                      h[Simulate(Append(t, d.next), c.symbol, 0, "none")]
                 [] Reduces(d) -> h[Simulate(t, c.symbol, d.count, d.lhs)]
                 [] d.kind = "accept" -> IF c.lhs = "none" THEN {t} ELSE {}
                 [] d.kind = "error" -> {}
  <2>2. SimStep(h, c) = result
    <3>1. SimStep(h, c) = IF c.count >= Len(c.stack) THEN {} ELSE result
      BY Zenon DEF SimStep
    <3> HIDE DEF result
    <3> QED
      BY <1>1, <1>3, <3>1
  <2>3. d.kind \in {"shift", "reduce", "reduceNow", "accept", "error"}
    BY <2>1, DecisionFacts
  <2>4. CASE d.kind = "shift"
    <3>1. Append(t, d.next) \in Seq(State)
      BY <2>1, <2>4, ShiftFacts
    <3>2. Simulate(Append(t, d.next), c.symbol, 0, "none") \in Simulation
      BY <1>1, <3>1 DEF Simulate, Simulation
    <3> HIDE DEF t, d
    <3> QED
      BY <2>2, <2>4, <3>1, <3>2 DEF Walks, Reduces
  <2>5. CASE Reduces(d)
    <3>1. Simulate(t, c.symbol, d.count, d.lhs) \in Simulation
      BY <1>1, <2>1, <2>5, DecisionFacts DEF Simulate, Simulation
    <3> HIDE DEF t, d
    <3> QED
      BY <2>2, <2>5, <3>1 DEF Walks, Reduces
  <2>6. CASE d.kind \in {"accept", "error"}
    <3> HIDE DEF t, d
    <3> QED
      BY <2>1, <2>2, <2>6 DEF Reduces
  <2> QED
    BY <2>3, <2>4, <2>5, <2>6 DEF Reduces
<1> QED
  BY <1>1, <1>2, <1>3

\* The walk unfolds: more fuel is one more step.
LEMMA SimUnfolds ==
  /\ Sim \in [Nat -> Walks]
  /\ \A n \in Nat : \A c \in Simulation :
       Sim[n][c] = IF n = 0 THEN {} ELSE SimStep(Sim[n - 1], c)
<1> DEFINE none == [c \in Simulation |-> {}]
           step == [h \in Walks |-> [c \in Simulation |-> SimStep(h, c)]]
           Is(f) == f = [n \in Nat |-> [c \in Simulation |->
                           IF n = 0 THEN {} ELSE SimStep(f[n - 1], c)]]
<1>1. none \in Walks
  BY DEF Walks
<1>2. step \in [Walks -> Walks]
  BY SimStepType
<1>3. PICK f \in [Nat -> Walks] : \A n \in Nat : f[n] = IF n = 0 THEN none ELSE step[f[n - 1]]
  <2> HIDE DEF none, step
  <2> QED
    BY <1>1, <1>2, Iterates
<1>4. ASSUME NEW n \in Nat
      PROVE  f[n] = [c \in Simulation |-> IF n = 0 THEN {} ELSE SimStep(f[n - 1], c)]
  <2>1. CASE n = 0
    BY <1>3, <2>1
  <2>2. CASE n # 0
    <3>1. f[n - 1] \in Walks
      BY <2>2
    <3>2. f[n] = [c \in Simulation |-> SimStep(f[n - 1], c)]
      BY <1>3, <2>2, <3>1
    <3> QED
      BY <2>2, <3>2
  <2> QED
    BY <2>1, <2>2
<1>5. Is(f)
  BY <1>4
<1>6. Is(Sim)
  BY <1>5, Zenon DEF Sim
<1>7. \A n \in Nat : Sim[n] = [c \in Simulation |-> IF n = 0 THEN {} ELSE SimStep(Sim[n - 1], c)]
  BY <1>6
<1>8. \A n \in Nat : Sim[n] \in Walks
  <2> DEFINE S == {n \in Nat : Sim[n] \in Walks}
  <2>1. 0 \in S
    <3>1. Sim[0] = none
      BY <1>7
    <3> QED
      BY <1>1, <3>1
  <2>2. ASSUME NEW n \in Nat, n \in S PROVE n + 1 \in S
    <3>1. Sim[n + 1] = [c \in Simulation |-> SimStep(Sim[n], c)]
      BY <1>7
    <3> QED
      BY <2>2, <3>1, SimStepType
  <2>3. Nat \subseteq S
    <3> HIDE DEF S
    <3> QED
      BY <2>1, <2>2, Induction
  <2> QED
    BY <2>3
<1>9. Sim = [n \in Nat |-> Sim[n]]
  BY <1>6, <1>7
<1>10. Sim \in [Nat -> Walks]
  BY <1>8, <1>9
<1> QED
  BY <1>7, <1>10

LEMMA TerminalsAreSymbols == Terminals \subseteq Symbol
<1> DEFINE columns == UNION {DOMAIN Table[s] : s \in State}
<1>1. Symbol = columns \cup Terminals
  BY DEF Symbol
<1> HIDE DEF columns
<1> QED
  BY <1>1

\* What a walk that succeeds on a token has done first.
LEMMA WalkFacts ==
  ASSUME NEW n \in Nat, NEW c \in Simulation, c.symbol \in Terminals, NEW t \in Sim[n][c]
  PROVE  /\ n # 0 /\ n - 1 \in Nat /\ c.count < Len(c.stack)
         /\ t \in Seq(State)
         /\ LET u == SubSeq(c.stack, 1, Len(c.stack) - c.count)
                d == yy_state(Top(u), IF c.lhs = "none" THEN c.symbol ELSE c.lhs)
            IN \/ d.kind = "shift" /\ c.lhs = "none" /\ t = Append(u, d.next)
               \/ /\ d.kind = "shift" /\ c.lhs # "none"
                  /\ t \in Sim[n - 1][Simulate(Append(u, d.next), c.symbol, 0, "none")]
               \/ Reduces(d) /\ t \in Sim[n - 1][Simulate(u, c.symbol, d.count, d.lhs)]
<1> DEFINE u == SubSeq(c.stack, 1, Len(c.stack) - c.count)
           d == yy_state(Top(u), IF c.lhs = "none" THEN c.symbol ELSE c.lhs)
           result ==
             CASE d.kind = "shift" /\ c.lhs = "none" -> {Append(u, d.next)}
               [] d.kind = "shift" /\ c.lhs # "none" ->
                    Sim[n - 1][Simulate(Append(u, d.next), c.symbol, 0, "none")]
               [] Reduces(d) -> Sim[n - 1][Simulate(u, c.symbol, d.count, d.lhs)]
               [] d.kind = "accept" -> IF c.lhs = "none" THEN {u} ELSE {}
               [] d.kind = "error" -> {}
<1>1. n # 0 /\ n - 1 \in Nat /\ t \in SimStep(Sim[n - 1], c)
  BY SimUnfolds
<1>2. SimStep(Sim[n - 1], c) = IF c.count >= Len(c.stack) THEN {} ELSE result
  BY Zenon DEF SimStep
<1>3. c.stack \in Seq(State) /\ c.count \in Nat
  BY DEF Simulation
<1>4. t \in Seq(State)
  <2>1. Sim[n] \in Walks
    BY SimUnfolds
  <2> QED
    BY <2>1 DEF Walks
<1>5. c.count < Len(c.stack) /\ t \in result
  <2> HIDE DEF result
  <2> QED
    BY <1>1, <1>2, <1>3
<1>6. Top(u) \in State
  BY <1>3, <1>5, PopFacts
<1>7. d.kind \in {"shift", "reduce", "reduceNow", "accept", "error"}
  BY <1>6, DecisionFacts
<1>8. ~(d.kind = "accept" /\ c.lhs = "none")
  <2> SUFFICES ASSUME d.kind = "accept", c.lhs = "none" PROVE FALSE
    OBVIOUS
  <2>1. c.symbol \in DOMAIN Table[Top(u)] /\ Table[Top(u)][c.symbol].kind = "accept"
    BY <1>6, DecisionFacts
  <2> QED
    BY <1>6, <2>1, EndAssumption, TerminalsAssumption
<1> HIDE DEF u, d
<1>9. \/ d.kind = "shift" /\ c.lhs = "none" /\ t = Append(u, d.next)
      \/ /\ d.kind = "shift" /\ c.lhs # "none"
         /\ t \in Sim[n - 1][Simulate(Append(u, d.next), c.symbol, 0, "none")]
      \/ Reduces(d) /\ t \in Sim[n - 1][Simulate(u, c.symbol, d.count, d.lhs)]
  BY <1>5, <1>7, <1>8 DEF Reduces
<1> QED
  BY <1>1, <1>4, <1>5, <1>9 DEF u, d

\* A walk on a token ends in a state that is entered by it.
LEMMA WalkEnds ==
  \A n \in Nat : \A c \in Simulation : c.symbol \in Terminals =>
    \A t \in Sim[n][c] : t \in Seq(State) /\ Len(t) > 0 /\ Accessing[Top(t)] = c.symbol
<1> DEFINE Good(n) == \A c \in Simulation : c.symbol \in Terminals =>
             \A t \in Sim[n][c] : t \in Seq(State) /\ Len(t) > 0 /\ Accessing[Top(t)] = c.symbol
           S == {n \in Nat : Good(n)}
<1>1. 0 \in S
  BY SimUnfolds
<1>2. ASSUME NEW n \in Nat, n \in S PROVE n + 1 \in S
  <2> SUFFICES ASSUME NEW c \in Simulation, c.symbol \in Terminals, NEW t \in Sim[n + 1][c]
               PROVE  t \in Seq(State) /\ Len(t) > 0 /\ Accessing[Top(t)] = c.symbol
    OBVIOUS
  <2> DEFINE u == SubSeq(c.stack, 1, Len(c.stack) - c.count)
             d == yy_state(Top(u), IF c.lhs = "none" THEN c.symbol ELSE c.lhs)
  <2>1. c.stack \in Seq(State) /\ c.count \in Nat /\ c.symbol \in Symbol \cup {End}
    BY DEF Simulation
  <2>2. /\ c.count < Len(c.stack)
        /\ t \in Seq(State)
        /\ \/ d.kind = "shift" /\ c.lhs = "none" /\ t = Append(u, d.next)
           \/ /\ d.kind = "shift" /\ c.lhs # "none"
              /\ t \in Sim[n][Simulate(Append(u, d.next), c.symbol, 0, "none")]
           \/ Reduces(d) /\ t \in Sim[n][Simulate(u, c.symbol, d.count, d.lhs)]
    <3> DEFINE m == n + 1
    <3>1. m \in Nat /\ m - 1 = n /\ t \in Sim[m][c]
      OBVIOUS
    <3> HIDE DEF m
    <3>2. /\ c.count < Len(c.stack)
          /\ t \in Seq(State)
          /\ \/ d.kind = "shift" /\ c.lhs = "none" /\ t = Append(u, d.next)
             \/ /\ d.kind = "shift" /\ c.lhs # "none"
                /\ t \in Sim[m - 1][Simulate(Append(u, d.next), c.symbol, 0, "none")]
             \/ Reduces(d) /\ t \in Sim[m - 1][Simulate(u, c.symbol, d.count, d.lhs)]
      BY <3>1, WalkFacts, Zenon
    <3> QED
      BY <3>1, <3>2, Zenon
  <2>3. u \in Seq(State) /\ Top(u) \in State
    BY <2>1, <2>2, PopFacts
  <2>4. Good(n)
    BY <1>2
  <2>5. d.kind = "shift" => d.next \in State /\ Append(u, d.next) \in Seq(State)
    BY <2>3, ShiftFacts
  <2>6. CASE d.kind = "shift" /\ c.lhs = "none" /\ t = Append(u, d.next)
    <3>1. Accessing[d.next] = c.symbol
      BY <2>3, <2>6, ShiftFacts
    <3>2. Len(t) = Len(u) + 1 /\ t[Len(u) + 1] = d.next /\ Len(u) \in Nat
      BY <2>3, <2>5, <2>6
    <3> HIDE DEF u, d
    <3> QED
      BY <2>2, <3>1, <3>2 DEF Top
  <2>7. CASE /\ d.kind = "shift" /\ c.lhs # "none"
             /\ t \in Sim[n][Simulate(Append(u, d.next), c.symbol, 0, "none")]
    <3>1. /\ Simulate(Append(u, d.next), c.symbol, 0, "none") \in Simulation
          /\ Simulate(Append(u, d.next), c.symbol, 0, "none").symbol = c.symbol
      BY <2>1, <2>5, <2>7 DEF Simulate, Simulation
    <3> HIDE DEF u, d
    <3> QED
      BY <2>4, <2>7, <3>1
  <2>8. CASE Reduces(d) /\ t \in Sim[n][Simulate(u, c.symbol, d.count, d.lhs)]
    <3>1. /\ Simulate(u, c.symbol, d.count, d.lhs) \in Simulation
          /\ Simulate(u, c.symbol, d.count, d.lhs).symbol = c.symbol
      BY <2>1, <2>3, <2>8, DecisionFacts DEF Simulate, Simulation
    <3> HIDE DEF u, d
    <3> QED
      BY <2>4, <2>8, <3>1
  <2> QED
    BY <2>2, <2>6, <2>7, <2>8
<1>3. Nat \subseteq S
  <2> HIDE DEF S
  <2> QED
    BY <1>1, <1>2, Induction
<1> QED
  BY <1>3

\* From the stack st, the token x can be shifted, which leaves t.
Reaches(st, x, t) == \E n \in Nat : t \in Sim[n][Simulate(st, x, 0, "none")]

LEMMA StartOfWalk ==
  ASSUME NEW st \in Seq(State), NEW x \in Terminals
  PROVE  /\ Simulate(st, x, 0, "none") \in Simulation
         /\ Simulate(st, x, 0, "none").symbol \in Terminals
BY TerminalsAreSymbols DEF Simulate, Simulation

LEMMA ReachesFacts ==
  ASSUME NEW st \in Seq(State), NEW x \in Terminals, NEW t, Reaches(st, x, t)
  PROVE  t \in Seq(State) /\ Len(t) > 0 /\ Top(t) \in State /\ Accessing[Top(t)] = x
<1>1. t \in Seq(State) /\ Len(t) > 0 /\ Accessing[Top(t)] = x
  BY StartOfWalk, WalkEnds DEF Reaches, Simulate
<1> QED
  BY <1>1 DEF Top

LEMMA AcceptableReaches ==
  ASSUME NEW st \in Seq(State), NEW x
  PROVE  /\ \A t \in shift_sim(st, x) : Reaches(st, x, t)
         /\ acceptable(st, x) => \E t : Reaches(st, x, t)
<1>1. 4 * Len(st) + 64 \in Nat
  OBVIOUS
<1> QED
  BY <1>1 DEF shift_sim, acceptable, Reaches

\* The loop follows the walk: it shifts where the walk ends, or makes the reduction
\* that the walk makes next.
LEMMA LoopFollowsWalk ==
  ASSUME NEW st \in Seq(State), Len(st) > 0, NEW x \in Terminals, NEW t, Reaches(st, x, t)
  PROVE  LET d == yy_state(Top(st), x) IN
         /\ Top(st) \in State \ Past
         /\ \/ d.kind = "shift" /\ t = Append(st, d.next)
            \/ /\ Reduces(d)
               /\ d.count < Len(st)
               /\ LET rest == SubSeq(st, 1, Len(st) - d.count)
                      goto == yy_state(Top(rest), d.lhs)
                  IN goto.kind = "shift" => Reaches(Append(rest, goto.next), x, t)
<1> DEFINE c == Simulate(st, x, 0, "none")
           d == yy_state(Top(st), x)
           rest == SubSeq(st, 1, Len(st) - d.count)
           goto == yy_state(Top(rest), d.lhs)
<1> SUFFICES /\ Top(st) \in State \ Past
             /\ \/ d.kind = "shift" /\ t = Append(st, d.next)
                \/ /\ Reduces(d)
                   /\ d.count < Len(st)
                   /\ goto.kind = "shift" => Reaches(Append(rest, goto.next), x, t)
  OBVIOUS
<1>1. c \in Simulation /\ c.symbol \in Terminals
  BY StartOfWalk
<1>2. c.stack = st /\ c.count = 0 /\ c.lhs = "none" /\ c.symbol = x
  BY DEF Simulate
<1>3. PICK n \in Nat : t \in Sim[n][c]
  BY DEF Reaches
<1>4. SubSeq(c.stack, 1, Len(c.stack) - c.count) = st
  BY <1>2
<1>5. /\ n # 0 /\ n - 1 \in Nat
      /\ \/ d.kind = "shift" /\ t = Append(st, d.next)
         \/ Reduces(d) /\ t \in Sim[n - 1][Simulate(st, x, d.count, d.lhs)]
  <2> DEFINE u == SubSeq(c.stack, 1, Len(c.stack) - c.count)
             e == yy_state(Top(u), IF c.lhs = "none" THEN c.symbol ELSE c.lhs)
  <2> HIDE DEF c
  <2>1. /\ n # 0 /\ n - 1 \in Nat
        /\ \/ e.kind = "shift" /\ c.lhs = "none" /\ t = Append(u, e.next)
           \/ e.kind = "shift" /\ c.lhs # "none"
           \/ Reduces(e) /\ t \in Sim[n - 1][Simulate(u, c.symbol, e.count, e.lhs)]
    BY <1>1, <1>3, WalkFacts
  <2>2. u = st /\ e = d
    BY <1>2, <1>4
  <2> HIDE DEF u, e, d
  <2> QED
    BY <1>2, <2>1, <2>2
<1>6. Top(st) \in State
  BY DEF Top
<1>7. Top(st) \notin Past
  <2>1. x \in DOMAIN Table[Top(st)]
    BY <1>5, <1>6, DecisionFacts DEF Reduces
  <2> QED
    BY <1>6, <2>1, EndAssumption, TerminalsAssumption
<1>8. CASE Reduces(d) /\ t \in Sim[n - 1][Simulate(st, x, d.count, d.lhs)]
  <2> DEFINE e == Simulate(st, x, d.count, d.lhs)
             u == SubSeq(e.stack, 1, Len(e.stack) - e.count)
             g == yy_state(Top(u), IF e.lhs = "none" THEN e.symbol ELSE e.lhs)
             m == n - 1
  <2>1. e \in Simulation /\ e.symbol \in Terminals /\ d.lhs \in Symbol /\ d.count \in Nat
    <3>1. d.lhs \in Symbol /\ d.count \in Nat
      BY <1>6, <1>8, DecisionFacts
    <3>2. x \in Symbol
      BY TerminalsAreSymbols
    <3> HIDE DEF d
    <3> QED
      BY <3>1, <3>2 DEF Simulate, Simulation
  <2>2. e.stack = st /\ e.count = d.count /\ e.lhs = d.lhs /\ e.symbol = x
    BY DEF Simulate
  <2>3. d.lhs # "none"
    BY <2>1, TableAssumption
  <2>4. u = rest /\ g = goto
    BY <2>2, <2>3
  <2>5. /\ m - 1 \in Nat /\ e.count < Len(e.stack)
        /\ \/ g.kind = "shift" /\ e.lhs = "none"
           \/ /\ g.kind = "shift"
              /\ t \in Sim[m - 1][Simulate(Append(u, g.next), e.symbol, 0, "none")]
           \/ Reduces(g)
    <3>1. m \in Nat /\ t \in Sim[m][e]
      BY <1>5, <1>8
    <3> HIDE DEF e, m
    <3> QED
      BY <2>1, <3>1, WalkFacts
  <2>6. /\ d.count < Len(st)
        /\ goto.kind = "shift" => Reaches(Append(rest, goto.next), x, t)
    <3> HIDE DEF d, rest, goto, e, u, g, m
    <3> QED
      BY <2>2, <2>3, <2>4, <2>5 DEF Reaches, Reduces
  <2> HIDE DEF d, rest, goto
  <2> QED
    BY <1>6, <1>7, <1>8, <2>6
<1> HIDE DEF d, rest, goto
<1> QED
  BY <1>5, <1>6, <1>7, <1>8

\* From the stack st, the tokens syms can be shifted one after the other.
Passes(st, syms) ==
  \E f \in [0..Len(syms) -> Seq(State)] :
    f[0] = st /\ \A i \in 1..Len(syms) : Reaches(f[i - 1], syms[i], f[i])

LEMMA PassesNothing ==
  ASSUME NEW st \in Seq(State)
  PROVE  Passes(st, << >>)
<1> DEFINE f == [i \in 0..0 |-> st]
<1>1. f \in [0..0 -> Seq(State)] /\ f[0] = st
  OBVIOUS
<1> HIDE DEF f
<1>2. Len(<< >>) = 0 /\ 1..0 = {}
  OBVIOUS
<1> QED
  BY <1>1, <1>2 DEF Passes

LEMMA PassesOn ==
  ASSUME NEW st \in Seq(State), NEW syms \in Seq(Terminals), syms # << >>, Passes(st, syms)
  PROVE  \E t : Reaches(st, Head(syms), t) /\ Passes(t, Tail(syms))
<1>1. PICK f \in [0..Len(syms) -> Seq(State)] :
        f[0] = st /\ \A i \in 1..Len(syms) : Reaches(f[i - 1], syms[i], f[i])
  BY DEF Passes
<1>2. /\ Len(syms) \in Nat \ {0} /\ Head(syms) = syms[1]
      /\ Len(Tail(syms)) = Len(syms) - 1
      /\ \A i \in 1..(Len(syms) - 1) : Tail(syms)[i] = syms[i + 1]
  OBVIOUS
<1> DEFINE n == Len(syms)
           g == [i \in 0..(n - 1) |-> f[i + 1]]
<1>3. n \in Nat \ {0}
  BY <1>2
<1>4. Reaches(st, Head(syms), f[1])
  BY <1>1, <1>2
<1>5. g \in [0..(n - 1) -> Seq(State)] /\ g[0] = f[1]
  BY <1>1, <1>3
<1>6. \A i \in 1..(n - 1) : Reaches(g[i - 1], Tail(syms)[i], g[i])
  <2> TAKE i \in 1..(n - 1)
  <2>1. g[i - 1] = f[i] /\ g[i] = f[i + 1] /\ i + 1 \in 1..n /\ (i + 1) - 1 = i
    BY <1>3
  <2>2. Reaches(f[i], syms[i + 1], f[i + 1])
    BY <1>1, <2>1
  <2> QED
    BY <1>2, <2>1, <2>2
<1>7. Passes(f[1], Tail(syms))
  <2> HIDE DEF g
  <2> QED
    BY <1>2, <1>5, <1>6 DEF Passes
<1> QED
  BY <1>4, <1>7

LEMMA PassesAfter ==
  ASSUME NEW st \in Seq(State), NEW x \in Terminals, NEW t, Reaches(st, x, t),
         NEW syms \in Seq(Terminals), Passes(t, syms)
  PROVE  Passes(st, <<x>> \o syms)
<1>1. PICK f \in [0..Len(syms) -> Seq(State)] :
        f[0] = t /\ \A i \in 1..Len(syms) : Reaches(f[i - 1], syms[i], f[i])
  BY DEF Passes
<1> DEFINE all == <<x>> \o syms
           g == [i \in 0..(Len(syms) + 1) |-> IF i = 0 THEN st ELSE f[i - 1]]
<1>2. /\ Len(syms) \in Nat /\ Len(all) = Len(syms) + 1 /\ all[1] = x
      /\ \A i \in 1..Len(syms) : all[i + 1] = syms[i]
  OBVIOUS
<1>3. g \in [0..(Len(syms) + 1) -> Seq(State)] /\ g[0] = st
  BY <1>1, <1>2
<1>4. \A i \in 1..(Len(syms) + 1) : Reaches(g[i - 1], all[i], g[i])
  <2> TAKE i \in 1..(Len(syms) + 1)
  <2>1. CASE i = 1
    <3>1. g[i - 1] = st /\ g[i] = t /\ all[i] = x
      BY <1>1, <1>2, <2>1
    <3> QED
      BY <3>1
  <2>2. CASE i # 1
    <3>1. i - 1 \in 1..Len(syms) /\ (i - 1) + 1 = i
      BY <1>2, <2>2
    <3>2. g[i - 1] = f[(i - 1) - 1] /\ g[i] = f[i - 1] /\ all[i] = syms[i - 1]
      BY <1>2, <3>1, <2>2
    <3> QED
      BY <1>1, <3>1, <3>2
  <2> QED
    BY <2>1, <2>2
<1> HIDE DEF g, all
<1>5. Passes(st, all)
  BY <1>2, <1>3, <1>4 DEF Passes
<1> QED
  BY <1>5 DEF all

-----------------------------------------------------------------------------
(* Closing what is open.                                                   *)

Candidate == {"RBRACE", "RPAREN", "RBRACKET", "SEMI"}

LEMMA CandidateFacts ==
  /\ DOMAIN candidates = 1..4
  /\ \A i \in 1..4 : candidates[i] \in Candidate
  /\ Candidate \subseteq Terminals /\ "EOF" \notin Candidate
BY TerminalsAssumption DEF candidates, Candidate

\* A stack that shifted a token other than the end of input is not past the end.
LEMMA ShiftSimFacts ==
  ASSUME NEW st \in Seq(State), NEW x \in Terminals, NEW t \in shift_sim(st, x)
  PROVE  /\ t \in Seq(State) /\ Len(t) > 0
         /\ Reaches(st, x, t)
         /\ x # "EOF" => Top(t) \notin Past
<1>1. Reaches(st, x, t)
  BY AcceptableReaches
<1>2. t \in Seq(State) /\ Len(t) > 0 /\ Top(t) \in State /\ Accessing[Top(t)] = x
  BY <1>1, ReachesFacts
<1> QED
  BY <1>1, <1>2, EndAssumption

\* Only a state past the end accepts the end.
LEMMA EndNeedsPast ==
  ASSUME NEW st \in Seq(State), Len(st) > 0, Top(st) \notin Past
  PROVE  ~acceptable(st, End)
<1> DEFINE c == Simulate(st, End, 0, "none")
           n == 4 * Len(st) + 64
<1>1. c \in Simulation /\ n \in Nat \ {0}
  BY DEF Simulate, Simulation
<1>2. c.stack = st /\ c.count = 0 /\ c.lhs = "none" /\ c.symbol = End
  BY DEF Simulate
<1>3. Sim[n][c] = SimStep(Sim[n - 1], c)
  BY <1>1, SimUnfolds
<1>4. SubSeq(st, 1, Len(st) - 0) = st
  OBVIOUS
<1>5. yy_state(Top(st), End) = [kind |-> "error"]
  <2>1. Top(st) \in State
    BY DEF Top
  <2> QED
    BY <2>1 DEF yy_state, Past
<1>6. SimStep(Sim[n - 1], c) = {}
  <2> DEFINE t == SubSeq(c.stack, 1, Len(c.stack) - c.count)
             d == yy_state(Top(t), IF c.lhs = "none" THEN c.symbol ELSE c.lhs)
             h == Sim[n - 1]
             result ==
               CASE d.kind = "shift" /\ c.lhs = "none" -> {Append(t, d.next)}
                 [] d.kind = "shift" /\ c.lhs # "none" ->
                      h[Simulate(Append(t, d.next), c.symbol, 0, "none")]
                 [] Reduces(d) -> h[Simulate(t, c.symbol, d.count, d.lhs)]
                 [] d.kind = "accept" -> IF c.lhs = "none" THEN {t} ELSE {}
                 [] d.kind = "error" -> {}
  <2> HIDE DEF c, n
  <2>1. SimStep(h, c) = IF c.count >= Len(c.stack) THEN {} ELSE result
    BY Zenon DEF SimStep
  <2>2. t = st /\ d = [kind |-> "error"]
    BY <1>2, <1>4, <1>5
  <2>3. d.kind = "error"
    BY <2>2
  <2>4. result = {}
    <3> HIDE DEF t, d, h
    <3> QED
      BY <2>3 DEF Reduces
  <2> HIDE DEF result
  <2> QED
    BY <2>1, <2>4
<1> HIDE DEF c
<1> QED
  BY <1>3, <1>6 DEF acceptable, shift_sim, c

Closings == [Closing -> SUBSET Seq(Candidate)]

\* What one step of closing does, in cases.
LEMMA CloseStepFacts ==
  ASSUME NEW h \in Closings, NEW c \in Closing, NEW q \in CloseStep(h, c)
  PROVE  \/ q = << >> /\ acceptable(c.stack, c.held)
         \/ /\ ~acceptable(c.stack, c.held)
            /\ \E x \in Candidate : \E next \in shift_sim(c.stack, x) :
                 /\ [stack |-> next, held |-> c.held] \in Closing
                 /\ \E r \in h[[stack |-> next, held |-> c.held]] :
                      r \in Seq(Candidate) /\ q = <<x>> \o r
<1> DEFINE able == {i \in DOMAIN candidates : acceptable(c.stack, candidates[i])}
           first == CHOOSE i \in able : \A j \in able : i <= j
           next == CHOOSE s \in shift_sim(c.stack, candidates[first]) : TRUE
           d == [stack |-> next, held |-> c.held]
<1>1. q \in IF acceptable(c.stack, c.held) THEN {<< >>}
            ELSE IF able = {} THEN {}
            ELSE {<<candidates[first]>> \o r : r \in h[d]}
  BY Zenon DEF CloseStep
<1>2. CASE acceptable(c.stack, c.held)
  BY <1>1, <1>2
<1>3. CASE ~acceptable(c.stack, c.held)
  <2>1. able # {}
    <3> HIDE DEF able, first, d
    <3> QED
      BY <1>1, <1>3
  <2>2. \E r \in h[d] : q = <<candidates[first]>> \o r
    <3> HIDE DEF able, first, d
    <3> QED
      BY <1>1, <1>3, <2>1
  <2>3. able \subseteq Nat
    BY CandidateFacts
  <2>4. first \in able
    <3>1. \E i \in able : \A j \in able : i <= j
      <4> HIDE DEF able
      <4> QED
        BY <2>1, <2>3, LeastElement
    <3> HIDE DEF able
    <3> QED
      BY <3>1
  <2>5. candidates[first] \in Candidate /\ acceptable(c.stack, candidates[first])
    BY <2>4, CandidateFacts
  <2>6. next \in shift_sim(c.stack, candidates[first])
    <3> HIDE DEF first
    <3> QED
      BY <2>5 DEF acceptable
  <2>7. d \in Closing
    <3>1. c.stack \in Seq(State)
      BY DEF Closing
    <3>2. next \in Seq(State)
      <4> HIDE DEF next, first
      <4> QED
        BY <2>5, <2>6, <3>1, ShiftSimFacts, CandidateFacts
    <3> HIDE DEF next
    <3> QED
      BY <3>2 DEF Closing
  <2>8. h[d] \subseteq Seq(Candidate)
    <3> HIDE DEF d
    <3> QED
      BY <2>7 DEF Closings
  <2> DEFINE x == candidates[first]
  <2>9. /\ x \in Candidate /\ next \in shift_sim(c.stack, x) /\ d \in Closing
        /\ \E r \in h[d] : r \in Seq(Candidate) /\ q = <<x>> \o r
    <3> HIDE DEF able, first, next, d
    <3> QED
      BY <2>2, <2>5, <2>6, <2>7, <2>8
  <2> HIDE DEF x, next
  <2> QED
    BY <1>3, <2>9
<1> QED
  BY <1>2, <1>3

LEMMA CloseStepType ==
  ASSUME NEW h \in Closings
  PROVE  [c \in Closing |-> CloseStep(h, c)] \in Closings
<1> SUFFICES ASSUME NEW c \in Closing, NEW q \in CloseStep(h, c) PROVE q \in Seq(Candidate)
  BY DEF Closings
<1>1. \/ q = << >>
      \/ \E x \in Candidate : \E r \in Seq(Candidate) : q = <<x>> \o r
  BY CloseStepFacts
<1>2. CASE q = << >>
  BY <1>2
<1>3. ASSUME NEW x \in Candidate, NEW r \in Seq(Candidate), q = <<x>> \o r
      PROVE  q \in Seq(Candidate)
  <2>1. <<x>> \in Seq(Candidate)
    OBVIOUS
  <2> QED
    BY <1>3, <2>1
<1> QED
  BY <1>1, <1>2, <1>3

LEMMA CloseUnfolds ==
  /\ Close \in [Nat -> Closings]
  /\ \A n \in Nat : \A c \in Closing :
       Close[n][c] = IF n = 0 THEN {} ELSE CloseStep(Close[n - 1], c)
<1> DEFINE none == [c \in Closing |-> {}]
           step == [h \in Closings |-> [c \in Closing |-> CloseStep(h, c)]]
           Is(f) == f = [n \in Nat |-> [c \in Closing |->
                           IF n = 0 THEN {} ELSE CloseStep(f[n - 1], c)]]
<1>1. none \in Closings
  BY DEF Closings
<1>2. step \in [Closings -> Closings]
  BY CloseStepType
<1>3. PICK f \in [Nat -> Closings] : \A n \in Nat : f[n] = IF n = 0 THEN none ELSE step[f[n - 1]]
  <2> HIDE DEF none, step
  <2> QED
    BY <1>1, <1>2, Iterates
<1>4. ASSUME NEW n \in Nat
      PROVE  f[n] = [c \in Closing |-> IF n = 0 THEN {} ELSE CloseStep(f[n - 1], c)]
  <2>1. CASE n = 0
    BY <1>3, <2>1
  <2>2. CASE n # 0
    <3>1. f[n - 1] \in Closings
      BY <2>2
    <3>2. f[n] = [c \in Closing |-> CloseStep(f[n - 1], c)]
      BY <1>3, <2>2, <3>1
    <3> QED
      BY <2>2, <3>2
  <2> QED
    BY <2>1, <2>2
<1>5. Is(f)
  BY <1>4
<1>6. Is(Close)
  BY <1>5, Zenon DEF Close
<1>7. \A n \in Nat :
        Close[n] = [c \in Closing |-> IF n = 0 THEN {} ELSE CloseStep(Close[n - 1], c)]
  BY <1>6
<1>8. \A n \in Nat : Close[n] \in Closings
  <2> DEFINE S == {n \in Nat : Close[n] \in Closings}
  <2>1. 0 \in S
    <3>1. Close[0] = none
      BY <1>7
    <3> QED
      BY <1>1, <3>1
  <2>2. ASSUME NEW n \in Nat, n \in S PROVE n + 1 \in S
    <3>1. Close[n + 1] = [c \in Closing |-> CloseStep(Close[n], c)]
      BY <1>7
    <3> QED
      BY <2>2, <3>1, CloseStepType
  <2>3. Nat \subseteq S
    <3> HIDE DEF S
    <3> QED
      BY <2>1, <2>2, Induction
  <2> QED
    BY <2>3
<1>9. Close = [n \in Nat |-> Close[n]]
  BY <1>6, <1>7
<1>10. Close \in [Nat -> Closings]
  BY <1>8, <1>9
<1> QED
  BY <1>7, <1>10

\* What was inserted, and then the token held back, can be shifted.
LEMMA ClosePasses ==
  \A n \in Nat : \A c \in Closing : c.held \in Terminals =>
    \A q \in Close[n][c] : q \in Seq(Candidate) /\ Passes(c.stack, Append(q, c.held))
<1> DEFINE Good(n) == \A c \in Closing : c.held \in Terminals =>
             \A q \in Close[n][c] : q \in Seq(Candidate) /\ Passes(c.stack, Append(q, c.held))
           S == {n \in Nat : Good(n)}
<1>1. 0 \in S
  BY CloseUnfolds
<1>2. ASSUME NEW n \in Nat, n \in S PROVE n + 1 \in S
  <2> SUFFICES ASSUME NEW c \in Closing, c.held \in Terminals, NEW q \in Close[n + 1][c]
               PROVE  q \in Seq(Candidate) /\ Passes(c.stack, Append(q, c.held))
    OBVIOUS
  <2>1. q \in CloseStep(Close[n], c) /\ Close[n] \in Closings
    <3>1. n + 1 \in Nat /\ n + 1 # 0 /\ (n + 1) - 1 = n
      OBVIOUS
    <3> QED
      BY <3>1, CloseUnfolds
  <2>2. c.stack \in Seq(State)
    BY DEF Closing
  <2>3. CASE q = << >> /\ acceptable(c.stack, c.held)
    <3>1. PICK t : Reaches(c.stack, c.held, t)
      BY <2>2, <2>3, AcceptableReaches
    <3>2. t \in Seq(State)
      BY <2>2, <3>1, ReachesFacts
    <3>3. Passes(c.stack, <<c.held>> \o << >>)
      <4>1. << >> \in Seq(Terminals) /\ Passes(t, << >>)
        BY <3>2, PassesNothing
      <4> QED
        BY <2>2, <3>1, <4>1, PassesAfter
    <3>4. << >> \in Seq(Candidate) /\ <<c.held>> \o << >> = Append(<< >>, c.held)
      OBVIOUS
    <3> QED
      BY <2>3, <3>3, <3>4
  <2>4. ASSUME NEW x \in Candidate, NEW next \in shift_sim(c.stack, x),
               [stack |-> next, held |-> c.held] \in Closing,
               NEW r \in Close[n][[stack |-> next, held |-> c.held]], q = <<x>> \o r
        PROVE  q \in Seq(Candidate) /\ Passes(c.stack, Append(q, c.held))
    <3>1. r \in Seq(Candidate) /\ Passes(next, Append(r, c.held))
      <4> DEFINE d == [stack |-> next, held |-> c.held]
      <4>1. d.held = c.held /\ d.stack = next
        OBVIOUS
      <4>2. Good(n)
        BY <1>2
      <4>3. d \in Closing /\ r \in Close[n][d]
        BY <2>4
      <4> HIDE DEF d
      <4> QED
        BY <4>1, <4>2, <4>3
    <3>2. x \in Terminals /\ Candidate \subseteq Terminals
      BY CandidateFacts
    <3>3. Reaches(c.stack, x, next)
      BY <2>2, <3>2, ShiftSimFacts
    <3>4. Append(r, c.held) \in Seq(Terminals)
      BY <3>1, <3>2
    <3>5. Passes(c.stack, <<x>> \o Append(r, c.held))
      BY <2>2, <3>1, <3>2, <3>3, <3>4, PassesAfter
    <3>6. <<x>> \o Append(r, c.held) = Append(<<x>> \o r, c.held)
      BY <3>1
    <3>7. <<x>> \in Seq(Candidate) /\ <<x>> \o r \in Seq(Candidate)
      BY <3>1
    <3> QED
      BY <2>4, <3>5, <3>6, <3>7, Zenon
  <2>5. \/ q = << >> /\ acceptable(c.stack, c.held)
        \/ \E x \in Candidate : \E next \in shift_sim(c.stack, x) :
             /\ [stack |-> next, held |-> c.held] \in Closing
             /\ \E r \in Close[n][[stack |-> next, held |-> c.held]] : q = <<x>> \o r
    BY <2>1, CloseStepFacts, Zenon
  <2>6. CASE ~(q = << >> /\ acceptable(c.stack, c.held))
    <3>1. PICK x \in Candidate : \E next \in shift_sim(c.stack, x) :
            /\ [stack |-> next, held |-> c.held] \in Closing
            /\ \E r \in Close[n][[stack |-> next, held |-> c.held]] : q = <<x>> \o r
      BY <2>5, <2>6, Zenon
    <3>2. PICK next \in shift_sim(c.stack, x) :
            /\ [stack |-> next, held |-> c.held] \in Closing
            /\ \E r \in Close[n][[stack |-> next, held |-> c.held]] : q = <<x>> \o r
      BY <3>1, Zenon
    <3>3. PICK r \in Close[n][[stack |-> next, held |-> c.held]] : q = <<x>> \o r
      BY <3>2, Zenon
    <3> QED
      BY <2>4, <3>2, <3>3, Zenon
  <2> QED
    BY <2>3, <2>6, Zenon
<1>3. Nat \subseteq S
  <2> HIDE DEF S
  <2> QED
    BY <1>1, <1>2, Induction
<1> QED
  BY <1>3

\* Nothing that could be inserted makes the end of an input acceptable.
LEMMA EndStaysOpen ==
  \A n \in Nat : \A c \in Closing :
    c.held = End /\ Len(c.stack) > 0 /\ Top(c.stack) \notin Past => Close[n][c] = {}
<1> DEFINE Good(n) == \A c \in Closing :
             c.held = End /\ Len(c.stack) > 0 /\ Top(c.stack) \notin Past => Close[n][c] = {}
           S == {n \in Nat : Good(n)}
<1>1. 0 \in S
  BY CloseUnfolds
<1>2. ASSUME NEW n \in Nat, n \in S PROVE n + 1 \in S
  <2> SUFFICES ASSUME NEW c \in Closing, c.held = End, Len(c.stack) > 0,
                      Top(c.stack) \notin Past, NEW q \in Close[n + 1][c]
               PROVE  FALSE
    OBVIOUS
  <2>1. q \in CloseStep(Close[n], c) /\ Close[n] \in Closings
    <3>1. n + 1 \in Nat /\ n + 1 # 0 /\ (n + 1) - 1 = n
      OBVIOUS
    <3> QED
      BY <3>1, CloseUnfolds
  <2>2. c.stack \in Seq(State) /\ ~acceptable(c.stack, c.held)
    BY EndNeedsPast DEF Closing
  <2>3. PICK x \in Candidate : \E next \in shift_sim(c.stack, x) :
          /\ [stack |-> next, held |-> c.held] \in Closing
          /\ Close[n][[stack |-> next, held |-> c.held]] # {}
    BY <2>1, <2>2, CloseStepFacts
  <2>4. PICK next \in shift_sim(c.stack, x) :
          /\ [stack |-> next, held |-> c.held] \in Closing
          /\ Close[n][[stack |-> next, held |-> c.held]] # {}
    BY <2>3
  <2>5. Len(next) > 0 /\ Top(next) \notin Past
    BY <2>2, ShiftSimFacts, CandidateFacts
  <2> DEFINE d == [stack |-> next, held |-> c.held]
  <2>6. d.stack = next /\ d.held = End /\ d \in Closing /\ Close[n][d] # {}
    BY <2>4
  <2>7. Good(n)
    BY <1>2
  <2> HIDE DEF d
  <2> QED
    BY <2>5, <2>6, <2>7
<1>3. Nat \subseteq S
  <2> HIDE DEF S
  <2> QED
    BY <1>1, <1>2, Induction
<1> QED
  BY <1>3

-----------------------------------------------------------------------------
(* The two stacks.                                                         *)

Grounded == \A i \in 1..Len(stack) : Depth[stack[i]] <= i - 1

\* Nothing is in hand before the first token is read.
Unread == cursor = 0 => lookahead = NoToken /\ pending = << >>

IInv == TypeOK /\ StacksInStep /\ Grounded /\ Unread

-----------------------------------------------------------------------------
(* Facts about the tables.                                                 *)

LEMMA ReduceFacts ==
  ASSUME NEW s \in State, NEW x, Reduces(yy_state(s, x))
  PROVE  /\ yy_state(s, x).count \in Nat
         /\ yy_state(s, x).count <= Depth[s]
<1>1. x \in DOMAIN Table[s] /\ yy_state(s, x) = Table[s][x]
  BY DEF yy_state, Reduces
<1>2. Table[s][x] \in Decision
  BY <1>1, TableAssumption
<1>3. Table[s][x] \in [kind : {"reduce", "reduceNow"}, count : Nat, lhs : Symbol]
  BY <1>1, <1>2 DEF Decision, Reduces
<1> QED
  BY <1>1, <1>3, TableAssumption DEF Reduces

\* A reduction about to be made pops less than the whole stack.
LEMMA ReductionFits ==
  ASSUME IInv, Decides({"reduce", "reduceNow"})
  PROVE  Current.count \in 0..Len(data)
<1>1. Top(stack) \in State /\ Depth[Top(stack)] <= Len(data) /\ Len(data) \in Nat
  <2>1. stack \in Seq(State) /\ Len(stack) = Len(data) + 1 /\ Len(data) \in Nat
    BY DEF IInv, TypeOK, StacksInStep
  <2>2. Len(stack) \in 1..Len(stack) /\ Len(data) = Len(stack) - 1
    BY <2>1
  <2> QED
    BY <2>1, <2>2 DEF IInv, Grounded, Top
<1>2. Current.count \in Nat /\ Current.count <= Depth[Top(stack)]
  <2> DEFINE x == IF Decided THEN End ELSE lookahead.sym
  <2>1. Current = yy_state(Top(stack), x)
    BY DEF Current
  <2>2. Reduces(yy_state(Top(stack), x))
    BY <2>1 DEF Decides, Reduces
  <2> QED
    BY <1>1, <2>1, <2>2, ReduceFacts
<1> QED
  BY <1>1, <1>2, TableAssumption

-----------------------------------------------------------------------------
(* What the loop does to the stacks: push, reduce, unwind.                 *)

\* What auto_close inserts is tokens.
LEMMA AutoCloseFacts ==
  ASSUME stack \in Seq(State), lookahead \in Token,
         NEW q \in auto_close(stack, lookahead.sym)
  PROVE  /\ q \in Seq(Candidate) /\ q \in Seq(Terminals) /\ q # << >>
         /\ q \in Close[Len(stack)][[stack |-> stack, held |-> lookahead.sym]]
         /\ [stack |-> stack, held |-> lookahead.sym] \in Closing
<1> DEFINE c == [stack |-> stack, held |-> lookahead.sym]
<1>1. c \in Closing
  <2>1. lookahead.sym \in Symbol \cup {End}
    BY TerminalsAreSymbols DEF Token
  <2> QED
    BY <2>1 DEF Closing
<1>2. q \in Close[Len(stack)][c] /\ q # << >>
  BY DEF auto_close
<1>3. Len(stack) \in Nat
  OBVIOUS
<1> HIDE DEF c
<1>4. q \in Seq(Candidate)
  <2>1. Close[Len(stack)] \in Closings
    BY <1>3, CloseUnfolds
  <2> QED
    BY <1>1, <1>2, <2>1 DEF Closings
<1>5. q \in Seq(Terminals)
  BY <1>4, CandidateFacts
<1> QED
  BY <1>1, <1>2, <1>4, <1>5 DEF c

LEMMA Pushes ==
  ASSUME NEW S, NEW V, NEW st \in Seq(S), NEW va \in Seq(V), NEW s \in S, NEW v \in V,
         NEW acc, NEW dep \in [S -> Nat],
         Len(st) = Len(va) + 1,
         \A i \in 1..Len(va) : va[i].sym = acc[st[i + 1]],
         \A i \in 1..Len(st) : dep[st[i]] <= i - 1,
         v.sym = acc[s], dep[s] <= dep[st[Len(st)]] + 1
  PROVE  /\ Append(st, s) \in Seq(S)
         /\ Append(va, v) \in Seq(V)
         /\ Len(Append(st, s)) = Len(Append(va, v)) + 1
         /\ \A i \in 1..Len(Append(va, v)) :
              Append(va, v)[i].sym = acc[Append(st, s)[i + 1]]
         /\ \A i \in 1..Len(Append(st, s)) : dep[Append(st, s)[i]] <= i - 1
<1>1. /\ Append(st, s) \in Seq(S) /\ Len(Append(st, s)) = Len(st) + 1
      /\ \A i \in 1..Len(st) : Append(st, s)[i] = st[i]
      /\ Append(st, s)[Len(st) + 1] = s
  OBVIOUS
<1>2. /\ Append(va, v) \in Seq(V) /\ Len(Append(va, v)) = Len(va) + 1
      /\ \A i \in 1..Len(va) : Append(va, v)[i] = va[i]
      /\ Append(va, v)[Len(va) + 1] = v
  OBVIOUS
<1>3. ASSUME NEW i \in 1..(Len(va) + 1)
      PROVE  Append(va, v)[i].sym = acc[Append(st, s)[i + 1]]
  <2>1. CASE i = Len(va) + 1
    BY <1>1, <1>2, <2>1
  <2>2. CASE i \in 1..Len(va)
    <3>1. i + 1 \in 1..Len(st) /\ Append(st, s)[i + 1] = st[i + 1]
      BY <1>1, <2>2
    <3> QED
      BY <1>2, <2>2, <3>1
  <2> QED
    BY <2>1, <2>2
<1>4. ASSUME NEW i \in 1..(Len(st) + 1)
      PROVE  dep[Append(st, s)[i]] <= i - 1
  <2>1. CASE i = Len(st) + 1
    <3>1. dep[st[Len(st)]] <= Len(st) - 1 /\ dep[st[Len(st)]] \in Nat /\ dep[s] \in Nat
      OBVIOUS
    <3> QED
      BY <1>1, <2>1, <3>1
  <2>2. CASE i \in 1..Len(st)
    BY <1>1, <2>2
  <2> QED
    BY <2>1, <2>2
<1> QED
  BY <1>1, <1>2, <1>3, <1>4

LEMMA Unwinds ==
  ASSUME NEW S, NEW V, NEW st \in Seq(S), NEW va \in Seq(V), NEW n \in 1..Len(st),
         NEW acc, NEW dep,
         Len(st) = Len(va) + 1,
         \A i \in 1..Len(va) : va[i].sym = acc[st[i + 1]],
         \A i \in 1..Len(st) : dep[st[i]] <= i - 1
  PROVE  /\ SubSeq(st, 1, n) \in Seq(S) /\ Len(SubSeq(st, 1, n)) = n
         /\ SubSeq(va, 1, n - 1) \in Seq(V) /\ Len(SubSeq(va, 1, n - 1)) = n - 1
         /\ \A i \in 1..(n - 1) :
              SubSeq(va, 1, n - 1)[i].sym = acc[SubSeq(st, 1, n)[i + 1]]
         /\ \A i \in 1..n : dep[SubSeq(st, 1, n)[i]] <= i - 1
<1>1. /\ SubSeq(st, 1, n) \in Seq(S) /\ Len(SubSeq(st, 1, n)) = n
      /\ \A i \in 1..n : SubSeq(st, 1, n)[i] = st[i]
  OBVIOUS
<1>2. /\ SubSeq(va, 1, n - 1) \in Seq(V) /\ Len(SubSeq(va, 1, n - 1)) = n - 1
      /\ \A i \in 1..(n - 1) : SubSeq(va, 1, n - 1)[i] = va[i]
  OBVIOUS
<1> QED
  BY <1>1, <1>2

-----------------------------------------------------------------------------
(* The inductive invariant.                                                *)

LEMMA InvariantInitially == Init => IInv
<1> SUFFICES ASSUME Init PROVE IInv
  OBVIOUS
<1>1. tokens \in Seq(Terminals) /\ Len(tokens) \in Nat
  BY InputsAssumption DEF Init
<1>2. stack \in Seq(State) /\ Len(stack) = 1 /\ stack[1] = 0
  BY TableAssumption DEF Init
<1>3. /\ data \in Seq(Value) /\ Len(data) = 0
      /\ pending \in Seq(Token)
      /\ reports \in Seq([at : 0..Len(tokens) + 1, repair : {"insert", "close", "skip"}])
      /\ shifted \in Seq(State)
  BY TableAssumption DEF Init
<1>4. TypeOK
  BY <1>1, <1>2, <1>3 DEF Init, TypeOK, Nowhere
<1>5. StacksInStep
  BY <1>2, <1>3 DEF StacksInStep
<1>6. Grounded
  BY <1>2, TableAssumption DEF Grounded
<1>7. Unread
  BY DEF Init, Unread
<1> QED
  BY <1>4, <1>5, <1>6, <1>7 DEF IInv

LEMMA InvariantPreserved == IInv /\ [Next]_vars => IInv'
<1> SUFFICES ASSUME IInv, [Next]_vars PROVE IInv'
  OBVIOUS
<1> USE DEF IInv
<1>1. tokens \in Inputs /\ tokens \in Seq(Terminals) /\ Len(tokens) \in Nat
  BY InputsAssumption DEF TypeOK
<1>2. tokens' = tokens
  BY DEF Next, read, shift, reduce, accept, insertSemi, autoClose, skipTo, giveUp,
     limitReached, Returned, vars
<1>3. Value' = Value /\ Token' = Token /\ Nowhere' = Nowhere
  BY <1>2 DEF Value, Token, Nowhere
<1>4. CASE read
  <2>1. lookahead' \in Token \cup {NoToken} /\ pending' \in Seq(Token)
        /\ cursor' \in 0..Len(tokens)
    <3>1. CASE pending # << >>
      <4>1. pending \in Seq(Token) /\ cursor \in 0..Len(tokens)
        BY DEF TypeOK
      <4>2. Head(pending) \in Token /\ Tail(pending) \in Seq(Token)
        BY <3>1, <4>1
      <4> QED
        BY <1>4, <3>1, <4>1, <4>2 DEF read
    <3>2. CASE pending = << >> /\ cursor < Len(tokens)
      <4>1. cursor + 1 \in 1..Len(tokens) /\ tokens[cursor + 1] \in Terminals
        BY <1>1, <3>2 DEF TypeOK
      <4> QED
        BY <1>4, <3>2, <4>1 DEF read, TypeOK, Token
    <3>3. CASE pending = << >> /\ ~(cursor < Len(tokens))
      BY <1>1, <1>4, <3>3 DEF read, TypeOK, Token
    <3> QED
      BY <3>1, <3>2, <3>3
  <2>2. UNCHANGED <<tokens, stack, data, last_pos, last_insert, reports, shifted, phase>>
    BY <1>4 DEF read
  <2>3. cursor' # 0
    BY <1>1, <1>4, InputsAssumption DEF read, Unread, TypeOK
  <2> QED
    BY <1>3, <2>1, <2>2, <2>3 DEF TypeOK, StacksInStep, Grounded, Unread
<1>5. CASE shift
  <2> DEFINE x == lookahead.sym
             n == yy_state(Top(stack), x).next
  <2>1. Top(stack) \in State /\ Len(stack) \in Nat \ {0}
    BY DEF TypeOK, Top
  <2>2. Current = yy_state(Top(stack), x) /\ Current.kind = "shift"
    BY <1>5 DEF shift, Decides, Current, Decided
  <2>3. /\ x \in Symbol /\ n \in State /\ Accessing[n] = x
        /\ Depth[n] <= Depth[Top(stack)] + 1
    BY <2>1, <2>2, ShiftFacts
  <2>4. lookahead \in Token
    <3>1. CASE lookahead = NoToken
      <4>1. Decided
        BY <1>5, <3>1 DEF shift, Decides
      <4> QED
        BY <1>5, <2>2, <4>1 DEF shift, Decides, Current, Decided
    <3> QED
      BY <3>1 DEF TypeOK
  <2>5. Leaf(lookahead) \in Value /\ Leaf(lookahead).sym = x
    BY <1>1, <2>3, <2>4 DEF Leaf, Value, Token
  <2>6. stack' = Append(stack, n) /\ data' = Append(data, Leaf(lookahead))
        /\ shifted' = Append(stack, n) /\ lookahead' = NoToken
    BY <1>5, <2>2 DEF shift
  <2>7. /\ stack' \in Seq(State) /\ data' \in Seq(Value)
        /\ Len(stack') = Len(data') + 1
        /\ \A i \in 1..Len(data') : data'[i].sym = Accessing[stack'[i + 1]]
        /\ \A i \in 1..Len(stack') : Depth[stack'[i]] <= i - 1
    <3> HIDE DEF x, n
    <3>1. stack \in Seq(State) /\ data \in Seq(Value) /\ Depth \in [State -> Nat]
      BY TableAssumption DEF TypeOK
    <3>2. Depth[n] <= Depth[stack[Len(stack)]] + 1
      BY <2>3 DEF Top
    <3> DEFINE v == Leaf(lookahead)
    <3>3. v \in Value /\ v.sym = Accessing[n] /\ n \in State
      BY <2>3, <2>5
    <3>4. /\ Len(stack) = Len(data) + 1
          /\ \A i \in 1..Len(data) : data[i].sym = Accessing[stack[i + 1]]
          /\ \A i \in 1..Len(stack) : Depth[stack[i]] <= i - 1
      BY DEF StacksInStep, Grounded
    <3> HIDE DEF v, IInv
    <3>5. /\ Append(stack, n) \in Seq(State) /\ Append(data, v) \in Seq(Value)
          /\ Len(Append(stack, n)) = Len(Append(data, v)) + 1
          /\ \A i \in 1..Len(Append(data, v)) :
               Append(data, v)[i].sym = Accessing[Append(stack, n)[i + 1]]
          /\ \A i \in 1..Len(Append(stack, n)) : Depth[Append(stack, n)[i]] <= i - 1
      BY <3>1, <3>2, <3>3, <3>4, Pushes, SMTT(60)
    <3> QED
      BY <2>6, <3>5 DEF v
  <2>8. last_pos' \in 0..Len(tokens) /\ Len(stack') > 0
    BY <1>5, <2>1, <2>4, <2>6, <2>7 DEF shift, TypeOK, Token
  <2>9. UNCHANGED <<tokens, cursor, pending, last_insert, reports, phase>>
    BY <1>5 DEF shift
  <2>10. TypeOK'
    BY <1>3, <2>6, <2>7, <2>8, <2>9 DEF TypeOK
  <2> QED
    BY <2>6, <2>7, <2>9, <2>10 DEF StacksInStep, Grounded, Unread
<1>6. CASE reduce
  <2> DEFINE c == Current.count
             m == Len(stack) - c
             rest == SubSeq(stack, 1, m)
             kept == SubSeq(data, 1, Len(data) - c)
             args == SubSeq(data, Len(data) - c + 1, Len(data))
             n == yy_state(Top(rest), Current.lhs).next
             v == [sym |-> Current.lhs, yield |-> Below(args)]
  <2>1. c \in 0..Len(data)
    BY <1>6, ReductionFits DEF reduce
  <2>2. /\ stack \in Seq(State) /\ data \in Seq(Value) /\ Len(data) \in Nat
        /\ Len(stack) = Len(data) + 1 /\ Depth \in [State -> Nat]
    BY TableAssumption DEF TypeOK, StacksInStep
  <2>3. m \in 1..Len(stack) /\ Len(data) - c = m - 1
    BY <2>1, <2>2
  <2>4. /\ rest \in Seq(State) /\ Len(rest) = m
        /\ kept \in Seq(Value) /\ Len(kept) = m - 1
        /\ \A i \in 1..(m - 1) : kept[i].sym = Accessing[rest[i + 1]]
        /\ \A i \in 1..m : Depth[rest[i]] <= i - 1
    <3> HIDE DEF c, m
    <3> QED
      BY <2>2, <2>3, Unwinds, SMTT(60) DEF StacksInStep, Grounded
  <2>5. Top(rest) \in State
    BY <2>3, <2>4 DEF Top
  <2>6. /\ yy_state(Top(rest), Current.lhs).kind = "shift"
        /\ stack' = Append(rest, n)
        /\ data' = Append(kept, v)
    BY <1>6 DEF reduce
  <2>7. /\ Current.lhs \in Symbol /\ n \in State /\ Accessing[n] = Current.lhs
        /\ Depth[n] <= Depth[Top(rest)] + 1
    BY <2>5, <2>6, ShiftFacts
  <2>8. Below(args) \in SUBSET (1..Len(tokens))
    <3>1. args \in Seq(Value)
      BY <2>1, <2>2
    <3> HIDE DEF args
    <3>2. \A i \in DOMAIN args : args[i] \in Value
      BY <3>1
    <3>3. \A w \in Value : w.yield \in SUBSET (1..Len(tokens))
      BY DEF Value
    <3> QED
      BY <3>2, <3>3 DEF Below
  <2>9. v \in Value /\ v.sym = Current.lhs
    BY <2>7, <2>8 DEF Value
  <2>10. /\ stack' \in Seq(State) /\ data' \in Seq(Value)
         /\ Len(stack') = Len(data') + 1
         /\ \A i \in 1..Len(data') : data'[i].sym = Accessing[stack'[i + 1]]
         /\ \A i \in 1..Len(stack') : Depth[stack'[i]] <= i - 1
    <3> HIDE DEF c, m, rest, kept, args, n, v
    <3>1. Depth[n] <= Depth[rest[Len(rest)]] + 1
      BY <2>7 DEF Top
    <3>2. Len(rest) = Len(kept) + 1 /\ v.sym = Accessing[n]
      BY <2>3, <2>4, <2>7, <2>9
    <3>3. /\ \A i \in 1..Len(kept) : kept[i].sym = Accessing[rest[i + 1]]
          /\ \A i \in 1..Len(rest) : Depth[rest[i]] <= i - 1
      BY <2>4
    <3>4. rest \in Seq(State) /\ kept \in Seq(Value) /\ n \in State /\ v \in Value
          /\ Depth \in [State -> Nat]
      BY <2>2, <2>4, <2>7, <2>9
    <3>5. /\ Append(rest, n) \in Seq(State) /\ Append(kept, v) \in Seq(Value)
          /\ Len(Append(rest, n)) = Len(Append(kept, v)) + 1
          /\ \A i \in 1..Len(Append(kept, v)) :
               Append(kept, v)[i].sym = Accessing[Append(rest, n)[i + 1]]
          /\ \A i \in 1..Len(Append(rest, n)) : Depth[Append(rest, n)[i]] <= i - 1
      BY <3>1, <3>2, <3>3, <3>4, Pushes, SMTT(60)
    <3> QED
      BY <2>6, <3>5
  <2>11. UNCHANGED <<tokens, cursor, lookahead, pending, last_pos, last_insert, reports,
                     shifted, phase>>
    BY <1>6 DEF reduce
  <2>12. Len(stack') > 0
    BY <2>10
  <2>13. TypeOK'
    <3> HIDE DEF c, m, rest, kept, args, n, v
    <3> QED
      BY <1>3, <2>10, <2>11, <2>12 DEF TypeOK
  <2> QED
    BY <2>10, <2>11, <2>13 DEF StacksInStep, Grounded, Unread
<1>7. ASSUME NEW repair \in {"insert", "close", "skip"}, Report(repair)
      PROVE  reports' \in Seq([at : 0..Len(tokens) + 1, repair : {"insert", "close", "skip"}])
  <2> DEFINE at == IF lookahead.sym = End THEN Len(tokens) + 1 ELSE cursor
  <2>1. at \in 0..Len(tokens) + 1
    BY <1>1 DEF TypeOK
  <2>2. reports' = Append(reports, [at |-> at, repair |-> repair])
    BY <1>7 DEF Report
  <2> HIDE DEF at
  <2>3. [at |-> at, repair |-> repair]
          \in [at : 0..Len(tokens) + 1, repair : {"insert", "close", "skip"}]
    BY <2>1
  <2> QED
    BY <2>2, <2>3 DEF TypeOK
<1>8. Erring => lookahead \in Token /\ cursor # 0
  BY DEF Erring, Decides, Decided, Current, TypeOK, Unread
<1>9. ASSUME Erring, NEW syms \in Seq(Terminals), "EOF" \in Terminals
      PROVE  Append(pending \o Spliced(syms), Held) \in Seq(Token)
  <2>1. lookahead \in Token
    BY <1>9, <1>8
  <2>2. Held \in Token
    BY <1>9, <2>1 DEF Held, Token
  <2>3. Spliced(syms) \in Seq(Token)
    <3>1. \A i \in 1..Len(syms) : [sym |-> syms[i], at |-> 0] \in Token
      BY <1>1 DEF Token
    <3>2. Spliced(syms) = [i \in 1..Len(syms) |-> [sym |-> syms[i], at |-> 0]]
      BY DEF Spliced
    <3> QED
      BY <3>1, <3>2, IsASeq
  <2> QED
    BY <2>2, <2>3 DEF TypeOK
<1>10. CASE insertSemi
  <2>1. pending' \in Seq(Token)
    <3>1. <<"SEMI">> \in Seq(Terminals)
      BY TerminalsAssumption
    <3> QED
      BY <1>9, <1>10, <3>1, TerminalsAssumption DEF insertSemi
  <2>2. last_insert' \in 0..Nowhere /\ lookahead' = NoToken
    BY <1>1, <1>10 DEF insertSemi, TypeOK, Nowhere
  <2>3. UNCHANGED <<tokens, stack, data, cursor, last_pos, shifted, phase>>
    BY <1>10 DEF insertSemi
  <2>4. reports' \in Seq([at : 0..Len(tokens) + 1, repair : {"insert", "close", "skip"}])
    BY <1>7, <1>10 DEF insertSemi
  <2>5. cursor # 0
    BY <1>10, <1>8 DEF insertSemi
  <2> QED
    BY <1>3, <2>1, <2>2, <2>3, <2>4, <2>5 DEF TypeOK, StacksInStep, Grounded, Unread
<1>11. CASE autoClose
  <2>1. pending' \in Seq(Token)
    <3>1. PICK closers \in Closers : pending' = Append(pending \o Spliced(closers), Held)
      BY <1>11 DEF autoClose
    <3>2. closers \in auto_close(stack, lookahead.sym)
      BY <3>1 DEF Closers
    <3>3. lookahead \in Token /\ stack \in Seq(State)
      BY <1>8, <1>11 DEF autoClose, TypeOK
    <3>4. closers \in Seq(Terminals)
      BY <3>2, <3>3, AutoCloseFacts
    <3> QED
      BY <1>9, <1>11, <3>1, <3>4, TerminalsAssumption DEF autoClose
  <2>2. lookahead' = NoToken
    BY <1>11 DEF autoClose
  <2>3. UNCHANGED <<tokens, stack, data, cursor, last_pos, last_insert, shifted, phase>>
    BY <1>11 DEF autoClose
  <2>4. reports' \in Seq([at : 0..Len(tokens) + 1, repair : {"insert", "close", "skip"}])
    BY <1>7, <1>11 DEF autoClose
  <2>5. cursor # 0
    BY <1>11, <1>8 DEF autoClose
  <2> QED
    BY <1>3, <2>1, <2>2, <2>3, <2>4, <2>5 DEF TypeOK, StacksInStep, Grounded, Unread
<1>12. CASE skipTo
  <2>1. PICK at \in resync(tokens, cursor) : \E n \in Heights(tokens[at]) :
          /\ stack' = SubSeq(stack, 1, n)
          /\ data' = SubSeq(data, 1, n - 1)
          /\ cursor' = at
          /\ lookahead' = [sym |-> tokens[at], at |-> at]
    BY <1>12 DEF skipTo
  <2>2. PICK n \in Heights(tokens[at]) :
          /\ stack' = SubSeq(stack, 1, n)
          /\ data' = SubSeq(data, 1, n - 1)
          /\ cursor' = at
          /\ lookahead' = [sym |-> tokens[at], at |-> at]
    BY <2>1
  <2>3. n \in 1..Len(stack)
    BY DEF Heights
  <2>4. at \in cursor..Len(tokens) /\ cursor \in Nat
    BY DEF resync, TypeOK
  <2>5. at \in 1..Len(tokens)
    BY <1>1, <1>12, <1>8, <2>4 DEF skipTo
  <2>6. tokens[at] \in Terminals
    BY <1>1, <2>5
  <2>7. /\ stack' \in Seq(State) /\ Len(stack') = n
        /\ data' \in Seq(Value) /\ Len(data') = n - 1
        /\ \A i \in 1..(n - 1) : data'[i].sym = Accessing[stack'[i + 1]]
        /\ \A i \in 1..n : Depth[stack'[i]] <= i - 1
    <3>1. stack \in Seq(State) /\ data \in Seq(Value)
      BY DEF TypeOK
    <3>2. /\ SubSeq(stack, 1, n) \in Seq(State) /\ Len(SubSeq(stack, 1, n)) = n
          /\ SubSeq(data, 1, n - 1) \in Seq(Value) /\ Len(SubSeq(data, 1, n - 1)) = n - 1
          /\ \A i \in 1..(n - 1) :
               SubSeq(data, 1, n - 1)[i].sym = Accessing[SubSeq(stack, 1, n)[i + 1]]
          /\ \A i \in 1..n : Depth[SubSeq(stack, 1, n)[i]] <= i - 1
      BY <2>3, <3>1, Unwinds, SMTT(60) DEF StacksInStep, Grounded
    <3> QED
      BY <2>2, <3>2
  <2>8. reports' \in Seq([at : 0..Len(tokens) + 1, repair : {"insert", "close", "skip"}])
    BY <1>7, <1>12 DEF skipTo
  <2>9. lookahead' \in Token /\ cursor' \in 0..Len(tokens)
    BY <2>2, <2>5, <2>6 DEF Token
  <2>10. UNCHANGED <<tokens, pending, last_pos, last_insert, shifted, phase>>
    BY <1>12 DEF skipTo
  <2>11. TypeOK'
    BY <1>3, <2>3, <2>7, <2>8, <2>9, <2>10 DEF TypeOK
  <2>12. Len(stack') = Len(data') + 1
    BY <2>3, <2>7
  <2>13. StacksInStep'
    BY <2>7, <2>12 DEF StacksInStep
  <2>14. Grounded'
    BY <2>7 DEF Grounded
  <2>15. Unread'
    BY <2>2, <2>5 DEF Unread
  <2> QED
    BY <2>11, <2>13, <2>14, <2>15
<1>13. CASE giveUp
  <2>1. reports' \in Seq([at : 0..Len(tokens) + 1, repair : {"insert", "close", "skip"}])
    BY <1>7, <1>13 DEF giveUp
  <2> QED
    BY <1>3, <1>13, <2>1 DEF giveUp, TypeOK, StacksInStep, Grounded, Unread
<1>14. CASE accept \/ limitReached
  BY <1>3, <1>14 DEF accept, limitReached, TypeOK, StacksInStep, Grounded, Unread
<1>15. CASE UNCHANGED vars
  BY <1>3, <1>15 DEF vars, TypeOK, StacksInStep, Grounded, Unread
<1> QED
  BY <1>4, <1>5, <1>6, <1>10, <1>11, <1>12, <1>13, <1>14, <1>15 DEF Next, Returned

LEMMA InvariantHolds == Spec => []IInv
  BY InvariantInitially, InvariantPreserved, PTL DEF Spec

-----------------------------------------------------------------------------
(* The source tokens below a sequence of values.                           *)

InOrder(values) ==
  \A i, j \in DOMAIN values : i < j =>
    \A k \in values[i].yield, l \in values[j].yield : k < l

LEMMA BelowPush ==
  ASSUME NEW V, NEW va \in Seq(V), NEW v \in V
  PROVE  Below(Append(va, v)) = Below(va) \cup v.yield
<1>1. /\ DOMAIN Append(va, v) = 1..(Len(va) + 1) /\ DOMAIN va = 1..Len(va)
      /\ Len(va) \in Nat
      /\ \A i \in 1..Len(va) : Append(va, v)[i] = va[i]
      /\ Append(va, v)[Len(va) + 1] = v
  OBVIOUS
<1> DEFINE w == Append(va, v)
<1> HIDE DEF w
<1>2. DOMAIN w = 1..(Len(va) + 1) /\ w[Len(va) + 1] = v
      /\ \A i \in 1..Len(va) : w[i] = va[i]
  BY <1>1 DEF w
<1>3. ASSUME NEW x \in Below(w) PROVE x \in Below(va) \cup v.yield
  <2>1. PICK i \in DOMAIN w : x \in w[i].yield
    BY DEF Below
  <2>2. i = Len(va) + 1 \/ i \in 1..Len(va)
    BY <1>1, <1>2
  <2> QED
    BY <1>1, <1>2, <2>1, <2>2 DEF Below
<1>4. ASSUME NEW x \in Below(va) \cup v.yield PROVE x \in Below(w)
  <2>1. CASE x \in v.yield
    <3>1. Len(va) + 1 \in DOMAIN w
      BY <1>1, <1>2
    <3> QED
      BY <1>2, <2>1, <3>1 DEF Below
  <2>2. CASE x \in Below(va)
    <3>1. PICK i \in DOMAIN va : x \in va[i].yield
      BY <2>2 DEF Below
    <3>2. i \in DOMAIN w /\ w[i] = va[i]
      BY <1>1, <1>2
    <3> QED
      BY <3>1, <3>2 DEF Below
  <2> QED
    BY <2>1, <2>2
<1> QED
  BY <1>3, <1>4 DEF w

LEMMA BelowSplit ==
  ASSUME NEW V, NEW va \in Seq(V), NEW n \in 0..Len(va)
  PROVE  LET kept == SubSeq(va, 1, n)
             args == SubSeq(va, n + 1, Len(va))
         IN  /\ Below(va) = Below(kept) \cup Below(args)
             /\ InOrder(va) =>
                  InOrder(kept) /\ \A k \in Below(kept), l \in Below(args) : k < l
<1> DEFINE kept == SubSeq(va, 1, n)
           args == SubSeq(va, n + 1, Len(va))
<1>1. /\ DOMAIN kept = 1..n /\ DOMAIN args = 1..(Len(va) - n) /\ DOMAIN va = 1..Len(va)
      /\ Len(va) \in Nat
      /\ \A i \in 1..n : kept[i] = va[i]
      /\ \A i \in 1..(Len(va) - n) : args[i] = va[n + i]
  <2>1. Len(args) = Len(va) - n /\ args \in Seq(V)
    OBVIOUS
  <2>2. DOMAIN args = 1..(Len(va) - n)
    <3> HIDE DEF args
    <3> QED
      BY <2>1
  <2> QED
    BY <2>2
<1> HIDE DEF kept, args
<1>2. Below(kept) \subseteq Below(va)
  BY <1>1 DEF Below
<1>3. ASSUME NEW x \in Below(args) PROVE x \in Below(va)
  <2>1. PICK i \in DOMAIN args : x \in args[i].yield
    BY DEF Below
  <2>2. n + i \in DOMAIN va /\ x \in va[n + i].yield
    BY <1>1, <2>1
  <2> QED
    BY <2>2 DEF Below
<1>4. ASSUME NEW x \in Below(va) PROVE x \in Below(kept) \cup Below(args)
  <2>1. PICK i \in DOMAIN va : x \in va[i].yield
    BY DEF Below
  <2>2. CASE i <= n
    <3>1. i \in DOMAIN kept /\ kept[i] = va[i]
      BY <1>1, <2>2
    <3> QED
      BY <2>1, <3>1 DEF Below
  <2>3. CASE i > n
    <3>1. i - n \in DOMAIN args /\ args[i - n] = va[i]
      BY <1>1, <2>3
    <3> QED
      BY <2>1, <3>1 DEF Below
  <2> QED
    BY <1>1, <2>2, <2>3
<1>5. ASSUME InOrder(va) PROVE InOrder(kept)
  BY <1>1, <1>5 DEF InOrder
<1>6. ASSUME InOrder(va), NEW k \in Below(kept), NEW l \in Below(args) PROVE k < l
  <2>1. PICK i \in DOMAIN kept : k \in kept[i].yield
    BY DEF Below
  <2>2. PICK j \in DOMAIN args : l \in args[j].yield
    BY DEF Below
  <2>3. /\ i \in DOMAIN va /\ n + j \in DOMAIN va /\ i < n + j
        /\ k \in va[i].yield /\ l \in va[n + j].yield
    BY <1>1, <2>1, <2>2
  <2> QED
    BY <1>6, <2>3 DEF InOrder
<1> QED
  BY <1>2, <1>3, <1>4, <1>5, <1>6 DEF kept, args

LEMMA OrderPush ==
  ASSUME NEW V, NEW va \in Seq(V), NEW v \in V, InOrder(va),
         \A k \in Below(va), l \in v.yield : k < l
  PROVE  InOrder(Append(va, v))
<1> DEFINE w == Append(va, v)
<1>1. /\ DOMAIN w = 1..(Len(va) + 1) /\ DOMAIN va = 1..Len(va) /\ Len(va) \in Nat
      /\ \A i \in 1..Len(va) : w[i] = va[i]
      /\ w[Len(va) + 1] = v
  OBVIOUS
<1> HIDE DEF w
<1>2. ASSUME NEW i \in DOMAIN w, NEW j \in DOMAIN w, i < j,
             NEW k \in w[i].yield, NEW l \in w[j].yield
      PROVE  k < l
  <2>1. i \in DOMAIN va /\ w[i] = va[i]
    BY <1>1, <1>2
  <2>2. CASE j = Len(va) + 1
    <3>1. k \in Below(va)
      BY <2>1 DEF Below
    <3> QED
      BY <1>1, <2>2, <3>1
  <2>3. CASE j # Len(va) + 1
    <3>1. j \in DOMAIN va /\ w[j] = va[j]
      BY <1>1, <2>3
    <3> QED
      BY <1>2, <2>1, <3>1 DEF InOrder
  <2> QED
    BY <2>2, <2>3
<1>3. InOrder(w)
  BY <1>2 DEF InOrder
<1> QED
  BY <1>3 DEF w

-----------------------------------------------------------------------------
(* The second part of the invariant.                                       *)

Splice(t) == t.at = 0 /\ t.sym \in Candidate
Source(t) == cursor # 0 /\ t = [sym |-> tokens[cursor], at |-> cursor]
AtEnd == [sym |-> End, at |-> 0]

Hand ==
  /\ lookahead.sym = End => lookahead = AtEnd /\ cursor = Len(tokens) /\ pending = << >>
  /\ pending # << >> =>
       /\ \A i \in 1..(Len(pending) - 1) : Splice(pending[i])
       /\ Source(pending[Len(pending)])
       /\ lookahead # NoToken => Splice(lookahead)
  /\ pending = << >> => lookahead \in {NoToken, AtEnd} \/ Source(lookahead)

InFlight == pending # << >> \/ lookahead \notin {NoToken, AtEnd}

Consumed == IF InFlight THEN cursor - 1 ELSE cursor

Ahead ==
  /\ Top(stack) \in Past =>
       ~InFlight /\ lookahead = NoToken /\ cursor = Len(tokens) /\ tokens[cursor] = "EOF"
  /\ cursor = Len(tokens) /\ tokens[cursor] = "EOF" => Top(stack) \in Past \/ InFlight

Unskipped == \A i \in DOMAIN reports : reports[i].repair # "skip"

Eaten == /\ Below(data) \subseteq 1..Consumed
         /\ Unskipped => Below(data) = 1..Consumed

Bottom == stack[1] = 0

AcceptedPast == phase = "accepted" => Top(stack) \in Past

Last == reports[Len(reports)]

Behind == phase = "run" /\ reports # << >> => Last.at <= cursor

Here == IF lookahead.sym = End THEN Len(tokens) + 1 ELSE cursor

Reported == lookahead # NoToken /\ reports # << >> /\ Last.at = Here

Syms(toks) == [i \in 1..Len(toks) |-> toks[i].sym]

Promise ==
  phase = "run" /\ (pending # << >> \/ Reported) =>
    IF lookahead = NoToken THEN Passes(stack, Syms(pending))
    ELSE \E t : Reaches(stack, lookahead.sym, t) /\ Passes(t, Syms(pending))

RecoveryInv == /\ Hand /\ Ahead /\ InOrder(data) /\ Eaten /\ Bottom /\ AcceptedPast
        /\ Behind /\ Promise /\ EachTokenReportedOnce /\ GivesUpOnlyOutside

-----------------------------------------------------------------------------
(* Facts about a state.                                                    *)

LEMMA TypeFacts ==
  ASSUME IInv
  PROVE  /\ tokens \in Seq(Terminals) /\ Len(tokens) \in Nat \ {0}
         /\ \A i \in 1..(Len(tokens) - 1) : tokens[i] # "EOF"
         /\ \A i \in 1..Len(tokens) : tokens[i] \in Terminals
         /\ stack \in Seq(State) /\ Len(stack) \in Nat \ {0} /\ Top(stack) \in State
         /\ data \in Seq(Value) /\ Len(data) \in Nat /\ Len(stack) = Len(data) + 1
         /\ cursor \in 0..Len(tokens) /\ cursor \in Nat
         /\ lookahead \in Token \cup {NoToken}
         /\ pending \in Seq(Token) /\ Len(pending) \in Nat
         /\ reports \in Seq([at : 0..Len(tokens) + 1, repair : {"insert", "close", "skip"}])
         /\ "none" \notin Terminals /\ "none" # End /\ End \notin Terminals
         /\ "EOF" \in Terminals
<1>1. tokens \in Seq(Terminals) /\ tokens # << >>
      /\ \A i \in 1..(Len(tokens) - 1) : tokens[i] # "EOF"
  BY InputsAssumption DEF IInv, TypeOK
<1>2. stack \in Seq(State) /\ Len(stack) > 0 /\ data \in Seq(Value)
      /\ Len(stack) = Len(data) + 1
  BY DEF IInv, TypeOK, StacksInStep
<1>3. Len(stack) \in Nat \ {0} /\ Top(stack) \in State /\ Len(data) \in Nat
  BY <1>2 DEF Top
<1>4. Len(tokens) \in Nat \ {0} /\ \A i \in 1..Len(tokens) : tokens[i] \in Terminals
  BY <1>1
<1>5. cursor \in 0..Len(tokens) /\ cursor \in Nat
  BY <1>4 DEF IInv, TypeOK
<1>6. /\ lookahead \in Token \cup {NoToken}
      /\ pending \in Seq(Token) /\ Len(pending) \in Nat
      /\ reports \in Seq([at : 0..Len(tokens) + 1, repair : {"insert", "close", "skip"}])
  BY DEF IInv, TypeOK
<1>7. "none" \notin Terminals
  BY TableAssumption, TerminalsAreSymbols
<1>8. "none" # End /\ End \notin Terminals /\ "EOF" \in Terminals
  BY TerminalsAssumption DEF End
<1> QED
  BY <1>1, <1>2, <1>3, <1>4, <1>5, <1>6, <1>7, <1>8

\* A state that decides by itself is past the end of the input.
LEMMA DecidedFacts ==
  ASSUME IInv
  PROVE  /\ Decided <=> Top(stack) \in Past
         /\ ~Decided => yy_state(Top(stack), End).kind = "error"
<1>1. Top(stack) \in State
  BY TypeFacts
<1>2. CASE Top(stack) \in Past
  <2>1. yy_state(Top(stack), End) = Table[Top(stack)][End]
    BY <1>1, <1>2 DEF yy_state, Past
  <2>2. Table[Top(stack)][End].kind \in {"reduceNow", "accept"}
    BY <1>2, EndAssumption
  <2> QED
    BY <1>2, <2>1, <2>2 DEF Decided
<1>3. CASE Top(stack) \notin Past
  <2>1. yy_state(Top(stack), End) = [kind |-> "error"]
    BY <1>1, <1>3 DEF yy_state, Past
  <2>2. yy_state(Top(stack), End).kind = "error"
    BY <2>1
  <2> QED
    BY <1>3, <2>2 DEF Decided
<1> QED
  BY <1>2, <1>3

\* A step of the loop that is not past the end has a lookahead, and what it decides
\* is in the column of that.
LEMMA CurrentFacts ==
  ASSUME IInv, Hand, NEW kinds, Decides(kinds)
  PROVE  /\ phase = "run" /\ Current.kind \in kinds
         /\ \/ Top(stack) \in Past /\ Current = yy_state(Top(stack), End)
            \/ /\ Top(stack) \notin Past /\ lookahead # NoToken
               /\ Current = yy_state(Top(stack), lookahead.sym)
               /\ lookahead.sym \in Terminals \/ Current.kind = "error"
<1>1. phase = "run" /\ Current.kind \in kinds
  BY DEF Decides, Looping
<1>2. CASE Decided
  BY <1>1, <1>2, DecidedFacts DEF Current
<1>3. CASE ~Decided
  <2>1. lookahead # NoToken /\ Current = yy_state(Top(stack), lookahead.sym)
        /\ Top(stack) \notin Past
    BY <1>3, DecidedFacts DEF Decides, Current
  <2>2. lookahead \in Token
    BY <2>1, TypeFacts
  <2>3. lookahead.sym \in Terminals \cup {End}
    BY <2>2 DEF Token
  <2>4. CASE lookahead.sym = End
    BY <1>1, <1>3, <2>1, <2>4, DecidedFacts
  <2> QED
    BY <1>1, <2>1, <2>3, <2>4
<1> QED
  BY <1>2, <1>3

LEMMA LastFacts ==
  ASSUME IInv, reports # << >>
  PROVE  Last.at \in Nat
<1> DEFINE R == [at : 0..Len(tokens) + 1, repair : {"insert", "close", "skip"}]
<1>1. reports \in Seq(R)
  BY TypeFacts
<1>2. \A r \in R : r.at \in Nat
  BY TypeFacts
<1> HIDE DEF R
<1>3. Len(reports) \in 1..Len(reports)
  BY <1>1
<1> QED
  BY <1>1, <1>2, <1>3 DEF Last

\* The last report is before the end of the input.
LEMMA NotReportedAtEnd ==
  ASSUME IInv, Behind, phase = "run", lookahead.sym = End
  PROVE  ~Reported
<1>1. Here = Len(tokens) + 1 /\ cursor \in 0..Len(tokens) /\ Len(tokens) \in Nat
  BY TypeFacts DEF Here
<1>2. CASE reports # << >>
  <2>1. Last.at <= cursor
    BY <1>2 DEF Behind
  <2>2. Last.at \in Nat
    BY <1>2, LastFacts
  <2> QED
    BY <1>1, <2>1, <2>2 DEF Reported
<1> QED
  BY <1>2 DEF Reported

(***************************************************************************)
(* An error is at a token that was not spliced in and not complained about: *)
(* what was promised to pass does.                                          *)
(***************************************************************************)
LEMMA ErrorIsNew ==
  ASSUME IInv, RecoveryInv, Erring
  PROVE  /\ phase = "run" /\ pending = << >> /\ ~Reported
         /\ lookahead \in Token /\ cursor # 0
         /\ Top(stack) \notin Past
         /\ \/ lookahead.sym = End /\ lookahead = AtEnd /\ cursor = Len(tokens)
               /\ tokens[cursor] # "EOF" /\ ~InFlight
            \/ lookahead.sym \in Terminals /\ Source(lookahead) /\ InFlight
<1> USE DEF RecoveryInv
<1>1. /\ phase = "run" /\ Top(stack) \notin Past /\ lookahead # NoToken
      /\ yy_state(Top(stack), lookahead.sym).kind = "error"
  <2>1. Decides({"error"}) /\ Hand
    BY DEF Erring
  <2>2. CASE Top(stack) \in Past /\ Current = yy_state(Top(stack), End)
    <3>1. Decided
      BY <2>2, DecidedFacts
    <3> QED
      BY <2>1, <2>2, <3>1, CurrentFacts DEF Decided
  <2> QED
    BY <2>1, <2>2, CurrentFacts
<1>2. lookahead \in Token /\ cursor # 0 /\ lookahead.sym \in Terminals \cup {End}
  BY <1>1, TypeFacts DEF Token, IInv, Unread
<1>3. pending = << >> /\ ~Reported
  <2> SUFFICES ASSUME pending # << >> \/ Reported PROVE FALSE
    OBVIOUS
  <2>1. lookahead.sym \in Terminals
    BY <1>1, <1>2, NotReportedAtEnd DEF Hand
  <2>2. PICK t : Reaches(stack, lookahead.sym, t)
    BY <1>1 DEF Promise
  <2>3. stack \in Seq(State) /\ Len(stack) > 0
    BY TypeFacts
  <2>4. \/ yy_state(Top(stack), lookahead.sym).kind = "shift"
        \/ Reduces(yy_state(Top(stack), lookahead.sym))
    BY <2>1, <2>2, <2>3, LoopFollowsWalk
  <2> QED
    BY <1>1, <2>4 DEF Reduces
<1>4. CASE lookahead.sym = End
  BY <1>1, <1>2, <1>3, <1>4 DEF Hand, Ahead, InFlight
<1>5. CASE lookahead.sym \in Terminals
  <2>1. lookahead # AtEnd
    BY <1>5, TypeFacts DEF AtEnd
  <2> QED
    BY <1>1, <1>2, <1>3, <1>5, <2>1 DEF Hand, InFlight
<1> QED
  BY <1>1, <1>2, <1>3, <1>4, <1>5

\* One more error, at a place not complained about before.
LEMMA ReportFacts ==
  ASSUME IInv, RecoveryInv, Erring, NEW repair \in {"insert", "close", "skip"}, Report(repair)
  PROVE  /\ reports' # << >> /\ (Last.at)' = Here
         /\ EachTokenReportedOnce'
         /\ Unskipped' => Unskipped
         /\ repair = "skip" => ~Unskipped'
<1> DEFINE r == [at |-> Here, repair |-> repair]
           all == reports'
<1>1. all = Append(reports, r)
  BY DEF Report, Here
<1>2. /\ Len(all) = Len(reports) + 1 /\ Len(reports) \in Nat
      /\ DOMAIN all = 1..(Len(reports) + 1) /\ DOMAIN reports = 1..Len(reports)
      /\ \A i \in 1..Len(reports) : all[i] = reports[i]
      /\ all[Len(reports) + 1] = r
  <2> DEFINE R == [at : 0..Len(tokens) + 1, repair : {"insert", "close", "skip"}]
             w == Append(reports, r)
  <2>1. reports \in Seq(R)
    BY TypeFacts
  <2>2. Here \in 0..Len(tokens) + 1
    BY TypeFacts DEF Here
  <2>3. r \in R
    BY <2>2
  <2> HIDE DEF R, r
  <2>4. /\ Len(w) = Len(reports) + 1 /\ Len(reports) \in Nat
        /\ DOMAIN w = 1..(Len(reports) + 1) /\ DOMAIN reports = 1..Len(reports)
        /\ \A i \in 1..Len(reports) : w[i] = reports[i]
        /\ w[Len(reports) + 1] = r
    BY <2>1, <2>3
  <2> QED
    BY <1>1, <2>4
<1>3. \A i \in 1..Len(reports) : reports[i].at < Here
  <2> SUFFICES ASSUME NEW i \in 1..Len(reports) PROVE reports[i].at < Here
    OBVIOUS
  <2>1. \A j \in 1..Len(reports) : reports[j].at \in Nat
    <3> DEFINE R == [at : 0..Len(tokens) + 1, repair : {"insert", "close", "skip"}]
    <3>1. reports \in Seq(R)
      BY TypeFacts
    <3>2. \A x \in R : x.at \in Nat
      BY TypeFacts
    <3> HIDE DEF R
    <3> QED
      BY <3>1, <3>2
  <2>2. Len(reports) \in 1..Len(reports)
    BY <1>2
  <2>3. reports[i].at <= Last.at
    <3>1. CASE i = Len(reports)
      BY <2>1, <2>2, <3>1 DEF Last
    <3>2. CASE i < Len(reports)
      BY <1>2, <2>1, <2>2, <3>2 DEF Last, RecoveryInv, EachTokenReportedOnce
    <3> QED
      BY <2>2, <3>1, <3>2
  <2>4. reports # << >>
    BY <1>2
  <2>5. Last.at <= cursor /\ Last.at # Here
    <3>1. phase = "run" /\ ~Reported /\ lookahead # NoToken
      BY ErrorIsNew, TypeFacts DEF Token, NoToken
    <3> QED
      BY <2>4, <3>1 DEF RecoveryInv, Behind, Reported
  <2>6. cursor <= Here /\ cursor \in Nat /\ Here \in Nat
    BY TypeFacts DEF Here
  <2>7. Last.at \in Nat
    BY <2>1, <2>2 DEF Last
  <2> QED
    BY <2>1, <2>3, <2>5, <2>6, <2>7
<1> HIDE DEF r
<1>4. r.at = Here /\ r.repair = repair
  BY DEF r
<1>5. EachTokenReportedOnce'
  <2>1. ASSUME NEW i \in DOMAIN all, NEW j \in DOMAIN all, i < j
        PROVE  all[i].at < all[j].at
    <3>1. i \in 1..Len(reports) /\ all[i] = reports[i]
      BY <1>2, <2>1
    <3>2. CASE j = Len(reports) + 1
      BY <1>2, <1>3, <1>4, <3>1, <3>2
    <3>3. CASE j \in 1..Len(reports)
      BY <1>2, <2>1, <3>1, <3>3 DEF RecoveryInv, EachTokenReportedOnce
    <3> QED
      BY <1>2, <3>2, <3>3
  <2> QED
    BY <2>1 DEF EachTokenReportedOnce
<1>6. reports' # << >> /\ (Last.at)' = Here
  BY <1>2, <1>4 DEF Last
<1>7. Unskipped' => Unskipped
  BY <1>2 DEF Unskipped
<1>8. repair = "skip" => ~Unskipped'
  <2>1. Len(reports) + 1 \in DOMAIN all /\ all[Len(reports) + 1].repair = repair
    BY <1>2, <1>4
  <2> QED
    BY <2>1 DEF Unskipped
<1> QED
  BY <1>5, <1>6, <1>7, <1>8

LEMMA PendingFacts ==
  ASSUME IInv
  PROVE  /\ \A i \in 1..Len(pending) : pending[i].sym \in Terminals \cup {End}
         /\ pending # << >> =>
              /\ Head(pending) = pending[1] /\ Len(pending) > 0
              /\ Len(Tail(pending)) = Len(pending) - 1
              /\ \A i \in 1..(Len(pending) - 1) : Tail(pending)[i] = pending[i + 1]
              /\ Tail(pending) \in Seq(Token)
              /\ Syms(pending) # << >> /\ Head(Syms(pending)) = pending[1].sym
              /\ Tail(Syms(pending)) = Syms(Tail(pending))
<1>1. pending \in Seq(Token) /\ Len(pending) \in Nat
  BY TypeFacts
<1>2. \A i \in 1..Len(pending) : pending[i].sym \in Terminals \cup {End}
  <2>1. \A i \in 1..Len(pending) : pending[i] \in Token
    BY <1>1
  <2> QED
    BY <2>1 DEF Token
<1>3. ASSUME pending # << >>
      PROVE  /\ Head(pending) = pending[1] /\ Len(pending) > 0
             /\ Len(Tail(pending)) = Len(pending) - 1
             /\ \A i \in 1..(Len(pending) - 1) : Tail(pending)[i] = pending[i + 1]
             /\ Tail(pending) \in Seq(Token)
             /\ Syms(pending) # << >> /\ Head(Syms(pending)) = pending[1].sym
             /\ Tail(Syms(pending)) = Syms(Tail(pending))
  <2>1. /\ Head(pending) = pending[1] /\ Len(pending) > 0
        /\ Len(Tail(pending)) = Len(pending) - 1
        /\ \A i \in 1..(Len(pending) - 1) : Tail(pending)[i] = pending[i + 1]
        /\ Tail(pending) \in Seq(Token)
    BY <1>1, <1>3
  <2> DEFINE s == Syms(pending)
             u == Syms(Tail(pending))
  <2>2. /\ s \in Seq(Terminals \cup {End}) /\ Len(s) = Len(pending)
        /\ \A i \in 1..Len(pending) : s[i] = pending[i].sym
    <3>1. s = [i \in 1..Len(pending) |-> pending[i].sym]
      BY DEF Syms
    <3> QED
      BY <1>1, <1>2, <3>1, IsASeq
  <2>3. u = [i \in 1..(Len(pending) - 1) |-> pending[i + 1].sym]
    BY <2>1 DEF Syms
  <2> HIDE DEF s, u
  <2>4. s # << >> /\ Head(s) = pending[1].sym
    BY <1>1, <2>1, <2>2
  <2>5. /\ Tail(s) \in Seq(Terminals \cup {End}) /\ Len(Tail(s)) = Len(pending) - 1
        /\ \A i \in 1..(Len(pending) - 1) : Tail(s)[i] = s[i + 1]
    BY <1>1, <2>1, <2>2
  <2>6. Tail(s) = u
    <3>1. \A i \in 1..(Len(pending) - 1) : s[i + 1] = pending[i + 1].sym
                                            /\ s[i + 1] \in Terminals \cup {End}
      BY <1>1, <1>2, <2>2
    <3>2. u \in Seq(Terminals \cup {End}) /\ Len(u) = Len(pending) - 1
      <4>1. Len(pending) - 1 \in Nat
        BY <1>1, <2>1
      <4> QED
        BY <2>3, <3>1, <4>1, IsASeq
    <3>3. \A i \in 1..Len(u) : Tail(s)[i] = u[i]
      BY <2>3, <2>5, <3>1, <3>2
    <3> QED
      BY <2>5, <3>2, <3>3, SeqEqual
  <2> QED
    BY <2>1, <2>4, <2>6 DEF s, u
<1> QED
  BY <1>2, <1>3

\* All tokens in `pending` are tokens of the grammar.
LEMMA PendingTokens ==
  ASSUME IInv, Hand
  PROVE  /\ Syms(pending) \in Seq(Terminals)
         /\ pending # << >> => pending[1].sym \in Terminals
<1>1. pending \in Seq(Token) /\ Len(pending) \in Nat
  BY TypeFacts
<1>2. \A i \in 1..Len(pending) : pending[i].sym \in Terminals
  <2> SUFFICES ASSUME NEW i \in 1..Len(pending) PROVE pending[i].sym \in Terminals
    OBVIOUS
  <2>1. pending # << >>
    BY <1>1
  <2>2. CASE i = Len(pending)
    <3>1. pending[i] = [sym |-> tokens[cursor], at |-> cursor] /\ cursor # 0
      BY <2>1, <2>2 DEF Hand, Source
    <3>2. cursor \in 1..Len(tokens)
      <4>1. cursor \in 0..Len(tokens) /\ Len(tokens) \in Nat
        BY TypeFacts
      <4> QED
        BY <3>1, <4>1
    <3>3. tokens[cursor] \in Terminals
      BY <3>2, TypeFacts
    <3> QED
      BY <3>1, <3>3
  <2>3. CASE i \in 1..(Len(pending) - 1)
    BY <2>1, <2>3, CandidateFacts DEF Hand, Splice
  <2> QED
    BY <1>1, <2>2, <2>3
<1>3. Syms(pending) \in Seq(Terminals)
  BY <1>1, <1>2, IsASeq DEF Syms
<1> QED
  BY <1>1, <1>2, <1>3

\* Below 1..n, when n is one more.
LEMMA Grows ==
  ASSUME NEW n \in Nat \ {0}
  PROVE  1..n = (1..(n - 1)) \cup {n}
OBVIOUS

\* What a step of the loop leaves alone carries its part of the invariant over.
LEMMA QuietParts ==
  ASSUME RecoveryInv, UNCHANGED <<tokens, stack, data, reports>>
  PROVE  /\ InOrder(data)' /\ Bottom' /\ EachTokenReportedOnce' /\ (Unskipped' <=> Unskipped)
         /\ (Top(stack) \in Past)' <=> Top(stack) \in Past
BY DEF RecoveryInv, InOrder, Bottom, EachTokenReportedOnce, Unskipped, Top

LEMMA PreservedByRead ==
  ASSUME IInv, RecoveryInv, read
  PROVE  RecoveryInv'
<1>1. /\ UNCHANGED <<tokens, stack, data, reports, phase>>
      /\ phase = "run" /\ lookahead = NoToken /\ ~Decided /\ Top(stack) \notin Past
  BY DecidedFacts DEF read, Looping
<1>2. /\ InOrder(data)' /\ Bottom' /\ EachTokenReportedOnce' /\ (Unskipped' <=> Unskipped)
      /\ (Top(stack) \in Past)' <=> Top(stack) \in Past
  BY <1>1, QuietParts
<1>3. AcceptedPast' /\ GivesUpOnlyOutside'
  BY <1>1 DEF AcceptedPast, GivesUpOnlyOutside
<1>4. /\ cursor \in Nat /\ Len(tokens) \in Nat \ {0} /\ cursor <= Len(tokens)
      /\ \A i \in 1..Len(tokens) : tokens[i] \in Terminals
      /\ "none" \notin Terminals /\ End \notin Terminals /\ "none" # End
  BY TypeFacts
<1>5. CASE pending # << >>
  <2>1. lookahead' = pending[1] /\ pending' = Tail(pending) /\ cursor' = cursor
    BY <1>5, PendingFacts DEF read
  <2>2. /\ Len(pending) \in Nat \ {0} /\ Len(pending') = Len(pending) - 1
        /\ \A i \in 1..(Len(pending) - 1) : pending'[i] = pending[i + 1]
    BY <1>5, <2>1, PendingFacts, TypeFacts
  <2>3. /\ \A i \in 1..(Len(pending) - 1) : Splice(pending[i])
        /\ Source(pending[Len(pending)])
    BY <1>5 DEF RecoveryInv, Hand
  <2>4. lookahead'.sym \in Terminals
    BY <1>5, <2>1, PendingTokens DEF RecoveryInv
  <2>5. pending' = << >> <=> Len(pending) = 1
    <3>1. pending' \in Seq(Token)
      BY <1>5, <2>1, PendingFacts
    <3> QED
      BY <2>2, <3>1
  <2>6. lookahead' # NoToken /\ lookahead' # AtEnd /\ lookahead'.sym # End
    BY <1>4, <2>4 DEF NoToken, AtEnd
  <2>7. Hand'
    <3>1. CASE Len(pending) = 1
      <4>1. Source(lookahead)'
        BY <1>1, <2>1, <2>3, <3>1 DEF Source
      <4> QED
        BY <2>5, <2>6, <3>1, <4>1 DEF Hand
    <3>2. CASE Len(pending) > 1
      <4>1. Splice(lookahead)'
        BY <2>1, <2>2, <2>3, <3>2 DEF Splice
      <4>2. pending'[Len(pending')] = pending[Len(pending)]
        BY <2>2, <3>2
      <4>3. Source(pending[Len(pending)])'
        BY <1>1, <2>1, <2>3, <4>2 DEF Source
      <4>4. \A i \in 1..(Len(pending') - 1) : Splice(pending'[i])
        BY <2>2, <2>3
      <4> QED
        BY <2>2, <2>5, <2>6, <3>2, <4>1, <4>3, <4>4 DEF Hand, Splice
    <3> QED
      BY <2>2, <3>1, <3>2
  <2>8. InFlight' /\ InFlight /\ Consumed' = Consumed
    BY <1>5, <2>1, <2>6 DEF InFlight, Consumed, AtEnd, NoToken
  <2>9. Ahead' /\ Eaten'
    BY <1>1, <1>2, <2>8 DEF RecoveryInv, Ahead, Eaten
  <2>10. Behind'
    BY <1>1, <2>1 DEF RecoveryInv, Behind, Last
  <2>11. Promise'
    <3>1. Passes(stack, Syms(pending))
      BY <1>1, <1>5 DEF RecoveryInv, Promise
    <3>2. stack \in Seq(State) /\ Syms(pending) \in Seq(Terminals)
      BY TypeFacts, PendingTokens DEF RecoveryInv
    <3>3. PICK t : Reaches(stack, Head(Syms(pending)), t) /\ Passes(t, Tail(Syms(pending)))
      BY <1>5, <3>1, <3>2, PendingFacts, PassesOn
    <3>4. Reaches(stack, lookahead'.sym, t) /\ Passes(t, Syms(pending'))
      BY <1>5, <2>1, <3>3, PendingFacts
    <3> QED
      BY <1>1, <2>6, <3>4 DEF Promise
  <2> QED
    BY <1>2, <1>3, <2>7, <2>9, <2>10, <2>11 DEF RecoveryInv
<1>6. CASE pending = << >> /\ cursor < Len(tokens)
  <2>1. /\ lookahead' = [sym |-> tokens[cursor + 1], at |-> cursor + 1]
        /\ cursor' = cursor + 1 /\ pending' = << >>
    BY <1>6 DEF read
  <2>2. tokens[cursor + 1] \in Terminals /\ cursor + 1 # 0
    BY <1>4, <1>6
  <2>3. lookahead' # NoToken /\ lookahead' # AtEnd /\ lookahead'.sym # End
    BY <1>4, <2>1, <2>2 DEF NoToken, AtEnd
  <2>4. Hand'
    BY <1>1, <2>1, <2>2, <2>3 DEF Hand, Source
  <2>5. InFlight' /\ ~InFlight
    BY <1>1, <1>6, <2>3 DEF InFlight, AtEnd, NoToken
  <2>6. Consumed' = Consumed
    BY <1>4, <2>1, <2>5 DEF Consumed
  <2>7. Ahead' /\ Eaten'
    BY <1>1, <1>2, <2>5, <2>6 DEF RecoveryInv, Ahead, Eaten
  <2>8. Behind' /\ ~Reported'
    <3>1. CASE reports = << >>
      BY <1>1, <3>1 DEF Behind, Reported
    <3>2. CASE reports # << >>
      <4>1. Last.at <= cursor /\ Last' = Last
        BY <1>1, <3>2 DEF RecoveryInv, Behind, Last
      <4>2. Here' = cursor + 1
        BY <2>1, <2>3 DEF Here
      <4>3. Last.at \in Nat
        BY <3>2, LastFacts
      <4> QED
        BY <1>4, <2>1, <4>1, <4>2, <4>3 DEF Behind, Reported
    <3> QED
      BY <3>1, <3>2
  <2>9. Promise'
    BY <2>1, <2>8 DEF Promise
  <2> QED
    BY <1>2, <1>3, <2>4, <2>7, <2>8, <2>9 DEF RecoveryInv
<1>7. CASE pending = << >> /\ ~(cursor < Len(tokens))
  <2>1. lookahead' = AtEnd /\ cursor' = cursor /\ pending' = << >>
    BY <1>7 DEF read, AtEnd
  <2>2. cursor = Len(tokens)
    BY <1>4, <1>7
  <2>3. Hand'
    BY <1>1, <2>1, <2>2 DEF Hand, AtEnd
  <2>4. ~InFlight' /\ ~InFlight
    BY <1>1, <1>7, <2>1 DEF InFlight, AtEnd, NoToken
  <2>5. Consumed' = Consumed
    BY <2>1, <2>4 DEF Consumed
  <2>6. Ahead'
    BY <1>1, <1>2, <2>1, <2>2, <2>4 DEF RecoveryInv, Ahead
  <2>7. Eaten'
    BY <1>1, <1>2, <2>5 DEF RecoveryInv, Eaten
  <2>8. Behind'
    BY <1>1, <2>1 DEF RecoveryInv, Behind, Last
  <2>9. ~Reported'
    <3>1. CASE reports = << >>
      BY <1>1, <3>1 DEF Reported
    <3>2. CASE reports # << >>
      <4>1. Last.at <= cursor /\ Last' = Last
        BY <1>1, <3>2 DEF RecoveryInv, Behind, Last
      <4>2. Here' = Len(tokens) + 1
        BY <1>1, <2>1 DEF Here, AtEnd
      <4>3. Last.at \in Nat
        BY <3>2, LastFacts
      <4> QED
        BY <1>4, <2>2, <4>1, <4>2, <4>3 DEF Reported
    <3> QED
      BY <3>1, <3>2
  <2>10. Promise'
    BY <2>1, <2>9 DEF Promise
  <2> QED
    BY <1>2, <1>3, <2>3, <2>6, <2>7, <2>8, <2>10 DEF RecoveryInv
<1> QED
  BY <1>5, <1>6, <1>7

LEMMA PreservedByShift ==
  ASSUME IInv, RecoveryInv, shift
  PROVE  RecoveryInv'
<1> DEFINE x == lookahead.sym
           n == yy_state(Top(stack), x).next
<1>1. /\ phase = "run" /\ Top(stack) \notin Past /\ lookahead # NoToken
      /\ Current = yy_state(Top(stack), x) /\ Current.kind = "shift" /\ x \in Terminals
  <2>1. Decides({"shift"}) /\ Hand
    BY DEF shift, RecoveryInv
  <2>2. yy_state(Top(stack), End).kind # "shift" \/ Top(stack) \notin Past
    BY DecidedFacts DEF Decided
  <2> QED
    BY <2>1, <2>2, CurrentFacts
<1>2. /\ UNCHANGED <<tokens, cursor, pending, reports, phase>>
      /\ stack' = Append(stack, n) /\ data' = Append(data, Leaf(lookahead))
      /\ lookahead' = NoToken
  BY <1>1 DEF shift
<1>3. /\ cursor \in Nat /\ Len(tokens) \in Nat \ {0} /\ cursor <= Len(tokens)
      /\ \A i \in 1..(Len(tokens) - 1) : tokens[i] # "EOF"
      /\ Top(stack) \in State /\ stack \in Seq(State) /\ Len(stack) > 0
      /\ data \in Seq(Value) /\ End \notin Terminals
      /\ "none" # End /\ lookahead \in Token
  BY <1>1, TypeFacts
<1>4. n \in State /\ Accessing[n] = x
  BY <1>1, <1>3, ShiftFacts
<1>5. Top(stack)' = n /\ stack'[1] = stack[1] /\ stack' \in Seq(State)
  BY <1>2, <1>3, <1>4 DEF Top
<1>6. n \in Past <=> x = "EOF"
  BY <1>1, <1>4, EndAssumption
<1>7. \/ pending # << >> /\ Splice(lookahead)
      \/ pending = << >> /\ Source(lookahead)
  BY <1>1, <1>3 DEF RecoveryInv, Hand, AtEnd
<1>8. InFlight /\ (InFlight' <=> pending # << >>)
  BY <1>1, <1>2, <1>3 DEF InFlight, AtEnd, NoToken
<1>9. /\ EachTokenReportedOnce' /\ (Unskipped' <=> Unskipped) /\ Bottom'
      /\ AcceptedPast' /\ GivesUpOnlyOutside' /\ Behind'
  BY <1>1, <1>2, <1>5 DEF RecoveryInv, EachTokenReportedOnce, Unskipped, Bottom, AcceptedPast,
     GivesUpOnlyOutside, Behind, Last
<1>10. Hand'
  BY <1>2, <1>3 DEF RecoveryInv, Hand, Source, NoToken
<1>11. Ahead'
  <2>1. ASSUME n \in Past
        PROVE  pending = << >> /\ cursor = Len(tokens) /\ tokens[cursor] = "EOF"
    <3>1. x = "EOF" /\ ~Splice(lookahead)
      BY <1>6, <2>1, CandidateFacts DEF Splice
    <3>2. pending = << >> /\ cursor # 0 /\ tokens[cursor] = "EOF"
      BY <1>7, <3>1 DEF Source
    <3> QED
      BY <1>3, <3>2
  <2>2. ASSUME cursor = Len(tokens), tokens[cursor] = "EOF", pending = << >> PROVE n \in Past
    BY <1>6, <1>7, <2>2 DEF Source
  <2> QED
    BY <1>2, <1>5, <1>8, <2>1, <2>2 DEF Ahead
<1>12. Leaf(lookahead) \in Value /\ Leaf(lookahead).yield = {lookahead.at} \ {0}
  <2>1. lookahead.at \in 0..Len(tokens) /\ x \in Symbol
    BY <1>1, <1>3, TerminalsAreSymbols DEF Token
  <2> QED
    BY <1>3, <2>1 DEF Leaf, Value
<1>13. /\ Below(data)' = Below(data) \cup ({lookahead.at} \ {0})
       /\ \/ Consumed' = Consumed /\ lookahead.at = 0
          \/ /\ Consumed = cursor - 1 /\ Consumed' = cursor /\ lookahead.at = cursor
             /\ cursor # 0
  <2>1. Below(data)' = Below(data) \cup ({lookahead.at} \ {0})
    <3>1. Below(Append(data, Leaf(lookahead))) = Below(data) \cup Leaf(lookahead).yield
      BY <1>3, <1>12, BelowPush
    <3> QED
      BY <1>2, <1>12, <3>1
  <2>2. CASE pending # << >> /\ Splice(lookahead)
    BY <1>2, <1>8, <2>1, <2>2 DEF Consumed, Splice
  <2>3. CASE pending = << >> /\ Source(lookahead)
    BY <1>2, <1>8, <2>1, <2>3 DEF Consumed, Source
  <2> QED
    BY <1>7, <2>1, <2>2, <2>3
<1>14. Eaten'
  <2>1. CASE Consumed' = Consumed /\ lookahead.at = 0
    BY <1>9, <1>13, <2>1 DEF RecoveryInv, Eaten
  <2>2. CASE /\ Consumed = cursor - 1 /\ Consumed' = cursor /\ lookahead.at = cursor
             /\ cursor # 0
    <3>1. 1..cursor = (1..(cursor - 1)) \cup {cursor}
      BY <1>3, <2>2, Grows
    <3> QED
      BY <1>9, <1>13, <2>2, <3>1 DEF RecoveryInv, Eaten
  <2> QED
    BY <1>13, <2>1, <2>2
<1>15. InOrder(data)'
  <2>1. \A k \in Below(data), l \in Leaf(lookahead).yield : k < l
    BY <1>3, <1>12, <1>13 DEF RecoveryInv, Eaten
  <2>2. InOrder(Append(data, Leaf(lookahead)))
    BY <1>3, <1>12, <2>1, OrderPush DEF RecoveryInv
  <2> QED
    BY <1>2, <2>2
<1>16. Promise'
  <2> SUFFICES ASSUME pending # << >> PROVE Passes(stack', Syms(pending))
    BY <1>1, <1>2 DEF Promise, Reported
  <2>1. PICK t : Reaches(stack, x, t) /\ Passes(t, Syms(pending))
    BY <1>1 DEF RecoveryInv, Promise
  <2>2. t = Append(stack, n)
    <3>1. ~Reduces(yy_state(Top(stack), x))
      BY <1>1 DEF Reduces
    <3> QED
      BY <1>1, <1>3, <2>1, <3>1, LoopFollowsWalk
  <2> QED
    BY <1>2, <2>1, <2>2
<1> QED
  BY <1>9, <1>10, <1>11, <1>14, <1>15, <1>16 DEF RecoveryInv

LEMMA PreservedByReduce ==
  ASSUME IInv, RecoveryInv, reduce
  PROVE  RecoveryInv'
<1> DEFINE c == Current.count
           m == Len(stack) - c
           rest == SubSeq(stack, 1, m)
           kept == SubSeq(data, 1, Len(data) - c)
           args == SubSeq(data, Len(data) - c + 1, Len(data))
           n == yy_state(Top(rest), Current.lhs).next
           v == [sym |-> Current.lhs, yield |-> Below(args)]
<1>1. c \in 0..Len(data)
  BY ReductionFits DEF reduce
<1>2. /\ stack \in Seq(State) /\ Len(stack) = Len(data) + 1 /\ Len(data) \in Nat
      /\ data \in Seq(Value) /\ Top(stack) \in State /\ Len(tokens) \in Nat
      /\ cursor \in Nat /\ cursor <= Len(tokens)
  BY TypeFacts
<1>3. m \in 1..Len(stack) /\ Len(data) - c \in 0..Len(data)
  BY <1>1, <1>2
<1>4. rest \in Seq(State) /\ Len(rest) = m /\ rest[1] = stack[1] /\ Top(rest) \in State
  <2> HIDE DEF c, m
  <2>1. rest \in Seq(State) /\ Len(rest) = m /\ rest[1] = stack[1] /\ rest[m] \in State
    BY <1>2, <1>3
  <2> QED
    BY <2>1 DEF Top
<1>5. /\ yy_state(Top(rest), Current.lhs).kind = "shift"
      /\ stack' = Append(rest, n) /\ data' = Append(kept, v)
      /\ UNCHANGED <<tokens, cursor, lookahead, pending, reports, phase>>
  BY DEF reduce
<1>6. n \in State /\ Accessing[n] = Current.lhs /\ Current.lhs \in Symbol
  BY <1>4, <1>5, ShiftFacts
<1>7. Top(stack)' = n /\ stack'[1] = stack[1]
  <2> HIDE DEF c, m, rest, n, v
  <2>1. /\ Len(Append(rest, n)) = m + 1 /\ Append(rest, n)[m + 1] = n
        /\ Append(rest, n)[1] = rest[1]
    BY <1>3, <1>4, <1>6
  <2> QED
    BY <1>4, <1>5, <2>1 DEF Top
<1>8. phase = "run" /\ Reduces(Current)
      /\ \/ Top(stack) \in Past /\ Current = yy_state(Top(stack), End)
         \/ /\ Top(stack) \notin Past /\ lookahead # NoToken /\ lookahead.sym \in Terminals
            /\ Current = yy_state(Top(stack), lookahead.sym)
  <2>1. Decides({"reduce", "reduceNow"}) /\ Hand
    BY DEF reduce, RecoveryInv
  <2>2. Current.kind # "error"
    BY <2>1, CurrentFacts
  <2> QED
    BY <2>1, <2>2, CurrentFacts DEF Reduces
<1>9. n \in Past <=> Top(stack) \in Past
  <2>1. PICK x : Current = yy_state(Top(stack), x)
    BY <1>8
  <2>2. x \in DOMAIN Table[Top(stack)] /\ Current = Table[Top(stack)][x]
    BY <1>2, <1>8, <2>1, DecisionFacts DEF Reduces
  <2> HIDE DEF n
  <2> QED
    BY <1>2, <1>6, <1>8, <2>2, EndAssumption
<1>10. Hand' /\ (InFlight' <=> InFlight) /\ Consumed' = Consumed
  BY <1>5 DEF RecoveryInv, Hand, Source, InFlight, Consumed
<1>11. Ahead'
  <2> HIDE DEF n
  <2> QED
    BY <1>5, <1>7, <1>9, <1>10 DEF RecoveryInv, Ahead
<1>12. /\ EachTokenReportedOnce' /\ (Unskipped' <=> Unskipped) /\ Bottom'
       /\ AcceptedPast' /\ GivesUpOnlyOutside' /\ Behind'
  BY <1>5, <1>7, <1>8 DEF RecoveryInv, EachTokenReportedOnce, Unskipped, Bottom, AcceptedPast,
     GivesUpOnlyOutside, Behind, Last
<1>13. /\ Below(data) = Below(kept) \cup Below(args)
       /\ InOrder(kept) /\ \A k \in Below(kept), l \in Below(args) : k < l
  <2> DEFINE p == Len(data) - c
  <2>1. p \in 0..Len(data) /\ InOrder(data)
    BY <1>3 DEF RecoveryInv
  <2> HIDE DEF p
  <2>2. /\ Below(data) = Below(SubSeq(data, 1, p)) \cup Below(SubSeq(data, p + 1, Len(data)))
        /\ InOrder(SubSeq(data, 1, p))
        /\ \A k \in Below(SubSeq(data, 1, p)), l \in Below(SubSeq(data, p + 1, Len(data))) :
             k < l
    BY <1>2, <2>1, BelowSplit
  <2> QED
    BY <2>2 DEF p
<1>14. kept \in Seq(Value) /\ v \in Value /\ v.yield = Below(args)
  <2>1. kept \in Seq(Value)
    <3> HIDE DEF c
    <3> QED
      BY <1>2, <1>3
  <2>2. Below(data) \subseteq 1..Len(tokens)
    <3>1. Consumed <= Len(tokens) /\ Consumed \in Int
      BY <1>2 DEF Consumed
    <3> QED
      BY <1>2, <3>1 DEF RecoveryInv, Eaten
  <2>3. Below(args) \subseteq 1..Len(tokens)
    <3> HIDE DEF kept, args
    <3> QED
      BY <1>13, <2>2
  <2> HIDE DEF args
  <2> QED
    BY <1>6, <2>1, <2>3 DEF Value
<1>15. Below(data') = Below(data) /\ InOrder(data')
  <2> HIDE DEF kept, args, v, rest, n, m, c
  <2>1. Below(Append(kept, v)) = Below(kept) \cup v.yield
    BY <1>14, BelowPush
  <2>2. InOrder(Append(kept, v))
    BY <1>13, <1>14, OrderPush
  <2> QED
    BY <1>5, <1>13, <1>14, <2>1, <2>2
<1>16. Eaten'
  BY <1>10, <1>12, <1>15 DEF RecoveryInv, Eaten
<1>17. Promise'
  <2> SUFFICES ASSUME pending # << >> \/ Reported
               PROVE  /\ lookahead # NoToken
                      /\ \E t : Reaches(stack', lookahead.sym, t) /\ Passes(t, Syms(pending))
    <3>1. Reported' <=> Reported
      BY <1>5 DEF Reported, Last, Here
    <3> QED
      BY <1>5, <3>1 DEF Promise
  <2>1. Top(stack) \notin Past
    <3>1. InFlight \/ lookahead # NoToken
      BY DEF InFlight, Reported
    <3> QED
      BY <3>1 DEF RecoveryInv, Ahead
  <2>2. lookahead # NoToken /\ lookahead.sym \in Terminals
        /\ Current = yy_state(Top(stack), lookahead.sym)
    BY <1>8, <2>1
  <2>3. PICK t : Reaches(stack, lookahead.sym, t) /\ Passes(t, Syms(pending))
    BY <1>8, <2>2 DEF RecoveryInv, Promise
  <2>4. Current.kind # "shift" /\ Len(stack) > 0
    BY <1>2, <1>8 DEF Reduces
  <2>5. Reaches(Append(rest, n), lookahead.sym, t)
    <3> DEFINE d == yy_state(Top(stack), lookahead.sym)
               rest0 == SubSeq(stack, 1, Len(stack) - d.count)
               goto == yy_state(Top(rest0), d.lhs)
    <3>1. \/ d.kind = "shift"
          \/ goto.kind = "shift" =>
               Reaches(Append(rest0, goto.next), lookahead.sym, t)
      BY <1>2, <2>2, <2>3, <2>4, LoopFollowsWalk, Zenon
    <3>2. d = Current /\ rest0 = rest /\ goto = yy_state(Top(rest), Current.lhs)
      BY <2>2
    <3> QED
      BY <1>5, <2>4, <3>1, <3>2, Zenon
  <2> QED
    BY <1>5, <2>2, <2>3, <2>5
<1>18. InOrder(data)'
  BY <1>15
<1> QED
  BY <1>10, <1>11, <1>12, <1>16, <1>17, <1>18 DEF RecoveryInv

LEMMA PreservedByAccept ==
  ASSUME IInv, RecoveryInv, accept
  PROVE  RecoveryInv'
<1>1. /\ UNCHANGED <<tokens, stack, data, cursor, lookahead, pending, reports>>
      /\ phase' = "accepted"
  BY DEF accept
<1>2. Top(stack) \in Past
  <2>1. Decides({"accept"}) /\ Hand
    BY DEF accept, RecoveryInv
  <2>2. PICK x : Current = yy_state(Top(stack), x) /\ Current.kind = "accept"
    BY <2>1, CurrentFacts
  <2>3. Top(stack) \in State
    BY TypeFacts
  <2>4. x \in DOMAIN Table[Top(stack)] /\ Current = Table[Top(stack)][x]
    BY <2>2, <2>3, DecisionFacts
  <2> QED
    BY <2>2, <2>3, <2>4, EndAssumption
<1>3. /\ InOrder(data)' /\ Bottom' /\ EachTokenReportedOnce' /\ (Unskipped' <=> Unskipped)
      /\ (Top(stack) \in Past)' <=> Top(stack) \in Past
  BY <1>1, QuietParts
<1>4. Hand' /\ (InFlight' <=> InFlight) /\ Consumed' = Consumed
  BY <1>1 DEF RecoveryInv, Hand, Source, InFlight, Consumed
<1>5. Ahead' /\ Eaten'
  BY <1>1, <1>3, <1>4 DEF RecoveryInv, Ahead, Eaten
<1>6. AcceptedPast' /\ Behind' /\ Promise' /\ GivesUpOnlyOutside'
  BY <1>1, <1>2, <1>3 DEF AcceptedPast, Behind, Promise, GivesUpOnlyOutside
<1> QED
  BY <1>3, <1>4, <1>5, <1>6 DEF RecoveryInv

LEMMA PreservedByLimit ==
  ASSUME IInv, RecoveryInv, limitReached
  PROVE  RecoveryInv'
<1>1. /\ UNCHANGED <<tokens, stack, data, cursor, lookahead, pending, reports>>
      /\ phase' = "failed" /\ ErrorCount' = ErrorCount /\ ErrorCount >= Limit
  BY DEF limitReached, ErrorCount
<1>2. ~(ErrorCount' < Limit)
  <2>1. ErrorCount \in Nat
    BY TypeFacts DEF ErrorCount
  <2> QED
    BY <1>1, <2>1, LimitAssumption
<1>3. /\ InOrder(data)' /\ Bottom' /\ EachTokenReportedOnce' /\ (Unskipped' <=> Unskipped)
      /\ (Top(stack) \in Past)' <=> Top(stack) \in Past
  BY <1>1, QuietParts
<1>4. Hand' /\ (InFlight' <=> InFlight) /\ Consumed' = Consumed
  BY <1>1 DEF RecoveryInv, Hand, Source, InFlight, Consumed
<1>5. Ahead' /\ Eaten'
  BY <1>1, <1>3, <1>4 DEF RecoveryInv, Ahead, Eaten
<1>6. AcceptedPast' /\ Behind' /\ Promise' /\ GivesUpOnlyOutside'
  BY <1>1, <1>2 DEF AcceptedPast, Behind, Promise, GivesUpOnlyOutside
<1> QED
  BY <1>3, <1>4, <1>5, <1>6 DEF RecoveryInv

\* What the two repairs by insertion share: tokens that let the offending one through
\* are spliced in before it.
LEMMA PreservedByInsertion ==
  ASSUME IInv, RecoveryInv, Erring, lookahead.sym \in Terminals,
         NEW repair \in {"insert", "close"}, Report(repair),
         NEW q \in Seq(Candidate), q # << >>, Passes(stack, Append(q, lookahead.sym)),
         pending' = Append(pending \o Spliced(q), Held), lookahead' = NoToken,
         UNCHANGED <<tokens, stack, data, cursor, phase>>
  PROVE  RecoveryInv'
<1>1. /\ phase = "run" /\ pending = << >> /\ lookahead \in Token /\ cursor # 0
      /\ Top(stack) \notin Past /\ Source(lookahead) /\ InFlight /\ lookahead.sym # End
  BY ErrorIsNew, TypeFacts
<1>2. Held = lookahead
  BY <1>1 DEF Held, Token
<1>3. /\ Len(q) \in Nat \ {0} /\ Len(pending') = Len(q) + 1
      /\ \A i \in 1..Len(q) : pending'[i] = [sym |-> q[i], at |-> 0] /\ q[i] \in Candidate
      /\ pending'[Len(q) + 1] = lookahead
  <2> DEFINE sp == Spliced(q)
  <2>1. /\ Len(q) \in Nat \ {0} /\ sp \in Seq(Token) /\ Len(sp) = Len(q)
        /\ \A i \in 1..Len(q) : sp[i] = [sym |-> q[i], at |-> 0] /\ q[i] \in Candidate
    <3>1. sp = [i \in 1..Len(q) |-> [sym |-> q[i], at |-> 0]]
      BY DEF Spliced
    <3>2. \A i \in 1..Len(q) : [sym |-> q[i], at |-> 0] \in Token /\ q[i] \in Candidate
      BY CandidateFacts, TypeFacts DEF Token
    <3>3. Len(q) \in Nat \ {0}
      OBVIOUS
    <3> QED
      BY <3>1, <3>2, <3>3, IsASeq
  <2> HIDE DEF sp
  <2>2. pending' = Append(sp, lookahead)
    <3>1. << >> \o sp = sp
      BY <2>1
    <3> QED
      BY <1>1, <1>2, <3>1 DEF sp
  <2> QED
    BY <1>1, <2>1, <2>2
<1>4. pending' # << >>
  BY <1>3
<1>5. Hand'
  <2>1. \A i \in 1..Len(q) : Splice(pending'[i])
    <3> TAKE i \in 1..Len(q)
    <3>1. pending'[i] = [sym |-> q[i], at |-> 0] /\ q[i] \in Candidate
      BY <1>3
    <3>2. pending'[i].at = 0 /\ pending'[i].sym = q[i]
      BY <3>1
    <3> QED
      BY <3>1, <3>2 DEF Splice
  <2>2. Source(pending[Len(pending)])'
    BY <1>1, <1>3 DEF Source
  <2>3. \A i \in 1..(Len(pending') - 1) : Splice(pending'[i])
    BY <1>3, <2>1
  <2>4. lookahead'.sym # End
    BY TypeFacts DEF NoToken
  <2> QED
    BY <1>4, <2>2, <2>3, <2>4 DEF Hand, Splice
<1>6. InFlight' /\ Consumed' = Consumed
  BY <1>1, <1>4 DEF InFlight, Consumed
<1>7. /\ (Last.at)' = Here /\ EachTokenReportedOnce' /\ (Unskipped' => Unskipped)
  BY ReportFacts
<1>8. Ahead' /\ Eaten' /\ InOrder(data)' /\ Bottom'
  BY <1>1, <1>6, <1>7 DEF RecoveryInv, Ahead, Eaten, InOrder, Bottom, Top
<1>9. AcceptedPast' /\ GivesUpOnlyOutside'
  BY <1>1 DEF AcceptedPast, GivesUpOnlyOutside
<1>10. Behind'
  BY <1>1, <1>7, TypeFacts DEF Behind, Here
<1>11. Promise'
  <2> DEFINE s == Syms(pending')
             u == Append(q, lookahead.sym)
  <2>1. s = [i \in 1..(Len(q) + 1) |-> pending'[i].sym]
    BY <1>3 DEF Syms
  <2>2. /\ u \in Seq(Terminals) /\ Len(u) = Len(q) + 1 /\ u[Len(q) + 1] = lookahead.sym
        /\ \A i \in 1..Len(q) : u[i] = q[i]
    BY CandidateFacts
  <2>3. \A i \in 1..(Len(q) + 1) : u[i] = pending'[i].sym
    <3> TAKE i \in 1..(Len(q) + 1)
    <3>1. CASE i = Len(q) + 1
      BY <1>3, <2>2, <3>1
    <3>2. CASE i \in 1..Len(q)
      <4>1. pending'[i] = [sym |-> q[i], at |-> 0]
        BY <1>3, <3>2
      <4>2. pending'[i].sym = q[i]
        BY <4>1
      <4> QED
        BY <2>2, <3>2, <4>2
    <3> QED
      BY <1>3, <3>1, <3>2
  <2>4. s = u
    <3> HIDE DEF s, u
    <3>1. u = [i \in 1..(Len(q) + 1) |-> u[i]]
      BY <2>2
    <3> QED
      BY <2>1, <2>3, <3>1
  <2>5. Passes(stack', Syms(pending'))
    BY <2>4
  <2> QED
    BY <2>5 DEF Promise
<1> QED
  BY <1>5, <1>7, <1>8, <1>9, <1>10, <1>11 DEF RecoveryInv

LEMMA PreservedByInsert ==
  ASSUME IInv, RecoveryInv, insertSemi
  PROVE  RecoveryInv'
<1>1. /\ Erring /\ CanInsert /\ Report("insert") /\ lookahead' = NoToken
      /\ pending' = Append(pending \o Spliced(<<"SEMI">>), Held)
      /\ UNCHANGED <<tokens, stack, data, cursor, phase>>
  BY DEF insertSemi
<1>2. stack \in Seq(State) /\ Len(stack) > 0
  BY TypeFacts
<1>3. "SEMI" \in Candidate /\ "SEMI" \in Terminals /\ "SEMI" # "EOF"
  BY TerminalsAssumption DEF Candidate
<1>4. PICK after \in shift_sim(stack, "SEMI") : acceptable(after, lookahead.sym)
  BY <1>1 DEF CanInsert, unblocks
<1>5. /\ after \in Seq(State) /\ Len(after) > 0 /\ Reaches(stack, "SEMI", after)
      /\ Top(after) \notin Past
  BY <1>2, <1>3, <1>4, ShiftSimFacts
<1>6. lookahead.sym \in Terminals
  BY <1>1, <1>4, <1>5, ErrorIsNew, EndNeedsPast
<1>7. PICK t : Reaches(after, lookahead.sym, t)
  BY <1>4, <1>5, AcceptableReaches
<1>8. t \in Seq(State)
  BY <1>5, <1>6, <1>7, ReachesFacts
<1>9. Passes(stack, <<"SEMI">> \o (<<lookahead.sym>> \o << >>))
  <2>1. << >> \in Seq(Terminals) /\ <<lookahead.sym>> \o << >> \in Seq(Terminals)
    BY <1>6
  <2>2. Passes(after, <<lookahead.sym>> \o << >>)
    BY <1>5, <1>6, <1>7, <1>8, <2>1, PassesNothing, PassesAfter
  <2> QED
    BY <1>2, <1>3, <1>5, <2>1, <2>2, PassesAfter
<1>10. <<"SEMI">> \o (<<lookahead.sym>> \o << >>) = Append(<<"SEMI">>, lookahead.sym)
  OBVIOUS
<1>11. <<"SEMI">> \in Seq(Candidate) /\ <<"SEMI">> # << >>
  BY <1>3
<1>12. Passes(stack, Append(<<"SEMI">>, lookahead.sym))
  BY <1>9, <1>10
<1> QED
  BY <1>1, <1>6, <1>11, <1>12, PreservedByInsertion

LEMMA PreservedByClose ==
  ASSUME IInv, RecoveryInv, autoClose
  PROVE  RecoveryInv'
<1>1. PICK q \in Closers : pending' = Append(pending \o Spliced(q), Held)
  BY DEF autoClose
<1>2. /\ Erring /\ Report("close") /\ lookahead' = NoToken
      /\ UNCHANGED <<tokens, stack, data, cursor, phase>>
  BY DEF autoClose
<1> DEFINE c == [stack |-> stack, held |-> lookahead.sym]
<1>3. /\ q \in Seq(Candidate) /\ q # << >> /\ Len(stack) \in Nat
      /\ q \in Close[Len(stack)][c] /\ c \in Closing
  <2>1. q \in auto_close(stack, lookahead.sym)
    BY <1>1 DEF Closers
  <2> QED
    BY <1>2, <2>1, ErrorIsNew, TypeFacts, AutoCloseFacts
<1>4. c.stack = stack /\ c.held = lookahead.sym
  OBVIOUS
<1>5. Len(stack) > 0 /\ Top(stack) \notin Past
  BY <1>2, TypeFacts, ErrorIsNew
<1> HIDE DEF c
<1>6. lookahead.sym \in Terminals
  BY <1>2, <1>3, <1>4, <1>5, ErrorIsNew, EndStaysOpen
<1>7. Passes(stack, Append(q, lookahead.sym))
  BY <1>3, <1>4, <1>6, ClosePasses
<1> QED
  BY <1>1, <1>2, <1>3, <1>6, <1>7, PreservedByInsertion

LEMMA PreservedBySkip ==
  ASSUME IInv, RecoveryInv, skipTo
  PROVE  RecoveryInv'
<1>1. Erring /\ Report("skip") /\ UNCHANGED <<tokens, pending, phase>>
  BY DEF skipTo
<1>2. PICK at \in resync(tokens, cursor) : \E n \in Heights(tokens[at]) :
        /\ stack' = SubSeq(stack, 1, n)
        /\ data' = SubSeq(data, 1, n - 1)
        /\ cursor' = at
        /\ lookahead' = [sym |-> tokens[at], at |-> at]
  BY DEF skipTo
<1>3. PICK n \in Heights(tokens[at]) :
        /\ stack' = SubSeq(stack, 1, n)
        /\ data' = SubSeq(data, 1, n - 1)
        /\ cursor' = at
        /\ lookahead' = [sym |-> tokens[at], at |-> at]
  BY <1>2
<1>4. /\ phase = "run" /\ pending = << >> /\ cursor # 0
  BY <1>1, ErrorIsNew
<1>5. /\ cursor \in Nat \ {0} /\ Len(tokens) \in Nat
      /\ at \in cursor..Len(tokens) /\ Resumes(tokens, cursor, at)
      /\ stack \in Seq(State) /\ data \in Seq(Value) /\ Len(data) \in Nat
      /\ Len(stack) = Len(data) + 1
      /\ n \in 1..Len(stack) /\ acceptable(SubSeq(stack, 1, n), tokens[at])
  BY <1>4, TypeFacts DEF resync, Heights
<1>6. at \in 1..Len(tokens) /\ at \in Nat \ {0} /\ tokens[at] \in Terminals
  <2>1. at \in 1..Len(tokens) /\ at \in Nat \ {0}
    BY <1>5
  <2> QED
    BY <2>1, TypeFacts
<1>7. lookahead.sym \in Terminals /\ InFlight
  <2> SUFFICES ASSUME cursor = Len(tokens), tokens[cursor] # "EOF" PROVE FALSE
    BY <1>1, ErrorIsNew
  <2>1. at = cursor
    BY <1>5
  <2> QED
    BY <1>5, <2>1 DEF Resumes
<1>8. stack' \in Seq(State) /\ Len(stack') > 0 /\ stack'[1] = stack[1]
  <2>1. /\ SubSeq(stack, 1, n) \in Seq(State) /\ Len(SubSeq(stack, 1, n)) = n
        /\ SubSeq(stack, 1, n)[1] = stack[1]
    BY <1>5
  <2> QED
    BY <1>3, <1>5, <2>1
<1>9. PICK t : Reaches(stack', tokens[at], t)
  BY <1>3, <1>5, <1>8, AcceptableReaches
<1>10. t \in Seq(State) /\ Top(stack') \notin Past
  BY <1>6, <1>8, <1>9, ReachesFacts, LoopFollowsWalk
<1>11. lookahead' # NoToken /\ lookahead' # AtEnd /\ lookahead'.sym # End
  BY <1>3, <1>6, TypeFacts DEF NoToken, AtEnd
<1>12. Hand'
  BY <1>1, <1>3, <1>4, <1>6, <1>11 DEF Hand, Source
<1>13. InFlight' /\ Consumed' = at - 1 /\ Consumed = cursor - 1
  BY <1>3, <1>7, <1>11 DEF InFlight, Consumed
<1>14. Ahead'
  <2>1. Top(stack)' \notin Past
    BY <1>10 DEF Top
  <2>2. (Top(stack) \in Past)' <=> Top(stack)' \in Past
    BY DEF Past, State
  <2> QED
    BY <1>13, <2>1, <2>2 DEF Ahead
<1>15. /\ (Last.at)' = Here /\ EachTokenReportedOnce' /\ ~Unskipped'
  BY <1>1, ReportFacts
<1>16. Eaten' /\ InOrder(data)'
  <2> DEFINE p == n - 1
  <2>1. p \in 0..Len(data)
    BY <1>5
  <2> HIDE DEF p
  <2>2. /\ Below(SubSeq(data, 1, p)) \subseteq Below(data)
        /\ InOrder(SubSeq(data, 1, p))
    BY <1>5, <2>1, BelowSplit DEF RecoveryInv
  <2>3. data' = SubSeq(data, 1, p)
    BY <1>3 DEF p
  <2>4. Below(data) \subseteq 1..(cursor - 1)
    BY <1>13 DEF RecoveryInv, Eaten
  <2>5. 1..(cursor - 1) \subseteq 1..(at - 1)
    BY <1>5
  <2>6. Below(data') \subseteq 1..(at - 1) /\ InOrder(data')
    BY <2>2, <2>3, <2>4, <2>5
  <2> QED
    BY <1>13, <1>15, <2>6 DEF Eaten
<1>17. Bottom' /\ AcceptedPast' /\ GivesUpOnlyOutside'
  BY <1>1, <1>4, <1>8 DEF RecoveryInv, Bottom, AcceptedPast, GivesUpOnlyOutside
<1>18. Behind'
  <2>1. Here = cursor
    BY <1>7, TypeFacts DEF Here
  <2> QED
    BY <1>3, <1>5, <1>15, <2>1 DEF Behind
<1>19. Promise'
  <2>1. Syms(pending') = << >>
    BY <1>1, <1>4 DEF Syms
  <2>2. Reaches(stack', lookahead'.sym, t) /\ Passes(t, Syms(pending'))
    BY <1>3, <1>9, <1>10, <2>1, PassesNothing
  <2> QED
    BY <1>11, <2>2 DEF Promise
<1> QED
  BY <1>12, <1>14, <1>15, <1>16, <1>17, <1>18, <1>19 DEF RecoveryInv

LEMMA PreservedByGivingUp ==
  ASSUME IInv, RecoveryInv, giveUp
  PROVE  RecoveryInv'
<1>1. /\ Erring /\ Report("skip") /\ phase' = "failed"
      /\ UNCHANGED <<tokens, stack, data, cursor, lookahead, pending>>
      /\ \A at \in resync(tokens, cursor) : Heights(tokens[at]) = {}
  BY DEF giveUp
<1>2. EachTokenReportedOnce' /\ ~Unskipped'
  BY <1>1, ReportFacts
<1>3. Hand' /\ (InFlight' <=> InFlight) /\ Consumed' = Consumed
  BY <1>1 DEF RecoveryInv, Hand, Source, InFlight, Consumed
<1>4. Ahead' /\ Eaten' /\ InOrder(data)' /\ Bottom'
  BY <1>1, <1>2, <1>3 DEF RecoveryInv, Ahead, Eaten, InOrder, Bottom, Top
<1>5. AcceptedPast' /\ Behind' /\ Promise'
  BY <1>1 DEF AcceptedPast, Behind, Promise
<1>6. GivesUpOnlyOutside'
  <2> SUFFICES ASSUME tokens[Len(tokens)] = "EOF"
               PROVE  \E at \in resync(tokens, cursor) : tokens[at] \in Closes \cup Statements
    BY <1>1 DEF GivesUpOnlyOutside
  <2>1. /\ cursor \in Nat \ {0} /\ Len(tokens) \in Nat \ {0} /\ cursor <= Len(tokens)
        /\ stack \in Seq(State) /\ Len(stack) \in Nat \ {0}
        /\ \A i \in 1..Len(tokens) : tokens[i] \in Terminals
    BY <1>1, ErrorIsNew, TypeFacts
  <2> DEFINE S == {i \in cursor..Len(tokens) : Resumes(tokens, cursor, i)}
  <2>2. Len(tokens) \in S /\ S \subseteq Nat
    BY <2>1 DEF Resumes
  <2>3. PICK at \in S : \A i \in S : at <= i
    <3> HIDE DEF S
    <3> QED
      BY <2>2, LeastElement
  <2>4. at \in resync(tokens, cursor)
    <3>1. ASSUME NEW j \in cursor..(at - 1) PROVE ~Resumes(tokens, cursor, j)
      <4>1. at \in cursor..Len(tokens) /\ j \in cursor..Len(tokens) /\ ~(at <= j)
        BY <2>1
      <4> QED
        BY <2>3, <4>1
    <3> QED
      BY <3>1 DEF resync
  <2>5. Heights(tokens[at]) = {} /\ tokens[at] \in Terminals
    <3>1. at \in cursor..Len(tokens)
      OBVIOUS
    <3>2. at \in 1..Len(tokens)
      BY <2>1, <3>1
    <3> HIDE DEF S
    <3> QED
      BY <1>1, <2>1, <2>4, <3>2
  <2>6. SubSeq(stack, 1, 1) = << 0 >>
    <3>1. /\ SubSeq(stack, 1, 1) \in Seq(State) /\ Len(SubSeq(stack, 1, 1)) = 1
          /\ SubSeq(stack, 1, 1)[1] = stack[1] /\ stack[1] \in State
      BY <2>1
    <3>2. stack[1] = 0
      BY DEF RecoveryInv, Bottom
    <3>3. << 0 >> \in Seq(State) /\ Len(<< 0 >>) = 1 /\ << 0 >>[1] = 0
      BY <3>1, <3>2
    <3>4. \A i \in 1..1 : SubSeq(stack, 1, 1)[i] = << 0 >>[i]
      BY <3>1, <3>2, <3>3
    <3> QED
      BY <3>1, <3>3, <3>4, SeqEqual
  <2>7. ~acceptable(<< 0 >>, tokens[at])
    <3>1. 1 \in 1..Len(stack)
      BY <2>1
    <3> QED
      BY <2>5, <2>6, <3>1 DEF Heights
  <2>8. tokens[at] \notin Items \cup {"SEMI", "EOF"}
    BY <2>5, <2>7, StartAssumption
  <2>9. tokens[at] \in Leaders \cup Closes
    BY <2>8 DEF Resumes
  <2> QED
    BY <2>4, <2>8, <2>9 DEF Leaders
<1> QED
  BY <1>2, <1>3, <1>4, <1>5, <1>6 DEF RecoveryInv

-----------------------------------------------------------------------------
LEMMA RecoveryInitially == Init => RecoveryInv
<1> SUFFICES ASSUME Init PROVE RecoveryInv
  OBVIOUS
<1>1. /\ tokens \in Seq(Terminals) /\ tokens # << >>
      /\ stack = << 0 >> /\ data = << >> /\ cursor = 0 /\ lookahead = NoToken
      /\ pending = << >> /\ reports = << >> /\ phase = "run"
  BY InputsAssumption DEF Init
<1>2. Len(tokens) \in Nat \ {0} /\ Top(stack) = 0 /\ Top(stack) \notin Past /\ "none" # End
  BY <1>1, EndAssumption DEF Top, End
<1>3. ~InFlight /\ Consumed = 0 /\ ~Reported
  BY <1>1 DEF InFlight, Consumed, Reported
<1>4. Hand /\ Ahead
  BY <1>1, <1>2, <1>3 DEF Hand, Ahead, NoToken
<1>5. Below(data) = {} /\ 1..0 = {}
  BY <1>1 DEF Below
<1>6. Eaten /\ InOrder(data) /\ Bottom
  BY <1>1, <1>3, <1>5 DEF Eaten, InOrder, Bottom
<1>7. AcceptedPast /\ Behind /\ Promise /\ EachTokenReportedOnce /\ GivesUpOnlyOutside
  BY <1>1, <1>3 DEF AcceptedPast, Behind, Promise, EachTokenReportedOnce, GivesUpOnlyOutside
<1> QED
  BY <1>4, <1>6, <1>7 DEF RecoveryInv

LEMMA RecoveryPreserved == IInv /\ RecoveryInv /\ [Next]_vars => RecoveryInv'
<1> SUFFICES ASSUME IInv, RecoveryInv, [Next]_vars PROVE RecoveryInv'
  OBVIOUS
<1>1. CASE UNCHANGED vars
  <2>1. UNCHANGED <<tokens, stack, data, cursor, lookahead, pending, reports, phase>>
    BY <1>1 DEF vars
  <2>2. /\ InOrder(data)' /\ Bottom' /\ EachTokenReportedOnce' /\ (Unskipped' <=> Unskipped)
        /\ (Top(stack) \in Past)' <=> Top(stack) \in Past
    BY <2>1, QuietParts
  <2>3. Hand' /\ (InFlight' <=> InFlight) /\ Consumed' = Consumed
    BY <2>1 DEF RecoveryInv, Hand, Source, InFlight, Consumed
  <2>4. Ahead' /\ Eaten'
    BY <2>1, <2>2, <2>3 DEF RecoveryInv, Ahead, Eaten
  <2>5. AcceptedPast' /\ Behind' /\ Promise' /\ GivesUpOnlyOutside'
    BY <2>1, <2>2 DEF RecoveryInv, AcceptedPast, Behind, Promise, Reported, Last, Here,
       GivesUpOnlyOutside, ErrorCount
  <2> QED
    BY <2>2, <2>3, <2>4, <2>5 DEF RecoveryInv
<1> QED
  BY <1>1, PreservedByRead, PreservedByShift, PreservedByReduce, PreservedByAccept,
     PreservedByInsert, PreservedByClose, PreservedBySkip, PreservedByGivingUp,
     PreservedByLimit DEF Next, Returned

LEMMA RecoveryHolds == Spec => [](IInv /\ RecoveryInv)
<1>1. Init => IInv /\ RecoveryInv
  BY InvariantInitially, RecoveryInitially
<1>2. IInv /\ RecoveryInv /\ [Next]_vars => IInv' /\ RecoveryInv'
  BY InvariantPreserved, RecoveryPreserved
<1> QED
  BY <1>1, <1>2, PTL DEF Spec

\* A tree is accepted past the end of the input, when nothing is in hand.
LEMMA AcceptedHasAll == IInv /\ RecoveryInv => KeepsWhatWasTyped
<1> SUFFICES ASSUME IInv, RecoveryInv, phase = "accepted", Unskipped
             PROVE  Below(data) = 1..Len(tokens)
  BY DEF KeepsWhatWasTyped, Unskipped
<1>1. ~InFlight /\ cursor = Len(tokens)
  BY DEF RecoveryInv, AcceptedPast, Ahead
<1> QED
  BY <1>1 DEF RecoveryInv, Eaten, Consumed

\* Of what is in hand or spliced in, only the last token is one of the input.
LEMMA LineKeepsOrder == IInv /\ RecoveryInv => TreeKeepsOrder
<1> SUFFICES ASSUME IInv, RecoveryInv PROVE TreeKeepsOrder
  OBVIOUS
<1> DEFINE n == Len(data)
           p == Len(pending)
           rest == [i \in DOMAIN pending |-> Leaf(pending[i])]
<1>1. /\ n \in Nat /\ p \in Nat /\ data \in Seq(Value) /\ pending \in Seq(Token)
      /\ cursor \in Nat
  BY TypeFacts
<1>2. /\ DOMAIN Line = 1..(n + 1 + p)
      /\ \A i \in 1..n : Line[i] = data[i]
      /\ Line[n + 1] = Leaf(lookahead)
      /\ \A i \in 1..p : Line[n + 1 + i] = Leaf(pending[i])
  <2> DEFINE A == {Leaf(lookahead)} \cup {data[i] : i \in DOMAIN data}
                    \cup {Leaf(pending[i]) : i \in DOMAIN pending}
             mid == <<Leaf(lookahead)>>
  <2>1. rest \in Seq(A) /\ Len(rest) = p /\ \A i \in 1..p : rest[i] = Leaf(pending[i])
    <3>1. DOMAIN pending = 1..p
      BY <1>1
    <3>2. \A i \in 1..p : Leaf(pending[i]) \in A
      BY <3>1
    <3> HIDE DEF A
    <3> QED
      BY <1>1, <3>1, <3>2, IsASeq
  <2>2. data \in Seq(A)
    <3>1. DOMAIN data = 1..n /\ \A i \in 1..n : data[i] \in A
      BY <1>1
    <3>2. data = [i \in 1..n |-> data[i]]
      BY <1>1
    <3> HIDE DEF A
    <3> QED
      BY <1>1, <3>1, <3>2, IsASeq
  <2>3. mid \in Seq(A) /\ Len(mid) = 1 /\ mid[1] = Leaf(lookahead)
    <3>1. Leaf(lookahead) \in A
      OBVIOUS
    <3> HIDE DEF A
    <3> QED
      BY <3>1
  <2>4. Line = (data \o mid) \o rest
    BY DEF Line
  <2> HIDE DEF A, mid, rest
  <2>5. /\ data \o mid \in Seq(A) /\ Len(data \o mid) = n + 1
        /\ \A i \in 1..n : (data \o mid)[i] = data[i]
        /\ (data \o mid)[n + 1] = Leaf(lookahead)
    <3>1. data \o mid \in Seq(A) /\ Len(data \o mid) = n + 1
      <4>1. data \o mid \in Seq(A) /\ Len(data \o mid) = Len(data) + Len(mid)
        BY <2>2, <2>3, ConcatProperties, Zenon
      <4> QED
        BY <2>3, <4>1
    <3>2. \A i \in 1..n : (data \o mid)[i] = data[i]
      BY <1>1, <2>2, <2>3
    <3>3. (data \o mid)[n + 1] = mid[1]
      <4>1. n + 1 \in 1..(n + 1) /\ ~(n + 1 <= n) /\ n + 1 - n = 1
        BY <1>1
      <4> QED
        BY <2>2, <2>3, <4>1, ConcatProperties
    <3> QED
      BY <2>3, <3>1, <3>2, <3>3
  <2> DEFINE front == data \o mid
  <2> HIDE DEF front
  <2>6. /\ front \in Seq(A) /\ Len(front) = n + 1
        /\ \A i \in 1..n : front[i] = data[i]
        /\ front[n + 1] = Leaf(lookahead)
    BY <2>5 DEF front
  <2>7. /\ DOMAIN (front \o rest) = 1..(n + 1 + p)
        /\ \A i \in 1..(n + 1) : (front \o rest)[i] = front[i]
        /\ \A i \in 1..p : (front \o rest)[n + 1 + i] = rest[i]
    <3> DEFINE m == n + 1
    <3>1. m \in Nat /\ p \in Nat /\ Len(front) = m /\ front \in Seq(A)
          /\ rest \in Seq(A) /\ Len(rest) = p
      BY <1>1, <2>1, <2>6
    <3> HIDE DEF m, n, p
    <3>2. DOMAIN (front \o rest) = 1..(m + p)
      BY <3>1
    <3>3. \A i \in 1..m : (front \o rest)[i] = front[i]
      BY <3>1
    <3>4. \A i \in 1..p : (front \o rest)[m + i] = rest[i]
      BY <3>1
    <3> QED
      BY <3>2, <3>3, <3>4 DEF m
  <2>8. Line = front \o rest
    BY <2>4 DEF front
  <2> HIDE DEF n, p
  <2>9. \A i \in 1..(n + 1) : Line[i] = front[i]
    BY <2>7, <2>8
  <2>10. \A i \in 1..p : Line[n + 1 + i] = Leaf(pending[i])
    BY <2>1, <2>7, <2>8
  <2>11. \A i \in 1..n : i \in 1..(n + 1)
    BY <1>1
  <2>12. n + 1 \in 1..(n + 1)
    BY <1>1
  <2> QED
    BY <2>6, <2>7, <2>8, <2>9, <2>10, <2>11, <2>12
<1>3. ASSUME NEW j \in (n + 1)..(n + 1 + p), NEW l \in Line[j].yield
      PROVE  l = cursor /\ InFlight /\ j = n + 1 + p
  <2>1. CASE j = n + 1
    <3>1. l = lookahead.at /\ l # 0
      BY <1>2, <2>1, <1>3 DEF Leaf
    <3>2. lookahead \notin {NoToken, AtEnd} /\ ~Splice(lookahead)
      BY <3>1 DEF NoToken, AtEnd, Splice
    <3>3. pending = << >> /\ Source(lookahead)
      BY <3>2 DEF RecoveryInv, Hand
    <3>4. p = 0
      BY <3>3
    <3> QED
      BY <1>1, <2>1, <3>1, <3>2, <3>3, <3>4 DEF InFlight, Source
  <2>2. CASE j > n + 1
    <3> DEFINE k == j - (n + 1)
    <3>1. k \in 1..p /\ j = n + 1 + k
      BY <1>1, <2>2
    <3>2. l = pending[k].at /\ l # 0
      <4> HIDE DEF k, n, p
      <4>1. Line[j] = Leaf(pending[k])
        BY <1>2, <3>1
      <4> QED
        BY <1>3, <4>1 DEF Leaf
    <3>3. pending # << >>
      BY <1>1, <3>1
    <3>4. /\ \A i \in 1..(p - 1) : Splice(pending[i])
          /\ Source(pending[p])
      BY <3>3 DEF RecoveryInv, Hand
    <3>5. k = p
      <4> HIDE DEF k, n, p
      <4> QED
        BY <1>1, <3>1, <3>2, <3>4 DEF Splice
    <3> QED
      BY <3>1, <3>2, <3>3, <3>4, <3>5 DEF InFlight, Source
  <2> QED
    BY <1>1, <2>1, <2>2
<1>4. ASSUME NEW i \in 1..n, NEW k \in Line[i].yield
      PROVE  k \in data[i].yield /\ k \in 1..Consumed
  <2>1. k \in data[i].yield
    BY <1>2, <1>4
  <2>2. k \in Below(data)
    BY <1>1, <2>1 DEF Below
  <2> QED
    BY <2>1, <2>2 DEF RecoveryInv, Eaten
<1>5. ASSUME NEW i \in DOMAIN Line, NEW j \in DOMAIN Line, i < j,
             NEW k \in Line[i].yield, NEW l \in Line[j].yield
      PROVE  k < l
  <2>1. i \in 1..n
    <3>1. i # n + 1 + p
      BY <1>1, <1>2, <1>5
    <3>2. i \notin (n + 1)..(n + 1 + p)
      BY <1>3, <1>5, <3>1
    <3> QED
      BY <1>1, <1>2, <3>2
  <2>2. CASE j \in 1..n
    <3>1. k \in data[i].yield /\ l \in data[j].yield
      BY <1>4, <1>5, <2>1, <2>2
    <3>2. i \in DOMAIN data /\ j \in DOMAIN data
      BY <1>1, <2>1, <2>2
    <3> QED
      BY <1>5, <3>1, <3>2 DEF RecoveryInv, InOrder
  <2>3. CASE j \in (n + 1)..(n + 1 + p)
    <3>1. l = cursor /\ InFlight
      BY <1>3, <1>5, <2>3
    <3>2. k \in 1..(cursor - 1)
      BY <1>4, <1>5, <2>1, <3>1 DEF Consumed
    <3> QED
      BY <1>1, <3>1, <3>2
  <2> QED
    BY <1>1, <1>2, <2>2, <2>3
<1> HIDE DEF n, p, rest
<1> QED
  BY <1>5 DEF TreeKeepsOrder

-----------------------------------------------------------------------------
(***************************************************************************)
(* Every variable of drive_recovering keeps its type: the cursor stays      *)
(* within the input and the stack is never emptied.                         *)
(***************************************************************************)
THEOREM ParserTypes == Spec => []TypeOK
<1>1. IInv => TypeOK
  BY DEF IInv
<1> QED
  BY <1>1, InvariantHolds, PTL

(***************************************************************************)
(* States and values stay in step through every repair (recover.mbt: "which *)
(* is what makes unwinding sound").                                         *)
(***************************************************************************)
THEOREM UnwindingSound == Spec => []StacksInStep
<1>1. IInv => StacksInStep
  BY DEF IInv
<1> QED
  BY <1>1, InvariantHolds, PTL

(***************************************************************************)
(* The slice data[length - count:] and the pops of a reduction are never    *)
(* out of bounds, before and after any repair.                              *)
(***************************************************************************)
THEOREM ReductionsInBounds == Spec => []ReductionsFindValues
<1>1. IInv => ReductionsFindValues
  BY ReductionFits DEF ReductionsFindValues
<1> QED
  BY <1>1, InvariantHolds, PTL

(***************************************************************************)
(* Every repair of drive_recovering gets past the token it was made for: no *)
(* token is complained about twice.                                         *)
(***************************************************************************)
THEOREM RepairsMakeProgress == Spec => []EachTokenReportedOnce
<1>1. IInv /\ RecoveryInv => EachTokenReportedOnce
  BY DEF RecoveryInv
<1> QED
  BY <1>1, RecoveryHolds, PTL

(***************************************************************************)
(* Holding the offending token back, splicing in front of it and skipping   *)
(* keep the source tokens in order, each in the tree at most once.          *)
(***************************************************************************)
THEOREM SplicingKeepsOrder == Spec => []TreeKeepsOrder
<1> QED
  BY LineKeepsOrder, RecoveryHolds, PTL

(***************************************************************************)
(* A tree that was reached without skipping holds every source token.       *)
(***************************************************************************)
THEOREM NothingTypedIsLost == Spec => []KeepsWhatWasTyped
<1> QED
  BY AcceptedHasAll, RecoveryHolds, PTL

(***************************************************************************)
(* The loop gives up on an input that was lexed to the end only at a closer *)
(* or a statement that no open construct takes, or at RECOVERY_LIMIT.       *)
(***************************************************************************)
THEOREM TreeUnlessOutside == Spec => []GivesUpOnlyOutside
<1>1. IInv /\ RecoveryInv => GivesUpOnlyOutside
  BY DEF RecoveryInv
<1> QED
  BY <1>1, RecoveryHolds, PTL
=============================================================================
