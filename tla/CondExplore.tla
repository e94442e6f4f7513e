----------------------------- MODULE CondExplore ----------------------------
(***************************************************************************)
(* Checking a module with conditional annotations: the work list of         *)
(* lib/internal/cond_explore/explore.mbt and the specializer of             *)
(* lib/check/specialize.mbt that feeds it.                                  *)
(*                                                                         *)
(* A formula is a conjunction or a disjunction of literals, and a literal   *)
(* is modelled by what it means: the set of valuations of the condition     *)
(* variables that satisfy it.  An assumption is deduplicated by structure,  *)
(* so it is the set of its conjuncts, which is what canonical_key renders:  *)
(* flattened, sorted, without duplicates.                                   *)
(* The solver (lib/cond/solve.mbt) is taken at its word.                    *)
(*                                                                         *)
(* A module is a sequence of items:                                         *)
(*   [kind |-> "leaf", name |-> n]  code that the checks look at            *)
(*   [kind |-> "if", cond |-> c, then |-> items, else |-> items]            *)
(*        an #[if]; with empty branches, an attribute guard                 *)
(*   [kind |-> "body", items |-> items]  the body of a function             *)
(* Items nest, and Level says how deep: what an item holds is of a lower    *)
(* level than itself.                                                       *)
(***************************************************************************)
EXTENDS Naturals, Sequences, FiniteSets

CONSTANTS
  Atoms,              \* the condition variables
  Items, Level,       \* the items that modules are made of, nested ones too
  Programs,           \* the modules to check
  Caps                \* values of max_configurations, 4096 in the code

Valuations == SUBSET Atoms

\* A conjunction of literals: what a configuration is checked under.
Assumptions == SUBSET (SUBSET Valuations)

Conditions == [op : {"and", "or"}, args : Assumptions]

Leaves == {"use", "err1", "err2"}

Below(item) == {inner \in Items : Level[inner] < Level[item]}

ASSUME CapsAssumption == Caps \subseteq Nat \ {0}

ASSUME ItemsAssumption ==
  /\ IsFiniteSet(Atoms)
  /\ Level \in [Items -> Nat]
  /\ \A item \in Items :
       \/ item \in [kind : {"leaf"}, name : Leaves]
       \/ item \in [kind : {"if"}, cond : Conditions,
                    then : Seq(Below(item)), else : Seq(Below(item))]
       \/ item \in [kind : {"body"}, items : Seq(Below(item))]
  /\ Programs \subseteq Seq(Items)

\* The valuations in which every conjunct of an assumption holds.
Models(assumption) == {v \in Valuations : \A c \in assumption : v \in c}

Satisfiable(assumption) == Models(assumption) # {}

\* Negation is pushed to the literals.
Not(c) == [op |-> IF c.op = "and" THEN "or" ELSE "and",
           args |-> {Valuations \ x : x \in c.args}]

\* What a formula adds to an assumption it is conjoined with.
Conjuncts(c) == IF c.op = "and" THEN c.args ELSE {UNION c.args}

-----------------------------------------------------------------------------
(* The specializer.                                                        *)

(***************************************************************************)
(* What a walk over a module has so far: the assumption in force, the       *)
(* conditions recorded, the assumptions enqueued and the leaves selected.   *)
(***************************************************************************)
Walked(under) == [under |-> under, full |-> {}, enqueued |-> << >>, leaves |-> {}]

Walks == [under : Assumptions, full : Assumptions, enqueued : Seq(Assumptions),
          leaves : SUBSET Leaves]

(***************************************************************************)
(* The assumption threads left to right through the items; `visit` walks    *)
(* the items of a lower level.                                              *)
(***************************************************************************)
instrs(visit, s, items) ==
  LET walk[k \in 0..Len(items)] == IF k = 0 THEN s ELSE visit[items[k]][walk[k - 1]]
  IN walk[Len(items)]

\* Mutant of Taken: the condition is assumed but not recorded.
TakenSilently(visit, s, c, branch) ==
  instrs(visit, [s EXCEPT !.under = @ \cup Conjuncts(c)], branch)

\* Walk a branch under its assumption, recording that it was taken.
Taken(visit, s, c, branch) ==
  instrs(visit, [s EXCEPT !.under = @ \cup Conjuncts(c), !.full = @ \cup Conjuncts(c)],
         branch)

\* Mutant of choose: the other configuration is not handed to the explorer.
chooseOnly(visit, s, item) ==
  LET c == item.cond
      thenUnder == s.under \cup Conjuncts(c)
      elseUnder == s.under \cup Conjuncts(Not(c))
  IN IF ~Satisfiable(thenUnder)
     THEN [Taken(visit, s, Not(c), item.else) EXCEPT !.under = elseUnder]
     ELSE [Taken(visit, s, c, item.then) EXCEPT !.under = thenUnder]

\* Mutant of choose: the assumption handed back does not exclude the `then`.
chooseWeaker(visit, s, item) ==
  LET c == item.cond
      thenUnder == s.under \cup Conjuncts(c)
      elseUnder == s.under \cup Conjuncts(Not(c))
  IN CASE ~Satisfiable(thenUnder) ->
            [Taken(visit, s, Not(c), item.else) EXCEPT !.under = elseUnder]
       [] Satisfiable(thenUnder) /\ ~Satisfiable(elseUnder) ->
            [Taken(visit, s, c, item.then) EXCEPT !.under = thenUnder]
       [] OTHER ->
            [Taken(visit, [s EXCEPT !.enqueued = Append(@, s.under)], c, item.then)
               EXCEPT !.under = thenUnder]

(***************************************************************************)
(* Resolve one conditional: a branch is taken only if it is reachable; when *)
(* both are, the `then` is taken and the `else` handed to the explorer.     *)
(* What is decided inside the branch does not outlive it.                   *)
(***************************************************************************)
choose(visit, s, item) ==
  LET c == item.cond
      thenUnder == s.under \cup Conjuncts(c)
      elseUnder == s.under \cup Conjuncts(Not(c))
  IN CASE ~Satisfiable(thenUnder) ->
            [Taken(visit, s, Not(c), item.else) EXCEPT !.under = elseUnder]
       [] Satisfiable(thenUnder) /\ ~Satisfiable(elseUnder) ->
            [Taken(visit, s, c, item.then) EXCEPT !.under = thenUnder]
       [] OTHER ->
            [Taken(visit, [s EXCEPT !.enqueued = Append(@, elseUnder)], c, item.then)
               EXCEPT !.under = thenUnder]

Visited(visit, s, item) ==
  CASE item.kind = "leaf" -> [s EXCEPT !.leaves = @ \cup {item.name}]
    [] item.kind = "if"   -> choose(visit, s, item)
    [] item.kind = "body" -> [instrs(visit, s, item.items) EXCEPT !.under = s.under]

instr[item \in Items] == [s \in Walks |-> Visited(instr, s, item)]

specialize(assumption, module) == instrs(instr, Walked(assumption), module)

(***************************************************************************)
(* The check of one configuration, external to the explorer.  A leaf named  *)
(* "use" uses the one local there is; every other leaf is an error.  That   *)
(* the local is unused is a universal diagnostic.                           *)
(***************************************************************************)
Universal == "unused"

check(leaves) ==
  (leaves \ {"use"}) \cup (IF "use" \in leaves THEN {} ELSE {Universal})

-----------------------------------------------------------------------------
(* The explorer.                                                           *)

VARIABLES
  program,    \* the module being checked
  max_configurations,
  queue,      \* assumptions found, in order
  head,       \* how many of them were taken
  processed,  \* the keys seen
  count,
  truncated,
  feasible,   \* the valuations covered by the configurations checked
  errors,     \* diagnostic -> the valuations it is reachable in
  phase,      \* explore, done
  reported    \* the diagnostics reported, with their reach

vars == <<program, max_configurations, queue, head, processed, count, truncated,
          feasible, errors, phase, reported>>

Diagnostics == {"err1", "err2", Universal}

TypeOK ==
  /\ program \in Programs
  /\ max_configurations \in Caps
  /\ queue \in Seq(Assumptions)
  /\ head \in 0..Len(queue)
  /\ count \in 0..max_configurations
  /\ Cardinality(processed) = count
  /\ truncated \in BOOLEAN
  /\ feasible \subseteq Valuations
  /\ errors \in [Diagnostics -> SUBSET Valuations]
  /\ phase \in {"explore", "done"}
  /\ reported \subseteq Diagnostics

Init ==
  /\ program \in Programs
  /\ max_configurations \in Caps
  /\ queue = << {} >>
  /\ head = 0
  /\ processed = {}
  /\ count = 0
  /\ truncated = FALSE
  /\ feasible = {}
  /\ errors = [d \in Diagnostics |-> {}]
  /\ phase = "explore"
  /\ reported = {}

\* The loop takes the next assumption.
Takes ==
  /\ phase = "explore"
  /\ ~truncated
  /\ head < Len(queue)
  /\ head' = head + 1

Next1 == queue[head + 1]

Known == Next1 \in processed \/ ~Satisfiable(Next1)

\* Seen before, or unreachable.
skip ==
  /\ Takes
  /\ Known
  /\ UNCHANGED <<program, max_configurations, queue, processed, count, truncated,
                 feasible, errors, phase, reported>>

truncate ==
  /\ Takes
  /\ ~Known
  /\ count >= max_configurations
  /\ truncated' = TRUE
  /\ UNCHANGED <<program, max_configurations, queue, processed, count, feasible, errors,
                 phase, reported>>

\* Mutant of checkConfiguration: the key is not remembered.
checkAgain ==
  /\ Takes
  /\ ~Known
  /\ count < max_configurations
  /\ count' = count + 1
  /\ LET s == specialize(Next1, program)
         full == Models(s.full)
         found == IF full = {} THEN {} ELSE check(s.leaves)
     IN /\ queue' = queue \o s.enqueued
        /\ feasible' = feasible \cup full
        /\ errors' = [d \in Diagnostics |->
                        IF d \in found THEN errors[d] \cup full ELSE errors[d]]
  /\ UNCHANGED <<program, max_configurations, processed, truncated, phase,
                 reported>>

(***************************************************************************)
(* One configuration is specialized and checked.  Its diagnostics join the  *)
(* union unless its full assumption cannot hold, which happens: decisions   *)
(* made in one function body are not known in the next.                     *)
(***************************************************************************)
checkConfiguration ==
  /\ Takes
  /\ ~Known
  /\ count < max_configurations
  /\ processed' = processed \cup {Next1}
  /\ count' = count + 1
  /\ LET s == specialize(Next1, program)
         full == Models(s.full)
         found == IF full = {} THEN {} ELSE check(s.leaves)
     IN /\ queue' = queue \o s.enqueued
        /\ feasible' = feasible \cup full
        /\ errors' = [d \in Diagnostics |->
                        IF d \in found THEN errors[d] \cup full ELSE errors[d]]
  /\ UNCHANGED <<program, max_configurations, truncated, phase, reported>>

\* Mutant of Reportable: universal diagnostics are reported like any other.
ReportableIfFound(d) == errors[d] # {}

\* A universal diagnostic has to be reachable wherever anything is.
Reportable(d) == errors[d] # {} /\ (d = Universal => feasible \subseteq errors[d])

report ==
  /\ phase = "explore"
  /\ truncated \/ head = Len(queue)
  /\ phase' = "done"
  /\ reported' = {d \in Diagnostics : Reportable(d)}
  /\ UNCHANGED <<program, max_configurations, queue, head, processed, count, truncated,
                 feasible, errors>>

\* The check of a module is over.
Finished == phase = "done" /\ UNCHANGED vars

Next == skip \/ truncate \/ checkConfiguration \/ report \/ Finished

Spec == Init /\ [][Next]_vars

-----------------------------------------------------------------------------
(* The reference: what a module means under one valuation.                 *)

SelectedIn(selected, items, v) == UNION {selected[items[i]][v] : i \in DOMAIN items}

Meaning(selected, item, v) ==
  CASE item.kind = "leaf" -> {item.name}
    [] item.kind = "if"   ->
         SelectedIn(selected,
                    IF v \in Models(Conjuncts(item.cond)) THEN item.then ELSE item.else, v)
    [] item.kind = "body" -> SelectedIn(selected, item.items, v)

Selected[item \in Items] == [v \in Valuations |-> Meaning(Selected, item, v)]

\* The valuations in which a diagnostic is to be expected.
Occurs(d) == {v \in Valuations : d \in check(SelectedIn(Selected, program, v))}

-----------------------------------------------------------------------------
(* Correctness.                                                            *)

(***************************************************************************)
(* What a hint "reachable when ..." says is true: wherever a diagnostic is  *)
(* said to be reachable, the module of that valuation has it, even when the *)
(* exploration was cut short.  The state is well typed throughout: count is *)
(* the number of keys seen, and never above the cap.                        *)
(***************************************************************************)
ReachIsSound ==
  /\ TypeOK
  /\ \A d \in Diagnostics : errors[d] \subseteq Occurs(d)

(***************************************************************************)
(* Unless it was cut short, the exploration covers every valuation, so that *)
(* a diagnostic is reported if some valuation has it and its reach is       *)
(* exactly where it occurs: the complements handed back by the specializer  *)
(* leave no gap although decisions are forgotten between bodies.  A         *)
(* universal diagnostic is then reported exactly if every valuation has it. *)
(***************************************************************************)
CoverageIsComplete ==
  phase = "done" /\ ~truncated =>
    /\ feasible = Valuations
    /\ \A d \in Diagnostics : errors[d] = Occurs(d)
    /\ Universal \in reported <=> Occurs(Universal) = Valuations

(***************************************************************************)
(* A universal diagnostic is reported only if it holds in every valuation.  *)
(* The code promises it of every exploration, and keeps the promise when    *)
(* the exploration was not cut short.                                       *)
(***************************************************************************)
UniversalHoldsEverywhere ==
  Universal \in reported => Occurs(Universal) = Valuations

(***************************************************************************)
(* Branches that cannot be reached are pruned while the module is walked,   *)
(* so every configuration that is checked can occur.                        *)
(***************************************************************************)
InfeasibleNeverExplored ==
  [][checkConfiguration => Models(specialize(Next1, program).full) # {}]_vars

(***************************************************************************)
(* Why the exploration ends even without the cap: what a configuration puts *)
(* in the queue is reachable and strictly stronger than the assumption it   *)
(* was found under, so that a chain of such assumptions is no longer than   *)
(* the number of valuations.                                                *)
(***************************************************************************)
EnqueuedIsStronger ==
  [][checkConfiguration =>
       \A i \in DOMAIN queue' \ DOMAIN queue :
         /\ Satisfiable(queue'[i])
         /\ Models(queue'[i]) \subseteq Models(Next1)
         /\ Models(queue'[i]) # Models(Next1)]_vars
=============================================================================
