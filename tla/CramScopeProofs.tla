-------------------------- MODULE CramScopeProofs --------------------------
(***************************************************************************)
(* Proofs about CramScope: `classify-cram` loses no test, whenever it was   *)
(* interrupted before, never leaves a test it did not select in test/cram,  *)
(* and selects tests whose commands, however long they are, parse_args      *)
(* reads as the selector did when the shell has taken the redirections out. *)
(***************************************************************************)
EXTENDS CramScope, FiniteSetTheorems, SequenceTheorems, WellFoundedInduction, TLAPS

\* A command in progress has selected from the checkout it is copying from, and what
\* is in test/cram while it copies came from there.
Working ==
    /\ proc \in [phase : {"remove", "copy"}, included : {Included}, todo : SUBSET Included]
    /\ outcome = "none"
    /\ proc.phase = "remove" => proc.todo = Included
    /\ proc.phase = "copy" =>
          /\ DOMAIN dst = Included \ proc.todo
          /\ \A t \in DOMAIN dst : dst[t] = source[t]

\* What a run that ended left behind.
Ended ==
    /\ scope = [included |-> Cardinality(Included), excluded |-> DOMAIN source \ Included]
    /\ DOMAIN dst = Included
    /\ \A t \in DOMAIN dst : dst[t] = source[t]

CramInv ==
    /\ source \in Trees
    /\ scope # None => scope.included \in Nat
    /\ outcome \in {"none", "ok", "dry run", "interrupted"}
    /\ proc = Idle \/ Working
    /\ outcome = "ok" => Ended
    /\ \A t \in DOMAIN dst : dst[t] \in Tests /\ InScope(dst[t])

\* The selection is a part of a finite directory, and its size a number.
LEMMA IncludedFinite ==
  ASSUME source \in Trees
  PROVE  /\ Included \subseteq DOMAIN source /\ IsFiniteSet(Included)
         /\ Cardinality(Included) \in Nat
<1>1. Included \subseteq DOMAIN source /\ IsFiniteSet(DOMAIN source)
  BY TreesAssumption DEF Included
<1> QED BY <1>1, FS_Subset, FS_CardinalityType

LEMMA EmptyDirectory == ASSUME NEW d, d = << >> PROVE DOMAIN d = {}
OBVIOUS

LEMMA CramInitially == Init => CramInv
BY DEF Init, CramInv, Idle

\* A step of a command in progress starts from its invariant.
LEMMA InProgress ==
  ASSUME CramInv, proc.phase \in {"remove", "copy"}
  PROVE  Working
<1>1. Idle.phase = "none"
  BY DEF Idle
<1>2. proc # Idle
  BY <1>1
<1> QED BY <1>2 DEF CramInv

\* The fields of its memory.
LEMMA Memory ==
  ASSUME Working
  PROVE  /\ proc.phase \in {"remove", "copy"} /\ proc.included = Included
         /\ proc.todo \subseteq Included
         /\ [proc EXCEPT !.phase = "copy"]
               = [phase |-> "copy", included |-> Included, todo |-> proc.todo]
         /\ \A t : [proc EXCEPT !.todo = @ \ {t}]
               = [phase |-> proc.phase, included |-> Included, todo |-> proc.todo \ {t}]
BY DEF Working

LEMMA CramPreserved == CramInv /\ [Next]_vars => CramInv'
<1> SUFFICES ASSUME CramInv, [Next]_vars PROVE CramInv'
  OBVIOUS
<1> USE DEF CramInv
<1>1. CASE \E dry_run \in BOOLEAN : cmd_classify_cram(dry_run)
  <2>1. Included' = Included /\ UNCHANGED <<source, dst, scope>>
    BY <1>1 DEF cmd_classify_cram, Included
  <2>2. CASE proc' = Idle /\ outcome' = "dry run"
    BY <2>1, <2>2
  <2>3. CASE /\ outcome' = "none"
             /\ proc' = [phase |-> "remove", included |-> Included, todo |-> Included]
    <3>1. Working'
      BY <2>1, <2>3 DEF Working
    <3> QED BY <2>1, <2>3, <3>1
  <2> QED BY <1>1, <2>2, <2>3 DEF cmd_classify_cram, Exit
<1>2. CASE removeDst
  <2>1. Included' = Included /\ UNCHANGED <<source, scope, outcome>> /\ dst' = << >>
    BY <1>2 DEF removeDst, Included
  <2>2. Working
    BY <1>2, InProgress DEF removeDst
  <2>3. proc' = [phase |-> "copy", included |-> Included, todo |-> proc.todo]
    BY <1>2, <2>2, Memory DEF removeDst
  <2>4. proc.todo = Included /\ outcome = "none"
    BY <1>2, <2>2 DEF removeDst, Working
  <2>5. DOMAIN dst' = {}
    BY <2>1, EmptyDirectory
  <2>6. Working'
    BY <2>1, <2>3, <2>4, <2>5 DEF Working
  <2> QED BY <2>1, <2>4, <2>5, <2>6
<1>3. CASE copyTest
  <2>1. Included' = Included /\ UNCHANGED <<source, scope, outcome>>
    BY <1>3 DEF copyTest, Included
  <2>2. Working /\ proc.phase = "copy"
    BY <1>3, InProgress DEF copyTest
  <2>3. PICK t \in proc.todo : /\ dst' = Put(dst, t, source[t])
                               /\ proc' = [proc EXCEPT !.todo = @ \ {t}]
    BY <1>3 DEF copyTest
  <2>4. proc' = [phase |-> "copy", included |-> Included, todo |-> proc.todo \ {t}]
    BY <2>2, <2>3, Memory
  <2>5. /\ DOMAIN dst' = DOMAIN dst \cup {t}
        /\ \A u \in DOMAIN dst' : dst'[u] = IF u = t THEN source[t] ELSE dst[u]
    BY <2>3 DEF Put
  <2>6. t \in Included /\ source[t] \in Tests /\ InScope(source[t])
    BY <2>2, Memory, TreesAssumption DEF Included
  <2>7. \A u \in DOMAIN dst' : dst'[u] = source[u] /\ dst'[u] \in Tests /\ InScope(dst'[u])
    BY <2>2, <2>5, <2>6 DEF Working
  <2>8. DOMAIN dst' = Included \ (proc.todo \ {t})
    BY <2>2, <2>5, <2>6 DEF Working
  <2> QED BY <2>1, <2>2, <2>4, <2>7, <2>8, Memory DEF Working
<1>4. CASE writeScope
  <2>1. Included' = Included /\ UNCHANGED <<source, dst>> /\ proc' = Idle /\ outcome' = "ok"
    BY <1>4 DEF writeScope, Included, Exit
  <2>2. Working /\ proc.phase = "copy" /\ proc.todo = {}
    BY <1>4, InProgress DEF writeScope
  <2>3. scope' = [included |-> Cardinality(Included), excluded |-> DOMAIN source \ Included]
    BY <1>4, <2>2, Memory DEF writeScope
  <2>4. Ended'
    BY <2>1, <2>2, <2>3 DEF Ended, Working
  <2>5. scope'.included \in Nat
    BY <2>3, IncludedFinite
  <2> QED BY <2>1, <2>4, <2>5
<1>5. CASE interrupt
  BY <1>5 DEF interrupt, Exit
<1>6. CASE checkout
  BY <1>6, TreesAssumption DEF checkout
<1>7. CASE UNCHANGED vars
  <2>1. Included' = Included
    BY <1>7 DEF vars, Included
  <2>2. Working => Working'
    BY <1>7, <2>1 DEF vars, Working
  <2> QED BY <1>7, <2>1, <2>2 DEF vars, Ended
<1> QED BY <1>1, <1>2, <1>3, <1>4, <1>5, <1>6, <1>7 DEF Next

LEMMA CramInvariant == Spec => []CramInv
BY CramInitially, CramPreserved, PTL DEF Spec

(***************************************************************************)
(* After a `classify-cram` that ends, whatever was interrupted before it    *)
(* and wherever the checkout moved, every test of wax/test/cram-tests was   *)
(* copied as it is or is listed in cram-scope.md as excluded, and the       *)
(* report counts the copies.                                                *)
(***************************************************************************)
THEOREM NoTestIsLost == Spec => []NothingIsLost
<1>1. CramInv => NothingIsLost
  <2> SUFFICES ASSUME CramInv PROVE NothingIsLost
    OBVIOUS
  <2>1. \A t \in DOMAIN source : source[t].outside \in BOOLEAN
    BY TreesAssumption DEF CramInv, Tests
  <2>2. proc.phase = "copy" => DOMAIN dst = proc.included \ proc.todo
    BY InProgress, Memory DEF Working
  <2>3. CramTypeOK
    BY <2>1, <2>2 DEF CramTypeOK, CramInv
  <2>4. ASSUME outcome = "ok"
        PROVE  /\ scope.included = Cardinality(DOMAIN dst)
               /\ DOMAIN source = DOMAIN dst \cup scope.excluded
               /\ DOMAIN dst \cap scope.excluded = {}
               /\ \A t \in DOMAIN dst : dst[t] = source[t]
    <3>1. Ended /\ Included \subseteq DOMAIN source
      BY <2>4, IncludedFinite DEF CramInv
    <3> QED BY <3>1 DEF Ended
  <2> QED BY <2>3, <2>4 DEF NothingIsLost
<1> QED BY <1>1, CramInvariant, PTL

\* test/cram holds tests that the selector took, and no others.
OnlySelected == \A t \in DOMAIN dst : InScope(dst[t])

(***************************************************************************)
(* Whatever was interrupted and wherever the checkout moved, every test     *)
(* that is in test/cram was selected in the form in which it is there: a    *)
(* copy that is cut short, or one of an older checkout, brings in nothing   *)
(* that classify-cram would refuse.                                         *)
(***************************************************************************)
THEOREM SelectionIsKept == Spec => []OnlySelected
<1>1. CramInv => OnlySelected
  BY DEF CramInv, OnlySelected
<1> QED BY <1>1, CramInvariant, PTL

-----------------------------------------------------------------------------
(* Recursion from the last word of a command to its first.                 *)

LessThan == {p \in Nat \X Nat : p[1] < p[2]}

LEMMA LeastElement ==
  ASSUME NEW T, T \subseteq Nat, T # {}
  PROVE  \E x \in T : \A y \in T : x <= y
<1>1. IsWellFoundedOn(LessThan, Nat)
  BY NatLessThanWellFounded DEF OpToRel, LessThan
<1>2. PICK x \in T : \A y \in T : <<y, x>> \notin LessThan
  BY <1>1, WFMin
<1>3. \A y \in T : x <= y
  <2> SUFFICES ASSUME NEW y \in T PROVE x <= y
    OBVIOUS
  <2>1. x \in Nat /\ y \in Nat
    OBVIOUS
  <2>2. ~(y < x)
    BY <1>2, <2>1 DEF LessThan
  <2> QED BY <2>1, <2>2
<1> QED BY <1>3

\* Induction downwards: a set has every number up to n if it has each of them whose
\* greater ones it has.
LEMMA Downwards ==
  ASSUME NEW n \in Nat, NEW S,
         \A i \in 1..n : (\A j \in (i + 1)..n : j \in S) => i \in S
  PROVE  1..n \subseteq S
<1> SUFFICES ASSUME NEW x \in 1..n, x \notin S PROVE FALSE
  OBVIOUS
<1> DEFINE T == {k \in Nat : n - k \in 1..n /\ n - k \notin S}
<1>1. n - x \in T
  OBVIOUS
<1>2. PICK k \in T : \A l \in T : k <= l
  BY <1>1, LeastElement
<1>3. \A j \in ((n - k) + 1)..n : j \in S
  <2> SUFFICES ASSUME NEW j \in ((n - k) + 1)..n, j \notin S PROVE FALSE
    OBVIOUS
  <2>1. n - j \in T /\ ~(k <= n - j)
    BY <1>2
  <2> QED BY <1>2, <2>1
<1> QED BY <1>2, <1>3

(***************************************************************************)
(* A function on 1..n whose value at i depends on its values at greater     *)
(* numbers only exists.  R is one round of its equation.                    *)
(***************************************************************************)
LooksAhead(n, V, R) ==
  /\ R \in [[1..n -> V] -> [1..n -> V]]
  /\ \A g, h \in [1..n -> V] : \A i \in 1..n :
       (\A j \in (i + 1)..n : g[j] = h[j]) => R[g][i] = R[h][i]

LEMMA Backwards ==
  ASSUME NEW n \in Nat, NEW V, NEW R, LooksAhead(n, V, R), [1..n -> V] # {}
  PROVE  \E f \in [1..n -> V] : f = R[f]
<1> DEFINE G == [1..n -> V]
           Solves(g, i) == g \in G /\ \A j \in i..n : g[j] = R[g][j]
           S == {i \in 1..n : \E g : Solves(g, i)}
<1>0. PICK start \in G : TRUE
  OBVIOUS
<1>1. ASSUME NEW i \in Nat, i >= 1, NEW g, Solves(g, i + 1) PROVE Solves(R[g], i)
  <2>1. R[g] \in G
    BY <1>1 DEF LooksAhead
  <2>2. ASSUME NEW j \in i..n PROVE R[g][j] = R[R[g]][j]
    <3>1. j \in 1..n /\ \A k \in (j + 1)..n : g[k] = R[g][k]
      BY <1>1, <2>2
    <3> QED BY <1>1, <2>1, <3>1 DEF LooksAhead
  <2> QED BY <2>1, <2>2
<1>2. Solves(start, n + 1)
  BY <1>0
<1>3. ASSUME NEW i \in 1..n, \A j \in (i + 1)..n : j \in S PROVE i \in S
  <2>1. \E g : Solves(g, i + 1)
    <3>1. CASE i = n
      <4> HIDE DEF Solves
      <4> QED BY <1>2, <3>1
    <3>2. CASE i # n
      <4>1. i + 1 \in (i + 1)..n
        BY <3>2
      <4> HIDE DEF Solves
      <4> QED BY <1>3, <4>1
    <3> QED BY <3>1, <3>2
  <2>2. \E g : Solves(g, i)
    <3>1. PICK g : Solves(g, i + 1)
      BY <2>1
    <3>2. i \in Nat /\ i >= 1
      OBVIOUS
    <3> HIDE DEF Solves
    <3>3. Solves(R[g], i)
      BY <1>1, <3>1, <3>2
    <3> QED BY <3>3
  <2> HIDE DEF Solves
  <2> QED BY <2>2
<1>4. 1..n \subseteq S
  <2> HIDE DEF S
  <2> QED BY <1>3, Downwards
<1>5. \E g : Solves(g, 1)
  <2>1. CASE n = 0
    <3>1. Solves(start, 1)
      BY <1>0, <2>1
    <3> HIDE DEF Solves
    <3> QED BY <3>1
  <2>2. CASE n # 0
    <3>1. 1 \in S
      BY <1>4, <2>2
    <3> HIDE DEF Solves
    <3> QED BY <3>1
  <2> QED BY <2>1, <2>2
<1>6. PICK g : Solves(g, 1)
  BY <1>5
<1>7. R[g] \in G
  BY <1>6 DEF LooksAhead
<1> QED BY <1>6, <1>7

-----------------------------------------------------------------------------
(* What the selector and parse_args compute of one list of words.          *)

Scans == [reason : {None, "flag", "writes", "reads"}, positionals : Seq(CramWords)]

Positional(x, s) == [s EXCEPT !.positionals = <<x>> \o @]
Stops(why) == [reason |-> why, positionals |-> <<>>]

\* The value of a flag in each of the two programs; `missing` when no word is left.
ValueAt(args, i, missing) ==
  IF args[i].inline # None THEN args[i].inline
  ELSE IF i < Len(args) THEN args[i + 1].name ELSE missing

\* The words at which the selector stops.
BadFlag(args, i) == IsFlag(args[i]) /\ args[i].name \notin CRAM_OK_FLAGS
BadOutput(args, i) ==
  args[i].name \in out_formats /\ ValueAt(args, i, "") \notin CRAM_OK_OUT_FORMATS
BadInput(args, i) ==
  args[i].name \in in_formats /\ ValueAt(args, i, "") \notin CRAM_OK_IN_FORMATS

\* The five outcomes of the selector at a word.
LEMMA ScannedIs ==
  ASSUME NEW args, NEW scan, NEW i, ~(i > Len(args))
  PROVE  /\ ~IsFlag(args[i]) => scanned(args, scan, i) = Positional(args[i], scan[i + 1])
         /\ BadFlag(args, i) => scanned(args, scan, i) = Stops("flag")
         /\ BadOutput(args, i) => scanned(args, scan, i) = Stops("writes")
         /\ BadInput(args, i) => scanned(args, scan, i) = Stops("reads")
         /\ IsFlag(args[i]) /\ ~BadFlag(args, i) /\ ~BadOutput(args, i) /\ ~BadInput(args, i)
            => scanned(args, scan, i) =
                  scan[IF args[i].name \in valued /\ args[i].inline = None THEN i + 2 ELSE i + 1]
<1> DEFINE w == args[i]
           val == ValueAt(args, i, "")
<1>1. /\ w.name \in out_formats => IsFlag(w) /\ w.name \in CRAM_OK_FLAGS /\ w.name \notin in_formats
      /\ w.name \in in_formats => IsFlag(w) /\ w.name \in CRAM_OK_FLAGS /\ w.name \notin out_formats
      /\ w.name \in CRAM_OK_FLAGS => IsFlag(w)
  BY DEF IsFlag, out_formats, in_formats, CRAM_OK_FLAGS
<1>2. scanned(args, scan, i) =
        CASE ~IsFlag(w) -> Positional(w, scan[i + 1])
          [] IsFlag(w) /\ w.name \notin CRAM_OK_FLAGS -> Stops("flag")
          [] w.name \in out_formats /\ val \notin CRAM_OK_OUT_FORMATS -> Stops("writes")
          [] w.name \in in_formats /\ val \notin CRAM_OK_IN_FORMATS -> Stops("reads")
          [] OTHER -> scan[IF w.name \in valued /\ w.inline = None THEN i + 2 ELSE i + 1]
  BY DEF scanned, Positional, Stops, ValueAt
<1>3. CASE ~IsFlag(w)
  BY <1>1, <1>2, <1>3 DEF BadFlag, BadOutput, BadInput
<1>4. CASE BadFlag(args, i)
  BY <1>1, <1>2, <1>4 DEF BadFlag, BadOutput, BadInput
<1>5. CASE BadOutput(args, i)
  BY <1>1, <1>2, <1>5 DEF BadFlag, BadOutput, BadInput
<1>6. CASE BadInput(args, i)
  BY <1>1, <1>2, <1>6 DEF BadFlag, BadOutput, BadInput
<1>7. CASE IsFlag(w) /\ ~BadFlag(args, i) /\ ~BadOutput(args, i) /\ ~BadInput(args, i)
  BY <1>1, <1>2, <1>7 DEF BadFlag, BadOutput, BadInput
<1> QED BY <1>3, <1>4, <1>5, <1>6, <1>7

LEMMA ScannedTyped ==
  ASSUME NEW args \in Seq(CramWords), NEW i \in 1..(Len(args) + 2), NEW scan,
         \A j \in (i + 1)..(Len(args) + 2) : scan[j] \in Scans
  PROVE  scanned(args, scan, i) \in Scans
<1>1. CASE i > Len(args)
  BY <1>1 DEF scanned, Scans
<1>2. CASE ~(i > Len(args))
  <2>1. args[i] \in CramWords /\ i + 1 \in (i + 1)..(Len(args) + 2)
        /\ i + 2 \in (i + 1)..(Len(args) + 2)
    BY <1>2
  <2>2. scan[i + 1] \in Scans /\ scan[i + 2] \in Scans
    BY <2>1
  <2>3. Positional(args[i], scan[i + 1]) \in Scans
    <3>1. PICK s \in Scans : s = scan[i + 1]
      BY <2>2
    <3>2. args[i] \in CramWords
      BY <2>1
    <3>3. <<args[i]>> \o s.positionals \in Seq(CramWords)
      BY <3>2 DEF Scans
    <3>4. Positional(args[i], s) \in Scans
      BY <3>3 DEF Scans, Positional
    <3> QED BY <3>1, <3>4
  <2>4. Stops("flag") \in Scans /\ Stops("writes") \in Scans /\ Stops("reads") \in Scans
    BY DEF Scans, Stops
  <2> QED BY <1>2, <2>2, <2>3, <2>4, ScannedIs
<1> QED BY <1>1, <1>2

LEMMA ScannedLooksAhead ==
  ASSUME NEW args \in Seq(CramWords), NEW i \in 1..(Len(args) + 2), NEW g, NEW h,
         \A j \in (i + 1)..(Len(args) + 2) : g[j] = h[j]
  PROVE  scanned(args, g, i) = scanned(args, h, i)
<1>1. CASE i > Len(args)
  BY <1>1 DEF scanned
<1>2. CASE ~(i > Len(args))
  <2>1. g[i + 1] = h[i + 1] /\ g[i + 2] = h[i + 2]
    BY <1>2
  <2> QED BY <1>2, <2>1, ScannedIs
<1> QED BY <1>1, <1>2

\* The pass of the selector meets its equation at every word.
LEMMA ScanMeetsEquation ==
  ASSUME NEW args \in Seq(CramWords)
  PROVE  \E scan \in [1..(Len(args) + 2) -> Scans] :
            /\ _scan(args) = scan[1]
            /\ \A i \in 1..(Len(args) + 2) : scan[i] = scanned(args, scan, i)
<1> DEFINE n == Len(args) + 2
           Round(f) == [i \in 1..n |-> scanned(args, f, i)]
           R == [f \in [1..n -> Scans] |-> Round(f)]
           scan == CHOOSE f : f = Round(f)
<1>1. n \in Nat
  OBVIOUS
<1>2. \A f \in [1..n -> Scans] : Round(f) \in [1..n -> Scans]
  BY ScannedTyped
<1>3. R \in [[1..n -> Scans] -> [1..n -> Scans]]
  BY <1>2
<1>4. \A g, h \in [1..n -> Scans] : \A i \in 1..n :
        (\A j \in (i + 1)..n : g[j] = h[j]) => R[g][i] = R[h][i]
  BY ScannedLooksAhead
<1>5. [i \in 1..n |-> [reason |-> None, positionals |-> <<>>]] \in [1..n -> Scans]
  BY DEF Scans
<1>6. \E f \in [1..n -> Scans] : f = R[f]
  <2> HIDE DEF n, R
  <2>1. LooksAhead(n, Scans, R) /\ [1..n -> Scans] # {}
    BY <1>3, <1>4, <1>5 DEF LooksAhead
  <2> QED BY <1>1, <2>1, Backwards
<1>7. scan = Round(scan)
  <2>1. \E f : f = Round(f)
    BY <1>6
  <2> HIDE DEF Round
  <2> QED BY <2>1
<1>8. _scan(args) = scan[1]
  BY DEF _scan
<1> HIDE DEF scan
<1>9. \A i \in 1..n : scan[i] = scanned(args, scan, i)
  BY <1>7
<1>10. \A i \in 1..n : scan[i] \in Scans
  <2> DEFINE S == {i \in 1..n : scan[i] \in Scans}
  <2>1. \A i \in 1..n : (\A j \in (i + 1)..n : j \in S) => i \in S
    BY <1>9, ScannedTyped
  <2>2. 1..n \subseteq S
    <3> HIDE DEF S, n
    <3> QED BY <1>1, <2>1, Downwards
  <2> QED BY <2>2
<1>11. scan \in [1..n -> Scans]
  <2>1. scan = [i \in 1..n |-> scan[i]]
    BY <1>7
  <2> QED BY <1>10, <2>1
<1> QED BY <1>8, <1>9, <1>11

Options(command) ==
  [command : {command}, err : {None, "unknown", "needs a value"}, files : Seq(CramWords),
   input : Names \cup {None}, output : Names \cup {None}, path : Names \cup {None}]

Defaults(command) ==
  [command |-> command, err |-> None, files |-> <<>>,
   input |-> None, output |-> None, path |-> None]
Refusal(command, why) == [Defaults(command) EXCEPT !.err = why]
Filed(x, opts) == [opts EXCEPT !.files = <<x>> \o @]
Set(field, val, opts) == [opts EXCEPT ![field] = IF @ = None THEN val ELSE @]

\* The words that parse_args refuses, and those it reads without a value.
Unknown(args, i) ==
  (args[i].inline # None /\ ~args[i].long) \/ args[i].name \in {"--other", "--debug"}
Switch(args, i, command) ==
  args[i].name \in Booleans \/ (args[i].name = "-i" /\ command = "format")

\* The word behind a flag and its value.
Behind(args, i) == IF args[i].inline # None THEN i + 1 ELSE i + 2

\* A flag with its value, read into the options of the words behind it.
Valued(args, i, command, rest) ==
  LET w == args[i]
      val == ValueAt(args, i, None)
  IN IF w.name \in in_formats \/ (w.name = "-f" /\ command = "format")
     THEN Set("input", val, rest)
     ELSE IF w.name \in out_formats THEN Set("output", val, rest)
     ELSE IF w.name \in {"-o", "--output"} THEN Set("path", val, rest)
     ELSE rest

\* The outcomes of parse_args at a word.
LEMMA ParsedIs ==
  ASSUME NEW args, NEW command, NEW parse, NEW i, ~(i > Len(args))
  PROVE  parsed(args, command, parse, i) =
           IF ~IsFlag(args[i]) THEN Filed(args[i], parse[i + 1])
           ELSE IF Unknown(args, i) THEN Refusal(command, "unknown")
           ELSE IF Switch(args, i, command) THEN parse[i + 1]
           ELSE IF ValueAt(args, i, None) = None THEN Refusal(command, "needs a value")
           ELSE Valued(args, i, command, parse[Behind(args, i)])
BY Zenon DEF parsed, Filed, Unknown, Refusal, Defaults, Switch, ValueAt, Valued, Set, Behind

LEMMA DefaultsTyped ==
  ASSUME NEW command
  PROVE  /\ Defaults(command) \in Options(command)
         /\ Refusal(command, "unknown") \in Options(command)
         /\ Refusal(command, "unknown").err = "unknown"
         /\ Refusal(command, "needs a value") \in Options(command)
         /\ Refusal(command, "needs a value").err = "needs a value"
<1>1. Defaults(command) \in Options(command)
  BY DEF Defaults, Options
<1> QED BY <1>1 DEF Refusal, Options

LEMMA SetTyped ==
  ASSUME NEW command, NEW opts \in Options(command), NEW val \in Names \cup {None}
  PROVE  /\ Set("input", val, opts) \in Options(command)
         /\ Set("input", val, opts).err = opts.err
         /\ Set("input", val, opts).files = opts.files
         /\ Set("input", val, opts).input \in {opts.input, val}
         /\ Set("input", val, opts).output = opts.output
         /\ Set("output", val, opts) \in Options(command)
         /\ Set("output", val, opts).err = opts.err
         /\ Set("output", val, opts).files = opts.files
         /\ Set("output", val, opts).input = opts.input
         /\ Set("output", val, opts).output \in {opts.output, val}
         /\ Set("path", val, opts) \in Options(command)
         /\ Set("path", val, opts).err = opts.err
         /\ Set("path", val, opts).files = opts.files
         /\ Set("path", val, opts).input = opts.input
         /\ Set("path", val, opts).output = opts.output
BY DEF Set, Options

LEMMA ParsedTyped ==
  ASSUME NEW args \in Seq(CramWords), NEW command, NEW i \in 1..(Len(args) + 2), NEW parse,
         \A j \in (i + 1)..(Len(args) + 2) : parse[j] \in Options(command)
  PROVE  parsed(args, command, parse, i) \in Options(command)
<1>1. CASE i > Len(args)
  <2>1. parsed(args, command, parse, i) = Defaults(command)
    BY <1>1 DEF parsed, Defaults
  <2> QED BY <2>1, DefaultsTyped
<1>2. CASE ~(i > Len(args))
  <2>1. args[i] \in CramWords /\ i + 1 \in (i + 1)..(Len(args) + 2)
        /\ i + 2 \in (i + 1)..(Len(args) + 2)
    BY <1>2
  <2>2. parse[i + 1] \in Options(command) /\ parse[Behind(args, i)] \in Options(command)
    BY <2>1 DEF Behind
  <2>3. Filed(args[i], parse[i + 1]) \in Options(command)
    <3>1. PICK o \in Options(command) : o = parse[i + 1]
      BY <2>2
    <3>2. args[i] \in CramWords
      BY <2>1
    <3>3. <<args[i]>> \o o.files \in Seq(CramWords)
      <4>1. o.files \in Seq(CramWords)
        BY DEF Options
      <4>2. <<args[i]>> \in Seq(CramWords)
        BY <3>2
      <4> QED BY <4>1, <4>2, ConcatProperties
    <3>4. Filed(args[i], o) \in Options(command)
      BY <3>3 DEF Options, Filed
    <3> QED BY <3>1, <3>4
  <2>5. ValueAt(args, i, None) \in Names \cup {None}
    <3>1. i < Len(args) => args[i + 1] \in CramWords
      BY <1>2
    <3> QED BY <2>1, <3>1 DEF ValueAt, CramWords
  <2>6. Valued(args, i, command, parse[Behind(args, i)]) \in Options(command)
    BY <2>2, <2>5, SetTyped DEF Valued
  <2> QED BY <1>2, <2>2, <2>3, <2>6, ParsedIs, DefaultsTyped
<1> QED BY <1>1, <1>2

LEMMA ParsedLooksAhead ==
  ASSUME NEW args \in Seq(CramWords), NEW command, NEW i \in 1..(Len(args) + 2), NEW g, NEW h,
         \A j \in (i + 1)..(Len(args) + 2) : g[j] = h[j]
  PROVE  parsed(args, command, g, i) = parsed(args, command, h, i)
<1>1. CASE i > Len(args)
  BY <1>1 DEF parsed
<1>2. CASE ~(i > Len(args))
  <2>1. g[i + 1] = h[i + 1] /\ g[Behind(args, i)] = h[Behind(args, i)]
    BY <1>2 DEF Behind
  <2> QED BY <1>2, <2>1, ParsedIs
<1> QED BY <1>1, <1>2

Named(argv) == argv # <<>> /\ argv[1].name \in CRAM_OK_COMMANDS
CommandOf(argv) == IF Named(argv) THEN argv[1].name ELSE "convert"

\* parse_args meets its equation at every word.
LEMMA ParseMeetsEquation ==
  ASSUME NEW argv \in Seq(CramWords)
  PROVE  \E parse \in [1..(Len(argv) + 2) -> Options(CommandOf(argv))] :
            /\ parse_args(argv) = parse[IF Named(argv) THEN 2 ELSE 1]
            /\ \A i \in 1..(Len(argv) + 2) :
                  parse[i] = parsed(argv, CommandOf(argv), parse, i)
<1> DEFINE n == Len(argv) + 2
           c == CommandOf(argv)
           Round(f) == [i \in 1..n |-> parsed(argv, c, f, i)]
           V == Options(c)
           R == [f \in [1..n -> V] |-> Round(f)]
           parse == CHOOSE f : f = Round(f)
<1>1. n \in Nat
  OBVIOUS
<1>2. \A f \in [1..n -> V] : Round(f) \in [1..n -> V]
  BY ParsedTyped
<1>3. R \in [[1..n -> V] -> [1..n -> V]]
  BY <1>2
<1>4. \A g, h \in [1..n -> V] : \A i \in 1..n :
        (\A j \in (i + 1)..n : g[j] = h[j]) => R[g][i] = R[h][i]
  BY ParsedLooksAhead
<1>5. [i \in 1..n |-> Defaults(c)] \in [1..n -> V]
  BY DEF Options, Defaults
<1>6. \E f \in [1..n -> V] : f = R[f]
  <2> HIDE DEF n, R, V
  <2>1. LooksAhead(n, V, R) /\ [1..n -> V] # {}
    BY <1>3, <1>4, <1>5 DEF LooksAhead
  <2> QED BY <1>1, <2>1, Backwards
<1>7. parse = Round(parse)
  <2>1. \E f : f = Round(f)
    BY <1>6
  <2> HIDE DEF Round
  <2> QED BY <2>1
<1>8. parse_args(argv) = parse[IF Named(argv) THEN 2 ELSE 1]
  BY DEF parse_args, Named, CommandOf
<1> HIDE DEF parse
<1>9. \A i \in 1..n : parse[i] = parsed(argv, c, parse, i)
  BY <1>7
<1>10. \A i \in 1..n : parse[i] \in V
  <2> DEFINE S == {i \in 1..n : parse[i] \in V}
  <2>1. \A i \in 1..n : (\A j \in (i + 1)..n : j \in S) => i \in S
    BY <1>9, ParsedTyped
  <2>2. 1..n \subseteq S
    <3> HIDE DEF S, n
    <3> QED BY <1>1, <2>1, Downwards
  <2> QED BY <2>2
<1>11. parse \in [1..n -> V]
  <2>1. parse = [i \in 1..n |-> parse[i]]
    BY <1>7
  <2> QED BY <1>10, <2>1
<1> QED BY <1>8, <1>9, <1>11

-----------------------------------------------------------------------------
(* The two programs read the same words.                                   *)

\* A value follows a short flag as a word, and under `format` neither -f nor -i.
PlainWords(args, command) ==
  \A i \in 1..Len(args) :
    /\ args[i].inline # None => args[i].long
    /\ command = "format" => args[i].name \notin {"-f", "-i"}

\* What the options have in common with what the selector made of the same words.
Agrees(opts, s) ==
  /\ opts.err \in {None, "needs a value"}
  /\ opts.err = None =>
        /\ opts.files = s.positionals
        /\ opts.input \in {None} \cup CRAM_OK_IN_FORMATS
        /\ opts.output \in {None} \cup CRAM_OK_OUT_FORMATS

\* A word that passes the selector is read in the same way by parse_args.
LEMMA WordAgrees ==
  ASSUME NEW args \in Seq(CramWords), NEW command, PlainWords(args, command),
         NEW i \in 1..(Len(args) + 2), NEW scan, NEW parse,
         \A j \in (i + 1)..(Len(args) + 2) :
            /\ scan[j] \in Scans /\ parse[j] \in Options(command)
            /\ scan[j].reason = None => Agrees(parse[j], scan[j]),
         scanned(args, scan, i).reason = None
  PROVE  Agrees(parsed(args, command, parse, i), scanned(args, scan, i))
<1>1. CASE i > Len(args)
  <2>1. parsed(args, command, parse, i) = Defaults(command)
    BY <1>1 DEF parsed, Defaults
  <2>2. scanned(args, scan, i) = [reason |-> None, positionals |-> <<>>]
    BY <1>1 DEF scanned
  <2>3. /\ Defaults(command).err = None /\ Defaults(command).files = <<>>
        /\ Defaults(command).input = None /\ Defaults(command).output = None
    BY DEF Defaults
  <2>4. [reason |-> None, positionals |-> <<>>].positionals = <<>>
    OBVIOUS
  <2>5. Agrees(Defaults(command), [reason |-> None, positionals |-> <<>>])
    BY <2>3, <2>4 DEF Agrees
  <2> QED BY <2>1, <2>2, <2>5
<1>2. CASE ~(i > Len(args))
  <2>0. args[i] \in CramWords /\ i \in 1..Len(args)
        /\ i + 1 \in (i + 1)..(Len(args) + 2) /\ i + 2 \in (i + 1)..(Len(args) + 2)
    BY <1>2
  <2>1. CASE ~IsFlag(args[i])
    <3>1. /\ scanned(args, scan, i) = Positional(args[i], scan[i + 1])
          /\ parsed(args, command, parse, i) = Filed(args[i], parse[i + 1])
      BY <1>2, <2>1, ScannedIs, ParsedIs
    <3>2. PICK s \in Scans, o \in Options(command) :
             s = scan[i + 1] /\ o = parse[i + 1] /\ (s.reason = None => Agrees(o, s))
      BY <2>0
    <3>3. /\ Positional(args[i], s).reason = s.reason
          /\ Positional(args[i], s).positionals = <<args[i]>> \o s.positionals
      BY DEF Positional, Scans
    <3>4. /\ Filed(args[i], o).err = o.err
          /\ Filed(args[i], o).input = o.input
          /\ Filed(args[i], o).output = o.output
          /\ Filed(args[i], o).files = <<args[i]>> \o o.files
      BY DEF Filed, Options
    <3>5. Agrees(o, s)
      BY <3>1, <3>2, <3>3
    <3>6. Agrees(Filed(args[i], o), Positional(args[i], s))
      BY <3>3, <3>4, <3>5 DEF Agrees
    <3>7. /\ scanned(args, scan, i) = Positional(args[i], s)
          /\ parsed(args, command, parse, i) = Filed(args[i], o)
      BY <3>1, <3>2
    <3> QED BY <3>6, <3>7
  <2>2. CASE IsFlag(args[i])
    <3> DEFINE ahead == IF args[i].name \in valued /\ args[i].inline = None THEN i + 2 ELSE i + 1
    <3>1. ~BadFlag(args, i) /\ ~BadOutput(args, i) /\ ~BadInput(args, i)
      <4>1. \A why \in {"flag", "writes", "reads"} : Stops(why).reason # None
        BY ExtAssumption DEF Stops, Answers
      <4> QED BY <1>2, <4>1, ScannedIs
    <3>2. scanned(args, scan, i) = scan[ahead]
      BY <1>2, <2>2, <3>1, ScannedIs
    <3>3. ~Unknown(args, i)
      BY <2>0, <2>2, <3>1 DEF Unknown, BadFlag, PlainWords, CRAM_OK_FLAGS
    <3>4. ahead \in (i + 1)..(Len(args) + 2)
      BY <2>0
    <3> HIDE DEF ahead
    <3>5. PICK s \in Scans, o \in Options(command) :
             s = scan[ahead] /\ o = parse[ahead] /\ (s.reason = None => Agrees(o, s))
      BY <3>4
    <3>6. Agrees(o, s)
      BY <3>2, <3>5
    <3>7. CASE Switch(args, i, command)
      <4>1. args[i].name \notin valued
        BY <2>0, <3>7 DEF Switch, PlainWords, Booleans, valued
      <4>2. ahead = i + 1
        BY <4>1 DEF ahead
      <4>3. parsed(args, command, parse, i) = parse[i + 1]
        BY <1>2, <2>2, <3>3, <3>7, ParsedIs
      <4> QED BY <3>2, <3>5, <3>6, <4>2, <4>3
    <3>8. CASE ~Switch(args, i, command) /\ ValueAt(args, i, None) = None
      <4>1. parsed(args, command, parse, i) = Refusal(command, "needs a value")
        BY <1>2, <2>2, <3>3, <3>8, ParsedIs
      <4>2. Refusal(command, "needs a value").err = "needs a value" /\ "needs a value" # None
        BY DefaultsTyped, ExtAssumption DEF Answers
      <4> QED BY <4>1, <4>2 DEF Agrees
    <3>9. CASE ~Switch(args, i, command) /\ ValueAt(args, i, None) # None
      <4>1. args[i].name \in valued
        BY <2>2, <3>1, <3>9 DEF Switch, BadFlag, Booleans, valued, CRAM_OK_FLAGS
      <4>2. ahead = Behind(args, i)
        BY <4>1 DEF ahead, Behind
      <4>3. parsed(args, command, parse, i) = Valued(args, i, command, o)
        BY <1>2, <2>2, <3>3, <3>5, <3>9, <4>2, ParsedIs
      <4>4. ValueAt(args, i, None) = ValueAt(args, i, "")
        BY <3>9 DEF ValueAt
      <4>5. PICK val : val = ValueAt(args, i, None)
        OBVIOUS
      <4>6. val \in Names \cup {None}
        <5>1. i < Len(args) => args[i + 1] \in CramWords
          BY <2>0
        <5> QED BY <2>0, <4>5, <5>1 DEF ValueAt, CramWords
      <4>7. CASE args[i].name \in in_formats
        <5>1. Valued(args, i, command, o) = Set("input", val, o)
          BY <4>5, <4>7 DEF Valued
        <5>2. val \in CRAM_OK_IN_FORMATS
          BY <3>1, <4>4, <4>5, <4>7 DEF BadInput
        <5>3. Agrees(Set("input", val, o), s)
          <6>1. /\ Set("input", val, o).err = o.err /\ Set("input", val, o).files = o.files
                /\ Set("input", val, o).output = o.output /\ Set("input", val, o).input \in {o.input, val}
            BY <4>6, SetTyped
          <6> QED BY <3>6, <5>2, <6>1 DEF Agrees
        <5> QED BY <3>2, <3>5, <4>3, <5>1, <5>3
      <4>8. CASE args[i].name \in out_formats
        <5>1. args[i].name \notin in_formats /\ ~(args[i].name = "-f" /\ command = "format")
          BY <2>0, <4>8 DEF in_formats, out_formats, PlainWords
        <5>2. Valued(args, i, command, o) = Set("output", val, o)
          BY <4>5, <4>8, <5>1 DEF Valued
        <5>3. val \in CRAM_OK_OUT_FORMATS
          BY <3>1, <4>4, <4>5, <4>8 DEF BadOutput
        <5>4. Agrees(Set("output", val, o), s)
          <6>1. /\ Set("output", val, o).err = o.err /\ Set("output", val, o).files = o.files
                /\ Set("output", val, o).input = o.input /\ Set("output", val, o).output \in {o.output, val}
            BY <4>6, SetTyped
          <6> QED BY <3>6, <5>3, <6>1 DEF Agrees
        <5> QED BY <3>2, <3>5, <4>3, <5>2, <5>4
      <4>9. CASE args[i].name \notin in_formats /\ args[i].name \notin out_formats
        <5>1. args[i].name # "-f"
          BY <4>9 DEF out_formats
        <5>2. Valued(args, i, command, o) \in {Set("path", val, o), o}
          BY <4>5, <4>9, <5>1 DEF Valued
        <5>3. Agrees(Set("path", val, o), s)
          <6>1. /\ Set("path", val, o).err = o.err /\ Set("path", val, o).files = o.files
                /\ Set("path", val, o).input = o.input /\ Set("path", val, o).output = o.output
            BY <4>6, SetTyped
          <6> QED BY <3>6, <6>1 DEF Agrees
        <5> QED BY <3>2, <3>5, <3>6, <4>3, <5>2, <5>3
      <4> QED BY <4>7, <4>8, <4>9
    <3> QED BY <3>7, <3>8, <3>9
  <2> QED BY <2>1, <2>2
<1> QED BY <1>1, <1>2

\* From any word on.
LEMMA ProgramsAgree ==
  ASSUME NEW args \in Seq(CramWords), NEW command, PlainWords(args, command),
         NEW scan, NEW parse,
         \A i \in 1..(Len(args) + 2) :
            /\ scan[i] \in Scans /\ scan[i] = scanned(args, scan, i)
            /\ parse[i] \in Options(command) /\ parse[i] = parsed(args, command, parse, i)
  PROVE  \A i \in 1..(Len(args) + 2) : scan[i].reason = None => Agrees(parse[i], scan[i])
<1> DEFINE n == Len(args) + 2
           S == {i \in 1..n : scan[i].reason = None => Agrees(parse[i], scan[i])}
<1>1. n \in Nat
  OBVIOUS
<1>2. \A i \in 1..n : (\A j \in (i + 1)..n : j \in S) => i \in S
  <2> SUFFICES ASSUME NEW i \in 1..n, \A j \in (i + 1)..n : j \in S, scan[i].reason = None
               PROVE  Agrees(parse[i], scan[i])
    OBVIOUS
  <2>1. \A j \in (i + 1)..n :
           /\ scan[j] \in Scans /\ parse[j] \in Options(command)
           /\ scan[j].reason = None => Agrees(parse[j], scan[j])
    OBVIOUS
  <2>2. Agrees(parsed(args, command, parse, i), scanned(args, scan, i))
    <3>1. scanned(args, scan, i).reason = None
      OBVIOUS
    <3> QED BY <2>1, <3>1, WordAgrees
  <2>3. scan[i] = scanned(args, scan, i) /\ parse[i] = parsed(args, command, parse, i)
    OBVIOUS
  <2> QED BY <2>2, <2>3
<1>3. 1..n \subseteq S
  <2> HIDE DEF S, n
  <2> QED BY <1>1, <1>2, Downwards
<1> QED BY <1>3

-----------------------------------------------------------------------------
(* What the shell leaves of a list of words.                               *)

\* One round of its equation.
Left(words, rest, i) ==
  IF i > Len(words) THEN <<>>
  ELSE IF words[i].redir THEN rest[i + 1] ELSE <<words[i]>> \o rest[i + 1]

LEMMA PassedMeetsEquation ==
  ASSUME NEW S, NEW words \in Seq(S)
  PROVE  \E rest \in [1..(Len(words) + 1) -> Seq(S)] :
            /\ Passed(words) = rest[1]
            /\ \A i \in 1..(Len(words) + 1) : rest[i] = Left(words, rest, i)
<1> DEFINE n == Len(words) + 1
           V == Seq(S)
           Round(f) == [i \in 1..n |-> Left(words, f, i)]
           R == [f \in [1..n -> V] |-> Round(f)]
           rest == CHOOSE f : f = Round(f)
<1>1. n \in Nat
  OBVIOUS
<1>2. ASSUME NEW f, NEW i \in 1..n, \A j \in (i + 1)..n : f[j] \in V
      PROVE  Left(words, f, i) \in V
  <2>1. CASE i > Len(words)
    BY <2>1 DEF Left
  <2>2. CASE ~(i > Len(words))
    <3>1. words[i] \in S /\ f[i + 1] \in V
      BY <1>2, <2>2
    <3>2. <<words[i]>> \o f[i + 1] \in V
      BY <3>1
    <3> QED BY <2>2, <3>1, <3>2 DEF Left
  <2> QED BY <2>1, <2>2
<1>3. R \in [[1..n -> V] -> [1..n -> V]]
  <2>1. \A f \in [1..n -> V] : Round(f) \in [1..n -> V]
    BY <1>2
  <2> QED BY <2>1
<1>4. \A g, h \in [1..n -> V] : \A i \in 1..n :
        (\A j \in (i + 1)..n : g[j] = h[j]) => R[g][i] = R[h][i]
  <2> SUFFICES ASSUME NEW g \in [1..n -> V], NEW h \in [1..n -> V], NEW i \in 1..n,
                      \A j \in (i + 1)..n : g[j] = h[j]
               PROVE  Left(words, g, i) = Left(words, h, i)
    OBVIOUS
  <2>1. i > Len(words) \/ g[i + 1] = h[i + 1]
    OBVIOUS
  <2> QED BY <2>1 DEF Left
<1>5. [i \in 1..n |-> <<>>] \in [1..n -> V]
  OBVIOUS
<1>6. \E f \in [1..n -> V] : f = R[f]
  <2> HIDE DEF n, R, V
  <2>1. LooksAhead(n, V, R) /\ [1..n -> V] # {}
    BY <1>3, <1>4, <1>5 DEF LooksAhead
  <2> QED BY <1>1, <2>1, Backwards
<1>7. rest = Round(rest)
  <2>1. \E f : f = Round(f)
    BY <1>6
  <2> HIDE DEF Round
  <2> QED BY <2>1
<1>8. Passed(words) = rest[1]
  BY DEF Passed, Left
<1> HIDE DEF rest
<1>9. \A i \in 1..n : rest[i] = Left(words, rest, i)
  BY <1>7
<1>10. \A i \in 1..n : rest[i] \in V
  <2> DEFINE T == {i \in 1..n : rest[i] \in V}
  <2>1. \A i \in 1..n : (\A j \in (i + 1)..n : j \in T) => i \in T
    BY <1>2, <1>9
  <2>2. 1..n \subseteq T
    <3> HIDE DEF T, n
    <3> QED BY <1>1, <2>1, Downwards
  <2> QED BY <2>2
<1>11. rest \in [1..n -> V]
  <2>1. rest = [i \in 1..n |-> rest[i]]
    BY <1>7
  <2> QED BY <1>10, <2>1
<1> QED BY <1>8, <1>9, <1>11

LEMMA PassedTyped ==
  ASSUME NEW S, NEW words \in Seq(S)
  PROVE  Passed(words) \in Seq(S)
<1>1. PICK rest \in [1..(Len(words) + 1) -> Seq(S)] : Passed(words) = rest[1]
  BY PassedMeetsEquation
<1> QED BY <1>1

LEMMA PassedOfNone == Passed(<<>>) = <<>>
<1>1. PICK e \in Seq(CramWords) : e = <<>> /\ Len(e) = 0
  BY EmptySeq
<1>2. PICK h \in [1..(Len(e) + 1) -> Seq(CramWords)] :
         Passed(e) = h[1] /\ \A i \in 1..(Len(e) + 1) : h[i] = Left(e, h, i)
  BY PassedMeetsEquation
<1>3. h[1] = Left(e, h, 1)
  BY <1>1, <1>2
<1> QED BY <1>1, <1>2, <1>3 DEF Left

\* Word by word from the left.
LEMMA PassedOfConcat ==
  ASSUME NEW w \in CramWords, NEW s \in Seq(CramWords)
  PROVE  Passed(<<w>> \o s) = IF w.redir THEN Passed(s) ELSE <<w>> \o Passed(s)
<1>0. <<w>> \in Seq(CramWords) /\ <<w>> \o s \in Seq(CramWords)
  BY ConcatProperties
<1>1. PICK t \in Seq(CramWords) : t = <<w>> \o s
  BY <1>0
<1>2. Len(t) = Len(s) + 1 /\ t[1] = w /\ \A i \in 1..Len(s) : t[i + 1] = s[i]
  BY <1>1
<1>3. PICK f \in [1..(Len(t) + 1) -> Seq(CramWords)] :
         Passed(t) = f[1] /\ \A i \in 1..(Len(t) + 1) : f[i] = Left(t, f, i)
  BY PassedMeetsEquation
<1>4. PICK g \in [1..(Len(s) + 1) -> Seq(CramWords)] :
         Passed(s) = g[1] /\ \A i \in 1..(Len(s) + 1) : g[i] = Left(s, g, i)
  BY PassedMeetsEquation
<1> DEFINE n == Len(s) + 1
           T == {i \in 1..n : f[i + 1] = g[i]}
<1>5. ASSUME NEW i \in 1..n, \A j \in (i + 1)..n : j \in T PROVE i \in T
  <2>1. f[i + 1] = Left(t, f, i + 1) /\ g[i] = Left(s, g, i)
    BY <1>2, <1>3, <1>4
  <2>2. CASE i > Len(s)
    BY <1>2, <2>1, <2>2 DEF Left
  <2>3. CASE ~(i > Len(s))
    <3>1. t[i + 1] = s[i] /\ ~(i + 1 > Len(t)) /\ i + 1 \in T
      BY <1>2, <1>5, <2>3
    <3>2. f[(i + 1) + 1] = g[i + 1]
      BY <3>1
    <3> QED BY <2>1, <2>3, <3>1, <3>2 DEF Left
  <2> QED BY <2>2, <2>3
<1>6. 1..n \subseteq T
  <2>1. n \in Nat
    OBVIOUS
  <2> HIDE DEF T, n
  <2> QED BY <1>5, <2>1, Downwards
<1>7. f[2] = g[1]
  <2>1. 1 \in T
    BY <1>6
  <2> QED BY <2>1
<1>8. f[1] = IF w.redir THEN f[2] ELSE <<w>> \o f[2]
  <2>1. f[1] = Left(t, f, 1) /\ ~(1 > Len(t))
    BY <1>2, <1>3
  <2> QED BY <1>2, <2>1 DEF Left
<1> QED BY <1>1, <1>3, <1>4, <1>7, <1>8

\* Where among them the words from word i on begin.
Place(rest, i) == Len(rest[1]) - Len(rest[i]) + 1

LEMMA PlaceOfWord ==
  ASSUME NEW args \in Seq(CramWords), NEW rest \in [1..(Len(args) + 1) -> Seq(CramWords)],
         \A i \in 1..(Len(args) + 1) : rest[i] = Left(args, rest, i)
  PROVE  /\ Place(rest, 1) = 1 /\ Place(rest, Len(args) + 1) = Len(rest[1]) + 1
         /\ \A i \in 1..Len(args) :
              IF args[i].redir THEN Place(rest, i + 1) = Place(rest, i)
              ELSE /\ Place(rest, i) \in 1..Len(rest[1]) /\ rest[1][Place(rest, i)] = args[i]
                   /\ Place(rest, i + 1) = Place(rest, i) + 1
<1> DEFINE Suffix(i) == /\ Place(rest, i) \in 1..(Len(rest[1]) + 1)
                        /\ \A k \in 1..Len(rest[i]) : rest[1][(Place(rest, i) + k) - 1] = rest[i][k]
<1>1. ASSUME NEW i \in 1..Len(args)
      PROVE  /\ rest[i] \in Seq(CramWords) /\ rest[i + 1] \in Seq(CramWords)
             /\ args[i].redir => rest[i] = rest[i + 1]
             /\ ~args[i].redir => /\ Len(rest[i]) = Len(rest[i + 1]) + 1 /\ rest[i][1] = args[i]
                                  /\ \A k \in 1..Len(rest[i + 1]) : rest[i][k + 1] = rest[i + 1][k]
  <2>1. rest[i] = IF args[i].redir THEN rest[i + 1] ELSE <<args[i]>> \o rest[i + 1]
    <3>1. i \in 1..(Len(args) + 1) /\ ~(i > Len(args))
      OBVIOUS
    <3> QED BY <3>1 DEF Left
  <2>2. rest[i] \in Seq(CramWords) /\ rest[i + 1] \in Seq(CramWords) /\ args[i] \in CramWords
    OBVIOUS
  <2> QED BY <2>1, <2>2
<1>2. ASSUME NEW i \in 1..Len(args), Suffix(i) PROVE Suffix(i + 1)
  <2>1. CASE args[i].redir
    BY <1>1, <1>2, <2>1 DEF Place
  <2>2. CASE ~args[i].redir
    <3>0. Len(rest[1]) \in Nat /\ Len(rest[i]) \in Nat /\ Len(rest[i + 1]) \in Nat
      BY <1>1
    <3>4. Len(rest[i]) = Len(rest[i + 1]) + 1
      BY <1>1, <2>2
    <3>1. Place(rest, i + 1) = Place(rest, i) + 1
      BY <3>0, <3>4 DEF Place
    <3>2. Place(rest, i + 1) \in 1..(Len(rest[1]) + 1)
      <4>1. \A l, m, k \in Nat :
               m = k + 1 /\ (l - m) + 1 \in 1..(l + 1) => (l - k) + 1 \in 1..(l + 1)
        OBVIOUS
      <4>2. (Len(rest[1]) - Len(rest[i])) + 1 \in 1..(Len(rest[1]) + 1)
        BY <1>2 DEF Place
      <4>3. (Len(rest[1]) - Len(rest[i + 1])) + 1 \in 1..(Len(rest[1]) + 1)
        BY <3>0, <3>4, <4>1, <4>2
      <4> QED BY <4>3 DEF Place
    <3>3. ASSUME NEW k \in 1..Len(rest[i + 1])
          PROVE  rest[1][(Place(rest, i + 1) + k) - 1] = rest[i + 1][k]
      <4>1. k + 1 \in 1..Len(rest[i]) /\ rest[i][k + 1] = rest[i + 1][k]
        BY <1>1, <2>2
      <4>2. rest[1][(Place(rest, i) + (k + 1)) - 1] = rest[i][k + 1]
        BY <1>2, <4>1
      <4>3. (Place(rest, i) + (k + 1)) - 1 = (Place(rest, i + 1) + k) - 1
        BY <1>2, <3>1
      <4> QED BY <4>1, <4>2, <4>3
    <3> QED BY <3>2, <3>3
  <2> QED BY <2>1, <2>2
<1>3. Suffix(1) /\ Place(rest, 1) = 1
  <2>1. rest[1] \in Seq(CramWords) /\ Len(rest[1]) \in Nat
    OBVIOUS
  <2> QED BY <2>1 DEF Place
<1>4. \A i \in 1..(Len(args) + 1) : Suffix(i)
  <2> SUFFICES ASSUME NEW x \in 1..(Len(args) + 1), ~Suffix(x) PROVE FALSE
    OBVIOUS
  <2> DEFINE T == {i \in 1..(Len(args) + 1) : ~Suffix(i)}
  <2> HIDE DEF Suffix
  <2>1. x \in T /\ T \subseteq Nat
    OBVIOUS
  <2>2. PICK i \in T : \A j \in T : i <= j
    BY <2>1, LeastElement
  <2>3. i # 1 /\ i - 1 \in 1..Len(args) /\ i - 1 \notin T
    BY <1>3, <2>2
  <2>4. Suffix((i - 1) + 1)
    BY <1>2, <2>3
  <2> QED BY <2>4
<1>5. rest[Len(args) + 1] = <<>>
  <2>1. Len(args) + 1 \in 1..(Len(args) + 1) /\ Len(args) + 1 > Len(args)
    OBVIOUS
  <2> QED BY <2>1 DEF Left
<1>6. Place(rest, Len(args) + 1) = Len(rest[1]) + 1
  BY <1>5 DEF Place
<1>7. ASSUME NEW i \in 1..Len(args)
      PROVE  IF args[i].redir THEN Place(rest, i + 1) = Place(rest, i)
             ELSE /\ Place(rest, i) \in 1..Len(rest[1]) /\ rest[1][Place(rest, i)] = args[i]
                  /\ Place(rest, i + 1) = Place(rest, i) + 1
  <2>1. CASE args[i].redir
    BY <1>1, <2>1 DEF Place
  <2>2. CASE ~args[i].redir
    <3>1. Suffix(i) /\ Suffix(i + 1) /\ Place(rest, i + 1) = Place(rest, i) + 1
      <4>1. Suffix(i) /\ Suffix(i + 1)
        <5>1. i \in 1..(Len(args) + 1) /\ i + 1 \in 1..(Len(args) + 1)
          OBVIOUS
        <5> HIDE DEF Suffix
        <5> QED BY <1>4, <5>1
      <4>2. /\ Len(rest[1]) \in Nat /\ Len(rest[i + 1]) \in Nat
            /\ Len(rest[i]) = Len(rest[i + 1]) + 1
        BY <1>1, <2>2
      <4>3. Place(rest, i + 1) = Place(rest, i) + 1
        BY <4>2 DEF Place
      <4> HIDE DEF Suffix
      <4> QED BY <4>1, <4>3
    <3>2. rest[1][(Place(rest, i) + 1) - 1] = args[i]
      BY <1>1, <2>2, <3>1
    <3>3. (Place(rest, i) + 1) - 1 = Place(rest, i) /\ Place(rest, i) \in 1..Len(rest[1])
      BY <3>1
    <3> QED BY <2>2, <3>1, <3>2, <3>3
  <2> QED BY <2>1, <2>2
<1> QED BY <1>3, <1>6, <1>7

-----------------------------------------------------------------------------
(* The selector passes redirections over.                                  *)

\* No redirection stands where a flag's value is expected, nor looks like a flag.
OutOfTheWay(args) ==
  \A i \in 1..Len(args) : args[i].redir =>
     /\ i # 1 /\ ~IsFlag(args[i])
     /\ ~(args[i - 1].name \in valued /\ args[i - 1].inline = None)

\* What the selector makes of words, and of what the shell leaves of them.
Follows(s, left) ==
  s.reason = None => left.reason = None /\ left.positionals = Passed(s.positionals)

LEMMA FollowsAtWord ==
  ASSUME NEW args \in Seq(CramWords), NEW argv \in Seq(CramWords), OutOfTheWay(args),
         NEW i \in 1..Len(args), NEW k \in 1..(Len(argv) + 1), NEW scan, NEW left,
         \A j \in 1..(Len(args) + 2) : scan[j] \in Scans /\ scan[j] = scanned(args, scan, j),
         \A j \in 1..(Len(argv) + 2) : left[j] \in Scans /\ left[j] = scanned(argv, left, j),
         args[i].redir => Follows(scan[i + 1], left[k]),
         ~args[i].redir =>
            /\ k <= Len(argv) /\ argv[k] = args[i]
            /\ Follows(scan[i + 1], left[k + 1]) /\ i + 1 <= Len(args) + 1
            /\ i < Len(args) /\ ~args[i + 1].redir =>
                  k < Len(argv) /\ argv[k + 1] = args[i + 1] /\ Follows(scan[i + 2], left[k + 2])
            /\ i = Len(args) => k = Len(argv)
  PROVE  Follows(scan[i], left[k])
<1> SUFFICES ASSUME scan[i].reason = None
             PROVE  left[k].reason = None /\ left[k].positionals = Passed(scan[i].positionals)
  BY DEF Follows
<1>1. /\ args[i] \in CramWords /\ ~(i > Len(args))
      /\ scan[i] = scanned(args, scan, i) /\ scan[i + 1] \in Scans /\ scan[i + 2] \in Scans
  OBVIOUS
<1>2. left[k] = scanned(argv, left, k) /\ left[k] \in Scans /\ left[k + 1] \in Scans
  OBVIOUS
<1>3. ASSUME ~IsFlag(args[i])
      PROVE  /\ scan[i + 1].reason = None
             /\ scan[i].positionals = <<args[i]>> \o scan[i + 1].positionals
             /\ scan[i + 1].positionals \in Seq(CramWords)
  <2>1. PICK s \in Scans : s = scan[i + 1]
    BY <1>1
  <2>2. scan[i] = Positional(args[i], s)
    BY <1>1, <1>3, <2>1, ScannedIs
  <2>3. /\ Positional(args[i], s).reason = s.reason
        /\ Positional(args[i], s).positionals = <<args[i]>> \o s.positionals
    BY DEF Positional, Scans
  <2> QED BY <2>1, <2>2, <2>3 DEF Scans
<1>4. CASE args[i].redir
  <2>1. ~IsFlag(args[i])
    BY <1>4 DEF OutOfTheWay
  <2>2. Passed(scan[i].positionals) = Passed(scan[i + 1].positionals)
    BY <1>1, <1>3, <1>4, <2>1, PassedOfConcat
  <2> QED BY <1>3, <1>4, <2>1, <2>2 DEF Follows
<1>5. CASE ~args[i].redir /\ ~IsFlag(args[i])
  <2>1. PICK l \in Scans : l = left[k + 1]
    BY <1>2
  <2>2. left[k] = Positional(args[i], l)
    <3>1. ~(k > Len(argv)) /\ ~IsFlag(argv[k]) /\ argv[k] = args[i]
      BY <1>5
    <3> QED BY <1>2, <2>1, <3>1, ScannedIs
  <2>3. /\ Positional(args[i], l).reason = l.reason
        /\ Positional(args[i], l).positionals = <<args[i]>> \o l.positionals
    BY DEF Positional, Scans
  <2>4. l.reason = None /\ l.positionals = Passed(scan[i + 1].positionals)
    BY <1>3, <1>5, <2>1 DEF Follows
  <2>5. Passed(scan[i].positionals) = <<args[i]>> \o Passed(scan[i + 1].positionals)
    BY <1>1, <1>3, <1>5, PassedOfConcat
  <2> QED BY <2>2, <2>3, <2>4, <2>5
<1>6. CASE ~args[i].redir /\ IsFlag(args[i])
  <2> DEFINE takes == args[i].name \in valued /\ args[i].inline = None
  <2>0. k <= Len(argv) /\ argv[k] = args[i] /\ ~(k > Len(argv)) /\ IsFlag(argv[k])
    BY <1>6
  <2>1. ~BadFlag(args, i) /\ ~BadOutput(args, i) /\ ~BadInput(args, i)
    <3>1. \A why \in {"flag", "writes", "reads"} : Stops(why).reason # None
      BY ExtAssumption DEF Stops, Answers
    <3> QED BY <1>1, <3>1, ScannedIs
  <2>2. scan[i] = scan[IF takes THEN i + 2 ELSE i + 1]
    BY <1>1, <1>6, <2>1, ScannedIs
  <2>3. takes /\ i < Len(args) => ~args[i + 1].redir
    <3> SUFFICES ASSUME takes, i < Len(args), args[i + 1].redir PROVE FALSE
      OBVIOUS
    <3>1. i + 1 \in 1..Len(args) /\ (i + 1) - 1 = i
      OBVIOUS
    <3>2. args[(i + 1) - 1] = args[i]
      BY <3>1
    <3> QED BY <3>1, <3>2 DEF OutOfTheWay
  <2>4. takes => ValueAt(argv, k, "") = ValueAt(args, i, "")
    <3>1. CASE takes /\ i < Len(args)
      BY <1>6, <2>0, <2>3, <3>1 DEF ValueAt
    <3>2. CASE takes /\ ~(i < Len(args))
      <4>1. i = Len(args) /\ k = Len(argv) /\ ~(k < Len(argv))
        BY <1>6, <3>2
      <4> QED BY <2>0, <3>2, <4>1 DEF ValueAt
    <3> QED BY <3>1, <3>2
  <2>5. args[i].inline # None => ValueAt(argv, k, "") = ValueAt(args, i, "")
    BY <2>0 DEF ValueAt
  <2>6. ~BadFlag(argv, k) /\ ~BadOutput(argv, k) /\ ~BadInput(argv, k)
    <3>1. /\ args[i].name \in out_formats => args[i].name \in valued
          /\ args[i].name \in in_formats => args[i].name \in valued
      BY DEF out_formats, in_formats, valued
    <3>2. args[i].name \in valued => ValueAt(argv, k, "") = ValueAt(args, i, "")
      BY <2>4, <2>5
    <3> QED BY <2>0, <2>1, <3>1, <3>2 DEF BadFlag, BadOutput, BadInput
  <2>7. left[k] = left[IF takes THEN k + 2 ELSE k + 1]
    BY <1>2, <2>0, <2>6, ScannedIs
  <2>8. CASE ~takes
    BY <1>6, <2>2, <2>7, <2>8 DEF Follows
  <2>9. CASE takes /\ i < Len(args)
    BY <1>6, <2>2, <2>3, <2>7, <2>9 DEF Follows
  <2>10. CASE takes /\ i = Len(args)
    <3>1. k = Len(argv)
      BY <1>6, <2>10
    <3>2. scan[i + 2] = [reason |-> None, positionals |-> <<>>]
      <4>1. scan[i + 2] = scanned(args, scan, i + 2) /\ i + 2 > Len(args)
        BY <2>10
      <4> QED BY <4>1 DEF scanned
    <3>3. left[k + 2] = [reason |-> None, positionals |-> <<>>]
      <4>1. left[k + 2] = scanned(argv, left, k + 2) /\ k + 2 > Len(argv)
        BY <3>1
      <4> QED BY <4>1 DEF scanned
    <3> QED BY <2>2, <2>7, <2>10, <3>2, <3>3, PassedOfNone
  <2> QED BY <2>8, <2>9, <2>10
<1> QED BY <1>4, <1>5, <1>6

\* From the first word on.
LEMMA RedirectionsArePassedOver ==
  ASSUME NEW args \in Seq(CramWords), NEW argv, PlainShell(args, argv),
         _scan(args).reason = None
  PROVE  /\ argv \in Seq(CramWords) /\ _scan(argv).reason = None
         /\ _scan(argv).positionals = Passed(_scan(args).positionals)
<1>1. argv = Passed(args) /\ OutOfTheWay(args)
  BY DEF PlainShell, OutOfTheWay
<1>2. PICK rest \in [1..(Len(args) + 1) -> Seq(CramWords)] :
         argv = rest[1] /\ \A i \in 1..(Len(args) + 1) : rest[i] = Left(args, rest, i)
  BY <1>1, PassedMeetsEquation
<1>3. argv \in Seq(CramWords)
  BY <1>2
<1>4. PICK scan \in [1..(Len(args) + 2) -> Scans] :
         _scan(args) = scan[1] /\ \A i \in 1..(Len(args) + 2) : scan[i] = scanned(args, scan, i)
  BY ScanMeetsEquation
<1>5. PICK left \in [1..(Len(argv) + 2) -> Scans] :
         _scan(argv) = left[1] /\ \A i \in 1..(Len(argv) + 2) : left[i] = scanned(argv, left, i)
  BY <1>3, ScanMeetsEquation
<1> DEFINE n == Len(args) + 1
           S == {i \in 1..n : Follows(scan[i], left[Place(rest, i)])}
<1>6. /\ Place(rest, 1) = 1 /\ Place(rest, n) = Len(argv) + 1
      /\ \A i \in 1..Len(args) :
            IF args[i].redir THEN Place(rest, i + 1) = Place(rest, i)
            ELSE /\ Place(rest, i) \in 1..Len(argv) /\ argv[Place(rest, i)] = args[i]
                 /\ Place(rest, i + 1) = Place(rest, i) + 1
  BY <1>2, PlaceOfWord
<1>7. \A i \in 1..n : Place(rest, i) \in 1..(Len(argv) + 1)
  <2> DEFINE T == {i \in 1..n : Place(rest, i) \in 1..(Len(argv) + 1)}
  <2>1. ASSUME NEW i \in 1..n, \A j \in (i + 1)..n : j \in T PROVE i \in T
    <3>1. CASE i = n
      BY <1>3, <1>6, <3>1
    <3>2. CASE i \in 1..Len(args) /\ ~args[i].redir
      BY <1>3, <1>6, <3>2
    <3>3. CASE i \in 1..Len(args) /\ args[i].redir
      <4>1. i + 1 \in T /\ Place(rest, i + 1) = Place(rest, i)
        BY <1>6, <2>1, <3>3
      <4> QED BY <4>1
    <3> QED BY <3>1, <3>2, <3>3
  <2>2. n \in Nat
    OBVIOUS
  <2>3. 1..n \subseteq T
    <3> HIDE DEF T, n
    <3> QED BY <2>1, <2>2, Downwards
  <2> QED BY <2>3
<1>8. ASSUME NEW i \in 1..n, \A j \in (i + 1)..n : j \in S PROVE i \in S
  <2>1. CASE i = n
    <3>1. scan[n] = [reason |-> None, positionals |-> <<>>]
      <4>1. scan[n] = scanned(args, scan, n) /\ n > Len(args)
        BY <1>4
      <4> QED BY <4>1 DEF scanned
    <3>2. left[Len(argv) + 1] = [reason |-> None, positionals |-> <<>>]
      <4>1. left[Len(argv) + 1] = scanned(argv, left, Len(argv) + 1) /\ Len(argv) + 1 > Len(argv)
        BY <1>3, <1>5
      <4> QED BY <4>1 DEF scanned
    <3> QED BY <1>6, <2>1, <3>1, <3>2, PassedOfNone DEF Follows
  <2>2. CASE i # n
    <3> DEFINE k == Place(rest, i)
    <3>1. i \in 1..Len(args) /\ i + 1 \in (i + 1)..n /\ k \in 1..(Len(argv) + 1)
      BY <1>7, <2>2
    <3>2. Follows(scan[i + 1], left[Place(rest, i + 1)])
      BY <1>8, <3>1
    <3>3. args[i].redir => Follows(scan[i + 1], left[k])
      BY <1>6, <3>1, <3>2
    <3>4. ASSUME ~args[i].redir
          PROVE  /\ k <= Len(argv) /\ argv[k] = args[i]
                 /\ Follows(scan[i + 1], left[k + 1]) /\ i + 1 <= Len(args) + 1
                 /\ i < Len(args) /\ ~args[i + 1].redir =>
                       k < Len(argv) /\ argv[k + 1] = args[i + 1] /\ Follows(scan[i + 2], left[k + 2])
                 /\ i = Len(args) => k = Len(argv)
      <4>1. k \in 1..Len(argv) /\ argv[k] = args[i] /\ Place(rest, i + 1) = k + 1
        BY <1>6, <3>1, <3>4
      <4>2. ASSUME i < Len(args), ~args[i + 1].redir
            PROVE  k < Len(argv) /\ argv[k + 1] = args[i + 1] /\ Follows(scan[i + 2], left[k + 2])
        <5>1. i + 1 \in 1..Len(args) /\ (i + 1) + 1 = i + 2 /\ i + 2 \in (i + 1)..n
          BY <3>1, <4>2
        <5>2. /\ Place(rest, i + 1) \in 1..Len(argv) /\ argv[Place(rest, i + 1)] = args[i + 1]
              /\ Place(rest, (i + 1) + 1) = Place(rest, i + 1) + 1
          BY <1>6, <4>2, <5>1
        <5>3. Place(rest, i + 2) = k + 2
          BY <4>1, <5>1, <5>2
        <5>4. Follows(scan[i + 2], left[Place(rest, i + 2)])
          BY <1>8, <5>1
        <5>5. argv[k + 1] = args[i + 1]
          BY <4>1, <5>2
        <5>6. Len(argv) \in Nat
          BY <1>3
        <5>7. k \in 1..Len(argv) /\ k + 1 \in 1..Len(argv)
          BY <4>1, <5>2
        <5>8. k < Len(argv)
          <6> HIDE DEF k
          <6> QED BY <5>6, <5>7
        <5>9. Follows(scan[i + 2], left[k + 2])
          BY <5>3, <5>4
        <5> QED BY <5>5, <5>8, <5>9
      <4>3. i = Len(args) => k = Len(argv)
        <5>1. i = Len(args) => Place(rest, i + 1) = Len(argv) + 1
          BY <1>6
        <5> HIDE DEF k
        <5> QED BY <1>3, <4>1, <5>1
      <4> HIDE DEF k
      <4> QED BY <3>1, <3>2, <4>1, <4>2, <4>3
    <3>5. /\ \A j \in 1..(Len(args) + 2) : scan[j] \in Scans /\ scan[j] = scanned(args, scan, j)
          /\ \A j \in 1..(Len(argv) + 2) : left[j] \in Scans /\ left[j] = scanned(argv, left, j)
      BY <1>4, <1>5
    <3>6. Follows(scan[i], left[k])
      <4> HIDE DEF k
      <4> QED BY <1>1, <1>3, <3>1, <3>3, <3>4, <3>5, FollowsAtWord
    <3> QED BY <3>6
  <2> QED BY <2>1, <2>2
<1>9. 1..n \subseteq S
  <2>1. n \in Nat
    OBVIOUS
  <2> HIDE DEF S, n
  <2> QED BY <1>8, <2>1, Downwards
<1>10. Follows(scan[1], left[1])
  <2>1. 1 \in S
    BY <1>9
  <2> QED BY <1>6, <2>1
<1> QED BY <1>3, <1>4, <1>5, <1>10 DEF Follows

-----------------------------------------------------------------------------
(* A wax invocation that the selector takes is one that the port runs.     *)

\* A first word that is no flag is the first positional.
LEMMA FirstPositional ==
  ASSUME NEW args \in Seq(CramWords), args # <<>>, ~IsFlag(args[1]),
         NEW scan \in [1..(Len(args) + 2) -> Scans],
         scan[1] = scanned(args, scan, 1), scan[1].reason = None
  PROVE  /\ scan[1].positionals # <<>> /\ Head(scan[1].positionals) = args[1]
         /\ Tail(scan[1].positionals) = scan[2].positionals /\ scan[2].reason = None
<1>1. args[1] \in CramWords /\ ~(1 > Len(args)) /\ 2 \in 1..(Len(args) + 2)
  OBVIOUS
<1>2. PICK s \in Scans : s = scan[2]
  BY <1>1
<1>3. scan[1] = Positional(args[1], s)
  <2>1. scanned(args, scan, 1) = Positional(args[1], scan[1 + 1])
    BY <1>1, ScannedIs
  <2> QED BY <1>2, <2>1
<1>4. /\ Positional(args[1], s).reason = s.reason
      /\ Positional(args[1], s).positionals = <<args[1]>> \o s.positionals
  BY DEF Positional, Scans
<1>5. s.positionals \in Seq(CramWords)
  BY DEF Scans
<1>6. /\ <<args[1]>> \o s.positionals # <<>> /\ Head(<<args[1]>> \o s.positionals) = args[1]
      /\ Tail(<<args[1]>> \o s.positionals) = s.positionals
  BY <1>1, <1>5
<1> QED BY <1>2, <1>3, <1>4, <1>6

\* What parse_args makes of words that pass the selector.
LEMMA PortReads ==
  ASSUME NEW argv \in Seq(CramWords), PlainWords(argv, CommandOf(argv)),
         _scan(argv).reason = None
  PROVE  /\ _scan(argv).positionals \in Seq(CramWords)
         /\ parse_args(argv) \in Options(CommandOf(argv))
         /\ \E s : /\ s.positionals = IF Named(argv) THEN Tail(_scan(argv).positionals)
                                      ELSE _scan(argv).positionals
                   /\ Agrees(parse_args(argv), s)
<1>1. PICK scan \in [1..(Len(argv) + 2) -> Scans] :
         /\ _scan(argv) = scan[1]
         /\ \A i \in 1..(Len(argv) + 2) : scan[i] = scanned(argv, scan, i)
  BY ScanMeetsEquation
<1>2. PICK parse \in [1..(Len(argv) + 2) -> Options(CommandOf(argv))] :
         /\ parse_args(argv) = parse[IF Named(argv) THEN 2 ELSE 1]
         /\ \A i \in 1..(Len(argv) + 2) : parse[i] = parsed(argv, CommandOf(argv), parse, i)
  BY ParseMeetsEquation
<1>3. 1 \in 1..(Len(argv) + 2) /\ 2 \in 1..(Len(argv) + 2)
  OBVIOUS
<1>4. \A i \in 1..(Len(argv) + 2) : scan[i].reason = None => Agrees(parse[i], scan[i])
  <2>1. \A i \in 1..(Len(argv) + 2) :
           /\ scan[i] \in Scans /\ scan[i] = scanned(argv, scan, i)
           /\ parse[i] \in Options(CommandOf(argv))
           /\ parse[i] = parsed(argv, CommandOf(argv), parse, i)
    BY <1>1, <1>2
  <2> QED BY <2>1, ProgramsAgree
<1>5. scan[1].positionals \in Seq(CramWords)
  BY <1>3 DEF Scans
<1>6. CASE Named(argv)
  <2>1. argv # <<>> /\ ~IsFlag(argv[1])
    BY <1>6 DEF Named, IsFlag, CRAM_OK_COMMANDS, CRAM_OK_FLAGS
  <2>2. Tail(scan[1].positionals) = scan[2].positionals /\ scan[2].reason = None
    BY <1>1, <1>3, <2>1, FirstPositional
  <2> QED BY <1>1, <1>2, <1>3, <1>4, <1>5, <1>6, <2>2
<1>7. CASE ~Named(argv)
  BY <1>1, <1>2, <1>3, <1>4, <1>5, <1>7
<1> QED BY <1>6, <1>7

\* The shell leaves the first word where it is.
LEMMA FirstWordIsKept ==
  ASSUME NEW args \in Seq(CramWords), NEW argv, PlainShell(args, argv)
  PROVE  /\ (argv = <<>>) <=> (args = <<>>)
         /\ args # <<>> => argv[1] = args[1]
<1>1. CASE args = <<>>
  BY <1>1, PassedOfNone DEF PlainShell
<1>2. CASE args # <<>>
  <2>1. /\ args = <<Head(args)>> \o Tail(args) /\ Head(args) = args[1]
        /\ Head(args) \in CramWords /\ Tail(args) \in Seq(CramWords)
    BY <1>2
  <2>2. ~args[1].redir
    BY <1>2 DEF PlainShell
  <2>3. Passed(args) = <<Head(args)>> \o Passed(Tail(args))
    BY <2>1, <2>2, PassedOfConcat
  <2>4. Passed(Tail(args)) \in Seq(CramWords)
    BY <2>1, PassedTyped
  <2> QED BY <1>2, <2>1, <2>3, <2>4 DEF PlainShell
<1> QED BY <1>1, <1>2

LEMMA TakenIsImplemented ==
  ASSUME NEW seg \in Segments, seg.prog = "wax", _cram_wax_reason(seg) = None,
         NEW argv, PlainShell(seg.args, argv), Plain(seg.args)
  PROVE  Implemented(seg, argv)
<1>1. PICK args \in Seq(CramWords) : args = seg.args
  BY DEF Segments
<1>2. PICK scan \in [1..(Len(args) + 2) -> Scans] :
         /\ _scan(args) = scan[1]
         /\ \A i \in 1..(Len(args) + 2) : scan[i] = scanned(args, scan, i)
  BY ScanMeetsEquation
<1>3. 1 \in 1..(Len(args) + 2)
  OBVIOUS
<1>4. PICK positionals \in Seq(CramWords) :
         positionals = _scan(args).positionals /\ positionals = scan[1].positionals
  BY <1>2, <1>3 DEF Scans
<1>5. /\ scan[1].reason = None
      /\ NamesCommand(positionals) => Head(positionals).name \in CRAM_OK_COMMANDS
      /\ \A f \in Range(FilesAmong(positionals)) : Ext[f.name] \in {None, "wax"}
  BY <1>1, <1>2, <1>4, ExtAssumption DEF _cram_wax_reason, Answers
<1>6. /\ argv \in Seq(CramWords) /\ _scan(argv).reason = None
      /\ _scan(argv).positionals = Passed(positionals)
  BY <1>1, <1>2, <1>4, <1>5, RedirectionsArePassedOver
<1>7. ASSUME NamesCommand(positionals)
      PROVE  Named(argv) /\ argv[1] = args[1] /\ argv[1] = Head(positionals)
  <2>1. args # <<>>
    <3> SUFFICES ASSUME args = <<>> PROVE FALSE
      OBVIOUS
    <3>1. scanned(args, scan, 1) = [reason |-> None, positionals |-> <<>>]
      BY DEF scanned
    <3>2. scan[1].positionals = <<>>
      BY <1>2, <1>3, <3>1
    <3> QED BY <1>4, <1>7, <3>2 DEF NamesCommand
  <2>2. argv # <<>> /\ argv[1] = args[1]
    BY <1>1, <2>1, FirstWordIsKept
  <2> QED BY <1>1, <1>4, <1>5, <1>7, <2>2 DEF Plain, Named
<1>8. ASSUME Named(argv)
      PROVE  NamesCommand(positionals) /\ Head(positionals) = argv[1]
  <2>1. args # <<>> /\ argv[1] = args[1] /\ args[1] \in CramWords
    BY <1>1, <1>8, FirstWordIsKept DEF Named
  <2>2. ~IsFlag(args[1]) /\ args[1].name # "-"
    BY <1>8, <2>1 DEF Named, IsFlag, CRAM_OK_COMMANDS, CRAM_OK_FLAGS
  <2>3. positionals # <<>> /\ Head(positionals) = args[1]
    BY <1>2, <1>3, <1>4, <1>5, <2>1, <2>2, FirstPositional
  <2>4. Ext[args[1].name] = None /\ args[1].name \notin Slashed
    BY <1>8, <2>1, ExtAssumption DEF Named, CramWords
  <2> QED BY <2>1, <2>2, <2>3, <2>4 DEF NamesCommand
<1>9. Passed(FilesAmong(positionals))
         = IF Named(argv) THEN Tail(Passed(positionals)) ELSE Passed(positionals)
  <2>1. CASE Named(argv)
    <3>1. NamesCommand(positionals) /\ positionals # <<>> /\ args # <<>> /\ Head(positionals) = args[1]
      BY <1>1, <1>8, <2>1, FirstWordIsKept DEF NamesCommand, Named
    <3>2. ~args[1].redir
      BY <1>1, <3>1 DEF PlainShell
    <3>3. /\ positionals = <<Head(positionals)>> \o Tail(positionals)
          /\ Head(positionals) \in CramWords /\ Tail(positionals) \in Seq(CramWords)
      BY <3>1
    <3>4. Passed(positionals) = <<Head(positionals)>> \o Passed(Tail(positionals))
      BY <3>1, <3>2, <3>3, PassedOfConcat
    <3>5. Passed(Tail(positionals)) \in Seq(CramWords)
      BY <3>3, PassedTyped
    <3>6. Tail(Passed(positionals)) = Passed(Tail(positionals))
      BY <3>3, <3>4, <3>5
    <3> QED BY <2>1, <3>1, <3>6 DEF FilesAmong
  <2>2. CASE ~Named(argv)
    BY <1>7, <2>2 DEF FilesAmong
  <2> QED BY <2>1, <2>2
<1>10. PlainWords(argv, CommandOf(argv))
  <2>1. argv \in Seq(Range(args))
    <3>1. args \in Seq(Range(args))
      BY DEF Range
    <3> QED BY <1>1, <3>1, PassedTyped DEF PlainShell
  <2>2. \A w \in Range(args) : w.inline # None => w.long
    BY <1>1 DEF Plain, Range
  <2>3. ASSUME CommandOf(argv) = "format" PROVE \A w \in Range(args) : w.name \notin {"-f", "-i"}
    <3>1. Named(argv) /\ argv[1].name = "format"
      BY <2>3 DEF CommandOf
    <3> QED BY <1>1, <1>4, <1>7, <1>8, <3>1 DEF Plain
  <2>4. \A i \in 1..Len(argv) : argv[i] \in Range(args)
    BY <2>1
  <2> QED BY <2>2, <2>3, <2>4 DEF PlainWords
<1>11. PICK opts \in Options(CommandOf(argv)) :
          /\ opts = parse_args(argv)
          /\ \E s : s.positionals = Passed(FilesAmong(positionals)) /\ Agrees(opts, s)
  BY <1>6, <1>9, <1>10, PortReads
<1>12. /\ opts.err \in {None, "needs a value"}
       /\ opts.err = None =>
             /\ opts.files = Passed(FilesAmong(positionals))
             /\ opts.input \in {None} \cup CRAM_OK_IN_FORMATS
             /\ opts.output \in {None} \cup CRAM_OK_OUT_FORMATS
  BY <1>11 DEF Agrees
<1>13. ~Refused(opts)
  <2>1. opts.err # "unknown"
    BY <1>12, ExtAssumption DEF Answers
  <2>2. "wax" \in CRAM_OK_OUT_FORMATS
    BY DEF CRAM_OK_OUT_FORMATS
  <2> QED BY <1>12, <2>1, <2>2 DEF Refused, CRAM_OK_IN_FORMATS
<1>14. opts.command = IF NamesCommand(positionals) THEN Head(positionals).name ELSE "convert"
  <2>1. opts.command = CommandOf(argv)
    BY DEF Options
  <2> QED BY <1>7, <1>8, <2>1 DEF CommandOf
<1>15. \A f \in Range(Passed(FilesAmong(positionals))) : Ext[f.name] \in {None, "wax"}
  <2>1. PICK files \in Seq(CramWords) : files = FilesAmong(positionals)
    <3>1. positionals # <<>> => Tail(positionals) \in Seq(CramWords)
      OBVIOUS
    <3> QED BY <3>1 DEF FilesAmong, NamesCommand
  <2>2. files \in Seq(Range(files))
    BY DEF Range
  <2>3. Passed(files) \in Seq(Range(files))
    BY <2>2, PassedTyped
  <2>4. \A f \in Range(Passed(files)) : f \in Range(files)
    <3>1. \A i \in DOMAIN Passed(files) : Passed(files)[i] \in Range(files)
      BY <2>3
    <3>2. Range(Passed(files)) = {Passed(files)[i] : i \in DOMAIN Passed(files)}
      BY DEF Range
    <3> QED BY <3>1, <3>2
  <2> QED BY <1>5, <2>1, <2>4
<1>16. opts.err = None =>
          /\ opts.files = Passed(FilesAmong(positionals))
          /\ \A f \in Range(opts.files) : Ext[f.name] \in {None, "wax"}
  BY <1>12, <1>15
<1> QED BY <1>1, <1>4, <1>11, <1>13, <1>14, <1>16 DEF Implemented

-----------------------------------------------------------------------------
(* Which invocations of a test the selector judges.                        *)

LEMMA FirstIsLeast ==
  ASSUME NEW numbers, numbers \subseteq Nat, numbers # {}
  PROVE  First(numbers) \in numbers /\ \A j \in numbers : First(numbers) <= j
BY LeastElement DEF First

\* In a test of one-line commands every invocation it sees is judged.
LEMMA EveryLineIsJudged ==
  ASSUME NEW test \in Tests, InScope(test), OneLine(test), NEW seg \in SegmentsOf(test),
         Seen(seg)
  PROVE  seg \in Segments /\ seg.prog = "wax" /\ _cram_wax_reason(seg) = None
<1>1. PICK text \in Seq(Lines) : text = test.text
  BY DEF Tests
<1>2. PICK i \in DOMAIN text : text[i].kind # "out" /\ seg \in Range(text[i].segs)
  BY <1>1 DEF SegmentsOf
<1>0. text[i] \in Lines
  BY <1>2
<1>3. PICK segs \in Seq(Segments) : segs = text[i].segs
  BY <1>0 DEF Lines
<1>4. PICK x \in DOMAIN segs : seg = segs[x]
  BY <1>2, <1>3 DEF Range
<1>5. seg \in Segments /\ seg.prog = "wax"
  BY <1>3, <1>4 DEF Seen
<1>6. text[i].kind = "$"
  <2>1. text[i].kind \in {"$", ">", "out"}
    BY <1>0 DEF Lines
  <2> QED BY <1>1, <1>2, <2>1 DEF OneLine
<1> DEFINE cmd == {j \in i..Len(text) : /\ text[j].kind # "out"
                                        /\ \A k \in (i + 1)..j : text[k].kind # "$"}
<1>7. cmd \in _cram_commands(text)
  BY <1>6 DEF _cram_commands
<1>8. First(cmd) = i
  <2>1. i \in 1..Len(text)
    BY <1>2
  <2>2. i \in cmd /\ cmd \subseteq Nat /\ \A j \in cmd : i <= j
    BY <1>2, <2>1
  <2>3. First(cmd) \in cmd /\ First(cmd) <= i
    <3> HIDE DEF cmd
    <3> QED BY <2>2, FirstIsLeast
  <2>4. First(cmd) \in Nat /\ i <= First(cmd)
    <3> HIDE DEF cmd
    <3> QED BY <2>2, <2>3
  <2> QED BY <2>1, <2>3, <2>4
<1>9. _cram_reason(text, cmd) = None
  BY <1>1, <1>7 DEF InScope
<1> DEFINE why(s) == IF s.prog \in CRAM_OPAQUE THEN "opaque" ELSE _cram_wax_reason(s)
           bad == {y \in DOMAIN segs : why(segs[y]) # None}
<1>10. _cram_reason(text, cmd) = IF bad = {} THEN None ELSE why(segs[First(bad)])
  <2> HIDE DEF cmd
  <2> QED BY <1>3, <1>8 DEF _cram_reason
<1>11. bad = {}
  <2> SUFFICES ASSUME bad # {} PROVE FALSE
    OBVIOUS
  <2>1. bad \subseteq Nat
    OBVIOUS
  <2>2. First(bad) \in bad
    <3> HIDE DEF bad
    <3> QED BY <2>1, FirstIsLeast
  <2>3. why(segs[First(bad)]) # None
    <3> HIDE DEF why
    <3> QED BY <2>2
  <2> HIDE DEF bad, why
  <2> QED BY <1>9, <1>10, <2>3
<1>12. why(seg) = None
  <2> HIDE DEF why
  <2> QED BY <1>4, <1>11
<1> QED BY <1>5, <1>12 DEF CRAM_OPAQUE

(***************************************************************************)
(* Of a test of one-line commands that is in test/cram, every invocation    *)
(* that the selector took for wax, whose words the shell leaves as they are *)
(* but for redirections out of the way of flags, runs: whatever and however *)
(* many its words are, the port knows each flag and format, and tells what  *)
(* is left of them apart as values, subcommand and files as the selector    *)
(* did.                                                                     *)
(***************************************************************************)
THEOREM SelectionIsImplemented == Spec => []SelectedIsImplemented
<1>1. CramInv => SelectedIsImplemented
  <2> SUFFICES ASSUME CramInv, NEW t \in DOMAIN dst, OneLine(dst[t]),
                      NEW seg \in SegmentsOf(dst[t]), Seen(seg), NEW argv \in seg.runs,
                      PlainShell(seg.args, argv), Plain(seg.args)
               PROVE  Implemented(seg, argv)
    BY DEF SelectedIsImplemented, JudgedRight
  <2>1. dst[t] \in Tests /\ InScope(dst[t])
    BY DEF CramInv
  <2>2. seg \in Segments /\ seg.prog = "wax" /\ _cram_wax_reason(seg) = None
    BY <2>1, EveryLineIsJudged
  <2> QED BY <2>2, TakenIsImplemented
<1> QED BY <1>1, CramInvariant, PTL
=============================================================================
