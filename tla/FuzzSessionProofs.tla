-------------------------- MODULE FuzzSessionProofs -------------------------
(***************************************************************************)
(* Proofs about FuzzSession: what `minimize` leaves is a find by itself,    *)
(* and no token can be dropped from it, whatever the tokens, the mutants,   *)
(* the budget and the two implementations.                                 *)
(***************************************************************************)
EXTENDS FuzzSession, SequenceTheorems, FiniteSetTheorems, TLAPS

\* The texts that minimize keeps: those that fail when they are graded by themselves.
Fails(t) == t # <<>> /\ grade(t, FALSE).failures # {}

\* No single token can be dropped.
Minimal(t) == \A i \in DOMAIN t : ~Fails(Without(t, i, 1))

Shrinks ==
  [kept : Texts[0], at : Nat, spent : 0..Budget, shrunk : BOOLEAN, width : Nat]

\* The locals of minimize.  In a pass that drops single tokens and has dropped none so
\* far, each of the tokens behind it was tried in vain; a pass that ends that way
\* brings the width to 0.
Minimizing ==
  /\ edits = 0
  /\ shrink \in Shrinks
  /\ shrink.width <= Len(tokens) /\ Len(shrink.kept) <= Len(tokens)
  /\ Fails(shrink.kept)
  /\ ~shrink.shrunk /\ shrink.width = 1 =>
        \A i \in DOMAIN shrink.kept : i <= shrink.at => ~Fails(Without(shrink.kept, i, 1))
  /\ shrink.width = 0 => Minimal(shrink.kept)

FuzzInv ==
  /\ n \in 0..Count /\ edits \in 0..Edits /\ exempt = FALSE
  /\ phase \in {"pick", "edit", "minimize", "exit 0", "exit 1", "raised"}
  /\ phase \in {"edit", "minimize"} => n < Count /\ tokens \in Texts[edits] /\ tokens # <<>>
  /\ phase = "minimize" => Minimizing
  /\ IsFiniteSet(finds) /\ Cardinality(finds) <= n
  /\ \A f \in finds : f.text \in Texts[0] /\ Fails(f.text) /\ (~f.cut => Minimal(f.text))

-----------------------------------------------------------------------------
(* The edits.                                                              *)

LEMMA Lists ==
  ASSUME NEW e \in 0..Edits, NEW s \in Texts[e]
  PROVE  s \in Seq(Tokens)
BY TextsAssumption

\* A mutant of a text that is not empty is not empty.
LEMMA MutantNotEmpty ==
  ASSUME NEW s \in Seq(Tokens), s # <<>>, NEW t \in mutate(s)
  PROVE  t # <<>>
<1>1. CASE Len(s) < 2
  BY <1>1 DEF mutate
<1>2. CASE Len(s) >= 2
  <2>1. CASE t \in Swapped(s) \cup Borrowed(s)
    <3>1. DOMAIN t = DOMAIN s
      <4>1. CASE t \in Swapped(s)
        <5>1. PICK i \in DOMAIN s :
                 t = [s EXCEPT ![i] = s[Min({i + 1, Len(s)})], ![Min({i + 1, Len(s)})] = s[i]]
          BY <4>1 DEF Swapped
        <5> QED BY <5>1
      <4>2. CASE t \in Borrowed(s)
        <5>1. PICK i \in DOMAIN s, j \in DOMAIN s : t = [s EXCEPT ![i] = s[j]]
          BY <4>2 DEF Borrowed
        <5> QED BY <5>1
      <4> QED BY <2>1, <4>1, <4>2
    <3>2. 1 \in DOMAIN s
      BY <1>2
    <3>3. DOMAIN <<>> = {}
      OBVIOUS
    <3> QED BY <3>1, <3>2, <3>3
  <2>2. CASE t \in Deleted(s)
    <3>1. PICK i \in DOMAIN s : t = SubSeq(s, 1, i - 1) \o SubSeq(s, i + 1, Len(s))
      BY <2>2 DEF Deleted, Without
    <3>2. SubSeq(s, 1, i - 1) \in Seq(Tokens) /\ Len(SubSeq(s, 1, i - 1)) = i - 1
      BY <3>1, SubSeqProperties
    <3>3. SubSeq(s, i + 1, Len(s)) \in Seq(Tokens) /\ Len(SubSeq(s, i + 1, Len(s))) = Len(s) - i
      BY <3>1, SubSeqProperties
    <3>4. Len(t) = (i - 1) + (Len(s) - i)
      BY <3>1, <3>2, <3>3, ConcatProperties
    <3> QED BY <1>2, <3>4
  <2>3. CASE t \in Duplicated(s)
    <3>1. PICK i \in DOMAIN s : t = SubSeq(s, 1, i) \o SubSeq(s, i, Len(s))
      BY <2>3 DEF Duplicated
    <3>2. SubSeq(s, 1, i) \in Seq(Tokens) /\ Len(SubSeq(s, 1, i)) = i
      BY <3>1, SubSeqProperties
    <3>3. SubSeq(s, i, Len(s)) \in Seq(Tokens)
      BY <3>1, SubSeqProperties
    <3>4. Len(t) >= 1
      BY <3>1, <3>2, <3>3
    <3> QED BY <3>4
  <2> QED BY <1>2, <2>1, <2>2, <2>3 DEF mutate
<1> QED BY <1>1, <1>2

\* What minimize tries is a text that is accounted for, and shorter.
LEMMA CutTyped ==
  ASSUME NEW s \in Texts[0], NEW first \in 1..Len(s), NEW count \in Nat, count >= 1,
         0 \in 0..Edits
  PROVE  Without(s, first, count) \in Texts[0] /\ Len(Without(s, first, count)) <= Len(s)
<1> DEFINE j == IF first + count <= Len(s) THEN first + count ELSE Len(s) + 1
<1>1. s \in Seq(Tokens) /\ Len(s) \in Nat
  BY Lists
<1>2. j \in ((first - 1) + 1)..(Len(s) + 1) /\ first - 1 \in 0..Len(s)
  BY <1>1
<1>3. SubSeq(s, first + count, Len(s)) = SubSeq(s, j, Len(s))
  <2>1. CASE first + count <= Len(s)
    BY <2>1
  <2>2. CASE ~(first + count <= Len(s))
    BY <1>1, <2>2, SubSeqEmpty
  <2> QED BY <2>1, <2>2
<1>4. Without(s, first, count) = SubSeq(s, 1, first - 1) \o SubSeq(s, j, Len(s))
  BY <1>3 DEF Without
<1>5. Without(s, first, count) \in Texts[0]
  BY <1>2, <1>4, TextsAssumption
<1>6. SubSeq(s, 1, first - 1) \in Seq(Tokens) /\ Len(SubSeq(s, 1, first - 1)) = first - 1
  BY <1>1, SubSeqProperties
<1>7. /\ SubSeq(s, j, Len(s)) \in Seq(Tokens)
      /\ Len(SubSeq(s, j, Len(s))) = (Len(s) - j) + 1
  <2>1. CASE j <= Len(s)
    <3>1. j \in 1..Len(s)
      BY <1>1, <1>2, <2>1
    <3> HIDE DEF j
    <3> QED BY <1>1, <3>1, SubSeqProperties
  <2>2. CASE ~(j <= Len(s))
    <3>1. j = Len(s) + 1 /\ Len(s) < Len(s) + 1 /\ Len(s) + 1 \in Int /\ Len(s) \in Int
      BY <1>1, <1>2, <2>2
    <3>2. SubSeq(s, Len(s) + 1, Len(s)) = <<>>
      BY <3>1, SubSeqEmpty
    <3> HIDE DEF j
    <3> QED BY <1>1, <3>1, <3>2
  <2> QED BY <2>1, <2>2
<1>8. Len(Without(s, first, count)) = (first - 1) + ((Len(s) - j) + 1)
  <2> HIDE DEF j
  <2> QED BY <1>4, <1>6, <1>7, ConcatProperties
<1> QED BY <1>1, <1>2, <1>5, <1>8

-----------------------------------------------------------------------------
(* The verdicts.                                                           *)

\* They are the same throughout a session.
LEMMA VerdictsKept ==
  ASSUME UNCHANGED <<port, route>>
  PROVE  /\ \A t : Fails(t)' = Fails(t)
         /\ \A t : Minimal(t)' = Minimal(t)
BY DEF Fails, Minimal, grade, Oracles123, Exempted, _reference_reproduces_instability,
       Ours, policy

\* An exemption is gone when its mutant was graded.
LEMMA NothingExempt == \A t : ExemptAfter(t, FALSE) = FALSE
BY DEF ExemptAfter

LEMMA FirstWidth ==
  ASSUME NEW k \in Nat, k >= 1
  PROVE  Max({1, k \div 2}) \in Nat /\ 1 <= Max({1, k \div 2}) /\ Max({1, k \div 2}) <= k
<1>1. k \div 2 \in Nat /\ k \div 2 <= k
  OBVIOUS
<1>2. \E x \in {1, k \div 2} : \A y \in {1, k \div 2} : x >= y
  BY <1>1
<1>3. /\ Max({1, k \div 2}) \in {1, k \div 2}
      /\ \A y \in {1, k \div 2} : Max({1, k \div 2}) >= y
  BY <1>2 DEF Max
<1> QED BY <1>1, <1>3

-----------------------------------------------------------------------------
(* The session.                                                            *)

LEMMA FuzzInitially == Init => FuzzInv
<1> SUFFICES ASSUME Init PROVE FuzzInv
  OBVIOUS
<1>1. n \in 0..Count /\ edits \in 0..Edits
  BY FuzzAssumption DEF Init
<1>2. IsFiniteSet(finds) /\ Cardinality(finds) <= n
  BY FS_EmptySet DEF Init
<1> QED BY <1>1, <1>2 DEF Init, FuzzInv

\* minimize starts from a text that fails, with nothing tried.
LEMMA GradingKeeps == FuzzInv /\ gradeMutant => FuzzInv'
<1> SUFFICES ASSUME FuzzInv, gradeMutant PROVE FuzzInv'
  OBVIOUS
<1> DEFINE v == grade(tokens, exempt)
<1>1. /\ phase = "edit" /\ edits = 0 /\ exempt' = ExemptAfter(tokens, exempt)
      /\ UNCHANGED <<port, route, tokens, edits, finds>>
      /\ phase' = IF v.raised THEN "raised" ELSE IF v.failures = {} THEN "pick" ELSE "minimize"
      /\ n' = IterationsAfter(v)
      /\ shrink' = IF phase' = "minimize"
                   THEN [kept |-> tokens, at |-> 0, spent |-> 0, shrunk |-> FALSE,
                         width |-> Max({1, Len(tokens) \div 2})]
                   ELSE None
  BY DEF gradeMutant
<1> HIDE DEF v
<1>2. tokens \in Texts[0] /\ tokens # <<>> /\ n < Count /\ exempt = FALSE /\ exempt' = FALSE
  BY <1>1, NothingExempt DEF FuzzInv
<1>3. phase' = "minimize" => Fails(tokens)
  BY <1>1, <1>2 DEF v, Fails
<1>4. /\ \A t : Fails(t)' = Fails(t)
      /\ \A t : Minimal(t)' = Minimal(t)
  BY <1>1, VerdictsKept
<1>5. ASSUME phase' = "minimize" PROVE Minimizing'
  <2>1. shrink' = [kept |-> tokens, at |-> 0, spent |-> 0, shrunk |-> FALSE,
                   width |-> Max({1, Len(tokens) \div 2})]
    BY <1>1, <1>5
  <2>2. tokens \in Seq(Tokens) /\ Len(tokens) \in Nat /\ Len(tokens) >= 1
    BY <1>2, FuzzAssumption, Lists
  <2>3. PICK w \in Nat : w = Max({1, Len(tokens) \div 2}) /\ 1 <= w /\ w <= Len(tokens)
    BY <2>2, FirstWidth
  <2>4. shrink' = [kept |-> tokens, at |-> 0, spent |-> 0, shrunk |-> FALSE, width |-> w]
    BY <2>1, <2>3
  <2>5. shrink' \in Shrinks
    BY <1>2, <2>4, FuzzAssumption DEF Shrinks
  <2>6. Fails(shrink.kept)'
    BY <1>3, <1>4, <1>5, <2>4
  <2>7. \A i \in DOMAIN shrink'.kept : ~(i <= shrink'.at)
    BY <2>2, <2>4
  <2> QED BY <1>1, <2>2, <2>3, <2>4, <2>5, <2>6, <2>7 DEF Minimizing
<1>6. n' \in 0..Count /\ n <= n' /\ (phase' = "minimize" => n' < Count)
  <2>1. n \in 0..Count /\ n < Count
    BY <1>2 DEF FuzzInv
  <2> QED BY <1>1, <2>1, FuzzAssumption DEF IterationsAfter
<1>7. IsFiniteSet(finds') /\ Cardinality(finds') <= n'
  <2>1. IsFiniteSet(finds) /\ Cardinality(finds) \in Nat /\ Cardinality(finds) <= n
    BY FS_CardinalityType DEF FuzzInv
  <2> QED BY <1>1, <1>6, <2>1 DEF FuzzInv
<1>8. \A f \in finds' : f.text \in Texts[0] /\ Fails(f.text)' /\ (~f.cut => Minimal(f.text)')
  BY <1>1, <1>4 DEF FuzzInv
<1>9. phase' \in {"pick", "minimize", "raised"}
  BY <1>1
<1>10. tokens' \in Texts[edits'] /\ tokens' # <<>> /\ edits' \in 0..Edits
  BY <1>1, <1>2 DEF FuzzInv
<1> QED BY <1>2, <1>5, <1>6, <1>7, <1>8, <1>9, <1>10 DEF FuzzInv

\* An attempt either shortens the text that fails, or shows that the tokens at hand
\* are needed.
LEMMA AttemptKeeps == FuzzInv /\ tryCandidate => FuzzInv'
<1> SUFFICES ASSUME FuzzInv, tryCandidate PROVE FuzzInv'
  OBVIOUS
<1> DEFINE v == IF candidate = <<>> THEN Passed ELSE grade(candidate, exempt)
<1>1. /\ phase = "minimize" /\ Trying /\ shrink.at < Len(shrink.kept)
      /\ UNCHANGED <<port, route, n, tokens, edits, failures, finds>>
      /\ exempt' = IF candidate = <<>> THEN exempt ELSE ExemptAfter(candidate, exempt)
      /\ phase' = IF v.raised THEN "raised" ELSE phase
      /\ shrink' = IF v.failures # {}
                   THEN [shrink EXCEPT !.spent = @ + 1, !.kept = candidate, !.shrunk = TRUE]
                   ELSE [shrink EXCEPT !.spent = @ + 1, !.at = @ + shrink.width]
  BY DEF tryCandidate
<1> HIDE DEF v
<1>2. Minimizing /\ exempt = FALSE /\ exempt' = FALSE
  BY <1>1, NothingExempt DEF FuzzInv
<1>3. v.failures # {} <=> Fails(candidate)
  BY <1>2 DEF v, Fails, Passed, Verdict
<1>4. /\ \A t : Fails(t)' = Fails(t)
      /\ \A t : Minimal(t)' = Minimal(t)
  BY <1>1, VerdictsKept
<1>5. PICK s \in Shrinks : s = shrink
  BY <1>2 DEF Minimizing
<1>6. /\ s.kept \in Texts[0] /\ s.at \in Nat /\ s.spent \in 0..Budget /\ s.width \in Nat
      /\ s.kept \in Seq(Tokens) /\ Len(s.kept) \in Nat
      /\ s.at < Len(s.kept) /\ s.width >= 1 /\ s.spent < Budget
  <2>1. s.kept \in Texts[0]
    BY DEF Shrinks
  <2>2. s.kept \in Seq(Tokens)
    BY <2>1, FuzzAssumption, Lists
  <2> QED BY <1>1, <1>5, <2>1, <2>2, FuzzAssumption DEF Shrinks, Trying
<1>7. candidate \in Texts[0] /\ Len(candidate) <= Len(s.kept)
  <2>1. s.at + 1 \in 1..Len(s.kept) /\ 0 \in 0..Edits
    BY <1>6, FuzzAssumption
  <2> QED BY <1>5, <1>6, <2>1, CutTyped DEF candidate
<1>8. candidate \in Seq(Tokens) /\ Len(candidate) \in Nat /\ Len(tokens) \in Nat
  <2>1. candidate \in Seq(Tokens)
    BY <1>7, FuzzAssumption, Lists
  <2>2. tokens \in Seq(Tokens)
    BY <1>1, Lists DEF FuzzInv
  <2> QED BY <2>1, <2>2
<1>9. Minimizing'
  <2>1. CASE v.failures # {}
    <3>1. shrink' = [s EXCEPT !.spent = @ + 1, !.kept = candidate, !.shrunk = TRUE]
      BY <1>1, <1>5, <2>1
    <3>2. shrink' = [kept |-> candidate, at |-> s.at, spent |-> s.spent + 1, shrunk |-> TRUE,
                     width |-> s.width]
      BY <3>1 DEF Shrinks
    <3>3. shrink' \in Shrinks
      BY <1>6, <1>7, <3>2, FuzzAssumption DEF Shrinks
    <3>4. Fails(shrink.kept)'
      BY <1>3, <1>4, <2>1, <3>2
    <3>5. shrink'.width <= Len(tokens) /\ Len(shrink'.kept) <= Len(tokens)
      BY <1>2, <1>5, <1>6, <1>7, <1>8, <3>2 DEF Minimizing
    <3>6. edits' = 0 /\ tokens' = tokens /\ shrink'.shrunk /\ shrink'.width # 0
      <4>1. edits' = 0 /\ tokens' = tokens
        BY <1>1, <1>2 DEF Minimizing
      <4>2. shrink'.shrunk /\ shrink'.width = s.width
        BY <3>2
      <4> QED BY <1>6, <4>1, <4>2
    <3> QED BY <3>3, <3>4, <3>5, <3>6 DEF Minimizing
  <2>2. CASE ~(v.failures # {})
    <3>1. shrink' = [s EXCEPT !.spent = @ + 1, !.at = @ + s.width]
      BY <1>1, <1>5, <2>2
    <3>2. shrink' = [kept |-> s.kept, at |-> s.at + s.width, spent |-> s.spent + 1,
                     shrunk |-> s.shrunk, width |-> s.width]
      BY <3>1 DEF Shrinks
    <3>3. shrink' \in Shrinks
      <4>1. s.shrunk \in BOOLEAN
        BY DEF Shrinks
      <4> QED BY <1>6, <3>2, <4>1, FuzzAssumption DEF Shrinks
    <3>4. Fails(shrink.kept)'
      BY <1>2, <1>4, <1>5, <3>2 DEF Minimizing
    <3>5. ASSUME ~s.shrunk, s.width = 1, NEW i \in DOMAIN s.kept, i <= s.at + 1
          PROVE  ~Fails(Without(s.kept, i, 1))
      <4>1. CASE i <= s.at
        BY <1>2, <1>5, <3>5, <4>1 DEF Minimizing
      <4>2. CASE ~(i <= s.at)
        <5>1. i = s.at + 1
          BY <1>6, <3>5, <4>2
        <5>2. candidate = Without(s.kept, i, 1)
          BY <1>5, <3>5, <5>1 DEF candidate
        <5> QED BY <1>3, <2>2, <5>2
      <4> QED BY <4>1, <4>2
    <3>6. (~shrink.shrunk /\ shrink.width = 1 =>
             \A i \in DOMAIN shrink.kept : i <= shrink.at => ~Fails(Without(shrink.kept, i, 1)))'
      BY <1>4, <3>2, <3>5
    <3>7. /\ edits' = 0 /\ tokens' = tokens /\ shrink'.width # 0
          /\ shrink'.width <= Len(tokens) /\ Len(shrink'.kept) <= Len(tokens)
      <4>1. /\ edits' = 0 /\ tokens' = tokens
            /\ s.width <= Len(tokens) /\ Len(s.kept) <= Len(tokens)
        BY <1>1, <1>2, <1>5 DEF Minimizing
      <4>2. shrink'.width = s.width /\ shrink'.kept = s.kept
        BY <3>2
      <4> QED BY <1>6, <4>1, <4>2
    <3> QED BY <3>3, <3>4, <3>6, <3>7 DEF Minimizing
  <2> QED BY <2>1, <2>2
<1>10. \A f \in finds' : f.text \in Texts[0] /\ Fails(f.text)' /\ (~f.cut => Minimal(f.text)')
  BY <1>1, <1>4 DEF FuzzInv
<1>11. phase' \in {"minimize", "raised"}
  BY <1>1
<1> QED BY <1>1, <1>2, <1>9, <1>10, <1>11 DEF FuzzInv

\* A pass at width 1 that dropped nothing has tried every token.
LEMMA PassKeeps == FuzzInv /\ nextPass => FuzzInv'
<1> SUFFICES ASSUME FuzzInv, nextPass PROVE FuzzInv'
  OBVIOUS
<1>1. /\ phase = "minimize" /\ Trying /\ shrink.at >= Len(shrink.kept)
      /\ UNCHANGED <<port, route, exempt, n, phase, tokens, edits, failures, finds>>
      /\ shrink' = [shrink EXCEPT !.at = 0, !.shrunk = FALSE,
                       !.width = IF shrink.shrunk THEN @ ELSE @ \div 2]
  BY DEF nextPass
<1>2. Minimizing
  BY <1>1 DEF FuzzInv
<1>3. /\ \A t : Fails(t)' = Fails(t)
      /\ \A t : Minimal(t)' = Minimal(t)
  BY <1>1, VerdictsKept
<1>4. PICK s \in Shrinks : s = shrink
  BY <1>2 DEF Minimizing
<1>5. /\ s.kept \in Texts[0] /\ s.at \in Nat /\ s.spent \in 0..Budget /\ s.width \in Nat
      /\ s.shrunk \in BOOLEAN /\ s.width >= 1
  BY <1>1, <1>4 DEF Shrinks, Trying
<1>6. s.kept \in Seq(Tokens) /\ Len(tokens) \in Nat
  BY <1>1, <1>5, FuzzAssumption, Lists DEF FuzzInv
<1> DEFINE w == IF s.shrunk THEN s.width ELSE s.width \div 2
<1>7. /\ w \in Nat /\ w <= s.width
      /\ w = 0 => ~s.shrunk /\ s.width = 1
  <2>1. /\ s.width \div 2 \in Nat /\ s.width \div 2 <= s.width
        /\ s.width \div 2 = 0 => s.width = 1
    BY <1>5
  <2> QED BY <1>5, <2>1
<1>8. shrink' = [kept |-> s.kept, at |-> 0, spent |-> s.spent, shrunk |-> FALSE, width |-> w]
  <2>1. shrink' = [s EXCEPT !.at = 0, !.shrunk = FALSE,
                      !.width = IF s.shrunk THEN @ ELSE @ \div 2]
    BY <1>1, <1>4
  <2> QED BY <2>1 DEF Shrinks
<1> HIDE DEF w
<1>9. shrink' \in Shrinks
  BY <1>5, <1>7, <1>8 DEF Shrinks
<1>10. w = 0 => Minimal(s.kept)
  <2> SUFFICES ASSUME w = 0, NEW i \in DOMAIN s.kept PROVE ~Fails(Without(s.kept, i, 1))
    BY DEF Minimal
  <2>1. i \in 1..Len(s.kept) /\ Len(s.kept) \in Nat /\ s.at >= Len(s.kept)
    BY <1>1, <1>4, <1>6
  <2>2. i <= s.at
    BY <1>5, <2>1
  <2> QED BY <1>2, <1>4, <1>7, <2>2 DEF Minimizing
<1>11. Minimizing'
  <2>1. Fails(shrink.kept)' /\ (shrink'.width = 0 => Minimal(shrink.kept)')
    BY <1>2, <1>3, <1>4, <1>8, <1>10 DEF Minimizing
  <2>2. \A i \in DOMAIN shrink'.kept : ~(i <= shrink'.at)
    BY <1>6, <1>8
  <2>3. /\ edits' = 0 /\ tokens' = tokens
        /\ shrink'.width <= Len(tokens) /\ Len(shrink'.kept) <= Len(tokens)
    <3>1. s.width <= Len(tokens) /\ Len(s.kept) <= Len(tokens) /\ edits = 0
      BY <1>2, <1>4 DEF Minimizing
    <3>2. shrink'.width = w /\ shrink'.kept = s.kept
      BY <1>8
    <3>3. w <= Len(tokens)
      BY <1>5, <1>6, <1>7, <3>1
    <3> QED BY <1>1, <3>1, <3>2, <3>3
  <2> QED BY <1>9, <2>1, <2>2, <2>3 DEF Minimizing
<1>12. \A f \in finds' : f.text \in Texts[0] /\ Fails(f.text)' /\ (~f.cut => Minimal(f.text)')
  BY <1>1, <1>3 DEF FuzzInv
<1> QED BY <1>1, <1>11, <1>12 DEF FuzzInv

\* A find that is written without being cut short is minimal.
LEMMA WritingKeeps == FuzzInv /\ writeFind => FuzzInv'
<1> SUFFICES ASSUME FuzzInv, writeFind PROVE FuzzInv'
  OBVIOUS
<1> DEFINE find == [n |-> n, text |-> shrink.kept, cut |-> shrink.width >= 1]
<1>1. /\ phase = "minimize" /\ finds' = finds \cup {find} /\ n' = n + 1 /\ phase' = "pick"
      /\ UNCHANGED <<port, route, exempt, tokens, edits, failures, shrink>>
  BY DEF writeFind
<1>2. Minimizing /\ n \in 0..Count /\ n < Count
  BY <1>1 DEF FuzzInv
<1>3. /\ \A t : Fails(t)' = Fails(t)
      /\ \A t : Minimal(t)' = Minimal(t)
  BY <1>1, VerdictsKept
<1>4. shrink.kept \in Texts[0] /\ shrink.width \in Nat
  BY <1>2 DEF Minimizing, Shrinks
<1>5. /\ find.text \in Texts[0] /\ Fails(find.text)
      /\ ~find.cut => Minimal(find.text)
  <2>1. find.text = shrink.kept /\ find.cut = (shrink.width >= 1)
    OBVIOUS
  <2>2. ~(shrink.width >= 1) => shrink.width = 0
    BY <1>4
  <2> QED BY <1>2, <1>4, <2>1, <2>2 DEF Minimizing
<1> HIDE DEF find
<1>6. \A f \in finds' : f.text \in Texts[0] /\ Fails(f.text)' /\ (~f.cut => Minimal(f.text)')
  BY <1>1, <1>3, <1>5 DEF FuzzInv
<1>7. IsFiniteSet(finds') /\ Cardinality(finds') <= n'
  <2>1. IsFiniteSet(finds) /\ Cardinality(finds) \in Nat /\ Cardinality(finds) <= n
    BY FS_CardinalityType DEF FuzzInv
  <2>2. /\ IsFiniteSet(finds \cup {find})
        /\ Cardinality(finds \cup {find}) \in {Cardinality(finds), Cardinality(finds) + 1}
    BY <2>1, FS_AddElement
  <2> QED BY <1>1, <1>2, <2>1, <2>2
<1>8. n' \in 0..Count
  BY <1>1, <1>2, FuzzAssumption
<1> QED BY <1>1, <1>6, <1>7, <1>8 DEF FuzzInv

LEMMA FuzzPreserved == FuzzInv /\ [Next]_vars => FuzzInv'
<1> SUFFICES ASSUME FuzzInv, [Next]_vars PROVE FuzzInv'
  OBVIOUS
<1>1. ASSUME UNCHANGED <<port, route>>
      PROVE  /\ \A t : Fails(t)' = Fails(t)
             /\ \A t : Minimal(t)' = Minimal(t)
  BY <1>1, VerdictsKept
<1>2. ASSUME NEW seed \in Seeds, skipSeed(seed) PROVE FuzzInv'
  <2>1. /\ n < Count /\ n' = n + 1 /\ phase = "pick"
        /\ UNCHANGED <<port, route, exempt, phase, tokens, edits, failures, shrink, finds>>
    BY <1>2 DEF skipSeed
  <2>2. n \in 0..Count /\ IsFiniteSet(finds) /\ Cardinality(finds) <= n
    BY DEF FuzzInv
  <2>3. n' \in 0..Count /\ Cardinality(finds') <= n'
    BY <2>1, <2>2, FuzzAssumption, FS_CardinalityType
  <2> QED BY <1>1, <2>1, <2>2, <2>3 DEF FuzzInv
<1>3. ASSUME NEW seed \in Seeds, pickSeed(seed) PROVE FuzzInv'
  <2>1. /\ n < Count /\ Len(seed) >= 2 /\ tokens' = seed /\ edits' \in 1..Edits
        /\ phase' = "edit" /\ UNCHANGED <<port, route, exempt, n, failures, shrink, finds>>
    BY <1>3 DEF pickSeed
  <2>2. edits' \in 0..Edits /\ tokens' \in Texts[edits']
    BY <2>1, FuzzAssumption, TextsAssumption
  <2>3. tokens' # <<>>
    BY <2>1
  <2> QED BY <1>1, <2>1, <2>2, <2>3 DEF FuzzInv
<1>4. CASE editTokens
  <2>1. /\ phase = "edit" /\ edits > 0 /\ tokens' \in mutate(tokens) /\ edits' = edits - 1
        /\ UNCHANGED <<port, route, exempt, n, phase, failures, shrink, finds>>
    BY <1>4 DEF editTokens
  <2>2. edits \in 1..Edits /\ tokens \in Texts[edits] /\ tokens # <<>>
    BY <2>1, FuzzAssumption DEF FuzzInv
  <2>3. edits' \in 0..Edits /\ tokens' \in Texts[edits']
    BY <2>1, <2>2, FuzzAssumption, TextsAssumption
  <2>4. tokens \in Seq(Tokens)
    BY <2>2, FuzzAssumption, Lists
  <2>5. tokens' # <<>>
    BY <2>1, <2>2, <2>4, MutantNotEmpty
  <2> QED BY <1>1, <2>1, <2>3, <2>5 DEF FuzzInv
<1>5. CASE gradeMutant
  BY <1>5, GradingKeeps
<1>6. CASE tryCandidate
  BY <1>6, AttemptKeeps
<1>7. CASE nextPass
  BY <1>7, PassKeeps
<1>8. CASE writeFind
  BY <1>8, WritingKeeps
<1>9. CASE report
  <2>1. /\ phase' \in {"exit 0", "exit 1"}
        /\ UNCHANGED <<port, route, exempt, n, tokens, edits, failures, shrink, finds>>
    BY <1>9 DEF report
  <2> QED BY <1>1, <2>1 DEF FuzzInv
<1>10. CASE UNCHANGED vars
  <2>1. Minimizing => Minimizing'
    BY <1>1, <1>10 DEF vars, Minimizing
  <2> QED BY <1>1, <1>10, <2>1 DEF vars, FuzzInv
<1> QED BY <1>2, <1>3, <1>4, <1>5, <1>6, <1>7, <1>8, <1>9, <1>10 DEF Next

LEMMA FuzzInvariant == Spec => []FuzzInv
BY FuzzInitially, FuzzPreserved, PTL DEF Spec

LEMMA FuzzShape == FuzzInv => FuzzTypeOK
<1> SUFFICES ASSUME FuzzInv PROVE FuzzTypeOK
  OBVIOUS
<1>1. ASSUME phase = "minimize"
      PROVE  /\ shrink.spent \in 0..Budget /\ shrink.width \in 0..Len(tokens)
             /\ shrink.kept # <<>> /\ Len(shrink.kept) <= Len(tokens)
  <2>1. Minimizing /\ tokens \in Texts[edits]
    BY <1>1 DEF FuzzInv
  <2>2. Len(tokens) \in Nat
    <3>1. edits \in 0..Edits
      BY DEF FuzzInv
    <3>2. tokens \in Seq(Tokens)
      BY <2>1, <3>1, Lists
    <3> QED BY <3>2
  <2> QED BY <2>1, <2>2 DEF Minimizing, Shrinks, Fails
<1> QED BY <1>1 DEF FuzzInv, FuzzTypeOK

(***************************************************************************)
(* What the fuzzer promises of its finds by its own measure, whether or not *)
(* the oracles are right: a file in test/report/fuzz fails when it is       *)
(* graded by itself, and unless the budget cut minimize short it passes as  *)
(* soon as any one token is dropped.                                        *)
(***************************************************************************)
FindsFailByThemselves == \A f \in finds : Fails(f.text) /\ (~f.cut => Minimal(f.text))

THEOREM FindsReproduce == Spec => []FindsFailByThemselves
<1>1. FuzzInv => FindsFailByThemselves
  BY DEF FuzzInv, FindsFailByThemselves
<1> QED BY <1>1, FuzzInvariant, PTL

(***************************************************************************)
(* What was graded before a mutant does not count, whatever the mutants and *)
(* the answers: an entry that grade puts in SPAN_EXEMPT for one is gone     *)
(* when the next is graded, on every path out of grade.                     *)
(***************************************************************************)
VerdictIsIndependent ==
  [][gradeMutant => failures' = grade(tokens, FALSE).failures]_vars

THEOREM VerdictsAreIndependent == Spec => VerdictIsIndependent
<1>1. FuzzInv /\ gradeMutant => failures' = grade(tokens, FALSE).failures
  <2> SUFFICES ASSUME FuzzInv, gradeMutant
               PROVE  failures' = grade(tokens, FALSE).failures
    OBVIOUS
  <2>1. exempt = FALSE
    BY DEF FuzzInv
  <2>2. \E v \in {grade(tokens, exempt)} : failures' = v.failures
    BY DEF gradeMutant
  <2> QED BY <2>1, <2>2
<1> QED BY <1>1, FuzzInvariant, PTL DEF VerdictIsIndependent

LEMMA RightlyKept == GradesRightly /\ [Next]_vars => GradesRightly'
<1> SUFFICES ASSUME GradesRightly, [Next]_vars PROVE GradesRightly'
  OBVIOUS
<1>1. UNCHANGED <<port, route>>
  BY DEF Next, vars, skipSeed, pickSeed, editTokens, gradeMutant, tryCandidate, nextPass,
         writeFind, report
<1>2. Wrong' = Wrong
  BY <1>1 DEF Wrong
<1>3. \A t : grade(t, FALSE)' = grade(t, FALSE)
  BY <1>1 DEF grade, Oracles123, Exempted, _reference_reproduces_instability, Ours, policy
<1> QED BY <1>2, <1>3 DEF GradesRightly

(***************************************************************************)
(* Against oracles that are right, a find is a text on which the port is    *)
(* wrong, and no token can be dropped from it without its being right.      *)
(***************************************************************************)
THEOREM FindsAreMinimal == Spec /\ GradesRightly => []FindIsMinimal
<1>1. FuzzInv /\ GradesRightly => FindIsMinimal
  <2> SUFFICES ASSUME FuzzInv, GradesRightly PROVE FindIsMinimal
    OBVIOUS
  <2>1. ASSUME NEW f \in finds
        PROVE  /\ f.text \in Wrong
               /\ ~f.cut => \A i \in DOMAIN f.text : Without(f.text, i, 1) \notin Wrong
    <3>1. f.text \in Texts[0] /\ Fails(f.text) /\ (~f.cut => Minimal(f.text))
      BY DEF FuzzInv
    <3>2. f.text \in Wrong
      BY <3>1 DEF Fails, GradesRightly
    <3>3. ASSUME ~f.cut, NEW i \in DOMAIN f.text PROVE Without(f.text, i, 1) \notin Wrong
      <4>1. 0 \in 0..Edits /\ i \in 1..Len(f.text)
        BY <3>1, FuzzAssumption, Lists
      <4>2. Without(f.text, i, 1) \in Texts[0]
        BY <3>1, <4>1, CutTyped
      <4>3. ~Fails(Without(f.text, i, 1))
        BY <3>1, <3>3 DEF Minimal
      <4> QED BY <4>2, <4>3 DEF Fails, GradesRightly
    <3> QED BY <3>2, <3>3
  <2> QED BY <2>1, FuzzShape DEF FindIsMinimal
<1>2. Spec /\ GradesRightly => []GradesRightly
  BY RightlyKept, PTL DEF Spec
<1> QED BY <1>1, <1>2, FuzzInvariant, PTL
=============================================================================
