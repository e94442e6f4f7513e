---------------------------- MODULE FuzzSession ----------------------------
(***************************************************************************)
(* waxdiff.py `fuzz`: mutants of corpus files are graded with the oracles, *)
(* and one that fails is minimized and written out as a find.              *)
(*                                                                         *)
(* A text is the sequence of its tokens: render_tokens and tokenize lose   *)
(* only layout.  A session is one thread, and its steps are the iterations *)
(* of its loops.                                                           *)
(***************************************************************************)
EXTENDS Oracles, FiniteSetsExt

CONSTANTS
    Seeds,      \* the token sequences of the indexed corpus files
    Tokens,     \* the tokens of the language
    Texts,      \* edits left -> the texts that the mutant can be
    Ref,        \* the reference
    Ports,      \* port -> [impl, bugs: the texts on which it is wrong, backend:
                \* whether only its own binaries are]
    Quotes,     \* text -> the byte offsets that hold a quote
    Routes,     \* --oracle2-route
    Count, Edits, Budget

ASSUME FuzzAssumption == Count \in Nat /\ Edits \in Nat \ {0} /\ Budget \in Nat

VARIABLES
    port, route,
    exempt,     \* whether SPAN_EXEMPT has an entry for "mutant.wax"
    n,          \* iterations of the session that are over
    phase,
    tokens,
    edits,      \* edits left of the current mutant
    failures,   \* what the current mutant, or the last find, was reported for
    shrink,     \* the locals of minimize
    finds       \* what was written to test/report/fuzz

vars == <<port, route, exempt, n, phase, tokens, edits, failures, shrink, finds>>

policy == load_policy("full", route)
Ours == Ports[port].impl

-----------------------------------------------------------------------------
(* mutate *)

Without(s, first, count) ==
    SubSeq(s, 1, first - 1) \o SubSeq(s, first + count, Len(s))

Swapped(s) ==
    {[s EXCEPT ![i] = s[Min({i + 1, Len(s)})], ![Min({i + 1, Len(s)})] = s[i]] : i \in DOMAIN s}
Deleted(s) == {Without(s, i, 1) : i \in DOMAIN s}
Duplicated(s) == {SubSeq(s, 1, i) \o SubSeq(s, i, Len(s)) : i \in DOMAIN s}
Borrowed(s) == {[s EXCEPT ![i] = s[j]] : i, j \in DOMAIN s}

\* a mutant of mutate: the last token may be deleted
mutateUnguarded(s) == Swapped(s) \cup Deleted(s) \cup Duplicated(s) \cup Borrowed(s)

\* the possible results of one edit
mutate(s) ==
    IF Len(s) < 2 THEN {s}
    ELSE Swapped(s) \cup Deleted(s) \cup Duplicated(s) \cup Borrowed(s)

\* Every edit, and every cut of minimize, leads to a text that is accounted for.
ASSUME TextsAssumption ==
    /\ Texts \in [0..Edits -> SUBSET Seq(Tokens)]
    /\ \A e \in 1..Edits : /\ Seeds \subseteq Texts[e]
                           /\ \A s \in Texts[e] : mutate(s) \subseteq Texts[e - 1]
    /\ \A s \in Texts[0] : \A i \in 0..Len(s) : \A j \in (i + 1)..(Len(s) + 1) :
          SubSeq(s, 1, i) \o SubSeq(s, j, Len(s)) \in Texts[0]

-----------------------------------------------------------------------------
(* grade *)

OnlySpansDiffer(w, g) == \A f \in GATED \ SPAN_FIELDS : w[f] = g[f]

\* the reference points at the closing quote of a string, the port at the string
_is_finding9(text, want, got) ==
    /\ Len(want) = Len(got) /\ want # <<>>
    /\ \A i \in DOMAIN want :
          /\ OnlySpansDiffer(want[i], got[i])
          /\ \E f \in SPAN_FIELDS : want[i][f] # got[i][f]
          /\ got[i].start \in Quotes[text]
          /\ want[i].end = got[i].end /\ want[i].start = got[i].end - 1

\* one side reports the check of an action, the other a syntax error behind it
_is_finding12(want, got) ==
    /\ Len(want) = 1 /\ Len(got) = 1
    /\ OnlySpansDiffer(want[1], got[1])
    /\ want[1].message # got[1].message
    /\ LET timing(first, second) == /\ second.message \in SyntaxMessages
                                    /\ first.message \notin SyntaxMessages
       IN IF want[1].end <= got[1].start THEN timing(want[1], got[1])
          ELSE got[1].end <= want[1].start /\ timing(got[1], want[1])

\* the reference comes apart on our reprint exactly as we do
_reference_reproduces_instability(text) ==
    LET once == Ours[text]["wax"]
        ours_twice == Ours[once.out]["wax"]
        ref_twice == Ref[once.out]["wax"]
    IN /\ once.code = 0
       /\ ours_twice.code = ref_twice.code
       /\ IF ours_twice.code # 0
          THEN ours_twice.code > 0 /\ ours_twice.err = ref_twice.err
          ELSE ours_twice.out # once.out /\ ref_twice.out = ours_twice.out

\* the exemption grade sets for a mutant whose divergence is a recorded one
Exempted(text, gold) ==
    LET err == Ours[text]["check"].err IN
    /\ gold.diag # None /\ err.json
    /\ \/ _is_finding9(text, gold.diag, err.diags)
       \/ _is_finding12(gold.diag, err.diags)

\* the failures of the three oracles, or Raised
Oracles123(text, meta, gold, exempted) ==
    LET checks == {check_oracle1(Ours, "mutant.wax", text, meta, gold, policy),
                   check_oracle2(Ours, Ref, text, meta, policy),
                   check_oracle3(Ours, text, meta, gold, policy, exempted)}
        all == UNION {v.failures : v \in checks}
    IN IF \E v \in checks : v.raised THEN Raised
       ELSE Verdict("none",
               {f \in all : f[1] = "idempotence" => ~_reference_reproduces_instability(text)}, {})

\* grade: the verdict on one text, given whether an exemption is already there
grade(text, before) ==
    LET res == classify_one(Ref[text])
        gold == write_golden(res)
    IN IF GoldenRaises(res) THEN Verdict("none", {}, {})
       ELSE IF gold.diag # None /\ ~Ours[text]["check"].err.json
       THEN Failure("errors", "non-JSON diagnostics")
       ELSE Oracles123(text, IndexEntry(res), gold, before \/ Exempted(text, gold))

\* a mutant of ExemptAfter: the entry is not removed again
exemptLeaks(text, before) ==
    \/ before
    \/ LET res == classify_one(Ref[text])
       IN ~GoldenRaises(res) /\ Exempted(text, write_golden(res))

\* `finally`: an entry that grade made is popped
ExemptAfter(text, before) ==
    LET res == classify_one(Ref[text])
    IN IF ~GoldenRaises(res) /\ Exempted(text, write_golden(res)) THEN FALSE ELSE before

-----------------------------------------------------------------------------
(* the session *)

Init ==
    /\ port \in DOMAIN Ports /\ route \in Routes
    /\ exempt = FALSE /\ n = 0 /\ phase = "pick"
    /\ tokens = <<>> /\ edits = 0 /\ failures = {} /\ shrink = None /\ finds = {}

skipSeed(seed) ==
    /\ phase = "pick" /\ n < Count /\ Len(seed) < 2
    /\ n' = n + 1
    /\ UNCHANGED <<port, route, exempt, phase, tokens, edits, failures, shrink, finds>>

pickSeed(seed) ==
    /\ phase = "pick" /\ n < Count /\ Len(seed) >= 2
    /\ tokens' = seed
    /\ edits' \in 1..Edits
    /\ phase' = "edit"
    /\ UNCHANGED <<port, route, exempt, n, failures, shrink, finds>>

editTokens ==
    /\ phase = "edit" /\ edits > 0
    /\ tokens' \in mutate(tokens)
    /\ edits' = edits - 1
    /\ UNCHANGED <<port, route, exempt, n, phase, failures, shrink, finds>>

\* a mutant of IterationsAfter: a mutant that passes is not counted
iterationsOfFinds(v) == n

\* the loop goes on to the next iteration at once unless there is a find to minimize
IterationsAfter(v) == IF v.raised \/ v.failures # {} THEN n ELSE n + 1

gradeMutant ==
    /\ phase = "edit" /\ edits = 0
    /\ \E v \in {grade(tokens, exempt)} :
       /\ failures' = v.failures
       /\ phase' = IF v.raised THEN "raised"
                   ELSE IF v.failures = {} THEN "pick" ELSE "minimize"
       /\ n' = IterationsAfter(v)
       /\ shrink' = IF phase' = "minimize"
                    THEN [kept |-> tokens, at |-> 0, spent |-> 0, shrunk |-> FALSE,
                          width |-> Max({1, Len(tokens) \div 2})]
                    ELSE None
    /\ exempt' = ExemptAfter(tokens, exempt)
    /\ UNCHANGED <<port, route, tokens, edits, finds>>

Trying == shrink.width >= 1 /\ shrink.spent < Budget

\* a mutant of candidate: one token too many is dropped
candidateWide == Without(shrink.kept, shrink.at + 1, shrink.width + 1)

candidate == Without(shrink.kept, shrink.at + 1, shrink.width)

\* one attempt of minimize
tryCandidate ==
    /\ phase = "minimize" /\ Trying /\ shrink.at < Len(shrink.kept)
    /\ \E v \in {IF candidate = <<>> THEN Passed ELSE grade(candidate, exempt)} :
       /\ phase' = IF v.raised THEN "raised" ELSE phase
       /\ shrink' = IF v.failures # {}
                    THEN [shrink EXCEPT !.spent = @ + 1, !.kept = candidate, !.shrunk = TRUE]
                    ELSE [shrink EXCEPT !.spent = @ + 1, !.at = @ + shrink.width]
    /\ exempt' = IF candidate = <<>> THEN exempt ELSE ExemptAfter(candidate, exempt)
    /\ UNCHANGED <<port, route, n, tokens, edits, failures, finds>>

\* a pass over the tokens is over: halve the width unless it dropped something
nextPass ==
    /\ phase = "minimize" /\ Trying /\ shrink.at >= Len(shrink.kept)
    /\ shrink' = [shrink EXCEPT !.at = 0, !.shrunk = FALSE,
                     !.width = IF shrink.shrunk THEN @ ELSE @ \div 2]
    /\ UNCHANGED <<port, route, exempt, n, phase, tokens, edits, failures, finds>>

\* minimize returns and the find is written
writeFind ==
    /\ phase = "minimize" /\ ~Trying
    /\ finds' = finds \cup {[n |-> n, text |-> shrink.kept, cut |-> shrink.width >= 1]}
    /\ n' = n + 1
    /\ phase' = "pick"
    /\ UNCHANGED <<port, route, exempt, tokens, edits, failures, shrink>>

\* the exit status of the session
report ==
    /\ phase = "pick" /\ n = Count
    /\ phase' = IF finds = {} THEN "exit 0" ELSE "exit 1"
    /\ UNCHANGED <<port, route, exempt, n, tokens, edits, failures, shrink, finds>>

Over == phase \in {"exit 0", "exit 1", "raised"}

Next ==
    \/ \E seed \in Seeds : skipSeed(seed) \/ pickSeed(seed)
    \/ editTokens \/ gradeMutant
    \/ tryCandidate \/ nextPass \/ writeFind
    \/ report

Spec == Init /\ [][Next]_vars /\ WF_vars(Next)

-----------------------------------------------------------------------------
(* Properties *)

\* The shape of the state: the mutant is a non-empty text, minimize works inside a
\* part of it and inside its budget, and one find at most is written per iteration.
FuzzTypeOK ==
    /\ n \in 0..Count /\ edits \in 0..Edits /\ exempt \in BOOLEAN
    /\ phase \in {"pick", "edit", "minimize", "exit 0", "exit 1", "raised"}
    /\ phase \in {"edit", "minimize"} => tokens \in Texts[edits] /\ tokens # <<>>
    /\ phase = "minimize" =>
          /\ shrink.spent \in 0..Budget /\ shrink.width \in 0..Len(tokens)
          /\ shrink.kept # <<>> /\ Len(shrink.kept) <= Len(tokens)
    /\ Cardinality(finds) <= n

Wrong == {t \in Ports[port].bugs : Ports[port].backend => route = NATIVE}

\* grade is right about every text, graded by itself: the shapes of the recorded
\* findings are excused, and nothing else is.
GradesRightly ==
    /\ <<>> \notin Wrong
    /\ \A t \in Texts[0] : t # <<>> => (grade(t, FALSE).failures # {} <=> t \in Wrong)

\* A text is reported exactly if the port is wrong on it in a way that the route can
\* see, and so is a mutant, whatever was graded before it: an exemption neither
\* outlives its mutant nor trips the check for stale ones.
VerdictIsTrue ==
    /\ GradesRightly
    /\ [][gradeMutant /\ ~grade(tokens, exempt).raised =>
             (failures' # {} <=> tokens \in Wrong)]_vars

\* Every find that is written fails by itself, and unless the budget ran out no
\* single token can be dropped from it without the failure going away.  On the way
\* there minimize stays inside its budget and never keeps an empty text.
FindIsMinimal ==
    /\ FuzzTypeOK
    /\ \A f \in finds :
          /\ f.text \in Wrong
          /\ ~f.cut => \A i \in DOMAIN f.text : Without(f.text, i, 1) \notin Wrong

\* A session ends, however the mutants fail and shrink.
SessionEnds == <>Over

\* Stated by the comment in grade: "Ours printing something that is not JSON is a find
\* in itself."  It does not end the session.
NonJsonIsAFind == phase # "raised"
=============================================================================
