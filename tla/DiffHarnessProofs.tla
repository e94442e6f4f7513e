------------------------- MODULE DiffHarnessProofs -------------------------
(***************************************************************************)
(* Theorems about `golden` and `run`, for every corpus, every pair of      *)
(* implementations, every pool size and every interleaving of its threads. *)
(***************************************************************************)
EXTENDS DiffHarness, FiniteSetTheorems, SequenceTheorems, TLAPS

-----------------------------------------------------------------------------
(* The files of a command                                                  *)

Places(S) == {p \in DOMAIN Files : Files[p] \in S}
Rank(S, p) == Cardinality({q \in Places(S) : q < p})
Nth(S, i) == CHOOSE p \in Places(S) : Rank(S, p) = i - 1

LEMMA PlacesFinite ==
  ASSUME NEW S
  PROVE  /\ IsFiniteSet(Places(S)) /\ Cardinality(Places(S)) \in Nat
         /\ Places(S) \subseteq Nat
         /\ \A p \in Places(S) : /\ IsFiniteSet({q \in Places(S) : q < p})
                                 /\ Rank(S, p) \in 0..(Cardinality(Places(S)) - 1)
<1>1. DOMAIN Files = 1..Len(Files) /\ Len(Files) \in Nat
  BY HarnessAssumption
<1>2. IsFiniteSet(1..Len(Files))
  BY <1>1, FS_Interval
<1>3. Places(S) \in SUBSET (1..Len(Files)) /\ Places(S) \subseteq Nat
  BY <1>1 DEF Places
<1>4. IsFiniteSet(Places(S)) /\ Cardinality(Places(S)) \in Nat
  BY <1>2, <1>3, FS_Subset, FS_CardinalityType
<1>5. ASSUME NEW p \in Places(S)
      PROVE  /\ IsFiniteSet({q \in Places(S) : q < p})
             /\ Rank(S, p) \in 0..(Cardinality(Places(S)) - 1)
  <2> DEFINE L == {q \in Places(S) : q < p}
  <2>1. L \in SUBSET Places(S) /\ p \notin L
    BY <1>3, <1>5
  <2>2. IsFiniteSet(L) /\ Cardinality(L) <= Cardinality(Places(S))
        /\ (Cardinality(Places(S)) = Cardinality(L) => Places(S) = L)
    BY <1>4, <2>1, FS_Subset
  <2>3. Cardinality(L) \in Nat
    BY <2>2, FS_CardinalityType
  <2>4. Cardinality(L) # Cardinality(Places(S))
    BY <2>1, <2>2, <1>5
  <2> QED BY <1>4, <2>2, <2>3, <2>4 DEF Rank
<1> QED BY <1>3, <1>4, <1>5

LEMMA RankGrows ==
  ASSUME NEW S, NEW p \in Places(S), NEW q \in Places(S), p < q
  PROVE  Rank(S, p) < Rank(S, q)
<1> DEFINE L == {r \in Places(S) : r < p}
           U == {r \in Places(S) : r < q}
<1>1. p \in Nat /\ q \in Nat /\ IsFiniteSet(U) /\ Places(S) \subseteq Nat /\ IsFiniteSet(L)
  BY PlacesFinite
<1>2. L \in SUBSET U /\ p \in U /\ p \notin L
  BY <1>1
<1>3. Cardinality(L) <= Cardinality(U) /\ (Cardinality(U) = Cardinality(L) => U = L)
  BY <1>1, <1>2, FS_Subset
<1>4. Cardinality(L) \in Nat /\ Cardinality(U) \in Nat
  BY <1>1, FS_CardinalityType
<1> QED BY <1>2, <1>3, <1>4 DEF Rank

\* The names of S are listed once each, all of them.
LEMMA SelectedNames ==
  ASSUME NEW S, S \subseteq Range(Files)
  PROVE  /\ Selected(S) \in Seq(S) /\ IsInjective(Selected(S))
         /\ \A rel \in S : \E i \in DOMAIN Selected(S) : Selected(S)[i] = rel
<1> DEFINE n == Cardinality(Places(S))
           rank == [p \in Places(S) |-> Rank(S, p)]
<1>1. /\ IsFiniteSet(Places(S)) /\ n \in Nat /\ Places(S) \subseteq Nat
      /\ \A p \in Places(S) : Rank(S, p) \in 0..(n - 1)
  BY PlacesFinite
<1>2. IsFiniteSet(0..(n - 1)) /\ Cardinality(0..(n - 1)) = n
  <2>1. 0 \in Int /\ n - 1 \in Int
    BY <1>1
  <2>2. IsFiniteSet(0..(n - 1)) /\ Cardinality(0..(n - 1)) = IF 0 > n - 1 THEN 0 ELSE (n - 1) - 0 + 1
    BY <2>1, FS_Interval
  <2> QED BY <1>1, <2>2
<1>3. \A p, q \in Places(S) : Rank(S, p) = Rank(S, q) => p = q
  <2> SUFFICES ASSUME NEW p \in Places(S), NEW q \in Places(S), Rank(S, p) = Rank(S, q), p # q
               PROVE  FALSE
    OBVIOUS
  <2>1. p < q \/ q < p
    BY <1>1
  <2>2. Rank(S, p) \in Int /\ Rank(S, q) \in Int
    BY <1>1
  <2> QED BY <2>1, <2>2, RankGrows
<1>4. rank \in Injection(Places(S), 0..(n - 1))
  BY <1>1, <1>3 DEF Injection, IsInjective
<1>5. rank \in Surjection(Places(S), 0..(n - 1))
  BY <1>1, <1>2, <1>4, FS_Injection
<1>6. \A r \in 0..(n - 1) : \E p \in Places(S) : Rank(S, p) = r
  BY <1>5 DEF Surjection
<1>7. \A i \in 1..n : Nth(S, i) \in Places(S) /\ Rank(S, Nth(S, i)) = i - 1
  <2> TAKE i \in 1..n
  <2>1. i - 1 \in 0..(n - 1)
    BY <1>1
  <2> QED BY <1>6, <2>1 DEF Nth
<1>8. Selected(S) = [i \in 1..n |-> Files[Nth(S, i)]]
  BY DEF Selected, Places, Nth, Rank
<1> HIDE DEF n
<1>9. Selected(S) \in Seq(S)
  <2>1. \A i \in 1..n : Files[Nth(S, i)] \in S
    BY <1>7 DEF Places
  <2> QED BY <1>1, <1>8, <2>1
<1>10. IsInjective(Selected(S))
  <2> SUFFICES ASSUME NEW i \in 1..n, NEW j \in 1..n, Files[Nth(S, i)] = Files[Nth(S, j)]
               PROVE  i = j
    BY <1>8 DEF IsInjective
  <2>1. Nth(S, i) = Nth(S, j)
    BY <1>7, HarnessAssumption DEF IsInjective, Places
  <2> QED BY <1>7, <2>1, <1>1
<1>11. ASSUME NEW rel \in S PROVE \E i \in 1..n : Files[Nth(S, i)] = rel
  <2>1. PICK p \in Places(S) : Files[p] = rel
    BY DEF Places, Range
  <2>2. Rank(S, p) + 1 \in 1..n /\ (Rank(S, p) + 1) - 1 = Rank(S, p)
    BY <1>1
  <2>3. Nth(S, Rank(S, p) + 1) = p
    BY <1>3, <1>7, <2>2
  <2> QED BY <2>1, <2>2, <2>3
<1> QED BY <1>8, <1>9, <1>10, <1>11

-----------------------------------------------------------------------------
(* What an implementation answers                                          *)

Stamped(d, root) == IF d.file.marked THEN [d EXCEPT !.file.root = root] ELSE d
AllStamped(diags, root) == [i \in DOMAIN diags |-> Stamped(diags[i], root)]

\* Where a diagnostic was printed shows in its file only, and is normalized away.
LEMMA StampedDiagnostic ==
  ASSUME NEW d \in Diagnostic, NEW root
  PROVE  /\ normalize_file(Stamped(d, root)) = d
         /\ \A f \in (GATED \cup REPORTED) \ {"file"} : Stamped(d, root)[f] = d[f]
<1>1. PICK a \in STRING, m \in BOOLEAN, s \in Nat, e \in Nat, w \in STRING \cup {None}, g \in STRING :
        d = [severity |-> a, file |-> [marked |-> m, root |-> None], start |-> s, end |-> e,
             warning |-> w, message |-> g]
  <2>1. \E fl \in [marked : BOOLEAN, root : {None}] : d.file = fl
    BY DEF Diagnostic
  <2> QED BY <2>1 DEF Diagnostic
<1> DEFINE Rec(r) == [severity |-> a, file |-> [marked |-> m, root |-> r], start |-> s, end |-> e,
                      warning |-> w, message |-> g]
<1>2. d = Rec(None) /\ d.file.marked = m
  BY <1>1
<1>3. CASE m
  <2>1. Stamped(d, root) = Rec(root)
    BY <1>1, <1>3 DEF Stamped
  <2>2. Rec(root).file.marked = m /\ [Rec(root) EXCEPT !.file.root = None] = Rec(None)
    OBVIOUS
  <2>3. normalize_file(Stamped(d, root)) = d
    BY <1>2, <1>3, <2>1, <2>2 DEF normalize_file
  <2> QED BY <1>2, <2>1, <2>3 DEF GATED, REPORTED
<1>4. CASE ~m
  <2>1. Stamped(d, root) = d
    BY <1>2, <1>4 DEF Stamped
  <2> QED BY <1>2, <1>4, <2>1 DEF normalize_file
<1> QED BY <1>3, <1>4

LEMMA NormalizedAll ==
  ASSUME NEW diags \in Seq(Diagnostic), NEW root
  PROVE  Normalized(AllStamped(diags, root)) = diags
<1>1. /\ DOMAIN Normalized(AllStamped(diags, root)) = DOMAIN diags
      /\ \A i \in DOMAIN diags :
            Normalized(AllStamped(diags, root))[i] = normalize_file(Stamped(diags[i], root))
  BY DEF Normalized, AllStamped
<1>2. \A i \in DOMAIN diags : Normalized(AllStamped(diags, root))[i] = diags[i]
  BY <1>1, StampedDiagnostic
<1>3. Normalized(AllStamped(diags, root)) =
        [i \in DOMAIN Normalized(AllStamped(diags, root)) |-> Normalized(AllStamped(diags, root))[i]]
  BY DEF Normalized
<1>4. diags = [i \in DOMAIN diags |-> diags[i]]
  OBVIOUS
<1> QED BY <1>1, <1>2, <1>3, <1>4

Answered(runs) == runs = [c \in Commands |-> runs[c]]

LEMMA EmptyDictionary == DOMAIN << >> = {}
<1>1. \A s \in Seq({}) : DOMAIN s = 1..Len(s)
  OBVIOUS
<1>2. << >> \in Seq({}) /\ Len(<< >>) = 0
  BY EmptySeq
<1> QED BY <1>1, <1>2

LEMMA Answers ==
  ASSUME NEW impl, IsImplementation(impl), NEW t \in Texts, NEW c \in Commands
  PROVE  /\ DOMAIN impl = Texts /\ Answered(impl[t])
         /\ impl[t][c] = [code |-> impl[t][c].code, out |-> impl[t][c].out, err |-> impl[t][c].err]
         /\ impl[t][c].err \in [json : BOOLEAN, diags : Seq(Diagnostic)]
         /\ impl[t]["wax"].code = 0 => impl[t]["wax"].out \in Texts
         /\ sha256(impl[t]["wasm"].out) # None
BY DEF IsImplementation, Answered

\* What it answers in a checkout differs in the files of the diagnostics alone.
LEMMA StampedAnswers ==
  ASSUME NEW impl, IsImplementation(impl), NEW root, NEW t \in Texts, NEW c \in Commands
  PROVE  LET s == Stamp(impl, root)[t][c]
             r == impl[t][c]
         IN /\ DOMAIN Stamp(impl, root) = Texts
            /\ Answered(Stamp(impl, root)[t])
            /\ s = [code |-> r.code, out |-> r.out,
                    err |-> [json |-> r.err.json,
                             diags |-> AllStamped(r.err.diags, root)]]
<1> DEFINE r == impl[t][c]
<1>1. /\ DOMAIN impl = Texts /\ Answered(impl[t])
      /\ r = [code |-> r.code, out |-> r.out, err |-> r.err]
      /\ r.err \in [json : BOOLEAN, diags : Seq(Diagnostic)]
  BY Answers, Zenon
<1>2. r.err = [json |-> r.err.json, diags |-> r.err.diags]
  BY <1>1
<1>3. /\ DOMAIN Stamp(impl, root) = Texts
      /\ Answered(Stamp(impl, root)[t])
      /\ Stamp(impl, root)[t][c] =
            [r EXCEPT !.err.diags = AllStamped(r.err.diags, root)]
  BY <1>1 DEF Stamp, Stamped, AllStamped, Answered
<1>4. PICK code, out, json, diags :
        r = [code |-> code, out |-> out, err |-> [json |-> json, diags |-> diags]]
  BY <1>1, <1>2
<1>5. \A q : [[code |-> code, out |-> out, err |-> [json |-> json, diags |-> diags]]
                 EXCEPT !.err.diags = q]
             = [code |-> code, out |-> out, err |-> [json |-> json, diags |-> q]]
  OBVIOUS
<1> QED BY <1>3, <1>4, <1>5

LEMMA NormalizedAnswers ==
  ASSUME NEW impl, IsImplementation(impl), NEW root, NEW t \in Texts, NEW c \in Commands
  PROVE  LET s == Stamp(impl, root)[t][c]
             r == impl[t][c]
         IN /\ s.code = r.code /\ s.out = r.out /\ s.err.json = r.err.json
            /\ DOMAIN s.err.diags = DOMAIN r.err.diags /\ r.err.diags \in Seq(Diagnostic)
            /\ Normalized(s.err.diags) = r.err.diags
            /\ \A i \in DOMAIN r.err.diags : \A f \in (GATED \cup REPORTED) \ {"file"} :
                  s.err.diags[i][f] = r.err.diags[i][f]
<1> DEFINE r == impl[t][c]
           q == AllStamped(r.err.diags, root)
<1>1. Stamp(impl, root)[t][c] = [code |-> r.code, out |-> r.out,
                                 err |-> [json |-> r.err.json, diags |-> q]]
  BY StampedAnswers
<1>2. r.err.diags \in Seq(Diagnostic)
  BY Answers
<1>3. \A i \in DOMAIN r.err.diags :
        /\ normalize_file(Stamped(r.err.diags[i], root)) = r.err.diags[i]
        /\ \A f \in (GATED \cup REPORTED) \ {"file"} :
              Stamped(r.err.diags[i], root)[f] = r.err.diags[i][f]
  BY <1>2, StampedDiagnostic
<1>4. Normalized(q) = r.err.diags
  BY <1>2, NormalizedAll
<1> DEFINE s == Stamp(impl, root)[t][c]
<1>5. s.code = r.code /\ s.out = r.out /\ s.err.json = r.err.json /\ s.err.diags = q
  BY <1>1
<1>6. DOMAIN q = DOMAIN r.err.diags
  BY DEF AllStamped
<1>7. \A i \in DOMAIN r.err.diags : q[i] = Stamped(r.err.diags[i], root)
  BY DEF AllStamped
<1> HIDE DEF r, q, s
<1>8. /\ Normalized(s.err.diags) = r.err.diags
      /\ \A i \in DOMAIN r.err.diags : \A f \in (GATED \cup REPORTED) \ {"file"} :
            s.err.diags[i][f] = r.err.diags[i][f]
  BY <1>3, <1>4, <1>5, <1>7, Zenon
<1> QED BY <1>2, <1>5, <1>6, <1>8, Zenon DEF r, s

\* The runs of one text of which those in k are killed at the time limit.
Killed(r, k) == [c \in Commands |-> IF c \in k THEN TimedOut ELSE r[c]]

LEMMA TimeLimit ==
  ASSUME NEW impl, NEW t \in DOMAIN impl, Answered(impl[t]), NEW slow
  PROVE  /\ WithTimeouts(impl, slow)[t] = Killed(impl[t], {c \in Commands : <<t, c>> \in slow})
         /\ Killed(impl[t], {}) = impl[t]
         /\ \A k : \A c \in Commands : Killed(impl[t], k)[c] \in {impl[t][c], TimedOut}
BY DEF WithTimeouts, Killed, Answered

-----------------------------------------------------------------------------
(* The inductive invariant of the goldens: what index.json names was        *)
(* recorded, entry by entry, from what one reference did.                   *)

Settings == world \in Worlds /\ version \in DOMAIN world.refs /\ corpus \in Corpora

IsGolden(p) ==
  p.cmd = "golden" /\ p = [cmd |-> "golden", files |-> p.files, merged |-> p.merged,
                               results |-> p.results, index |-> p.index]

IsRun(p) ==
  p.cmd = "run" /\ p = [cmd |-> "run", args |-> p.args, files |-> p.files,
                            merged |-> p.merged, results |-> p.results,
                            printed |-> p.printed, total |-> p.total]

Process == proc = Idle \/ IsGolden(proc) \/ IsRun(proc)

\* What classify_one can return for the reference n on the text t.
Classified(n, t) ==
  {classify_one(Killed(Stamp(world.refs[n], "recorded")[t], k)) :
      k \in IF "golden" \in world.slow THEN SUBSET Commands ELSE {{}}}

RecordedBy(n, rel, meta) ==
  /\ rel \in DOMAIN golden /\ golden[rel].version = n
  /\ n \in DOMAIN world.refs /\ golden[rel].text \in Texts
  /\ \E res \in Classified(n, golden[rel].text) :
        /\ ~GoldenRaises(res) /\ meta = IndexEntry(res)
        /\ golden[rel].reprint = write_golden(res).reprint
        /\ golden[rel].diag = write_golden(res).diag

Saved ==
  /\ DOMAIN golden \subseteq Range(Files)
  /\ index # None => /\ DOMAIN index.files \subseteq Range(Files)
                     /\ \A rel \in DOMAIN index.files :
                           RecordedBy(index.reference, rel, index.files[rel])

Recording ==
  IsGolden(proc) =>
    /\ index = None
    /\ proc.files = corpus_files /\ proc.merged \in 0..Len(proc.files)
    /\ DOMAIN proc.results = DOMAIN proc.files
    /\ \A i \in DOMAIN proc.files :
          proc.results[i] # None => proc.results[i] \in Classified(version, corpus[proc.files[i]])
    /\ \A i \in 1..proc.merged : proc.results[i] # None
    /\ DOMAIN proc.index \subseteq Range(Files)
    /\ \A rel \in DOMAIN proc.index : RecordedBy(version, rel, proc.index[rel])

GoldenInv == Settings /\ Process /\ Saved /\ Recording

LEMMA CorpusFiles ==
  ASSUME Settings
  PROVE  /\ corpus_files \in Seq(Range(Files)) /\ DOMAIN corpus_files = 1..Len(corpus_files)
         /\ Len(corpus_files) \in Nat
         /\ \A i \in DOMAIN corpus_files : /\ corpus_files[i] \in Range(Files)
                                           /\ corpus[corpus_files[i]] \in Texts
<1> DEFINE S == {rel \in DOMAIN corpus : corpus[rel] # None}
<1>1. DOMAIN corpus = Range(Files) /\ \A rel \in S : corpus[rel] \in Texts
  BY HarnessAssumption DEF Settings, Range
<1>2. S \subseteq Range(Files)
  BY <1>1
<1> HIDE DEF S
<1>3. Selected(S) \in Seq(S)
  BY <1>2, SelectedNames
<1>4. corpus_files = Selected(S)
  BY DEF corpus_files, S
<1>5. corpus_files \in Seq(S)
  BY <1>3, <1>4
<1>6. corpus_files \in Seq(Range(Files))
  BY <1>2, <1>5, SeqMonotonic
<1> QED BY <1>1, <1>2, <1>5, <1>6

LEMMA References ==
  ASSUME Settings
  PROVE  /\ \A n \in DOMAIN world.refs : IsImplementation(world.refs[n])
         /\ IsImplementation(world.ours) /\ None \notin Texts
BY HarnessAssumption DEF Settings

\* A golden has a reprint exactly if the reference could parse the file.
LEMMA ReprintIffParses ==
  ASSUME Settings, NEW n, NEW rel, NEW meta, RecordedBy(n, rel, meta)
  PROVE  golden[rel].reprint = None <=> meta.bucket = SYNTAX_BAD
<1>1. IsImplementation(world.refs[n]) /\ n \in DOMAIN world.refs /\ golden[rel].text \in Texts
  BY References DEF RecordedBy
<1> DEFINE r == Stamp(world.refs[n], "recorded")[golden[rel].text]
<1>2. PICK k : /\ meta = IndexEntry(classify_one(Killed(r, k)))
               /\ golden[rel].reprint = write_golden(classify_one(Killed(r, k))).reprint
  BY DEF RecordedBy, Classified
<1>3. r["wax"].code = 0 => r["wax"].out \in Texts
  <2>1. "wax" \in Commands
    BY DEF Commands
  <2> DEFINE raw == world.refs[n][golden[rel].text]["wax"]
  <2>2. raw.code = 0 => raw.out \in Texts
    BY <1>1, <2>1, Answers
  <2>3. r["wax"].code = raw.code /\ r["wax"].out = raw.out
    BY <1>1, <2>1, NormalizedAnswers, SMTT(60)
  <2> QED BY <2>2, <2>3
<1> DEFINE a == Killed(r, k)["wax"]
<1>4. a.code = 0 => a.out # None
  BY <1>3, References DEF Killed, TimedOut, Commands
<1>5. meta.bucket = SYNTAX_BAD <=> a.code # 0
  BY <1>2, ZenonT(60) DEF IndexEntry, classify_one, SYNTAX_BAD, COMPILES_CLEAN, TYPE_BAD
<1>6. golden[rel].reprint = IF a.code = 0 THEN a.out ELSE None
  BY <1>2, Zenon DEF write_golden, classify_one
<1> QED BY <1>4, <1>5, <1>6

LEMMA RecordedFrame ==
  ASSUME UNCHANGED <<world, golden>>
  PROVE  \A n, rel, meta : RecordedBy(n, rel, meta) => RecordedBy(n, rel, meta)'
BY DEF RecordedBy, Classified

\* A step that leaves the goldens and the index alone keeps what they say.
LEMMA SavedFrame ==
  ASSUME Saved, UNCHANGED <<world, golden, index>>
  PROVE  Saved'
<1>1. \A n, rel, meta : RecordedBy(n, rel, meta) => RecordedBy(n, rel, meta)'
  BY RecordedFrame
<1> QED BY <1>1 DEF Saved

LEMMA StartGolden == GoldenInv /\ cmd_golden => GoldenInv'
<1> SUFFICES ASSUME GoldenInv, cmd_golden PROVE GoldenInv'
  OBVIOUS
<1>1. UNCHANGED <<world, version, corpus>> /\ golden' = << >> /\ index' = None
  BY DEF cmd_golden
<1>2. PICK fs : fs = corpus_files
  OBVIOUS
<1>3. proc' = [cmd |-> "golden", files |-> fs, merged |-> 0,
               results |-> [i \in DOMAIN fs |-> None], index |-> << >>]
  BY <1>2 DEF cmd_golden
<1>4. Settings'
  BY <1>1 DEF GoldenInv, Settings
<1>5. Process'
  BY <1>3 DEF Process, IsGolden
<1>6. DOMAIN << >> = {}
  BY EmptyDictionary
<1>7. Saved'
  BY <1>1, <1>6 DEF Saved
<1>8. Recording'
  <2>1. corpus_files' = fs
    BY <1>1, <1>2 DEF corpus_files
  <2>2. Len(fs) \in Nat
    BY <1>2, CorpusFiles DEF GoldenInv
  <2> QED BY <1>1, <1>3, <1>6, <2>1, <2>2 DEF Recording
<1> QED BY <1>4, <1>5, <1>7, <1>8 DEF GoldenInv

LEMMA GoldenClassifyStep == ASSUME GoldenInv, NEW i \in 1..Len(Files), i <= Len(proc.files),
                                   goldenClassify(i)
                            PROVE  GoldenInv'
<1>1. UNCHANGED <<world, version, corpus, golden, index>> /\ IsGolden(proc)
  BY DEF goldenClassify, GoldenInv, Process, Idle, IsRun
<1>2. Settings' /\ Saved'
  BY <1>1, SavedFrame DEF GoldenInv, Settings
<1>3. DOMAIN proc.files = 1..Len(proc.files) /\ i \in DOMAIN proc.files /\ proc.files = corpus_files
  BY <1>1, CorpusFiles DEF GoldenInv, Recording
<1> DEFINE t == corpus[proc.files[i]]
           ref == Stamp(world.refs[version], "recorded")
<1>4. PICK slow \in Timeouts(ref, t) :
        proc' = [proc EXCEPT !.results[i] = classify_one(WithTimeouts(ref, slow)[t])]
  BY DEF goldenClassify, Reference
<1>5. t \in Texts /\ IsImplementation(world.refs[version])
  BY <1>3, CorpusFiles, References DEF GoldenInv, Settings
<1>6. classify_one(WithTimeouts(ref, slow)[t]) \in Classified(version, t)
  <2>1. DOMAIN ref = Texts /\ Answered(ref[t])
    <3>1. "wax" \in Commands
      BY DEF Commands
    <3> QED BY <1>5, <3>1, StampedAnswers
  <2> DEFINE k == {c \in Commands : <<t, c>> \in slow}
  <2>2. WithTimeouts(ref, slow)[t] = Killed(ref[t], k)
    BY <1>5, <2>1, TimeLimit
  <2>3. k \in IF "golden" \in world.slow THEN SUBSET Commands ELSE {{}}
    <3>1. CASE "golden" \in world.slow
      BY <3>1
    <3>2. CASE "golden" \notin world.slow
      <4>1. slow = {}
        BY <1>1, <1>4, <3>2 DEF Timeouts, IsGolden
      <4> QED BY <3>2, <4>1
    <3> QED BY <3>1, <3>2
  <2> HIDE DEF k
  <2> QED BY <2>2, <2>3 DEF Classified
<1>7. PICK r : r = classify_one(WithTimeouts(ref, slow)[t])
  OBVIOUS
<1> HIDE DEF t, ref
<1>8. PICK res : res = [proc.results EXCEPT ![i] = r]
  OBVIOUS
<1>9. proc' = [cmd |-> "golden", files |-> proc.files, merged |-> proc.merged,
               results |-> res, index |-> proc.index]
  <2>1. proc' = [proc EXCEPT !.results = res]
    BY <1>4, <1>7, <1>8
  <2> QED BY <1>1, <2>1 DEF IsGolden
<1>10. Process'
  BY <1>9 DEF Process, IsGolden
<1>11. Recording'
  <2>1. corpus_files' = corpus_files
    BY <1>1 DEF corpus_files
  <2>2. \A n, rel, meta : RecordedBy(n, rel, meta) => RecordedBy(n, rel, meta)'
    BY <1>1, RecordedFrame
  <2>3. \A n, u : Classified(n, u)' = Classified(n, u)
    BY <1>1 DEF Classified
  <2>4. /\ index = None /\ proc.merged \in 0..Len(proc.files)
        /\ DOMAIN proc.results = DOMAIN proc.files
        /\ \A j \in DOMAIN proc.files : proc.results[j] # None =>
              proc.results[j] \in Classified(version, corpus[proc.files[j]])
        /\ \A j \in 1..proc.merged : proc.results[j] # None
        /\ DOMAIN proc.index \subseteq Range(Files)
        /\ \A rel \in DOMAIN proc.index : RecordedBy(version, rel, proc.index[rel])
    BY <1>1 DEF GoldenInv, Recording
  <2>5. DOMAIN res = DOMAIN proc.files /\ \A j \in DOMAIN proc.files :
           res[j] = IF j = i THEN r ELSE proc.results[j]
    BY <1>3, <1>8, <2>4
  <2>6. r \in Classified(version, corpus[proc.files[i]])
    BY <1>6, <1>7 DEF t
  <2>7. \A j \in 1..proc.merged : j \in DOMAIN proc.files /\ j # i
    <3>1. proc.results[i] = None
      BY DEF goldenClassify, InFlight
    <3> QED BY <1>3, <2>4, <3>1
  <2>8. proc'.files = proc.files /\ proc'.merged = proc.merged /\ proc'.results = res
        /\ proc'.index = proc.index
    BY <1>9
  <2>9. \A j \in DOMAIN proc.files :
          res[j] # None => res[j] \in Classified(version, corpus[proc.files[j]])
    BY <2>4, <2>5, <2>6
  <2>10. \A j \in 1..proc.merged : res[j] # None
    BY <2>4, <2>5, <2>7
  <2> QED BY <1>1, <1>3, <2>1, <2>2, <2>3, <2>4, <2>5, <2>8, <2>9, <2>10 DEF Recording
<1> QED BY <1>2, <1>10, <1>11 DEF GoldenInv

LEMMA GoldenWriteStep == GoldenInv /\ goldenWrite => GoldenInv'
<1> SUFFICES ASSUME GoldenInv, goldenWrite PROVE GoldenInv'
  OBVIOUS
<1>1. UNCHANGED <<world, version, corpus, index>> /\ IsGolden(proc)
  BY DEF goldenWrite, GoldenInv, Process, Idle, IsRun
<1>2. Settings'
  BY <1>1 DEF GoldenInv, Settings
<1>3. /\ index = None /\ proc.merged \in 0..Len(proc.files)
      /\ proc.files = corpus_files /\ DOMAIN proc.results = DOMAIN proc.files
      /\ \A j \in DOMAIN proc.files : proc.results[j] # None =>
            proc.results[j] \in Classified(version, corpus[proc.files[j]])
      /\ \A j \in 1..proc.merged : proc.results[j] # None
      /\ DOMAIN proc.index \subseteq Range(Files)
      /\ \A rel \in DOMAIN proc.index : RecordedBy(version, rel, proc.index[rel])
  BY <1>1 DEF GoldenInv, Recording
<1>4. CASE GoldenRaises(NextResult)
  <2>1. proc' = Idle /\ golden' = golden
    BY <1>4 DEF goldenWrite, Exit
  <2> QED BY <1>1, <1>2, <2>1, SavedFrame DEF GoldenInv, Process, Recording, IsGolden, Idle
<1>5. CASE ~GoldenRaises(NextResult)
  <2> DEFINE m == proc.merged + 1
  <2>1. /\ m \in DOMAIN proc.files /\ m \in 1..Len(proc.files) /\ NextResult # None
        /\ DOMAIN proc.files = 1..Len(proc.files)
    <3>1. DOMAIN proc.files = 1..Len(proc.files) /\ Len(proc.files) \in Nat
      BY <1>3, CorpusFiles DEF GoldenInv
    <3>2. proc.merged # Len(proc.files) /\ NextResult # None
      BY DEF goldenWrite, AllMerged
    <3> QED BY <1>3, <3>1, <3>2
  <2>2. PICK rel : rel = proc.files[m]
    OBVIOUS
  <2>3. PICK res : res = NextResult
    OBVIOUS
  <2>4. rel \in Range(Files) /\ corpus[rel] \in Texts
    BY <1>3, <2>1, <2>2, CorpusFiles DEF GoldenInv
  <2>5. res \in Classified(version, corpus[rel]) /\ ~GoldenRaises(res)
    BY <1>3, <1>5, <2>1, <2>2, <2>3 DEF NextResult
  <2>6. PICK entry : entry = [reprint |-> write_golden(res).reprint, diag |-> write_golden(res).diag,
                              text |-> corpus[rel], version |-> version]
    OBVIOUS
  <2>7. PICK ind : ind = Put(proc.index, rel, IndexEntry(res))
    OBVIOUS
  <2>8. /\ golden' = Put(golden, rel, entry)
        /\ proc' = [proc EXCEPT !.merged = m, !.index = ind]
    BY <1>5, <2>2, <2>3, <2>6, <2>7 DEF goldenWrite
  <2>9. proc' = [cmd |-> "golden", files |-> proc.files, merged |-> m,
                 results |-> proc.results, index |-> ind]
    BY <1>1, <2>8 DEF IsGolden
  <2>10. /\ proc'.files = proc.files /\ proc'.merged = m /\ proc'.results = proc.results
         /\ proc'.index = ind
    BY <2>9
  <2>11. Process'
    BY <2>9 DEF Process, IsGolden
  <2>12. /\ DOMAIN golden' = DOMAIN golden \cup {rel} /\ golden'[rel] = entry
         /\ \A x \in DOMAIN golden : x # rel => golden'[x] = golden[x]
         /\ DOMAIN ind = DOMAIN proc.index \cup {rel} /\ ind[rel] = IndexEntry(res)
         /\ \A x \in DOMAIN proc.index : x # rel => ind[x] = proc.index[x]
    BY <2>7, <2>8 DEF Put
  <2>13. \A n, u : Classified(n, u)' = Classified(n, u)
    BY <1>1 DEF Classified
  <2>14. \A n, x, meta : x # rel /\ RecordedBy(n, x, meta) => RecordedBy(n, x, meta)'
    BY <1>1, <2>12, <2>13 DEF RecordedBy
  <2>15. RecordedBy(version, rel, IndexEntry(res))'
    <3>1. /\ golden'[rel].version = version /\ golden'[rel].text = corpus[rel]
          /\ golden'[rel].reprint = write_golden(res).reprint
          /\ golden'[rel].diag = write_golden(res).diag
      BY <2>6, <2>12
    <3>2. version \in DOMAIN world.refs /\ rel \in DOMAIN golden'
      BY <2>12 DEF GoldenInv, Settings
    <3>3. (res \in Classified(version, golden[rel].text))'
      <4>1. PICK v, text : v = version /\ text = corpus[rel]
        OBVIOUS
      <4>2. res \in Classified(v, text)'
        BY <2>5, <2>13, <4>1
      <4> QED BY <1>1, <3>1, <4>1, <4>2
    <3> QED BY <1>1, <2>4, <2>5, <3>1, <3>2, <3>3 DEF RecordedBy
  <2>16. \A x \in DOMAIN ind : RecordedBy(version, x, ind[x])'
    <3> SUFFICES ASSUME NEW x \in DOMAIN ind PROVE RecordedBy(version, x, ind[x])'
      OBVIOUS
    <3>1. CASE x = rel
      <4>1. ind[x] = IndexEntry(res)
        BY <2>12, <3>1
      <4> QED BY <2>15, <3>1, <4>1
    <3>2. CASE x # rel
      <4>1. x \in DOMAIN proc.index /\ ind[x] = proc.index[x]
        BY <2>12, <3>2
      <4>2. PICK v, c : v = version /\ c = ind[x]
        OBVIOUS
      <4>3. RecordedBy(v, x, c)
        BY <1>3, <4>1, <4>2
      <4>4. RecordedBy(v, x, c)'
        BY <2>14, <3>2, <4>3
      <4> QED BY <1>1, <4>2, <4>4
    <3> QED BY <3>1, <3>2
  <2>17. Recording'
    <3>1. corpus_files' = corpus_files
      BY <1>1 DEF corpus_files
    <3>2. \A j \in 1..m : proc.results[j] # None
      <4> TAKE j \in 1..m
      <4>1. CASE j = m
        BY <2>1, <4>1 DEF NextResult
      <4>2. CASE j # m
        <5>1. j \in 1..proc.merged
          BY <1>3, <2>1, <4>2
        <5> QED BY <1>3, <5>1
      <4> QED BY <4>1, <4>2
    <3>3. m \in 0..Len(proc.files) /\ DOMAIN ind \subseteq Range(Files)
      BY <1>3, <2>1, <2>4, <2>12
    <3>4. (\A x \in DOMAIN proc.index : RecordedBy(version, x, proc.index[x]))'
      BY <2>10, <2>16
    <3> HIDE DEF m
    <3>5. (\A j \in DOMAIN proc.files : proc.results[j] # None =>
              proc.results[j] \in Classified(version, corpus[proc.files[j]]))'
      <4>1. PICK v, texts : v = version /\ texts = corpus
        OBVIOUS
      <4>2. \A j \in DOMAIN proc.files : proc.results[j] # None =>
              proc.results[j] \in Classified(v, texts[proc.files[j]])
        BY <1>3, <4>1
      <4>3. PICK fs, q : fs = proc.files /\ q = proc.results
        OBVIOUS
      <4>4. \A j \in DOMAIN fs : q[j] # None => q[j] \in Classified(v, texts[fs[j]])'
        BY <2>13, <4>2, <4>3
      <4> QED BY <1>1, <2>10, <4>1, <4>3, <4>4
    <3> QED BY <1>1, <1>3, <2>10, <3>1, <3>2, <3>3, <3>4, <3>5 DEF Recording
  <2>18. Saved'
    BY <1>1, <1>3, <2>4, <2>12 DEF GoldenInv, Saved
  <2> QED BY <1>2, <2>11, <2>17, <2>18 DEF GoldenInv
<1> QED BY <1>4, <1>5

LEMMA GoldenSaveStep == GoldenInv /\ goldenSave => GoldenInv'
<1> SUFFICES ASSUME GoldenInv, goldenSave PROVE GoldenInv'
  OBVIOUS
<1>1. UNCHANGED <<world, version, corpus, golden>> /\ IsGolden(proc) /\ proc' = Idle
  BY DEF goldenSave, Exit, GoldenInv, Process, Idle, IsRun
<1>2. Settings' /\ Process' /\ Recording'
  BY <1>1 DEF GoldenInv, Settings, Process, Recording, IsGolden, Idle
<1>3. /\ DOMAIN proc.index \subseteq Range(Files)
      /\ \A rel \in DOMAIN proc.index : RecordedBy(version, rel, proc.index[rel])
  BY <1>1 DEF GoldenInv, Recording
<1>4. PICK ind, v : ind = proc.index /\ v = version
  OBVIOUS
<1>5. index' = [files |-> ind, reference |-> v]
  BY <1>4 DEF goldenSave
<1>6. index'.files = ind /\ index'.reference = v
  BY <1>5
<1>7. \A n, rel, meta : RecordedBy(n, rel, meta) => RecordedBy(n, rel, meta)'
  BY <1>1, RecordedFrame
<1>8. \A rel \in DOMAIN ind : RecordedBy(v, rel, ind[rel])'
  <2> TAKE rel \in DOMAIN ind
  <2>1. RecordedBy(v, rel, ind[rel])
    BY <1>3, <1>4
  <2> QED BY <1>7, <2>1
<1>9. (\A rel \in DOMAIN index.files : RecordedBy(index.reference, rel, index.files[rel]))'
  BY <1>6, <1>8
<1>10. Saved'
  BY <1>1, <1>3, <1>4, <1>6, <1>9 DEF GoldenInv, Saved
<1> QED BY <1>2, <1>10 DEF GoldenInv

\* No step of `run` touches the goldens.
LEMMA RunKeepsGoldens ==
  ASSUME GoldenInv,
         \/ \E args \in Invocations : cmd_run(args)
         \/ \E i \in 1..Len(Files) : oneWritesMid(i) \/ oneEnds(i)
         \/ runMerge \/ runReport
  PROVE  GoldenInv'
<1>1. UNCHANGED <<world, version, corpus, golden, index>>
  BY Zenon DEF cmd_run, oneWritesMid, oneEnds, runMerge, runReport
<1>2. Settings' /\ Saved'
  BY <1>1, SavedFrame DEF GoldenInv, Settings
<1>3. ASSUME NEW args \in Invocations, cmd_run(args) PROVE GoldenInv'
  <2>1. IsRun(proc')
    BY <1>3 DEF cmd_run, IsRun
  <2> QED BY <1>2, <2>1 DEF GoldenInv, Process, Recording, IsGolden, IsRun
<1>4. CASE \/ \E i \in 1..Len(Files) : oneWritesMid(i) \/ oneEnds(i)
           \/ runMerge \/ runReport
  <2>1. IsRun(proc)
    <3>1. proc.cmd = "run"
      BY <1>4, Zenon DEF oneWritesMid, oneEnds, runMerge, runReport
    <3>2. proc = Idle \/ IsGolden(proc) \/ IsRun(proc)
      BY Zenon DEF GoldenInv, Process
    <3>3. proc # Idle
      BY <3>1 DEF Idle
    <3>4. ~IsGolden(proc)
      BY <3>1 DEF IsGolden
    <3> QED BY <3>2, <3>3, <3>4
  <2>2. IsRun(proc') \/ proc' = Idle
    <3>1. ASSUME NEW i \in 1..Len(Files), oneWritesMid(i) PROVE IsRun(proc')
      <4>1. PICK q : proc' = [proc EXCEPT !.printed = q]
        BY <3>1, Zenon DEF oneWritesMid
      <4> QED BY <2>1, <4>1, Zenon DEF IsRun
    <3>2. ASSUME NEW i \in 1..Len(Files), oneEnds(i) PROVE IsRun(proc')
      <4>1. PICK q : proc' = [proc EXCEPT !.results = q]
        BY <3>2 DEF oneEnds
      <4> QED BY <2>1, <4>1 DEF IsRun
    <3>3. CASE runMerge
      <4>1. \/ proc' = Idle
            \/ \E m : proc' = [proc EXCEPT !.merged = m]
            \/ \E m, q : proc' = [proc EXCEPT !.merged = m, !.total = q]
        BY <3>3 DEF runMerge, Exit
      <4> QED BY <2>1, <4>1 DEF IsRun
    <3>4. CASE runReport
      BY <3>4 DEF runReport, Exit
    <3> QED BY <1>4, <3>1, <3>2, <3>3, <3>4
  <2> QED BY <1>2, <2>2 DEF GoldenInv, Process, Recording, IsGolden, IsRun, Idle
<1> QED BY <1>3, <1>4, Zenon

LEMMA GoldenInit == Init => GoldenInv
<1> SUFFICES ASSUME Init PROVE GoldenInv
  OBVIOUS
<1>1. Settings
  BY DEF Init, Settings
<1>2. proc = Idle /\ golden = << >> /\ index = None
  BY DEF Init
<1>3. Saved
  BY <1>2, EmptyDictionary DEF Saved
<1> QED BY <1>1, <1>2, <1>3 DEF GoldenInv, Process, Recording, IsGolden, Idle

LEMMA GoldenInduction == GoldenInv /\ [Next]_vars => GoldenInv'
<1> SUFFICES ASSUME GoldenInv, [Next]_vars PROVE GoldenInv'
  OBVIOUS
<1>1. CASE cmd_golden
  BY <1>1, StartGolden
<1>2. CASE goldenWrite
  BY <1>2, GoldenWriteStep
<1>3. CASE goldenSave
  BY <1>3, GoldenSaveStep
<1>4. ASSUME NEW args \in Invocations, cmd_run(args) PROVE GoldenInv'
  BY <1>4, RunKeepsGoldens
<1>5. ASSUME NEW i \in 1..Len(Files), i <= Len(proc.files), proc # Idle,
             goldenClassify(i) \/ oneWritesMid(i) \/ oneEnds(i)
      PROVE  GoldenInv'
  BY <1>5, GoldenClassifyStep, RunKeepsGoldens
<1>6. CASE runMerge \/ runReport
  BY <1>6, RunKeepsGoldens
<1>7. CASE interrupt
  <2>1. UNCHANGED <<world, version, corpus, golden, index>> /\ proc' = Idle
    BY <1>7 DEF interrupt, Exit
  <2> QED BY <2>1, SavedFrame DEF GoldenInv, Settings, Process, Recording, IsGolden, Idle
<1>8. CASE surroundings
  <2>1. /\ UNCHANGED <<world, golden, index>> /\ proc = Idle /\ proc' = Idle
        /\ version' \in DOMAIN world.refs /\ corpus' \in Corpora
    BY <1>8 DEF surroundings
  <2> QED BY <2>1, SavedFrame DEF GoldenInv, Settings, Process, Recording, IsGolden, Idle
<1>9. CASE UNCHANGED vars
  <2>1. UNCHANGED <<world, version, corpus, golden, index, proc>>
    BY <1>9 DEF vars
  <2>2. \A n, rel, meta : RecordedBy(n, rel, meta) => RecordedBy(n, rel, meta)'
    BY <2>1, RecordedFrame
  <2>3. corpus_files' = corpus_files /\ \A n, u : Classified(n, u)' = Classified(n, u)
    BY <2>1 DEF corpus_files, Classified
  <2>4. Settings' /\ Process' /\ Saved'
    BY <2>1, SavedFrame DEF GoldenInv, Settings, Process
  <2>5. Recording'
    BY <2>1, <2>2, <2>3 DEF GoldenInv, Recording
  <2> QED BY <2>4, <2>5 DEF GoldenInv
<1> QED BY <1>1, <1>2, <1>3, <1>4, <1>5, <1>6, <1>7, <1>8, <1>9 DEF Next

\* Every golden on disk, and every entry of the index being recorded or saved, is what
\* classify_one and write_golden make of one answer of the reference it names.
THEOREM GoldensRecorded == Spec => []GoldenInv
BY GoldenInit, GoldenInduction, PTL DEF Spec

\* cmd_golden deletes index.json first and writes it last: for every corpus, reference
\* and interleaving, and however many recordings were interrupted, raised or were killed
\* at the time limit, an index.json that exists has all its goldens, of one reference.
THEOREM GoldenComplete == Spec => []GoldenIsComplete
<1>1. GoldenInv => GoldenIsComplete
  <2> SUFFICES ASSUME GoldenInv, index # None, NEW rel \in DOMAIN index.files
               PROVE  /\ rel \in DOMAIN golden
                      /\ golden[rel].version = index.reference
                      /\ golden[rel].reprint = None <=> index.files[rel].bucket = SYNTAX_BAD
    BY DEF GoldenIsComplete
  <2>1. RecordedBy(index.reference, rel, index.files[rel])
    BY DEF GoldenInv, Saved
  <2>2. Settings
    BY DEF GoldenInv
  <2> QED BY <2>1, <2>2, ReprintIffParses DEF RecordedBy
<1> QED BY <1>1, GoldensRecorded, PTL

-----------------------------------------------------------------------------
(* The inductive invariant of `run`: what each thread delivered, whatever   *)
(* the others did meanwhile, and what the main thread made of it.           *)

IsVerdict(v) ==
  \/ v = Raised
  \/ v = Verdict(v.count, v.failures, v.drift) /\ v.count \in {"passed", "failed", "skipped"}

AloneOf(args, rel) ==
  LET impl == Impl(args)
      printed == impl[corpus[rel]]["wax"]
  IN Verdicts(args, rel, impl, Reference, printed, printed.out)

FreshOf(rel) == golden[rel].text = corpus[rel] /\ golden[rel].version = version

\* What a verdict of oracle o that does not fail says of one file.
ParityOf(o, args, rel) ==
  LET ours == Impl(args)[corpus[rel]]
      theirs == Reference[corpus[rel]]
      parses == theirs["wax"].code = 0
      compiles == parses /\ theirs["wasm"].code = 0
      built == IF PolicyOf(args).route = NATIVE THEN ours["wasm"]
               ELSE Reference[ours["wax"].out]["wasm"]
  IN /\ o = 1 /\ parses => ours["wax"].code = 0 /\ ours["wax"].out = theirs["wax"].out
     /\ o = 2 /\ compiles => built.code = 0 /\ built.out = theirs["wasm"].out
     /\ o = 3 /\ (args.scope = "full" \/ ~parses) =>
          SameDiagnostics(rel, ours["check"], theirs["check"])

Delivered(args, rel, res) ==
  IF corpus[rel] = None THEN res = Ignored
  ELSE /\ DOMAIN res = args.oracles /\ \A o \in args.oracles : IsVerdict(res[o])
       /\ world.slow = {} => res = AloneOf(args, rel)
       /\ "golden" \notin world.slow /\ FreshOf(rel) =>
             \A o \in args.oracles :
                ~res[o].raised /\ res[o].count # "failed" => ParityOf(o, args, rel)

\* A printed text is still in its own file when the reference is run on it.
OnDisk(args, rel, printed) ==
  /\ corpus[rel] # None
  /\ printed \in {Impl(args)[corpus[rel]]["wax"]} \cup
                 (IF "run" \in world.slow THEN {TimedOut} ELSE {})
  /\ printed.code = 0 => MidName(rel) \in DOMAIN mid /\ mid[MidName(rel)] = printed.out

Consumed(results, m) == {i \in 1..m : results[i] # Ignored}
Counted(results, m, o, c) == Cardinality({i \in Consumed(results, m) : results[i][o].count = c})
Tally(files, results, m, o) ==
  [passed |-> Counted(results, m, o, "passed"), failed |-> Counted(results, m, o, "failed"),
   skipped |-> Counted(results, m, o, "skipped"),
   failures |-> UNION {{<<files[i], f>> : f \in results[i][o].failures} : i \in Consumed(results, m)},
   drift |-> UNION {{<<files[i], d>> : d \in results[i][o].drift} : i \in Consumed(results, m)}]

\* The threads of a run have delivered what its record p says they have.
RunState(p) ==
  /\ index # None /\ p.args \in Invocations
  /\ p.files = Selected(DOMAIN index.files) /\ p.merged \in 0..Len(p.files)
  /\ DOMAIN p.results = DOMAIN p.files /\ DOMAIN p.printed = DOMAIN p.files
  /\ \A i \in DOMAIN p.files :
        /\ p.results[i] # None => Delivered(p.args, p.files[i], p.results[i])
        /\ p.printed[i] # None => OnDisk(p.args, p.files[i], p.printed[i])
  /\ \A i \in 1..p.merged :
        /\ p.results[i] # None
        /\ p.results[i] # Ignored => \A o \in p.args.oracles : ~p.results[i][o].raised
  /\ p.total = [o \in p.args.oracles |-> Tally(p.files, p.results, p.merged, o)]

Running == IsRun(proc) => RunState(proc)

\* The totals of oracle o are those of the files graded one by one.
SequentialOf(o, args, total) ==
  /\ \A c \in {"passed", "failed", "skipped"} :
        total[c] = Cardinality({rel \in Graded : AloneOf(args, rel)[o].count = c})
  /\ total.failures = UNION {{<<rel, f>> : f \in AloneOf(args, rel)[o].failures} : rel \in Graded}
  /\ total.drift = UNION {{<<rel, d>> : d \in AloneOf(args, rel)[o].drift} : rel \in Graded}

\* What the report p of a run that ended says of the files it graded.
ReportState(p) ==
  /\ index # None /\ p.args \in Invocations
  /\ DOMAIN p.total = p.args.oracles
  /\ p.code = IF Gates(p.total) THEN 1 ELSE 0
  /\ \A o \in p.args.oracles :
        /\ p.total[o].failed \in Nat
        /\ world.slow = {} => SequentialOf(o, p.args, p.total[o])
        /\ "golden" \notin world.slow /\ p.total[o].failed = 0 =>
              \A rel \in Graded : FreshOf(rel) => ParityOf(o, p.args, rel)

Reported == (proc # Idle => outcome = NotEnded) /\ (Compared => ReportState(outcome))

RunInv == GoldenInv /\ Running /\ Reported

-----------------------------------------------------------------------------
(* Verdicts                                                                *)

LEMMA PlainVerdicts ==
  /\ IsVerdict(Passed) /\ IsVerdict(Skipped) /\ IsVerdict(Raised)
  /\ \A x, y : IsVerdict(Failure(x, y))
  /\ \A f, d : IsVerdict(Verdict("failed", f, d)) /\ IsVerdict(Verdict("passed", f, d))
BY DEF IsVerdict, Passed, Skipped, Failure, Verdict

LEMMA OneVerdicts ==
  ASSUME NEW impl, NEW ref, NEW rel, NEW t, NEW meta, NEW gold, NEW policy, NEW printed,
         NEW exempt
  PROVE  /\ IsVerdict(check_oracle1(impl, rel, t, meta, gold, policy))
         /\ IsVerdict(Oracle2Via(ref, printed, t, meta))
         /\ IsVerdict(Oracle2Native(impl, ref, t, meta))
         /\ IsVerdict(check_oracle3(impl, t, meta, gold, policy, exempt))
         /\ IsVerdict(check_oracle4(impl, ref, t, meta, policy))
<1>1. \A once : IsVerdict(_check_idempotent(impl, rel, once))
  BY PlainVerdicts DEF _check_idempotent
<1>2. IsVerdict(check_oracle1(impl, rel, t, meta, gold, policy))
  BY <1>1, PlainVerdicts DEF check_oracle1
<1>3. IsVerdict(Oracle2Via(ref, printed, t, meta))
  BY PlainVerdicts DEF Oracle2Via
<1>4. \A got, want, theirs : IsVerdict(_ladder(got, want, theirs))
  BY PlainVerdicts DEF _ladder
<1>5. IsVerdict(Oracle2Native(impl, ref, t, meta))
  BY <1>4, PlainVerdicts DEF Oracle2Native
<1>6. IsVerdict(check_oracle3(impl, t, meta, gold, policy, exempt))
  BY PlainVerdicts DEF check_oracle3
<1>7. IsVerdict(check_oracle4(impl, ref, t, meta, policy))
  BY PlainVerdicts DEF check_oracle4
<1> QED BY <1>2, <1>3, <1>5, <1>6, <1>7

LEMMA VerdictsCount ==
  ASSUME NEW args \in Invocations, NEW rel, NEW impl, NEW ref, NEW printed, NEW text2
  PROVE  LET v == Verdicts(args, rel, impl, ref, printed, text2)
         IN DOMAIN v = args.oracles /\ \A o \in args.oracles : IsVerdict(v[o])
<1> DEFINE v == Verdicts(args, rel, impl, ref, printed, text2)
           meta == index.files[rel]
           policy == PolicyOf(args)
           t == corpus[rel]
<1>1. DOMAIN v = args.oracles
  BY DEF Verdicts
<1>2. args.oracles \subseteq 1..4
  BY HarnessAssumption
<1>3. IsVerdict(check_oracle2(impl, ref, t, meta, policy))
  BY OneVerdicts, PlainVerdicts DEF check_oracle2
<1>5. ASSUME NEW o \in args.oracles PROVE IsVerdict(v[o])
  <2>1. o = 1 \/ o = 2 \/ o = 3 \/ o = 4
    BY <1>2
  <2>2. CASE o = 1
    <3>1. v[o] = check_oracle1(impl, rel, t, meta, golden[rel], policy)
      BY <2>2 DEF Verdicts
    <3> QED BY <3>1, OneVerdicts
  <2>3. CASE o = 2
    <3>1. v[o] = IF ViaReference(args, meta) THEN Oracle2Via(ref, printed, text2, meta)
                 ELSE check_oracle2(impl, ref, t, meta, policy)
      BY <2>3 DEF Verdicts
    <3> QED BY <1>3, <3>1, OneVerdicts
  <2>4. CASE o = 3
    <3>1. v[o] = check_oracle3(impl, t, meta, golden[rel], policy, rel \in SPAN_EXEMPT)
      BY <2>4 DEF Verdicts
    <3> QED BY <3>1, OneVerdicts
  <2>5. CASE o = 4
    <3>1. v[o] = check_oracle4(impl, ref, t, meta, policy)
      BY <2>5 DEF Verdicts
    <3> QED BY <3>1, OneVerdicts
  <2> QED BY <2>1, <2>2, <2>3, <2>4, <2>5
<1> QED BY <1>1, <1>5

LEMMA PolicyModes ==
  ASSUME NEW args \in Invocations, NEW meta
  PROVE  /\ meta.bucket \in {COMPILES_CLEAN, TYPE_BAD} => Mode(PolicyOf(args), meta, 1) = "match"
         /\ meta.bucket = COMPILES_CLEAN => Mode(PolicyOf(args), meta, 2) = "match"
         /\ meta.bucket = SYNTAX_BAD => Mode(PolicyOf(args), meta, 3) = "match"
         /\ args.scope = "full" /\ meta.bucket \in {COMPILES_CLEAN, TYPE_BAD} =>
               Mode(PolicyOf(args), meta, 3) = "match"
         /\ args.self_test => /\ PolicyOf(args).self_test /\ PolicyOf(args).route = NATIVE
                              /\ meta.bucket \in {SYNTAX_BAD, COMPILES_CLEAN, TYPE_BAD} =>
                                    Mode(PolicyOf(args), meta, 3) # "no-errors"
<1>1. args.scope \in {"frontEnd", "full"} /\ args.self_test \in BOOLEAN
  BY HarnessAssumption
<1> DEFINE B == {SYNTAX_BAD, COMPILES_CLEAN, TYPE_BAD}
           p == load_policy(args.scope, args.route)
<1>2. SYNTAX_BAD # COMPILES_CLEAN /\ SYNTAX_BAD # TYPE_BAD /\ COMPILES_CLEAN # TYPE_BAD
  BY DEF SYNTAX_BAD, COMPILES_CLEAN, TYPE_BAD
<1>3. p.buckets = Scopes[args.scope]
  BY DEF load_policy
<1>4. /\ DOMAIN Scopes["full"] = B /\ DOMAIN Scopes["frontEnd"] = B
      /\ Scopes["full"][SYNTAX_BAD] = <<"skip", "skip", "match", "skip">>
      /\ Scopes["full"][COMPILES_CLEAN] = <<"match", "match", "match", "match">>
      /\ Scopes["full"][TYPE_BAD] = <<"match", "skip", "match", "match">>
      /\ Scopes["frontEnd"][SYNTAX_BAD] = <<"skip", "skip", "match", "skip">>
      /\ Scopes["frontEnd"][COMPILES_CLEAN] = <<"match", "match", "no-errors", "match">>
      /\ Scopes["frontEnd"][TYPE_BAD] = <<"match", "skip", "no-errors", "skip">>
  BY <1>2 DEF Scopes, Modes
<1>5. \A b \in B : \A i \in 1..4 :
        SelfTested(p).buckets[b][i] =
          IF i = 3 /\ Scopes[args.scope][b][3] = "no-errors" THEN "skip" ELSE Scopes[args.scope][b][i]
  <2> TAKE b \in B
  <2>1. PICK x, y, z, w : Scopes[args.scope][b] = <<x, y, z, w>>
    BY <1>1, <1>4
  <2>2. SelfTested(p).buckets[b] =
          [Scopes[args.scope][b] EXCEPT ![3] = IF @ = "no-errors" THEN "skip" ELSE @]
    BY <1>1, <1>3, <1>4 DEF SelfTested
  <2> QED BY <2>1, <2>2
<1>6. SelfTested(p).self_test /\ SelfTested(p).route = NATIVE
  BY DEF SelfTested
<1>7. PolicyOf(args) = IF args.self_test THEN SelfTested(p) ELSE p
  BY DEF PolicyOf
<1> HIDE DEF p
<1>8. \A b \in B : \A i \in 1..4 :
        PolicyOf(args).buckets[b][i] =
          IF args.self_test /\ i = 3 /\ Scopes[args.scope][b][3] = "no-errors" THEN "skip"
          ELSE Scopes[args.scope][b][i]
  BY <1>3, <1>5, <1>7
<1>9. PICK b : b = meta.bucket
  OBVIOUS
<1>10. \A i : Mode(PolicyOf(args), meta, i) = PolicyOf(args).buckets[b][i]
  BY <1>9 DEF Mode
<1>11. \A s \in {"frontEnd", "full"} :
         /\ b \in {COMPILES_CLEAN, TYPE_BAD} => Scopes[s][b][1] = "match"
         /\ b = COMPILES_CLEAN => Scopes[s][b][2] = "match"
         /\ b = SYNTAX_BAD => Scopes[s][b][3] = "match"
         /\ s = "full" /\ b \in {COMPILES_CLEAN, TYPE_BAD} => Scopes[s][b][3] = "match"
         /\ b \in B => Scopes[s][b][3] \in {"match", "no-errors"}
  BY <1>4
<1> QED BY <1>1, <1>6, <1>7, <1>8, <1>9, <1>10, <1>11, SMTT(60)

\* What the goldens of a fresh file say of the reference, if none of its runs was killed.
LEMMA FreshGolden ==
  ASSUME GoldenInv, index # None, NEW rel \in DOMAIN index.files, corpus[rel] # None,
         FreshOf(rel), "golden" \notin world.slow
  PROVE  LET theirs == Reference[corpus[rel]]
             meta == index.files[rel]
             parses == theirs["wax"].code = 0
             compiles == parses /\ theirs["wasm"].code = 0
         IN /\ corpus[rel] \in Texts /\ IsImplementation(Reference)
            /\ theirs["check"].err.json
            /\ meta.bucket = IF ~parses THEN SYNTAX_BAD
                             ELSE IF compiles THEN COMPILES_CLEAN ELSE TYPE_BAD
            /\ meta.diag_code = theirs["check"].code
            /\ meta.wasm_sha256 = IF compiles THEN sha256(theirs["wasm"].out) ELSE None
            /\ golden[rel].reprint = IF parses THEN theirs["wax"].out ELSE None
            /\ (IF golden[rel].diag = None THEN <<>> ELSE golden[rel].diag)
                  = theirs["check"].err.diags
<1> DEFINE t == corpus[rel]
           theirs == Reference[t]
           meta == index.files[rel]
           s == Stamp(Reference, "recorded")[t]
<1>1. RecordedBy(version, rel, meta)
  <2>1. RecordedBy(index.reference, rel, meta)
    BY DEF GoldenInv, Saved
  <2> QED BY <2>1 DEF RecordedBy, FreshOf
<1>2. t \in Texts /\ IsImplementation(Reference)
  BY <1>1, References DEF RecordedBy, FreshOf, GoldenInv, Settings, Reference
<1>3. PICK res : /\ res = classify_one(s) /\ ~GoldenRaises(res) /\ meta = IndexEntry(res)
                 /\ golden[rel].reprint = write_golden(res).reprint
                 /\ golden[rel].diag = write_golden(res).diag
  <2>1. PICK res \in Classified(version, t) :
          /\ ~GoldenRaises(res) /\ meta = IndexEntry(res)
          /\ golden[rel].reprint = write_golden(res).reprint
          /\ golden[rel].diag = write_golden(res).diag
    BY <1>1 DEF RecordedBy, FreshOf
  <2>2. res = classify_one(Killed(s, {}))
    BY <2>1 DEF Classified, Reference
  <2>3. DOMAIN Stamp(Reference, "recorded") = Texts /\ Answered(s)
    <3>1. "wax" \in Commands
      BY DEF Commands
    <3> QED BY <1>2, <3>1, StampedAnswers
  <2>4. Killed(s, {}) = s
    BY <1>2, <2>3, TimeLimit
  <2> QED BY <2>1, <2>2, <2>4
<1>4. "wax" \in Commands /\ "wasm" \in Commands /\ "check" \in Commands
  BY DEF Commands
<1>5. \A c \in Commands :
        /\ s[c].code = theirs[c].code /\ s[c].out = theirs[c].out
        /\ s[c].err.json = theirs[c].err.json /\ theirs[c].err.diags \in Seq(Diagnostic)
        /\ Normalized(s[c].err.diags) = theirs[c].err.diags
  BY <1>2, NormalizedAnswers
<1> HIDE DEF s, theirs, meta, t
<1>6. /\ meta.bucket = res.bucket /\ meta.diag_code = res.diag_code
      /\ meta.wasm_sha256 = res.wasm_sha256
  BY <1>3 DEF IndexEntry
<1>7. /\ res.bucket = IF s["wax"].code # 0 THEN SYNTAX_BAD
                      ELSE IF s["wasm"].code = 0 THEN COMPILES_CLEAN ELSE TYPE_BAD
      /\ res.diag_code = s["check"].code /\ res.diagnostics = s["check"].err
      /\ res.reprint = IF s["wax"].code = 0 THEN s["wax"].out ELSE None
      /\ res.wasm_sha256 = IF s["wax"].code = 0 /\ s["wasm"].code = 0
                           THEN sha256(s["wasm"].out) ELSE None
  BY <1>3 DEF classify_one
<1>8. theirs["check"].err.json
  BY <1>3, <1>4, <1>5, <1>7 DEF GoldenRaises
<1>9. golden[rel].reprint = res.reprint
      /\ golden[rel].diag = IF s["check"].err = NoDiagnostics THEN None
                            ELSE Normalized(s["check"].err.diags)
  BY <1>3, <1>7 DEF write_golden
<1>10. (IF golden[rel].diag = None THEN <<>> ELSE golden[rel].diag) = theirs["check"].err.diags
  <2>1. CASE s["check"].err = NoDiagnostics
    <3>1. s["check"].err.diags = <<>>
      BY <2>1 DEF NoDiagnostics
    <3>2. Normalized(<<>>) = <<>>
      BY EmptyDictionary DEF Normalized
    <3> QED BY <1>4, <1>5, <1>9, <2>1, <3>1, <3>2
  <2>2. CASE s["check"].err # NoDiagnostics
    <3>1. Normalized(s["check"].err.diags) # None
      <4>1. None \notin Seq(Diagnostic)
        BY HarnessAssumption
      <4>2. Normalized(s["check"].err.diags) \in Seq(Diagnostic)
        BY <1>4, <1>5, Zenon
      <4> QED BY <4>1, <4>2
    <3> QED BY <1>4, <1>5, <1>9, <2>2, <3>1
  <2> QED BY <2>1, <2>2
<1>11. /\ meta.bucket = IF ~(theirs["wax"].code = 0) THEN SYNTAX_BAD
                        ELSE IF theirs["wax"].code = 0 /\ theirs["wasm"].code = 0
                             THEN COMPILES_CLEAN ELSE TYPE_BAD
       /\ meta.diag_code = theirs["check"].code
       /\ meta.wasm_sha256 = IF theirs["wax"].code = 0 /\ theirs["wasm"].code = 0
                             THEN sha256(theirs["wasm"].out) ELSE None
       /\ golden[rel].reprint = IF theirs["wax"].code = 0 THEN theirs["wax"].out ELSE None
  BY <1>4, <1>5, <1>6, <1>7, <1>9
<1> QED BY <1>2, <1>8, <1>10, <1>11 DEF theirs, meta, t

\* The implementation that is compared, before its diagnostics name a checkout.
Base(args) == IF args.self_test \/ args.impl = "reference" THEN Reference ELSE world.ours

\* What it answers within the time limit is what it answers.
LEMMA ComparedAnswers ==
  ASSUME Settings, NEW args \in Invocations, NEW t \in Texts, NEW slow, NEW c \in Commands
  PROVE  /\ IsImplementation(Base(args)) /\ Impl(args) = Stamp(Base(args), "here")
         /\ t \in DOMAIN Impl(args) /\ Answered(Impl(args)[t])
         /\ WithTimeouts(Impl(args), slow)[t][c] \in {Impl(args)[t][c], TimedOut}
         /\ slow = {} => WithTimeouts(Impl(args), slow)[t][c] = Impl(args)[t][c]
<1>1. IsImplementation(Base(args))
  BY References DEF Base, Reference, Settings
<1>2. Impl(args) = Stamp(Base(args), "here")
  BY DEF Impl, Base
<1>3. DOMAIN Impl(args) = Texts /\ Answered(Impl(args)[t])
  BY <1>1, <1>2, StampedAnswers, ZenonT(60)
<1> DEFINE k == {d \in Commands : <<t, d>> \in slow}
<1>4. /\ WithTimeouts(Impl(args), slow)[t] = Killed(Impl(args)[t], k)
      /\ \A q : Killed(Impl(args)[t], q)[c] \in {Impl(args)[t][c], TimedOut}
      /\ Killed(Impl(args)[t], {}) = Impl(args)[t]
  BY <1>3, TimeLimit
<1>5. slow = {} => k = {}
  OBVIOUS
<1> HIDE DEF k
<1> QED BY <1>1, <1>2, <1>3, <1>4, <1>5

LEMMA ComparedDiagnostics ==
  ASSUME Settings, NEW args \in Invocations, NEW t \in Texts, NEW c \in Commands
  PROVE  LET ours == Impl(args)[t][c]
             raw == Base(args)[t][c]
         IN /\ ours.code = raw.code /\ ours.out = raw.out /\ ours.err.json = raw.err.json
            /\ DOMAIN ours.err.diags = DOMAIN raw.err.diags /\ raw.err.diags \in Seq(Diagnostic)
            /\ Normalized(ours.err.diags) = raw.err.diags
            /\ \A i \in DOMAIN raw.err.diags : \A f \in (GATED \cup REPORTED) \ {"file"} :
                  ours.err.diags[i][f] = raw.err.diags[i][f]
            /\ ours.err.diags = AllStamped(raw.err.diags, "here")
<1>1. IsImplementation(Base(args)) /\ Impl(args) = Stamp(Base(args), "here")
  BY ComparedAnswers
<1> DEFINE ours == Impl(args)[t][c]
           raw == Base(args)[t][c]
<1>2. ours = [code |-> raw.code, out |-> raw.out,
              err |-> [json |-> raw.err.json, diags |-> AllStamped(raw.err.diags, "here")]]
  BY <1>1, StampedAnswers
<1>3. raw.err.diags \in Seq(Diagnostic)
  BY <1>1, Answers
<1>4. Normalized(AllStamped(raw.err.diags, "here")) = raw.err.diags
  BY <1>3, NormalizedAll
<1>5. \A i \in DOMAIN raw.err.diags : \A f \in (GATED \cup REPORTED) \ {"file"} :
        Stamped(raw.err.diags[i], "here")[f] = raw.err.diags[i][f]
  <2>1. \A i \in DOMAIN raw.err.diags : raw.err.diags[i] \in Diagnostic
    BY <1>3
  <2> QED BY <2>1, StampedDiagnostic
<1> HIDE DEF ours, raw
<1>6. /\ DOMAIN ours.err.diags = DOMAIN raw.err.diags
      /\ \A i \in DOMAIN raw.err.diags : \A f \in (GATED \cup REPORTED) \ {"file"} :
            ours.err.diags[i][f] = raw.err.diags[i][f]
  BY <1>2, <1>5 DEF AllStamped
<1> QED BY <1>2, <1>3, <1>4, <1>6 DEF ours, raw

LEMMA ReferenceAnswers ==
  ASSUME Settings, NEW t \in Texts, NEW slow, NEW c \in Commands
  PROVE  /\ WithTimeouts(Reference, slow)[t][c] \in {Reference[t][c], TimedOut}
         /\ slow = {} => WithTimeouts(Reference, slow)[t][c] = Reference[t][c]
<1>1. IsImplementation(Reference)
  BY References DEF Reference, Settings
<1>2. t \in DOMAIN Reference /\ Answered(Reference[t])
  BY <1>1, Answers
<1> DEFINE k == {d \in Commands : <<t, d>> \in slow}
<1>3. /\ WithTimeouts(Reference, slow)[t] = Killed(Reference[t], k)
      /\ \A q : Killed(Reference[t], q)[c] \in {Reference[t][c], TimedOut}
      /\ Killed(Reference[t], {}) = Reference[t]
  BY <1>2, TimeLimit
<1>4. slow = {} => k = {}
  OBVIOUS
<1> HIDE DEF k
<1> QED BY <1>3, <1>4

\* A verdict that is not a failure, however the runs of this file were interrupted.
Clean(v) == ~v.raised /\ v.count # "failed"

LEMMA CleanVerdicts ==
  /\ Clean(Passed) /\ Clean(Skipped) /\ ~Clean(Raised)
  /\ \A x, y : ~Clean(Failure(x, y))
  /\ \A f, d : ~Clean(Verdict("failed", f, d)) /\ Clean(Verdict("passed", f, d))
BY DEF Clean, Passed, Skipped, Raised, Failure, Verdict

LEMMA ReprintParity ==
  ASSUME GoldenInv, index # None, NEW rel \in DOMAIN index.files, corpus[rel] # None,
         FreshOf(rel), "golden" \notin world.slow, NEW args \in Invocations, NEW slow,
         Clean(check_oracle1(WithTimeouts(Impl(args), slow), rel, corpus[rel],
                             index.files[rel], golden[rel], PolicyOf(args)))
  PROVE  ParityOf(1, args, rel)
<1> DEFINE t == corpus[rel]
           meta == index.files[rel]
           theirs == Reference[t]
           impl == WithTimeouts(Impl(args), slow)
           got == impl[t]["wax"]
<1>1. /\ t \in Texts /\ Settings
      /\ meta.bucket = IF theirs["wax"].code # 0 THEN SYNTAX_BAD
                       ELSE IF theirs["wax"].code = 0 /\ theirs["wasm"].code = 0
                       THEN COMPILES_CLEAN ELSE TYPE_BAD
      /\ golden[rel].reprint = IF theirs["wax"].code = 0 THEN theirs["wax"].out ELSE None
  BY FreshGolden DEF GoldenInv
<1>2. got \in {Impl(args)[t]["wax"], TimedOut}
  <2>1. "wax" \in Commands
    BY DEF Commands
  <2> QED BY <1>1, <2>1, ComparedAnswers
<1>3. ASSUME theirs["wax"].code = 0
      PROVE  Impl(args)[t]["wax"].code = 0 /\ Impl(args)[t]["wax"].out = theirs["wax"].out
  <2>1. theirs["wax"].out # None
    <3>1. "wax" \in Commands /\ IsImplementation(Reference)
      BY FreshGolden DEF Commands
    <3>2. theirs["wax"].out \in Texts
      BY <1>1, <1>3, <3>1, Answers
    <3> QED BY <1>1, <3>2, References
  <2>2. Mode(PolicyOf(args), meta, 1) # "skip" /\ golden[rel].reprint # None
    BY <1>1, <1>3, <2>1, PolicyModes
  <2>3. got.code = 0 /\ got.out = golden[rel].reprint
    BY <2>2, CleanVerdicts DEF check_oracle1
  <2> QED BY <1>1, <1>2, <1>3, <2>3 DEF TimedOut
<1> QED BY <1>3 DEF ParityOf

LEMMA DiagnosticParity ==
  ASSUME GoldenInv, index # None, NEW rel \in DOMAIN index.files, corpus[rel] # None,
         FreshOf(rel), "golden" \notin world.slow, NEW args \in Invocations, NEW slow,
         Clean(check_oracle3(WithTimeouts(Impl(args), slow), corpus[rel],
                             index.files[rel], golden[rel], PolicyOf(args), rel \in SPAN_EXEMPT))
  PROVE  ParityOf(3, args, rel)
<1> DEFINE t == corpus[rel]
           meta == index.files[rel]
           theirs == Reference[t]
           impl == WithTimeouts(Impl(args), slow)
           run == impl[t]["check"]
           ours == Impl(args)[t]["check"]
           raw == Base(args)[t]["check"]
           want == theirs["check"].err.diags
           got == Normalized(run.err.diags)
<1>1. /\ t \in Texts /\ Settings /\ IsImplementation(Reference)
      /\ meta.bucket = IF theirs["wax"].code # 0 THEN SYNTAX_BAD
                       ELSE IF theirs["wax"].code = 0 /\ theirs["wasm"].code = 0
                       THEN COMPILES_CLEAN ELSE TYPE_BAD
      /\ meta.diag_code = theirs["check"].code
      /\ (IF golden[rel].diag = None THEN <<>> ELSE golden[rel].diag) = want
  BY FreshGolden DEF GoldenInv
<1>2. "check" \in Commands
  BY DEF Commands
<1>3. /\ run \in {ours, TimedOut} /\ Impl(args) = Stamp(Base(args), "here")
      /\ IsImplementation(Base(args))
  BY <1>1, <1>2, ComparedAnswers, Zenon
<1>4. /\ ours.code = raw.code /\ ours.err.json = raw.err.json
      /\ ours.err.diags = AllStamped(raw.err.diags, "here")
      /\ DOMAIN ours.err.diags = DOMAIN raw.err.diags
      /\ raw.err.diags \in Seq(Diagnostic) /\ Normalized(ours.err.diags) = raw.err.diags
      /\ \A i \in DOMAIN raw.err.diags : \A f \in (GATED \cup REPORTED) \ {"file"} :
            ours.err.diags[i][f] = raw.err.diags[i][f]
  <2>1. PICK c \in Commands : c = "check"
    BY <1>2
  <2>2. LET o == Impl(args)[t][c]
            r == Base(args)[t][c]
        IN /\ o.code = r.code /\ o.err.json = r.err.json
           /\ DOMAIN o.err.diags = DOMAIN r.err.diags /\ r.err.diags \in Seq(Diagnostic)
           /\ Normalized(o.err.diags) = r.err.diags
           /\ \A i \in DOMAIN r.err.diags : \A f \in (GATED \cup REPORTED) \ {"file"} :
                 o.err.diags[i][f] = r.err.diags[i][f]
           /\ o.err.diags = AllStamped(r.err.diags, "here")
    BY <1>1, ComparedDiagnostics, SMTT(60)
  <2> QED BY <2>1, <2>2, ZenonT(60)
<1>5. want \in Seq(Diagnostic)
  BY <1>1, <1>2, Answers
<1>6. ASSUME args.scope = "full" \/ theirs["wax"].code # 0
      PROVE  SameDiagnostics(rel, ours, theirs["check"])
  <2>1. Mode(PolicyOf(args), meta, 3) = "match"
    BY <1>1, <1>6, PolicyModes, Zenon
  <2> HIDE DEF run, ours, raw, want, theirs, meta, t
  <2>2. /\ run.err.json /\ run.code = meta.diag_code /\ Len(got) = Len(want)
        /\ \A d \in GatedDifferences(want, got) : Excusable(rel \in SPAN_EXEMPT, d)
    <3>1. Clean(check_oracle3(impl, t, meta, golden[rel], PolicyOf(args), rel \in SPAN_EXEMPT))
      BY DEF t, meta
    <3>2. Mode(PolicyOf(args), meta, 3) # "skip" /\ Mode(PolicyOf(args), meta, 3) # "no-errors"
      BY <2>1
    <3> HIDE DEF impl
    <3> QED BY <1>1, <3>1, <3>2, CleanVerdicts, Zenon DEF check_oracle3, run, impl
  <2>3. run = ours
    BY <1>3, <2>2 DEF TimedOut, NotJson
  <2>4. got = raw.err.diags
    BY <1>4, <2>3
  <2>5. Len(ours.err.diags) = Len(want)
    <3>1. DOMAIN ours.err.diags = 1..Len(want)
      BY <1>4, <1>5, <2>2, <2>4
    <3>2. ours.err.diags \in Seq(Range(ours.err.diags)) => Len(ours.err.diags) = Len(want)
      BY <1>5, <3>1
    <3>3. ours.err.diags = [i \in DOMAIN ours.err.diags |-> ours.err.diags[i]]
      BY <1>4 DEF AllStamped
    <3>4. Len(want) \in Nat
      BY <1>5
    <3>5. ours.err.diags \in Seq(Range(ours.err.diags))
      BY <3>1, <3>3, <3>4 DEF Range
    <3> QED BY <3>2, <3>5
  <2>6. ASSUME NEW i \in DOMAIN ours.err.diags, NEW f \in GATED \ {"file"}
        PROVE  \/ ours.err.diags[i][f] = want[i][f]
               \/ rel \in SPAN_EXEMPT /\ f \in SPAN_FIELDS
    <3>1. ours.err.diags[i][f] = got[i][f]
      BY <1>4, <2>4, <2>6
    <3>2. i \in DOMAIN want
      BY <1>4, <1>5, <2>2, <2>4
    <3>3. CASE want[i][f] # got[i][f]
      <4>1. <<i, f>> \in GatedDifferences(want, got)
        BY <3>2, <3>3, <2>6 DEF GatedDifferences
      <4> QED BY <2>2, <4>1 DEF Excusable
    <3> QED BY <3>1, <3>3
  <2>7. ours.err.json /\ ours.code = theirs["check"].code
    BY <1>1, <2>2, <2>3
  <2> QED BY <2>5, <2>6, <2>7 DEF SameDiagnostics, want
<1> QED BY <1>6 DEF ParityOf

LEMMA Printed ==
  ASSUME Settings, NEW args \in Invocations, NEW t \in Texts, Impl(args)[t]["wax"].code = 0
  PROVE  Impl(args)[t]["wax"].out \in Texts
<1>1. PICK c \in Commands : c = "wax"
  BY DEF Commands
<1>2. Impl(args)[t][c].code = Base(args)[t][c].code /\ Impl(args)[t][c].out = Base(args)[t][c].out
  BY ComparedDiagnostics
<1>3. IsImplementation(Base(args))
  BY <1>1, ComparedAnswers
<1>4. Base(args)[t]["wax"].code = 0 => Base(args)[t]["wax"].out \in Texts
  BY <1>1, <1>3, Answers
<1> QED BY <1>1, <1>2, <1>4

LEMMA BinaryParity ==
  ASSUME GoldenInv, index # None, NEW rel \in DOMAIN index.files, corpus[rel] # None,
         FreshOf(rel), "golden" \notin world.slow, NEW args \in Invocations, 2 \in args.oracles,
         NEW slow, NEW slowRef, NEW printed, NEW text2,
         ViaReference(args, index.files[rel]) =>
            /\ printed \in {Impl(args)[corpus[rel]]["wax"], TimedOut}
            /\ printed.code = 0 => text2 = printed.out,
         Clean(IF ViaReference(args, index.files[rel])
               THEN Oracle2Via(WithTimeouts(Reference, slowRef), printed, text2, index.files[rel])
               ELSE check_oracle2(WithTimeouts(Impl(args), slow), WithTimeouts(Reference, slowRef),
                                  corpus[rel], index.files[rel], PolicyOf(args)))
  PROVE  ParityOf(2, args, rel)
<1> DEFINE t == corpus[rel]
           meta == index.files[rel]
           theirs == Reference[t]
           ours == Impl(args)[t]
           impl == WithTimeouts(Impl(args), slow)
           ref == WithTimeouts(Reference, slowRef)
<1>1. /\ t \in Texts /\ Settings /\ IsImplementation(Reference)
      /\ meta.bucket = IF theirs["wax"].code # 0 THEN SYNTAX_BAD
                       ELSE IF theirs["wax"].code = 0 /\ theirs["wasm"].code = 0
                       THEN COMPILES_CLEAN ELSE TYPE_BAD
      /\ meta.wasm_sha256 = IF theirs["wax"].code = 0 /\ theirs["wasm"].code = 0
                            THEN sha256(theirs["wasm"].out) ELSE None
  BY FreshGolden DEF GoldenInv
<1>2. "wax" \in Commands /\ "wasm" \in Commands
  BY DEF Commands
<1>3. \A x, y : sha256(x) = sha256(y) => x = y
  BY DEF sha256
<1>4. TimedOut.code # 0
  BY DEF TimedOut
<1> SUFFICES ASSUME theirs["wax"].code = 0, theirs["wasm"].code = 0
             PROVE  IF PolicyOf(args).route = NATIVE
                    THEN ours["wasm"].code = 0 /\ ours["wasm"].out = theirs["wasm"].out
                    ELSE /\ Reference[ours["wax"].out]["wasm"].code = 0
                         /\ Reference[ours["wax"].out]["wasm"].out = theirs["wasm"].out
  BY DEF ParityOf
<1>5. meta.wasm_sha256 = sha256(theirs["wasm"].out) /\ meta.wasm_sha256 # None
  <2>1. sha256(theirs["wasm"].out) # None
    BY <1>1, <1>2, Answers
  <2> QED BY <1>1, <2>1
<1>6. ~Oracle2Skips(meta, PolicyOf(args))
  <2>1. Mode(PolicyOf(args), meta, 2) = "match"
    BY <1>1, PolicyModes
  <2> QED BY <1>5, <2>1 DEF Oracle2Skips
<1>7. CASE PolicyOf(args).route = NATIVE
  <2>1. ~ViaReference(args, meta)
    BY <1>7 DEF ViaReference, NATIVE, VIA_REFERENCE
  <2>2. Clean(Oracle2Native(impl, ref, t, meta))
    BY <1>6, <1>7, <2>1 DEF check_oracle2
  <2>3. impl[t]["wasm"].code = 0 /\ sha256(impl[t]["wasm"].out) = meta.wasm_sha256
    <3> HIDE DEF impl, ref, t, meta
    <3> QED BY <2>2, CleanVerdicts DEF Oracle2Native, _ladder
  <2>4. impl[t]["wasm"] \in {ours["wasm"], TimedOut}
    BY <1>1, <1>2, ComparedAnswers
  <2>5. impl[t]["wasm"] = ours["wasm"]
    BY <1>4, <2>3, <2>4
  <2> HIDE DEF impl, ref, t, meta
  <2> QED BY <1>3, <1>5, <1>7, <2>3, <2>5
<1>8. CASE PolicyOf(args).route # NATIVE
  <2>1. PolicyOf(args).route = VIA_REFERENCE
    <3>1. args.route \in {NATIVE, VIA_REFERENCE}
      BY HarnessAssumption
    <3> QED BY <1>8, <3>1 DEF PolicyOf, SelfTested, load_policy
  <2>2. ViaReference(args, meta)
    BY <1>6, <2>1 DEF ViaReference
  <2>3. Clean(Oracle2Via(ref, printed, text2, meta))
    BY <2>2
  <2>4. /\ printed.code = 0 /\ ref[text2]["wasm"].code = 0
        /\ sha256(ref[text2]["wasm"].out) = meta.wasm_sha256
    <3> HIDE DEF ref, meta
    <3> QED BY <2>3, CleanVerdicts DEF Oracle2Via
  <2>5. printed = ours["wax"] /\ text2 = ours["wax"].out
    BY <1>4, <2>2, <2>4
  <2>6. text2 \in Texts
    BY <1>1, <2>4, <2>5, Printed
  <2>7. ref[text2]["wasm"] \in {Reference[text2]["wasm"], TimedOut}
    BY <1>1, <1>2, <2>6, ReferenceAnswers
  <2>8. ref[text2]["wasm"] = Reference[text2]["wasm"]
    BY <1>4, <2>4, <2>7
  <2> HIDE DEF impl, ref, t, meta
  <2> QED BY <1>3, <1>5, <1>8, <2>4, <2>5, <2>8
<1> QED BY <1>7, <1>8

\* A verdict that is not a failure means parity, whatever the time limit cut short in
\* `run`: a lost answer never reads as a pass.
LEMMA VerdictParity ==
  ASSUME GoldenInv, index # None, NEW rel \in DOMAIN index.files, corpus[rel] # None,
         FreshOf(rel), "golden" \notin world.slow, NEW args \in Invocations,
         NEW slow, NEW slowRef, NEW printed, NEW text2,
         ViaReference(args, index.files[rel]) =>
            /\ printed \in {Impl(args)[corpus[rel]]["wax"], TimedOut}
            /\ printed.code = 0 => text2 = printed.out,
         NEW o \in args.oracles,
         Clean(Verdicts(args, rel, WithTimeouts(Impl(args), slow), WithTimeouts(Reference, slowRef),
                        printed, text2)[o])
  PROVE  ParityOf(o, args, rel)
<1> DEFINE impl == WithTimeouts(Impl(args), slow)
           ref == WithTimeouts(Reference, slowRef)
           v == Verdicts(args, rel, impl, ref, printed, text2)
<1>1. o = 1 \/ o = 2 \/ o = 3 \/ o = 4
  BY HarnessAssumption
<1>2. CASE o = 1
  <2>1. v[o] = check_oracle1(impl, rel, corpus[rel], index.files[rel], golden[rel], PolicyOf(args))
    BY <1>2 DEF Verdicts
  <2> QED BY <1>2, <2>1, ReprintParity
<1>3. CASE o = 2
  <2>1. v[o] = IF ViaReference(args, index.files[rel])
               THEN Oracle2Via(ref, printed, text2, index.files[rel])
               ELSE check_oracle2(impl, ref, corpus[rel], index.files[rel], PolicyOf(args))
    BY <1>3 DEF Verdicts
  <2> QED BY <1>3, <2>1, BinaryParity
<1>4. CASE o = 3
  <2>1. v[o] = check_oracle3(impl, corpus[rel], index.files[rel], golden[rel], PolicyOf(args),
                             rel \in SPAN_EXEMPT)
    BY <1>4 DEF Verdicts
  <2> QED BY <1>4, <2>1, DiagnosticParity
<1>5. CASE o = 4
  BY <1>5 DEF ParityOf
<1> QED BY <1>1, <1>2, <1>3, <1>4, <1>5

\* Without time limits the verdicts on a file are those of grading it alone.
LEMMA VerdictsAlone ==
  ASSUME Settings, NEW rel, corpus[rel] \in Texts, NEW args \in Invocations,
         NEW printed, NEW text2,
         ViaReference(args, index.files[rel]) =>
            /\ printed = Impl(args)[corpus[rel]]["wax"]
            /\ printed.code = 0 => text2 = printed.out
  PROVE  Verdicts(args, rel, WithTimeouts(Impl(args), {}), WithTimeouts(Reference, {}), printed, text2)
            = AloneOf(args, rel)
<1>1. WithTimeouts(Impl(args), {}) = Impl(args)
  BY Zenon DEF WithTimeouts, Impl, Stamp
<1>2. WithTimeouts(Reference, {}) = Reference
  <2>1. IsImplementation(Reference)
    BY References DEF Reference, Settings
  <2> QED BY <2>1 DEF WithTimeouts, IsImplementation
<1> DEFINE p == Impl(args)[corpus[rel]]["wax"]
           meta == index.files[rel]
           L == Verdicts(args, rel, Impl(args), Reference, printed, text2)
           R == Verdicts(args, rel, Impl(args), Reference, p, p.out)
<1>3. ViaReference(args, meta) =>
        Oracle2Via(Reference, printed, text2, meta) = Oracle2Via(Reference, p, p.out, meta)
  BY DEF Oracle2Via
<1>4. L = R
  BY <1>3 DEF Verdicts
<1> QED BY <1>1, <1>2, <1>4, Zenon DEF AloneOf

-----------------------------------------------------------------------------
(* The totals                                                              *)

LEMMA CountedFinite ==
  ASSUME NEW results, NEW m \in Nat, NEW o, NEW c
  PROVE  /\ IsFiniteSet({i \in Consumed(results, m) : results[i][o].count = c})
         /\ Counted(results, m, o, c) \in Nat
<1>1. IsFiniteSet(1..m)
  BY FS_Interval
<1>2. {i \in Consumed(results, m) : results[i][o].count = c} \in SUBSET (1..m)
  BY DEF Consumed
<1> QED BY <1>1, <1>2, FS_Subset, FS_CardinalityType DEF Counted

LEMMA ConsumedNext ==
  ASSUME NEW results, NEW m \in Nat
  PROVE  Consumed(results, m + 1) =
           Consumed(results, m) \cup (IF results[m + 1] # Ignored THEN {m + 1} ELSE {})
<1>1. 1..(m + 1) = (1..m) \cup {m + 1}
  OBVIOUS
<1> QED BY <1>1 DEF Consumed

LEMMA CountedNext ==
  ASSUME NEW results, NEW m \in Nat, NEW o, NEW c
  PROVE  Counted(results, m + 1, o, c) =
           Counted(results, m, o, c) +
             IF results[m + 1] # Ignored /\ results[m + 1][o].count = c THEN 1 ELSE 0
<1> DEFINE S == {i \in Consumed(results, m) : results[i][o].count = c}
           T == {i \in Consumed(results, m + 1) : results[i][o].count = c}
<1>1. IsFiniteSet(S) /\ Cardinality(S) \in Nat /\ m + 1 \notin S
  <2>1. IsFiniteSet(S)
    <3>1. IsFiniteSet(1..m) /\ S \in SUBSET (1..m)
      BY FS_Interval DEF Consumed
    <3> QED BY <3>1, FS_Subset
  <2>2. m + 1 \notin S
    BY DEF Consumed
  <2> QED BY <2>1, <2>2, FS_CardinalityType
<1>2. T = IF results[m + 1] # Ignored /\ results[m + 1][o].count = c THEN S \cup {m + 1} ELSE S
  BY ConsumedNext
<1>3. Cardinality(S \cup {m + 1}) = Cardinality(S) + 1
  BY <1>1, FS_AddElement
<1> HIDE DEF S, T
<1>4. Cardinality(T) = Cardinality(S) +
        IF results[m + 1] # Ignored /\ results[m + 1][o].count = c THEN 1 ELSE 0
  BY <1>1, <1>2, <1>3
<1> QED BY <1>4 DEF S, T, Counted

LEMMA TallySkip ==
  ASSUME NEW files, NEW results, NEW m \in Nat, NEW o, results[m + 1] = Ignored
  PROVE  Tally(files, results, m + 1, o) = Tally(files, results, m, o)
<1>1. Consumed(results, m + 1) = Consumed(results, m) \cup {}
  BY ConsumedNext
<1> QED BY <1>1 DEF Tally, Counted

\* The record that Added makes, field by field.
Adds(v, c) == IF v.count = c THEN 1 ELSE 0
IsTotal(T) ==
  /\ T = [passed |-> T.passed, failed |-> T.failed, skipped |-> T.skipped,
          failures |-> T.failures, drift |-> T.drift]
  /\ T.passed \in Nat /\ T.failed \in Nat /\ T.skipped \in Nat

WithVerdict(T, rel, v) ==
  [passed |-> T.passed + Adds(v, "passed"), failed |-> T.failed + Adds(v, "failed"),
   skipped |-> T.skipped + Adds(v, "skipped"),
   failures |-> T.failures \cup {<<rel, f>> : f \in v.failures},
   drift |-> T.drift \cup {<<rel, d>> : d \in v.drift}]

LEMMA AddedFields ==
  ASSUME NEW T, IsTotal(T), NEW rel, NEW v, v.count \in {"passed", "failed", "skipped"}
  PROVE  Added(T, rel, v) = WithVerdict(T, rel, v)
<1>1. PICK p \in Nat, f \in Nat, s \in Nat : p = T.passed /\ f = T.failed /\ s = T.skipped
  BY DEF IsTotal
<1>2. PICK fs, ds : fs = T.failures /\ ds = T.drift
  OBVIOUS
<1>3. T = [passed |-> p, failed |-> f, skipped |-> s, failures |-> fs, drift |-> ds]
  BY <1>1, <1>2 DEF IsTotal
<1>4. PICK vf, vd : vf = {<<rel, x>> : x \in v.failures} /\ vd = {<<rel, x>> : x \in v.drift}
  OBVIOUS
<1>5. PICK i, j, k : i = p + Adds(v, "passed") /\ j = f + Adds(v, "failed")
                     /\ k = s + Adds(v, "skipped")
  OBVIOUS
<1>6. PICK a : a = Added(T, rel, v)
  OBVIOUS
<1>7. a = [T EXCEPT !.failures = @ \cup vf, !.drift = @ \cup vd, ![v.count] = @ + 1]
  BY <1>4, <1>6 DEF Added
<1>8. ASSUME v.count = "passed"
      PROVE  a = [passed |-> i, failed |-> j, skipped |-> k, failures |-> fs \cup vf,
                  drift |-> ds \cup vd]
  <2>1. a = [T EXCEPT !.failures = @ \cup vf, !.drift = @ \cup vd, !.passed = @ + 1]
    BY <1>7, <1>8
  <2>2. a = [passed |-> p + 1, failed |-> f, skipped |-> s, failures |-> fs \cup vf,
             drift |-> ds \cup vd]
    BY <1>3, <2>1
  <2>3. i = p + 1 /\ j = f /\ k = s
    BY <1>5, <1>8 DEF Adds
  <2> QED BY <2>2, <2>3
<1>9. ASSUME v.count = "failed"
      PROVE  a = [passed |-> i, failed |-> j, skipped |-> k, failures |-> fs \cup vf,
                  drift |-> ds \cup vd]
  <2>1. a = [T EXCEPT !.failures = @ \cup vf, !.drift = @ \cup vd, !.failed = @ + 1]
    BY <1>7, <1>9
  <2>2. a = [passed |-> p, failed |-> f + 1, skipped |-> s, failures |-> fs \cup vf,
             drift |-> ds \cup vd]
    BY <1>3, <2>1
  <2>3. i = p /\ j = f + 1 /\ k = s
    BY <1>5, <1>9 DEF Adds
  <2> QED BY <2>2, <2>3
<1>10. ASSUME v.count = "skipped"
       PROVE  a = [passed |-> i, failed |-> j, skipped |-> k, failures |-> fs \cup vf,
                   drift |-> ds \cup vd]
  <2>1. a = [T EXCEPT !.failures = @ \cup vf, !.drift = @ \cup vd, !.skipped = @ + 1]
    BY <1>7, <1>10
  <2>2. a = [passed |-> p, failed |-> f, skipped |-> s + 1, failures |-> fs \cup vf,
             drift |-> ds \cup vd]
    BY <1>3, <2>1
  <2>3. i = p /\ j = f /\ k = s + 1
    BY <1>5, <1>10 DEF Adds
  <2> QED BY <2>2, <2>3
<1>11. a = [passed |-> i, failed |-> j, skipped |-> k, failures |-> fs \cup vf, drift |-> ds \cup vd]
  BY <1>8, <1>9, <1>10
<1>12. WithVerdict(T, rel, v) = [passed |-> i, failed |-> j, skipped |-> k,
                                 failures |-> fs \cup vf, drift |-> ds \cup vd]
  BY <1>1, <1>2, <1>4, <1>5 DEF WithVerdict
<1> QED BY <1>6, <1>11, <1>12

LEMMA TallyNext ==
  ASSUME NEW files, NEW results, NEW m \in Nat, NEW o, results[m + 1] # Ignored,
         IsVerdict(results[m + 1][o]), ~results[m + 1][o].raised
  PROVE  Tally(files, results, m + 1, o) =
           Added(Tally(files, results, m, o), files[m + 1], results[m + 1][o])
<1> DEFINE v == results[m + 1][o]
           rel == files[m + 1]
           C == Consumed(results, m)
           F(i) == {<<files[i], f>> : f \in results[i][o].failures}
           D(i) == {<<files[i], d>> : d \in results[i][o].drift}
           T == Tally(files, results, m, o)
<1>1. v.count \in {"passed", "failed", "skipped"}
  BY DEF IsVerdict, Raised
<1>2. Consumed(results, m + 1) = C \cup {m + 1}
  BY ConsumedNext
<1>3. \A c : Counted(results, m + 1, o, c) = Counted(results, m, o, c) + Adds(v, c)
  BY CountedNext DEF Adds
<1>4. IsTotal(T)
  <2>1. \A c : Counted(results, m, o, c) \in Nat
    BY CountedFinite
  <2> QED BY <2>1 DEF Tally, IsTotal
<1>5. UNION {F(i) : i \in C \cup {m + 1}} = (UNION {F(i) : i \in C}) \cup F(m + 1)
  OBVIOUS
<1>6. UNION {D(i) : i \in C \cup {m + 1}} = (UNION {D(i) : i \in C}) \cup D(m + 1)
  OBVIOUS
<1>7. Tally(files, results, m + 1, o) = WithVerdict(T, rel, v)
  BY <1>2, <1>3, <1>5, <1>6 DEF Tally, WithVerdict
<1>8. Added(T, rel, v) = WithVerdict(T, rel, v)
  BY <1>1, <1>4, AddedFields
<1> QED BY <1>7, <1>8

LEMMA TallyFrame ==
  ASSUME NEW files, NEW r1, NEW r2, NEW m \in Nat, NEW o, \A i \in 1..m : r1[i] = r2[i]
  PROVE  Tally(files, r1, m, o) = Tally(files, r2, m, o)
<1>1. Consumed(r1, m) = Consumed(r2, m) /\ \A i \in Consumed(r1, m) : r1[i] = r2[i]
  BY DEF Consumed
<1>2. \A c : {i \in Consumed(r1, m) : r1[i][o].count = c} = {i \in Consumed(r2, m) : r2[i][o].count = c}
  BY <1>1
<1>3. UNION {{<<files[i], f>> : f \in r1[i][o].failures} : i \in Consumed(r1, m)}
        = UNION {{<<files[i], f>> : f \in r2[i][o].failures} : i \in Consumed(r2, m)}
  BY <1>1
<1>4. UNION {{<<files[i], f>> : f \in r1[i][o].drift} : i \in Consumed(r1, m)}
        = UNION {{<<files[i], f>> : f \in r2[i][o].drift} : i \in Consumed(r2, m)}
  BY <1>1
<1> QED BY <1>2, <1>3, <1>4 DEF Tally, Counted

LEMMA TallyStart ==
  ASSUME NEW files, NEW results, NEW o
  PROVE  Tally(files, results, 0, o) =
           [passed |-> 0, failed |-> 0, skipped |-> 0, failures |-> {}, drift |-> {}]
<1>1. Consumed(results, 0) = {}
  BY DEF Consumed
<1>2. Cardinality({}) = 0
  BY FS_EmptySet
<1> QED BY <1>1, <1>2 DEF Tally, Counted

-----------------------------------------------------------------------------
(* The steps of `run`                                                      *)

LEMMA GradingFrame ==
  ASSUME UNCHANGED <<world, version, corpus, golden, index>>
  PROVE  /\ \A args, rel, res : Delivered(args, rel, res) => Delivered(args, rel, res)'
         /\ \A args, rel, p : mid' = mid /\ OnDisk(args, rel, p) => OnDisk(args, rel, p)'
         /\ \A args : Impl(args)' = Impl(args)
         /\ \A p : ReportState(p) => ReportState(p)'
<1>1. Reference' = Reference
  BY DEF Reference
<1>2. \A args : Impl(args)' = Impl(args)
  BY <1>1 DEF Impl
<1>3. \A args, rel, impl, ref, printed, text2 :
        Verdicts(args, rel, impl, ref, printed, text2)' = Verdicts(args, rel, impl, ref, printed, text2)
  BY DEF Verdicts
<1>4. \A args, rel : AloneOf(args, rel)' = AloneOf(args, rel)
  <2> TAKE args, rel
  <2>1. PICK impl, ref, printed, out :
          /\ impl = Impl(args) /\ ref = Reference
          /\ printed = impl[corpus[rel]]["wax"] /\ out = printed.out
    OBVIOUS
  <2>2. AloneOf(args, rel) = Verdicts(args, rel, impl, ref, printed, out)
    BY <2>1 DEF AloneOf
  <2>3. AloneOf(args, rel)' = Verdicts(args, rel, impl, ref, printed, out)'
    BY <1>1, <1>2, <2>1 DEF AloneOf
  <2> QED BY <1>3, <2>2, <2>3
<1>5. \A rel : FreshOf(rel)' <=> FreshOf(rel)
  BY DEF FreshOf
<1>6. \A o, args, rel : ParityOf(o, args, rel)' <=> ParityOf(o, args, rel)
  BY <1>1, <1>2 DEF ParityOf
<1>7. \A args, rel, res : Delivered(args, rel, res) => Delivered(args, rel, res)'
  BY <1>4, <1>5, <1>6 DEF Delivered
<1>8. \A args, rel, p : mid' = mid /\ OnDisk(args, rel, p) => OnDisk(args, rel, p)'
  BY <1>2 DEF OnDisk
<1>9. Graded' = Graded
  BY DEF Graded
<1>10. \A o, args, total : SequentialOf(o, args, total) => SequentialOf(o, args, total)'
  <2> TAKE o, args, total
  <2>1. \A c : {rel \in Graded : AloneOf(args, rel)[o].count = c}'
               = {rel \in Graded : AloneOf(args, rel)[o].count = c}
    BY <1>4, <1>9
  <2>2. (UNION {{<<rel, f>> : f \in AloneOf(args, rel)[o].failures} : rel \in Graded})'
          = UNION {{<<rel, f>> : f \in AloneOf(args, rel)[o].failures} : rel \in Graded}
    BY <1>4, <1>9
  <2>3. (UNION {{<<rel, d>> : d \in AloneOf(args, rel)[o].drift} : rel \in Graded})'
          = UNION {{<<rel, d>> : d \in AloneOf(args, rel)[o].drift} : rel \in Graded}
    BY <1>4, <1>9
  <2> QED BY <2>1, <2>2, <2>3 DEF SequentialOf
<1>11. \A p : ReportState(p) => ReportState(p)'
  BY <1>5, <1>6, <1>9, <1>10 DEF ReportState, Gates
<1> QED BY <1>2, <1>7, <1>8, <1>11

LEMMA RunFiles ==
  ASSUME GoldenInv, index # None, NEW fs, fs = Selected(DOMAIN index.files)
  PROVE  /\ fs \in Seq(DOMAIN index.files) /\ DOMAIN fs = 1..Len(fs) /\ Len(fs) \in Nat
         /\ IsInjective(fs)
         /\ \A i \in DOMAIN fs : fs[i] \in DOMAIN index.files
         /\ \A rel \in DOMAIN index.files : \E i \in DOMAIN fs : fs[i] = rel
         /\ \A rel \in DOMAIN index.files :
               /\ rel = <<rel[1], rel[2]>>
               /\ corpus[rel] # None => corpus[rel] \in Texts
<1> DEFINE S == DOMAIN index.files
<1>1. S \subseteq Range(Files)
  BY DEF GoldenInv, Saved
<1>2. /\ Selected(S) \in Seq(S) /\ IsInjective(Selected(S))
      /\ \A rel \in S : \E i \in DOMAIN Selected(S) : Selected(S)[i] = rel
  <2> HIDE DEF S
  <2> QED BY <1>1, SelectedNames
<1>3. \A rel \in S : rel = <<rel[1], rel[2]>>
  BY <1>1, HarnessAssumption
<1>4. DOMAIN corpus = Range(Files) /\ Range(corpus) \subseteq Texts \cup {None}
  BY HarnessAssumption DEF GoldenInv, Settings
<1>5. \A rel \in S : corpus[rel] # None => corpus[rel] \in Texts
  BY <1>1, <1>4 DEF Range
<1> HIDE DEF S
<1>6. fs \in Seq(S)
  BY <1>2 DEF S
<1>7. DOMAIN fs = 1..Len(fs) /\ Len(fs) \in Nat /\ \A i \in DOMAIN fs : fs[i] \in S
  BY <1>6
<1> QED BY <1>2, <1>3, <1>5, <1>6, <1>7 DEF S

LEMMA Continues ==
  ASSUME NEW p, proc' = p, IsRun(p), RunState(p)', outcome' = NotEnded
  PROVE  Running' /\ Reported'
<1>1. Running'
  BY DEF Running, RunState
<1>2. Reported'
  BY DEF Reported, Compared, NotEnded
<1> QED BY <1>1, <1>2

LEMMA RunNotEnded ==
  ASSUME RunInv, proc.cmd = "run"
  PROVE  /\ IsRun(proc) /\ RunState(proc) /\ outcome = NotEnded
         /\ GoldenInv /\ index # None
<1>1. IsRun(proc) /\ proc # Idle
  BY DEF RunInv, GoldenInv, Process, Idle, IsGolden
<1> QED BY <1>1 DEF RunInv, Running, Reported, RunState

LEMMA CmdRunStep ==
  ASSUME RunInv, NEW args \in Invocations, cmd_run(args)
  PROVE  Running' /\ Reported'
<1>1. PICK fs : fs = Selected(DOMAIN index.files)
  OBVIOUS
<1>2. PICK r : r = [i \in DOMAIN fs |-> None]
  OBVIOUS
<1>3. PICK tot : tot = [o \in args.oracles |->
                    [passed |-> 0, failed |-> 0, skipped |-> 0, failures |-> {}, drift |-> {}]]
  OBVIOUS
<1>4. PICK p : p = [cmd |-> "run", args |-> args, files |-> fs, merged |-> 0, results |-> r,
                    printed |-> r, total |-> tot]
  OBVIOUS
<1>5. proc' = p /\ index # None /\ UNCHANGED index /\ outcome' = NotEnded
  BY <1>1, <1>2, <1>3, <1>4 DEF cmd_run
<1>6. IsRun(p)
  BY <1>4 DEF IsRun
<1>7. DOMAIN fs = 1..Len(fs) /\ Len(fs) \in Nat
  BY <1>1, <1>5, RunFiles DEF RunInv
<1>8. tot = [o \in args.oracles |-> Tally(fs, r, 0, o)]
  BY <1>3, TallyStart
<1>9. RunState(p)'
  <2>1. /\ p.args = args /\ p.files = fs /\ p.merged = 0 /\ p.results = r /\ p.printed = r
        /\ p.total = tot
    BY <1>4
  <2>2. \A i \in DOMAIN fs : r[i] = None
    BY <1>2
  <2>3. DOMAIN r = DOMAIN fs
    BY <1>2
  <2>4. fs = Selected(DOMAIN index.files)'
    BY <1>1, <1>5
  <2> QED BY <1>5, <1>7, <1>8, <2>1, <2>2, <2>3, <2>4 DEF RunState
<1> QED BY <1>5, <1>6, <1>9, Continues

LEMMA WritesMidStep ==
  ASSUME RunInv, NEW i \in 1..Len(Files), i <= Len(proc.files), oneWritesMid(i)
  PROVE  Running' /\ Reported'
<1>1. /\ proc.cmd = "run" /\ proc.printed[i] = None
      /\ UNCHANGED <<world, version, corpus, golden, index, outcome>>
  BY DEF oneWritesMid
<1>2. IsRun(proc) /\ RunState(proc) /\ outcome' = NotEnded /\ GoldenInv /\ index # None
  BY <1>1, RunNotEnded
<1>3. PICK args, fs :
        args \in Invocations /\ args = proc.args /\ fs = proc.files /\ fs = Selected(DOMAIN index.files)
  BY <1>2 DEF RunState
<1>4. /\ DOMAIN fs = 1..Len(fs) /\ Len(fs) \in Nat /\ IsInjective(fs)
      /\ \A j \in DOMAIN fs : fs[j] \in DOMAIN index.files
      /\ \A rel \in DOMAIN index.files : /\ rel = <<rel[1], rel[2]>>
                                         /\ corpus[rel] # None => corpus[rel] \in Texts
  BY <1>2, <1>3, RunFiles
<1>5. i \in DOMAIN fs
  BY <1>3, <1>4
<1>6. PICK rel, t : rel = fs[i] /\ t = corpus[rel]
  OBVIOUS
<1>7. t # None /\ t \in Texts /\ rel \in DOMAIN index.files
  BY <1>3, <1>4, <1>5, <1>6 DEF oneWritesMid
<1>8. PICK impl : impl = Impl(args)
  BY SMTT(60)
<1>9. PICK slow \in Timeouts(impl, t) :
        LET v == WithTimeouts(impl, slow)[t]["wax"] IN
        /\ proc' = [proc EXCEPT !.printed[i] = v]
        /\ mid' = IF v.code # 0 THEN mid ELSE Put(mid, MidName(rel), v.out)
  BY <1>3, <1>6, <1>8 DEF oneWritesMid
<1>10. PICK v : v = WithTimeouts(impl, slow)[t]["wax"]
  OBVIOUS
<1>11. v \in {impl[t]["wax"]} \cup (IF "run" \in world.slow THEN {TimedOut} ELSE {})
  <2>1. PICK c \in Commands : c = "wax"
    BY DEF Commands
  <2>2. /\ WithTimeouts(impl, slow)[t][c] \in {impl[t][c], TimedOut}
        /\ slow = {} => WithTimeouts(impl, slow)[t][c] = impl[t][c]
    BY <1>2, <1>3, <1>7, <1>8, ComparedAnswers DEF GoldenInv
  <2>3. "run" \notin world.slow => slow = {}
    BY <1>1, <1>9 DEF Timeouts
  <2>4. v \in {impl[t]["wax"], TimedOut} /\ (slow = {} => v = impl[t]["wax"])
    BY <1>10, <2>1, <2>2
  <2> QED BY <2>3, <2>4
<1>12. PICK pr : pr = [proc.printed EXCEPT ![i] = v]
  OBVIOUS
<1>13. PICK p : p = [proc EXCEPT !.printed = pr]
  OBVIOUS
<1>14. proc' = p
  BY <1>9, <1>10, <1>12, <1>13
<1>15. p = [cmd |-> "run", args |-> args, files |-> fs, merged |-> proc.merged,
            results |-> proc.results, printed |-> pr, total |-> proc.total]
  BY <1>2, <1>3, <1>13 DEF IsRun
<1>16. /\ p.cmd = "run" /\ p.args = args /\ p.files = fs /\ p.merged = proc.merged
       /\ p.results = proc.results /\ p.printed = pr /\ p.total = proc.total
  BY <1>15
<1>17. IsRun(p)
  BY <1>15, <1>16 DEF IsRun
<1>18. /\ DOMAIN proc.printed = DOMAIN fs /\ DOMAIN proc.results = DOMAIN fs
       /\ \A j \in DOMAIN fs :
             /\ proc.results[j] # None => Delivered(args, fs[j], proc.results[j])
             /\ proc.printed[j] # None => OnDisk(args, fs[j], proc.printed[j])
  BY <1>2, <1>3 DEF RunState
<1>19. DOMAIN pr = DOMAIN fs /\ \A j \in DOMAIN fs : pr[j] = IF j = i THEN v ELSE proc.printed[j]
  BY <1>5, <1>12, <1>18
<1>20. \A a, x, res : Delivered(a, x, res) => Delivered(a, x, res)'
  BY <1>1, GradingFrame
<1>21. Impl(args)' = impl
  BY <1>1, <1>8, GradingFrame
<1>22. mid' = IF v.code # 0 THEN mid ELSE Put(mid, MidName(rel), v.out)
  BY <1>9, <1>10
<1>23. \A j \in DOMAIN fs : pr[j] # None => OnDisk(args, fs[j], pr[j])'
  <2> SUFFICES ASSUME NEW j \in DOMAIN fs, pr[j] # None PROVE OnDisk(args, fs[j], pr[j])'
    OBVIOUS
  <2>1. CASE j = i
    <3>1. v.code = 0 => MidName(rel) \in DOMAIN mid' /\ mid'[MidName(rel)] = v.out
      BY <1>22 DEF Put
    <3>2. OnDisk(args, rel, v)'
      BY <1>1, <1>6, <1>7, <1>11, <1>21, <3>1 DEF OnDisk
    <3>3. fs[j] = rel /\ pr[j] = v
      BY <1>6, <1>19, <2>1
    <3> QED BY <3>2, <3>3
  <2>2. CASE j # i
    <3>1. PICK x, q : x = fs[j] /\ q = pr[j]
      OBVIOUS
    <3>2. OnDisk(args, x, q)
      BY <1>18, <1>19, <2>2, <3>1
    <3>3. MidName(x) # MidName(rel)
      <4>1. x # rel /\ x = <<x[1], x[2]>> /\ rel = <<rel[1], rel[2]>>
        BY <1>4, <1>5, <1>6, <2>2, <3>1 DEF IsInjective
      <4> QED BY <4>1 DEF MidName
    <3>4. MidName(x) \in DOMAIN mid => MidName(x) \in DOMAIN mid' /\ mid'[MidName(x)] = mid[MidName(x)]
      BY <1>22, <3>3 DEF Put
    <3>5. OnDisk(args, x, q)'
      BY <1>1, <1>8, <1>21, <3>2, <3>4 DEF OnDisk
    <3> QED BY <3>1, <3>5
  <2> QED BY <2>1, <2>2
<1>24. RunState(p)'
  <2>1. /\ index # None /\ fs = Selected(DOMAIN index.files) /\ proc.merged \in 0..Len(fs)
        /\ \A j \in 1..proc.merged :
              /\ proc.results[j] # None
              /\ proc.results[j] # Ignored => \A o \in args.oracles : ~proc.results[j][o].raised
        /\ proc.total = [o \in args.oracles |-> Tally(fs, proc.results, proc.merged, o)]
    BY <1>2, <1>3 DEF RunState
  <2>2. \A j \in DOMAIN fs : p.results[j] # None => Delivered(args, fs[j], p.results[j])'
    BY <1>16, <1>18, <1>20
  <2> QED BY <1>1, <1>3, <1>16, <1>18, <1>19, <1>23, <2>1, <2>2 DEF RunState
<1> QED BY <1>2, <1>14, <1>17, <1>24, Continues

\* What a thread delivers, whatever the others do meanwhile, is what Delivered says.
LEMMA VerdictsDelivered ==
  ASSUME GoldenInv, index # None, NEW rel \in DOMAIN index.files, corpus[rel] \in Texts,
         NEW args \in Invocations, NEW printed, NEW slow, NEW slowRef, NEW text2,
         world.slow = {} => slow = {} /\ slowRef = {},
         ViaReference(args, index.files[rel]) =>
            OnDisk(args, rel, printed) /\ (printed.code = 0 => text2 = mid[MidName(rel)])
  PROVE  Delivered(args, rel,
                   Verdicts(args, rel, WithTimeouts(Impl(args), slow),
                            WithTimeouts(Reference, slowRef), printed, text2))
<1>1. corpus[rel] # None /\ Settings
  BY References DEF GoldenInv
<1>2. PICK res : res = Verdicts(args, rel, WithTimeouts(Impl(args), slow),
                                WithTimeouts(Reference, slowRef), printed, text2)
  OBVIOUS
<1>3. DOMAIN res = args.oracles /\ \A o \in args.oracles : IsVerdict(res[o])
  BY <1>2, VerdictsCount
<1>4. ViaReference(args, index.files[rel]) =>
        /\ printed \in {Impl(args)[corpus[rel]]["wax"], TimedOut}
        /\ printed.code = 0 => text2 = printed.out
        /\ world.slow = {} => printed = Impl(args)[corpus[rel]]["wax"]
  BY DEF OnDisk
<1>5. ASSUME world.slow = {} PROVE res = AloneOf(args, rel)
  <2>1. res = Verdicts(args, rel, WithTimeouts(Impl(args), {}), WithTimeouts(Reference, {}),
                       printed, text2)
    BY <1>2, <1>5
  <2> QED BY <1>1, <1>4, <1>5, <2>1, VerdictsAlone
<1>6. ASSUME "golden" \notin world.slow, FreshOf(rel), NEW o \in args.oracles,
             ~res[o].raised, res[o].count # "failed"
      PROVE  ParityOf(o, args, rel)
  <2>1. Clean(Verdicts(args, rel, WithTimeouts(Impl(args), slow), WithTimeouts(Reference, slowRef),
                       printed, text2)[o])
    BY <1>2, <1>6 DEF Clean
  <2> QED BY <1>1, <1>4, <1>6, <2>1, VerdictParity
<1>7. Delivered(args, rel, res)
  BY <1>1, <1>3, <1>5, <1>6 DEF Delivered
<1> QED BY <1>2, <1>7

LEMMA OneEndsStep ==
  ASSUME RunInv, NEW i \in 1..Len(Files), i <= Len(proc.files), oneEnds(i)
  PROVE  Running' /\ Reported'
<1>1. /\ proc.cmd = "run" /\ proc.results[i] = None
      /\ UNCHANGED <<world, version, corpus, golden, index, mid, outcome>>
  BY DEF oneEnds, InFlight
<1>2. IsRun(proc) /\ RunState(proc) /\ outcome' = NotEnded /\ GoldenInv /\ index # None
  BY <1>1, RunNotEnded
<1>3. PICK args, fs : /\ args \in Invocations /\ args = proc.args
                      /\ fs = proc.files /\ fs = Selected(DOMAIN index.files)
  BY <1>2 DEF RunState
<1>4. /\ DOMAIN fs = 1..Len(fs) /\ Len(fs) \in Nat
      /\ \A j \in DOMAIN fs : fs[j] \in DOMAIN index.files
      /\ \A rel \in DOMAIN index.files : corpus[rel] # None => corpus[rel] \in Texts
  BY <1>2, <1>3, RunFiles
<1>5. i \in DOMAIN fs
  BY <1>3, <1>4
<1>6. PICK rel : rel = fs[i] /\ rel \in DOMAIN index.files
  BY <1>4, <1>5
<1>7. /\ index # None /\ proc.merged \in 0..Len(fs)
      /\ DOMAIN proc.printed = DOMAIN fs /\ DOMAIN proc.results = DOMAIN fs
      /\ \A j \in DOMAIN fs :
            /\ proc.results[j] # None => Delivered(args, fs[j], proc.results[j])
            /\ proc.printed[j] # None => OnDisk(args, fs[j], proc.printed[j])
      /\ \A j \in 1..proc.merged :
            /\ proc.results[j] # None
            /\ proc.results[j] # Ignored => \A o \in args.oracles : ~proc.results[j][o].raised
      /\ proc.total = [o \in args.oracles |-> Tally(fs, proc.results, proc.merged, o)]
  BY <1>2, <1>3 DEF RunState
<1>8. PICK res : proc' = [proc EXCEPT !.results[i] = res] /\ Delivered(args, rel, res)
  <2>1. CASE corpus[rel] = None
    <3>1. proc' = [proc EXCEPT !.results[i] = Ignored]
      BY <1>3, <1>6, <2>1 DEF oneEnds
    <3> QED BY <2>1, <3>1 DEF Delivered
  <2>2. CASE corpus[rel] # None
    <3>1. ViaReference(args, index.files[rel]) => proc.printed[i] # None
      BY <1>3, <1>6, <2>2 DEF oneEnds
    <3>2. PICK slow \in Timeouts(Impl(args), corpus[rel]),
               slowRef \in Timeouts(Reference, corpus[rel]) :
            proc' = [proc EXCEPT !.results[i] =
               Verdicts(args, rel, WithTimeouts(Impl(args), slow), WithTimeouts(Reference, slowRef),
                        proc.printed[i],
                        IF proc.printed[i] = None \/ proc.printed[i].code # 0
                        THEN None ELSE mid[MidName(rel)])]
      BY <1>3, <1>6, <2>2 DEF oneEnds
    <3>3. PICK printed, text2 :
            /\ printed = proc.printed[i]
            /\ text2 = IF printed = None \/ printed.code # 0 THEN None ELSE mid[MidName(rel)]
      OBVIOUS
    <3>4. world.slow = {} => slow = {} /\ slowRef = {}
      BY <3>2 DEF Timeouts
    <3>5. ViaReference(args, index.files[rel]) =>
            OnDisk(args, rel, printed) /\ (printed.code = 0 => text2 = mid[MidName(rel)])
      BY <1>5, <1>6, <1>7, <3>1, <3>3
    <3>6. corpus[rel] \in Texts
      BY <1>4, <1>6, <2>2
    <3>7. PICK res : res = Verdicts(args, rel, WithTimeouts(Impl(args), slow),
                                    WithTimeouts(Reference, slowRef), printed, text2)
      OBVIOUS
    <3>8. Delivered(args, rel, res)
      BY <1>2, <1>3, <1>6, <3>4, <3>5, <3>6, <3>7, VerdictsDelivered
    <3>9. proc' = [proc EXCEPT !.results[i] = res]
      BY <3>2, <3>3, <3>7
    <3> QED BY <3>8, <3>9
  <2> QED BY <2>1, <2>2
<1>9. PICK r : r = [proc.results EXCEPT ![i] = res]
  OBVIOUS
<1>10. PICK p : p = [proc EXCEPT !.results = r]
  OBVIOUS
<1>11. proc' = p
  BY <1>8, <1>9, <1>10
<1>12. p = [cmd |-> "run", args |-> args, files |-> fs, merged |-> proc.merged,
            results |-> r, printed |-> proc.printed, total |-> proc.total]
  BY <1>2, <1>3, <1>10 DEF IsRun
<1>13. /\ p.cmd = "run" /\ p.args = args /\ p.files = fs /\ p.merged = proc.merged
       /\ p.results = r /\ p.printed = proc.printed /\ p.total = proc.total
  BY <1>12
<1>14. IsRun(p)
  BY <1>12, <1>13 DEF IsRun
<1>15. DOMAIN r = DOMAIN fs /\ \A j \in DOMAIN fs : r[j] = IF j = i THEN res ELSE proc.results[j]
  BY <1>5, <1>7, <1>9
<1>16. /\ \A a, x, q : Delivered(a, x, q) => Delivered(a, x, q)'
       /\ \A a, x, q : OnDisk(a, x, q) => OnDisk(a, x, q)'
  BY <1>1, GradingFrame
<1>17. \A j \in 1..proc.merged : j \in DOMAIN fs /\ j # i /\ r[j] = proc.results[j]
  BY <1>1, <1>4, <1>7, <1>15
<1>18. proc.total = [o \in args.oracles |-> Tally(fs, r, proc.merged, o)]
  <2>1. \A o : Tally(fs, r, proc.merged, o) = Tally(fs, proc.results, proc.merged, o)
    BY <1>7, <1>17, TallyFrame
  <2> QED BY <1>7, <2>1
<1>19. \A j \in DOMAIN fs : r[j] # None => Delivered(args, fs[j], r[j])'
  BY <1>6, <1>7, <1>8, <1>15, <1>16
<1>20. \A j \in DOMAIN fs : proc.printed[j] # None => OnDisk(args, fs[j], p.printed[j])'
  BY <1>7, <1>13, <1>16
<1>21. RunState(p)'
  <2>1. \A j \in 1..proc.merged :
           /\ r[j] # None
           /\ r[j] # Ignored => \A o \in args.oracles : ~r[j][o].raised
    BY <1>7, <1>17
  <2> QED BY <1>1, <1>3, <1>7, <1>13, <1>15, <1>18, <1>19, <1>20, <2>1 DEF RunState
<1> QED BY <1>2, <1>11, <1>14, <1>21, Continues

\* A command that ends other than in a report leaves no totals behind.
LEMMA Ends ==
  ASSUME proc' = Idle, outcome'.result # "compared"
  PROVE  Running' /\ Reported'
<1>1. ~IsRun(Idle)
  BY DEF IsRun, Idle
<1>2. Running'
  BY <1>1 DEF Running, RunState
<1>3. Reported'
  BY DEF Reported, Compared
<1> QED BY <1>2, <1>3

\* Only a file that is gone is ignored.
LEMMA IgnoredIsGone ==
  ASSUME NEW args \in Invocations, NEW rel, NEW res, Delivered(args, rel, res)
  PROVE  res = Ignored <=> corpus[rel] = None
<1>1. args.oracles # {}
  BY HarnessAssumption
<1>2. DOMAIN Ignored = {}
  BY EmptyDictionary DEF Ignored
<1> QED BY <1>1, <1>2 DEF Delivered

LEMMA RunMergeStep ==
  ASSUME RunInv, runMerge
  PROVE  Running' /\ Reported'
<1>1. /\ proc.cmd = "run" /\ proc.merged # Len(proc.files) /\ NextResult # None
      /\ UNCHANGED <<world, version, corpus, golden, index, mid>>
  BY DEF runMerge, AllMerged
<1>2. IsRun(proc) /\ RunState(proc) /\ outcome = NotEnded /\ GoldenInv /\ index # None
  BY <1>1, RunNotEnded
<1>3. PICK args, fs : /\ args \in Invocations /\ args = proc.args
                      /\ fs = proc.files /\ fs = Selected(DOMAIN index.files)
  BY <1>2 DEF RunState
<1>4. DOMAIN fs = 1..Len(fs) /\ Len(fs) \in Nat
  BY <1>2, <1>3, RunFiles
<1>5. PICK m \in 0..Len(fs) : m = proc.merged
  BY <1>2, <1>3 DEF RunState
<1>6. PICK r : r = proc.results
  OBVIOUS
<1>7. /\ index # None /\ DOMAIN proc.printed = DOMAIN fs /\ DOMAIN r = DOMAIN fs
      /\ \A j \in DOMAIN fs :
            /\ r[j] # None => Delivered(args, fs[j], r[j])
            /\ proc.printed[j] # None => OnDisk(args, fs[j], proc.printed[j])
      /\ \A j \in 1..m : /\ r[j] # None
                         /\ r[j] # Ignored => \A o \in args.oracles : ~r[j][o].raised
      /\ proc.total = [o \in args.oracles |-> Tally(fs, r, m, o)]
  BY <1>2, <1>3, <1>5, <1>6 DEF RunState
<1>8. m + 1 \in 1..Len(fs) /\ m + 1 \in DOMAIN fs /\ r[m + 1] # None /\ m \in Nat
      /\ NextResult = r[m + 1]
  BY <1>1, <1>3, <1>4, <1>5, <1>6 DEF NextResult
<1>9. /\ \A a, x, q : Delivered(a, x, q) => Delivered(a, x, q)'
      /\ \A a, x, q : OnDisk(a, x, q) => OnDisk(a, x, q)'
  BY <1>1, GradingFrame
<1>10. Delivered(args, fs[m + 1], r[m + 1])
  BY <1>7, <1>8
<1>11. ASSUME NEW tot, outcome' = NotEnded,
              proc' = [proc EXCEPT !.merged = m + 1, !.total = tot],
              tot = [o \in args.oracles |-> Tally(fs, r, m + 1, o)],
              r[m + 1] # Ignored => \A o \in args.oracles : ~r[m + 1][o].raised
       PROVE  Running' /\ Reported'
  <2>1. PICK p : p = [proc EXCEPT !.merged = m + 1, !.total = tot]
    OBVIOUS
  <2>2. p = [cmd |-> "run", args |-> args, files |-> fs, merged |-> m + 1,
             results |-> r, printed |-> proc.printed, total |-> tot]
    BY <1>2, <1>3, <1>6, <2>1 DEF IsRun
  <2>3. /\ p.cmd = "run" /\ p.args = args /\ p.files = fs /\ p.merged = m + 1
        /\ p.results = r /\ p.printed = proc.printed /\ p.total = tot
    BY <2>2
  <2>4. IsRun(p)
    BY <2>2, <2>3 DEF IsRun
  <2>5. \A j \in 1..(m + 1) : /\ r[j] # None
                              /\ r[j] # Ignored => \A o \in args.oracles : ~r[j][o].raised
    <3> TAKE j \in 1..(m + 1)
    <3>1. j = m + 1 \/ j \in 1..m
      BY <1>8
    <3> QED BY <1>7, <1>8, <1>11, <3>1
  <2>6. /\ \A j \in DOMAIN fs : r[j] # None => Delivered(args, fs[j], r[j])'
        /\ \A j \in DOMAIN fs : proc.printed[j] # None => OnDisk(args, fs[j], p.printed[j])'
    BY <1>7, <1>9, <2>3
  <2>7. m + 1 \in 0..Len(fs)
    BY <1>8
  <2>8. RunState(p)'
    BY <1>1, <1>3, <1>7, <1>11, <2>3, <2>5, <2>6, <2>7 DEF RunState
  <2> QED BY <1>11, <2>1, <2>4, <2>8, Continues
<1>12. CASE r[m + 1] = Ignored
  <2>1. proc' = [proc EXCEPT !.merged = m + 1] /\ outcome' = outcome
    BY <1>5, <1>8, <1>12 DEF runMerge
  <2>2. PICK tot : tot = proc.total
    OBVIOUS
  <2>3. tot = [o \in args.oracles |-> Tally(fs, r, m + 1, o)]
    <3>1. \A o : Tally(fs, r, m + 1, o) = Tally(fs, r, m, o)
      BY <1>8, <1>12, TallySkip
    <3> QED BY <1>7, <2>2, <3>1
  <2>4. proc' = [proc EXCEPT !.merged = m + 1, !.total = tot]
    BY <1>2, <2>1, <2>2 DEF IsRun
  <2> QED BY <1>2, <1>11, <1>12, <2>1, <2>3, <2>4
<1>13. CASE r[m + 1] # Ignored
  <2>1. CASE \E o \in args.oracles : r[m + 1][o].raised
    <3>1. proc' = Idle /\ outcome' = [result |-> "raised"]
      BY <1>3, <1>8, <1>13, <2>1 DEF runMerge, Exit
    <3> QED BY <3>1, Ends
  <2>2. CASE ~ \E o \in args.oracles : r[m + 1][o].raised
    <3>1. PICK tot : tot = [o \in args.oracles |-> Added(proc.total[o], fs[m + 1], r[m + 1][o])]
      OBVIOUS
    <3>2. proc' = [proc EXCEPT !.merged = m + 1, !.total = tot] /\ outcome' = outcome
      BY <1>3, <1>5, <1>8, <1>13, <2>2, <3>1 DEF runMerge
    <3>3. \A o \in args.oracles : IsVerdict(r[m + 1][o])
      <4>1. corpus[fs[m + 1]] # None
        BY <1>3, <1>10, <1>13, IgnoredIsGone
      <4> QED BY <1>10, <4>1 DEF Delivered
    <3>4. \A o \in args.oracles : Tally(fs, r, m + 1, o) = Added(proc.total[o], fs[m + 1], r[m + 1][o])
      <4> TAKE o \in args.oracles
      <4>1. Tally(fs, r, m + 1, o) = Added(Tally(fs, r, m, o), fs[m + 1], r[m + 1][o])
        BY <1>8, <1>13, <2>2, <3>3, TallyNext
      <4>2. proc.total[o] = Tally(fs, r, m, o)
        BY <1>7
      <4> QED BY <4>1, <4>2
    <3>5. tot = [o \in args.oracles |-> Tally(fs, r, m + 1, o)]
      BY <3>1, <3>4
    <3> QED BY <1>2, <1>11, <2>2, <3>2, <3>5
  <2> QED BY <2>1, <2>2
<1> QED BY <1>12, <1>13

\* Once every result is consumed, the files that count are the graded ones.
LEMMA ConsumedAll ==
  ASSUME GoldenInv, index # None, NEW fs, fs = Selected(DOMAIN index.files),
         NEW args \in Invocations, NEW r, \A i \in DOMAIN fs : Delivered(args, fs[i], r[i])
  PROVE  /\ \A i \in Consumed(r, Len(fs)) :
               fs[i] \in Graded /\ corpus[fs[i]] # None /\ Delivered(args, fs[i], r[i])
         /\ \A rel \in Graded : \E i \in Consumed(r, Len(fs)) : fs[i] = rel
         /\ \A i, j \in Consumed(r, Len(fs)) : fs[i] = fs[j] => i = j
<1>1. /\ DOMAIN fs = 1..Len(fs) /\ IsInjective(fs)
      /\ \A i \in DOMAIN fs : fs[i] \in DOMAIN index.files
      /\ \A rel \in DOMAIN index.files : \E i \in DOMAIN fs : fs[i] = rel
  BY RunFiles
<1>2. \A i \in DOMAIN fs : r[i] = Ignored <=> corpus[fs[i]] = None
  BY IgnoredIsGone
<1> QED BY <1>1, <1>2 DEF Consumed, Graded, IsInjective

LEMMA TallyIsSequential ==
  ASSUME GoldenInv, index # None, NEW fs, fs = Selected(DOMAIN index.files),
         NEW args \in Invocations, NEW r, \A i \in DOMAIN fs : Delivered(args, fs[i], r[i]),
         world.slow = {}, NEW o
  PROVE  SequentialOf(o, args, Tally(fs, r, Len(fs), o))
<1> DEFINE C == Consumed(r, Len(fs))
           total == Tally(fs, r, Len(fs), o)
<1>1. /\ \A i \in C : fs[i] \in Graded /\ r[i] = AloneOf(args, fs[i])
      /\ \A rel \in Graded : \E i \in C : fs[i] = rel
      /\ \A i, j \in C : fs[i] = fs[j] => i = j
  BY ConsumedAll DEF Delivered
<1>2. Len(fs) \in Nat
  BY RunFiles
<1>3. ASSUME NEW c
      PROVE  Counted(r, Len(fs), o, c) = Cardinality({rel \in Graded : AloneOf(args, rel)[o].count = c})
  <2> DEFINE S == {i \in C : r[i][o].count = c}
             T == {rel \in Graded : AloneOf(args, rel)[o].count = c}
             f == [i \in S |-> fs[i]]
  <2>1. IsFiniteSet(S)
    <3>1. IsFiniteSet(1..Len(fs)) /\ S \in SUBSET (1..Len(fs))
      BY <1>2, FS_Interval DEF Consumed
    <3> QED BY <3>1, FS_Subset
  <2>2. \A i \in S : fs[i] \in T
    BY <1>1
  <2>3. \A rel \in T : \E i \in S : fs[i] = rel
    BY <1>1
  <2>4. \A i, j \in S : fs[i] = fs[j] => i = j
    BY <1>1
  <2> HIDE DEF S, T
  <2>5. f \in Bijection(S, T)
    BY <2>2, <2>3, <2>4 DEF Bijection, Injection, Surjection, IsInjective
  <2>6. Cardinality(T) = Cardinality(S)
    BY <2>1, <2>5, FS_Bijection DEF ExistsBijection
  <2> QED BY <2>6 DEF S, T, Counted
<1>4. UNION {{<<fs[i], f>> : f \in r[i][o].failures} : i \in C}
        = UNION {{<<rel, f>> : f \in AloneOf(args, rel)[o].failures} : rel \in Graded}
  <2>1. \A i \in C : {<<fs[i], f>> : f \in r[i][o].failures}
                       = {<<fs[i], f>> : f \in AloneOf(args, fs[i])[o].failures}
    BY <1>1
  <2> HIDE DEF C
  <2> QED BY <1>1, <2>1
<1>5. UNION {{<<fs[i], d>> : d \in r[i][o].drift} : i \in C}
        = UNION {{<<rel, d>> : d \in AloneOf(args, rel)[o].drift} : rel \in Graded}
  <2>1. \A i \in C : {<<fs[i], d>> : d \in r[i][o].drift}
                       = {<<fs[i], d>> : d \in AloneOf(args, fs[i])[o].drift}
    BY <1>1
  <2> HIDE DEF C
  <2> QED BY <1>1, <2>1
<1>6. /\ total.passed = Counted(r, Len(fs), o, "passed")
      /\ total.failed = Counted(r, Len(fs), o, "failed")
      /\ total.skipped = Counted(r, Len(fs), o, "skipped")
      /\ total.failures = UNION {{<<fs[i], f>> : f \in r[i][o].failures} : i \in C}
      /\ total.drift = UNION {{<<fs[i], d>> : d \in r[i][o].drift} : i \in C}
  BY DEF Tally
<1> HIDE DEF total, C
<1>7. \A c \in {"passed", "failed", "skipped"} :
        total[c] = Cardinality({rel \in Graded : AloneOf(args, rel)[o].count = c})
  <2> TAKE c \in {"passed", "failed", "skipped"}
  <2>1. total[c] = Counted(r, Len(fs), o, c)
    BY <1>6
  <2> QED BY <1>3, <2>1
<1>8. SequentialOf(o, args, total)
  BY <1>4, <1>5, <1>6, <1>7 DEF SequentialOf
<1> QED BY <1>8 DEF total

LEMMA NoFailureIsParity ==
  ASSUME GoldenInv, index # None, NEW fs, fs = Selected(DOMAIN index.files),
         NEW args \in Invocations, NEW r, \A i \in DOMAIN fs : Delivered(args, fs[i], r[i]),
         NEW o \in args.oracles, "golden" \notin world.slow,
         \A i \in Consumed(r, Len(fs)) : ~r[i][o].raised,
         Counted(r, Len(fs), o, "failed") = 0,
         NEW rel \in Graded, FreshOf(rel)
  PROVE  ParityOf(o, args, rel)
<1>1. PICK i \in Consumed(r, Len(fs)) :
        fs[i] = rel /\ corpus[rel] # None /\ Delivered(args, rel, r[i])
  BY ConsumedAll
<1>2. r[i][o].count # "failed"
  <2> DEFINE S == {j \in Consumed(r, Len(fs)) : r[j][o].count = "failed"}
  <2>1. IsFiniteSet(1..Len(fs)) /\ S \in SUBSET (1..Len(fs)) /\ Cardinality(S) = 0
    BY RunFiles, FS_Interval DEF Consumed, Counted
  <2>2. S = {}
    BY <2>1, FS_Subset, FS_EmptySet
  <2> QED BY <2>2
<1>3. ~r[i][o].raised
  OBVIOUS
<1> QED BY <1>1, <1>2, <1>3 DEF Delivered

LEMMA RunReportStep ==
  ASSUME RunInv, runReport
  PROVE  Running' /\ Reported'
<1>1. /\ proc.cmd = "run" /\ proc.merged = Len(proc.files)
      /\ UNCHANGED <<world, version, corpus, golden, index, mid>> /\ proc' = Idle
  BY DEF runReport, AllMerged, Exit
<1>2. IsRun(proc) /\ RunState(proc) /\ GoldenInv /\ index # None
  BY <1>1, RunNotEnded
<1>3. PICK args, fs, r : /\ args \in Invocations /\ args = proc.args
                         /\ fs = proc.files /\ fs = Selected(DOMAIN index.files)
                         /\ r = proc.results
  BY <1>2 DEF RunState
<1>4. DOMAIN fs = 1..Len(fs) /\ Len(fs) \in Nat
  BY <1>2, <1>3, RunFiles
<1>5. /\ proc.merged = Len(fs)
      /\ \A j \in DOMAIN fs : Delivered(args, fs[j], r[j])
      /\ \A j \in 1..Len(fs) : r[j] # Ignored => \A o \in args.oracles : ~r[j][o].raised
      /\ proc.total = [o \in args.oracles |-> Tally(fs, r, Len(fs), o)]
  BY <1>1, <1>2, <1>3, <1>4 DEF RunState
<1>6. PICK tot, code : tot = proc.total /\ code = IF Gates(tot) THEN 1 ELSE 0
  OBVIOUS
<1>7. PICK p : p = [result |-> "compared", args |-> args, total |-> tot, code |-> code]
  OBVIOUS
<1>8. outcome' = p
  BY <1>3, <1>6, <1>7 DEF runReport, Exit
<1>9. p.args = args /\ p.total = tot /\ p.code = code
  BY <1>7
<1>10. ASSUME NEW o \in args.oracles
       PROVE  /\ tot[o].failed \in Nat
              /\ world.slow = {} => SequentialOf(o, args, tot[o])
              /\ "golden" \notin world.slow /\ tot[o].failed = 0 =>
                    \A rel \in Graded : FreshOf(rel) => ParityOf(o, args, rel)
  <2>1. tot[o] = Tally(fs, r, Len(fs), o)
    BY <1>5, <1>6
  <2>2. tot[o].failed = Counted(r, Len(fs), o, "failed")
    BY <2>1 DEF Tally
  <2>3. tot[o].failed \in Nat
    BY <1>4, <2>2, CountedFinite
  <2>4. world.slow = {} => SequentialOf(o, args, tot[o])
    BY <1>2, <1>3, <1>5, <2>1, TallyIsSequential
  <2>5. \A i \in Consumed(r, Len(fs)) : ~r[i][o].raised
    BY <1>5 DEF Consumed
  <2>6. ASSUME "golden" \notin world.slow, tot[o].failed = 0, NEW rel \in Graded, FreshOf(rel)
        PROVE  ParityOf(o, args, rel)
    BY <1>2, <1>3, <1>5, <2>2, <2>5, <2>6, NoFailureIsParity
  <2> QED BY <2>3, <2>4, <2>6
<1>11. DOMAIN tot = args.oracles
  BY <1>5, <1>6
<1>12. ReportState(p)
  BY <1>2, <1>3, <1>6, <1>9, <1>10, <1>11 DEF ReportState
<1>13. ReportState(p)'
  BY <1>1, <1>12, GradingFrame
<1>14. ReportState(outcome)'
  BY <1>8, <1>13 DEF ReportState
<1>15. ~IsRun(Idle)
  BY DEF IsRun, Idle
<1> QED BY <1>1, <1>14, <1>15 DEF Running, Reported

LEMMA RunInit == Init => RunInv
<1> SUFFICES ASSUME Init PROVE RunInv
  OBVIOUS
<1>1. GoldenInv
  BY GoldenInit
<1>2. proc = Idle /\ outcome = NotEnded
  BY DEF Init
<1>3. ~IsRun(Idle) /\ NotEnded.result # "compared"
  BY DEF IsRun, Idle, NotEnded
<1> QED BY <1>1, <1>2, <1>3 DEF RunInv, Running, Reported, Compared

LEMMA GoldenStepsReportNothing ==
  ASSUME RunInv,
         cmd_golden \/ goldenWrite \/ goldenSave \/ \E i \in 1..Len(Files) : goldenClassify(i)
  PROVE  Running' /\ Reported'
<1>1. ASSUME proc'.cmd # "run", outcome' = NotEnded PROVE Running' /\ Reported'
  <2>1. ~IsRun(proc')
    BY <1>1 DEF IsRun
  <2>2. NotEnded.result # "compared"
    BY DEF NotEnded
  <2> QED BY <1>1, <2>1, <2>2 DEF Running, Reported, Compared
<1>2. CASE cmd_golden
  BY <1>1, <1>2 DEF cmd_golden
<1>3. ASSUME proc.cmd = "golden" PROVE IsGolden(proc) /\ outcome = NotEnded
  <2>1. IsGolden(proc) /\ proc # Idle
    BY <1>3 DEF RunInv, GoldenInv, Process, Idle, IsRun
  <2> QED BY <2>1 DEF RunInv, Reported
<1>4. CASE goldenWrite
  <2>1. IsGolden(proc) /\ outcome = NotEnded
    BY <1>3, <1>4 DEF goldenWrite
  <2>2. CASE GoldenRaises(NextResult)
    BY <1>4, <2>2, Ends DEF goldenWrite, Exit
  <2>3. CASE ~GoldenRaises(NextResult)
    <3>1. PICK m, q : proc' = [proc EXCEPT !.merged = m, !.index = q]
      BY <1>4, <2>3 DEF goldenWrite
    <3>2. proc'.cmd = "golden"
      BY <2>1, <3>1 DEF IsGolden
    <3> QED BY <1>1, <1>4, <2>1, <2>3, <3>2 DEF goldenWrite
  <2> QED BY <2>2, <2>3
<1>5. CASE goldenSave
  BY <1>5, Ends DEF goldenSave, Exit
<1>6. ASSUME NEW i \in 1..Len(Files), goldenClassify(i) PROVE Running' /\ Reported'
  <2>1. IsGolden(proc) /\ outcome = NotEnded
    BY <1>3, <1>6 DEF goldenClassify
  <2>2. PICK q : proc' = [proc EXCEPT !.results = q]
    BY <1>6 DEF goldenClassify
  <2>3. proc'.cmd = "golden"
    BY <2>1, <2>2 DEF IsGolden
  <2> QED BY <1>1, <1>6, <2>1, <2>3 DEF goldenClassify
<1> QED BY <1>2, <1>4, <1>5, <1>6

LEMMA RunStutter == RunInv /\ UNCHANGED vars => Running' /\ Reported'
<1> SUFFICES ASSUME RunInv, UNCHANGED vars PROVE Running' /\ Reported'
  OBVIOUS
<1>1. UNCHANGED <<world, version, corpus, golden, index, mid>>
      /\ proc' = proc /\ outcome' = outcome
  BY DEF vars
<1>2. PICK p, oc : p = proc /\ oc = outcome
  OBVIOUS
<1>3. ASSUME IsRun(p) PROVE RunState(p)'
  <2>1. RunState(p)
    BY <1>2, <1>3 DEF RunInv, Running
  <2>2. /\ \A a, x, q : Delivered(a, x, q) => Delivered(a, x, q)'
        /\ \A a, x, q : OnDisk(a, x, q) => OnDisk(a, x, q)'
    BY <1>1, GradingFrame
  <2> QED BY <1>1, <2>1, <2>2 DEF RunState
<1>4. Running'
  BY <1>1, <1>2, <1>3 DEF Running, RunState
<1>5. oc.result = "compared" => ReportState(oc)'
  <2>1. oc.result = "compared" => ReportState(oc)
    BY <1>2 DEF RunInv, Reported, Compared
  <2> QED BY <1>1, <2>1, GradingFrame
<1>6. Compared' => ReportState(outcome)'
  BY <1>1, <1>2, <1>5 DEF ReportState, Compared
<1> QED BY <1>1, <1>4, <1>6 DEF RunInv, Reported

LEMMA RunInduction == RunInv /\ [Next]_vars => RunInv'
<1> SUFFICES ASSUME RunInv, [Next]_vars PROVE RunInv'
  OBVIOUS
<1>1. GoldenInv'
  BY GoldenInduction DEF RunInv
<1>2. CASE cmd_golden \/ goldenWrite \/ goldenSave
  BY <1>1, <1>2, GoldenStepsReportNothing DEF RunInv
<1>3. ASSUME NEW args \in Invocations, cmd_run(args) PROVE RunInv'
  BY <1>1, <1>3, CmdRunStep DEF RunInv
<1>4. ASSUME NEW i \in 1..Len(Files), i <= Len(proc.files),
             goldenClassify(i) \/ oneWritesMid(i) \/ oneEnds(i)
      PROVE  RunInv'
  BY <1>1, <1>4, GoldenStepsReportNothing, WritesMidStep, OneEndsStep DEF RunInv
<1>5. CASE runMerge
  BY <1>1, <1>5, RunMergeStep DEF RunInv
<1>6. CASE runReport
  BY <1>1, <1>6, RunReportStep DEF RunInv
<1>7. CASE interrupt
  <2>1. proc' = Idle /\ outcome'.result # "compared"
    BY <1>7 DEF interrupt, Exit
  <2> QED BY <1>1, <2>1, Ends DEF RunInv
<1>8. CASE surroundings
  <2>1. proc' = Idle /\ outcome'.result # "compared"
    BY <1>8 DEF surroundings, NotEnded
  <2> QED BY <1>1, <2>1, Ends DEF RunInv
<1>9. CASE UNCHANGED vars
  BY <1>1, <1>9, RunStutter DEF RunInv
<1> QED BY <1>2, <1>3, <1>4, <1>5, <1>6, <1>7, <1>8, <1>9 DEF Next

\* At every moment of `run`: what each thread delivered is the verdicts of its file, what
\* it printed is still in its own file of test/report/tmp, and the totals are the tally of
\* the results consumed so far.
THEOREM RunsRecorded == Spec => []RunInv
BY RunInit, RunInduction, PTL DEF Spec

-----------------------------------------------------------------------------
(* What the reports of `run` mean                                          *)

\* Every consumed verdict is counted once, under one of three names.
LEMMA CountedOnce ==
  ASSUME NEW results, NEW m \in Nat, NEW o,
         \A i \in Consumed(results, m) : results[i][o].count \in {"passed", "failed", "skipped"}
  PROVE  Counted(results, m, o, "passed") + Counted(results, m, o, "failed")
           + Counted(results, m, o, "skipped") = Cardinality(Consumed(results, m))
<1> DEFINE C == Consumed(results, m)
           P == {i \in C : results[i][o].count = "passed"}
           F == {i \in C : results[i][o].count = "failed"}
           S == {i \in C : results[i][o].count = "skipped"}
<1>1. /\ P \cup F \cup S = C /\ P \cap F = {} /\ (P \cup F) \cap S = {}
      /\ P \in SUBSET (1..m) /\ F \in SUBSET (1..m) /\ S \in SUBSET (1..m)
  BY DEF Consumed
<1>2. /\ Counted(results, m, o, "passed") = Cardinality(P)
      /\ Counted(results, m, o, "failed") = Cardinality(F)
      /\ Counted(results, m, o, "skipped") = Cardinality(S)
  BY DEF Counted
<1> HIDE DEF C, P, F, S
<1>3. IsFiniteSet(P) /\ IsFiniteSet(F) /\ IsFiniteSet(S)
  <2>1. IsFiniteSet(1..m)
    BY FS_Interval
  <2> QED BY <1>1, <2>1, FS_Subset
<1>4. Cardinality(P) \in Nat /\ Cardinality(F) \in Nat /\ Cardinality(S) \in Nat
  BY <1>3, FS_CardinalityType
<1>5. Cardinality({}) = 0
  BY FS_EmptySet
<1>6. IsFiniteSet(P \cup F) /\ Cardinality(P \cup F) = Cardinality(P) + Cardinality(F)
  <2>1. /\ IsFiniteSet(P \cup F)
        /\ Cardinality(P \cup F) = Cardinality(P) + Cardinality(F) - Cardinality(P \cap F)
    BY <1>3, FS_Union
  <2>2. Cardinality(P \cap F) = 0
    BY <1>1, <1>5
  <2> QED BY <1>4, <2>1, <2>2
<1>7. Cardinality((P \cup F) \cup S) = Cardinality(P \cup F) + Cardinality(S)
  <2>1. Cardinality((P \cup F) \cup S)
          = Cardinality(P \cup F) + Cardinality(S) - Cardinality((P \cup F) \cap S)
    BY <1>3, <1>6, FS_Union
  <2>2. Cardinality((P \cup F) \cap S) = 0
    BY <1>1, <1>5
  <2> QED BY <1>4, <1>6, <2>1, <2>2
<1>8. Cardinality(C) = Cardinality(P) + Cardinality(F) + Cardinality(S)
  BY <1>1, <1>4, <1>6, <1>7
<1> QED BY <1>2, <1>4, <1>8 DEF C

LEMMA RunTypes == RunInv => HarnessTypeOK
<1> SUFFICES ASSUME RunInv PROVE HarnessTypeOK
  OBVIOUS
<1>1. /\ DOMAIN golden \subseteq Range(Files)
      /\ index # None => DOMAIN index.files \subseteq Range(Files)
  BY DEF RunInv, GoldenInv, Saved
<1>2. ASSUME proc # Idle
      PROVE  proc.merged \in 0..Len(proc.files) /\ \A i \in 1..proc.merged : proc.results[i] # None
  <2>1. CASE IsGolden(proc)
    BY <2>1 DEF RunInv, GoldenInv, Recording
  <2>2. CASE IsRun(proc)
    BY <2>2 DEF RunInv, Running, RunState
  <2> QED BY <1>2, <2>1, <2>2 DEF RunInv, GoldenInv, Process
<1>3. ASSUME proc.cmd = "run", NEW o \in proc.args.oracles
      PROVE  proc.total[o].passed + proc.total[o].failed + proc.total[o].skipped
               = Cardinality({i \in 1..proc.merged : proc.results[i] # Ignored})
  <2>1. RunState(proc) /\ GoldenInv /\ index # None
    BY <1>3, RunNotEnded
  <2>2. PICK args, fs, r, m : /\ args \in Invocations /\ args = proc.args /\ r = proc.results
                              /\ fs = proc.files /\ fs = Selected(DOMAIN index.files)
                              /\ m = proc.merged
    BY <2>1 DEF RunState
  <2>3. DOMAIN fs = 1..Len(fs) /\ Len(fs) \in Nat
    BY <2>1, <2>2, RunFiles
  <2>4. /\ m \in 0..Len(fs)
        /\ \A i \in DOMAIN fs : r[i] # None => Delivered(args, fs[i], r[i])
        /\ \A i \in 1..m : r[i] # None /\ (r[i] # Ignored => ~r[i][o].raised)
        /\ proc.total[o] = Tally(fs, r, m, o)
    BY <1>3, <2>1, <2>2 DEF RunState
  <2>5. \A i \in Consumed(r, m) : r[i][o].count \in {"passed", "failed", "skipped"}
    <3> SUFFICES ASSUME NEW i \in Consumed(r, m)
                 PROVE  r[i][o].count \in {"passed", "failed", "skipped"}
      OBVIOUS
    <3>1. i \in DOMAIN fs /\ i \in 1..m /\ r[i] # Ignored
      BY <2>3, <2>4 DEF Consumed
    <3>2. Delivered(args, fs[i], r[i]) /\ ~r[i][o].raised
      BY <2>4, <3>1
    <3>3. corpus[fs[i]] # None
      BY <2>2, <3>1, <3>2, IgnoredIsGone
    <3>4. IsVerdict(r[i][o])
      BY <1>3, <2>2, <3>2, <3>3 DEF Delivered
    <3> QED BY <3>2, <3>4 DEF IsVerdict, Raised
  <2>6. Counted(r, m, o, "passed") + Counted(r, m, o, "failed") + Counted(r, m, o, "skipped")
          = Cardinality(Consumed(r, m))
    BY <2>4, <2>5, CountedOnce
  <2>7. Consumed(r, m) = {i \in 1..proc.merged : proc.results[i] # Ignored}
    BY <2>2 DEF Consumed
  <2>8. /\ proc.total[o].passed = Counted(r, m, o, "passed")
        /\ proc.total[o].failed = Counted(r, m, o, "failed")
        /\ proc.total[o].skipped = Counted(r, m, o, "skipped")
    BY <2>4 DEF Tally
  <2> QED BY <2>6, <2>7, <2>8
<1> QED BY <1>1, <1>2, <1>3 DEF HarnessTypeOK

\* The state of the harness has the shape cmd_golden and cmd_run give it; at every moment
\* of a run each oracle has counted each consumed file exactly once.
THEOREM HarnessTypes == Spec => []HarnessTypeOK
BY RunTypes, RunsRecorded, PTL

\* Without time limits, the totals that cmd_run reports are those of grading the files
\* one by one, whatever --jobs is and however the threads of the pool interleave: the
\* texts they exchange through test/report/tmp never mix.
THEOREM TotalsSequential == Spec => []ResultIsSequential
<1>1. RunInv => ResultIsSequential
  <2> SUFFICES ASSUME RunInv PROVE ResultIsSequential
    OBVIOUS
  <2>1. HarnessTypeOK
    BY RunTypes
  <2>2. ASSUME Compared, world.slow = {}, NEW o \in outcome.args.oracles
        PROVE  SequentialOf(o, outcome.args, outcome.total[o])
    BY <2>2 DEF RunInv, Reported, ReportState
  <2>3. \A rel : Alone(rel) = AloneOf(outcome.args, rel)
    BY DEF Alone, AloneOf
  <2>4. ASSUME Compared, world.slow = {}, NEW o \in outcome.args.oracles
        PROVE  LET total == outcome.total[o]
                   of(rel) == Alone(rel)[o]
               IN /\ \A c \in {"passed", "failed", "skipped"} :
                        total[c] = Cardinality({rel \in Graded : of(rel).count = c})
                  /\ total.failures = UNION {{<<rel, f>> : f \in of(rel).failures} : rel \in Graded}
                  /\ total.drift = UNION {{<<rel, d>> : d \in of(rel).drift} : rel \in Graded}
    <3> DEFINE args == outcome.args
    <3>1. SequentialOf(o, args, outcome.total[o])
      BY <2>2, <2>4
    <3>2. \A c : {rel \in Graded : Alone(rel)[o].count = c}
                   = {rel \in Graded : AloneOf(args, rel)[o].count = c}
      BY <2>3
    <3>3. UNION {{<<rel, f>> : f \in Alone(rel)[o].failures} : rel \in Graded}
            = UNION {{<<rel, f>> : f \in AloneOf(args, rel)[o].failures} : rel \in Graded}
      BY <2>3
    <3>4. UNION {{<<rel, d>> : d \in Alone(rel)[o].drift} : rel \in Graded}
            = UNION {{<<rel, d>> : d \in AloneOf(args, rel)[o].drift} : rel \in Graded}
      BY <2>3
    <3> QED BY <3>1, <3>2, <3>3, <3>4 DEF SequentialOf
  <2> QED BY <2>1, <2>4 DEF ResultIsSequential
<1> QED BY <1>1, RunsRecorded, PTL

\* If no gating oracle failed, no file that an oracle graded failed it.
LEMMA GreenTotals ==
  ASSUME RunInv, Compared, outcome.code = 0, NEW o \in outcome.args.oracles, o # 4
  PROVE  outcome.total[o].failed = 0
<1>1. /\ ReportState(outcome)
      /\ DOMAIN outcome.total = outcome.args.oracles /\ outcome.total[o].failed \in Nat
      /\ outcome.code = IF Gates(outcome.total) THEN 1 ELSE 0
  BY DEF RunInv, Reported, ReportState
<1>2. ~Gates(outcome.total)
  BY <1>1
<1> QED BY <1>1, <1>2 DEF Gates

\* What the docstring of waxdiff.py promises: if `run` exits 0 against goldens of this
\* corpus and this reference, then on every graded file the reprint, the binary and the
\* diagnostics are those of the reference, for every port, time limits in `run` included.
THEOREM GreenMeansParity == Spec => []GreenIsParity
<1>1. RunInv => GreenIsParity
  <2> SUFFICES ASSUME RunInv, Compared, Fresh, "golden" \notin world.slow, outcome.code = 0,
                      NEW rel \in Graded
               PROVE  Parity(outcome.args, rel)
    BY DEF GreenIsParity
  <2>1. FreshOf(rel)
    BY DEF Fresh, FreshOf
  <2>2. ASSUME NEW o \in outcome.args.oracles, o # 4 PROVE ParityOf(o, outcome.args, rel)
    <3>1. outcome.total[o].failed = 0
      BY <2>2, GreenTotals
    <3> QED BY <2>1, <2>2, <3>1 DEF RunInv, Reported, ReportState
  <2> QED BY <2>2 DEF Parity, ParityOf
<1> QED BY <1>1, RunsRecorded, PTL

\* Under --self-test the verdict of a gating oracle on a fresh golden is not a failure.
LEMMA SelfTestVerdict ==
  ASSUME GoldenInv, index # None, NEW rel \in Graded, FreshOf(rel), "golden" \notin world.slow,
         ListsAreTrue, NEW args \in Invocations, args.self_test, NEW o \in args.oracles, o # 4
  PROVE  AloneOf(args, rel)[o].count # "failed"
<1> DEFINE t == corpus[rel]
           meta == index.files[rel]
           theirs == Reference[t]
           impl == Impl(args)
           policy == PolicyOf(args)
<1>1. rel \in DOMAIN index.files /\ t # None
  BY DEF Graded
<1>2. /\ t \in Texts /\ IsImplementation(Reference) /\ Settings
      /\ theirs["check"].err.json
      /\ meta.bucket = IF theirs["wax"].code # 0 THEN SYNTAX_BAD
                       ELSE IF theirs["wax"].code = 0 /\ theirs["wasm"].code = 0
                       THEN COMPILES_CLEAN ELSE TYPE_BAD
      /\ meta.diag_code = theirs["check"].code
      /\ meta.wasm_sha256 = IF theirs["wax"].code = 0 /\ theirs["wasm"].code = 0
                            THEN sha256(theirs["wasm"].out) ELSE None
      /\ golden[rel].reprint = IF theirs["wax"].code = 0 THEN theirs["wax"].out ELSE None
      /\ (IF golden[rel].diag = None THEN <<>> ELSE golden[rel].diag) = theirs["check"].err.diags
  BY <1>1, FreshGolden DEF GoldenInv
<1>3. Base(args) = Reference
  BY SMTT(60) DEF Base
<1>4. \A u \in Texts : \A c \in Commands :
        /\ impl[u][c].code = Reference[u][c].code /\ impl[u][c].out = Reference[u][c].out
        /\ impl[u][c].err.json = Reference[u][c].err.json
        /\ Normalized(impl[u][c].err.diags) = Reference[u][c].err.diags
  BY <1>2, <1>3, ComparedDiagnostics
<1>5. {"wax", "wasm", "check"} \subseteq Commands
  BY DEF Commands
<1>6. policy.self_test /\ policy.route = NATIVE /\ Mode(policy, meta, 3) # "no-errors"
  <2>1. meta.bucket \in {SYNTAX_BAD, COMPILES_CLEAN, TYPE_BAD}
    BY <1>2
  <2> QED BY <2>1, PolicyModes
<1>7. ~ViaReference(args, meta)
  BY <1>6 DEF ViaReference, NATIVE, VIA_REFERENCE
<1>8. /\ Passed.count # "failed" /\ Skipped.count # "failed" /\ Raised.count # "failed"
      /\ \A d : Verdict("passed", {}, d).count # "failed"
  BY DEF Passed, Skipped, Raised, Verdict
<1>9. o = 1 \/ o = 2 \/ o = 3
  BY HarnessAssumption
<1>10. CASE o = 1
  <2>1. AloneOf(args, rel)[o] = check_oracle1(impl, rel, t, meta, golden[rel], policy)
    BY <1>10 DEF AloneOf, Verdicts
  <2>2. CASE golden[rel].reprint = None
    BY <1>8, <2>1, <2>2 DEF check_oracle1
  <2>3. CASE golden[rel].reprint # None
    <3>1. theirs["wax"].code = 0 /\ golden[rel].reprint = theirs["wax"].out
      BY <1>2, <2>3
    <3>2. PICK once : once = theirs["wax"].out
      OBVIOUS
    <3>3. once \in Texts
      BY <1>2, <1>5, <3>1, <3>2, Answers
    <3>4. /\ impl[t]["wax"].code = 0 /\ impl[t]["wax"].out = once
          /\ impl[once]["wax"].code = Reference[once]["wax"].code
          /\ impl[once]["wax"].out = Reference[once]["wax"].out
      BY <1>2, <1>4, <1>5, <3>1, <3>2, <3>3
    <3>5. rel \in NON_IDEMPOTENT_UPSTREAM
             <=> ~(Reference[once]["wax"].code = 0 /\ Reference[once]["wax"].out = once)
      BY <3>1, <3>2 DEF ListsAreTrue
    <3> HIDE DEF impl, policy, meta, t
    <3>6. _check_idempotent(impl, rel, once) = Passed
      BY <3>4, <3>5 DEF _check_idempotent
    <3>7. AloneOf(args, rel)[o] \in {Passed, Skipped}
      BY <2>1, <3>1, <3>2, <3>4, <3>6 DEF check_oracle1
    <3> QED BY <1>8, <3>7
  <2> QED BY <2>2, <2>3
<1>11. CASE o = 2
  <2>1. AloneOf(args, rel)[o] = check_oracle2(impl, Reference, t, meta, policy)
    BY <1>7, <1>11 DEF AloneOf, Verdicts
  <2>2. CASE Oracle2Skips(meta, policy)
    BY <1>8, <2>1, <2>2 DEF check_oracle2
  <2>3. CASE ~Oracle2Skips(meta, policy)
    <3>1. AloneOf(args, rel)[o] = Oracle2Native(impl, Reference, t, meta)
      BY <1>6, <2>1, <2>3 DEF check_oracle2
    <3>2. /\ theirs["wasm"].code = 0 /\ meta.wasm_sha256 = sha256(theirs["wasm"].out)
      BY <1>2, <2>3 DEF Oracle2Skips
    <3>3. impl[t]["wasm"].code = 0 /\ impl[t]["wasm"].out = theirs["wasm"].out
      BY <1>2, <1>4, <1>5, <3>2
    <3> HIDE DEF impl, policy, meta, t
    <3>4. Oracle2Native(impl, Reference, t, meta) = Passed
      BY <3>2, <3>3 DEF Oracle2Native, _ladder
    <3> QED BY <1>8, <3>1, <3>4
  <2> QED BY <2>2, <2>3
<1>12. CASE o = 3
  <2>1. AloneOf(args, rel)[o] = check_oracle3(impl, t, meta, golden[rel], policy, rel \in SPAN_EXEMPT)
    BY <1>12 DEF AloneOf, Verdicts
  <2>2. PICK run, want : run = impl[t]["check"] /\ want = theirs["check"].err.diags
    OBVIOUS
  <2>3. run.err.json /\ run.code = meta.diag_code /\ Normalized(run.err.diags) = want
    BY <1>2, <1>4, <1>5, <2>2
  <2>4. GatedDifferences(want, want) = {}
    BY DEF GatedDifferences
  <2>5. (IF golden[rel].diag = None THEN <<>> ELSE golden[rel].diag) = want
    BY <1>2, <2>2
  <2> HIDE DEF impl, policy, meta, t
  <2>6. \/ AloneOf(args, rel)[o] = Skipped
        \/ AloneOf(args, rel)[o] =
              Verdict("passed", {}, {} \cup ReportedDifferences(want, want))
    BY <1>6, <2>1, <2>2, <2>3, <2>4, <2>5 DEF check_oracle3
  <2> QED BY <1>8, <2>6
<1> QED BY <1>9, <1>10, <1>11, <1>12

\* The reference passes its own goldens under --self-test, wherever the checkout is and
\* whatever is exempted for the port: a failure of cmd_run there is a bug of the harness.
THEOREM SelfTestPasses == Spec => []SelfTestIsGreen
<1>1. RunInv => SelfTestIsGreen
  <2> SUFFICES ASSUME RunInv, Compared, Fresh, ListsAreTrue, world.slow = {},
                      outcome.args.self_test
               PROVE  outcome.code = 0
    BY DEF SelfTestIsGreen
  <2>1. ReportState(outcome) /\ GoldenInv
    BY DEF RunInv, Reported
  <2>2. PICK args, total : args = outcome.args /\ total = outcome.total
    OBVIOUS
  <2>3. args \in Invocations /\ DOMAIN total = args.oracles /\ index # None
    BY <2>1, <2>2 DEF ReportState
  <2>4. ASSUME NEW o \in args.oracles, o # 4 PROVE total[o].failed = 0
    <3>1. SequentialOf(o, args, total[o])
      BY <2>1, <2>2, <2>4 DEF ReportState
    <3>2. total[o].failed = Cardinality({rel \in Graded : AloneOf(args, rel)[o].count = "failed"})
      BY <3>1 DEF SequentialOf
    <3>3. \A rel \in Graded : AloneOf(args, rel)[o].count # "failed"
      <4> TAKE rel \in Graded
      <4>1. FreshOf(rel)
        BY DEF Fresh, FreshOf
      <4> QED BY <2>1, <2>2, <2>3, <2>4, <4>1, SelfTestVerdict
    <3>4. {rel \in Graded : AloneOf(args, rel)[o].count = "failed"} = {}
      BY <3>3
    <3> QED BY <3>2, <3>4, FS_EmptySet
  <2>5. ~Gates(total)
    BY <2>3, <2>4 DEF Gates
  <2> QED BY <2>1, <2>2, <2>5 DEF ReportState
<1> QED BY <1>1, RunsRecorded, PTL
=============================================================================
