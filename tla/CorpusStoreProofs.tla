------------------------- MODULE CorpusStoreProofs -------------------------
(***************************************************************************)
(* Proofs about CorpusStore: what `collect` and `adopt` leave in            *)
(* test/corpus/ and in its manifest, whatever was interrupted before.       *)
(***************************************************************************)
EXTENDS CorpusStore, FunctionTheorems, SequenceTheorems, FiniteSetTheorems, TLAPS

-----------------------------------------------------------------------------
(* The invariant.                                                          *)

\* The memory of a collect.
Memory(sources, todo, current, pass, n, mf, counts) ==
    [cmd |-> "collect", sources |-> sources, todo |-> todo, current |-> current,
     pass |-> pass, n |-> n, manifest |-> mf, counts |-> counts]

\* The text of a corpus file is of the input that the manifest mf names, or of a module
\* that was left behind.
Traced(mf, rel) ==
    \/ mf[rel] = disk[rel]
    \/ SourceOf(rel) = "spec" /\ LeftBehind(disk[rel], mf[rel], rel[3])

\* The scratch directory holds modules of the scripts that were split, and all modules of
\* the script that the collector is in: of those it has no other.
Scratch(P) ==
    /\ \A key \in DOMAIN P.scratch : key = <<key[1], key[2]>> /\ \E i \in 1..P.at :
          /\ FilesOf("spec")[i].stem = key[1] /\ key[2] \in FilesOf("spec")[i].parts
          /\ P.scratch[key] = FilesOf("spec")[i].file
    /\ P.open => LET f == FilesOf("spec")[P.at] IN
          /\ \A p \in P.parts : <<f.stem, p>> \in DOMAIN P.scratch
          /\ \A p \in f.parts : P.scratch[<<f.stem, p>>] = f.file

\* The locals P of the collector of a source.
Sound(s, P) ==
    /\ P = Pass(P.at, P.open, P.parts, P.kept, P.scratch)
    /\ P.at \in Nat /\ P.open \in BOOLEAN /\ P.parts \subseteq Nat
    /\ ~P.open => P.parts = {}
    /\ P.open => s # None
    /\ s # None => P.at <= Len(FilesOf(s)) /\ (P.open => P.at # 0)
    /\ s = "spec" => Scratch(P)

\* What mf knows of a source comes from files that its collector has opened, and not
\* from the parts still to do.
Tagged(s, P, mf) ==
    \A rel \in DOMAIN mf : SourceOf(rel) = s =>
        \E i \in 1..P.at : FilesOf(s)[i].tag = rel[2] /\ (i = P.at => rel[3] \notin P.parts)

\* What a full collect has built of the manifest matches the disk, source by source.
FullSoFar ==
    /\ IsInjective(proc.todo)
    /\ proc.current \notin Range(proc.todo)
    /\ \A rel \in DOMAIN proc.manifest :
          /\ rel \in DOMAIN disk
          /\ SourceOf(rel) # "fuzz" => /\ SourceOf(rel) \notin Range(proc.todo)
                                       /\ Traced(proc.manifest, rel)
    /\ DOMAIN proc.counts = Range(Sources) \ (Range(proc.todo) \cup {proc.current})
    /\ \A s \in DOMAIN proc.counts : proc.counts[s] = Cardinality(OfSource({s}, disk))
    /\ proc.current # None =>
          /\ IsFiniteSet(OfSource({proc.current}, disk))
          /\ proc.n = Cardinality(OfSource({proc.current}, disk))
          /\ Tagged(proc.current, proc.pass, proc.manifest)

Collecting ==
    /\ proc.cmd = "collect"
    /\ proc = Memory(proc.sources, proc.todo, proc.current, proc.pass, proc.n,
                     proc.manifest, proc.counts)
    /\ proc.sources \in {Sources} \cup OnlyLists
    /\ proc.todo \in Seq(Range(proc.sources))
    /\ proc.current \in Range(proc.sources) \cup {None}
    /\ Sound(proc.current, proc.pass)
    /\ DOMAIN proc.manifest \subseteq Rels
    /\ DOMAIN proc.counts \subseteq Range(Sources)
    /\ Readable => \A rel \in DOMAIN manifest.files :
          SourceOf(rel) \notin Range(proc.sources) => rel \in DOMAIN proc.manifest
    /\ \A rel \in DOMAIN disk :
          SourceOf(rel) \in Range(proc.sources) \ Range(proc.todo) => rel \in DOMAIN proc.manifest
    /\ \A rel \in DOMAIN proc.manifest : SourceOf(rel) = "fuzz" => rel \in DOMAIN disk
    /\ proc.sources = Sources => FullSoFar

Adopting ==
    /\ proc.cmd = "adopt"
    /\ proc = [cmd |-> "adopt", sources |-> <<>>, rel |-> proc.rel, file |-> proc.file,
               copied |-> proc.copied]
    /\ proc.copied \in BOOLEAN
    /\ proc.rel \in Rels /\ proc.rel[1] = "fuzz"
    /\ proc.copied => proc.rel \in DOMAIN disk

Exact ==
    /\ DOMAIN manifest.files = DOMAIN disk
    /\ \A s \in Range(Sources) : manifest.counts[s] = Cardinality(OfSource({s}, disk))
    /\ \A rel \in DOMAIN disk : SourceOf(rel) # "fuzz" => Traced(manifest.files, rel)

\* Every adopted file of which the manifest knows is on disk: no command removes one.
OnDisk ==
    /\ DOMAIN disk \subseteq Rels
    /\ Readable =>
          /\ DOMAIN manifest.files \subseteq Rels
          /\ DOMAIN manifest.counts \subseteq Range(Sources) \cup {"fuzz"}
          /\ \A rel \in DOMAIN manifest.files : SourceOf(rel) = "fuzz" => rel \in DOMAIN disk

CorpusInv ==
    /\ checkout \in Checkouts /\ tools \in BOOLEAN
    /\ OnDisk
    /\ proc = Idle \/ ((Collecting \/ Adopting) /\ outcome = NotEnded)
    /\ FullCollect("ok") => Exact
    /\ FullCollectBlockers

-----------------------------------------------------------------------------
(* Names, sources and lists of them.                                       *)

LEMMA SourceLists ==
  ASSUME NEW l \in {Sources} \cup OnlyLists
  PROVE  /\ l \in Seq(Range(Sources)) /\ Range(l) \subseteq Range(Sources)
         /\ None \notin Range(l) /\ l \in Seq(Range(l))
<1>1. Sources \in Seq(Range(Sources))
  BY SourcesAssumption DEF Range
<1>2. l \in Seq(Range(Sources))
  BY <1>1, SourcesAssumption
<1> QED BY <1>2, SourcesAssumption DEF Range

LEMMA Names ==
  ASSUME NEW rel \in Rels
  PROVE  SourceOf(rel) \in Range(Sources) \cup {"fuzz"}
BY DEF Rels, SourceOf

LEMMA FuzzIsNoSource == "fuzz" \notin Range(Sources)
BY SourcesAssumption DEF Range

\* A file of the checkout and the corpus names of its parts.
LEMMA FileNames ==
  ASSUME checkout \in Checkouts, NEW s \in Range(Sources)
  PROVE  /\ Len(FilesOf(s)) \in Nat
         /\ \A i \in 1..Len(FilesOf(s)) :
              /\ FilesOf(s) = checkout[s] /\ i \in DOMAIN checkout[s]
              /\ FilesOf(s)[i].parts \subseteq Nat
              /\ \A n \in Nat : /\ <<s, FilesOf(s)[i].tag, n>> \in Rels
                               /\ SourceOf(<<s, FilesOf(s)[i].tag, n>>) = s
<1>1. checkout[s] \in Seq(File) /\ Len(<< >>) = 0
  BY SourcesAssumption
<1>2. Len(FilesOf(s)) \in Nat /\ (FilesOf(s) = checkout[s] \/ Len(FilesOf(s)) = 0)
  BY <1>1, LenProperties DEF FilesOf
<1> SUFFICES ASSUME NEW i \in 1..Len(FilesOf(s))
             PROVE  /\ FilesOf(s) = checkout[s] /\ i \in DOMAIN checkout[s]
                    /\ FilesOf(s)[i].parts \subseteq Nat
                    /\ \A n \in Nat : /\ <<s, FilesOf(s)[i].tag, n>> \in Rels
                                     /\ SourceOf(<<s, FilesOf(s)[i].tag, n>>) = s
  BY <1>2
<1> DEFINE f == checkout[s][i]
<1>3. FilesOf(s) = checkout[s] /\ i \in DOMAIN checkout[s] /\ f \in File
  BY <1>1, <1>2, LenProperties, ElementOfSeq
<1>4. f \in Range(checkout[s])
  BY <1>3 DEF Range
<1>5. f \in UNION {Range(c[r]) : c \in Checkouts, r \in Range(Sources)}
  BY <1>4
<1>6. f.tag \in Tags
  BY <1>5 DEF Tags
<1>7. f.parts \subseteq Nat
  BY <1>3 DEF File
<1> QED BY <1>3, <1>6, <1>7 DEF Rels, SourceOf

\* The head and the tail of a list.
LEMMA HeadTail ==
  ASSUME NEW S, NEW t \in Seq(S), t # <<>>
  PROVE  /\ Head(t) \in Range(t) /\ Head(t) \in S /\ Tail(t) \in Seq(S)
         /\ Range(t) = Range(Tail(t)) \cup {Head(t)}
         /\ IsInjective(t) => IsInjective(Tail(t)) /\ Head(t) \notin Range(Tail(t))
<1>1. /\ Len(t) \in Nat \ {0} /\ Head(t) = t[1] /\ Tail(t) \in Seq(S)
      /\ Len(Tail(t)) = Len(t) - 1 /\ \A i \in 1..Len(t) - 1 : Tail(t)[i] = t[i + 1]
      /\ DOMAIN t = 1..Len(t) /\ DOMAIN Tail(t) = 1..(Len(t) - 1)
  BY HeadTailProperties, LenProperties
<1>2. Head(t) \in Range(t) /\ Head(t) \in S
  BY <1>1 DEF Range
<1>3. Range(t) = Range(Tail(t)) \cup {Head(t)}
  <2>1. \A i \in DOMAIN t : t[i] \in Range(Tail(t)) \cup {Head(t)}
    <3> SUFFICES ASSUME NEW i \in 2..Len(t) PROVE t[i] \in Range(Tail(t))
      BY <1>1
    <3>1. i - 1 \in DOMAIN Tail(t) /\ Tail(t)[i - 1] = t[i]
      BY <1>1
    <3> QED BY <3>1 DEF Range
  <2>2. \A i \in DOMAIN Tail(t) : i + 1 \in DOMAIN t /\ Tail(t)[i] = t[i + 1]
    BY <1>1
  <2> QED BY <1>2, <2>1, <2>2 DEF Range
<1>4. ASSUME IsInjective(t) PROVE IsInjective(Tail(t)) /\ Head(t) \notin Range(Tail(t))
  BY <1>1, <1>4 DEF IsInjective, Range
<1> QED BY <1>1, <1>2, <1>3, <1>4

\* Files of a source, after one is put and after the subtree of one is removed.
LEMMA PutFile ==
  ASSUME NEW d, NEW rel, NEW v
  PROVE  /\ DOMAIN Put(d, rel, v) = DOMAIN d \cup {rel} /\ Put(d, rel, v)[rel] = v
         /\ \A r \in DOMAIN d : r # rel => Put(d, rel, v)[r] = d[r]
         /\ \A s : SourceOf(rel) # s => OfSource({s}, Put(d, rel, v)) = OfSource({s}, d)
         /\ OfSource({SourceOf(rel)}, Put(d, rel, v)) = OfSource({SourceOf(rel)}, d) \cup {rel}
BY DEF Put, OfSource

LEMMA ClearedFiles ==
  ASSUME NEW s
  PROVE  /\ DOMAIN Cleared(s) = {r \in DOMAIN disk : SourceOf(r) # s}
         /\ \A r \in DOMAIN Cleared(s) : Cleared(s)[r] = disk[r]
         /\ OfSource({s}, Cleared(s)) = {}
         /\ \A u : u # s => OfSource({u}, Cleared(s)) = OfSource({u}, disk)
<1>1. Cleared(s) = [r \in {x \in DOMAIN disk : SourceOf(x) # s} |-> disk[r]]
  BY DEF Cleared, Restrict, OfSource
<1> QED BY <1>1 DEF OfSource

-----------------------------------------------------------------------------
(* Commands and their ends.                                                *)

\* A step of a command in progress starts from what is known of its memory.
LEMMA InProgress ==
  ASSUME CorpusInv
  PROVE  /\ proc.cmd = "collect" => Collecting /\ outcome = NotEnded
         /\ proc.cmd = "adopt" => Adopting /\ outcome = NotEnded
<1>1. Idle.cmd = "none"
  BY DEF Idle
<1> QED BY <1>1 DEF CorpusInv, Collecting, Adopting

\* A command that is going on has nothing to say of a full collect, and one that
\* ends in another way than the two of the properties has neither.
LEMMA NotYet ==
  ASSUME outcome' = NotEnded
  PROVE  (FullCollect("ok") => Exact)' /\ FullCollectBlockers'
BY DEF NotEnded, Ending, FullCollect, FullCollectBlockers

LEMMA EndsOtherwise ==
  ASSUME outcome'.result \notin {"ok", "missing"},
         outcome'.result = "unreadable" /\ outcome'.cmd = "collect" => manifest' = Cut,
         outcome'.result = "duplicate" => DuplicateStems(checkout["docs"])',
         outcome'.result = "collision" /\ outcome'.sources = Sources => SharedTag'
  PROVE  (FullCollect("ok") => Exact)' /\ FullCollectBlockers'
BY DEF FullCollect, FullCollectBlockers

LEMMA Interrupted ==
  ASSUME Exit("interrupted")
  PROVE  proc' = Idle /\ (FullCollect("ok") => Exact)' /\ FullCollectBlockers'
<1>1. proc' = Idle /\ outcome'.result = "interrupted"
  BY DEF Exit, ExitWith, Ending
<1> QED BY <1>1, EndsOtherwise

\* What becomes of the memory of a collect.
LEMMA MemoryOfPass ==
  ASSUME Collecting, NEW q, NEW P,
         q = [proc EXCEPT !.pass = P]
  PROVE  q = Memory(proc.sources, proc.todo, proc.current, P, proc.n, proc.manifest, proc.counts)
<1>1. PICK s0, t0, c0, i0, w0, m0, n0 : proc = Memory(s0, t0, c0, i0, w0, m0, n0)
  BY DEF Collecting
<1>2. /\ proc.sources = s0 /\ proc.todo = t0 /\ proc.current = c0 /\ proc.pass = i0
      /\ proc.n = w0 /\ proc.manifest = m0 /\ proc.counts = n0
  BY <1>1 DEF Memory
<1>3. q = Memory(s0, t0, c0, P, w0, m0, n0)
  BY <1>1 DEF Memory
<1> QED BY <1>2, <1>3

LEMMA MemoryOfStart ==
  ASSUME Collecting, NEW q, NEW l, NEW c, NEW P,
         q = [proc EXCEPT !.todo = l, !.current = c, !.pass = P, !.n = 0]
  PROVE  q = Memory(proc.sources, l, c, P, 0, proc.manifest, proc.counts)
<1>1. PICK s0, t0, c0, i0, w0, m0, n0 : proc = Memory(s0, t0, c0, i0, w0, m0, n0)
  BY DEF Collecting
<1>2. /\ proc.sources = s0 /\ proc.todo = t0 /\ proc.current = c0 /\ proc.pass = i0
      /\ proc.n = w0 /\ proc.manifest = m0 /\ proc.counts = n0
  BY <1>1 DEF Memory
<1>3. q = Memory(s0, l, c, P, 0, m0, n0)
  BY <1>1 DEF Memory
<1> QED BY <1>2, <1>3

LEMMA MemoryOfWrite ==
  ASSUME Collecting, NEW q, NEW P, NEW n, NEW m,
         q = [proc EXCEPT !.pass = P, !.n = n, !.manifest = m]
  PROVE  q = Memory(proc.sources, proc.todo, proc.current, P, n, m, proc.counts)
<1>1. PICK s0, t0, c0, i0, w0, m0, n0 : proc = Memory(s0, t0, c0, i0, w0, m0, n0)
  BY DEF Collecting
<1>2. /\ proc.sources = s0 /\ proc.todo = t0 /\ proc.current = c0 /\ proc.pass = i0
      /\ proc.n = w0 /\ proc.manifest = m0 /\ proc.counts = n0
  BY <1>1 DEF Memory
<1>3. q = Memory(s0, t0, c0, P, n, m, n0)
  BY <1>1 DEF Memory
<1> QED BY <1>2, <1>3

LEMMA MemoryOfCount ==
  ASSUME Collecting, NEW q, NEW c, NEW k, NEW P,
         q = [proc EXCEPT !.current = c, !.counts = k, !.pass = P]
  PROVE  q = Memory(proc.sources, proc.todo, c, P, proc.n, proc.manifest, k)
<1>1. PICK s0, t0, c0, i0, w0, m0, n0 : proc = Memory(s0, t0, c0, i0, w0, m0, n0)
  BY DEF Collecting
<1>2. /\ proc.sources = s0 /\ proc.todo = t0 /\ proc.current = c0 /\ proc.pass = i0
      /\ proc.n = w0 /\ proc.manifest = m0 /\ proc.counts = n0
  BY <1>1 DEF Memory
<1>3. q = Memory(s0, t0, c, P, w0, m0, k)
  BY <1>1 DEF Memory
<1> QED BY <1>2, <1>3

LEMMA MemoryFields ==
  ASSUME NEW s, NEW t, NEW c, NEW P, NEW n, NEW m, NEW k, proc' = Memory(s, t, c, P, n, m, k)
  PROVE  /\ proc'.cmd = "collect" /\ proc'.sources = s /\ proc'.todo = t /\ proc'.current = c
         /\ proc'.pass = P /\ proc'.n = n /\ proc'.manifest = m /\ proc'.counts = k
         /\ proc' = Memory(proc'.sources, proc'.todo, proc'.current, proc'.pass, proc'.n,
                           proc'.manifest, proc'.counts)
BY DEF Memory

LEMMA PassFields ==
  ASSUME NEW at, NEW open, NEW parts, NEW kept, NEW scratch
  PROVE  LET P == Pass(at, open, parts, kept, scratch) IN
         /\ P.at = at /\ P.open = open /\ P.parts = parts /\ P.kept = kept
         /\ P.scratch = scratch
         /\ P = Pass(P.at, P.open, P.parts, P.kept, P.scratch)
BY DEF Pass

\* A collector that has not begun, and none at all.
LEMMA NothingOpened ==
  ASSUME checkout \in Checkouts, NEW s \in Range(Sources) \cup {None}
  PROVE  Sound(s, Pass(0, FALSE, {}, 0, << >>))
<1> DEFINE P == Pass(0, FALSE, {}, 0, << >>)
<1>1. /\ P.at = 0 /\ P.open = FALSE /\ P.open \in BOOLEAN /\ P.parts = {} /\ P.scratch = << >>
      /\ P = Pass(P.at, P.open, P.parts, P.kept, P.scratch)
  BY DEF Pass
<1> HIDE DEF P
<1>2. s # None => 0 <= Len(FilesOf(s))
  BY FileNames
<1>3. DOMAIN P.scratch = {}
  BY <1>1
<1>4. Sound(s, P)
  <2>1. s = "spec" => Scratch(P)
    BY <1>1, <1>3 DEF Scratch
  <2>2. P.parts \subseteq Nat /\ P.at \in Nat
    BY <1>1
  <2> QED BY <1>1, <1>2, <2>1, <2>2 DEF Sound
<1> QED BY <1>4 DEF P

LEMMA CorpusInitially == Init => CorpusInv
<1> SUFFICES ASSUME Init PROVE CorpusInv
  OBVIOUS
<1>1. DOMAIN disk = {}
  BY DEF Init
<1> QED BY <1>1 DEF Init, CorpusInv, OnDisk, Readable, FullCollect, NotEnded, Ending,
              FullCollectBlockers

-----------------------------------------------------------------------------
(* The steps of collect.                                                   *)

LEMMA CollectStarts ==
  ASSUME CorpusInv, NEW sources \in {Sources} \cup OnlyLists, cmd_collect(sources)
  PROVE  CorpusInv'
<1> DEFINE P == Pass(0, FALSE, {}, 0, << >>)
<1>1. UNCHANGED <<checkout, tools, disk, manifest>> /\ OnDisk'
  BY DEF cmd_collect, CorpusInv, OnDisk, Readable
<1>2. CASE manifest = Cut
  <2>1. proc' = Idle /\ outcome' = Ending("collect", sources, "unreadable", {})
    BY <1>2 DEF cmd_collect
  <2>2. (FullCollect("ok") => Exact)' /\ FullCollectBlockers'
    BY <1>1, <1>2, <2>1, EndsOtherwise DEF Ending
  <2> QED BY <1>1, <2>1, <2>2 DEF CorpusInv
<1>3. CASE manifest # Cut
  <2>1. /\ proc' = Memory(sources, sources, None, P, 0, CarriedForward(sources), << >>)
        /\ outcome' = NotEnded
    BY <1>3 DEF cmd_collect, Memory
  <2>2. /\ DOMAIN CarriedForward(sources)
             = IF manifest = None THEN {}
               ELSE {r \in DOMAIN manifest.files : SourceOf(r) \notin Range(sources)}
        /\ DOMAIN CarriedForward(sources) \subseteq Rels
    BY <1>3 DEF CarriedForward, Restrict, OfSource, CorpusInv, OnDisk, Readable
  <2>3. /\ proc'.cmd = "collect" /\ proc'.sources = sources /\ proc'.todo = sources
        /\ proc'.current = None /\ proc'.pass = P /\ proc'.manifest = CarriedForward(sources)
        /\ proc'.counts = << >>
        /\ proc' = Memory(proc'.sources, proc'.todo, proc'.current, proc'.pass, proc'.n,
                          proc'.manifest, proc'.counts)
    BY <2>1, MemoryFields
  <2>4. DOMAIN proc'.counts = {}
    BY <2>3
  <2>5. ASSUME sources = Sources PROVE FullSoFar'
    <3>1. IsInjective(sources) /\ None \notin Range(sources)
      BY <2>5, SourcesAssumption
    <3>2. \A rel \in DOMAIN proc'.manifest : rel \in DOMAIN disk /\ SourceOf(rel) = "fuzz"
      BY <1>3, <2>2, <2>3, <2>5, Names DEF CorpusInv, OnDisk, Readable
    <3>3. DOMAIN proc'.counts = Range(Sources) \ (Range(proc'.todo) \cup {proc'.current})
      BY <2>3, <2>4, <2>5
    <3> QED BY <1>1, <2>3, <2>4, <3>1, <3>2, <3>3 DEF FullSoFar
  <2>6. Sound(proc.current, proc.pass)'
    <3>1. Sound(None, P)
      BY NothingOpened DEF CorpusInv
    <3>2. P.open = FALSE /\ P.at = 0
      BY DEF Pass
    <3> HIDE DEF P
    <3> QED BY <1>1, <2>3, <3>1 DEF Sound, Scratch, FilesOf
  <2>7. Collecting'
    <3>1. sources \in Seq(Range(sources))
      BY SourceLists
    <3>2. \A rel \in DOMAIN proc'.manifest : SourceOf(rel) = "fuzz" => rel \in DOMAIN disk'
      BY <1>1, <1>3, <2>2, <2>3 DEF CorpusInv, OnDisk, Readable
    <3>3. Readable' => \A rel \in DOMAIN manifest'.files :
            SourceOf(rel) \notin Range(proc'.sources) => rel \in DOMAIN proc'.manifest
      BY <1>1, <2>2, <2>3 DEF Readable
    <3>4. Range(proc'.sources) \ Range(proc'.todo) = {}
      BY <2>3
    <3> QED BY <2>2, <2>3, <2>4, <2>5, <2>6, <3>1, <3>2, <3>3, <3>4 DEF Collecting
  <2> QED BY <1>1, <2>1, <2>7, NotYet DEF CorpusInv
<1> QED BY <1>2, <1>3

LEMMA SourceStarts ==
  ASSUME CorpusInv, collectSource
  PROVE  CorpusInv'
<1> DEFINE name == Head(proc.todo)
           P == Pass(0, FALSE, {}, 0, << >>)
<1>1. Collecting /\ outcome = NotEnded /\ proc.current = None /\ proc.todo # <<>>
  BY InProgress DEF collectSource
<1>2. disk' = Cleared(name) /\ UNCHANGED <<checkout, tools, manifest>>
  BY DEF collectSource
<1>3. /\ name \in Range(proc.todo) /\ name \in Range(proc.sources) /\ name \in Range(Sources)
      /\ Tail(proc.todo) \in Seq(Range(proc.sources))
      /\ Range(proc.todo) = Range(Tail(proc.todo)) \cup {name}
      /\ IsInjective(proc.todo) => IsInjective(Tail(proc.todo)) /\ name \notin Range(Tail(proc.todo))
      /\ name # "fuzz" /\ name # None
  <2>1. proc.todo \in Seq(Range(proc.sources)) /\ proc.sources \in {Sources} \cup OnlyLists
    BY <1>1 DEF Collecting
  <2>2. Range(proc.sources) \subseteq Range(Sources) /\ None \notin Range(proc.sources)
    BY <2>1, SourceLists
  <2>3. /\ name \in Range(proc.todo) /\ name \in Range(proc.sources)
        /\ Tail(proc.todo) \in Seq(Range(proc.sources))
        /\ Range(proc.todo) = Range(Tail(proc.todo)) \cup {name}
        /\ IsInjective(proc.todo) => IsInjective(Tail(proc.todo)) /\ name \notin Range(Tail(proc.todo))
    BY <1>1, <2>1, HeadTail
  <2> QED BY <2>2, <2>3, FuzzIsNoSource
<1>4. \/ Exit("duplicate") /\ DuplicateStems(checkout["docs"])
      \/ /\ outcome' = outcome
         /\ proc' = [proc EXCEPT !.todo = Tail(proc.todo), !.current = name, !.pass = P, !.n = 0]
  BY DEF collectSource
<1> HIDE DEF name, P
<1>5. /\ DOMAIN disk' = {r \in DOMAIN disk : SourceOf(r) # name}
      /\ \A r \in DOMAIN disk' : disk'[r] = disk[r]
      /\ OfSource({name}, disk') = {}
      /\ \A u : u # name => OfSource({u}, disk') = OfSource({u}, disk)
  BY <1>2, ClearedFiles
<1>6. OnDisk'
  BY <1>2, <1>3, <1>5 DEF CorpusInv, OnDisk, Readable
<1>7. CASE Exit("duplicate") /\ DuplicateStems(checkout["docs"])
  <2>1. proc' = Idle /\ outcome'.result = "duplicate" /\ DuplicateStems(checkout["docs"])'
    BY <1>2, <1>7 DEF Exit, ExitWith, Ending, DuplicateStems
  <2> QED BY <1>2, <1>6, <2>1, EndsOtherwise DEF CorpusInv
<1>8. CASE /\ outcome' = outcome
           /\ proc' = [proc EXCEPT !.todo = Tail(proc.todo), !.current = name, !.pass = P, !.n = 0]
  <2>1. proc' = Memory(proc.sources, Tail(proc.todo), name, P, 0, proc.manifest, proc.counts)
    BY <1>1, <1>8, MemoryOfStart
  <2>2. /\ proc'.cmd = "collect" /\ proc'.sources = proc.sources
        /\ proc'.todo = Tail(proc.todo) /\ proc'.current = name
        /\ proc'.pass = P /\ proc'.n = 0
        /\ proc'.manifest = proc.manifest /\ proc'.counts = proc.counts
        /\ proc' = Memory(proc'.sources, proc'.todo, proc'.current, proc'.pass, proc'.n,
                          proc'.manifest, proc'.counts)
    BY <2>1, MemoryFields
  <2>3. Sound(proc.current, proc.pass)'
    <3>1. Sound(name, P)
      BY <1>3, NothingOpened DEF CorpusInv, P
    <3> QED BY <1>2, <2>2, <3>1 DEF Sound, Scratch, FilesOf
  <2>4. \A rel \in DOMAIN disk' : SourceOf(rel) \in Range(proc'.sources) \ Range(proc'.todo)
                                    => rel \in DOMAIN proc'.manifest
    BY <1>1, <1>3, <1>5, <2>2 DEF Collecting
  <2>5. \A rel \in DOMAIN proc'.manifest : SourceOf(rel) = "fuzz" => rel \in DOMAIN disk'
    BY <1>1, <1>3, <1>5, <2>2 DEF Collecting
  <2>6. ASSUME proc.sources = Sources PROVE FullSoFar'
    <3>1. FullSoFar
      BY <1>1, <2>6 DEF Collecting
    <3>2. \A rel \in DOMAIN proc.manifest :
             /\ rel \in DOMAIN disk' /\ SourceOf(rel) # name
             /\ SourceOf(rel) # "fuzz" => /\ SourceOf(rel) \notin Range(Tail(proc.todo))
                                          /\ Traced(proc.manifest, rel)'
      BY <1>2, <1>3, <1>5, <3>1, <2>2 DEF FullSoFar, Traced, LeftBehind
    <3>3. /\ DOMAIN proc.counts = Range(Sources) \ (Range(Tail(proc.todo)) \cup {name})
          /\ \A s \in DOMAIN proc.counts : proc.counts[s] = Cardinality(OfSource({s}, disk'))
      BY <1>1, <1>3, <1>5, <3>1, SourcesAssumption, ZenonT(60) DEF FullSoFar
    <3>4. /\ IsFiniteSet(OfSource({proc'.current}, disk'))
          /\ proc'.n = Cardinality(OfSource({proc'.current}, disk'))
      BY <1>5, <2>2, FS_EmptySet
    <3>5. Tagged(proc.current, proc.pass, proc.manifest)'
      BY <2>2, <3>2 DEF Tagged
    <3>6. \A rel \in DOMAIN proc'.manifest :
             /\ rel \in DOMAIN disk'
             /\ SourceOf(rel) # "fuzz" => /\ SourceOf(rel) \notin Range(proc'.todo)
                                          /\ Traced(proc.manifest, rel)'
      BY <2>2, <3>2
    <3> QED BY <1>3, <2>2, <3>1, <3>3, <3>4, <3>5, <3>6 DEF FullSoFar
  <2>7. Collecting'
    BY <1>1, <1>2, <1>3, <2>2, <2>3, <2>4, <2>5, <2>6 DEF Collecting, Readable
  <2> QED BY <1>1, <1>2, <1>6, <1>8, <2>7, NotYet DEF CorpusInv
<1> QED BY <1>4, <1>7, <1>8

-----------------------------------------------------------------------------
(* Steps that move a collector on without writing.                         *)

LEMMA PassGoesOn ==
  ASSUME CorpusInv, proc.cmd = "collect", NEW P, GoesOn(P), Sound(proc.current, P),
         proc.sources = Sources /\ proc.current # None =>
           Tagged(proc.current, P, proc.manifest)
  PROVE  CorpusInv'
<1>1. /\ Collecting /\ outcome = NotEnded
      /\ UNCHANGED <<checkout, tools, disk, manifest, outcome>>
  BY InProgress DEF GoesOn
<1>2. proc' = Memory(proc.sources, proc.todo, proc.current, P, proc.n, proc.manifest,
                     proc.counts)
  BY <1>1, MemoryOfPass DEF GoesOn
<1>3. /\ proc'.cmd = "collect" /\ proc'.sources = proc.sources /\ proc'.todo = proc.todo
      /\ proc'.current = proc.current /\ proc'.pass = P /\ proc'.n = proc.n
      /\ proc'.manifest = proc.manifest /\ proc'.counts = proc.counts
      /\ proc' = Memory(proc'.sources, proc'.todo, proc'.current, proc'.pass, proc'.n,
                        proc'.manifest, proc'.counts)
  BY <1>2, MemoryFields
<1>4. Sound(proc.current, proc.pass)'
  BY <1>1, <1>3 DEF Sound, Scratch, FilesOf
<1>5. ASSUME proc.sources = Sources PROVE FullSoFar'
  <2>1. FullSoFar
    BY <1>1, <1>5 DEF Collecting
  <2>2. \A s : OfSource({s}, disk') = OfSource({s}, disk)
    BY <1>1
  <2>3. \A rel : Traced(proc.manifest, rel)' <=> Traced(proc.manifest, rel)
    BY <1>1, <1>3 DEF Traced, LeftBehind
  <2>4. proc'.current # None => Tagged(proc.current, proc.pass, proc.manifest)'
    BY <1>1, <1>3, <1>5 DEF Tagged, FilesOf
  <2> QED BY <1>1, <1>3, <2>1, <2>2, <2>3, <2>4 DEF FullSoFar
<1>6. Collecting'
  BY <1>1, <1>3, <1>4, <1>5 DEF Collecting, Readable
<1>7. OnDisk'
  BY <1>1 DEF CorpusInv, OnDisk, Readable
<1> QED BY <1>1, <1>6, <1>7, NotYet DEF CorpusInv

LEMMA NextFile ==
  ASSUME CorpusInv, Comes
  PROVE  /\ proc.cmd = "collect" /\ proc.current \in Range(Sources)
         /\ Sound(proc.current, proc.pass) /\ proc.pass.at \in Nat
         /\ proc.pass.at + 1 \in 1..Len(FilesOf(proc.current))
         /\ FilesOf(proc.current)[proc.pass.at + 1].parts \subseteq Nat
         /\ proc.sources = Sources /\ proc.current # None =>
              Tagged(proc.current, proc.pass, proc.manifest)
<1>1. Collecting /\ proc.current # None /\ proc.pass.at < Len(FilesOf(proc.current))
  BY InProgress DEF Comes
<1>2. proc.current \in Range(Sources)
  BY <1>1, SourceLists DEF Collecting
<1>3. Len(FilesOf(proc.current)) \in Nat /\ proc.pass.at \in Nat
  BY <1>1, <1>2, FileNames DEF CorpusInv, Collecting, Sound
<1>4. proc.pass.at + 1 \in 1..Len(FilesOf(proc.current))
  BY <1>1, <1>3
<1>5. FilesOf(proc.current)[proc.pass.at + 1].parts \subseteq Nat
  BY <1>2, <1>4, FileNames DEF CorpusInv
<1> QED BY <1>1, <1>2, <1>3, <1>4, <1>5 DEF Collecting, FullSoFar

\* What is known does not come from a file that was not opened.
LEMMA NextTagged ==
  ASSUME NEW s, NEW P, NEW Q, NEW mf, P.at \in Nat, Q.at = P.at + 1, Tagged(s, P, mf)
  PROVE  Tagged(s, Q, mf)
<1> SUFFICES ASSUME NEW rel \in DOMAIN mf, SourceOf(rel) = s
             PROVE  \E i \in 1..Q.at : /\ FilesOf(s)[i].tag = rel[2]
                                       /\ i = Q.at => rel[3] \notin Q.parts
  BY DEF Tagged
<1>1. PICK i \in 1..P.at : FilesOf(s)[i].tag = rel[2]
  BY DEF Tagged
<1>2. i \in 1..Q.at /\ i # Q.at
  BY <1>1
<1> QED BY <1>1, <1>2

LEMMA FileOpened ==
  ASSUME CorpusInv, openFile
  PROVE  CorpusInv'
<1> DEFINE s == proc.current
           f == FilesOf(s)[proc.pass.at + 1]
           Q == Pass(proc.pass.at + 1, TRUE, f.parts, 0, proc.pass.scratch)
<1>1. GoesOn(Q) /\ Comes /\ s # "spec"
  BY DEF openFile
<1>2. /\ Q.at = proc.pass.at + 1 /\ Q.open = TRUE /\ Q.parts = f.parts
      /\ Q = Pass(Q.at, Q.open, Q.parts, Q.kept, Q.scratch)
  BY DEF Pass
<1> HIDE DEF Q
<1>3. /\ proc.cmd = "collect" /\ proc.pass.at \in Nat
      /\ proc.pass.at + 1 \in 1..Len(FilesOf(s)) /\ f.parts \subseteq Nat /\ s # None
  BY <1>1, NextFile DEF Comes
<1>6. Len(FilesOf(s)) \in Nat
  BY <1>1, NextFile, FileNames DEF CorpusInv
<1>7. Q.at \in Nat /\ Q.at # 0 /\ Q.at <= Len(FilesOf(s))
  BY <1>2, <1>3, <1>6
<1>4. Sound(s, Q)
  BY <1>1, <1>2, <1>3, <1>7 DEF Sound
<1>5. proc.sources = Sources => Tagged(s, Q, proc.manifest)
  BY <1>1, <1>2, <1>3, NextFile, NextTagged
<1> QED BY <1>1, <1>3, <1>4, <1>5, PassGoesOn

\* The scratch directory after the next script was split, wholly or partly.
LEMMA ScriptSplit ==
  ASSUME NEW P, Sound("spec", P), NEW f, f = FilesOf("spec")[P.at + 1],
         NEW parts \in SUBSET f.parts, f.parts \subseteq Nat,
         \A i \in 1..P.at : FilesOf("spec")[i].parts \subseteq Nat,
         NEW Q, Q.at = P.at + 1, Q.scratch = SplitInto(f, parts, P.scratch),
         Q.open => parts = f.parts /\ Q.parts = Listed(f.stem, Q.scratch)
  PROVE  Scratch(Q) /\ Listed(f.stem, Q.scratch) \subseteq Nat
<1> DEFINE K == {f.stem} \X parts
           file(i) == FilesOf("spec")[i]
<1>1. /\ DOMAIN Q.scratch = DOMAIN P.scratch \cup K
      /\ \A key \in K : Q.scratch[key] = f.file
      /\ \A key \in DOMAIN P.scratch : key \notin K => Q.scratch[key] = P.scratch[key]
  BY DEF SplitInto, Updated, Directory
<1>2. P.at \in Nat /\ Scratch(P)
  BY DEF Sound
<1>7. \A key \in DOMAIN Q.scratch : key = <<key[1], key[2]>>
  BY <1>1, <1>2 DEF Scratch
<1>3. ASSUME NEW key \in DOMAIN Q.scratch
      PROVE  \E i \in 1..Q.at : /\ file(i).stem = key[1] /\ key[2] \in file(i).parts
                                /\ Q.scratch[key] = file(i).file
  <2>1. CASE key \in K
    <3>1. key[1] = f.stem /\ key[2] \in f.parts /\ Q.scratch[key] = f.file
      BY <1>1, <2>1
    <3>2. Q.at \in 1..Q.at /\ file(Q.at) = f
      BY <1>2
    <3> QED BY <3>1, <3>2
  <2>2. CASE key \notin K
    <3>1. PICK i \in 1..P.at : /\ file(i).stem = key[1] /\ key[2] \in file(i).parts
                               /\ P.scratch[key] = file(i).file
      BY <1>1, <1>2, <2>2 DEF Scratch
    <3>2. i \in 1..Q.at
      BY <1>2, <3>1
    <3> QED BY <1>1, <2>2, <3>1, <3>2
  <2> QED BY <2>1, <2>2
<1>4. ASSUME Q.open
      PROVE  /\ \A p \in Q.parts : <<f.stem, p>> \in DOMAIN Q.scratch
             /\ \A p \in f.parts : Q.scratch[<<f.stem, p>>] = f.file
  <2>1. ASSUME NEW p \in Q.parts PROVE <<f.stem, p>> \in DOMAIN Q.scratch
    <3>1. PICK key \in DOMAIN Q.scratch : key[1] = f.stem /\ key[2] = p
      BY <1>4, <2>1 DEF Listed
    <3> QED BY <1>7, <3>1
  <2>2. \A p \in f.parts : <<f.stem, p>> \in K
    BY <1>4
  <2> QED BY <1>1, <2>1, <2>2
<1>5. FilesOf("spec")[Q.at] = f
  OBVIOUS
<1>6. ASSUME NEW p \in Listed(f.stem, Q.scratch) PROVE p \in Nat
  <2>1. PICK key \in DOMAIN Q.scratch : key[2] = p
    BY <1>6 DEF Listed
  <2>2. PICK i \in 1..Q.at : p \in file(i).parts
    BY <1>3, <2>1
  <2>3. i \in 1..P.at \/ i = P.at + 1
    BY <1>2, <2>2
  <2> QED BY <2>2, <2>3
<1> QED BY <1>3, <1>4, <1>5, <1>6, <1>7 DEF Scratch

LEMMA JsonFromWast ==
  ASSUME CorpusInv, json_from_wast \/ splitFails
  PROVE  CorpusInv'
<1> DEFINE f == FilesOf("spec")[proc.pass.at + 1]
           split(parts) == SplitInto(f, parts, proc.pass.scratch)
<1>1. Comes /\ proc.current = "spec"
  BY DEF json_from_wast, splitFails
<1>2. /\ proc.cmd = "collect" /\ "spec" \in Range(Sources) /\ Sound("spec", proc.pass)
      /\ proc.pass.at \in Nat /\ proc.pass.at + 1 \in 1..Len(FilesOf("spec"))
      /\ f.parts \subseteq Nat /\ proc.current # None
      /\ proc.sources = Sources => Tagged("spec", proc.pass, proc.manifest)
  BY <1>1, NextFile DEF Comes
<1>3. \A i \in 1..proc.pass.at : FilesOf("spec")[i].parts \subseteq Nat
  BY <1>2, FileNames DEF CorpusInv
<1>4. ASSUME NEW Q, NEW parts \in SUBSET f.parts, GoesOn(Q), Q.at = proc.pass.at + 1,
             Q = Pass(Q.at, Q.open, Q.parts, Q.kept, Q.scratch), Q.scratch = split(parts),
             \/ Q.open = TRUE /\ parts = f.parts /\ Q.parts = Listed(f.stem, Q.scratch)
             \/ Q.open = FALSE /\ Q.parts = {}
      PROVE  CorpusInv'
  <2>1. Scratch(Q) /\ Listed(f.stem, Q.scratch) \subseteq Nat
    BY <1>2, <1>3, <1>4, ScriptSplit
  <2>2. /\ Q.at \in Nat /\ Q.at # 0 /\ Q.at <= Len(FilesOf("spec")) /\ Q.open \in BOOLEAN
        /\ Q.parts \subseteq Nat /\ (~Q.open => Q.parts = {})
    <3>1. Len(FilesOf("spec")) \in Nat
      BY <1>2, FileNames DEF CorpusInv
    <3>2. Q.at \in Nat /\ Q.at # 0 /\ Q.at <= Len(FilesOf("spec"))
      BY <1>2, <1>4, <3>1
    <3> HIDE DEF f, split
    <3>3. Q.open \in BOOLEAN /\ (~Q.open => Q.parts = {})
      BY <1>4
    <3>4. Q.parts \subseteq Nat
      BY <1>4, <2>1
    <3> QED BY <3>2, <3>3, <3>4
  <2>3. Sound("spec", Q)
    BY <1>1, <1>2, <1>4, <2>1, <2>2 DEF Sound
  <2>4. proc.sources = Sources => Tagged("spec", Q, proc.manifest)
    BY <1>2, <1>4, NextTagged
  <2> QED BY <1>1, <1>2, <1>4, <2>3, <2>4, PassGoesOn
<1>5. CASE json_from_wast
  <2> DEFINE Q == Pass(proc.pass.at + 1, TRUE, Listed(f.stem, split(f.parts)), 0, split(f.parts))
  <2>1. GoesOn(Q)
    BY <1>1, <1>5 DEF json_from_wast, Directory
  <2>2. /\ Q.at = proc.pass.at + 1 /\ Q.open = TRUE /\ Q.scratch = split(f.parts)
        /\ Q.parts = Listed(f.stem, Q.scratch)
        /\ Q = Pass(Q.at, Q.open, Q.parts, Q.kept, Q.scratch)
    BY DEF Pass
  <2> HIDE DEF Q, split
  <2> QED BY <1>4, <2>1, <2>2
<1>6. CASE splitFails
  <2>1. PICK parts \in SUBSET f.parts : GoesOn(Pass(proc.pass.at + 1, FALSE, {}, 0, split(parts)))
    BY <1>1, <1>6 DEF splitFails
  <2> DEFINE Q == Pass(proc.pass.at + 1, FALSE, {}, 0, split(parts))
  <2>2. /\ Q.at = proc.pass.at + 1 /\ Q.open = FALSE /\ Q.scratch = split(parts) /\ Q.parts = {}
        /\ Q = Pass(Q.at, Q.open, Q.parts, Q.kept, Q.scratch)
    BY DEF Pass
  <2>3. GoesOn(Q)
    BY <2>1
  <2> HIDE DEF Q, split
  <2> QED BY <1>4, <2>2, <2>3
<1> QED BY <1>5, <1>6

\* The collector drops parts of the file it is in, and stays in it or leaves it.
LEMMA PartsDropped ==
  ASSUME CorpusInv, proc.cmd = "collect", proc.pass.open, NEW parts \in SUBSET proc.pass.parts,
         NEW open \in BOOLEAN, NEW kept, ~open => parts = {},
         GoesOn(Pass(proc.pass.at, open, parts, kept, proc.pass.scratch))
  PROVE  CorpusInv'
<1> DEFINE P == proc.pass
           Q == Pass(P.at, open, parts, kept, P.scratch)
<1>1. /\ Q.at = P.at /\ Q.open = open /\ Q.parts = parts /\ Q.scratch = P.scratch
      /\ Q = Pass(Q.at, Q.open, Q.parts, Q.kept, Q.scratch)
  BY DEF Pass
<1>2. GoesOn(Q)
  OBVIOUS
<1> HIDE DEF Q
<1>3. Collecting /\ Sound(proc.current, P)
  BY InProgress DEF Collecting
<1>4. proc.current = "spec" => Scratch(Q)
  BY <1>1, <1>3 DEF Sound, Scratch
<1>5. Sound(proc.current, Q)
  BY <1>1, <1>3, <1>4 DEF Sound
<1>6. proc.sources = Sources /\ proc.current # None => Tagged(proc.current, Q, proc.manifest)
  BY <1>1, <1>3 DEF Collecting, FullSoFar, Tagged
<1> QED BY <1>2, <1>5, <1>6, PassGoesOn

\* A part that is taken, and its corpus name.
LEMMA PartTaken ==
  ASSUME CorpusInv, NEW p \in NextPart
  PROVE  /\ Collecting /\ outcome = NotEnded /\ proc.cmd = "collect"
         /\ proc.pass.open /\ p \in proc.pass.parts /\ p \in Nat
         /\ proc.current \in Range(proc.sources) /\ proc.current \in Range(Sources)
         /\ proc.current # "fuzz" /\ proc.current # None
         /\ proc.pass.at \in 1..Len(FilesOf(proc.current))
         /\ NameOf(p) \in Rels /\ SourceOf(NameOf(p)) = proc.current
         /\ NameOf(p)[2] = FilesOf(proc.current)[proc.pass.at].tag /\ NameOf(p)[3] = p
<1>1. Collecting /\ outcome = NotEnded /\ p \in proc.pass.parts
  BY InProgress DEF NextPart
<1>2. /\ proc.pass.open /\ p \in Nat /\ proc.current # None
      /\ proc.pass.at \in Nat /\ proc.pass.at # 0 /\ proc.pass.at <= Len(FilesOf(proc.current))
  BY <1>1 DEF Collecting, Sound
<1>3. /\ proc.current \in Range(proc.sources) /\ proc.current \in Range(Sources)
      /\ proc.current # "fuzz"
  BY <1>1, <1>2, SourceLists, FuzzIsNoSource DEF Collecting
<1>4. proc.pass.at \in 1..Len(FilesOf(proc.current))
  BY <1>2, <1>3, FileNames DEF CorpusInv
<1>5. NameOf(p) \in Rels /\ SourceOf(NameOf(p)) = proc.current
  BY <1>2, <1>3, <1>4, FileNames DEF CorpusInv, NameOf, Current
<1> QED BY <1>1, <1>2, <1>3, <1>4, <1>5 DEF NameOf, Current, Collecting

LEMMA PartSkipped ==
  ASSUME CorpusInv, NEW p \in NextPart, skipPart(p)
  PROVE  CorpusInv'
<1>1. proc.cmd = "collect" /\ proc.pass.open = TRUE
  BY PartTaken DEF Collecting, Sound
<1>2. proc.pass.parts \ {p} \in SUBSET proc.pass.parts
  OBVIOUS
<1>3. GoesOn(Pass(proc.pass.at, TRUE, proc.pass.parts \ {p}, proc.pass.kept, proc.pass.scratch))
  BY <1>1 DEF skipPart
<1> QED BY <1>1, <1>2, <1>3, PartsDropped

LEMMA FileClosed ==
  ASSUME CorpusInv, closeFile
  PROVE  CorpusInv'
<1>1. {} \in SUBSET proc.pass.parts
  OBVIOUS
<1> QED BY <1>1, PartsDropped DEF closeFile

-----------------------------------------------------------------------------
(* Steps that write a part, or end a source.                               *)

\* Two files that make one corpus name make one tag.
LEMMA CollisionIsShared ==
  ASSUME CorpusInv, NEW p \in NextPart, NameOf(p) \in DOMAIN proc.manifest,
         proc.sources = Sources
  PROVE  SharedTag
<1> DEFINE s == proc.current
           at == proc.pass.at
<1>1. /\ s \in Range(Sources) /\ at \in 1..Len(FilesOf(s)) /\ p \in proc.pass.parts
      /\ SourceOf(NameOf(p)) = s /\ NameOf(p)[2] = FilesOf(s)[at].tag /\ NameOf(p)[3] = p
      /\ Collecting /\ s # None
  BY PartTaken
<1>2. Tagged(s, proc.pass, proc.manifest)
  BY <1>1 DEF Collecting, FullSoFar
<1>3. PICK i \in 1..at : FilesOf(s)[i].tag = FilesOf(s)[at].tag /\ (i = at => p \notin proc.pass.parts)
  BY <1>1, <1>2 DEF Tagged
<1>4. Len(FilesOf(s)) \in Nat
  BY <1>1, FileNames DEF CorpusInv
<1>5. i \in 1..Len(FilesOf(s)) /\ i # at
  BY <1>1, <1>3, <1>4
<1>6. FilesOf(s) = checkout[s] /\ i \in DOMAIN checkout[s] /\ at \in DOMAIN checkout[s]
  BY <1>1, <1>5, FileNames DEF CorpusInv
<1> QED BY <1>1, <1>3, <1>5, <1>6 DEF SharedTag

\* The text of a part is of the file the collector is in, or of a module that an earlier
\* script of the same stem left behind.
LEMMA TextIsTraced ==
  ASSUME CorpusInv, NEW p \in NextPart
  PROVE  \/ Current.file = TextOf(p)
         \/ proc.current = "spec" /\ LeftBehind(TextOf(p), Current.file, p)
<1> DEFINE F == FilesOf("spec")
           at == proc.pass.at
<1> SUFFICES ASSUME proc.current = "spec"
             PROVE  Current.file = TextOf(p) \/ LeftBehind(TextOf(p), Current.file, p)
  BY DEF TextOf
<1>1. /\ "spec" \in Range(Sources) /\ at \in 1..Len(F) /\ p \in proc.pass.parts
      /\ proc.pass.open /\ Sound("spec", proc.pass)
  BY PartTaken DEF Collecting
<1>2. Current = F[at] /\ TextOf(p) = proc.pass.scratch[<<F[at].stem, p>>]
  BY DEF Current, TextOf, Directory
<1>3. /\ <<F[at].stem, p>> \in DOMAIN proc.pass.scratch
      /\ p \in F[at].parts => TextOf(p) = F[at].file
  BY <1>1, <1>2 DEF Sound, Scratch
<1>4. CASE p \in F[at].parts
  BY <1>2, <1>3, <1>4
<1>5. CASE p \notin F[at].parts
  <2>1. PICK i \in 1..at : F[i].stem = F[at].stem /\ p \in F[i].parts /\ TextOf(p) = F[i].file
    BY <1>1, <1>2, <1>3 DEF Sound, Scratch
  <2>2. Len(F) \in Nat
    BY <1>1, FileNames DEF CorpusInv
  <2>3. i \in 1..Len(F) /\ i < at
    BY <1>1, <1>5, <2>1, <2>2
  <2>4. F = checkout["spec"] /\ i \in DOMAIN checkout["spec"] /\ at \in DOMAIN checkout["spec"]
    BY <1>1, <2>3, FileNames DEF CorpusInv
  <2>5. LeftBehind(TextOf(p), Current.file, p)
    BY <1>2, <1>5, <2>1, <2>3, <2>4 DEF LeftBehind
  <2> QED BY <2>5
<1> QED BY <1>4, <1>5

LEMMA PartWritten ==
  ASSUME CorpusInv, NEW p \in NextPart, _write_corpus_file(p)
  PROVE  CorpusInv'
<1> DEFINE P == proc.pass
           Q == Pass(P.at, P.open, P.parts \ {p}, P.kept + 1, P.scratch)
           s == proc.current
           rel == NameOf(p)
           text == TextOf(p)
           origin == Current.file
<1>1. /\ Collecting /\ outcome = NotEnded /\ P.open /\ p \in P.parts /\ p \in Nat
      /\ s \in Range(proc.sources) /\ s \in Range(Sources) /\ s # "fuzz" /\ s # None
      /\ P.at \in 1..Len(FilesOf(s)) /\ rel \in Rels /\ SourceOf(rel) = s
      /\ rel[2] = FilesOf(s)[P.at].tag /\ rel[3] = p
  BY PartTaken
<1>2. UNCHANGED <<checkout, tools, manifest>>
  BY DEF _write_corpus_file
<1>3. CASE rel \in DOMAIN proc.manifest
  <2>1. Exit("collision") /\ disk' = disk
    BY <1>3 DEF _write_corpus_file
  <2>2. /\ proc' = Idle /\ outcome'.result = "collision" /\ outcome'.sources = proc.sources
    BY <2>1 DEF Exit, ExitWith, Ending
  <2>3. proc.sources = Sources => SharedTag'
    BY <1>2, <1>3, CollisionIsShared DEF SharedTag
  <2>4. OnDisk'
    BY <1>2, <2>1 DEF CorpusInv, OnDisk, Readable
  <2> QED BY <1>2, <2>2, <2>3, <2>4, EndsOtherwise DEF CorpusInv
<1>4. CASE rel \notin DOMAIN proc.manifest
  <2> DEFINE known == Put(proc.manifest, rel, origin)
             n == proc.n + 1
  <2>1. /\ disk' = Put(disk, rel, text) /\ outcome' = outcome
        /\ proc' = [proc EXCEPT !.pass = Q, !.n = n, !.manifest = known]
    BY <1>4 DEF _write_corpus_file, Writes
  <2>2. /\ Q.at = P.at /\ Q.open = P.open /\ Q.parts = P.parts \ {p} /\ Q.scratch = P.scratch
        /\ Q = Pass(Q.at, Q.open, Q.parts, Q.kept, Q.scratch)
    BY DEF Pass
  <2>3. /\ DOMAIN known = DOMAIN proc.manifest \cup {rel} /\ known[rel] = origin
        /\ \A r \in DOMAIN proc.manifest : r # rel /\ known[r] = proc.manifest[r]
    BY <1>4 DEF Put
  <2>4. \/ origin = text
        \/ s = "spec" /\ LeftBehind(text, origin, p)
    BY TextIsTraced
  <2> HIDE DEF Q, known, n, rel, text, origin
  <2>5. proc' = Memory(proc.sources, proc.todo, s, Q, n, known, proc.counts)
    BY <1>1, <2>1, MemoryOfWrite
  <2>6. /\ proc'.cmd = "collect" /\ proc'.sources = proc.sources /\ proc'.todo = proc.todo
        /\ proc'.current = s /\ proc'.pass = Q /\ proc'.n = n
        /\ proc'.manifest = known /\ proc'.counts = proc.counts
        /\ proc' = Memory(proc'.sources, proc'.todo, proc'.current, proc'.pass, proc'.n,
                          proc'.manifest, proc'.counts)
    BY <2>5, MemoryFields
  <2>7. /\ DOMAIN disk' = DOMAIN disk \cup {rel} /\ disk'[rel] = text
        /\ \A r \in DOMAIN disk : r # rel => disk'[r] = disk[r]
        /\ \A u : s # u => OfSource({u}, disk') = OfSource({u}, disk)
        /\ OfSource({s}, disk') = OfSource({s}, disk) \cup {rel}
    <3>1. SourceOf(rel) = s
      BY <1>1 DEF rel
    <3> QED BY <2>1, <3>1 DEF Put, OfSource
  <2>8. OnDisk'
    BY <1>1, <1>2, <2>7 DEF CorpusInv, OnDisk, Readable
  <2>9. Sound(proc.current, proc.pass)'
    <3>1. Sound(s, P)
      BY <1>1 DEF Collecting
    <3>2. s = "spec" => Scratch(Q)
      BY <2>2, <3>1 DEF Sound, Scratch
    <3>3. Sound(s, Q)
      BY <2>2, <3>1, <3>2 DEF Sound
    <3> QED BY <1>2, <2>6, <3>3 DEF Sound, Scratch, FilesOf
  <2>10. ASSUME proc.sources = Sources PROVE FullSoFar'
    <3>1. FullSoFar
      BY <1>1, <2>10 DEF Collecting
    <3>2. ASSUME NEW r \in DOMAIN known
          PROVE  /\ r \in DOMAIN disk'
                 /\ SourceOf(r) # "fuzz" =>
                       SourceOf(r) \notin Range(proc.todo) /\ Traced(proc.manifest, r)'
      <4>1. CASE r = rel
        <5>1. /\ r \in DOMAIN disk' /\ disk'[r] = text /\ proc'.manifest[r] = origin
              /\ SourceOf(r) = s /\ r[3] = p
          BY <1>1, <2>3, <2>6, <2>7, <4>1 DEF rel
        <5>2. Traced(proc.manifest, r)'
          BY <1>2, <2>4, <5>1 DEF Traced, LeftBehind
        <5>3. SourceOf(r) \notin Range(proc.todo)
          BY <1>1, <3>1, <5>1 DEF FullSoFar
        <5> QED BY <5>1, <5>2, <5>3
      <4>2. CASE r \in DOMAIN proc.manifest /\ r # rel
        <5>1. r \in DOMAIN disk /\ disk'[r] = disk[r] /\ proc'.manifest[r] = proc.manifest[r]
          BY <2>3, <2>6, <2>7, <3>1, <4>2 DEF FullSoFar
        <5>2. Traced(proc.manifest, r) => Traced(proc.manifest, r)'
          BY <1>2, <5>1 DEF Traced, LeftBehind
        <5> QED BY <2>7, <3>1, <4>2, <5>1, <5>2 DEF FullSoFar
      <4> QED BY <2>3, <3>2, <4>1, <4>2
    <3>3. \A r \in DOMAIN proc'.manifest :
             /\ r \in DOMAIN disk'
             /\ SourceOf(r) # "fuzz" => /\ SourceOf(r) \notin Range(proc'.todo)
                                        /\ Traced(proc.manifest, r)'
      BY <2>6, <3>2
    <3>4. \A u \in DOMAIN proc.counts : u # s
                                        /\ proc.counts[u] = Cardinality(OfSource({u}, disk'))
      BY <2>7, <3>1 DEF FullSoFar
    <3>5. /\ IsFiniteSet(OfSource({s}, disk'))
          /\ n = Cardinality(OfSource({s}, disk'))
      <4>1. rel \notin OfSource({s}, disk)
        BY <1>1, <1>4, <3>1 DEF Collecting, FullSoFar, OfSource
      <4>2. IsFiniteSet(OfSource({s}, disk)) /\ proc.n = Cardinality(OfSource({s}, disk))
        BY <1>1, <3>1 DEF FullSoFar
      <4> DEFINE S == OfSource({s}, disk)
      <4>3. IsFiniteSet(S \cup {rel}) /\ Cardinality(S \cup {rel}) = Cardinality(S) + 1
        <5> HIDE DEF S
        <5> QED BY <4>1, <4>2, FS_AddElement DEF S
      <4>4. n = Cardinality(S) + 1
        BY <4>2 DEF n
      <4> QED BY <2>7, <4>3, <4>4
    <3>6. Tagged(proc.current, proc.pass, proc.manifest)'
      <4>1. Tagged(s, P, proc.manifest)
        BY <1>1, <3>1 DEF FullSoFar
      <4> SUFFICES ASSUME NEW r \in DOMAIN known, SourceOf(r) = s
                   PROVE  \E i \in 1..Q.at : /\ FilesOf(s)[i].tag = r[2]
                                             /\ i = Q.at => r[3] \notin Q.parts
        BY <1>2, <2>6 DEF Tagged, FilesOf
      <4>2. CASE r = rel
        <5>1. r[2] = FilesOf(s)[P.at].tag /\ r[3] = p /\ P.at \in 1..Q.at
          BY <1>1, <2>2, <4>2 DEF rel
        <5> QED BY <2>2, <5>1
      <4>3. CASE r \in DOMAIN proc.manifest
        <5>1. PICK i \in 1..P.at : FilesOf(s)[i].tag = r[2] /\ (i = P.at => r[3] \notin P.parts)
          BY <4>1, <4>3 DEF Tagged
        <5> QED BY <2>2, <5>1
      <4> QED BY <2>3, <4>2, <4>3
    <3>7. proc'.current \notin Range(proc'.todo) /\ IsInjective(proc'.todo)
      BY <2>6, <3>1 DEF FullSoFar
    <3>8. DOMAIN proc'.counts = Range(Sources) \ (Range(proc'.todo) \cup {proc'.current})
      BY <2>6, <3>1 DEF FullSoFar
    <3>9. /\ IsFiniteSet(OfSource({proc'.current}, disk'))
          /\ proc'.n = Cardinality(OfSource({proc'.current}, disk'))
          /\ \A u \in DOMAIN proc'.counts : proc'.counts[u] = Cardinality(OfSource({u}, disk'))
      BY <2>6, <3>4, <3>5
    <3> QED BY <3>3, <3>6, <3>7, <3>8, <3>9 DEF FullSoFar
  <2>11. \A r \in DOMAIN disk' : SourceOf(r) \in Range(proc'.sources) \ Range(proc'.todo)
                                  => r \in DOMAIN proc'.manifest
    BY <1>1, <2>3, <2>6, <2>7 DEF Collecting
  <2>12. /\ DOMAIN proc'.manifest \subseteq Rels
         /\ Readable' => \A r \in DOMAIN manifest'.files :
               SourceOf(r) \notin Range(proc'.sources) => r \in DOMAIN proc'.manifest
         /\ \A r \in DOMAIN proc'.manifest : SourceOf(r) = "fuzz" => r \in DOMAIN disk'
    BY <1>1, <1>2, <2>3, <2>6, <2>7 DEF Collecting, Readable
  <2>13. Collecting'
    BY <1>1, <2>6, <2>9, <2>10, <2>11, <2>12 DEF Collecting
  <2> QED BY <1>1, <1>2, <2>1, <2>8, <2>13, NotYet DEF CorpusInv
<1> QED BY <1>3, <1>4

LEMMA SourceEnds ==
  ASSUME CorpusInv, sourceDone
  PROVE  CorpusInv'
<1> DEFINE s == proc.current
           counted == Put(proc.counts, proc.current, proc.n)
           P == Pass(0, FALSE, {}, 0, << >>)
<1>1. /\ Collecting /\ outcome = NotEnded /\ s # None
      /\ UNCHANGED <<checkout, tools, disk, manifest, outcome>>
  BY InProgress DEF sourceDone
<1>2. proc' = [proc EXCEPT !.current = None, !.counts = counted, !.pass = P]
  BY DEF sourceDone
<1>3. s \in Range(Sources)
  BY <1>1, SourceLists DEF Collecting
<1>4. /\ DOMAIN counted = DOMAIN proc.counts \cup {s} /\ counted[s] = proc.n
      /\ \A u \in DOMAIN proc.counts : u # s => counted[u] = proc.counts[u]
  BY DEF Put
<1> HIDE DEF counted, P
<1>5. proc' = Memory(proc.sources, proc.todo, None, P, proc.n, proc.manifest, counted)
  BY <1>1, <1>2, MemoryOfCount
<1>6. /\ proc'.cmd = "collect" /\ proc'.sources = proc.sources /\ proc'.todo = proc.todo
      /\ proc'.current = None /\ proc'.pass = P /\ proc'.manifest = proc.manifest
      /\ proc'.counts = counted
      /\ proc' = Memory(proc'.sources, proc'.todo, proc'.current, proc'.pass, proc'.n,
                        proc'.manifest, proc'.counts)
  BY <1>5, MemoryFields
<1>7. Sound(proc.current, proc.pass)'
  <2>1. Sound(None, P)
    BY NothingOpened DEF CorpusInv, P
  <2> QED BY <1>1, <1>6, <2>1 DEF Sound, Scratch, FilesOf
<1>8. ASSUME proc.sources = Sources PROVE FullSoFar'
  <2>1. FullSoFar
    BY <1>1, <1>8 DEF Collecting
  <2>2. \A u : OfSource({u}, disk') = OfSource({u}, disk)
    BY <1>1
  <2>3. \A u \in DOMAIN counted : counted[u] = Cardinality(OfSource({u}, disk'))
    BY <1>1, <1>4, <2>1, <2>2 DEF FullSoFar
  <2>4. None \notin Range(proc.todo)
    <3>1. proc.todo \in Seq(Range(proc.sources)) /\ None \notin Range(proc.sources)
      BY <1>1, SourceLists DEF Collecting
    <3>2. \A i \in DOMAIN proc.todo : proc.todo[i] \in Range(proc.sources)
      BY <3>1
    <3> QED BY <3>1, <3>2 DEF Range
  <2>5. DOMAIN counted = Range(Sources) \ (Range(proc.todo) \cup {None})
    BY <1>3, <1>4, <2>1, SourcesAssumption DEF FullSoFar
  <2>6. \A rel : Traced(proc.manifest, rel) => Traced(proc.manifest, rel)'
    BY <1>1, <1>6 DEF Traced, LeftBehind
  <2>7. \A rel \in DOMAIN proc'.manifest :
          /\ rel \in DOMAIN disk'
          /\ SourceOf(rel) # "fuzz" => /\ SourceOf(rel) \notin Range(proc'.todo)
                                       /\ Traced(proc.manifest, rel)'
    BY <1>1, <1>6, <2>1, <2>6 DEF FullSoFar
  <2>8. IsInjective(proc'.todo) /\ proc'.current \notin Range(proc'.todo)
    BY <1>6, <2>1, <2>4 DEF FullSoFar
  <2> QED BY <1>6, <2>3, <2>5, <2>7, <2>8 DEF FullSoFar
<1>9. Collecting'
  <2>1. DOMAIN proc'.counts \subseteq Range(Sources)
    BY <1>1, <1>3, <1>4, <1>6 DEF Collecting
  <2> QED BY <1>1, <1>6, <1>7, <1>8, <2>1 DEF Collecting, Readable
<1>10. OnDisk'
  BY <1>1 DEF CorpusInv, OnDisk, Readable
<1> QED BY <1>1, <1>9, <1>10, NotYet DEF CorpusInv

LEMMA CollectSaves ==
  ASSUME CorpusInv, collectSave
  PROVE  CorpusInv'
<1>1. /\ Collecting /\ outcome = NotEnded /\ proc.current = None /\ proc.todo = <<>>
      /\ UNCHANGED <<checkout, tools, disk>> /\ proc.cmd = "collect"
  BY InProgress DEF collectSave
<1>2. Range(proc.todo) = {}
  BY <1>1 DEF Range
<1>3. CASE Unrecorded # {}
  <2>1. /\ manifest' = manifest /\ proc' = Idle
        /\ outcome'.sources = proc.sources
        /\ outcome'.result = "missing" /\ outcome'.gap = Unrecorded
    BY <1>1, <1>3 DEF collectSave, ExitWith, Ending
  <2>2. ASSUME proc.sources = Sources, NEW rel \in Unrecorded
        PROVE  SourceOf(rel) = "fuzz"
    <3>1. rel \in Rels /\ SourceOf(rel) \notin Range(Sources)
      BY <1>1, <1>2, <2>2 DEF CorpusInv, OnDisk, Unrecorded, Collecting
    <3> QED BY <3>1, Names
  <2>3. (FullCollect("ok") => Exact)' /\ FullCollectBlockers'
    BY <2>1, <2>2 DEF FullCollect, FullCollectBlockers
  <2>4. OnDisk'
    BY <1>1, <2>1 DEF CorpusInv, OnDisk, Readable
  <2> QED BY <1>1, <2>1, <2>3, <2>4 DEF CorpusInv
<1>4. CASE Unrecorded = {}
  <2>1. /\ manifest' = [files |-> proc.manifest, counts |-> AllCounts] /\ proc' = Idle
        /\ outcome'.sources = proc.sources /\ outcome'.result = "ok"
    BY <1>1, <1>4 DEF collectSave, Exit, ExitWith, Ending
  <2>2. manifest'.files = proc.manifest /\ manifest'.counts = AllCounts
    BY <2>1
  <2>3. /\ DOMAIN AllCounts \subseteq Range(Sources)
        /\ \A s \in DOMAIN proc.counts : s \in DOMAIN AllCounts /\ AllCounts[s] = proc.counts[s]
    BY <1>1 DEF AllCounts, Updated, Collecting
  <2>4. OnDisk'
    BY <1>1, <2>2, <2>3 DEF CorpusInv, OnDisk, Collecting
  <2>5. ASSUME proc.sources = Sources PROVE Exact'
    <3>1. FullSoFar
      BY <1>1, <2>5 DEF Collecting
    <3>2. DOMAIN proc.manifest = DOMAIN disk
      BY <1>4, <3>1 DEF FullSoFar, Unrecorded
    <3>3. ASSUME NEW rel \in DOMAIN disk, SourceOf(rel) # "fuzz"
          PROVE  Traced(manifest.files, rel)'
      <4>1. Traced(proc.manifest, rel)
        BY <3>1, <3>2, <3>3 DEF FullSoFar
      <4> QED BY <1>1, <2>2, <4>1 DEF Traced, LeftBehind
    <3>4. \A s \in Range(Sources) : AllCounts[s] = Cardinality(OfSource({s}, disk))
      BY <1>1, <1>2, <2>3, <3>1, SourcesAssumption DEF FullSoFar
    <3> QED BY <1>1, <2>2, <3>2, <3>3, <3>4 DEF Exact
  <2>6. (FullCollect("ok") => Exact)' /\ FullCollectBlockers'
    BY <2>1, <2>5 DEF FullCollect, FullCollectBlockers
  <2> QED BY <1>1, <2>1, <2>4, <2>6 DEF CorpusInv
<1> QED BY <1>3, <1>4

-----------------------------------------------------------------------------
(* The other steps.                                                        *)

LEMMA AdoptStarts ==
  ASSUME CorpusInv, NEW find \in Finds, NEW force \in BOOLEAN, cmd_adopt(find, force)
  PROVE  CorpusInv'
<1> DEFINE r == <<"fuzz", find.name, 0>>
<1>1. /\ outcome' = NotEnded
      /\ proc' = [cmd |-> "adopt", sources |-> <<>>, rel |-> r, file |-> find.file,
                  copied |-> FALSE]
      /\ UNCHANGED <<checkout, tools, disk, manifest>>
  BY DEF cmd_adopt
<1>2. r \in Rels /\ r[1] = "fuzz"
  BY DEF Rels
<1> HIDE DEF r
<1>3. OnDisk'
  BY <1>1 DEF CorpusInv, OnDisk, Readable
<1>4. Adopting'
  BY <1>1, <1>2 DEF Adopting
<1> QED BY <1>1, <1>3, <1>4, NotYet DEF CorpusInv

LEMMA AdoptCopies ==
  ASSUME CorpusInv, adoptCopy
  PROVE  CorpusInv'
<1>1. /\ Adopting /\ outcome = NotEnded /\ outcome' = outcome
      /\ UNCHANGED <<checkout, tools, manifest>>
      /\ DOMAIN disk' = DOMAIN disk \cup {proc.rel}
  BY InProgress DEF adoptCopy, Put
<1>2. OnDisk'
  BY <1>1 DEF CorpusInv, OnDisk, Adopting, Readable
<1>3. proc' = [cmd |-> "adopt", sources |-> <<>>, rel |-> proc.rel, file |-> proc.file,
               copied |-> TRUE]
  <2>1. PICK r, f, c : proc = [cmd |-> "adopt", sources |-> <<>>, rel |-> r, file |-> f,
                               copied |-> c]
    BY <1>1 DEF Adopting
  <2> QED BY <2>1 DEF adoptCopy
<1>4. Adopting'
  BY <1>1, <1>3 DEF Adopting
<1> QED BY <1>1, <1>2, <1>4, NotYet DEF CorpusInv

LEMMA AdoptSaves ==
  ASSUME CorpusInv, adoptSave
  PROVE  CorpusInv'
<1>1. /\ Adopting /\ proc.copied /\ UNCHANGED <<checkout, tools, disk>>
  BY InProgress DEF adoptSave
<1>2. proc' = Idle /\ outcome'.cmd = "adopt"
  <2>1. proc.cmd = "adopt" /\ \E result : Exit(result)
    BY DEF adoptSave
  <2> QED BY <2>1 DEF Exit, ExitWith, Ending
<1>3. (FullCollect("ok") => Exact)' /\ FullCollectBlockers'
  BY <1>2 DEF FullCollect, FullCollectBlockers
<1>4. OnDisk'
  <2>1. CASE ~Readable
    BY <1>1, <2>1 DEF CorpusInv, OnDisk, adoptSave, Readable
  <2>2. CASE Readable
    <3>1. PICK files, fuzz : /\ files = Put(manifest.files, proc.rel, proc.file)
                             /\ manifest' = [files |-> files,
                                             counts |-> Put(manifest.counts, "fuzz", fuzz)]
      BY <2>2 DEF adoptSave, Readable
    <3>2. /\ DOMAIN manifest'.files = DOMAIN manifest.files \cup {proc.rel}
          /\ DOMAIN manifest'.counts = DOMAIN manifest.counts \cup {"fuzz"}
      BY <3>1 DEF Put
    <3> QED BY <1>1, <2>2, <3>2 DEF CorpusInv, OnDisk, Adopting
  <2> QED BY <2>1, <2>2
<1> QED BY <1>1, <1>2, <1>3, <1>4 DEF CorpusInv

LEMMA InterruptsKeep ==
  ASSUME CorpusInv,
         interrupt \/ interruptCopy \/ interruptSave \/ \E p \in NextPart : interruptWrite(p)
  PROVE  CorpusInv'
<1>1. Exit("interrupted") /\ UNCHANGED <<checkout, tools>>
  BY DEF interrupt, interruptCopy, interruptSave, interruptWrite
<1>2. proc' = Idle /\ (FullCollect("ok") => Exact)' /\ FullCollectBlockers'
  BY <1>1, Interrupted
<1>3. OnDisk'
  <2>1. CASE interrupt
    BY <2>1 DEF interrupt, CorpusInv, OnDisk, Readable
  <2>2. CASE interruptSave
    <3>1. manifest' = Cut /\ disk' = disk
      BY <2>2 DEF interruptSave
    <3> QED BY <3>1 DEF CorpusInv, OnDisk, Readable
  <2>3. ASSUME NEW rel \in Rels, DOMAIN disk' = DOMAIN disk \cup {rel}, manifest' = manifest
        PROVE  OnDisk'
    BY <2>3 DEF CorpusInv, OnDisk, Readable
  <2>4. CASE interruptCopy
    <3>1. Adopting /\ DOMAIN disk' = DOMAIN disk \cup {proc.rel} /\ manifest' = manifest
      BY <2>4, InProgress DEF interruptCopy, Put
    <3> QED BY <2>3, <3>1 DEF Adopting
  <2>5. CASE \E p \in NextPart : interruptWrite(p)
    <3>1. PICK p \in NextPart : interruptWrite(p)
      BY <2>5
    <3>2. NameOf(p) \in Rels
      BY PartTaken
    <3>3. DOMAIN disk' = DOMAIN disk \cup {NameOf(p)} /\ manifest' = manifest
      BY <3>1 DEF interruptWrite, Put
    <3> QED BY <2>3, <3>2, <3>3
  <2> QED BY <2>1, <2>2, <2>4, <2>5
    DEF interrupt, interruptCopy, interruptSave, interruptWrite
<1> QED BY <1>1, <1>2, <1>3 DEF CorpusInv

LEMMA CorpusPreserved == CorpusInv /\ [Next]_vars => CorpusInv'
<1> SUFFICES ASSUME CorpusInv, [Next]_vars PROVE CorpusInv'
  OBVIOUS
<1>1. CASE surroundings
  <2>1. OnDisk'
    BY <1>1 DEF surroundings, CorpusInv, OnDisk, Readable
  <2>2. proc = Idle
    BY <1>1 DEF surroundings
  <2> QED BY <1>1, <2>1, <2>2, NotYet DEF surroundings, CorpusInv
<1>2. CASE UNCHANGED vars
  <2>1. OnDisk' = OnDisk /\ Adopting' = Adopting
    BY <1>2 DEF vars, OnDisk, Adopting, Readable
  <2>2. (FullCollect("ok") => Exact)' /\ FullCollectBlockers'
    BY <1>2 DEF vars, CorpusInv, FullCollectBlockers, FullCollect, Exact, Traced, LeftBehind,
                SharedTag
  <2>3. Collecting' = Collecting
    BY <1>2 DEF vars, Collecting, FullSoFar, Readable, Sound, Scratch, FilesOf, Tagged, Traced,
                LeftBehind
  <2> QED BY <1>2, <2>1, <2>2, <2>3 DEF vars, CorpusInv
<1> QED BY <1>1, <1>2, CollectStarts, SourceStarts, FileOpened, JsonFromWast, PartSkipped,
           PartWritten, FileClosed, SourceEnds, CollectSaves, AdoptStarts, AdoptCopies,
           AdoptSaves, InterruptsKeep DEF Next

LEMMA CorpusInvariant == Spec => []CorpusInv
BY CorpusInitially, CorpusPreserved, PTL DEF Spec

-----------------------------------------------------------------------------
(* What they establish.                                                    *)

(***************************************************************************)
(* After a full `collect` that succeeds, whatever was interrupted before    *)
(* it, manifest.json names exactly the files of test/corpus/, its counts    *)
(* are the numbers of files, and a collected file is whole and has for      *)
(* origin the input its text came from; only a module that an earlier .wast *)
(* of the same stem left in the scratch directory of collect_spec, and that *)
(* the later one has not, has the later one for origin.                     *)
(***************************************************************************)
THEOREM FullCollectExact == Spec => []FullCollectIsExact
<1>1. CorpusInv => FullCollectIsExact
  <2> SUFFICES ASSUME CorpusInv PROVE FullCollectIsExact
    OBVIOUS
  <2>1. proc.cmd \in {"none", "collect", "adopt"}
    BY DEF CorpusInv, Idle, Collecting, Adopting
  <2>2. CorpusTypeOK
    BY <2>1, InProgress DEF CorpusTypeOK, CorpusInv, OnDisk, Collecting, Sound
  <2> QED BY <2>2 DEF FullCollectIsExact, CorpusInv, Exact, Traced
<1> QED BY <1>1, CorpusInvariant, PTL

(***************************************************************************)
(* A full `collect` (no --only) that is not interrupted itself and does not *)
(* save the manifest stops for one of four reasons.  Two are in what was    *)
(* interrupted before: an adoption that left a file without an entry        *)
(* ("corpus files missing from the manifest"), and a save that left a       *)
(* manifest json.loads rejects.  Two are in the checkout: pages of one      *)
(* stem, and files of one collector that make one tag.                      *)
(***************************************************************************)
THEOREM BlockersAreKnown == Spec => []FullCollectBlockers
<1>1. CorpusInv => FullCollectBlockers
  BY DEF CorpusInv
<1> QED BY <1>1, CorpusInvariant, PTL

(***************************************************************************)
(* The rmtree of `collect` and the manifest it saves remove files and       *)
(* provenance only of the sources named on its command line, wherever it    *)
(* is interrupted, unless that is in the middle of saving the manifest.     *)
(***************************************************************************)
THEOREM OtherSourcesKept == Spec => OthersAreLeftAlone
<1> DEFINE Kept ==
      /\ \A rel \in DOMAIN disk \ DOMAIN disk' :
            proc.cmd = "collect" /\ SourceOf(rel) \in Range(proc.sources)
      /\ Readable /\ manifest' # Cut =>
            \A rel \in DOMAIN manifest.files \ DOMAIN manifest'.files :
                proc.cmd = "collect" /\ SourceOf(rel) \in Range(proc.sources)
<1>1. CorpusInv /\ [Next]_vars => [Kept]_vars
  <2> SUFFICES ASSUME CorpusInv, Next PROVE Kept
    OBVIOUS
  <2>1. CASE DOMAIN disk \subseteq DOMAIN disk' /\ manifest' \in {manifest, Cut}
    BY <2>1
  <2>2. CASE collectSource
    <3>1. Collecting /\ proc.todo # <<>> /\ disk' = Cleared(Head(proc.todo)) /\ manifest' = manifest
      BY <2>2, InProgress DEF collectSource
    <3>2. Head(proc.todo) \in Range(proc.sources) /\ proc.cmd = "collect"
      BY <3>1, HeadTail DEF Collecting
    <3> QED BY <3>1, <3>2, ClearedFiles
  <2>3. CASE collectSave
    <3>1. Collecting /\ disk' = disk
      BY <2>3, InProgress DEF collectSave
    <3>2. manifest' = manifest \/ manifest'.files = proc.manifest
      BY <2>3 DEF collectSave
    <3>3. \A rel \in DOMAIN disk \ DOMAIN disk' : FALSE
      BY <3>1
    <3>4. ASSUME Readable, NEW rel \in DOMAIN manifest.files \ DOMAIN manifest'.files
          PROVE  proc.cmd = "collect" /\ SourceOf(rel) \in Range(proc.sources)
      BY <3>1, <3>2, <3>4 DEF Collecting
    <3> QED BY <3>3, <3>4
  <2>4. CASE adoptSave
    <3>1. disk' = disk /\ (~Readable => manifest' = manifest)
      BY <2>4 DEF adoptSave, Readable
    <3>2. Readable => manifest'.files = Put(manifest.files, proc.rel, proc.file)
      BY <2>4 DEF adoptSave, Readable
    <3>3. Readable => DOMAIN manifest.files \subseteq DOMAIN manifest'.files
      BY <3>2 DEF Put
    <3> QED BY <3>1, <3>3
  <2>5. CASE adoptCopy \/ interruptCopy \/ interruptSave
    BY <2>1, <2>5 DEF adoptCopy, interruptCopy, interruptSave, Put
  <2>6. CASE \E p \in NextPart : skipPart(p) \/ _write_corpus_file(p) \/ interruptWrite(p)
    BY <2>1, <2>6 DEF skipPart, GoesOn, _write_corpus_file, Writes, interruptWrite, Put
  <2>7. CASE \/ \E sources \in {Sources} \cup OnlyLists : cmd_collect(sources)
             \/ \E find \in Finds, force \in BOOLEAN : cmd_adopt(find, force)
             \/ openFile \/ json_from_wast \/ splitFails \/ closeFile \/ sourceDone
             \/ interrupt \/ surroundings
    <3>1. UNCHANGED <<disk, manifest>>
      BY <2>7 DEF cmd_collect, cmd_adopt, openFile, json_from_wast, splitFails, closeFile, GoesOn,
                  sourceDone, interrupt, surroundings
    <3> QED BY <2>1, <3>1
  <2> QED BY <2>2, <2>3, <2>4, <2>5, <2>6, <2>7 DEF Next
<1>2. Spec => [][Kept]_vars
  BY <1>1, CorpusInvariant, PTL DEF Spec
<1> QED BY <1>2 DEF OthersAreLeftAlone
=============================================================================
