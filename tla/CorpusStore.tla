---------------------------- MODULE CorpusStore ----------------------------
(***************************************************************************)
(* The corpus of the differential harness: waxdiff.py `collect` and        *)
(* `adopt`, which share test/corpus/ and its manifest.json.  Either may be *)
(* interrupted between two file operations, or while a file is written;    *)
(* what is in memory is then lost, and what is on disk stays.  The         *)
(* checkout of the reference moves between commands.  A command that exits *)
(* because the reference or the checkout is absent changes nothing and is  *)
(* not a step.                                                             *)
(***************************************************************************)
EXTENDS Naturals, FiniteSets, Sequences, Functions, Dictionaries

CONSTANTS
    Sources,    \* the subtrees `collect` builds, in order
    Checkouts,  \* possible contents of wax/: source -> sequence of files
    PerWast,    \* --spec-per-wast
    OnlyLists,  \* what --only may name, repeated or in any order
    Finds,      \* fuzz finds to adopt, as [name, file]
    None,
    Cut         \* what an interrupted write leaves of a file

(***************************************************************************)
(* A file of the checkout: its path and stem, the tag its collector makes   *)
(* of them for corpus names, and the parts it is cut into, numbered in the  *)
(* order of their names: the blocks of a page, the modules that wasm-tools  *)
(* writes for a .wast, or the file itself as part 0.                        *)
(***************************************************************************)
File == [file : STRING, stem : STRING, tag : STRING, parts : SUBSET Nat]

ASSUME SourcesAssumption ==
    /\ Sources \in Seq({"cram", "docs", "wat", "spec"}) /\ IsInjective(Sources)
    /\ None \notin Range(Sources)
    /\ OnlyLists \subseteq Seq(Range(Sources)) \ {<<>>}
    /\ PerWast \in Nat \ {0}
    /\ \A c \in Checkouts : c \in [Range(Sources) -> Seq(File)]

VARIABLES
    checkout,   \* the files in wax/
    tools,      \* whether wasm-tools is installed
    disk,       \* corpus files: name -> the file its text came from, or Cut
    manifest,   \* manifest.json, None without it, or Cut
    proc,       \* the command in progress and its memory
    outcome     \* how the last command ended

vars == <<checkout, tools, disk, manifest, proc, outcome>>

-----------------------------------------------------------------------------
(* A corpus name is <<subtree, tag, part>>.                                 *)

SourceOf(rel) == rel[1]
OfSource(S, f) == {rel \in DOMAIN f : SourceOf(rel) \in S}
Idle == [cmd |-> "none"]
Ending(cmd, sources, result, gap) ==
    [cmd |-> cmd, sources |-> sources, result |-> result, gap |-> gap]
NotEnded == Ending("none", <<>>, "none", {})
ExitWith(result, gap) ==
    /\ proc' = Idle
    /\ outcome' = Ending(proc.cmd, proc.sources, result, gap)
Exit(result) == ExitWith(result, {})

\* collect_docs: two pages with one stem would share corpus names
DuplicateStems(files) ==
    \E i, j \in DOMAIN files : i # j /\ files[i].stem = files[j].stem

\* the files of one collector, in its order
FilesOf(name) == IF name = "spec" /\ ~tools THEN <<>> ELSE checkout[name]

\* collect_wat and collect_spec drop a part that the reference does not
\* convert, and one whose conversion times out or hits the memory cap
MayFail(name) == name \in {"wat", "spec"}

\* The locals of a collector: how many files it has opened, whether it is in the
\* last of them, the parts of that still to do, how many were kept, and the scratch
\* directory of collect_spec: <<stem, part>> -> the .wast that it was split from.
Pass(at, open, parts, kept, scratch) ==
    [at |-> at, open |-> open, parts |-> parts, kept |-> kept, scratch |-> scratch]

\* the file the collector is in
Current == FilesOf(proc.current)[proc.pass.at]

\* modules beyond the cap of their .wast are not looked at
Capped == proc.current = "spec" /\ proc.pass.kept >= PerWast

\* the part that is taken next, if there is one
NextPart ==
    IF proc.cmd = "collect" /\ ~Capped
    THEN {p \in proc.pass.parts : \A q \in proc.pass.parts : p <= q} ELSE {}

-----------------------------------------------------------------------------
(* collect *)

Init ==
    /\ checkout \in Checkouts
    /\ tools \in BOOLEAN
    /\ disk = << >>
    /\ manifest = None
    /\ proc = Idle
    /\ outcome = NotEnded

\* entries of the sources that are not rebuilt are carried forward
CarriedForward(sources) ==
    IF manifest = None THEN << >>
    ELSE Restrict(manifest.files,
                  DOMAIN manifest.files \ OfSource(Range(sources), manifest.files))

cmd_collect(sources) ==
    /\ proc = Idle
    /\ IF manifest = Cut
       THEN proc' = proc /\ outcome' = Ending("collect", sources, "unreadable", {})
       ELSE /\ proc' = [cmd |-> "collect", sources |-> sources, todo |-> sources,
                        current |-> None, pass |-> Pass(0, FALSE, {}, 0, << >>), n |-> 0,
                        manifest |-> CarriedForward(sources), counts |-> << >>]
            /\ outcome' = NotEnded
    /\ UNCHANGED <<checkout, tools, disk, manifest>>

\* mutants of Cleared: everything is wiped; nothing is
clearedAll(name) == << >>
clearedNothing(name) == disk

\* what is on disk once the subtree of a source has been removed
Cleared(name) == Restrict(disk, DOMAIN disk \ OfSource({name}, disk))

\* the loop over the sources: remove the subtree, then run its collector
collectSource ==
    /\ proc.cmd = "collect" /\ proc.current = None /\ proc.todo # <<>>
    /\ LET name == Head(proc.todo) IN
       /\ disk' = Cleared(name)
       /\ IF name = "docs" /\ DuplicateStems(checkout[name])
          THEN Exit("duplicate")
          ELSE /\ proc' = [proc EXCEPT !.todo = Tail(@), !.current = name,
                                       !.pass = Pass(0, FALSE, {}, 0, << >>), !.n = 0]
               /\ UNCHANGED outcome
    /\ UNCHANGED <<checkout, tools, manifest>>

\* the collector goes on with `pass`, and nothing else changes
GoesOn(pass) ==
    /\ proc' = [proc EXCEPT !.pass = pass]
    /\ UNCHANGED <<checkout, tools, disk, manifest, outcome>>

\* the collector comes to its next file
Comes ==
    /\ proc.cmd = "collect" /\ proc.current # None /\ ~proc.pass.open
    /\ proc.pass.at < Len(FilesOf(proc.current))

openFile ==
    /\ Comes /\ proc.current # "spec"
    /\ LET at == proc.pass.at + 1 IN
       GoesOn(Pass(at, TRUE, FilesOf(proc.current)[at].parts, 0, proc.pass.scratch))

\* what is in the directory of a stem
Listed(stem, scratch) == {key[2] : key \in {k \in DOMAIN scratch : k[1] = stem}}

\* a mutant of Directory: all scripts are split into one directory
OneDirectory(f) == "."

\* a .wast is split into a directory named for its stem
Directory(f) == f.stem

\* wasm-tools writes modules of the .wast f over those of an earlier one
SplitInto(f, parts, scratch) ==
    Updated(scratch, [key \in {Directory(f)} \X parts |-> f.file])

\* the directory is never emptied between scripts: all it holds is collected
json_from_wast ==
    /\ Comes /\ proc.current = "spec"
    /\ LET at == proc.pass.at + 1
           f == FilesOf(proc.current)[at]
           scratch == SplitInto(f, f.parts, proc.pass.scratch)
       IN GoesOn(Pass(at, TRUE, Listed(Directory(f), scratch), 0, scratch))

\* wasm-tools fails, or is killed, after it wrote some modules
splitFails ==
    /\ Comes /\ proc.current = "spec"
    /\ LET at == proc.pass.at + 1
           f == FilesOf(proc.current)[at]
       IN \E parts \in SUBSET f.parts :
            GoesOn(Pass(at, FALSE, {}, 0, SplitInto(f, parts, proc.pass.scratch)))

skipPart(p) ==
    /\ MayFail(proc.current)
    /\ LET pass == proc.pass IN
       GoesOn(Pass(pass.at, pass.open, pass.parts \ {p}, pass.kept, pass.scratch))

closeFile ==
    /\ proc.cmd = "collect" /\ proc.pass.open
    /\ proc.pass.parts = {} \/ Capped
    /\ GoesOn(Pass(proc.pass.at, FALSE, {}, 0, proc.pass.scratch))

\* the file that the text of part p of the current one comes from
TextOf(p) ==
    IF proc.current = "spec" THEN proc.pass.scratch[<<Directory(Current), p>>]
    ELSE Current.file

\* the corpus name of part p
NameOf(p) == <<proc.current, Current.tag, p>>

\* part p is written, and `known` is what the collector then knows
Writes(p, known) ==
    LET pass == proc.pass IN
    /\ disk' = Put(disk, NameOf(p), TextOf(p))
    /\ proc' = [proc EXCEPT !.pass = Pass(pass.at, pass.open, pass.parts \ {p},
                                          pass.kept + 1, pass.scratch),
                            !.n = @ + 1, !.manifest = known]
    /\ UNCHANGED outcome

\* a mutant of _write_corpus_file: a collision goes unnoticed
writeUnchecked(p) ==
    /\ Writes(p, Updated([r \in {NameOf(p)} |-> Current.file], proc.manifest))
    /\ UNCHANGED <<checkout, tools, manifest>>

\* one part reaches the corpus, with the file the collector is in as its origin
_write_corpus_file(p) ==
    /\ IF NameOf(p) \in DOMAIN proc.manifest
       THEN Exit("collision") /\ UNCHANGED disk
       ELSE Writes(p, Put(proc.manifest, NameOf(p), Current.file))
    /\ UNCHANGED <<checkout, tools, manifest>>

sourceDone ==
    /\ proc.cmd = "collect" /\ proc.current # None
    /\ ~proc.pass.open /\ proc.pass.at = Len(FilesOf(proc.current))
    /\ proc' = [proc EXCEPT !.current = None, !.counts = Put(@, proc.current, proc.n),
                            !.pass = Pass(0, FALSE, {}, 0, << >>)]
    /\ UNCHANGED <<checkout, tools, disk, manifest, outcome>>

\* the counts of the sources left alone are taken from the disk
AllCounts ==
    LET others == {s \in Range(Sources) \ DOMAIN proc.counts :
                       OfSource({s}, disk) # {}}
    IN Updated([s \in others |-> Cardinality(OfSource({s}, disk))], proc.counts)

\* files on disk of which the manifest about to be saved knows nothing
Unrecorded == DOMAIN disk \ DOMAIN proc.manifest

collectSave ==
    /\ proc.cmd = "collect" /\ proc.current = None /\ proc.todo = <<>>
    /\ IF Unrecorded # {}
       THEN ExitWith("missing", Unrecorded) /\ UNCHANGED manifest
       ELSE /\ manifest' = [files |-> proc.manifest, counts |-> AllCounts]
            /\ Exit("ok")
    /\ UNCHANGED <<checkout, tools, disk>>

-----------------------------------------------------------------------------
(* adopt *)

cmd_adopt(find, force) ==
    LET rel == <<"fuzz", find.name, 0>> IN
    /\ proc = Idle
    /\ rel \in DOMAIN disk => force
    /\ proc' = [cmd |-> "adopt", sources |-> <<>>, rel |-> rel, file |-> find.file,
                copied |-> FALSE]
    /\ outcome' = NotEnded
    /\ UNCHANGED <<checkout, tools, disk, manifest>>

adoptCopy ==
    /\ proc.cmd = "adopt" /\ ~proc.copied
    /\ disk' = Put(disk, proc.rel, proc.file)
    /\ proc' = [proc EXCEPT !.copied = TRUE]
    /\ UNCHANGED <<checkout, tools, manifest, outcome>>

adoptSave ==
    /\ proc.cmd = "adopt" /\ proc.copied
    /\ IF manifest \in {None, Cut}
       THEN Exit("unreadable") /\ UNCHANGED manifest
       ELSE LET files == Put(manifest.files, proc.rel, proc.file) IN
            /\ manifest' = [files |-> files,
                            counts |-> Put(manifest.counts, "fuzz",
                                            Cardinality(OfSource({"fuzz"}, files)))]
            /\ Exit("ok")
    /\ UNCHANGED <<checkout, tools, disk>>

-----------------------------------------------------------------------------
(* the surroundings *)

\* Ctrl-C, the machine's memory, a full disk
interrupt ==
    /\ proc # Idle
    /\ Exit("interrupted")
    /\ UNCHANGED <<checkout, tools, disk, manifest>>

\* write_text empties a file before it fills it
interruptWrite(p) ==
    /\ NameOf(p) \notin DOMAIN proc.manifest
    /\ disk' = Put(disk, NameOf(p), Cut)
    /\ Exit("interrupted")
    /\ UNCHANGED <<checkout, tools, manifest>>

interruptCopy ==
    /\ proc.cmd = "adopt" /\ ~proc.copied
    /\ disk' = Put(disk, proc.rel, Cut)
    /\ Exit("interrupted")
    /\ UNCHANGED <<checkout, tools, manifest>>

interruptSave ==
    /\ \/ proc.cmd = "collect" /\ proc.current = None /\ proc.todo = <<>> /\ Unrecorded = {}
       \/ proc.cmd = "adopt" /\ proc.copied /\ manifest \notin {None, Cut}
    /\ manifest' = Cut
    /\ Exit("interrupted")
    /\ UNCHANGED <<checkout, tools, disk>>

\* the pin of the reference moves; wasm-tools is installed or removed
surroundings ==
    /\ proc = Idle
    /\ checkout' \in Checkouts
    /\ tools' \in BOOLEAN
    /\ <<checkout, tools>>' # <<checkout, tools>>
    /\ outcome' = NotEnded
    /\ UNCHANGED <<disk, manifest, proc>>

Next ==
    \/ \E sources \in {Sources} \cup OnlyLists : cmd_collect(sources)
    \/ collectSource \/ openFile \/ json_from_wast \/ splitFails
    \/ \E p \in NextPart : skipPart(p) \/ _write_corpus_file(p) \/ interruptWrite(p)
    \/ closeFile \/ sourceDone \/ collectSave
    \/ \E find \in Finds, force \in BOOLEAN : cmd_adopt(find, force)
    \/ adoptCopy \/ adoptSave
    \/ interrupt \/ interruptCopy \/ interruptSave
    \/ surroundings

Spec == Init /\ [][Next]_vars

-----------------------------------------------------------------------------
(* Properties *)

Tags == {f.tag : f \in UNION {Range(c[s]) : c \in Checkouts, s \in Range(Sources)}}
Rels == (Range(Sources) \X Tags \X Nat) \cup ({"fuzz"} \X {f.name : f \in Finds} \X {0})

Readable == manifest \notin {None, Cut}

\* The shape of the state: names on disk and in the manifest are corpus names,
\* and a collector has a file open only while a source is being collected.
CorpusTypeOK ==
    /\ checkout \in Checkouts /\ tools \in BOOLEAN
    /\ DOMAIN disk \subseteq Rels
    /\ Readable => /\ DOMAIN manifest.files \subseteq Rels
                   /\ DOMAIN manifest.counts \subseteq Range(Sources) \cup {"fuzz"}
    /\ proc.cmd \in {"none", "collect", "adopt"}
    /\ proc.cmd = "collect" =>
          /\ DOMAIN proc.manifest \subseteq Rels
          /\ proc.pass.open => proc.current # None

FullCollect(result) ==
    /\ outcome.cmd = "collect" /\ outcome.sources = Sources
    /\ outcome.result = result

\* Module p that wasm-tools wrote for one .wast of the checkout is still there when a
\* later one of the same stem is collected, which has no such module itself.
LeftBehind(text, origin, p) ==
    \E i, j \in DOMAIN checkout["spec"] :
        LET earlier == checkout["spec"][i]
            later == checkout["spec"][j]
        IN /\ i < j /\ earlier.stem = later.stem
           /\ p \in earlier.parts \ later.parts
           /\ text = earlier.file /\ origin = later.file

\* A full collect that succeeds leaves a manifest that is exact whatever was
\* interrupted before, with one exception: it names the files on disk and no others,
\* counts every collected subtree, and has for a collected file, which is whole, the
\* input its text came from; but a module in the scratch directory that two .wast of
\* one stem share is recorded as if it were of the later one.  The state is well
\* typed throughout.
FullCollectIsExact ==
    /\ CorpusTypeOK
    /\ FullCollect("ok") =>
          /\ DOMAIN manifest.files = DOMAIN disk
          /\ \A s \in Range(Sources) :
                manifest.counts[s] = Cardinality(OfSource({s}, disk))
          /\ \A rel \in DOMAIN disk : SourceOf(rel) # "fuzz" =>
                \/ manifest.files[rel] = disk[rel]
                \/ /\ SourceOf(rel) = "spec"
                   /\ LeftBehind(disk[rel], manifest.files[rel], rel[3])

\* Two files of one source make one tag.
SharedTag ==
    \E s \in Range(Sources) : \E i, j \in DOMAIN checkout[s] :
        i # j /\ checkout[s][i].tag = checkout[s][j].tag

\* What can keep a full collect from saving the manifest, unless it is interrupted
\* itself.  Of everything that was interrupted before, only two: an adoption, which
\* left a file without an entry, and a save, which left a manifest that json.loads
\* rejects.  For the rest it is the checkout: two pages of one stem, or two files of
\* one collector that make the same tag.  What an interrupted collect leaves of the
\* corpus, partial or not, is never in the way.
FullCollectBlockers ==
    /\ FullCollect("missing") => \A rel \in outcome.gap : SourceOf(rel) = "fuzz"
    /\ FullCollect("unreadable") => manifest = Cut
    /\ FullCollect("duplicate") => DuplicateStems(checkout["docs"])
    /\ FullCollect("collision") => SharedTag

\* A collect removes files, and drops saved provenance, only of sources it rebuilds:
\* an interruption costs no other source and no adopted find.  The exception is an
\* interruption of the save itself, which costs the manifest.
OthersAreLeftAlone ==
    [][/\ \A rel \in DOMAIN disk \ DOMAIN disk' :
             proc.cmd = "collect" /\ SourceOf(rel) \in Range(proc.sources)
       /\ Readable /\ manifest' # Cut =>
             \A rel \in DOMAIN manifest.files \ DOMAIN manifest'.files :
                 proc.cmd = "collect" /\ SourceOf(rel) \in Range(proc.sources)]_vars

\* Stated by the message of the gap check (waxdiff.py): "Re-run a full `collect`
\* (no --only) to rebuild provenance for every source".
FullCollectRebuilds == ~FullCollect("missing")

\* The same comment as below, of a full collect alone: it is false of the scratch
\* directory that .wast files of one stem share.
OriginsAreTrue ==
    FullCollect("ok") =>
        \A rel \in DOMAIN disk :
            SourceOf(rel) # "fuzz" => manifest.files[rel] = disk[rel]

\* The same message: a manifest that an interrupted save left is not rebuilt either.
FullCollectReads == ~FullCollect("unreadable")

\* Stated by the comment in the manifest: "Provenance for every corpus file".  Once a
\* collect has saved it, the entry of a collected file is where its text came from.
ProvenanceIsTrue ==
    outcome.cmd = "collect" /\ outcome.result = "ok" =>
        \A rel \in DOMAIN disk :
            SourceOf(rel) # "fuzz" => manifest.files[rel] = disk[rel]

\* Stated by the message of collect_spec: "wasm-tools not found, skipping the spec
\* corpus".  Without the tool no collect removes a file of that corpus.
SkippedIsLeftAlone ==
    [][~tools => OfSource({"spec"}, disk) \subseteq OfSource({"spec"}, disk')]_vars
=============================================================================
