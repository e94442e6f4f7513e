---------------------------- MODULE DiffHarness ----------------------------
(***************************************************************************)
(* waxdiff.py `golden` and `run`: the goldens recorded from the reference, *)
(* and an implementation compared with them.  Both hand the files to a     *)
(* pool of threads and consume the results in the order of the files, as   *)
(* ThreadPoolExecutor.map does; both may be interrupted, and an exception  *)
(* in either ends the command.  Between commands the corpus changes and    *)
(* the reference is replaced.                                              *)
(***************************************************************************)
EXTENDS Oracles, Functions, Dictionaries

CONSTANTS
    Files,        \* corpus names <<subtree, name>>, sorted
    Worlds,       \* [refs: the reference by version, ours: the port, slow: the
                  \* commands whose child processes may run out of time]
    Corpora,      \* possible contents of test/corpus: name -> text or None
    Jobs,         \* --jobs
    Invocations,  \* the command lines of `run`
    SPAN_EXEMPT

Diagnostic ==
    [severity : STRING, file : [marked : BOOLEAN, root : {None}], start : Nat, end : Nat,
     warning : STRING \cup {None}, message : STRING]

\* An implementation answers every command on every text, the texts that it or another
\* one prints among them, and what exits 0 has printed something, be it the empty string.
Texts == UNION {DOMAIN w.ours : w \in Worlds}
IsImplementation(impl) ==
    /\ impl = [t \in Texts |-> [c \in Commands |-> impl[t][c]]]
    /\ \A t \in Texts :
          /\ \A c \in Commands : LET run == impl[t][c] IN
                /\ run = [code |-> run.code, out |-> run.out, err |-> run.err]
                /\ run.err \in [json : BOOLEAN, diags : Seq(Diagnostic)]
          /\ impl[t]["wax"].code = 0 => impl[t]["wax"].out \in Texts
          /\ sha256(impl[t]["wasm"].out) # None

ASSUME HarnessAssumption ==
    /\ Jobs \in Nat \ {0}
    /\ Files \in Seq(Range(Files)) /\ IsInjective(Files)
    /\ \A rel \in Range(Files) : rel = <<rel[1], rel[2]>>
    /\ None \notin Texts /\ None \notin Seq(Diagnostic)
    /\ \A w \in Worlds :
          /\ w.slow \subseteq {"golden", "run"}
          /\ IsImplementation(w.ours)
          /\ \A n \in DOMAIN w.refs : IsImplementation(w.refs[n])
    /\ \A c \in Corpora : DOMAIN c = Range(Files) /\ Range(c) \subseteq Texts \cup {None}
    /\ \A args \in Invocations :
          /\ args.oracles \subseteq 1..4 /\ args.oracles # {} /\ args.self_test \in BOOLEAN
          /\ args.scope \in {"frontEnd", "full"} /\ args.route \in {NATIVE, VIA_REFERENCE}

VARIABLES
    world, version,  \* what the two implementations do; the reference in use
    corpus,
    golden,   \* name -> [reprint, diag], with the text and version they are of
    index,    \* index.json, or None
    mid,      \* test/report/tmp: the texts handed to the reference
    proc, outcome

vars == <<world, version, corpus, golden, index, mid, proc, outcome>>

Idle == [cmd |-> "none"]
NotEnded == [result |-> "none"]
Exit(ended) == proc' = Idle /\ outcome' = ended
Reference == world.refs[version]

\* a diagnostic carries the checkout it was printed in
Stamp(impl, root) ==
    [t \in DOMAIN impl |-> [c \in Commands |->
        [impl[t][c] EXCEPT !.err.diags = [i \in DOMAIN @ |->
            IF @[i].file.marked THEN [@[i] EXCEPT !.file.root = root] ELSE @[i]]]]]

\* the runs, on a text or on its reprint, that may be killed at the time limit: at
\* most one per task and implementation
Timeouts(impl, t) ==
    {{}} \cup IF proc.cmd \notin world.slow THEN {}
              ELSE {{<<u, c>>} : u \in {t, impl[t]["wax"].out} \ {None}, c \in Commands}
WithTimeouts(impl, slow) ==
    [t \in DOMAIN impl |-> [c \in Commands |->
        IF <<t, c>> \in slow THEN TimedOut ELSE impl[t][c]]]

-----------------------------------------------------------------------------
(* ex.map: the pool starts the tasks in order, so a task runs once fewer    *)
(* than Jobs earlier ones are unfinished.                                   *)

InFlight(i) ==
    /\ proc.results[i] = None
    /\ Cardinality({j \in 1..(i - 1) : proc.results[j] = None}) < Jobs

\* what `one` returns for a name of the index without a file
Ignored == << >>

NextResult == proc.results[proc.merged + 1]
AllMerged == proc.merged = Len(proc.files)

\* the names of S, sorted
Selected(S) ==
    LET places == {p \in DOMAIN Files : Files[p] \in S}
        nth(i) == CHOOSE p \in places : Cardinality({q \in places : q < p}) = i - 1
    IN [i \in 1..Cardinality(places) |-> Files[nth(i)]]

-----------------------------------------------------------------------------
(* golden *)

\* the files of the corpus, sorted
corpus_files == Selected({rel \in DOMAIN corpus : corpus[rel] # None})

\* a mutant of cmd_golden: the old goldens are overwritten in place
goldenInPlace ==
    /\ proc = Idle /\ corpus_files # <<>>
    /\ proc' = [cmd |-> "golden", files |-> corpus_files, merged |-> 0,
                results |-> [i \in DOMAIN corpus_files |-> None], index |-> << >>]
    /\ outcome' = NotEnded
    /\ UNCHANGED <<world, version, corpus, golden, index, mid>>

cmd_golden ==
    /\ proc = Idle /\ corpus_files # <<>>
    /\ golden' = << >> /\ index' = None
    /\ proc' = [cmd |-> "golden", files |-> corpus_files, merged |-> 0,
                results |-> [i \in DOMAIN corpus_files |-> None], index |-> << >>]
    /\ outcome' = NotEnded
    /\ UNCHANGED <<world, version, corpus, mid>>

\* a thread finishes classify_one on a file
goldenClassify(i) ==
    /\ proc.cmd = "golden" /\ InFlight(i)
    /\ LET t == corpus[proc.files[i]]
           ref == Stamp(Reference, "recorded")
       IN \E slow \in Timeouts(ref, t) :
             proc' = [proc EXCEPT !.results[i] = classify_one(WithTimeouts(ref, slow)[t])]
    /\ UNCHANGED <<world, version, corpus, golden, index, mid, outcome>>

\* the main thread takes the next result and writes its files
goldenWrite ==
    /\ proc.cmd = "golden" /\ ~AllMerged /\ NextResult # None
    /\ LET rel == proc.files[proc.merged + 1]
           files == write_golden(NextResult)
       IN IF GoldenRaises(NextResult)
          THEN Exit([result |-> "raised"]) /\ UNCHANGED golden
          ELSE /\ golden' = Put(golden, rel,
                                [reprint |-> files.reprint, diag |-> files.diag,
                                 text |-> corpus[rel], version |-> version])
               /\ proc' = [proc EXCEPT !.merged = @ + 1,
                                       !.index = Put(@, rel, IndexEntry(NextResult))]
               /\ UNCHANGED outcome
    /\ UNCHANGED <<world, version, corpus, index, mid>>

goldenSave ==
    /\ proc.cmd = "golden" /\ AllMerged
    /\ index' = [files |-> proc.index, reference |-> version]
    /\ Exit([result |-> "recorded"])
    /\ UNCHANGED <<world, version, corpus, golden, mid>>

-----------------------------------------------------------------------------
(* run *)

Impl(args) == Stamp(IF args.self_test \/ args.impl = "reference" THEN Reference
                    ELSE world.ours, "here")

PolicyOf(args) ==
    LET p == load_policy(args.scope, args.route)
    IN IF args.self_test THEN SelfTested(p) ELSE p

\* a mutant of MidName: the subtree is dropped from the name
midNameShort(rel) == <<rel[2]>>

\* rel.replace("/", "__")
MidName(rel) == <<rel[1], "__", rel[2]>>

cmd_run(args) ==
    /\ proc = Idle
    /\ index # None
    /\ LET files == Selected(DOMAIN index.files) IN
       proc' = [cmd |-> "run", args |-> args, files |-> files, merged |-> 0,
                results |-> [i \in DOMAIN files |-> None],
                printed |-> [i \in DOMAIN files |-> None],
                total |-> [o \in args.oracles |->
                    [passed |-> 0, failed |-> 0, skipped |-> 0, failures |-> {}, drift |-> {}]]]
    /\ outcome' = NotEnded
    /\ UNCHANGED <<world, version, corpus, golden, index, mid>>

ViaReference(args, meta) ==
    /\ 2 \in args.oracles
    /\ ~Oracle2Skips(meta, PolicyOf(args)) /\ PolicyOf(args).route = VIA_REFERENCE

\* a thread prints a file for oracle 2 and writes the text for the reference
oneWritesMid(i) ==
    /\ proc.cmd = "run" /\ InFlight(i) /\ proc.printed[i] = None
    /\ LET rel == proc.files[i]
           impl == Impl(proc.args)
       IN /\ corpus[rel] # None /\ ViaReference(proc.args, index.files[rel])
          /\ \E slow \in Timeouts(impl, corpus[rel]) :
                LET printed == WithTimeouts(impl, slow)[corpus[rel]]["wax"] IN
                /\ proc' = [proc EXCEPT !.printed[i] = printed]
                /\ mid' = IF printed.code # 0 THEN mid
                          ELSE Put(mid, MidName(rel), printed.out)
    /\ UNCHANGED <<world, version, corpus, golden, index, outcome>>

\* the verdicts of one file, given the two implementations, the run that printed
\* the file for oracle 2 and the text that the reference then reads
Verdicts(args, rel, impl, ref, printed, text2) ==
    LET meta == index.files[rel]
        policy == PolicyOf(args)
        t == corpus[rel]
    IN [o \in args.oracles |->
        CASE o = 1 -> check_oracle1(impl, rel, t, meta, golden[rel], policy)
          [] o = 2 -> IF ViaReference(args, meta)
                      THEN Oracle2Via(ref, printed, text2, meta)
                      ELSE check_oracle2(impl, ref, t, meta, policy)
          [] o = 3 -> check_oracle3(impl, t, meta, golden[rel], policy, rel \in SPAN_EXEMPT)
          [] o = 4 -> check_oracle4(impl, ref, t, meta, policy)]

\* a thread finishes `one` on a file
oneEnds(i) ==
    /\ proc.cmd = "run" /\ InFlight(i)
    /\ LET rel == proc.files[i]
           args == proc.args
       IN IF corpus[rel] = None
          THEN proc' = [proc EXCEPT !.results[i] = Ignored]
          ELSE /\ ViaReference(args, index.files[rel]) => proc.printed[i] # None
               /\ \E slow \in Timeouts(Impl(args), corpus[rel]),
                     slowRef \in Timeouts(Reference, corpus[rel]) :
                  LET impl == WithTimeouts(Impl(args), slow)
                      ref == WithTimeouts(Reference, slowRef)
                      text2 == IF proc.printed[i] = None \/ proc.printed[i].code # 0
                               THEN None ELSE mid[MidName(rel)]
                  IN proc' = [proc EXCEPT
                        !.results[i] = Verdicts(args, rel, impl, ref, proc.printed[i], text2)]
    /\ UNCHANGED <<world, version, corpus, golden, index, mid, outcome>>

\* a mutant of Added: a failure is listed but not counted
addedUncounted(total, rel, v) ==
    [total EXCEPT !.failures = @ \cup {<<rel, f>> : f \in v.failures},
                  !.passed = @ + (IF v.count = "passed" THEN 1 ELSE 0),
                  !.skipped = @ + (IF v.count = "skipped" THEN 1 ELSE 0)]

Added(total, rel, v) ==
    [total EXCEPT !.failures = @ \cup {<<rel, f>> : f \in v.failures},
                  !.drift = @ \cup {<<rel, d>> : d \in v.drift}, ![v.count] = @ + 1]

runMerge ==
    /\ proc.cmd = "run" /\ ~AllMerged /\ NextResult # None
    /\ IF NextResult = Ignored
       THEN proc' = [proc EXCEPT !.merged = @ + 1] /\ UNCHANGED outcome
       ELSE IF \E o \in proc.args.oracles : NextResult[o].raised
       THEN Exit([result |-> "raised"])
       ELSE /\ proc' = [proc EXCEPT !.merged = @ + 1,
                    !.total = [o \in proc.args.oracles |->
                        Added(@[o], proc.files[proc.merged + 1], NextResult[o])]]
            /\ UNCHANGED outcome
    /\ UNCHANGED <<world, version, corpus, golden, index, mid>>

\* oracle 4 is reported and not allowed to fail the run
Gates(total) == \E o \in DOMAIN total \ {4} : total[o].failed > 0

runReport ==
    /\ proc.cmd = "run" /\ AllMerged
    /\ Exit([result |-> "compared", args |-> proc.args, total |-> proc.total,
             code |-> IF Gates(proc.total) THEN 1 ELSE 0])
    /\ UNCHANGED <<world, version, corpus, golden, index, mid>>

-----------------------------------------------------------------------------
interrupt ==
    /\ proc # Idle
    /\ Exit([result |-> "interrupted"])
    /\ UNCHANGED <<world, version, corpus, golden, index, mid>>

\* collect, adopt, an edit by hand; fetch-reference.sh
surroundings ==
    /\ proc = Idle
    /\ corpus' \in Corpora /\ version' \in DOMAIN world.refs
    /\ <<corpus, version>>' # <<corpus, version>>
    /\ outcome' = NotEnded
    /\ UNCHANGED <<world, golden, index, mid, proc>>

Init ==
    /\ world \in Worlds
    /\ version \in DOMAIN world.refs
    /\ corpus \in Corpora
    /\ golden = << >> /\ index = None /\ mid = << >>
    /\ proc = Idle /\ outcome = NotEnded

Next ==
    \/ cmd_golden \/ goldenWrite \/ goldenSave
    \/ \E args \in Invocations : cmd_run(args)
    \/ \E i \in 1..Len(Files) :
          /\ proc # Idle /\ i <= Len(proc.files)
          /\ goldenClassify(i) \/ oneWritesMid(i) \/ oneEnds(i)
    \/ runMerge \/ runReport
    \/ interrupt
    \/ surroundings

Spec == Init /\ [][Next]_vars

-----------------------------------------------------------------------------
(* Properties *)

\* The shape of the state: goldens are of corpus files, results are consumed in
\* order and after their threads delivered them, and at every moment each oracle has
\* counted each consumed file exactly once.
HarnessTypeOK ==
    /\ DOMAIN golden \subseteq Range(Files)
    /\ index # None => DOMAIN index.files \subseteq Range(Files)
    /\ proc # Idle => /\ proc.merged \in 0..Len(proc.files)
                      /\ \A i \in 1..proc.merged : proc.results[i] # None
    /\ proc.cmd = "run" => \A o \in proc.args.oracles :
          proc.total[o].passed + proc.total[o].failed + proc.total[o].skipped
              = Cardinality({i \in 1..proc.merged : proc.results[i] # Ignored})

\* Whenever index.json exists, however many `golden` runs were interrupted or failed
\* before, it has the goldens of one complete run: every entry has its files, from
\* the reference the index names, and a reprint exactly if the file parses.
GoldenIsComplete ==
    index # None =>
        \A rel \in DOMAIN index.files :
            /\ rel \in DOMAIN golden
            /\ golden[rel].version = index.reference
            /\ golden[rel].reprint = None <=> index.files[rel].bucket = SYNTAX_BAD

Compared == outcome.result = "compared"
Graded == {rel \in DOMAIN index.files : corpus[rel] # None}
Alone(rel) ==
    LET impl == Impl(outcome.args)
        printed == impl[corpus[rel]]["wax"]
    IN Verdicts(outcome.args, rel, impl, Reference, printed, printed.out)

\* The totals do not depend on how the threads interleave: at every moment each oracle
\* has counted each consumed file once, and at the end the totals are what grading the
\* files one by one gives.  Time limits are left out: which children they hit is chance.
ResultIsSequential ==
    /\ HarnessTypeOK
    /\ Compared /\ world.slow = {} => \A o \in outcome.args.oracles :
          LET total == outcome.total[o]
              of(rel) == Alone(rel)[o]
          IN /\ \A c \in {"passed", "failed", "skipped"} :
                   total[c] = Cardinality({rel \in Graded : of(rel).count = c})
             /\ total.failures = UNION {{<<rel, f>> : f \in of(rel).failures} : rel \in Graded}
             /\ total.drift = UNION {{<<rel, d>> : d \in of(rel).drift} : rel \in Graded}

\* the goldens are of these texts and of this reference
Fresh == \A rel \in Graded : /\ golden[rel].text = corpus[rel]
                             /\ golden[rel].version = version

SameDiagnostics(rel, ours, theirs) ==
    /\ ours.err.json /\ ours.code = theirs.code
    /\ Len(ours.err.diags) = Len(theirs.err.diags)
    /\ \A i \in DOMAIN ours.err.diags : \A f \in GATED \ {"file"} :
          \/ ours.err.diags[i][f] = theirs.err.diags[i][f]
          \/ rel \in SPAN_EXEMPT /\ f \in SPAN_FIELDS

\* what the docstring of the harness promises of one file
Parity(args, rel) ==
    LET ours == Impl(args)[corpus[rel]]
        theirs == Reference[corpus[rel]]
        parses == theirs["wax"].code = 0
        compiles == parses /\ theirs["wasm"].code = 0
        built == IF PolicyOf(args).route = NATIVE THEN ours["wasm"]
                 ELSE Reference[ours["wax"].out]["wasm"]
    IN /\ 1 \in args.oracles /\ parses =>
             ours["wax"].code = 0 /\ ours["wax"].out = theirs["wax"].out
       /\ 2 \in args.oracles /\ compiles =>
             built.code = 0 /\ built.out = theirs["wasm"].out
       /\ 3 \in args.oracles /\ (args.scope = "full" \/ ~parses) =>
             SameDiagnostics(rel, ours["check"], theirs["check"])

\* A run that exits 0 against goldens of this corpus and this reference means parity
\* on every graded file: the same reprint, the same binary, the same diagnostics on
\* every gated field that is not exempted.  An answer that is lost at the time limit
\* in `run` never turns into a pass.
GreenIsParity ==
    Compared /\ Fresh /\ "golden" \notin world.slow /\ outcome.code = 0 =>
        \A rel \in Graded : Parity(outcome.args, rel)

\* the list of unstable files is what the reference does
ListsAreTrue ==
    \A rel \in Graded :
        LET once == Reference[corpus[rel]]["wax"] IN
        once.code = 0 =>
            LET twice == Reference[once.out]["wax"] IN
            rel \in NON_IDEMPOTENT_UPSTREAM <=> ~(twice.code = 0 /\ twice.out = once.out)

\* The reference passes its own goldens under --self-test, wherever the checkout is
\* and whatever the exemptions of the port are: any failure would be a harness bug.
SelfTestIsGreen ==
    Compared /\ Fresh /\ ListsAreTrue /\ world.slow = {} /\ outcome.args.self_test => outcome.code = 0

\* Stated by the help of --impl: "The default compares the reference against its own
\* goldens, which passes trivially whatever the port does".
DefaultIsTrivial ==
    Compared /\ Fresh /\ ListsAreTrue /\ outcome.args.impl = "reference" => outcome.code = 0

\* Stated by the docstring of classify_one: the exit status of `-f wax` "isolates 'did
\* it parse?' from 'did it type-check?'".  A file in the bucket syntax-bad, or in
\* type-bad, is one that the reference rejects.
BucketIsTrue ==
    index # None => \A rel \in Graded :
        golden[rel].text = corpus[rel] =>
            LET runs == world.refs[golden[rel].version][corpus[rel]] IN
            /\ index.files[rel].bucket = SYNTAX_BAD => runs["wax"].code # 0
            /\ index.files[rel].bucket = TYPE_BAD => runs["wasm"].code # 0
=============================================================================
