------------------------------ MODULE Oracles ------------------------------
(***************************************************************************)
(* The oracles of waxdiff.py as functions of what two implementations do.  *)
(*                                                                         *)
(* An implementation maps a source text to the Run of each command line:   *)
(* `-f wax` (its output is again a source text), `-f wasm`, `-f wat` and   *)
(* `check --error-format json`.  A Run has code, out and err; the err of a *)
(* check is [json, diags], where ~json is anything json.loads refuses.     *)
(* startLine to endOffset of a diagnostic are one pair of offsets, and the *)
(* drift of a check that fails is left out unless it is the ladder's.       *)
(***************************************************************************)
EXTENDS Integers, Sequences, FiniteSets

CONSTANTS
    None,
    HasWasmTools,        \* whether wasm-tools is on the PATH
    NON_IDEMPOTENT_UPSTREAM,
    SyntaxMessages,      \* messages that start with _SYNTAX_MESSAGE
    Invalid,             \* binaries wasm-tools does not validate
    CustomOnly           \* sets of binaries equal but for custom sections

ASSUME OraclesAssumption == HasWasmTools \in BOOLEAN

SYNTAX_BAD == "syntax-bad"
COMPILES_CLEAN == "compiles-clean"
TYPE_BAD == "type-bad"
VIA_REFERENCE == "via-reference"
NATIVE == "native"

GATED == {"severity", "file", "start", "end", "warning"}
REPORTED == {"message"}
SPAN_FIELDS == {"start", "end"}

Commands == {"wax", "wasm", "wat", "check"}
NoDiagnostics == [json |-> TRUE, diags |-> <<>>]
NotJson == [json |-> FALSE, diags |-> <<>>]

\* what run() returns when the child is killed at the time limit
TimedOut == [code |-> -1, out |-> None, err |-> NotJson]

sha256(data) == [sha256 |-> data]

-----------------------------------------------------------------------------
(* golden: what the reference does *)

\* r: the runs of the reference on one file
classify_one(r) ==
    LET parses == r["wax"].code = 0
        compiles == parses /\ r["wasm"].code = 0
    IN [bucket |-> IF ~parses THEN SYNTAX_BAD
                   ELSE IF compiles THEN COMPILES_CLEAN ELSE TYPE_BAD,
        diag_code |-> r["check"].code,
        reprint |-> IF parses THEN r["wax"].out ELSE None,
        diagnostics |-> r["check"].err,
        wasm_sha256 |-> IF compiles THEN sha256(r["wasm"].out) ELSE None]

\* an absolute path into test/corpus/ becomes relative, another is left alone
normalize_file(d) == IF d.file.marked THEN [d EXCEPT !.file.root = None] ELSE d

Normalized(diags) == [i \in DOMAIN diags |-> normalize_file(diags[i])]

\* write_golden parses the diagnostics it stores, and raises if it cannot
GoldenRaises(res) == ~res.diagnostics.json

\* the .reprint and .diag.jsonl of one file; an empty stderr leaves no file
write_golden(res) ==
    [reprint |-> res.reprint,
     diag |-> IF res.diagnostics = NoDiagnostics THEN None
              ELSE Normalized(res.diagnostics.diags)]

\* the entry of one file in index.json
IndexEntry(res) ==
    [bucket |-> res.bucket, diag_code |-> res.diag_code,
     wasm_sha256 |-> res.wasm_sha256]

-----------------------------------------------------------------------------
(* the policy of test/oracle-policy.json *)

Modes(o1, o2, o3, o4) == <<o1, o2, o3, o4>>

Scopes ==
    [frontEnd |-> [b \in {SYNTAX_BAD, COMPILES_CLEAN, TYPE_BAD} |->
        CASE b = SYNTAX_BAD -> Modes("skip", "skip", "match", "skip")
          [] b = COMPILES_CLEAN -> Modes("match", "match", "no-errors", "match")
          [] b = TYPE_BAD -> Modes("match", "skip", "no-errors", "skip")],
     full |-> [b \in {SYNTAX_BAD, COMPILES_CLEAN, TYPE_BAD} |->
        CASE b = SYNTAX_BAD -> Modes("skip", "skip", "match", "skip")
          [] b = COMPILES_CLEAN -> Modes("match", "match", "match", "match")
          [] b = TYPE_BAD -> Modes("match", "skip", "match", "match")]]

load_policy(scope, route) ==
    [buckets |-> Scopes[scope], route |-> route, self_test |-> FALSE]

\* a mutant of SelfTested: the exemptions are still guarded against staleness
selfTestedGuarded(policy) ==
    [buckets |-> [b \in DOMAIN policy.buckets |->
        [policy.buckets[b] EXCEPT ![3] = IF @ = "no-errors" THEN "skip" ELSE @]],
     route |-> NATIVE, self_test |-> FALSE]

\* --self-test: the buckets where the reference is no stand-in are skipped
SelfTested(policy) ==
    [buckets |-> [b \in DOMAIN policy.buckets |->
        [policy.buckets[b] EXCEPT ![3] = IF @ = "no-errors" THEN "skip" ELSE @]],
     route |-> NATIVE, self_test |-> TRUE]

Mode(policy, meta, o) == policy.buckets[meta.bucket][o]

-----------------------------------------------------------------------------
(* One check adds one to passed, failed or skipped of its Outcome. *)

Verdict(count, failures, drift) ==
    [count |-> count, failures |-> failures, drift |-> drift, raised |-> FALSE]
Passed == Verdict("passed", {}, {})
Skipped == Verdict("skipped", {}, {})
Failure(oracle, detail) == Verdict("failed", {<<oracle, detail>>}, {})
Raised == [count |-> "none", failures |-> {}, drift |-> {}, raised |-> TRUE]

\* formatting the formatted text again changes nothing, except for listed files
_check_idempotent(impl, rel, once) ==
    LET twice == impl[once]["wax"]
        stable == twice.code = 0 /\ twice.out = once
        expected_unstable == rel \in NON_IDEMPOTENT_UPSTREAM
    IN IF stable /\ expected_unstable THEN Failure("idempotence", "stale entry")
       ELSE IF ~stable /\ ~expected_unstable THEN Failure("idempotence", "unstable")
       ELSE Passed

check_oracle1(impl, rel, text, meta, gold, policy) ==
    LET got == impl[text]["wax"] IN
    IF Mode(policy, meta, 1) = "skip" \/ gold.reprint = None THEN Skipped
    ELSE IF got.code # 0 THEN Failure("reprint", "exited")
    ELSE IF got.out # gold.reprint THEN Failure("reprint", "differs")
    ELSE _check_idempotent(impl, rel, got.out)

\* the tiers below the hash only describe a failure: T0 valid, T1 equal once
\* custom sections are stripped from both
_ladder(got, want_sha, theirs) ==
    IF sha256(got) = want_sha THEN Passed
    ELSE Verdict("failed", {<<"wasm", "differs">>},
            IF ~HasWasmTools THEN {}
            ELSE IF got \in Invalid THEN {"T0 invalid"}
            ELSE IF theirs.code = 0 /\ {got, theirs.out} \in CustomOnly
                 THEN {"T1 equal"} ELSE {})

\* whether there is a binary to compare with
Oracle2Skips(meta, policy) ==
    Mode(policy, meta, 2) = "skip" \/ meta.wasm_sha256 = None

\* a mutant of Oracle2Native: a back end that was killed is not counted
nativeSkipsKilled(impl, ref, text, meta) ==
    LET built == impl[text]["wasm"] IN
    IF built.code < 0 THEN Skipped
    ELSE IF built.code # 0 THEN Failure("wasm", "exited")
    ELSE _ladder(built.out, meta.wasm_sha256, ref[text]["wasm"])

\* the native route: our own binary
Oracle2Native(impl, ref, text, meta) ==
    LET built == impl[text]["wasm"] IN
    IF built.code # 0 THEN Failure("wasm", "exited")
    ELSE _ladder(built.out, meta.wasm_sha256, ref[text]["wasm"])

\* the via-reference route: the reference compiles the text that we printed and
\* that the file `mid` holds when it is read
Oracle2Via(ref, printed, mid, meta) ==
    IF printed.code # 0 THEN Failure("wasm", "reprint exited")
    ELSE LET built == ref[mid]["wasm"] IN
         IF built.code # 0 THEN Failure("wasm", "does not compile")
         ELSE IF sha256(built.out) # meta.wasm_sha256 THEN Failure("wasm", "differs")
         ELSE Passed

check_oracle2(impl, ref, text, meta, policy) ==
    IF Oracle2Skips(meta, policy) THEN Skipped
    ELSE IF policy.route = NATIVE THEN Oracle2Native(impl, ref, text, meta)
    ELSE Oracle2Via(ref, impl[text]["wax"], impl[text]["wax"].out, meta)

\* <<index, field>> of the gated fields that differ
GatedDifferences(want, got) ==
    {d \in (DOMAIN want) \X GATED : want[d[1]][d[2]] # got[d[1]][d[2]]}
ReportedDifferences(want, got) ==
    {d \in (DOMAIN want) \X REPORTED : want[d[1]][d[2]] # got[d[1]][d[2]]}

\* a mutant of Excusable: an exempt file is excused from every gated field
excusableAny(exempt, d) == exempt

\* only span fields, and only of a file on the list
Excusable(exempt, d) == exempt /\ d[2] \in SPAN_FIELDS

check_oracle3(impl, text, meta, gold, policy, exempt) ==
    LET run == impl[text]["check"]
        want == IF gold.diag = None THEN <<>> ELSE gold.diag
        got == Normalized(run.err.diags)
        differences == GatedDifferences(want, got)
    IN IF Mode(policy, meta, 3) = "skip" THEN Skipped
       ELSE IF ~run.err.json THEN Raised
       ELSE IF Mode(policy, meta, 3) = "no-errors"
            THEN IF \E i \in DOMAIN got : got[i].severity = "error"
                 THEN Failure("errors", "reported on a file that parses") ELSE Passed
       ELSE IF run.code # meta.diag_code THEN Failure("errors", "exit code")
       ELSE IF Len(got) # Len(want) THEN Failure("errors", "count")
       ELSE IF \E d \in differences : ~Excusable(exempt, d)
            THEN Failure("errors", "gated field")
       ELSE IF exempt /\ differences = {} /\ ~policy.self_test
            THEN Failure("errors", "stale exemption")
       ELSE Verdict("passed", {}, differences \cup ReportedDifferences(want, got))

\* text parity: the reference is asked at compare time
check_oracle4(impl, ref, text, meta, policy) ==
    LET theirs == ref[text]["wat"]
        ours == impl[text]["wat"]
    IN IF Mode(policy, meta, 4) = "skip" \/ theirs.code # 0 THEN Skipped
       ELSE IF ours.code # 0 THEN Verdict("failed", {<<"wat", "exited">>}, {"not printed"})
       ELSE IF ours.out # theirs.out
            THEN Verdict("failed", {<<"wat", "differs">>}, {"diff"})
       ELSE Passed
=============================================================================
