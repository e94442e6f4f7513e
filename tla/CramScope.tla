----------------------------- MODULE CramScope -----------------------------
(***************************************************************************)
(* waxdiff.py `classify-cram`: which of the reference's cram tests the     *)
(* port can run, decided from the text of their commands, and the copy of  *)
(* those tests under test/cram.  parse_args of cli/wax-mb reads what the   *)
(* shell makes of those commands when a selected test runs.                *)
(*                                                                         *)
(* A text is a sequence of lines [kind, segs] with kind "$" (a command),   *)
(* ">" (its continuation) or "out".  A line is split at its separators;    *)
(* of each segment, prog and args are its words between blanks, behind the *)
(* VAR=value prefixes: what the selector sees.  runs are the lists of      *)
(* words with which the shell starts wax from there, which quotes, loops,  *)
(* `!`, `$(wax ..)` and the like make differ from prog and args.  A word   *)
(* is [name, inline, long, redir]: inline is the value behind a "=" in it, *)
(* and redir says that it belongs to a redirection.                        *)
(***************************************************************************)
EXTENDS Naturals, Sequences, FiniteSets, Functions, Dictionaries

CONSTANTS
    Trees,      \* possible contents of wax/test/cram-tests: name -> [text, outside]
    Moves,      \* the trees among which the checkout of the reference moves
    Ext,        \* word -> its file extension, or None
    Slashed,    \* the words with a "/"
    None

Names == DOMAIN Ext
CramWords == [name : Names, inline : Names \cup {None}, long : BOOLEAN, redir : BOOLEAN]
Segments == [prog : STRING, args : Seq(CramWords), runs : SUBSET Seq(CramWords)]
Lines == [kind : {"$", ">", "out"}, segs : Seq(Segments)]
Tests == [text : Seq(Lines), outside : BOOLEAN]

ASSUME TreesAssumption ==
    /\ Moves \subseteq Trees
    /\ \A tree \in Trees : IsFiniteSet(DOMAIN tree) /\ \A t \in DOMAIN tree : tree[t] \in Tests

VARIABLES
    source,     \* wax/test/cram-tests
    dst,        \* test/cram
    scope,      \* cram-scope.md, or None
    proc, outcome

vars == <<source, dst, scope, proc, outcome>>

CRAM_OK_FLAGS ==
    {"-f", "--output-format", "--format", "-i", "--input-format", "-o", "--output",
     "--error-format", "--color", "-W", "--warn", "-c", "--check", "--all-errors",
     "-v", "--validate", "--try-table", "-X", "--feature", "-D", "--define"}
valued ==
    {"-f", "--output-format", "--format", "-i", "--input-format", "-o", "--output",
     "--error-format", "--color", "-W", "--warn", "-D", "--define", "-X", "--feature",
     "--debug"}
out_formats == {"-f", "--output-format", "--format"}
in_formats == {"-i", "--input-format"}
CRAM_OK_OUT_FORMATS == {"wax", "wat", "wasm"}
CRAM_OK_IN_FORMATS == {"wax"}
CRAM_OPAQUE == {"python3", "python", "node", "perl", "ruby", "sh", "bash"}
CRAM_OK_COMMANDS == {"convert", "format", "check"}

Answers == {"flag", "writes", "reads", "opaque", "subcommand", "unknown", "needs a value"}

\* None is neither a word nor an answer, and the name of a subcommand is no path
ASSUME ExtAssumption ==
    /\ None \notin Answers \cup Names
    /\ \A c \in CRAM_OK_COMMANDS \cap Names : Ext[c] = None /\ c \notin Slashed

\* names that start with "-", other than "-" itself
IsFlag(w) == w.name \in CRAM_OK_FLAGS \cup {"--inplace", "--debug", "--other"}

-----------------------------------------------------------------------------
(* The selector *)

\* what a pass over the words after `wax` says from word i on: the positionals, or a
\* reason
scanned(args, scan, i) ==
    IF i > Len(args) THEN [reason |-> None, positionals |-> <<>>]
    ELSE LET w == args[i]
             val == IF w.inline # None THEN w.inline
                    ELSE IF i < Len(args) THEN args[i + 1].name ELSE ""
             stop(why) == [reason |-> why, positionals |-> <<>>]
         IN CASE ~IsFlag(w) -> [scan[i + 1] EXCEPT !.positionals = <<w>> \o @]
              [] IsFlag(w) /\ w.name \notin CRAM_OK_FLAGS -> stop("flag")
              [] w.name \in out_formats /\ val \notin CRAM_OK_OUT_FORMATS -> stop("writes")
              [] w.name \in in_formats /\ val \notin CRAM_OK_IN_FORMATS -> stop("reads")
              [] OTHER -> scan[IF w.name \in valued /\ w.inline = None THEN i + 2 ELSE i + 1]

_scan(args) ==
    LET scan[i \in 1..(Len(args) + 2)] == scanned(args, scan, i) IN scan[1]

\* the first positional names a subcommand only when it is not a path
NamesCommand(positionals) ==
    /\ positionals # <<>>
    /\ LET head == Head(positionals).name IN Ext[head] = None /\ head \notin Slashed \cup {"-"}
FilesAmong(positionals) ==
    IF NamesCommand(positionals) THEN Tail(positionals) ELSE positionals

\* a mutant of _cram_wax_reason: the extensions of the files are not looked at
waxReasonNoFiles(seg) ==
    LET s == _scan(seg.args) IN
    IF seg.prog # "wax" THEN None
    ELSE IF s.reason # None THEN s.reason
    ELSE IF NamesCommand(s.positionals) /\ Head(s.positionals).name \notin CRAM_OK_COMMANDS
         THEN "subcommand"
    ELSE None

_cram_wax_reason(seg) ==
    LET s == _scan(seg.args) IN
    IF seg.prog # "wax" THEN None
    ELSE IF s.reason # None THEN s.reason
    ELSE IF NamesCommand(s.positionals) /\ Head(s.positionals).name \notin CRAM_OK_COMMANDS
         THEN "subcommand"
    ELSE IF \E f \in Range(FilesAmong(s.positionals)) : Ext[f.name] \notin {None, "wax"}
         THEN "reads"
    ELSE None

\* the commands of a text: the numbers of a "$" line and of every ">" line before the
\* next "$"
_cram_commands(text) ==
    {{j \in i..Len(text) : /\ text[j].kind # "out"
                           /\ \A k \in (i + 1)..j : text[k].kind # "$"} :
        i \in {j \in DOMAIN text : text[j].kind = "$"}}

First(numbers) == CHOOSE i \in numbers : \A j \in numbers : i <= j

\* only the first line of a command is judged
_cram_reason(text, cmd) ==
    LET segs == text[First(cmd)].segs
        why(seg) == IF seg.prog \in CRAM_OPAQUE THEN "opaque" ELSE _cram_wax_reason(seg)
        bad == {i \in DOMAIN segs : why(segs[i]) # None}
    IN IF bad = {} THEN None ELSE why(segs[First(bad)])

InScope(test) ==
    /\ \A cmd \in _cram_commands(test.text) : _cram_reason(test.text, cmd) = None
    /\ ~test.outside

-----------------------------------------------------------------------------
(* The shell *)

\* the words that a program is given of those of its command
Passed(words) ==
    LET rest[i \in 1..(Len(words) + 1)] ==
            IF i > Len(words) THEN <<>>
            ELSE IF words[i].redir THEN rest[i + 1] ELSE <<words[i]>> \o rest[i + 1]
    IN rest[1]

-----------------------------------------------------------------------------
(* parse_args of cli/wax-mb, and the formats that main then refuses *)

Booleans == {"--inplace", "-c", "--check", "--all-errors", "--try-table", "-v", "--validate"}

\* from word i on, right to left: a setting made further right wins, an error further
\* left does; the values that both programs refuse in the same way are left out
parsed(argv, command, parse, i) ==
    LET none == [command |-> command, err |-> None, files |-> <<>>,
                 input |-> None, output |-> None, path |-> None]
    IN IF i > Len(argv) THEN none
       ELSE LET w == argv[i]
                val == IF w.inline # None THEN w.inline
                       ELSE IF i < Len(argv) THEN argv[i + 1].name ELSE None
                rest == parse[IF w.inline # None THEN i + 1 ELSE i + 2]
                with(field) == [rest EXCEPT ![field] = IF @ = None THEN val ELSE @]
            IN IF ~IsFlag(w) THEN [parse[i + 1] EXCEPT !.files = <<w>> \o @]
               ELSE IF (w.inline # None /\ ~w.long) \/ w.name \in {"--other", "--debug"}
                    THEN [none EXCEPT !.err = "unknown"]
               ELSE IF w.name \in Booleans \/ (w.name = "-i" /\ command = "format")
                    THEN parse[i + 1]
               ELSE IF val = None THEN [none EXCEPT !.err = "needs a value"]
               ELSE IF w.name \in in_formats \/ (w.name = "-f" /\ command = "format")
                    THEN with("input")
               ELSE IF w.name \in out_formats THEN with("output")
               ELSE IF w.name \in {"-o", "--output"} THEN with("path")
               ELSE rest

parse_args(argv) ==
    LET named == argv # <<>> /\ argv[1].name \in CRAM_OK_COMMANDS
        command == IF named THEN argv[1].name ELSE "convert"
        parse[i \in 1..(Len(argv) + 2)] == parsed(argv, command, parse, i)
    IN parse[IF named THEN 2 ELSE 1]

\* main refuses a format that is not implemented; without -f the extension of the
\* output says which one it is
Refused(opts) ==
    LET output == IF opts.output # None THEN opts.output
                  ELSE IF opts.path # None /\ Ext[opts.path] \in CRAM_OK_OUT_FORMATS
                       THEN Ext[opts.path] ELSE "wax"
    IN \/ opts.err = "unknown"
       \/ opts.err = None /\ opts.input \notin {None, "wax"}
       \/ opts.err = None /\ opts.command = "convert" /\ output \notin CRAM_OK_OUT_FORMATS

-----------------------------------------------------------------------------
(* classify-cram *)

Idle == [phase |-> "none"]
Exit(how) == proc' = Idle /\ outcome' = how

Init ==
    /\ source \in Trees
    /\ dst = << >> /\ scope = None /\ proc = Idle /\ outcome = "none"

Included == {t \in DOMAIN source : InScope(source[t])}

cmd_classify_cram(dry_run) ==
    /\ proc = Idle
    /\ IF dry_run THEN Exit("dry run")
       ELSE /\ proc' = [phase |-> "remove", included |-> Included, todo |-> Included]
            /\ outcome' = "none"
    /\ UNCHANGED <<source, dst, scope>>

\* a mutant of removeDst: what an earlier run copied stays
dstKept ==
    /\ proc.phase = "remove"
    /\ proc' = [proc EXCEPT !.phase = "copy"]
    /\ UNCHANGED <<source, dst, scope, outcome>>

removeDst ==
    /\ proc.phase = "remove"
    /\ dst' = << >>
    /\ proc' = [proc EXCEPT !.phase = "copy"]
    /\ UNCHANGED <<source, scope, outcome>>

copyTest ==
    /\ proc.phase = "copy" /\ proc.todo # {}
    /\ \E t \in proc.todo :
          /\ dst' = Put(dst, t, source[t])
          /\ proc' = [proc EXCEPT !.todo = @ \ {t}]
    /\ UNCHANGED <<source, scope, outcome>>

\* a mutant of writeScope: the report counts every test
writeScopeAll ==
    /\ proc.phase = "copy" /\ proc.todo = {}
    /\ scope' = [included |-> Cardinality(DOMAIN source),
                 excluded |-> DOMAIN source \ proc.included]
    /\ Exit("ok")
    /\ UNCHANGED <<source, dst>>

writeScope ==
    /\ proc.phase = "copy" /\ proc.todo = {}
    /\ scope' = [included |-> Cardinality(proc.included),
                 excluded |-> DOMAIN source \ proc.included]
    /\ Exit("ok")
    /\ UNCHANGED <<source, dst>>

interrupt ==
    /\ proc # Idle
    /\ Exit("interrupted")
    /\ UNCHANGED <<source, dst, scope>>

checkout ==
    /\ proc = Idle /\ source \in Moves
    /\ source' \in Moves \ {source}
    /\ outcome' = "none"
    /\ UNCHANGED <<dst, scope, proc>>

Next ==
    \/ \E dry_run \in BOOLEAN : cmd_classify_cram(dry_run)
    \/ removeDst \/ copyTest \/ writeScope
    \/ interrupt \/ checkout

Spec == Init /\ [][Next]_vars

-----------------------------------------------------------------------------
(* Properties *)

\* The shape of the state: while tests are copied, test/cram has the selected tests
\* that are not still to be copied, and nothing an earlier run left.
CramTypeOK ==
    /\ \A t \in DOMAIN source : source[t].outside \in BOOLEAN
    /\ scope # None => scope.included \in Nat
    /\ outcome \in {"none", "ok", "dry run", "interrupted"}
    /\ proc.phase = "copy" => DOMAIN dst = proc.included \ proc.todo

\* After a run that ends, whatever was interrupted before it and wherever the checkout
\* moved, every test of the checkout was copied as it is or is listed as excluded, and
\* the report counts the copies.  On the way there test/cram never has anything else.
NothingIsLost ==
    /\ CramTypeOK
    /\ outcome = "ok" =>
          /\ scope.included = Cardinality(DOMAIN dst)
          /\ DOMAIN source = DOMAIN dst \cup scope.excluded
          /\ DOMAIN dst \cap scope.excluded = {}
          /\ \A t \in DOMAIN dst : dst[t] = source[t]

\* the segments of a test, on whichever line of a command they stand, and those that
\* the selector takes for wax
SegmentsOf(test) ==
    UNION {Range(test.text[i].segs) : i \in {j \in DOMAIN test.text : test.text[j].kind # "out"}}
Seen(seg) == seg.prog = "wax"

\* the port runs an invocation, and reads the selector's words without the redirections
\* as the selector did; the reference infers the format of a file from its extension,
\* the port takes every file for wax
Implemented(seg, argv) ==
    LET opts == parse_args(argv)
        positionals == _scan(seg.args).positionals
    IN /\ ~Refused(opts)
       /\ opts.err = None =>
             /\ opts.files = Passed(FilesAmong(positionals))
             /\ \A f \in Range(opts.files) : Ext[f.name] \in {None, "wax"}
             /\ opts.command = IF NamesCommand(positionals) THEN Head(positionals).name
                               ELSE "convert"

\* the shell only takes redirections away, none of them before the first word or where
\* a flag's value is expected
PlainShell(args, argv) ==
    /\ argv = Passed(args)
    /\ \A i \in DOMAIN args : args[i].redir =>
          /\ i # 1 /\ ~IsFlag(args[i])
          /\ ~(args[i - 1].name \in valued /\ args[i - 1].inline = None)

\* the subcommand comes first, a value follows a short flag as a word, and -f and -i
\* have one meaning
Plain(args) ==
    /\ \A i \in DOMAIN args : args[i].inline # None => args[i].long
    /\ NamesCommand(_scan(args).positionals) =>
          /\ args[1] = Head(_scan(args).positionals)
          /\ args[1].name = "format" => \A w \in Range(args) : w.name \notin {"-f", "-i"}
OneLine(test) == \A i \in DOMAIN test.text : test.text[i].kind # ">"

\* what the selector made of a segment holds of the invocations it was made for
JudgedRight(seg) ==
    Seen(seg) => \A argv \in seg.runs :
        PlainShell(seg.args, argv) /\ Plain(seg.args) => Implemented(seg, argv)

\* A selected test of one-line commands runs: the port knows every flag and format of
\* each invocation that the selector saw, and tells what the shell leaves of its words
\* apart as values, subcommand and files as the selector did.
SelectedIsImplemented ==
    \A t \in DOMAIN dst : OneLine(dst[t]) => \A seg \in SegmentsOf(dst[t]) : JudgedRight(seg)

\* Stated by the report: "A test is in scope when every `wax` command it runs uses only
\* flags and formats wax-mb implements".  Where the shell passes on the words that the
\* selector read, the port accepts them.
ScopeIsFlagsAndFormats ==
    \A t \in DOMAIN dst : OneLine(dst[t]) =>
        \A seg \in SegmentsOf(dst[t]) : Seen(seg) =>
            \A argv \in seg.runs : PlainShell(seg.args, argv) => ~Refused(parse_args(argv))

\* The same claim of the invocations that the selector does not see.
UnseenIsInScope ==
    \A t \in DOMAIN dst : OneLine(dst[t]) =>
        \A seg \in SegmentsOf(dst[t]) : ~Seen(seg) =>
            \A argv \in seg.runs : ~Refused(parse_args(argv))

\* Stated by the docstring of _cram_wax_reason: "it has to know which flags take a value",
\* or a value is read as something else.  It knows, whatever the shell does to the words.
ShellReadsTheSame ==
    \A t \in DOMAIN dst : OneLine(dst[t]) =>
        \A seg \in SegmentsOf(dst[t]) : Seen(seg) /\ Plain(seg.args) =>
            \A argv \in seg.runs : Implemented(seg, argv)

\* Stated by the docstring of cmd_classify_cram: "every `$` command is checked against
\* the flags wax-mb implements", a command being what _cram_commands returns, with its
\* continuation lines.
EveryCommandIsChecked ==
    \A t \in DOMAIN dst : \A seg \in SegmentsOf(dst[t]) : JudgedRight(seg)

\* Stated by the same docstring: the excluded set is written out, so "we run 40 of 329"
\* cannot quietly become "we run 12".  Between two commands the report counts the tests
\* that are there.
ReportIsCurrent ==
    proc = Idle /\ scope # None => scope.included = Cardinality(DOMAIN dst)
=============================================================================
