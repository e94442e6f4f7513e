---------------------------- MODULE MessageTable ----------------------------
(***************************************************************************)
(* gen_parser_messages.py: each error sentence of the reference's golden   *)
(* is parsed by the port; the stack it fails on, and the stack that one    *)
(* reduces to, become the keys of two tables of messages, as deep as it    *)
(* takes to tell the messages apart.  The written tables are read by       *)
(* lookup (the generated code) on behalf of syntax_report.                 *)
(*                                                                         *)
(* A message is a value that stands for its text and its two labels.  A    *)
(* signature is the set of the tokens that the real parse says it would    *)
(* have accepted; it is computed before the default reductions that lead   *)
(* to the failing stack, so it is not a function of that stack.            *)
(***************************************************************************)
EXTENDS Naturals, Sequences, FiniteSets, FiniteSetsExt, Dictionaries

CONSTANTS
    Goldens,       \* sequences of entries [entry, sentence, message, fails]
    Named,         \* message -> the tokens it quotes
    None, Deeper

Tables == {"failing", "reduced"}

\* A stack starts with the automaton's start state, which no transition leads to.
Rooted(stack) == stack # <<>> /\ \A j \in DOMAIN stack : stack[j] = 0 <=> j = 1
Stack == {stack \in Seq(Nat) : Rooted(stack)}

\* What errstate prints of a source: nothing but a dash when it does not lex or when it
\* parses, and else where it fails, the signature of its own parse, and the stack that
\* the reductions of the built %on_error_reduce set lead to.
Failure == [stack : Stack, index : Nat, signature : SUBSET STRING,
            reduced : [{"old", "new"} -> Stack \cup {None}]]

ASSUME MessageAssumption ==
    /\ None \notin Stack \cup Failure
    /\ \A g \in Goldens :
          g \in Seq([entry : STRING, sentence : Seq(STRING), message : DOMAIN Named,
                     fails : Failure \cup {None}])
    /\ {None, Deeper} \cap [signature : SUBSET STRING, message : DOMAIN Named] = {}

VARIABLES
    golden,        \* parser_messages.expected
    phase, ids,    \* the set that error_reduce.mbt holds, the reference's is "new"
    built,         \* the set that errstate was built with
    n, parsed_fine, misplaced,
    items,         \* per table: the entries that claim a key of it
    table, work,   \* the table being built and the groups still to be keyed
    out, dropped,
    written        \* parser_messages.mbt: "old" or the two tables and their depth

vars == <<golden, phase, ids, built, n, parsed_fine, misplaced, items, table, work,
          out, dropped, written>>

Init ==
    /\ golden \in Goldens
    /\ phase = "start" /\ ids = "old" /\ built = "old"
    /\ n = 1 /\ parsed_fine = 0 /\ misplaced = 0
    /\ items = [t \in Tables |-> {}]
    /\ table = "failing" /\ work = {}
    /\ out = [t \in Tables |-> <<>>] /\ dropped = [t \in Tables |-> 0]
    /\ written = "old"

-----------------------------------------------------------------------------
(* The sentences *)

\* our lexer appends the end of the input: nothing is written for it
lexeme(t) == IF t = "EOF" THEN "" ELSE t
render(sentence) == SelectSeq(sentence, LAMBDA t : lexeme(t) # "")

\* dummy_ctx is the reference's fake start symbol: its sentences are left out
es == {i \in DOMAIN golden : golden[i].entry # "dummy_ctx"}

Signature(i) == golden[i].fails.signature
Value(i) == [signature |-> Signature(i), message |-> golden[i].message]
StackOf(t, i, set) == IF t = "failing" THEN golden[i].fails.stack ELSE golden[i].fails.reduced[set]

-----------------------------------------------------------------------------
(* The key of a stack, and what a key stands for *)

Shallower(a, b) == IF a < b THEN a ELSE b

\* stack[-depth:], which is all of a stack that has no more frames
key_of(stack, depth) == SubSeq(stack, Len(stack) + 1 - Shallower(depth, Len(stack)), Len(stack))

Groups(t, group, depth) ==
    {{j \in group : key_of(StackOf(t, j, built), depth) = key_of(StackOf(t, i, built), depth)} :
        i \in group}

KeyOf(w) == key_of(StackOf(table, CHOOSE i \in w.group : TRUE, built), w.depth)
HasDeeper(w) == \E i \in w.group : Len(StackOf(table, i, built)) > w.depth

-----------------------------------------------------------------------------
(* main, up to the replay of the sentences *)

\* on_error_reduce_ids exits when a declared symbol is not exactly one of ours
on_error_reduce_ids ==
    /\ phase = "start" /\ phase' = "exit"
    /\ UNCHANGED <<golden, ids, built, n, parsed_fine, misplaced, items, table, work, out, dropped, written>>

write_error_reduce ==
    /\ phase = "start" /\ phase' = "ids" /\ ids' = "new"
    /\ UNCHANGED <<golden, built, n, parsed_fine, misplaced, items, table, work, out, dropped, written>>

\* a mutant of moonBuild: the tree is not rebuilt
buildSkipped ==
    /\ phase = "ids" /\ phase' = "tree"
    /\ UNCHANGED <<golden, ids, built, n, parsed_fine, misplaced, items, table, work, out, dropped, written>>

moonBuild ==
    /\ phase = "ids"
    /\ \/ phase' = "tree" /\ built' = ids
       \/ phase' = "exit" /\ built' = built
    /\ UNCHANGED <<golden, ids, n, parsed_fine, misplaced, items, table, work, out, dropped, written>>

\* errstate prints no row for an empty line, and the rows must be as many as the sources
states_of ==
    /\ phase = "tree"
    /\ phase' = IF \E i \in es : render(golden[i].sentence) = <<>> THEN "exit" ELSE "filter"
    /\ UNCHANGED <<golden, ids, built, n, parsed_fine, misplaced, items, table, work, out, dropped, written>>

-----------------------------------------------------------------------------
(* main: which sentences claim a key *)

Filtering == phase = "filter" /\ n \in es

skipDummy ==
    /\ phase = "filter" /\ n \in DOMAIN golden \ es
    /\ n' = n + 1
    /\ UNCHANGED <<golden, phase, ids, built, parsed_fine, misplaced, items, table, work, out, dropped, written>>

parsedFine ==
    /\ Filtering /\ golden[n].fails = None
    /\ parsed_fine' = parsed_fine + 1 /\ n' = n + 1
    /\ UNCHANGED <<golden, phase, ids, built, misplaced, items, table, work, out, dropped, written>>

OnLast(e) == e.fails.index + 1 = Len(render(e.sentence))

misplace ==
    /\ Filtering /\ golden[n].fails # None /\ ~OnLast(golden[n])
    /\ misplaced' = misplaced + 1 /\ n' = n + 1
    /\ UNCHANGED <<golden, phase, ids, built, parsed_fine, items, table, work, out, dropped, written>>

record ==
    /\ Filtering /\ golden[n].fails # None /\ OnLast(golden[n])
    /\ items' = [t \in Tables |->
                   IF StackOf(t, n, built) = None THEN items[t] ELSE items[t] \cup {n}]
    /\ n' = n + 1
    /\ UNCHANGED <<golden, phase, ids, built, parsed_fine, misplaced, table, work, out, dropped, written>>

-----------------------------------------------------------------------------
(* build: one table after the other, one group of claims at a time *)

\* the work of a call on a group: a group per key of the given depth
Calls(t, group, depth) == {[group |-> g, depth |-> depth] : g \in Groups(t, group, depth)}

startBuild ==
    /\ phase = "filter" /\ n > Len(golden)
    /\ phase' = "build" /\ work' = Calls("failing", items["failing"], 1)
    /\ UNCHANGED <<golden, ids, built, n, parsed_fine, misplaced, items, table, out, dropped, written>>

secondTable ==
    /\ phase = "build" /\ table = "failing" /\ work = {}
    /\ table' = "reduced" /\ work' = Calls("reduced", items["reduced"], 1)
    /\ UNCHANGED <<golden, phase, ids, built, n, parsed_fine, misplaced, items, out, dropped, written>>

\* a mutant of Resolved: claims are told apart by their stacks too
resolvedSingle(w) == Cardinality({<<StackOf(table, i, built), Value(i)>> : i \in w.group}) = 1

Resolved(w) == \A i, j \in w.group : Value(i) = Value(j)

resolve(w) ==
    /\ Resolved(w)
    /\ out' = [out EXCEPT ![table] = Put(@, KeyOf(w), Value(CHOOSE i \in w.group : TRUE))]
    /\ work' = work \ {w} /\ dropped' = dropped

\* a mutant of drop: a key that stays contested keeps one of its messages
dropGuesses(w) ==
    /\ ~Resolved(w) /\ ~HasDeeper(w)
    /\ out' = [out EXCEPT ![table] = Put(@, KeyOf(w), Value(CHOOSE i \in w.group : TRUE))]
    /\ dropped' = [dropped EXCEPT ![table] = @ + Cardinality(w.group)]
    /\ work' = work \ {w}

drop(w) ==
    /\ ~Resolved(w) /\ ~HasDeeper(w)
    /\ dropped' = [dropped EXCEPT ![table] = @ + Cardinality(w.group)]
    /\ work' = work \ {w} /\ out' = out

\* a mutant of deepen: a contested key is always taken one frame deeper
deepenAlways(w) ==
    /\ ~Resolved(w)
    /\ out' = [out EXCEPT ![table] = Put(@, KeyOf(w), Deeper)]
    /\ work' = (work \ {w}) \cup Calls(table, w.group, w.depth + 1)
    /\ dropped' = dropped

deepen(w) ==
    /\ ~Resolved(w) /\ HasDeeper(w)
    /\ out' = [out EXCEPT ![table] = Put(@, KeyOf(w), Deeper)]
    /\ work' = (work \ {w}) \cup Calls(table, w.group, w.depth + 1)
    /\ dropped' = dropped

buildGroup ==
    /\ phase = "build"
    /\ \E w \in work : resolve(w) \/ drop(w) \/ deepen(w)
    /\ UNCHANGED <<golden, phase, ids, built, n, parsed_fine, misplaced, items, table, written>>

-----------------------------------------------------------------------------
(* The written file, and the lookup it is read with *)

\* the deepest key of the two tables, but 0 whenever the first is empty
max_depth ==
    IF out["failing"] = <<>> THEN 0
    ELSE Max({Len(k) : k \in DOMAIN out["failing"] \cup DOMAIN out["reduced"]})

writeTable ==
    /\ phase = "build" /\ table = "reduced" /\ work = {}
    /\ phase' = "done" /\ written' = [tables |-> out, depth |-> max_depth]
    /\ UNCHANGED <<golden, ids, built, n, parsed_fine, misplaced, items, table, work, out, dropped>>

Next ==
    \/ on_error_reduce_ids \/ write_error_reduce \/ moonBuild \/ states_of
    \/ skipDummy \/ parsedFine \/ misplace \/ record
    \/ startBuild \/ secondTable \/ buildGroup \/ writeTable

Spec == Init /\ [][Next]_vars

message_fits(message, signature) == Named[message] \subseteq signature

\* from the top frame down, as long as the table says to look deeper
lookup(stack, signature, t) ==
    LET keys == written.tables[t]
        entry(d) == IF key_of(stack, d) \in DOMAIN keys THEN keys[key_of(stack, d)] ELSE None
        ends == {d \in 1..Shallower(Len(stack), written.depth) : entry(d) # Deeper}
        found == entry(Min(ends))
    IN IF ends = {} \/ found = None THEN None
       ELSE IF found.signature = signature \/ message_fits(found.message, signature)
            THEN found ELSE None

-----------------------------------------------------------------------------
(* Properties *)

Suffix(key, stack) == Len(key) <= Len(stack) /\ key = key_of(stack, Len(key))
Claims(t, key) == {i \in items[t] : Suffix(key, StackOf(t, i, built))}

\* The shape of the state: every sentence passed is counted once, as one that parses,
\* one that fails on the wrong token or one that claims a key, and no group is taken
\* deeper than the stacks in it.
MessageTypeOK ==
    /\ phase \in {"start", "ids", "tree", "filter", "build", "done", "exit"}
    /\ {ids, built} \subseteq {"old", "new"} /\ table \in Tables
    /\ Cardinality(es \cap 1..(n - 1)) = parsed_fine + misplaced + Cardinality(items["failing"])
    /\ items["reduced"] \subseteq items["failing"] /\ items["failing"] \subseteq 1..(n - 1)
    /\ \A w \in work : /\ w.group # {} /\ w.group \subseteq items[table]
                       /\ \E i \in w.group : w.depth <= Len(StackOf(table, i, built))

\* "A key two different reference messages claim is dropped rather than guessed at"
\* (gen_parser_messages.py:27-28): whatever order the groups come in, a message in a
\* table is the message of every sentence whose stack ends in its key.
NeverGuessed ==
    \A t \in Tables : \A key \in DOMAIN out[t] :
        out[t][key] # Deeper => \A i \in Claims(t, key) : Value(i) = out[t][key]

\* No key is deeper than telling the claims apart takes: one frame less is claimed with
\* two different pairs of signature and message.
KeyIsShallowest ==
    \A t \in Tables : \A key \in DOMAIN out[t] :
        Len(key) > 1 => \E i, j \in Claims(t, Tail(key)) : Value(i) # Value(j)

\* The tables return what was recorded in them: with the %on_error_reduce set it was
\* generated beside, the parser finds for every sentence of the golden that claims a key
\* the message of that sentence, and exactly the sentences counted as dropped miss.
\* (With no key in the first table, the depth of the lookup is 0 and all miss.)  The
\* state is well typed throughout: every sentence passed is counted once.
RecordedOrDropped ==
    /\ MessageTypeOK
    /\ phase = "done" /\ written.tables["failing"] # <<>> =>
          \A t \in Tables :
              Cardinality({i \in items[t] :
                  lookup(StackOf(t, i, ids), Signature(i), t) # Value(i)}) = dropped[t]

\* "The key is the SHALLOWEST stack suffix that names one message"
\* (gen_parser_messages.py:455, parser_messages.mbt:16): one frame less names two.
ShallowestNamesMessage ==
    \A t \in Tables : \A key \in DOMAIN out[t] :
        Len(key) > 1 =>
            \E i, j \in Claims(t, Tail(key)) : golden[i].message # golden[j].message

\* "The sentence must fail on its LAST token (otherwise the source we wrote is not the
\* sentence the reference meant)" (gen_parser_messages.py:24-26): an entry that claims a
\* key failed where its sentence ends, at the end of the input if the sentence ends in it.
FailsOnLast ==
    \A i \in items["failing"] : golden[i].fails.index + 1 = Len(golden[i].sentence)
=============================================================================
