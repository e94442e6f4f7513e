--------------------------- MODULE ParserRecovery ---------------------------
(***************************************************************************)
(* The recovering parser of `wax check --all-errors`:                       *)
(* lib/syntax/parser/recover.mbt, which drives the generated LR tables in a *)
(* loop of its own and repairs the input where the generated parser would   *)
(* raise, with the "what if" walk over the tables of state.mbt.             *)
(*                                                                         *)
(* The tables are a parameter.  Token values, semantic actions, positions   *)
(* and messages are abstracted: a value on the data stack is the symbol it  *)
(* was built for and the set of the source tokens below it, by index;       *)
(* the position of a source token is its index.                             *)
(***************************************************************************)
EXTENDS Naturals, Sequences, FiniteSets

CONSTANTS
  Table,      \* yy_state: state -> symbol -> decision; no entry is Error
  Accessing,  \* state -> the symbol every transition into it is on
  Depth,      \* state -> the least number of transitions from state 0 to it
  Terminals,  \* the tokens of the grammar
  Inputs,     \* the token sequences to parse
  Limit       \* RECOVERY_LIMIT, 100 in the code

State == DOMAIN Table
Symbol == (UNION {DOMAIN Table[s] : s \in State}) \cup Terminals

End == "end"   \* symbol 0: end of input, and "no lookahead needed"

(***************************************************************************)
(* What the generator guarantees of the tables.  Every transition into a    *)
(* state is on one symbol; a reduction pops no more than any path to its    *)
(* state is long, and leads to a state with a transition on its symbol.     *)
(***************************************************************************)
Reduces(d) == d.kind \in {"reduce", "reduceNow"}

Decision ==
  [kind : {"shift"}, next : State]
    \cup [kind : {"reduce", "reduceNow"}, count : Nat, lhs : Symbol]
    \cup [kind : {"accept", "error"}]

ASSUME TableAssumption ==
  /\ 0 \in State
  /\ Accessing \in [State -> Symbol \cup {"none"}]
  /\ Depth \in [State -> Nat]
  /\ Depth[0] = 0
  /\ "none" \notin Symbol
  /\ \A s \in State : \A x \in DOMAIN Table[s] :
       /\ Table[s][x] \in Decision
       /\ Table[s][x].kind = "shift" =>
            /\ Accessing[Table[s][x].next] = x
            /\ Depth[Table[s][x].next] <= Depth[s] + 1
       /\ Reduces(Table[s][x]) => Table[s][x].count <= Depth[s]

\* The states past the end of the input, which decide without a lookahead.
Past == {s \in State : End \in DOMAIN Table[s]}

(***************************************************************************)
(* The end of the input is that of the grammar: the start state is not past *)
(* it, a token leads past it if it is "EOF", a reduction if it is made      *)
(* there, and nothing but that and to accept is done there.                 *)
(***************************************************************************)
ASSUME EndAssumption ==
  /\ 0 \notin Past
  /\ \A s \in Past : /\ DOMAIN Table[s] = {End}
                     /\ Table[s][End].kind \in {"reduceNow", "accept"}
  /\ \A s \in State : Accessing[s] \in Terminals => (s \in Past <=> Accessing[s] = "EOF")
  /\ \A s \in State : \A x \in DOMAIN Table[s] :
       /\ Table[s][x].kind = "accept" => s \in Past
       /\ Reduces(Table[s][x]) =>
            \A q \in State : Accessing[q] = Table[s][x].lhs => (q \in Past <=> s \in Past)

ASSUME TerminalsAssumption ==
  /\ {"EOF", "SEMI", "RBRACE", "RPAREN", "RBRACKET"} \subseteq Terminals
  /\ End \notin Terminals

\* The lexer stops at the end of the file, or at an error before it.
ASSUME InputsAssumption ==
  \A t \in Inputs : /\ t \in Seq(Terminals) /\ t # << >>
                   /\ \A i \in 1..(Len(t) - 1) : t[i] # "EOF"

ASSUME LimitAssumption == Limit \in Nat

yy_state(s, x) ==
  IF x \in DOMAIN Table[s] THEN Table[s][x] ELSE [kind |-> "error"]

-----------------------------------------------------------------------------
(* "What if" over the tables: a result is a set, empty for None.           *)

Top(s) == s[Len(s)]

(***************************************************************************)
(* A simulation: the stack, the symbol to be shifted, and the reduction     *)
(* under way, which pops `count` states and pushes `lhs`, if not "none".    *)
(***************************************************************************)
Simulation == [stack : Seq(State), symbol : Symbol \cup {End},
               count : Nat, lhs : Symbol \cup {"none"}]

Simulate(stack, symbol, count, lhs) ==
  [stack |-> stack, symbol |-> symbol, count |-> count, lhs |-> lhs]

\* One step of the walk, where `rest` says what the steps after it yield.
SimStep(rest, c) ==
  IF c.count >= Len(c.stack) THEN {}
  ELSE LET t == SubSeq(c.stack, 1, Len(c.stack) - c.count)
           d == yy_state(Top(t), IF c.lhs = "none" THEN c.symbol ELSE c.lhs)
       IN CASE d.kind = "shift" /\ c.lhs = "none" -> {Append(t, d.next)}
            [] d.kind = "shift" /\ c.lhs # "none" ->
                 rest[Simulate(Append(t, d.next), c.symbol, 0, "none")]
            [] Reduces(d) -> rest[Simulate(t, c.symbol, d.count, d.lhs)]
            [] d.kind = "accept" -> IF c.lhs = "none" THEN {t} ELSE {}
            [] d.kind = "error" -> {}

Sim[fuel \in Nat] ==
  [c \in Simulation |-> IF fuel = 0 THEN {} ELSE SimStep(Sim[fuel - 1], c)]

(***************************************************************************)
(* The stack that `stack` becomes if `symbol` is shifted after the          *)
(* reductions that implies.  The fuel is a backstop.                        *)
(***************************************************************************)
shift_sim(stack, symbol) ==
  Sim[4 * Len(stack) + 64][Simulate(stack, symbol, 0, "none")]

acceptable(stack, symbol) == shift_sim(stack, symbol) # {}

\* The terminals that a stack could shift: expected_at, and error() with it.
Expected(stack) == {t \in Terminals : acceptable(stack, t)}

\* Mutant of unblocks: that the candidate can be shifted is enough.
unblocksCandidate(stack, candidate, held) == acceptable(stack, candidate)

\* Would inserting `candidate` let `held` through?
unblocks(stack, candidate, held) ==
  \E after \in shift_sim(stack, candidate) : acceptable(after, held)

\* How a token behaves when recovery looks for somewhere to resume.
Opens == {"LBRACE", "LPAREN", "LBRACKET"}
Closes == {"RBRACE", "RPAREN", "RBRACKET"}
Items == {"FN", "TYPE", "REC", "IMPORT", "MEMORY", "DATA", "TABLE", "ELEM", "TAG",
          "CONST", "LET"}
Statements == {"RETURN", "BR", "BR_IF", "BR_TABLE", "THROW", "THROW_REF", "BECOME",
               "NOP", "UNREACHABLE"}
Leaders == Items \cup Statements

\* A module is a list of items, and may be empty.
ASSUME StartAssumption ==
  \A x \in (Items \cup {"SEMI", "EOF"}) \cap Terminals : acceptable(<< 0 >>, x)

candidates == <<"RBRACE", "RPAREN", "RBRACKET", "SEMI">>

(***************************************************************************)
(* Closers that, inserted in order, make `held` acceptable: the first       *)
(* candidate that can be shifted is taken each time.                        *)
(***************************************************************************)
Closing == [stack : Seq(State), held : Symbol \cup {End}]

\* One step, where `rest` says what the steps after it yield.
CloseStep(rest, c) ==
  LET able == {i \in DOMAIN candidates : acceptable(c.stack, candidates[i])}
      first == CHOOSE i \in able : \A j \in able : i <= j
      next == CHOOSE s \in shift_sim(c.stack, candidates[first]) : TRUE
  IN IF acceptable(c.stack, c.held) THEN {<< >>}
     ELSE IF able = {} THEN {}
     ELSE {<<candidates[first]>> \o q : q \in rest[[stack |-> next, held |-> c.held]]}

Close[n \in Nat] ==
  [c \in Closing |-> IF n = 0 THEN {} ELSE CloseStep(Close[n - 1], c)]

auto_close(stack, held) ==
  Close[Len(stack)][[stack |-> stack, held |-> held]] \ {<< >>}

(***************************************************************************)
(* Where to resume, from the offending token `from` on.  A closer or `;`    *)
(* counts only outside groups opened on the way, a leader at any depth, and *)
(* the end of input as a last resort, even at `from`.                       *)
(***************************************************************************)
Nesting(toks, from, i) ==
  Cardinality({j \in from..(i - 1) : toks[j] \in Opens})
    - Cardinality({j \in (from + 1)..(i - 1) : toks[j] \in Closes})

\* Mutant of Resumes: the end of input does not count at `from`.
ResumesLater(toks, from, i) ==
  \/ i > from /\ toks[i] \in Leaders \cup {"EOF"}
  \/ /\ i > from
     /\ toks[i] \in Closes \cup {"SEMI"}
     /\ Nesting(toks, from, i) <= 0

Resumes(toks, from, i) ==
  \/ toks[i] = "EOF"
  \/ i > from /\ toks[i] \in Leaders
  \/ /\ i > from
     /\ toks[i] \in Closes \cup {"SEMI"}
     /\ Nesting(toks, from, i) <= 0

resync(toks, from) ==
  {i \in from..Len(toks) :
     /\ Resumes(toks, from, i)
     /\ \A j \in from..(i - 1) : ~Resumes(toks, from, j)}

-----------------------------------------------------------------------------
VARIABLES
  tokens,      \* the input; without "EOF" if a lexical error cut it short
  stack,       \* states, bottom first
  data,        \* the values of the states above the bottom
  cursor,      \* how many tokens were read
  lookahead,
  pending,     \* tokens spliced in, read before the rest of the input
  last_pos,    \* the position just past the last token shifted
  last_insert, \* where a `;` was inserted last, Nowhere at first
  reports,     \* the errors, with the offending token and the repair
  shifted,     \* history: the stack after the last shift, which is the one the
               \* generated parser reports from
  phase        \* run, accepted, failed

vars == <<tokens, stack, data, cursor, lookahead, pending, last_pos, last_insert,
          reports, shifted, phase>>

Nowhere == Len(tokens) + 1

(***************************************************************************)
(* A token in hand: `at` is its index, 0 for one that was spliced in and    *)
(* for the end of an input without "EOF".                                   *)
(***************************************************************************)
Token == [sym : Terminals \cup {End}, at : 0..Len(tokens)]

NoToken == [sym |-> "none", at |-> 0]

Value == [sym : Symbol, yield : SUBSET (1..Len(tokens))]

TypeOK ==
  /\ tokens \in Inputs
  /\ stack \in Seq(State) /\ Len(stack) > 0
  /\ data \in Seq(Value)
  /\ cursor \in 0..Len(tokens)
  /\ lookahead \in Token \cup {NoToken}
  /\ pending \in Seq(Token)
  /\ last_pos \in 0..Len(tokens)
  /\ last_insert \in 0..Nowhere
  /\ reports \in Seq([at : 0..Len(tokens) + 1, repair : {"insert", "close", "skip"}])
  /\ shifted \in Seq(State)
  /\ phase \in {"run", "accepted", "failed"}

Init ==
  /\ tokens \in Inputs
  /\ stack = << 0 >>
  /\ data = << >>
  /\ cursor = 0
  /\ lookahead = NoToken
  /\ pending = << >>
  /\ last_pos = 0
  /\ last_insert = Nowhere
  /\ reports = << >>
  /\ shifted = << 0 >>
  /\ phase = "run"

\* The errors so far; the lexical error that cut the input short is the first.
ErrorCount == Len(reports) + (IF tokens[Len(tokens)] = "EOF" THEN 0 ELSE 1)

Looping == phase = "run" /\ ErrorCount < Limit

\* What the state at the top says without a lookahead, if anything.
Decided == yy_state(Top(stack), End).kind \in {"reduceNow", "accept"}

Current == yy_state(Top(stack), IF Decided THEN End ELSE lookahead.sym)

\* The loop has what it needs to decide.
Decides(kinds) ==
  /\ Looping
  /\ Decided \/ lookahead # NoToken
  /\ Current.kind \in kinds

-----------------------------------------------------------------------------
(* The loop of drive_recovering.                                           *)

\* A lookahead is needed: a spliced token, the next one, or the end.
read ==
  /\ Looping
  /\ ~Decided
  /\ lookahead = NoToken
  /\ IF pending # << >>
     THEN /\ lookahead' = Head(pending)
          /\ pending' = Tail(pending)
          /\ UNCHANGED cursor
     ELSE IF cursor < Len(tokens)
          THEN /\ lookahead' = [sym |-> tokens[cursor + 1], at |-> cursor + 1]
               /\ cursor' = cursor + 1
               /\ UNCHANGED pending
          ELSE /\ lookahead' = [sym |-> End, at |-> 0]
               /\ UNCHANGED <<cursor, pending>>
  /\ UNCHANGED <<tokens, stack, data, last_pos, last_insert, reports, shifted, phase>>

Leaf(token) == [sym |-> token.sym, yield |-> {token.at} \ {0}]

shift ==
  /\ Decides({"shift"})
  /\ stack' = Append(stack, Current.next)
  /\ data' = Append(data, Leaf(lookahead))
  /\ last_pos' = IF lookahead.at = 0 THEN last_pos ELSE lookahead.at
  /\ lookahead' = NoToken
  /\ shifted' = stack'
  /\ UNCHANGED <<tokens, cursor, pending, last_insert, reports, phase>>

\* The tokens below a sequence of values.
Below(values) == UNION {values[i].yield : i \in DOMAIN values}

(***************************************************************************)
(* A reduction: its action builds a value from the top of the data stack,   *)
(* states and values are popped together, and the symbol is shifted.  (In   *)
(* the generated table the columns of nonterminals hold shifts only, so the *)
(* other arms of the inner loop are never taken.)                           *)
(***************************************************************************)
reduce ==
  /\ Decides({"reduce", "reduceNow"})
  /\ LET n == Current.count
         rest == SubSeq(stack, 1, Len(stack) - n)
         args == SubSeq(data, Len(data) - n + 1, Len(data))
         goto == yy_state(Top(rest), Current.lhs)
     IN /\ goto.kind = "shift"
        /\ stack' = Append(rest, goto.next)
        /\ data' = Append(SubSeq(data, 1, Len(data) - n),
                          [sym |-> Current.lhs, yield |-> Below(args)])
  /\ UNCHANGED <<tokens, cursor, lookahead, pending, last_pos, last_insert, reports,
                 shifted, phase>>

accept ==
  /\ Decides({"accept"})
  /\ phase' = "accepted"
  /\ UNCHANGED <<tokens, stack, data, cursor, lookahead, pending, last_pos,
                 last_insert, reports, shifted>>

-----------------------------------------------------------------------------
(* The repairs, in the order they are tried.                               *)

Erring == Decides({"error"})

\* The offending token, as it is spliced in again.
Held == [sym |-> IF lookahead.sym = End THEN "EOF" ELSE lookahead.sym,
         at |-> lookahead.at]

Spliced(syms) == [i \in DOMAIN syms |-> [sym |-> syms[i], at |-> 0]]

\* One error, at the offending token or at the end of the input.
Report(repair) ==
  reports' = Append(reports,
    [at |-> IF lookahead.sym = End THEN Len(tokens) + 1 ELSE cursor, repair |-> repair])

CanInsert ==
  last_pos # last_insert /\ unblocks(stack, "SEMI", lookahead.sym)

\* Mutant of insertSemi: the offending token is not spliced in again.
insertSemiOnly ==
  /\ Erring
  /\ CanInsert
  /\ Report("insert")
  /\ last_insert' = last_pos
  /\ pending' = pending \o Spliced(<<"SEMI">>)
  /\ lookahead' = NoToken
  /\ UNCHANGED <<tokens, stack, data, cursor, last_pos, shifted, phase>>

\* Repair 1: a `;` in front of the offending token, if that unblocks it.
insertSemi ==
  /\ Erring
  /\ CanInsert
  /\ Report("insert")
  /\ last_insert' = last_pos
  /\ pending' = Append(pending \o Spliced(<<"SEMI">>), Held)
  /\ lookahead' = NoToken
  /\ UNCHANGED <<tokens, stack, data, cursor, last_pos, shifted, phase>>

Closers ==
  IF Held.sym \in Closes \cup {"SEMI", "EOF"}
  THEN auto_close(stack, lookahead.sym)
  ELSE {}

\* Repair 2: close what is open in front of a boundary.
autoClose ==
  /\ Erring
  /\ ~CanInsert
  /\ \E closers \in Closers : pending' = Append(pending \o Spliced(closers), Held)
  /\ Report("close")
  /\ lookahead' = NoToken
  /\ UNCHANGED <<tokens, stack, data, cursor, last_pos, last_insert, shifted, phase>>

\* The heights the stack can be unwound to so that `symbol` can be shifted.
Heights(symbol) ==
  {n \in 1..Len(stack) : acceptable(SubSeq(stack, 1, n), symbol)}

\* Mutant of skipTo: the values stay when the states are unwound.
skipKeepingData ==
  /\ Erring
  /\ ~CanInsert
  /\ Closers = {}
  /\ \E at \in resync(tokens, cursor) : \E n \in Heights(tokens[at]) :
       /\ \A m \in Heights(tokens[at]) : m <= n
       /\ stack' = SubSeq(stack, 1, n)
       /\ cursor' = at
       /\ lookahead' = [sym |-> tokens[at], at |-> at]
  /\ Report("skip")
  /\ UNCHANGED <<tokens, data, pending, last_pos, last_insert, shifted, phase>>

\* Mutant of skipTo: one value too many is unwound.
skipDroppingOne ==
  /\ Erring
  /\ ~CanInsert
  /\ Closers = {}
  /\ \E at \in resync(tokens, cursor) : \E n \in Heights(tokens[at]) :
       /\ \A m \in Heights(tokens[at]) : m <= n
       /\ stack' = SubSeq(stack, 1, n)
       /\ data' = SubSeq(data, 1, n - 2)
       /\ cursor' = at
       /\ lookahead' = [sym |-> tokens[at], at |-> at]
  /\ Report("skip")
  /\ UNCHANGED <<tokens, pending, last_pos, last_insert, shifted, phase>>

\* Mutant of skipTo: the token to resume at is read again.
skipAndReread ==
  /\ Erring
  /\ ~CanInsert
  /\ Closers = {}
  /\ \E at \in resync(tokens, cursor) : \E n \in Heights(tokens[at]) :
       /\ \A m \in Heights(tokens[at]) : m <= n
       /\ stack' = SubSeq(stack, 1, n)
       /\ data' = SubSeq(data, 1, n - 1)
       /\ cursor' = at - 1
       /\ lookahead' = [sym |-> tokens[at], at |-> at]
  /\ Report("skip")
  /\ UNCHANGED <<tokens, pending, last_pos, last_insert, shifted, phase>>

(***************************************************************************)
(* Repair 3: skip to where the parse can resume, and unwind states and      *)
(* values to the highest state that can shift that token.                   *)
(***************************************************************************)
skipTo ==
  /\ Erring
  /\ ~CanInsert
  /\ Closers = {}
  /\ \E at \in resync(tokens, cursor) : \E n \in Heights(tokens[at]) :
       /\ \A m \in Heights(tokens[at]) : m <= n
       /\ stack' = SubSeq(stack, 1, n)
       /\ data' = SubSeq(data, 1, n - 1)
       /\ cursor' = at
       /\ lookahead' = [sym |-> tokens[at], at |-> at]
  /\ Report("skip")
  /\ UNCHANGED <<tokens, pending, last_pos, last_insert, shifted, phase>>

\* Nowhere to resume, or nothing that could shift the token there.
giveUp ==
  /\ Erring
  /\ ~CanInsert
  /\ Closers = {}
  /\ \A at \in resync(tokens, cursor) : Heights(tokens[at]) = {}
  /\ Report("skip")
  /\ phase' = "failed"
  /\ UNCHANGED <<tokens, stack, data, cursor, lookahead, pending, last_pos,
                 last_insert, shifted>>

limitReached ==
  /\ phase = "run"
  /\ ErrorCount >= Limit
  /\ phase' = "failed"
  /\ UNCHANGED <<tokens, stack, data, cursor, lookahead, pending, last_pos,
                 last_insert, reports, shifted>>

Returned == phase # "run" /\ UNCHANGED vars

Next ==
  \/ read \/ shift \/ reduce \/ accept
  \/ insertSemi \/ autoClose \/ skipTo \/ giveUp
  \/ limitReached
  \/ Returned

Spec == Init /\ [][Next]_vars

-----------------------------------------------------------------------------
(* Correctness.                                                            *)

(***************************************************************************)
(* "It keeps the data stack in step with the state stack, which is what     *)
(* makes unwinding sound": whatever was repaired, the value below a state   *)
(* was built for the symbol by which that state is entered.                 *)
(***************************************************************************)
StacksInStep ==
  /\ Len(stack) = Len(data) + 1
  /\ \A i \in 1..Len(data) : data[i].sym = Accessing[stack[i + 1]]

(***************************************************************************)
(* A reduction about to be made finds all the values it takes: the slice    *)
(* of the data stack it hands to its action is within bounds.               *)
(***************************************************************************)
ReductionsFindValues ==
  Decides({"reduce", "reduceNow"}) => Current.count <= Len(data)

(***************************************************************************)
(* Every repair gets past the token it was made for: no token is complained *)
(* about twice, so that the loop ends by itself and RECOVERY_LIMIT bounds   *)
(* only the noise.                                                          *)
(***************************************************************************)
EachTokenReportedOnce ==
  \A i, j \in DOMAIN reports : i < j => reports[i].at < reports[j].at

\* What was shifted or built, is in hand, or is spliced in, from left to right.
Line == data \o << Leaf(lookahead) >> \o [i \in DOMAIN pending |-> Leaf(pending[i])]

(***************************************************************************)
(* Holding a token back, splicing and skipping never put a source token in  *)
(* the tree twice or out of order.                                          *)
(***************************************************************************)
TreeKeepsOrder ==
  \A i, j \in DOMAIN Line : i < j =>
    \A k \in Line[i].yield, l \in Line[j].yield : k < l

(***************************************************************************)
(* Only skipping discards what the user wrote.  A tree that was reached     *)
(* without it, with or without insertions, holds every source token; in     *)
(* particular recovery leaves a clean parse alone.                          *)
(***************************************************************************)
KeepsWhatWasTyped ==
  phase = "accepted" /\ (\A i \in DOMAIN reports : reports[i].repair # "skip")
    => Below(data) = 1..Len(tokens)

(***************************************************************************)
(* A file that was lexed to the end yields a tree, however broken it is,    *)
(* with two exceptions: it has RECOVERY_LIMIT errors, or the token to       *)
(* resume at closes nothing that is open or is the keyword of a statement   *)
(* where no body is open.                                                   *)
(***************************************************************************)
GivesUpOnlyOutside ==
  phase = "failed" /\ ErrorCount < Limit /\ tokens[Len(tokens)] = "EOF"
    => \E at \in resync(tokens, cursor) : tokens[at] \in Closes \cup Statements

(***************************************************************************)
(* The report of the first error is the one the generated parser makes: the *)
(* tokens it lists as expected are those that could have followed.          *)
(***************************************************************************)
SameReportAsParse ==
  Erring /\ reports = << >> => Expected(stack) = Expected(shifted)

(***************************************************************************)
(* A lexical error cuts the input short, and the errors before that point   *)
(* are the syntax errors reported: running out of tokens there is not one.  *)
(***************************************************************************)
TruncationIsSilent == Erring => lookahead.sym # End
=============================================================================
