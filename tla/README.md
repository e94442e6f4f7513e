# Verification of wax-mb

TLA+ models of the stateful and concurrent parts of wax-mb and of the tools that hold it
to its reference implementation, the TLC runs that check them on small instances, and
theorems that TLAPS proves for every size. Paths are relative to the repository.
`PROJECT.json` maps every modelling definition to the source lines it translates.

## 1. The system

wax-mb is a compiler written in MoonBit, with a scripting embedding in
JavaScript on top of it. It is a port, and its Python tools under `tools/` decide
whether it still agrees with the original: they collect a corpus, record what the
reference does on it, compare, fuzz, select the reference's own tests, and derive
the parser's error messages. A mistake in one of them is a wrong "green".

| Part | State | Operations | Interacts with |
|---|---|---|---|
| **Wisp instance** `wisp/js/runtime.mjs` | `active`, `retired`, `revoked`, `tokens`, and per run `calls`, `cancelled`, `abort` | `run`, `cancel`, `revoke`, deadline timer, import `wisp.invoke` | the script on a suspended Wasm stack, host providers (promises), the embedder |
| **Wisp sandbox** `wisp/js/sandbox.mjs`, `worker.mjs` | host: `waiter`, `closed`, `busy`, `abort`, `calls`, `resources`, `revoked`; worker: `instance`, `pending`, `serial` | `createSandbox`, `run`, `close`, `cancel`, `revoke`; `receive`; listener and proxies of the worker | two message ports between two threads; a Wisp instance inside the worker |
| **Configuration explorer** `lib/internal/cond_explore` | work list, keys seen, count, feasible space, diagnostics with their reach | `check_all` | calls the specializer and the checker, asks the solver |
| **Specializer** `lib/check/specialize.mbt` | the assumption threaded through a module | `choose`, `instr(s)`, `field(s)` | hands assumptions and conditions back to the explorer |
| **Condition solver** `lib/cond` | interned variables | `and_`, `not_`, `is_satisfiable`, `canonical_key`, `explain` | explorer, specializer |
| **Recovering parser** `lib/syntax/parser/recover.mbt` | state stack, data stack, lookahead, cursor, spliced tokens | shift, reduce, three repairs | generated LR tables, table walks of `state.mbt` |
| Plain parser, lexer, trivia `lib/syntax` | position, tokens | `parse`, `tokens_from_string`, comment association | each other, the formatter |
| Type checker `lib/check` | inference cells, operand stack, type store, environments | one pass over the AST | diagnostics, emitter |
| Emitter, formats `lib/emit`, `lib/wasm` | index spaces | lowering, encoding, printing | - |
| Formatter, layout `lib/fmt`, `lib/printer`, `printer_pp` | token queue and box stack of the engine | `print` | trivia |
| Diagnostics, messages, features, unicode, numbers | collectors, tables | rendering | all |
| Other front ends `was/`, `wap/`, `wisp/*.mbt` | name environments | read, resolve, lower | compile to wax |
| Standard library `stdlib*` | persistent maps, sets, vectors | - | user programs |
| **Corpus store** `waxdiff.py` `collect`, `adopt` | `test/corpus` on disk, `manifest.json` | remove and rewrite subtrees, carry entries forward, copy a find | the checkout of the reference, `wasm-tools`, later `golden` |
| **Goldens and oracles** `waxdiff.py`, `oracle-policy.json` | golden files, `index.json`, exemption tables | `classify_one`, `write_golden`, oracles 1 to 4 | child processes with a time limit |
| **Differential run** `waxdiff.py` `golden`, `run` | thread pool, results in order, totals, `test/report/tmp` | grade every file, merge, exit status | oracles, the two implementations |
| **Fuzzer** `waxdiff.py` `fuzz` | current mutant, exemption of `mutant.wax`, minimizer, finds | mutate, grade, minimize, write | oracles; finds go to `adopt` |
| **Cram selection** `waxdiff.py` `classify-cram` | `test/cram`, `cram-scope.md` | judge every command, remove, copy, report | the port's `parse_args` |
| **Grammar fidelity** `grammar_fidelity.py` | position and depth of the scanners, both texts' rules | drop comments, drop actions, cut, compare | the reference's grammar, the port's dump |
| **Message tables** `gen_parser_messages.py` | id set, recorded sentences, groups still to tell apart, two tables | replay, group, deepen, drop, write | a build of the parser, `message_fits` of the driver |
| Command line `cli/` | - | `parse_args`, I/O | all |
| Other tools, tests | - | text in, text out | - |

What is hard in it, and what makes each part correct:

* **Wisp** is where the concurrency is. A script is suspended in a host call
  while cancel, the deadline, a revocation or the end of its own run happen; the
  provider answers before, after or never; the host and the worker race with
  equal deadlines, over ports whose answers carry no request number. Correct
  means: authority stays within what a run was given and ends with revocation and
  cancellation, a late answer does no harm, and every request settles.
* **The explorer** has to cover every configuration of a module while the
  specializer forgets, between function bodies, what it decided; it is cut off by
  a cap. Correct means: every diagnostic is found, with exactly the
  configurations it occurs in.
* **The recovering parser** keeps two stacks in step through splices, skips and
  unwinding, with tokens held back and the cursor already past them. Correct
  means: a later reduction finds the values it expects, nothing the user typed is
  lost or doubled without a skip, and every repair makes progress.
* **The tools** are sequential programs on files that can be interrupted anywhere,
  run in any order, on a checkout that moves; the comparison uses threads and
  children that may be killed. Correct means: what is recorded is complete and is
  of what it says; an exit status of 0 means parity; a find fails and is minimal; a
  selected test is one the port can run; a grammar is read as it is written; an
  error message in the generated tables is never a guess.
* The rest is mainly pure translation, which the repository compares with its
  reference implementation by oracles. Stateful algorithms in it that are worth a
  module are in the plan.

`PROJECT.json` lists the hazards, each at its line with the properties aimed at it.

## 2. Modules

| Module | Models | Used by |
|---|---|---|
| `InvocationContract` | the abstract service an embedder relies on: requests one at a time, each settles once; host work only for the open request and through a live grant | refinement target of the next two |
| `WispInstance` | `runtime.mjs` | `WispSandbox`, `MCWispInstance` |
| `WispSandbox` | `sandbox.mjs`, `worker.mjs`, the ports; EXTENDS `WispInstance` as the instance in the worker | `WispSandboxProofs`, `MCWispSandbox` |
| `WispSandboxProofs` | - | theorems about `WispInstance`, and about `WispSandbox`, which carry them over to the instance in the worker |
| `CondExplore` | `explore.mbt` and the specializer | `CondExploreProofs`, `MCCondExplore` |
| `CondExploreProofs` | - | theorems about `CondExplore` |
| `ParserRecovery` | `recover.mbt`, `shift_sim`, `acceptable`, `expected_at` | `ParserRecoveryProofs`, `MCParserRecovery` |
| `ParserRecoveryProofs` | - | theorems about `ParserRecovery` |
| `Dictionaries` | the dictionaries and directories of the tools | `CorpusStore`, `DiffHarness`, `CramScope`, `MessageTable` |
| `CorpusStore` | `collect` with its collectors, `adopt` | `CorpusStoreProofs`, `MCCorpusStore` |
| `CorpusStoreProofs` | - | theorems about `CorpusStore` |
| `Oracles` | classification, goldens, policy, the oracles and exemptions, as operators on the answers of an implementation | `DiffHarness`, `FuzzSession` |
| `DiffHarness` | `golden`, `run`; EXTENDS `Oracles` | `DiffHarnessProofs`, `MCDiffHarness` |
| `DiffHarnessProofs` | - | theorems about `DiffHarness` |
| `FuzzSession` | `fuzz`; EXTENDS `Oracles` | `FuzzSessionProofs`, `MCFuzzSession` |
| `FuzzSessionProofs` | - | theorems about `FuzzSession` |
| `CramScope` | `classify-cram`, and `parse_args` of the command line | `CramScopeProofs`, `MCCramScope` |
| `CramScopeProofs` | - | theorems about `CramScope` |
| `GrammarFidelity` | `grammar_fidelity.py` | `MCGrammarFidelity` |
| `MessageTable` | `gen_parser_messages.py` and the lookup in `driver.mbt` | `MessageTableProofs`, `MCMessageTable` |
| `MessageTableProofs` | - | theorems about `MessageTable` |

Definitions commented as a *mutant of X* are deliberate mistakes in X (a dropped
guard, a missing reset). No specification uses them. Each is put in place of X to
see that a property notices; `PROJECT.json` lists the pairs.

### WispInstance

A step is what one JavaScript thread executes between two points where other code
can run: the awaits of `run` and of the import, and JSPI stack switches. While a
script is on the Wasm stack nothing else runs (`Idle`). `stage[r]` is where the
run's host call stands, `script[r]` its Wasm stack, `race[r]` the settled
`Promise.race`, `outcome[r]` the promise of `run()`. Settling a promise and
continuing after its await are separate steps that any others may come between:
an over-approximation of the microtask order, so what holds here holds for every
engine. Values, schemas and the remaining limits (fuel, size, depth, transfer)
only decide whether a step throws, which is a free choice. Actions carry the names
of the methods; `invokeRefused` is every throw before the operation is called,
`runRefused` every throw before the first await of `run`.

### WispSandbox

Host tasks and worker tasks interleave, connected by two first-in first-out
sequences. `stop` models `close()`, `cancel()`, the deadline and the worker's
exit; `hfinish` is the `finally` of `run()`, a step of its own because other
microtasks may precede it. Ids that the code draws from counters are pairs
(run, call number), which are as unique. `got[r].late` and `serving` are history
variables: whether a result was produced after the host revoked the grant, and
which request a run of the instance serves. When the worker's own timer fires
first, the host stays open with a retired instance inside: each later `run()` of
that sandbox fails, which the contract allows.

Nothing is assumed of providers. One may return a resource whose schema has no
`operations`: nobody notices before `proxy` throws in the worker (`worker.mjs:52`), after
the call was taken from `pending`, and the `catch` at line 59 sends an error that nobody
asked for. `lost` holds the runs this happened to. Their script stays suspended for ever,
and the error settles whatever request the host waits for when it arrives, which may be a
later one. `AnswersAreAwaited` says just that: a stray answer exists only after such a
reply, and it is an error. A rejection with nothing (`Promise.reject()`) makes the broker's
own `catch` throw (`sandbox.mjs:71`), so that no reply is sent: to the model a provider that
never answers. (The rejection of `receive` then goes unhandled; where that ends the process,
as it does by default in Node, there is nothing left to model.)

### CondExplore

A literal is the set of valuations that satisfy it, a formula a conjunction or
disjunction of literals in negation normal form, and an assumption the set of its
conjuncts, which is what `canonical_key` compares. `choose`, `instr` and `instrs`
are the specializer; a `body` item is a function body or nested block, whose
decisions do not outlive it. `check` stands for the type checker: a leaf is an
error, and a local that no `use` leaf uses yields the universal diagnostic. The
reference is `Selected`, the module under one valuation.

Modules nest, so the walk is recursive. It is written as a function over `Items`, the
items that modules are made of, whose value at an item is an operator (`Visited`) of the
values at the items inside; `Level` says how deep an item nests, and `ItemsAssumption`
that what it holds is of a lower level. Any syntax tree has such a numbering.

### ParserRecovery

The LR table is a parameter. A value on the data stack is the symbol it was built
for and the set of source tokens below it, enough to say that stacks agree and
that tokens are neither lost nor doubled; positions are token indices. Message
wording is left out. `Accessing` and `Depth` describe a table: the symbol every
transition into a state is on and the least number of transitions to reach it.
`TableAssumption` states what an LR generator guarantees, `EndAssumption` what is
special about the end of the input (the states entered by `EOF` decide without a
lookahead, no other does, and only they accept), `StartAssumption` that an empty
stack takes every item, a `;` and `EOF`, and `InputsAssumption` what the lexer
promises: `EOF` comes last or not at all. All of them hold of the instance, and of
the 987 states of the generated table: each can be read off `yy_state` column by
column. In that table nonterminal columns hold only shifts, so the `Reduce`, `Accept`
and `Error` arms of the inner loop of a reduction are unreachable and not modelled;
`shift_sim` has them.

The walk `shift_sim` and the loop of `auto_close` are recursive functions of their
fuel (`Sim`, `Close`), whose bodies are operators (`SimStep`, `CloseStep`) over "what the
steps after it yield"; a result is a set, empty for `None`.

`MCParserRecovery` holds a real fragment of the generated table: the states
that inputs made of `fn`, `nop`, identifiers, parentheses, braces and `;` reach, with
their own numbers.

### CorpusStore

The text of a corpus file is the input it was made from, so that an entry of the
manifest is true exactly if it equals the text; `Cut` is what an interrupted write
leaves. `collect` is a process: it clears the subtree of a source (`Cleared`), and its
collector opens one file after the other (`openFile`, `json_from_wast`), writes or drops
its parts (`_write_corpus_file`, `skipPart`) and closes it; at the end the gap between
disk and manifest is computed and the manifest saved, or not. A part is a block of a page
or a module of a `.wast`. The scratch directory is kept as the code keeps it: one
directory per stem (`Directory`), which `wasm-tools` writes into, also when it fails
(`splitFails`), and which nothing empties between two scripts of one stem, so that the
later one collects what it holds (`Listed`). `adopt` copies first and updates the manifest
afterwards. `interrupt` ends either between any two writes, `interruptWrite`,
`interruptCopy` and `interruptSave` in the middle of one, and `checkout` is the reference
repository moving, with or without `wasm-tools`. `--spec-limit` is a shorter checkout, and
nobody repairs `manifest.json` by hand.

### Oracles and DiffHarness

An implementation is a function from texts and commands (`wax`, `wasm`, `check`,
`wat`) to an exit code, an output and diagnostics; a killed child is the value
`TimedOut`. `Oracles` translates classification, the goldens, the policy of the two
scopes and routes, and each oracle to a verdict. `DiffHarness` runs them: tasks
start in order, at most `Jobs` at a time, and finish in any order; results are
consumed in order. For the route through the reference a task writes its text
(`oneWritesMid`) and the reference reads it in a later step (`oneEnds`), so tasks
that shared a file name would be caught. A world says what the reference of each
version and the port answer, and which commands may lose an answer to the time
limit; a diagnostic carries the checkout it was printed in, which `normalize_file`
has to remove.

`HarnessAssumption` says what the comparison relies on: an implementation answers
every command on every text, the texts that it or the other one prints among them;
a diagnostic has the fields that are compared; what exits 0 has printed a text; and
`None` stands for no text and no list of diagnostics, as Python's does. A child
process gives an exit code and two streams for any text, so the first says no more
than that the texts are closed under printing. `--oracle` names oracles 1 to 4 and
at least one, and the files of a corpus are sorted without repetition, by the code
of `waxdiff.py`.

### FuzzSession

One loop: choose a seed, edit it, grade it, and if it fails minimize it and write
it. The temporary entry that `grade` makes in `SPAN_EXEMPT` is a variable, since it
outlives the call if it is not popped. `minimize` is modelled attempt by attempt,
with its budget, width and restart. `Texts` gives a set of texts that the edits and cuts stay in
(`TextsAssumption`); it bounds nothing, and with `Texts` the sequences of any tokens it
says nothing. The shapes of the recorded findings 7, 8, 9 and
12 are each produced by some text of the instance.

### CramScope

A test is a sequence of lines, a command the set of the numbers of its lines. A line is
split at its separators as line 1709 splits it; of each segment the model has `prog` and
`args`, the words between blanks, which are all that the selector sees, and `runs`, the
lists of words with which the shell starts `wax` from there. A word is a name with an
optional inline value, and may belong to a redirection. Nothing ties `runs` to `args` in
the state: a `wax` behind `do`, `!`, `(` or `$(` is a segment with runs whose `prog` is
not `wax`, and quotes or variables give it other words. `PlainShell` is the case in
which the shell only takes redirections out (`Passed`), none of them first or where a flag
expects its value; the first lines of the commands in `test/cram` have no other invocation
of `wax` (the one elsewhere, on a continuation line of `bottom-ref-numeric-cast.t`, is not
judged at all). The claim about the selection is made for it, and for
the tests of one-line commands; the other cases are the observations below.
`TreesAssumption` says that suites are finite and their tests of that shape,
`ExtAssumption` that `None` is no word and the name of a
subcommand has no file extension and no "/". Both passes over the words are recursive
functions of the position, whose values are operators (`scanned`, `parsed`) of the values
further right. `_scan` and `_cram_wax_reason` are the selector; `parse_args` and `Refused`
are what `cli.mbt` and `main.mbt` make of the words the shell passes on, and comparing the
two is the point. The copy is a process with an interruption anywhere, as in `CorpusStore`.

### GrammarFidelity

A text is a list of lexemes (`Written`), the dump of the port or the reference's grammar:
comments that nest or go to the end of the line, actions that nest and hold bars and
braces, productions with and without a leading bar. The quotes of a token or of a literal
are lexemes of their own, and the brace, bar or semicolon between them is the same lexeme
as elsewhere, since the code looks at characters and never at quotes
(`grammar_fidelity.py:95-101`, line 130). The scanners are actions on a position and a depth, run
on the dump first (`side`); `read` and `problems` are the cut and the comparison. `Written`
also keeps the productions that the texts were made from, with which the reading is compared.
`Readable` says for which grammars the reading can be trusted: every quoted brace has its
match in its production or literal, and a quoted bar stands between such braces. Of the
port's own grammar `"{" ".." "}"` (`parser.mbty:371`) and `"{" ident "|" structure "}"` (986)
are of that kind, though their braces are taken for an action, and only the number of
productions is right; `expression "|" expression` (1023), `"|="` (1138) and
`"[" ident "|" array_body "]"` (1001) are not. What the dump prints is not in the
repository: it is taken to write a bar before a first alternative that is empty, or
actions.

### MessageTable

`main` from the replay of the sentences on: which sentences claim a stack, the
filter that makes the second table, and `build`, whose recursion over groups is
turned into a set of groups still to do (`resolve`, `deepen`, `drop`), taken in any
order. The signature of a claim is that of the real parse errstate makes beside its
replay, computed before the default reductions that lead to the failing stack, so one
stack and one message can come with two; `build` tells such claims apart as it does two
messages. `lookup` is the generated search by stack suffix together with
`message_fits`. `StackOf` depends on the id set the helper was built with, so that
a forgotten rebuild would show. The search for the ids themselves is an input.

## 3. Runs

| Run | Bounds | Checks |
|---|---|---|
| `instance` | 2 grants, 2 runs, 2 host calls | `CallLimit`, `LateCallsAreAborted`, `OneUnfinishedStack`, `AuthorityConfined`, `RevocationIsFinal`, `CancellationIsFinal`, refinement `ImplementsContract`, liveness `EveryRunSettles` |
| `sandbox` | 1 grant, 2 requests, 2 runs, 2 calls | `AnswersAreAwaited`, `OpsBelongToRequest`, `LateResultsDropped`, `ResourcesHonoured`, refinement `SandboxImplementsContract`, liveness `RequestsSettle` |
| `explore` | 2 variables, all modules of up to 4 of 7 items, caps 16 (never reached) and 2 | `ReachIsSound`, `CoverageIsComplete`, `EnqueuedIsStronger` |
| `recovery` | files of up to 4 tokens over 8 terminals, bare or in a function body, with EOF, and up to 3 tokens without; limit 4 | `StacksInStep`, `ReductionsFindValues`, `EachTokenReportedOnce`, `TreeKeepsOrder`, `KeepsWhatWasTyped`, `GivesUpOnlyOutside` |
| `corpus` | 2 collected sources and an adopted find, 3 checkouts (two scripts of one stem, two of one tag, two pages of one stem), with and without the tool | `FullCollectIsExact`, `FullCollectBlockers`, `OthersAreLeftAlone` |
| `harness` | 4 files in 3 subtrees, 2 of them of one name, 2 threads, 12 ports, 2 references, 2 corpora, 4 command lines; one port with killed children | `GoldenIsComplete`, `ResultIsSequential`, `GreenIsParity`, `SelfTestIsGreen` |
| `fuzz` | 5 seeds of up to 3 tokens, 2 mutants of up to 2 edits, budget 7, 5 ports, 2 routes | `FindIsMinimal`, `VerdictIsTrue`, liveness `SessionEnds` |
| `cram` | 3 suites among which the checkout moves; every command line of up to 3 of 26 pieces (words, redirections, quoted words), and of 4 of 8 | `NothingIsLost`, `SelectedIsImplemented` |
| `grammar` | 13 dumps and 600 reference grammars of up to four rules, in all pairs; 6 right-hand sides and 5 actions | `ReadAsWritten`, `CleanIsCorresponding` |
| `messages` | goldens of 4 sentences over 5 stacks, 2 messages and 2 signatures (both on one of the stacks), and sentences that parse or fail early | `NeverGuessed`, `KeyIsShallowest`, `RecordedOrDropped` |
| `explore_universal`, `fuzz_nonjson` | as above, smaller | violated: see Findings |

The type invariants `STypeOK`, `TypeOK` of `CondExplore`, `CorpusTypeOK`,
`HarnessTypeOK`, `FuzzTypeOK`, `CramTypeOK`, `FidelityTypeOK` and `MessageTypeOK`
are the first conjunct of one safety invariant of their module. The `TypeOK` of
`WispInstance` is a conjunct of `STypeOK`. All of them but `FidelityTypeOK` are proved.

Why the bounds are enough to be interesting: a stale answer needs one run that
ends and one that follows; a derived capability needs one call that returns a
resource and one that uses it; a confusion of grants needs two. Contradictory and
repeated decisions need two variables and two bodies. Four tokens reach each
repair, three errors in a row and the limit itself (RECOVERY_LIMIT is 100 in the
code, the cap 4096). An interrupted command needs one that follows it, on the same
checkout or on another: commands are unbounded in number in `corpus`, `harness` and
`cram`. A module left behind needs two scripts of one stem, of which the earlier has one
more; a collision two scripts whose paths make one tag. A mix-up of threads needs two of them and two files of one name. A leaking
exemption needs two mutants; a budget of 7 cuts some minimizations short and lets
others end. Three pieces reach a subcommand, a flag and its value, the fourth a
redirection before, between or behind them. A message needs a
key of two frames, and a second one that is still contested there.
Deadlock is checked except where the system really stops: a retired instance, a
closed sandbox, the end of a fuzz session, of a comparison of grammars and of a
generation.

**Fairness.** An instance: its timer fires, the event loop drains, and a script
leaves the stack (fuel bounds it). Nothing is assumed of providers or embedder.
The sandbox: only the host's own timer and microtasks; nothing of the worker or
of providers. These are what the timers in `run` and in `wait` rely on. The fuzz
session: the one sequential loop goes on (`WF_vars(Next)`), which it does since
every child it waits for has a time limit; that it ends is then the minimizer's
own doing.

## 4. Proofs

All proofs are checked by TLAPS; the assumptions are the named ASSUMEs of the
modules, each of which TLC evaluates on the instances.

`WispSandboxProofs` on the instance alone, for any finite set of grants, any call limit
and any number of runs:

* `TypeCorrect`, `HostCallsBounded` from the inductive invariant `Typed`. The
  counter's type depends on the limit, and the limit on a run starting at zero
  (`FreshRuns`), so the three are proved together.
* `LateCallsSafe`, `StacksExclusive` from `Lifetimes`: the active run is the
  latest; a run that is over has been aborted; an unfinished stack is of the latest
  run, and if that run is no longer active the instance is retired. The last part
  is what makes the two properties inductive: `active` is reset while a stack may
  still be suspended, and only `retired` keeps the next run away.
* `CancellationFinal`, `AuthorityIsConfined`, `RevocationFinal`: action properties
  and an invariant on top of these.
* `InstanceKeepsContract`: the instance implements `InvocationContract`, step by step.
  The mapping needs `Delivered`: a value came from a script that ended, and a call at a
  provider is of some grant.

`WispSandboxProofs` on the sandbox, for any finite set of grants, any call limit and any
number of runs and requests:

* `WorkerRunsInstance`: every step of host, worker or ports is a step of the instance in
  the worker or leaves it alone (`SSpec => Spec`). All theorems about `WispInstance` so
  hold of it without being proved again.
* `AnswersReachTheirRequest`, `OperationsBelong`, `LateResultsNeverReturn`,
  `LiveResourcesKnown` from one invariant, `Ports` (the types, of the messages on their
  way too) and `Conversation`: as long as no call was forgotten, `Protocol`. The answers on a port bear no request number, so the parts of
  `Protocol` say where the one request is (`RequestPlace`: in a message, in the active
  run, or in an answer with nothing behind it) and where the one call is (`CallPlace`).
  `RevocationTold` says that a revocation is ahead of every result that came after it:
  ports keep their order, so the worker knows before it sees the result. `ResourceKnown`
  keeps what an active run may hold in the broker's table, `OpsAborted` aborts what no
  request waits for. None of these is inductive without the others: that a late message is
  harmless depends on what the host states (`HostStates`) allow to be sent. From the moment
  a call is forgotten (`ForgottenCall`) it is `Stuck` that holds instead: the script is
  suspended in a call nobody knows of, so no call, operation, reply or value is under way or
  can come, and whatever the worker still sends is an error.
* `SandboxKeepsContract`: host, ports and worker together implement the same
  `InvocationContract` as an instance alone.

`CondExploreProofs`, for any finitely many condition variables, any modules however they
nest, any cap:

* First the recursion. `Recursion` says that an equation which determines each value from
  values of lower rank has a solution, by induction over sets of numbers. With it the
  specializer and the reference `Selected` satisfy the equations they are written as
  (`InstrMeetsEquation`, `SelectedMeetsEquation`).
* Then what a walk does, as a relation between where it starts and where it is that holds
  again of two walks in a row (`Follows`, `FollowsTwice`): `Extends`, it only adds to what
  it has; `Truthful`, in every valuation of what it recorded it has selected the leaves of
  that valuation; `Stronger`, what it handed over is satisfiable and has fewer models than
  what it set out under; `Gapless`, a valuation it set out for is one it still stands for,
  or one of an assumption it handed over. The assumption in force after a body is weaker
  than what was decided inside, so it is what was *recorded* that the second and the
  fourth speak of. `Specialized` is the result for a module.
* `ReachSound` and `CoverageComplete` from `ExploreInv`: what was found is found where it
  occurs, in full wherever a configuration was covered (`ErrorsInStep`); an assumption
  that was taken was checked, cannot hold, or was one too many (`TakenIsChecked`); and a
  valuation of an assumption that was checked is covered, or is one of a stronger
  assumption in the queue (`CheckedIsCovered`). That an exploration that ran to its end
  leaves no valuation out (`AllCovered`) follows by taking, of the assumptions in the
  queue that have this valuation, one with the least number of models (`FewerModels`): it
  was checked, and there is no stronger one.
* `QueueGetsStronger` from `Stronger`.

`ParserRecoveryProofs`, for any table that satisfies the assumptions, any inputs and
any limit; every invariant of the run is proved:

* `ParserTypes`, `UnwindingSound`, `ReductionsInBounds` from `IInv`, the
  conjunction of `TypeOK`, `StacksInStep`, `Grounded` and `Unread`. `StacksInStep`
  alone is not inductive, since a reduction must not pop past the bottom.
  `Grounded` says why it does not: the state at height i is reachable in i - 1
  transitions, and a reduction pops no more than that. Unwinding keeps prefixes of
  both stacks and so both facts.
* `RepairsMakeProgress`, `SplicingKeepsOrder`, `NothingTypedIsLost`,
  `TreeUnlessOutside` from `RecoveryInv` on top of `IInv`. Its core is `Promise`: while
  spliced tokens are waiting, or the token in hand has been reported already, the walk over
  the tables takes them all from the present stack (`Passes`). A repair establishes it,
  and each step of the loop keeps it since it is the next step of that walk
  (`LoopFollowsWalk`). So no error is at a token that was reported or spliced in
  (`ErrorIsNew`), and with `Behind` (reports are not ahead of the cursor) the next
  report is further on. `Hand` says that of the tokens in hand and spliced in only the
  last is one of the input; `Eaten`, that the tree holds nothing beyond the tokens
  `Consumed`, and all of them until something is skipped; `Ahead`, that the states past
  the end are entered exactly when the `EOF` of the input has been shifted, so that
  the end of a cut input is never patched and an accepted tree has read
  everything. That the loop gives up only outside needs `Bottom` and `StartAssumption`:
  unwound to the bottom, the stack takes every other token to resume at.
* What the walks compute is proved by induction on their fuel: `WalkEnds` (the
  stack that a walk on a token ends with is entered by that token), `ClosePasses` (what
  `auto_close` returns, and then the token held back, can be shifted), `EndStaysOpen` (no
  insertion makes the end acceptable). `Induction` states the principle for *sets* of
  numbers, from the library's well-foundedness of `<` and its least-element theorem,
  and `Iterates` that a function each value of which is taken from the one before exists.

`MessageTableProofs`, for every golden, every set of messages and whatever stacks
the sentences end in, provided that the start state is only at the bottom of a
stack (`Rooted`; the automaton never returns to it, and `state.mbt:58` starts every
replay there):

* `TableNeverGuesses` from `TableInv`: the shape of the state (`Shape`), that a sentence
  that claims a key of a table has a stack there (`Recorded`), and `GroupsExact`: a group
  still to do is the set of *all* sentences whose stacks share its suffix. Without the
  last part a group could look uncontested because a claimant of its key sits in another
  group, and `NeverGuessed` would not be inductive.
* `TableIsShallow` from `ShallowInv`, which adds `WorkIsContested`: every group taken one
  frame deeper holds two different pairs of signature and message, so a key of more than
  one frame has a contested tail. That it is contested by two *messages* is claimed in
  the source and not so, see the observations.
* `TableIsComplete` (a claiming sentence is found at its key, or lost and counted) from
  `RecordInv`, which adds to `TableInv` where every sentence is: `Apart`, no sentence is
  in two groups; `Waiting`, for the sentences of a group still to do, every shallower
  lookup says "deeper" and none from its key on has an entry, so whatever the group writes
  is what their lookup will find; `Placed`, each claiming sentence is found, still to do
  or lost, and the lost ones number what the tool reports; `Keyed`, lookup is deep enough
  for every key; `Counted`, the claiming sentences are among those read; `Finished`,
  nothing is to do at the end. `MessageAssumption` asks that the markers for "no entry"
  and "deeper" are no messages.

`CorpusStoreProofs`, for any list of different sources, any checkouts and any number of
commands and interruptions:

* `FullCollectExact`, `BlockersAreKnown`, `OtherSourcesKept` from `CorpusInv`.
  `Collecting` ties the memory of a collect to the disk: whatever is there of a source
  it has come to is in its manifest. `FullSoFar` adds, for a collect of everything,
  that entries equal texts and counts are exact source by source, but for a text that is
  `LeftBehind`: `Scratch` knows of each module in the scratch directory which script it is
  from, and that the one just split has all its own there. `Tagged` keeps what is known of a
  source apart from the parts still to do, so that a collision needs two files of one tag.
  `OnDisk` keeps
  adopted files out of all this, since no command removes one, and `Adopting` is the
  gap between the two writes of `adopt`, which is what blocks later collects.
  `SourcesAssumption` reads the tables of the tool: no source is listed twice, an
  `--only` names some.

`CramScopeProofs`, for any suites of finitely many tests and any interruptions:

* `NoTestIsLost` and `SelectionIsKept` (whatever is in `test/cram` is a test that was
  selected, in the form it has there) from `CramInv`: while copying, the
  directory holds just the selected tests that are no longer to do (`Working`), which the
  removal before made so, and at the end all (`Ended`).
* `SelectionIsImplemented`: in a selected test of one-line commands, an invocation that
  the selector saw, and of which the shell only takes redirections out (`PlainShell`),
  runs, whatever and however many its words are. The selector reads all words and the
  port those that are left, by its own rules, so the two may disagree on which
  word is a value, a subcommand or a file. `Backwards` gives both passes
  their recursive equations, `Downwards` is the induction from the last word to the first, and
  `ProgramsAgree` its result: from any word on, if the selector finds no reason against the
  command, then the port knows each flag, has set only formats it has, and has the same files
  (`Agrees`). `RedirectionsArePassedOver` joins the two lists: from any word on, what the
  selector would make of the words that are left (from `Place` on) is what it makes of all
  of them, without the redirections. That both also settle on the same subcommand is part of
  `TakenIsImplemented`, and that the first line of a command is all of it, if it is one line, `EveryLineIsJudged`.
  As in the property, the subcommand comes first, a value behind "=" belongs to a long flag, and
  under `format` neither `-f` nor `-i` is used (`Plain`); without the second and third it is
  false, see the observations.

`DiffHarnessProofs`, for any corpus, worlds, number of threads and interleaving:

* `GoldenComplete` from `GoldensRecorded` (`GoldenInv`). An index entry, a golden file
  and a version are written in different steps by different threads' results, and
  the property follows only if all three stay tied to *one* answer of *one* reference
  (`RecordedBy`). `Recording` carries that from the pool to the merge, `Saved` past the
  end of the command.
* `TotalsSequential`, `GreenMeansParity`, `SelfTestPasses` from `RunsRecorded`
  (`RunInv`), which adds `Running`: every result in hand is what grading that file
  alone would give (`Delivered`), although a printed text waits on disk between two
  steps of its thread (`OnDisk`, which is inductive since `MidName` is injective on the
  corpus), and the totals are those of the results consumed so far (`Tally`). At the end
  (`Reported`) they are the totals of the files one by one, and a zero in the column
  of failures is agreement on each file. As in the
  properties, a child killed while goldens are recorded voids the parity, and one
  killed at all the self-test; one killed during `run` does not make a difference pass.
* `HarnessTypes` from the same invariant.

`FuzzSessionProofs`, for any tokens, seeds, edits and budget, and whatever the two implementations
answer:

* `FindsReproduce`: a find fails when it is graded by itself, and unless the budget ran
  out no single token can be dropped from it without its passing. In `FuzzInv` the core is
  `Minimizing`: in a pass of width 1 that has dropped nothing so far, every token behind
  the cursor was tried in vain, so when such a pass ends and the width becomes 0 all were.
  A pass that dropped something starts over at the same width, and a halving cannot skip
  the width 1. `exempt = FALSE` is part of it, since otherwise an attempt would not be
  graded as the find is.
* `VerdictsAreIndependent`: from the same, the verdict on a mutant is the one it gets in a
  fresh session.
* `FindsAreMinimal`: `FindIsMinimal`, which speaks of the texts on which the port *is*
  wrong, follows under `GradesRightly`: `grade` is right about each text by itself. That
  is a property of the oracles and the port and no theorem; TLC checks it of the run's
  ports, as the first part of `VerdictIsTrue`.

Only model-checked, and why:

* `EveryRunSettles`, `RequestsSettle`, `SessionEnds`: the prover does not handle
  fairness.
* `ReadAsWritten`, `CleanIsCorresponding`: which texts a grammar can be written as is given
  by the instance (`Alt` and `Rule` of `MCGrammarFidelity`), and `GrammarFidelity` takes any
  pairs of a text and rules. A theorem would need the writing as a definition, recursive in
  nested comments and actions, and an induction over that data; the second property rests on
  the first.
* `VerdictIsTrue`: that the oracles judge rightly is about the particular ports and
  recorded findings of the instance. What the session adds to it is proved
  (`VerdictsAreIndependent`).

## 5. Findings

Two places where a comment claims more than the code does, each with a run that TLC
shows violated.

1. `explore.mbt:128`: universal diagnostics are judged against the configurations
   explored so far even when the exploration was truncated, though the comment
   calls that set "the whole feasible space" (`explore_universal`). The code does
   warn that coverage was truncated.
2. `waxdiff.py:942`: a port that prints no JSON where the reference prints nothing
   ends the fuzz session with an exception; the comment at line 1489 calls it "a
   find in itself" (`fuzz_nonjson`).

### Observations

Further disagreements between a claim and the code. The property states the claim,
and TLC finds it violated with the configuration named; none is part of the runs
above. A configuration that lists several checks the one that is not commented out.

| Where | The claim | What happens | Property, configuration |
|---|---|---|---|
| `specialize.mbt:33` | "an infeasible configuration is never explored" | one is, when two bodies decide differently; it counts against the cap, and a backstop discards its diagnostics | `InfeasibleNeverExplored`, `MCCondExplorePruned` |
| `recover.mbt:222` | "The same report the non-recovering path builds" | the expected tokens are computed from the stack after reductions, and are fewer | `SameReportAsParse`, `MCParserRecoveryReport` |
| `recover.mbt:94` | after a lexical error, "still reports the syntax errors before that point" | the end of the cut stream is reported as well | `TruncationIsSilent`, `MCParserRecoveryCut` |
| `waxdiff.py:412` | "Re-run a full `collect` (no --only) to rebuild provenance for every source" | after an adoption interrupted between lines 1574 and 1583 every full collect fails with this message | `FullCollectRebuilds`, `MCCorpusStoreObservations` |
| `waxdiff.py:412` | the same | an interrupted save leaves a manifest that `json.loads` rejects in every later collect (line 381), full or not | `FullCollectReads`, `MCCorpusStoreObservations` |
| `waxdiff.py:419` | "Provenance for every corpus file" | an interrupted collect leaves new text under old entries, which a partial collect carries forward by name (line 385) | `ProvenanceIsTrue`, `MCCorpusStoreObservations` |
| `waxdiff.py:419` | the same | two `.wast` of one stem share a scratch directory (line 331), so the later one collects, under its own name and origin, modules that only the earlier one has. The corpus holds two: `manifest.json:4570-4575` gives `invalid.wast` for `invalid.16` and `invalid.25`, whose texts are those of `gc/invalid.wast` | `OriginsAreTrue`, `MCCorpusStoreObservations` |
| `waxdiff.py:318` | "wasm-tools not found, skipping the spec corpus" | the subtree was removed before (line 395) and the collect succeeds without it | `SkippedIsLeftAlone`, `MCCorpusStoreObservations` |
| `waxdiff.py:1924` | the default implementation "passes trivially whatever the port does" | it fails on a file of SPAN_EXEMPT, whose spans of course agree (line 996) | `DefaultIsTrivial`, `MCDiffHarnessDefault` |
| `waxdiff.py:449` | the exit status "isolates "did it parse?" from "did it type-check?"" | a child killed at the limit has status -1 (line 138): the file is recorded as syntax-bad and later skipped | `BucketIsTrue`, `MCDiffHarnessBucket` |
| `waxdiff.py:1816` | in scope "when every `wax` command it runs uses only flags and formats wax-mb implements" | `-f` of `format` is judged as an output format, and a value behind "=" of a short flag is accepted; the port refuses both | `ScopeIsFlagsAndFormats`, `MCCramScopeObservations` |
| `waxdiff.py:1816` | the same | a `wax` that is not the first word of its segment, as in `! wax` or `do wax`, is not looked at (line 1738) | `UnseenIsInScope`, `MCCramScopeObservations` |
| `waxdiff.py:1728` | the pass "has to know which flags take a value" | it takes the redirection of `-W >/dev/null f.wax` for the value, and the port the file; `'-v'` is a file to it, and a flag to the port | `ShellReadsTheSame`, `MCCramScopeObservations` |
| `waxdiff.py:1783` | "every `$` command is checked" | only its first line is (line 1708); `bottom-ref-numeric-cast.t` has such a loop, which happens to be implemented | `EveryCommandIsChecked`, `MCCramScopeObservations` |
| `waxdiff.py:1784` | "we run 40 of 329" cannot quietly become "we run 12" | an interrupted copy leaves the old report beside fewer tests | `ReportIsCurrent`, `MCCramScopeObservations` |
| `grammar_fidelity.py:5` | checks "that the grammar is a faithful translation" | of a rule's productions only the number is compared (line 190) | `CleanIsFaithful`, `MCGrammarFidelityFaithful` |
| `grammar_fidelity.py:16` | brace matching matters, or arms beginning with a bar are counted "as extra grammar alternatives" | so is the quoted bar of `expression "|" expression`, since line 130 splits at every bar | `BarsAreAlternatives`, `MCGrammarFidelityBars` |
| `gen_parser_messages.py:455`, `parser_messages.mbt:16` | "The key is the SHALLOWEST stack suffix that names one message" | line 213 compares messages with their signatures, so two claims of one message with two signatures make the key deeper, or drop both; no message in the present tables is at such a key | `ShallowestNamesMessage`, `MCMessageTableShallow` |
| `gen_parser_messages.py:24` | "the sentence must fail on its LAST token" | EOF is not written, so a sentence ending in it is recorded when it fails on the token before | `FailsOnLast`, `MCMessageTableLast` |

Noticed while reading, and stated by no line, so that nothing is violated:
an error without a request number, after a malformed resource, fails a request that has
nothing to do with it (`worker.mjs:59`, `sandbox.mjs:75`); `collect` drops the count of
adopted files; the origin of an adopted file is stale
after an interrupted `adopt --force`; a `check` that is killed raises out of `run`
since its text is not JSON; two fuzz sessions in one checkout share
`test/report/tmp/mutant.wax`; `minimize` may slip to another failure than the one
printed; the depth of the generated lookup is 0 when the first message table is
empty; and a failed build leaves new `%on_error_reduce` ids beside an old table.

`GivesUpOnlyOutside` holds, and states a limit of the design: where the token to
resume at closes nothing that is open, or is the keyword of a statement outside a
function, the rest of the file is not parsed. With `nop` among the terminals both kinds
occur in the run.

## 6. Not modelled

Lexing, AST types, the checker's case analysis, lowering, encoders, formatting and message
wording are pure functions of their input without state that two steps could disagree on.
`api_audit.py` prints the result of a text search and, by its own docstring, does not
gate; `gen-stdlib-test.py` and `gen-wisp-runtime.py` substitute text into one file. Of the
modelled tools these parts are left out: the Markdown reports, the printing of `classify`,
how a page or a `.wast` file is cut into snippets, the tokenizer of the fuzzer, and the
search of `on_error_reduce_ids` in the tables of a commented build, which appears only as
succeeding or exiting. Within the other parts: payload encoding and schema validation of
Wisp, message wording of the parser, the version and string theory of the solver, and the
lints in `specialize.mbt`.

## 7. Plan

Done: `WispInstance`, `InvocationContract`, `WispSandbox`, `CondExplore`,
`ParserRecovery`, the modules of the Python tools, and eight proof modules. Next, in this order:

1. `ErrorState`: `state.mbt` and `driver.mbt`, the replay that finds the automaton
   state of a plain parse's error, against a model of the generated loop. Composes
   with `ParserRecovery`'s table.
2. `CondSolve`: `solve.mbt` search with the version and string theory against
   enumeration of valuations; whether `canonical_key` identifies only equivalent
   formulas.
3. `InferCell` and `OperandStack`: union of inference cells, and the polymorphic
   operand stack of `check/stack.mbt`.
4. `TypeStore`: interning of recursive type groups; equal ids iff equal groups.
5. `PrettyEngine`: the scan and print queues of `printer/engine.mbt` against a
   reference layout.
6. `Trivia`: every comment attached exactly once.
7. `protocols.mjs`, `wap` resolution, and the persistent collections.

Proofs to add: `ReadAsWritten` and `CleanIsCorresponding`, once `GrammarFidelity` says which texts
a grammar is written as, as a recursive function of the length, by the form of induction
that `CondExploreProofs` and `CramScopeProofs` use; and for each module of the plan the
invariants its runs check.
