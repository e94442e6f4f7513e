---------------------------- MODULE WispInstance ----------------------------
(***************************************************************************)
(* The low-level Wisp instance of wisp/js/runtime.mjs: what `instantiate`   *)
(* returns, with its `run`, `cancel` and `revoke` methods, its deadline     *)
(* timer and the suspending host import `wisp.invoke`.                      *)
(*                                                                         *)
(* One JavaScript thread executes all of it.  A step of the model is one    *)
(* piece of code that runs between two points where other code may run: the *)
(* awaits of `run` and of the import, and the stack switches of JSPI.       *)
(* While a script is on the Wasm stack nothing else of the thread runs, so  *)
(* every other step waits for `Idle`.                                       *)
(*                                                                         *)
(* Abstracted: Wasm values, schemas and limits other than the host-call     *)
(* limit decide only WHETHER a step throws; the choice is nondeterministic. *)
(***************************************************************************)
EXTENDS Naturals, FiniteSets

CONSTANTS
  Grants,     \* the names under which the embedder granted protocols
  HostCalls,  \* limits.hostCalls
  MaxRuns     \* bound: how many calls of run() get past its early returns

ASSUME GrantsAssumption == IsFiniteSet(Grants)
ASSUME HostCallsAssumption == HostCalls \in Nat \ {0}
ASSUME MaxRunsAssumption == MaxRuns \in Nat

Run == 1..MaxRuns

NoRun == 0

(***************************************************************************)
(* A capability token.  Serial 0 is a grant passed as a parameter; a        *)
(* resource minted by a host call carries the number of that call.          *)
(***************************************************************************)
Token == [run : Run, serial : 0..HostCalls, name : Grants]

(***************************************************************************)
(* Where a host call stands.                                                *)
(*   none      the run has no host call outstanding                         *)
(*   provider  the operation was called and its promise is unsettled        *)
(*   settled   the operation delivered a value or a resource                *)
(*   return    the import returned to the script                            *)
(*   throw     the import threw                                             *)
(***************************************************************************)
Stage == {"none", "provider", "settled", "return", "throw"}

VARIABLES
  active,     \* the run `active` points to, or NoRun
  retired,    \* set by the first cancellation, never reset
  revoked,    \* names passed to revoke()
  started,    \* how many runs were created
  bound,      \* run -> the grants its entry parameters were bound to
  calls,      \* run -> run.calls
  cancelled,  \* run -> run.cancelled
  aborted,    \* run -> run.abort.signal.aborted
  tokens,     \* the live capability tokens
  script,     \* run -> its Wasm stack: none, running, suspended or ended
  stage,      \* run -> the Stage of its host call
  callee,     \* run -> {the grant its latest host call went through}, or {}
  lent,       \* run -> the grants of the resources that call passed as arguments
  race,       \* run -> what Promise.race settled with, if it has
  outcome     \* run -> what the promise of run() settled with, if it has

vars == <<active, retired, revoked, started, bound, calls, cancelled, aborted,
          tokens, script, stage, callee, lent, race, outcome>>

runVars == <<started, bound>>
callVars == <<calls, stage, callee, lent>>

TypeOK ==
  /\ active \in Run \cup {NoRun}
  /\ retired \in BOOLEAN
  /\ revoked \subseteq Grants
  /\ started \in 0..MaxRuns
  /\ bound \in [Run -> SUBSET Grants]
  /\ calls \in [Run -> 0..HostCalls + 1]
  /\ cancelled \in [Run -> BOOLEAN]
  /\ aborted \in [Run -> BOOLEAN]
  /\ tokens \subseteq Token
  /\ script \in [Run -> {"none", "running", "suspended", "ended"}]
  /\ stage \in [Run -> Stage]
  /\ callee \in [Run -> SUBSET Grants]
  /\ lent \in [Run -> SUBSET Grants]
  /\ race \in [Run -> {"none", "value", "fault", "cancelled"}]
  /\ outcome \in [Run -> {"none", "value", "failed"}]

Init ==
  /\ active = NoRun
  /\ retired = FALSE
  /\ revoked = {}
  /\ started = 0
  /\ bound = [r \in Run |-> {}]
  /\ calls = [r \in Run |-> 0]
  /\ cancelled = [r \in Run |-> FALSE]
  /\ aborted = [r \in Run |-> FALSE]
  /\ tokens = {}
  /\ script = [r \in Run |-> "none"]
  /\ stage = [r \in Run |-> "none"]
  /\ callee = [r \in Run |-> {}]
  /\ lent = [r \in Run |-> {}]
  /\ race = [r \in Run |-> "none"]
  /\ outcome = [r \in Run |-> "none"]

\* No script is on the Wasm stack: the event loop of the thread turns.
Idle == \A r \in Run : script[r] # "running"

-----------------------------------------------------------------------------
(* The embedder's methods.                                                 *)

revoke(g) ==
  /\ Idle
  /\ revoked' = revoked \cup {g}
  /\ UNCHANGED <<active, retired, runVars, callVars, cancelled, aborted, tokens,
                 script, race, outcome>>

\* Mutant of cancel: the instance is not retired.
cancelWithoutRetiring ==
  /\ Idle
  /\ active # NoRun
  /\ cancelled' = [cancelled EXCEPT ![active] = TRUE]
  /\ aborted' = [aborted EXCEPT ![active] = TRUE]
  /\ race' = [race EXCEPT ![active] = IF @ = "none" THEN "cancelled" ELSE @]
  /\ UNCHANGED <<active, retired, revoked, runVars, callVars, tokens, script,
                 outcome>>

\* Mutant of cancel: the promise that races with the script is not rejected.
cancelWithoutReject ==
  /\ Idle
  /\ active # NoRun
  /\ retired' = TRUE
  /\ cancelled' = [cancelled EXCEPT ![active] = TRUE]
  /\ aborted' = [aborted EXCEPT ![active] = TRUE]
  /\ UNCHANGED <<active, revoked, runVars, callVars, tokens, script, race,
                 outcome>>

(***************************************************************************)
(* cancel() marks the active run, aborts its signal, retires the instance   *)
(* for good and rejects the promise that the script's promise races with.   *)
(* A race that was settled stays settled.  Without an active run it does    *)
(* nothing.                                                                 *)
(***************************************************************************)
cancel ==
  /\ Idle
  /\ active # NoRun
  /\ retired' = TRUE
  /\ cancelled' = [cancelled EXCEPT ![active] = TRUE]
  /\ aborted' = [aborted EXCEPT ![active] = TRUE]
  /\ race' = [race EXCEPT ![active] = IF @ = "none" THEN "cancelled" ELSE @]
  /\ UNCHANGED <<active, revoked, runVars, callVars, tokens, script, outcome>>

\* The timer armed by run() and cleared when it settles calls cancel.
Timeout == cancel

\* Mutant of run: a cancelled instance can be run again.
runRetired(P) ==
  /\ Idle
  /\ active = NoRun
  /\ started < MaxRuns
  /\ P \cap revoked = {}
  /\ LET r == started + 1 IN
       /\ started' = r
       /\ active' = r
       /\ bound' = [bound EXCEPT ![r] = P]
       /\ tokens' = tokens \cup [run : {r}, serial : {0}, name : P]
       /\ script' = [script EXCEPT ![r] = "running"]
  /\ UNCHANGED <<retired, revoked, callVars, cancelled, aborted, race, outcome>>

(***************************************************************************)
(* run() past its early returns (retired, already running, unknown entry):  *)
(* P are the grants its parameters are bound to.  When each is granted and  *)
(* live and the input encodes, tokens are minted and the script starts on   *)
(* this same stack.                                                         *)
(***************************************************************************)
run(P) ==
  /\ Idle
  /\ ~retired
  /\ active = NoRun
  /\ started < MaxRuns
  /\ P \cap revoked = {}
  /\ LET r == started + 1 IN
       /\ started' = r
       /\ active' = r
       /\ bound' = [bound EXCEPT ![r] = P]
       /\ tokens' = tokens \cup [run : {r}, serial : {0}, name : P]
       /\ script' = [script EXCEPT ![r] = "running"]
  /\ UNCHANGED <<retired, revoked, callVars, cancelled, aborted, race, outcome>>

(***************************************************************************)
(* run() that throws while it prepares the arguments (a missing or revoked  *)
(* grant, an input that does not encode): created, failed and cleaned up by *)
(* `finally` in one turn, before any await.                                 *)
(***************************************************************************)
runRefused ==
  /\ Idle
  /\ ~retired
  /\ active = NoRun
  /\ started < MaxRuns
  /\ LET r == started + 1 IN
       /\ started' = r
       /\ cancelled' = [cancelled EXCEPT ![r] = TRUE]
       /\ aborted' = [aborted EXCEPT ![r] = TRUE]
       /\ outcome' = [outcome EXCEPT ![r] = "failed"]
  /\ tokens' = {}
  /\ UNCHANGED <<active, retired, revoked, bound, callVars, script, race>>

-----------------------------------------------------------------------------
(* The script, and the import wisp.invoke it calls.                        *)

\* What a script can pass as resource arguments; one is enough to tell apart.
Arguments == {{}} \cup {{a} : a \in tokens}

\* Mutant of Live: the import does not look at run.cancelled.
LiveIfActive(r) == active = r

\* The guard of the import: the calling run is the active one and is alive.
Live(r) == active = r /\ ~cancelled[r]

\* The token is known and its grant has not been revoked.
Granted(t) == t \in tokens /\ t.name \notin revoked

\* Mutant of invoke: the call limit is off by one.
invokeOneMore(r, t, A) ==
  /\ script[r] = "running"
  /\ Live(r)
  /\ Granted(t)
  /\ \A a \in A : Granted(a)
  /\ calls[r] <= HostCalls
  /\ calls' = [calls EXCEPT ![r] = @ + 1]
  /\ callee' = [callee EXCEPT ![r] = {t.name}]
  /\ lent' = [lent EXCEPT ![r] = {a.name : a \in A}]
  /\ stage' = [stage EXCEPT ![r] = "provider"]
  /\ script' = [script EXCEPT ![r] = "suspended"]
  /\ UNCHANGED <<active, retired, revoked, runVars, cancelled, aborted, tokens,
                 race, outcome>>

(***************************************************************************)
(* The import passes every check and calls the provider's operation on the  *)
(* token t; A are the tokens the script passes as resource arguments.       *)
(***************************************************************************)
invoke(r, t, A) ==
  /\ script[r] = "running"
  /\ Live(r)
  /\ Granted(t)
  /\ \A a \in A : Granted(a)
  /\ calls[r] < HostCalls
  /\ calls' = [calls EXCEPT ![r] = @ + 1]
  /\ callee' = [callee EXCEPT ![r] = {t.name}]
  /\ lent' = [lent EXCEPT ![r] = {a.name : a \in A}]
  /\ stage' = [stage EXCEPT ![r] = "provider"]
  /\ script' = [script EXCEPT ![r] = "suspended"]
  /\ UNCHANGED <<active, retired, revoked, runVars, cancelled, aborted, tokens,
                 race, outcome>>

(***************************************************************************)
(* The import throws before it calls the operation: an inactive run, an     *)
(* unknown or revoked token, the call limit, an unknown method, the arity,  *)
(* a resource argument, or arguments that do not decode or validate.  The   *)
(* call counts once the token has been accepted.                            *)
(***************************************************************************)
invokeRefused(r, counted) ==
  /\ script[r] = "running"
  /\ counted => Live(r) /\ \E t \in tokens : Granted(t)
  /\ calls' = [calls EXCEPT ![r] = IF counted THEN @ + 1 ELSE @]
  /\ stage' = [stage EXCEPT ![r] = "throw"]
  /\ script' = [script EXCEPT ![r] = "suspended"]
  /\ UNCHANGED <<active, retired, revoked, runVars, callee, lent, cancelled,
                 aborted, tokens, race, outcome>>

\* The provider's promise resolves.  It may do so long after the run ended.
ProviderResolves(r) ==
  /\ Idle
  /\ stage[r] = "provider"
  /\ stage' = [stage EXCEPT ![r] = "settled"]
  /\ UNCHANGED <<active, retired, revoked, runVars, calls, callee, lent,
                 cancelled, aborted, tokens, script, race, outcome>>

\* The provider's promise rejects: the await in the import throws.
ProviderRejects(r) ==
  /\ Idle
  /\ stage[r] = "provider"
  /\ stage' = [stage EXCEPT ![r] = "throw"]
  /\ UNCHANGED <<active, retired, revoked, runVars, calls, callee, lent,
                 cancelled, aborted, tokens, script, race, outcome>>

\* Mutant of StillGranted: the grant is not looked at again after the await.
StillLive(r) == Live(r)

(***************************************************************************)
(* The check after the await: what was true when the operation was called   *)
(* may not be true any more.                                                *)
(***************************************************************************)
StillGranted(r) == Live(r) /\ callee[r] \cap revoked = {}

(***************************************************************************)
(* The import continues after its await.  If the run and the grant are      *)
(* still live and the result validates, it returns data, or mints a token   *)
(* for the resource under the name of the grant it came from; else it       *)
(* throws.                                                                  *)
(***************************************************************************)
invokeReturns(r, minted) ==
  /\ Idle
  /\ stage[r] = "settled"
  /\ StillGranted(r)
  /\ tokens' = tokens \cup
       (IF minted THEN [run : {r}, serial : {calls[r]}, name : callee[r]] ELSE {})
  /\ stage' = [stage EXCEPT ![r] = "return"]
  /\ UNCHANGED <<active, retired, revoked, runVars, calls, callee, lent,
                 cancelled, aborted, script, race, outcome>>

invokeThrows(r) ==
  /\ Idle
  /\ stage[r] = "settled"
  /\ stage' = [stage EXCEPT ![r] = "throw"]
  /\ UNCHANGED <<active, retired, revoked, runVars, calls, callee, lent,
                 cancelled, aborted, tokens, script, race, outcome>>

\* JSPI switches back to the suspended stack with the import's result.
scriptResumes(r) ==
  /\ Idle
  /\ stage[r] = "return"
  /\ stage' = [stage EXCEPT ![r] = "none"]
  /\ script' = [script EXCEPT ![r] = "running"]
  /\ UNCHANGED <<active, retired, revoked, runVars, calls, callee, lent,
                 cancelled, aborted, tokens, race, outcome>>

\* The stack of r ended; its promise settles the race unless something else did.
Ends(r, how) ==
  /\ script' = [script EXCEPT ![r] = "ended"]
  /\ race' = [race EXCEPT ![r] = IF @ = "none" THEN how ELSE @]

\* A script cannot catch: what the import threw unwinds the whole stack.
scriptUnwinds(r) ==
  /\ Idle
  /\ stage[r] = "throw"
  /\ stage' = [stage EXCEPT ![r] = "none"]
  /\ Ends(r, "fault")
  /\ UNCHANGED <<active, retired, revoked, runVars, calls, callee, lent,
                 cancelled, aborted, tokens, outcome>>

\* The entry function returns, or traps (fuel, depth, a type error ...).
scriptEnds(r, how) ==
  /\ script[r] = "running"
  /\ Ends(r, how)
  /\ UNCHANGED <<active, retired, revoked, runVars, callVars, cancelled,
                 aborted, tokens, outcome>>

\* Mutant of runSettles: tokens.clear() is missing from `finally`.
runSettlesKeepingTokens(r, decodes) ==
  /\ Idle
  /\ active = r
  /\ race[r] # "none"
  /\ outcome' = [outcome EXCEPT ![r] =
       IF race[r] = "value" /\ ~cancelled[r] /\ decodes THEN "value" ELSE "failed"]
  /\ cancelled' = [cancelled EXCEPT ![r] = TRUE]
  /\ aborted' = [aborted EXCEPT ![r] = TRUE]
  /\ active' = NoRun
  /\ UNCHANGED <<retired, revoked, runVars, callVars, tokens, script, race>>

(***************************************************************************)
(* run() continues after its await and settles; `finally` always cancels    *)
(* the run, aborts its signal, forgets the tokens and clears `active`.  A   *)
(* value is dropped when the run was cancelled after the race was decided,  *)
(* or when it does not decode.                                              *)
(***************************************************************************)
runSettles(r, decodes) ==
  /\ Idle
  /\ active = r
  /\ race[r] # "none"
  /\ outcome' = [outcome EXCEPT ![r] =
       IF race[r] = "value" /\ ~cancelled[r] /\ decodes THEN "value" ELSE "failed"]
  /\ cancelled' = [cancelled EXCEPT ![r] = TRUE]
  /\ aborted' = [aborted EXCEPT ![r] = TRUE]
  /\ tokens' = {}
  /\ active' = NoRun
  /\ UNCHANGED <<retired, revoked, runVars, callVars, script, race>>

-----------------------------------------------------------------------------
\* What the embedder does, and when.
Embedder ==
  \/ \E g \in Grants : revoke(g)
  \/ cancel
  \/ \E P \in SUBSET Grants : run(P)
  \/ runRefused

Script(r) ==
  \/ \E t \in tokens, A \in Arguments : invoke(r, t, A)
  \/ \E counted \in BOOLEAN : invokeRefused(r, counted)
  \/ \E how \in {"value", "fault"} : scriptEnds(r, how)

Provider(r) == ProviderResolves(r) \/ ProviderRejects(r)

EventLoop(r) ==
  \/ \E minted \in BOOLEAN : invokeReturns(r, minted)
  \/ invokeThrows(r)
  \/ scriptResumes(r)
  \/ scriptUnwinds(r)
  \/ \E decodes \in BOOLEAN : runSettles(r, decodes)

Next ==
  \/ Embedder
  \/ Timeout
  \/ \E r \in Run : Script(r) \/ Provider(r) \/ EventLoop(r)

Spec == Init /\ [][Next]_vars

(***************************************************************************)
(* Fairness.  The engine drains its task queues; fuel bounds how long a     *)
(* script stays on the stack; the timer of a run fires unless run() cleared *)
(* it.  Nothing is assumed of the embedder or of the providers.             *)
(***************************************************************************)
Fairness ==
  /\ WF_vars(Timeout)
  /\ \A r \in Run : WF_vars(Script(r)) /\ WF_vars(EventLoop(r))

FairSpec == Spec /\ Fairness

-----------------------------------------------------------------------------
(* Correctness.                                                            *)

(***************************************************************************)
(* limits.hostCalls bounds the operations a run starts: `++run.calls` is    *)
(* compared before the operation is called, and the call that exceeds the   *)
(* limit unwinds the script, so that there is no other.                     *)
(***************************************************************************)
CallLimit ==
  \A r \in Run : \/ script[r] = "running"
                 \/ stage[r] \in {"provider", "settled", "return"}
                 => calls[r] <= HostCalls

(***************************************************************************)
(* A host operation that outlives its run (the run was cancelled while the  *)
(* provider worked) has been told so through its AbortSignal, and belongs   *)
(* to an instance that will start no other run: the late answer can never   *)
(* meet the state of a newer run.  This is what cancel() and the `finally`  *)
(* of run() are for.                                                        *)
(***************************************************************************)
LateCallsAreAborted ==
  \A r \in Run : stage[r] \in {"provider", "settled"} /\ active # r
                   => aborted[r] /\ retired

(***************************************************************************)
(* At most one Wasm stack of the instance is unfinished.  `active` is reset *)
(* when run() settles, not when the stack ends, so this needs `retired`.    *)
(***************************************************************************)
OneUnfinishedStack ==
  \A r, s \in Run : /\ script[r] \in {"running", "suspended"}
                    /\ script[s] \in {"running", "suspended"}
                    => r = s

(***************************************************************************)
(* Authority: a token is usable only during the run it was made for, and    *)
(* whatever a run calls goes through a grant that its own entry parameters  *)
(* named, directly or through resources derived from it.                    *)
(***************************************************************************)
AuthorityConfined ==
  /\ \A t \in tokens : t.run = active /\ t.name \in bound[t.run]
  /\ \A r \in Run : callee[r] \cup lent[r] \subseteq bound[r]

(***************************************************************************)
(* From revoke(g) on, no step starts an operation of g, delivers a result   *)
(* of one, or makes a token for g, however the run that holds the tokens    *)
(* and the provider that answers are interleaved with it.                   *)
(***************************************************************************)
RevocationStep ==
  \A g \in revoked :
    /\ \A t \in tokens' \ tokens : t.name # g
    /\ \A r \in Run : stage'[r] # stage[r] =>
         /\ stage'[r] = "provider" => g \notin callee'[r] \cup lent'[r]
         /\ stage'[r] = "return" => g \notin callee'[r]

RevocationIsFinal == [][RevocationStep]_vars

(***************************************************************************)
(* From a cancellation on, the instance starts no run and no operation and  *)
(* no run delivers a value, although the script that was cancelled may      *)
(* still be resumed once with the answer that was on its way.               *)
(***************************************************************************)
CancellationStep ==
  retired =>
    /\ started' = started
    /\ \A r \in Run : /\ stage'[r] = "provider" => stage[r] = "provider"
                      /\ outcome'[r] = "value" => outcome[r] = "value"

CancellationIsFinal == [][CancellationStep]_vars

(***************************************************************************)
(* Every run settles, even when its provider never answers: the timer       *)
(* decides the race.                                                        *)
(***************************************************************************)
EveryRunSettles == \A r \in Run : active = r ~> outcome[r] # "none"

-----------------------------------------------------------------------------
(***************************************************************************)
(* An instance keeps the contract of InvocationContract: retiring ends the  *)
(* service, and the host work of a run is its call to a provider.           *)
(***************************************************************************)
InFlight == [r \in Run |-> IF stage[r] = "provider" THEN callee[r] ELSE {}]

Contract == INSTANCE InvocationContract WITH
  Requests <- Run, closed <- retired, begun <- started, current <- active,
  work <- InFlight

ImplementsContract == Contract!Spec
=============================================================================
