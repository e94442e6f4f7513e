------------------------- MODULE WispSandboxProofs -------------------------
(***************************************************************************)
(* Theorems about WispInstance and about WispSandbox, for every set of      *)
(* grants, every host-call limit and every number of runs and requests.     *)
(* The instance alone comes first.  The worker of the sandbox holds a       *)
(* WispInstance and changes it only by steps of its own, so that what is    *)
(* proved of an instance holds of the one in the worker.                    *)
(***************************************************************************)
EXTENDS WispSandbox, SequenceTheorems, TLAPS

-----------------------------------------------------------------------------
(* THE INSTANCE ALONE                                                      *)

USE DEF Run, NoRun

-----------------------------------------------------------------------------
(* Typing.                                                                 *)

LEMMA TokenTyping ==
  ASSUME NEW r \in Run, NEW n \in 0..HostCalls, NEW S \in SUBSET Grants
  PROVE  [run : {r}, serial : {n}, name : S] \subseteq Token
BY DEF Token

\* A run that run() has not created yet.
FreshRuns ==
  \A r \in Run : r > started =>
    calls[r] = 0 /\ script[r] = "none" /\ stage[r] = "none"

\* Typing is inductive together with the limit on host calls, and that with
\* the fact that a run starts with its counter at zero.
Typed == TypeOK /\ CallLimit /\ FreshRuns

LEMMA TypedInitially ==
  ASSUME Init
  PROVE  Typed
<1>1. active \in Run \cup {NoRun} /\ started \in 0..MaxRuns
  BY MaxRunsAssumption DEF Init
<1>2. calls \in [Run -> 0..HostCalls + 1]
  BY HostCallsAssumption DEF Init
<1>3. /\ retired \in BOOLEAN
      /\ cancelled \in [Run -> BOOLEAN]
      /\ aborted \in [Run -> BOOLEAN]
  BY DEF Init
<1>4. /\ revoked \subseteq Grants
      /\ bound \in [Run -> SUBSET Grants]
      /\ callee \in [Run -> SUBSET Grants]
      /\ lent \in [Run -> SUBSET Grants]
      /\ tokens \subseteq Token
  BY DEF Init
<1>5. /\ script \in [Run -> {"none", "running", "suspended", "ended"}]
      /\ stage \in [Run -> Stage]
      /\ race \in [Run -> {"none", "value", "fault", "cancelled"}]
      /\ outcome \in [Run -> {"none", "value", "failed"}]
  BY DEF Init, Stage
<1>6. CallLimit /\ FreshRuns
  BY HostCallsAssumption DEF Init, CallLimit, FreshRuns
<1> QED BY <1>1, <1>2, <1>3, <1>4, <1>5, <1>6 DEF TypeOK, Typed

LEMMA TypedPreserved ==
  ASSUME Typed, [Next]_vars
  PROVE  Typed'
<1> USE DEF Typed, TypeOK, CallLimit, FreshRuns, Stage, runVars, callVars
<1>1. ASSUME NEW g \in Grants, revoke(g) PROVE Typed'
  BY <1>1 DEF revoke
<1>2. CASE cancel
  BY <1>2 DEF cancel
<1>3. ASSUME NEW P \in SUBSET Grants, run(P) PROVE Typed'
  <2> DEFINE r == started + 1
  <2>1. r \in Run /\ r \in 0..MaxRuns
    BY <1>3, MaxRunsAssumption DEF run
  <2>2. tokens' \subseteq Token
    BY <1>3, <2>1, TokenTyping, HostCallsAssumption DEF run
  <2>3. CallLimit' /\ FreshRuns'
    BY <1>3, <2>1, HostCallsAssumption DEF run
  <2> QED BY <1>3, <2>1, <2>2, <2>3 DEF run
<1>4. CASE runRefused
  <2>1. started + 1 \in Run /\ started + 1 \in 0..MaxRuns
    BY <1>4, MaxRunsAssumption DEF runRefused
  <2> QED BY <1>4, <2>1 DEF runRefused
<1>5. ASSUME NEW r \in Run, NEW t \in tokens, NEW A \in Arguments,
             invoke(r, t, A)
      PROVE  Typed'
  <2>1. calls' \in [Run -> 0..HostCalls + 1]
    BY <1>5, HostCallsAssumption DEF invoke
  <2>2. t.name \in Grants /\ {a.name : a \in A} \subseteq Grants
    BY DEF Arguments, Token
  <2>3. CallLimit' /\ FreshRuns'
    BY <1>5, HostCallsAssumption DEF invoke
  <2> QED BY <1>5, <2>1, <2>2, <2>3 DEF invoke
<1>6. ASSUME NEW r \in Run, NEW counted \in BOOLEAN, invokeRefused(r, counted)
      PROVE  Typed'
  <2>1. calls' \in [Run -> 0..HostCalls + 1]
    BY <1>6, HostCallsAssumption DEF invokeRefused
  <2>2. \A s \in Run : s # r =>
          calls'[s] = calls[s] /\ script'[s] = script[s] /\ stage'[s] = stage[s]
    BY <1>6 DEF invokeRefused
  <2>3. script'[r] = "suspended" /\ stage'[r] = "throw"
    BY <1>6 DEF invokeRefused
  <2>4. CallLimit' /\ FreshRuns'
    BY <1>6, <2>2, <2>3 DEF invokeRefused
  <2> QED BY <1>6, <2>1, <2>2, <2>4 DEF invokeRefused
<1>7. ASSUME NEW r \in Run, Provider(r) PROVE Typed'
  <2>1. CASE ProviderResolves(r)
    BY <2>1 DEF ProviderResolves
  <2>2. CASE ProviderRejects(r)
    BY <2>2 DEF ProviderRejects
  <2> QED BY <1>7, <2>1, <2>2 DEF Provider
<1>8. ASSUME NEW r \in Run, NEW minted \in BOOLEAN, invokeReturns(r, minted)
      PROVE  Typed'
  <2>1. tokens' \subseteq Token
    BY <1>8, TokenTyping DEF invokeReturns
  <2> QED BY <1>8, <2>1 DEF invokeReturns
<1>9. ASSUME NEW r \in Run, invokeThrows(r) \/ scriptResumes(r) PROVE Typed'
  <2>1. CASE invokeThrows(r)
    BY <2>1 DEF invokeThrows
  <2>2. CASE scriptResumes(r)
    BY <2>2 DEF scriptResumes
  <2> QED BY <1>9, <2>1, <2>2
<1>10. ASSUME NEW r \in Run, scriptUnwinds(r) PROVE Typed'
  BY <1>10 DEF scriptUnwinds, Ends
<1>11. ASSUME NEW r \in Run, NEW how \in {"value", "fault"}, scriptEnds(r, how)
       PROVE  Typed'
  BY <1>11 DEF scriptEnds, Ends
<1>12. ASSUME NEW r \in Run, NEW decodes \in BOOLEAN, runSettles(r, decodes)
       PROVE  Typed'
  BY <1>12 DEF runSettles
<1>13. CASE UNCHANGED vars
  BY <1>13 DEF vars
<1> QED
  BY <1>1, <1>2, <1>3, <1>4, <1>5, <1>6, <1>7, <1>8, <1>9, <1>10, <1>11,
     <1>12, <1>13
  DEF Next, Embedder, Timeout, Script, EventLoop

LEMMA TypedInvariant == Spec => []Typed
<1>1. Init => Typed
  BY TypedInitially
<1>2. Typed /\ [Next]_vars => Typed'
  BY TypedPreserved
<1> QED BY <1>1, <1>2, PTL DEF Spec

(***************************************************************************)
(* TypeOK holds in every reachable state of an instance; in particular a    *)
(* resource is minted only for a call within the limit.                     *)
(***************************************************************************)
THEOREM TypeCorrect == Spec => []TypeOK
<1>1. Typed => TypeOK
  BY DEF Typed
<1> QED BY <1>1, TypedInvariant, PTL

(***************************************************************************)
(* No run ever starts more than limits.hostCalls operations: CallLimit is   *)
(* an invariant of the import's counter and of its place before the call.   *)
(***************************************************************************)
THEOREM HostCallsBounded == Spec => []CallLimit
<1>1. Typed => CallLimit
  BY DEF Typed
<1> QED BY <1>1, TypedInvariant, PTL

-----------------------------------------------------------------------------
(* Lifetimes: which runs can still act, and what holds of the others.      *)

Unfinished(r) == script[r] \in {"running", "suspended"}

\* `active` is the latest run or none, and retiring an instance cancels it.
ActiveIsLatest ==
  /\ active \in {NoRun, started}
  /\ retired /\ active # NoRun => cancelled[active]

\* A run that is over was cancelled and its signal aborted by `finally`.
OverIsAborted ==
  \A r \in Run : r <= started /\ active # r => cancelled[r] /\ aborted[r]

(***************************************************************************)
(* Only the latest run has a stack; when that run is over, or about to be   *)
(* because its race is decided, the instance is retired.                    *)
(***************************************************************************)
StacksAreLatest ==
  \A r \in Run :
    /\ stage[r] # "none" => script[r] = "suspended"
    /\ Unfinished(r) => r = started
    /\ Unfinished(r) /\ (active = NoRun \/ race[r] # "none") => retired
    /\ r > started => race[r] = "none" /\ bound[r] = {}

Lifetimes == ActiveIsLatest /\ OverIsAborted /\ StacksAreLatest

LEMMA LifetimesInitially == Init => Lifetimes
BY MaxRunsAssumption
DEF Init, Lifetimes, ActiveIsLatest, OverIsAborted, StacksAreLatest, Unfinished

LEMMA LifetimesPreserved ==
  ASSUME Typed, Lifetimes, [Next]_vars
  PROVE  Lifetimes'
<1> USE DEF Typed, TypeOK, FreshRuns, Stage, Lifetimes, ActiveIsLatest,
            OverIsAborted, StacksAreLatest, Unfinished, runVars, callVars
<1>1. ASSUME NEW g \in Grants, revoke(g) PROVE Lifetimes'
  BY <1>1 DEF revoke
<1>2. CASE cancel
  BY <1>2 DEF cancel
<1>3. ASSUME NEW P \in SUBSET Grants, run(P) PROVE Lifetimes'
  <2>1. started + 1 \in Run
    BY <1>3, MaxRunsAssumption DEF run
  <2>2. \A r \in Run : ~Unfinished(r)
    BY <1>3 DEF run
  <2>3. ActiveIsLatest' /\ OverIsAborted'
    BY <1>3, <2>1 DEF run
  <2>4. StacksAreLatest'
    BY <1>3, <2>1, <2>2 DEF run
  <2> QED BY <2>3, <2>4
<1>4. CASE runRefused
  <2>1. started + 1 \in Run
    BY <1>4, MaxRunsAssumption DEF runRefused
  <2>2. \A r \in Run : ~Unfinished(r)
    BY <1>4 DEF runRefused
  <2>3. ActiveIsLatest' /\ OverIsAborted'
    BY <1>4, <2>1 DEF runRefused
  <2>4. StacksAreLatest'
    BY <1>4, <2>1, <2>2 DEF runRefused
  <2> QED BY <2>3, <2>4
<1>5. ASSUME NEW r \in Run, NEW t \in tokens, NEW A \in Arguments,
             invoke(r, t, A)
      PROVE  Lifetimes'
  BY <1>5 DEF invoke
<1>6. ASSUME NEW r \in Run, NEW counted \in BOOLEAN, invokeRefused(r, counted)
      PROVE  Lifetimes'
  BY <1>6 DEF invokeRefused
<1>7. ASSUME NEW r \in Run, ProviderResolves(r) PROVE Lifetimes'
  BY <1>7 DEF ProviderResolves
<1>8. ASSUME NEW r \in Run, ProviderRejects(r) PROVE Lifetimes'
  BY <1>8 DEF ProviderRejects
<1>9. ASSUME NEW r \in Run, NEW minted \in BOOLEAN, invokeReturns(r, minted)
      PROVE  Lifetimes'
  BY <1>9 DEF invokeReturns
<1>10. ASSUME NEW r \in Run, invokeThrows(r) PROVE Lifetimes'
  BY <1>10 DEF invokeThrows
<1>11. ASSUME NEW r \in Run, scriptResumes(r) PROVE Lifetimes'
  BY <1>11 DEF scriptResumes
<1>12. ASSUME NEW r \in Run, scriptUnwinds(r) PROVE Lifetimes'
  BY <1>12 DEF scriptUnwinds, Ends
<1>13. ASSUME NEW r \in Run, NEW how \in {"value", "fault"}, scriptEnds(r, how)
       PROVE  Lifetimes'
  BY <1>13 DEF scriptEnds, Ends
<1>14. ASSUME NEW r \in Run, NEW decodes \in BOOLEAN, runSettles(r, decodes)
       PROVE  Lifetimes'
  BY <1>14 DEF runSettles
<1>15. CASE UNCHANGED vars
  BY <1>15 DEF vars
<1> QED
  BY <1>1, <1>2, <1>3, <1>4, <1>5, <1>6, <1>7, <1>8, <1>9, <1>10, <1>11, <1>12,
     <1>13, <1>14, <1>15
  DEF Next, Embedder, Timeout, Script, Provider, EventLoop

LEMMA LifetimesInvariant == Spec => []Lifetimes
<1>1. Typed /\ Lifetimes /\ [Next]_vars => Lifetimes'
  BY LifetimesPreserved
<1> QED BY <1>1, LifetimesInitially, TypedInvariant, PTL DEF Spec

(***************************************************************************)
(* A host operation that outlives its run has an aborted signal and belongs *)
(* to a retired instance, whatever the number of runs and grants: cancel()  *)
(* and the `finally` of run() leave no other case.                          *)
(***************************************************************************)
THEOREM LateCallsSafe == Spec => []LateCallsAreAborted
<1>1. Typed /\ Lifetimes => LateCallsAreAborted
  BY DEF Typed, TypeOK, Lifetimes, ActiveIsLatest, OverIsAborted,
         StacksAreLatest, Unfinished, LateCallsAreAborted
<1> QED BY <1>1, TypedInvariant, LifetimesInvariant, PTL

(***************************************************************************)
(* At most one Wasm stack of an instance is unfinished, although `active`   *)
(* is reset while a cancelled script may still be suspended.                *)
(***************************************************************************)
THEOREM StacksExclusive == Spec => []OneUnfinishedStack
<1>1. Lifetimes => OneUnfinishedStack
  BY DEF Lifetimes, StacksAreLatest, Unfinished, OneUnfinishedStack
<1> QED BY <1>1, LifetimesInvariant, PTL

(***************************************************************************)
(* After a cancellation no run and no operation starts and no run delivers  *)
(* a value: the checks of run() and of the import close the instance.       *)
(***************************************************************************)
THEOREM CancellationFinal == Spec => CancellationIsFinal
<1>1. ASSUME Typed, Lifetimes, [Next]_vars PROVE [CancellationStep]_vars
  <2> SUFFICES ASSUME Next, retired
               PROVE  /\ started' = started
                      /\ \A r \in Run :
                           /\ stage'[r] = "provider" => stage[r] = "provider"
                           /\ outcome'[r] = "value" => outcome[r] = "value"
    BY <1>1 DEF CancellationStep
  <2> USE <1>1 DEF Typed, TypeOK, Lifetimes, ActiveIsLatest, runVars, callVars
  <2>1. CASE Embedder
    BY <2>1 DEF Embedder, revoke, cancel, run, runRefused
  <2>2. CASE Timeout
    BY <2>2 DEF Timeout, cancel
  <2>3. ASSUME NEW r \in Run, Script(r)
        PROVE  /\ started' = started
               /\ \A s \in Run : /\ stage'[s] = "provider" => stage[s] = "provider"
                                 /\ outcome'[s] = outcome[s]
    <3>1. ASSUME NEW t \in tokens, NEW A \in Arguments, invoke(r, t, A)
          PROVE  FALSE
      BY <3>1 DEF invoke, Live
    <3>2. ASSUME NEW counted \in BOOLEAN, invokeRefused(r, counted)
          PROVE  /\ started' = started /\ outcome' = outcome
                 /\ stage' = [stage EXCEPT ![r] = "throw"]
      BY <3>2 DEF invokeRefused
    <3>3. ASSUME NEW how \in {"value", "fault"}, scriptEnds(r, how)
          PROVE  started' = started /\ outcome' = outcome /\ stage' = stage
      BY <3>3 DEF scriptEnds
    <3> QED BY <2>3, <3>1, <3>2, <3>3 DEF Script
  <2>4. ASSUME NEW r \in Run, Provider(r)
        PROVE  /\ started' = started
               /\ \A s \in Run : /\ stage'[s] = "provider" => stage[s] = "provider"
                                 /\ outcome'[s] = outcome[s]
    BY <2>4 DEF Provider, ProviderResolves, ProviderRejects
  <2>5. ASSUME NEW r \in Run, EventLoop(r)
        PROVE  /\ started' = started
               /\ \A s \in Run : /\ stage'[s] = "provider" => stage[s] = "provider"
                                 /\ outcome'[s] = "value" => outcome[s] = "value"
    <3>1. ASSUME NEW minted \in BOOLEAN, invokeReturns(r, minted)
          PROVE  /\ started' = started /\ outcome' = outcome
                 /\ stage' = [stage EXCEPT ![r] = "return"]
      BY <3>1 DEF invokeReturns
    <3>2. ASSUME invokeThrows(r)
          PROVE  /\ started' = started /\ outcome' = outcome
                 /\ stage' = [stage EXCEPT ![r] = "throw"]
      BY <3>2 DEF invokeThrows
    <3>3. ASSUME scriptResumes(r) \/ scriptUnwinds(r)
          PROVE  /\ started' = started /\ outcome' = outcome
                 /\ stage' = [stage EXCEPT ![r] = "none"]
      BY <3>3 DEF scriptResumes, scriptUnwinds
    <3>4. ASSUME NEW decodes \in BOOLEAN, runSettles(r, decodes)
          PROVE  /\ started' = started /\ stage' = stage
                 /\ outcome' = [outcome EXCEPT ![r] = "failed"]
      <4>1. cancelled[r]
        BY <3>4 DEF runSettles
      <4> QED BY <3>4, <4>1 DEF runSettles
    <3> QED BY <2>5, <3>1, <3>2, <3>3, <3>4 DEF EventLoop
  <2> QED BY <2>1, <2>2, <2>3, <2>4, <2>5 DEF Next
<1> QED
  BY <1>1, TypedInvariant, LifetimesInvariant, PTL DEF Spec, CancellationIsFinal

-----------------------------------------------------------------------------
(* Authority.                                                              *)

(***************************************************************************)
(* A token is usable only in the run it was made for and leads only to      *)
(* grants that run was given: tokens.clear() and the name a derived token   *)
(* inherits confine what a script can reach.                                *)
(***************************************************************************)
THEOREM AuthorityIsConfined == Spec => []AuthorityConfined
<1>1. Init => AuthorityConfined
  BY DEF Init, AuthorityConfined
<1>2. ASSUME Typed, Lifetimes, AuthorityConfined, [Next]_vars
      PROVE  AuthorityConfined'
  <2> USE <1>2 DEF Typed, TypeOK, AuthorityConfined, runVars, callVars
  <2>1. ASSUME NEW g \in Grants, revoke(g) PROVE AuthorityConfined'
    BY <2>1 DEF revoke
  <2>2. CASE cancel
    BY <2>2 DEF cancel
  <2>3. ASSUME NEW P \in SUBSET Grants, run(P) PROVE AuthorityConfined'
    <3>1. started + 1 \in Run /\ tokens = {}
      BY <2>3, MaxRunsAssumption DEF run, Token
    <3>2. callee[started + 1] = {} /\ lent[started + 1] = {}
      BY <3>1 DEF Lifetimes, StacksAreLatest
    <3> QED BY <2>3, <3>1, <3>2 DEF run
  <2>4. CASE runRefused
    BY <2>4 DEF runRefused
  <2>5. ASSUME NEW r \in Run, NEW t \in tokens, NEW A \in Arguments,
               invoke(r, t, A)
        PROVE  AuthorityConfined'
    <3>1. t.name \in bound[r]
      BY <2>5 DEF invoke, Live
    <3>2. {a.name : a \in A} \subseteq bound[r]
      BY <2>5 DEF invoke, Live, Arguments
    <3>3. callee' = [callee EXCEPT ![r] = {t.name}]
      BY <2>5 DEF invoke
    <3>4. lent' = [lent EXCEPT ![r] = {a.name : a \in A}]
      BY <2>5 DEF invoke
    <3>5. active' = active /\ bound' = bound /\ tokens' = tokens
      BY <2>5 DEF invoke
    <3>6. \A s \in Run : callee'[s] \subseteq bound[s]
      BY <3>1, <3>3
    <3>7. \A s \in Run : lent'[s] \subseteq bound[s]
      BY <3>2, <3>4
    <3> QED BY <3>5, <3>6, <3>7
  <2>6. ASSUME NEW r \in Run, NEW counted \in BOOLEAN, invokeRefused(r, counted)
        PROVE  AuthorityConfined'
    BY <2>6 DEF invokeRefused
  <2>7. ASSUME NEW r \in Run, Provider(r) PROVE AuthorityConfined'
    BY <2>7 DEF Provider, ProviderResolves, ProviderRejects
  <2>8. ASSUME NEW r \in Run, NEW minted \in BOOLEAN, invokeReturns(r, minted)
        PROVE  AuthorityConfined'
    BY <2>8 DEF invokeReturns, StillGranted, Live
  <2>9. ASSUME NEW r \in Run,
               invokeThrows(r) \/ scriptResumes(r) \/ scriptUnwinds(r)
        PROVE  AuthorityConfined'
    BY <2>9 DEF invokeThrows, scriptResumes, scriptUnwinds
  <2>10. ASSUME NEW r \in Run, NEW how \in {"value", "fault"}, scriptEnds(r, how)
         PROVE  AuthorityConfined'
    BY <2>10 DEF scriptEnds
  <2>11. ASSUME NEW r \in Run, NEW decodes \in BOOLEAN, runSettles(r, decodes)
         PROVE  AuthorityConfined'
    BY <2>11 DEF runSettles
  <2>12. CASE UNCHANGED vars
    BY <2>12 DEF vars
  <2> QED
    BY <2>1, <2>2, <2>3, <2>4, <2>5, <2>6, <2>7, <2>8, <2>9, <2>10, <2>11, <2>12
    DEF Next, Embedder, Timeout, Script, EventLoop
<1> QED BY <1>1, <1>2, TypedInvariant, LifetimesInvariant, PTL DEF Spec

(***************************************************************************)
(* After revoke(g) nothing is started, delivered or minted under g: the     *)
(* import looks at `revoked` before the operation and again after it.       *)
(***************************************************************************)
THEOREM RevocationFinal == Spec => RevocationIsFinal
<1>1. ASSUME Typed, [Next]_vars PROVE [RevocationStep]_vars
  <2> SUFFICES ASSUME Next, NEW g \in revoked
               PROVE  /\ \A t \in tokens' \ tokens : t.name # g
                      /\ \A r \in Run : stage'[r] # stage[r] =>
                           /\ stage'[r] = "provider" => g \notin callee'[r] \cup lent'[r]
                           /\ stage'[r] = "return" => g \notin callee'[r]
    BY <1>1 DEF RevocationStep
  <2> USE <1>1 DEF Typed, TypeOK, runVars, callVars
  <2>1. CASE Embedder \/ Timeout
    <3>1. ASSUME NEW P \in SUBSET Grants, run(P)
          PROVE  stage' = stage /\ \A t \in tokens' \ tokens : t.name # g
      BY <3>1 DEF run
    <3>2. CASE runRefused
      BY <3>2 DEF runRefused
    <3>3. ASSUME NEW h \in Grants, revoke(h)
          PROVE  stage' = stage /\ tokens' = tokens
      BY <3>3 DEF revoke
    <3>4. CASE cancel
      BY <3>4 DEF cancel
    <3> QED BY <2>1, <3>1, <3>2, <3>3, <3>4 DEF Embedder, Timeout
  <2>2. ASSUME NEW r \in Run, Script(r)
        PROVE  /\ tokens' = tokens
               /\ \A s \in Run : stage'[s] # stage[s] =>
                    /\ stage'[s] = "provider" => g \notin callee'[s] \cup lent'[s]
                    /\ stage'[s] # "return"
    <3>1. ASSUME NEW t \in tokens, NEW A \in Arguments, invoke(r, t, A)
          PROVE  /\ tokens' = tokens /\ stage' = [stage EXCEPT ![r] = "provider"]
                 /\ g \notin callee'[r] \cup lent'[r]
      BY <3>1 DEF invoke, Granted
    <3>2. ASSUME NEW counted \in BOOLEAN, invokeRefused(r, counted)
          PROVE  tokens' = tokens /\ stage' = [stage EXCEPT ![r] = "throw"]
      BY <3>2 DEF invokeRefused
    <3>3. ASSUME NEW how \in {"value", "fault"}, scriptEnds(r, how)
          PROVE  tokens' = tokens /\ stage' = stage
      BY <3>3 DEF scriptEnds
    <3> QED BY <2>2, <3>1, <3>2, <3>3 DEF Script
  <2>3. ASSUME NEW r \in Run, Provider(r)
        PROVE  /\ tokens' = tokens
               /\ \A s \in Run : stage'[s] # stage[s] =>
                    stage'[s] \notin {"provider", "return"}
    BY <2>3 DEF Provider, ProviderResolves, ProviderRejects
  <2>4. ASSUME NEW r \in Run, EventLoop(r)
        PROVE  /\ \A t \in tokens' \ tokens : t.name # g
               /\ \A s \in Run : stage'[s] # stage[s] =>
                    /\ stage'[s] # "provider"
                    /\ stage'[s] = "return" => g \notin callee'[s]
    <3>1. ASSUME NEW minted \in BOOLEAN, invokeReturns(r, minted)
          PROVE  /\ \A t \in tokens' \ tokens : t.name # g
                 /\ stage' = [stage EXCEPT ![r] = "return"]
                 /\ g \notin callee'[r]
      BY <3>1 DEF invokeReturns, StillGranted
    <3>2. ASSUME invokeThrows(r)
          PROVE  tokens' = tokens /\ stage' = [stage EXCEPT ![r] = "throw"]
      BY <3>2 DEF invokeThrows
    <3>3. ASSUME scriptResumes(r) \/ scriptUnwinds(r)
          PROVE  tokens' = tokens /\ stage' = [stage EXCEPT ![r] = "none"]
      BY <3>3 DEF scriptResumes, scriptUnwinds
    <3>4. ASSUME NEW decodes \in BOOLEAN, runSettles(r, decodes)
          PROVE  tokens' = {} /\ stage' = stage
      BY <3>4 DEF runSettles
    <3> QED BY <2>4, <3>1, <3>2, <3>3, <3>4 DEF EventLoop
  <2> QED BY <2>1, <2>2, <2>3, <2>4 DEF Next
<1> QED BY <1>1, TypedInvariant, PTL DEF Spec, RevocationIsFinal

-----------------------------------------------------------------------------
(* The contract.                                                           *)

\* A script that delivered a value has ended; a call that was made has a callee.
Delivered ==
  \A r \in Run : /\ race[r] = "value" => script[r] = "ended"
                 /\ stage[r] \in {"provider", "settled"} => callee[r] # {}

LEMMA DeliveredInvariant == Spec => []Delivered
<1>1. Init => Delivered
  BY DEF Init, Delivered
<1>2. ASSUME Typed, Lifetimes, Delivered, [Next]_vars PROVE Delivered'
  <2> USE <1>2 DEF Typed, TypeOK, Delivered, runVars, callVars
  <2>1. CASE \E g \in Grants : revoke(g)
    BY <2>1 DEF revoke
  <2>2. CASE cancel
    BY <2>2 DEF cancel
  <2>3. ASSUME NEW P \in SUBSET Grants, run(P) PROVE Delivered'
    <3>1. started + 1 \in Run
      BY <2>3, MaxRunsAssumption DEF run
    <3>2. race[started + 1] = "none"
      BY <3>1 DEF Lifetimes, StacksAreLatest
    <3> QED BY <2>3, <3>1, <3>2 DEF run
  <2>4. CASE runRefused
    BY <2>4 DEF runRefused
  <2>5. ASSUME NEW r \in Run, NEW t \in tokens, NEW A \in Arguments,
               invoke(r, t, A)
        PROVE  Delivered'
    BY <2>5 DEF invoke
  <2>6. ASSUME NEW r \in Run, NEW counted \in BOOLEAN, invokeRefused(r, counted)
        PROVE  Delivered'
    BY <2>6 DEF invokeRefused
  <2>7. ASSUME NEW r \in Run, NEW how \in {"value", "fault"}, scriptEnds(r, how)
        PROVE  Delivered'
    BY <2>7 DEF scriptEnds, Ends
  <2>8. ASSUME NEW r \in Run, Provider(r) PROVE Delivered'
    BY <2>8 DEF Provider, ProviderResolves, ProviderRejects
  <2>9. ASSUME NEW r \in Run, EventLoop(r) PROVE Delivered'
    <3>1. CASE \E minted \in BOOLEAN : invokeReturns(r, minted)
      BY <3>1 DEF invokeReturns
    <3>2. CASE invokeThrows(r)
      BY <3>2 DEF invokeThrows
    <3>3. CASE scriptResumes(r)
      BY <3>3 DEF scriptResumes, Lifetimes, StacksAreLatest
    <3>4. CASE scriptUnwinds(r)
      BY <3>4 DEF scriptUnwinds, Ends
    <3>5. CASE \E decodes \in BOOLEAN : runSettles(r, decodes)
      BY <3>5 DEF runSettles
    <3> QED BY <2>9, <3>1, <3>2, <3>3, <3>4, <3>5 DEF EventLoop
  <2>10. CASE UNCHANGED vars
    BY <2>10 DEF vars
  <2> QED
    BY <2>1, <2>2, <2>3, <2>4, <2>5, <2>6, <2>7, <2>8, <2>9, <2>10
    DEF Next, Embedder, Timeout, Script
<1> QED BY <1>1, <1>2, TypedInvariant, LifetimesInvariant, PTL DEF Spec

\* Steps that change nothing the contract speaks of.
LEMMA Invisible ==
  ASSUME UNCHANGED <<retired, revoked, started, active, outcome, InFlight>>
  PROVE  UNCHANGED Contract!vars
BY DEF Contract!vars

\* The end of a provider's work, whatever it answers.
LEMMA WorkFinishes ==
  ASSUME Typed, Delivered, NEW r \in Run, Provider(r)
  PROVE  Contract!Finish(r)
<1> USE DEF Typed, TypeOK, Delivered, InFlight, Contract!Finish
<1>1. CASE ProviderResolves(r)
  BY <1>1 DEF ProviderResolves, runVars
<1>2. CASE ProviderRejects(r)
  BY <1>2 DEF ProviderRejects, runVars
<1> QED BY <1>1, <1>2 DEF Provider

\* An operation starts only for the open run, through a live grant.
LEMMA WorkStarts ==
  ASSUME Typed, Lifetimes, NEW r \in Run, NEW t \in tokens, NEW A \in Arguments,
         invoke(r, t, A)
  PROVE  t.name \in Grants /\ Contract!Start(t.name)
<1> USE DEF Typed, TypeOK, Lifetimes
<1>1. t.name \in Grants
  BY DEF Token
<1>2. active = r /\ ~retired
  BY DEF invoke, Live, ActiveIsLatest
<1>3. t.name \notin revoked
  BY DEF invoke, Granted
<1>4. InFlight[r] = {}
  BY DEF invoke, InFlight, StacksAreLatest
<1>5. InFlight' = [InFlight EXCEPT ![r] = {t.name}]
  BY DEF invoke, InFlight
<1>6. UNCHANGED <<retired, revoked, started, active, outcome>>
  BY DEF invoke, runVars
<1> QED BY <1>1, <1>2, <1>3, <1>4, <1>5, <1>6 DEF Contract!Start

\* A run settles with a value only in an open instance without work in flight.
LEMMA RunSettlesOnce ==
  ASSUME Typed, Lifetimes, Delivered, NEW r \in Run, NEW decodes \in BOOLEAN,
         runSettles(r, decodes)
  PROVE  \E how \in {"value", "failed"} : Contract!Settle(how)
<1> USE DEF Typed, TypeOK
<1> DEFINE how == IF race[r] = "value" /\ ~cancelled[r] /\ decodes
                  THEN "value" ELSE "failed"
<1>1. active = r /\ r # 0
  BY DEF runSettles
<1>2. how = "value" => ~retired /\ InFlight[r] = {}
  BY <1>1 DEF Lifetimes, ActiveIsLatest, StacksAreLatest, Delivered, InFlight
<1>3. outcome' = [outcome EXCEPT ![r] = how] /\ active' = 0
  BY DEF runSettles
<1>4. UNCHANGED <<retired, revoked, started, InFlight>>
  BY DEF runSettles, InFlight, runVars, callVars
<1> QED BY <1>1, <1>2, <1>3, <1>4 DEF Contract!Settle

(***************************************************************************)
(* The instance keeps the contract its embedders rely on: every step of     *)
(* runtime.mjs is a step of InvocationContract or is invisible to it.  So   *)
(* requests are served one at a time, a run settles once, operations start  *)
(* only for the open run through a live grant and never after a             *)
(* cancellation, and no run delivers a value while its call is going on.    *)
(***************************************************************************)
THEOREM InstanceKeepsContract == Spec => ImplementsContract
<1>1. Init => Contract!Init
  BY DEF Init, Contract!Init, InFlight
<1>2. ASSUME Typed, Lifetimes, Delivered, [Next]_vars
      PROVE  [Contract!Next]_(Contract!vars)
  <2> USE <1>2 DEF Contract!Next
  <2>1. ASSUME NEW g \in Grants, revoke(g) PROVE Contract!Next
    BY <2>1 DEF revoke, Contract!Revoke, InFlight, runVars, callVars
  <2>2. CASE cancel
    <3>1. retired' = TRUE /\ UNCHANGED <<revoked, started, active, outcome, InFlight>>
      BY <2>2 DEF cancel, InFlight, runVars, callVars
    <3>2. CASE retired
      <4>1. retired' = retired
        BY <3>1, <3>2
      <4> QED BY <3>1, <4>1, Invisible
    <3>3. CASE ~retired
      BY <3>1, <3>3 DEF Contract!Close
    <3> QED BY <3>2, <3>3
  <2>3. ASSUME NEW P \in SUBSET Grants, run(P) PROVE Contract!Next
    <3>1. started + 1 \in Run
      BY <2>3, MaxRunsAssumption DEF run, Typed, TypeOK
    <3> QED BY <2>3, <3>1 DEF run, Contract!Begin, InFlight, callVars
  <2>4. CASE runRefused
    <3>1. started + 1 \in Run
      BY <2>4, MaxRunsAssumption DEF runRefused, Typed, TypeOK
    <3>2. retired' \in BOOLEAN
      BY <2>4 DEF runRefused, Typed, TypeOK
    <3> QED BY <2>4, <3>1, <3>2 DEF runRefused, Contract!Refuse, InFlight, callVars
  <2>5. ASSUME NEW r \in Run, Script(r) PROVE [Contract!Next]_(Contract!vars)
    <3>1. ASSUME NEW t \in tokens, NEW A \in Arguments, invoke(r, t, A)
          PROVE  Contract!Next
      BY <3>1, WorkStarts
    <3>2. ASSUME NEW counted \in BOOLEAN, invokeRefused(r, counted)
          PROVE  UNCHANGED Contract!vars
      <4>1. InFlight' = InFlight
        BY <3>2 DEF invokeRefused, InFlight, Typed, TypeOK, Lifetimes, StacksAreLatest
      <4> QED BY <3>2, <4>1, Invisible DEF invokeRefused, runVars
    <3>3. ASSUME NEW how \in {"value", "fault"}, scriptEnds(r, how)
          PROVE  UNCHANGED Contract!vars
      BY <3>3, Invisible DEF scriptEnds, InFlight, runVars, callVars
    <3> QED BY <2>5, <3>1, <3>2, <3>3 DEF Script
  <2>6. ASSUME NEW r \in Run, Provider(r) PROVE Contract!Next
    BY <2>6, WorkFinishes
  <2>7. ASSUME NEW r \in Run, EventLoop(r) PROVE [Contract!Next]_(Contract!vars)
    <3>1. ASSUME NEW to \in {"return", "throw", "none"},
                 stage[r] \in {"settled", "return", "throw"},
                 stage' = [stage EXCEPT ![r] = to], callee' = callee
          PROVE  InFlight' = InFlight
      BY <3>1 DEF InFlight, Typed, TypeOK
    <3>2. CASE \E minted \in BOOLEAN : invokeReturns(r, minted)
      BY <3>1, <3>2, Invisible DEF invokeReturns, runVars
    <3>3. CASE invokeThrows(r)
      BY <3>1, <3>3, Invisible DEF invokeThrows, runVars
    <3>4. CASE scriptResumes(r)
      BY <3>1, <3>4, Invisible DEF scriptResumes, runVars
    <3>5. CASE scriptUnwinds(r)
      BY <3>1, <3>5, Invisible DEF scriptUnwinds, runVars
    <3>6. ASSUME NEW decodes \in BOOLEAN, runSettles(r, decodes)
          PROVE  Contract!Next
      BY <3>6, RunSettlesOnce
    <3> QED BY <2>7, <3>2, <3>3, <3>4, <3>5, <3>6 DEF EventLoop
  <2>8. CASE UNCHANGED vars
    BY <2>8, Invisible DEF vars, InFlight
  <2> QED
    BY <2>1, <2>2, <2>3, <2>4, <2>5, <2>6, <2>7, <2>8
    DEF Next, Embedder, Timeout
<1> QED
  BY <1>1, <1>2, TypedInvariant, LifetimesInvariant, DeliveredInvariant, PTL
  DEF Spec, ImplementsContract, Contract!Spec

-----------------------------------------------------------------------------
(* THE SANDBOX                                                             *)

USE DEF Request, InitRequest, Nothing

-----------------------------------------------------------------------------
(* The two ports are queues.                                               *)

LEMMA Dequeue ==
  ASSUME NEW M, NEW q \in Seq(M), q # << >>
  PROVE  /\ Len(q) \in Nat \ {0}
         /\ Head(q) = q[1] /\ Head(q) \in M
         /\ Tail(q) \in Seq(M) /\ Len(Tail(q)) = Len(q) - 1
         /\ \A i \in 1..Len(Tail(q)) : Tail(q)[i] = q[i + 1]
BY HeadTailProperties, EmptySeq

LEMMA Enqueue ==
  ASSUME NEW M, NEW q \in Seq(M), NEW m \in M
  PROVE  /\ Append(q, m) \in Seq(M)
         /\ Len(q) \in Nat /\ Len(Append(q, m)) = Len(q) + 1
         /\ \A i \in 1..Len(q) : Append(q, m)[i] = q[i]
         /\ Append(q, m)[Len(q) + 1] = m
BY AppendProperties, LenProperties

\* What the host posts, and what the worker sends.
WorkerMessage ==
  [type : {"init"}]
    \cup [type : {"run"}, req : Request]
    \cup [type : {"revoke"}, name : Grants]
    \cup [type : {"reply"}, run : Run, serial : 1..HostCalls,
          got : [kind : Result, late : BOOLEAN]]

HostMessage ==
  [type : {"answer"}, req : 0..MaxRequests, how : {"value", "failed"}]
    \cup [type : {"invoke"}, run : Run, serial : 1..HostCalls, on : Token,
          args : SUBSET Token]

\* STypeOK without the instance and without the limit on the broker's counter,
\* with the types of the ports.
Ports ==
  /\ ready \in BOOLEAN /\ closed \in BOOLEAN
  /\ busy \in BOOLEAN /\ up \in BOOLEAN
  /\ request \in 0..MaxRequests /\ (busy => request \in Request)
  /\ waiter \in 0..Nothing
  /\ settled \in [Request -> {"none", "value", "failed"}]
  /\ haborted \in [0..MaxRequests -> BOOLEAN]
  /\ hrevoked \subseteq Grants
  /\ hcalls \in Nat
  /\ resources \subseteq Resource
  /\ ops \subseteq Op
  /\ serving \in [Run -> 0..MaxRequests]
  /\ got \in [Run -> [kind : Result, late : BOOLEAN]]
  /\ lost \subseteq Run
  /\ toWorker \in Seq(WorkerMessage)
  /\ toHost \in Seq(HostMessage)

LEMMA PortsInitially ==
  ASSUME SInit
  PROVE  Ports
<1>1. [type |-> "init"] \in WorkerMessage
  BY DEF WorkerMessage
<1>2. toWorker \in Seq(WorkerMessage) /\ toHost \in Seq(HostMessage)
  BY <1>1 DEF SInit
<1>3. /\ haborted \in [0..MaxRequests -> BOOLEAN]
      /\ ready \in BOOLEAN /\ closed \in BOOLEAN
      /\ busy \in BOOLEAN /\ up \in BOOLEAN
  BY DEF SInit
<1>4. got \in [Run -> [kind : Result, late : BOOLEAN]]
  BY DEF SInit, Result
<1>5. /\ request \in 0..MaxRequests /\ waiter \in 0..Nothing /\ ~busy
      /\ settled \in [Request -> {"none", "value", "failed"}]
      /\ hrevoked \subseteq Grants /\ hcalls \in Nat
      /\ resources \subseteq Resource /\ ops \subseteq Op
      /\ serving \in [Run -> 0..MaxRequests] /\ lost \subseteq Run
  BY MaxRequestsAssumption DEF SInit
<1> QED BY <1>2, <1>3, <1>4, <1>5 DEF Ports

-----------------------------------------------------------------------------
(* The instance in the worker.                                             *)

\* What a message is, by its type.
LEMMA MessageFields ==
  /\ \A m \in WorkerMessage :
       /\ m.type = "run" => m.req \in Request
       /\ m.type = "revoke" => m.name \in Grants
       /\ m.type = "reply" => /\ m.run \in Run /\ m.serial \in 1..HostCalls
                              /\ m.got.kind \in Result
                              /\ m.got.late \in BOOLEAN
                              /\ m.got \in [kind : Result,
                                            late : BOOLEAN]
  /\ \A m \in HostMessage :
       /\ m.type \in {"answer", "invoke"}
       /\ m.type = "answer" => m.req \in 0..MaxRequests /\ m.how \in {"value", "failed"}
       /\ m.type = "invoke" => /\ m.run \in Run /\ m.serial \in 1..HostCalls
                               /\ m.on \in Token /\ m.args \subseteq Token
                               /\ m.on.name \in Grants
<1>1. ASSUME NEW m \in WorkerMessage
      PROVE  /\ m.type = "run" => m.req \in Request
             /\ m.type = "revoke" => m.name \in Grants
  BY DEF WorkerMessage
<1>2. ASSUME NEW m \in WorkerMessage, m.type = "reply"
      PROVE  /\ m.run \in Run /\ m.serial \in 1..HostCalls
             /\ m.got \in [kind : Result, late : BOOLEAN]
  BY <1>2 DEF WorkerMessage
<1>3. ASSUME NEW m \in HostMessage
      PROVE  /\ m.type \in {"answer", "invoke"}
             /\ m.type = "answer" => m.req \in 0..MaxRequests /\ m.how \in {"value", "failed"}
             /\ m.type = "invoke" => /\ m.run \in Run /\ m.serial \in 1..HostCalls
                                     /\ m.on \in Token /\ m.args \subseteq Token
  BY DEF HostMessage
<1>4. \A t \in Token : t.name \in Grants
  BY DEF Token
<1>5. \A x \in [kind : Result, late : BOOLEAN] :
        x.kind \in Result /\ x.late \in BOOLEAN
  OBVIOUS
<1> QED BY <1>1, <1>2, <1>3, <1>4, <1>5

LEMMA Taken ==
  ASSUME Ports, NEW type, Takes(type)
  PROVE  /\ up /\ Idle /\ toWorker # << >>
         /\ Head(toWorker) = toWorker[1] /\ Head(toWorker) \in WorkerMessage
         /\ toWorker[1].type = type
         /\ Len(toWorker) \in Nat \ {0} /\ Len(toWorker') = Len(toWorker) - 1
         /\ toWorker' \in Seq(WorkerMessage)
         /\ \A i \in 1..Len(toWorker') : toWorker'[i] = toWorker[i + 1]
BY Dequeue DEF Takes, Ports

LEMMA WorkerIsInstance ==
  ASSUME Ports, [SNext]_svars
  PROVE  [Next]_vars
<1>1. CASE HostTask
  BY <1>1 DEF HostTask, deadline, workerExited, hfinish, receiveInvoke, receiveDenied,
              receiveAnswer, receiveReady, receiveInitError, stop, Stop
<1>2. CASE HostEmbedder
  BY <1>2 DEF HostEmbedder, close, stop, Stop, hrun, hrunUncloneable, hrevoke, opSettles
<1>3. CASE Worker
  <2>1. CASE workerInit \/ workerRunRejected \/ workerDies
    BY <2>1 DEF workerInit, workerRunRejected, workerDies
  <2>2. CASE \E P \in SUBSET Grants : workerRun(P)
    BY <2>2 DEF workerRun, Next, Embedder
  <2>3. CASE workerRunRefused
    BY <2>3 DEF workerRunRefused, Next, Embedder
  <2>4. CASE workerReply
    <3>1. toWorker[1] \in WorkerMessage /\ toWorker[1].type = "reply"
          /\ Head(toWorker) = toWorker[1]
      BY <2>4, Taken DEF workerReply
    <3>2. PICK r \in Run : r = toWorker[1].run
      BY <3>1, MessageFields
    <3>3. UNCHANGED vars \/ ProviderRejects(r) \/ ProviderResolves(r)
      BY <2>4, <3>1, <3>2 DEF workerReply
    <3> QED BY <3>3 DEF Next, Provider
  <2>5. CASE workerRevoke
    <3>1. toWorker[1] \in WorkerMessage /\ toWorker[1].type = "revoke"
          /\ Head(toWorker) = toWorker[1]
      BY <2>5, Taken DEF workerRevoke
    <3>2. toWorker[1].name \in Grants
      BY <3>1, MessageFields
    <3> QED BY <2>5, <3>1, <3>2 DEF workerRevoke, Next, Embedder
  <2>6. CASE workerTimeout
    BY <2>6 DEF workerTimeout, Next
  <2>7. ASSUME NEW r \in Run, NEW t \in tokens, NEW A \in Arguments,
               workerInvoke(r, t, A)
        PROVE  Next
    BY <2>7 DEF workerInvoke, Next, Script
  <2>8. ASSUME NEW r \in Run, workerInternal(r) PROVE Next
    <3>1. (got[r].kind = "resource") \in BOOLEAN
      OBVIOUS
    <3> QED BY <2>8, <3>1 DEF workerInternal, Next, Script, EventLoop
  <2>9. ASSUME NEW r \in Run, NEW decodes \in BOOLEAN, workerSettles(r, decodes)
        PROVE  Next
    BY <2>9 DEF workerSettles, Next, EventLoop
  <2> QED BY <1>3, <2>1, <2>2, <2>3, <2>4, <2>5, <2>6, <2>7, <2>8, <2>9 DEF Worker
<1>4. CASE UNCHANGED svars
  BY <1>4 DEF svars
<1> QED BY <1>1, <1>2, <1>3, <1>4 DEF SNext

\* Posting keeps the port to the worker a queue of messages.
LEMMA Posted ==
  ASSUME Ports, NEW m \in WorkerMessage, Post(m)
  PROVE  /\ toWorker' \in Seq(WorkerMessage)
         /\ ~up => toWorker' = toWorker
         /\ up => /\ Len(toWorker') = Len(toWorker) + 1
                  /\ \A i \in 1..Len(toWorker) : toWorker'[i] = toWorker[i]
                  /\ toWorker'[Len(toWorker) + 1] = m
BY Enqueue DEF Post, Ports

LEMMA Sent ==
  ASSUME Ports, NEW m \in HostMessage, Send(m)
  PROVE  /\ toHost' \in Seq(HostMessage)
         /\ Len(toHost') = Len(toHost) + 1
         /\ \A i \in 1..Len(toHost) : toHost'[i] = toHost[i]
         /\ toHost'[Len(toHost) + 1] = m
BY Enqueue DEF Send, Ports

LEMMA Received ==
  ASSUME Ports, NEW type, Receives(type)
  PROVE  /\ ~closed /\ ~(busy /\ waiter = Nothing)
         /\ Head(toHost) = toHost[1] /\ toHost[1] \in HostMessage
         /\ toHost[1].type = type
         /\ Len(toHost) \in Nat \ {0} /\ Len(toHost') = Len(toHost) - 1
         /\ toHost' \in Seq(HostMessage)
         /\ \A i \in 1..Len(toHost') : toHost'[i] = toHost[i + 1]
BY Dequeue DEF Receives, Ports

\* Every message that is made is one the ports carry.
LEMMA MessageMade ==
  /\ \A q \in Request : [type |-> "run", req |-> q] \in WorkerMessage
  /\ \A g \in Grants : [type |-> "revoke", name |-> g] \in WorkerMessage
  /\ \A r \in Run, n \in 1..HostCalls,
        x \in [kind : Result, late : BOOLEAN] :
       [type |-> "reply", run |-> r, serial |-> n, got |-> x] \in WorkerMessage
  /\ \A q \in 0..MaxRequests, how \in {"value", "failed"} :
       Answer(q, how) \in HostMessage
  /\ \A r \in Run, n \in 1..HostCalls, t \in Token, A \in SUBSET Token :
       [type |-> "invoke", run |-> r, serial |-> n, on |-> t, args |-> A]
         \in HostMessage
BY DEF WorkerMessage, HostMessage, Answer

LEMMA RepliesMade ==
  /\ \A r \in Run, n \in 1..HostCalls, k \in Result : \A g :
       [type |-> "reply", run |-> r, serial |-> n,
        got |-> [kind |-> k, late |-> g \in hrevoked]] \in WorkerMessage
  /\ \A m \in HostMessage : m.type = "invoke" => ErrorReply(m) \in WorkerMessage
<1>1. \A k \in Result : \A g :
        [kind |-> k, late |-> g \in hrevoked]
          \in [kind : Result, late : BOOLEAN]
  OBVIOUS
<1>2. \A r \in Run, n \in 1..HostCalls, k \in Result : \A g :
        [type |-> "reply", run |-> r, serial |-> n,
         got |-> [kind |-> k, late |-> g \in hrevoked]] \in WorkerMessage
  BY <1>1, MessageMade
<1> QED BY <1>2, MessageFields DEF ErrorReply, Result

\* A call the import accepts is one the proxy can send.
LEMMA InvokeMade ==
  ASSUME Typed, NEW r \in Run, NEW t \in tokens, NEW A \in Arguments,
         invoke(r, t, A)
  PROVE  [type |-> "invoke", run |-> r, serial |-> calls[r] + 1, on |-> t,
          args |-> A] \in HostMessage
<1>1. calls[r] \in 0..HostCalls + 1 /\ calls[r] < HostCalls
  BY DEF Typed, TypeOK, invoke
<1>2. calls[r] + 1 \in 1..HostCalls
  BY <1>1, HostCallsAssumption
<1>3. t \in Token /\ A \subseteq Token
  BY DEF Typed, TypeOK, Arguments
<1> QED BY <1>2, <1>3, MessageMade

LEMMA SettledTyped ==
  ASSUME Ports, NEW q, NEW how \in {"value", "failed"}, SettleAs(q, how)
  PROVE  settled' \in [Request -> {"none", "value", "failed"}]
BY DEF SettleAs, Ports

\* stop() for the request q, whatever else its caller does.
LEMMA StopTyped ==
  ASSUME Ports, NEW q \in 0..MaxRequests, Stop(q)
  PROVE  /\ closed' \in BOOLEAN /\ up' \in BOOLEAN
         /\ haborted' \in [0..MaxRequests -> BOOLEAN]
         /\ waiter' \in 0..Nothing
         /\ serving' = serving /\ got' = got /\ lost' = lost
         /\ toWorker' \in Seq(WorkerMessage) /\ toHost' \in Seq(HostMessage)
<1>1. toWorker' \in Seq(WorkerMessage) /\ toHost' \in Seq(HostMessage)
  BY DEF Stop
<1>2. haborted' \in [0..MaxRequests -> BOOLEAN]
  BY DEF Stop, Ports
<1>3. closed' \in BOOLEAN /\ up' \in BOOLEAN
  BY DEF Stop
<1>4. /\ waiter' \in 0..Nothing
      /\ serving' = serving /\ got' = got /\ lost' = lost
  BY MaxRequestsAssumption DEF Stop
<1> QED BY <1>1, <1>2, <1>3, <1>4

LEMMA PortsPreservedByHost ==
  ASSUME Ports, HostTask \/ HostEmbedder
  PROVE  Ports'
<1> USE DEF workerVars
<1>1. CASE stop
  <2>1. request \in 0..MaxRequests
    BY DEF Ports
  <2>2. settled' \in [Request -> {"none", "value", "failed"}]
    BY <1>1, SettledTyped DEF stop
  <2> QED BY <1>1, <2>1, <2>2, StopTyped DEF stop, Ports
<1>2. CASE hrun
  <2>1. request + 1 \in Request
    BY <1>2, MaxRequestsAssumption DEF hrun, Opens, Ports
  <2>2. toWorker' \in Seq(WorkerMessage)
    BY <1>2, <2>1, Posted, MessageMade DEF hrun
  <2>3. /\ request' \in 0..MaxRequests /\ request' \in Request
        /\ waiter' \in 0..Nothing
        /\ hcalls' \in Nat /\ busy' \in BOOLEAN /\ resources' \subseteq Resource
    BY <1>2, <2>1, MaxRequestsAssumption DEF hrun, Opens, Ports
  <2> QED BY <1>2, <2>2, <2>3 DEF hrun, Ports
<1>3. CASE hrunUncloneable
  <2>1. request + 1 \in Request /\ request + 1 \in 0..MaxRequests
    BY <1>3, MaxRequestsAssumption DEF hrunUncloneable, Opens, Ports
  <2>2. settled' \in [Request -> {"none", "value", "failed"}]
    BY <1>3, SettledTyped DEF hrunUncloneable
  <2>3. /\ request' \in 0..MaxRequests /\ request' \in Request
        /\ hcalls' \in Nat /\ busy' \in BOOLEAN
        /\ resources' \subseteq Resource
    BY <1>3, <2>1 DEF hrunUncloneable, Opens
  <2> QED BY <1>3, <2>1, <2>2, <2>3, StopTyped DEF hrunUncloneable, Ports
<1>4. CASE hfinish
  BY <1>4 DEF hfinish, Ports
<1>5. ASSUME NEW g \in Grants, hrevoke(g) PROVE Ports'
  <2>1. toWorker' \in Seq(WorkerMessage)
    BY <1>5, Posted, MessageMade DEF hrevoke
  <2> QED BY <1>5, <2>1 DEF hrevoke, Ports
<1>6. CASE receiveInvoke
  <2> DEFINE m == Head(toHost)
  <2>1. m \in HostMessage /\ m.type = "invoke" /\ toHost' \in Seq(HostMessage)
        /\ ~closed
    BY <1>6, Received DEF receiveInvoke
  <2>2. m.run \in Run /\ m.serial \in 1..HostCalls /\ m.on.name \in Grants
    BY <2>1, MessageFields
  <2>3. hcalls' \in Nat
    BY <1>6 DEF receiveInvoke, Ports
  <2>4. ops' \subseteq Op
    BY <1>6, <2>2 DEF receiveInvoke, Admissible, Ports, Op
  <2> QED BY <1>6, <2>1, <2>3, <2>4 DEF receiveInvoke, Ports
<1>7. CASE receiveDenied
  <2>1. Head(toHost) \in HostMessage /\ Head(toHost).type = "invoke"
        /\ toHost' \in Seq(HostMessage)
    BY <1>7, Received DEF receiveDenied
  <2>2. toWorker' \in Seq(WorkerMessage)
    BY <1>7, <2>1, Posted, RepliesMade DEF receiveDenied
  <2>3. hcalls' \in Nat
    BY <1>7 DEF receiveDenied, Ports
  <2> QED BY <1>7, <2>1, <2>2, <2>3 DEF receiveDenied, Ports
<1>8. ASSUME NEW o \in ops, NEW kind \in Result,
             opSettles(o, kind)
      PROVE  Ports'
  <2>1. o.run \in Run /\ o.serial \in 1..HostCalls /\ o.name \in Grants
    BY DEF Ports, Op
  <2>2. toWorker' \in Seq(WorkerMessage)
    <3>1. CASE closed
      BY <1>8, <3>1 DEF opSettles, Ports
    <3>2. CASE ~closed
      BY <1>8, <2>1, <3>2, Posted, RepliesMade DEF opSettles
    <3> QED BY <3>1, <3>2
  <2>3. Issue(o) \in Resource
    BY <2>1 DEF Issue, Resource
  <2>4. resources' \subseteq resources \cup {Issue(o)}
    BY <1>8 DEF opSettles
  <2> QED BY <1>8, <2>2, <2>3, <2>4 DEF opSettles, Ports
<1>9. CASE receiveAnswer
  <2>1. Head(toHost).how \in {"value", "failed"} /\ toHost' \in Seq(HostMessage)
    BY <1>9, Received, MessageFields DEF receiveAnswer
  <2>2. settled' \in [Request -> {"none", "value", "failed"}]
    BY <1>9, <2>1, SettledTyped DEF receiveAnswer
  <2> QED BY <1>9, <2>1, <2>2, MaxRequestsAssumption DEF receiveAnswer, Ports
<1>10. CASE receiveReady
  <2>1. toHost' \in Seq(HostMessage)
    BY <1>10, Received DEF receiveReady
  <2> QED BY <1>10, <2>1, MaxRequestsAssumption DEF receiveReady, Ports
<1> QED
  BY <1>1, <1>2, <1>3, <1>4, <1>5, <1>6, <1>7, <1>8, <1>9, <1>10
  DEF HostTask, HostEmbedder, close, deadline, workerExited, receiveInitError

LEMMA PortsPreservedByWorker ==
  ASSUME Typed, Ports, Worker
  PROVE  Ports'
<1> USE DEF hostVars, workerVars
<1>1. CASE workerInit
  <2>1. toWorker' \in Seq(WorkerMessage)
    BY <1>1, Taken DEF workerInit
  <2>2. toHost' \in Seq(HostMessage)
    BY <1>1, Sent, MessageMade, MaxRequestsAssumption DEF workerInit
  <2> QED BY <1>1, <2>1, <2>2 DEF workerInit, Ports
<1>2. ASSUME NEW P \in SUBSET Grants, workerRun(P) PROVE Ports'
  <2>1. toWorker' \in Seq(WorkerMessage) /\ Head(toWorker).req \in 0..MaxRequests
    BY <1>2, Taken, MessageFields DEF workerRun
  <2> QED BY <1>2, <2>1 DEF workerRun, Ports
<1>3. CASE workerRunRefused
  <2>1. toWorker' \in Seq(WorkerMessage) /\ Head(toWorker).req \in 0..MaxRequests
    BY <1>3, Taken, MessageFields DEF workerRunRefused
  <2>2. toHost' \in Seq(HostMessage)
    BY <1>3, <2>1, Sent, MessageMade DEF workerRunRefused
  <2> QED BY <1>3, <2>1, <2>2 DEF workerRunRefused, Ports
<1>4. CASE workerRunRejected
  <2>1. toWorker' \in Seq(WorkerMessage) /\ Head(toWorker).req \in 0..MaxRequests
    BY <1>4, Taken, MessageFields DEF workerRunRejected
  <2>2. toHost' \in Seq(HostMessage)
    BY <1>4, <2>1, Sent, MessageMade DEF workerRunRejected
  <2> QED BY <1>4, <2>1, <2>2 DEF workerRunRejected, Ports
<1>5. CASE workerReply
  <2>1. /\ toWorker' \in Seq(WorkerMessage) /\ Head(toWorker).run \in Run
        /\ Head(toWorker).got \in [kind : Result, late : BOOLEAN]
    BY <1>5, Taken, MessageFields DEF workerReply
  <2>2. serving[Head(toWorker).run] \in 0..MaxRequests
    BY <2>1 DEF Ports
  <2>3. toHost' \in Seq(HostMessage)
    BY <1>5, <2>2, Sent, MessageMade DEF workerReply, Ports
  <2>4. lost' \subseteq Run
    BY <1>5, <2>1 DEF workerReply, Ports
  <2>5. got' \in [Run -> [kind : Result, late : BOOLEAN]]
    BY <1>5, <2>1 DEF workerReply, Ports
  <2> QED BY <1>5, <2>1, <2>3, <2>4, <2>5 DEF workerReply, Ports
<1>6. CASE workerRevoke
  <2>1. toWorker' \in Seq(WorkerMessage)
    BY <1>6, Taken DEF workerRevoke
  <2> QED BY <1>6, <2>1 DEF workerRevoke, Ports
<1>7. CASE workerTimeout
  BY <1>7 DEF workerTimeout, Ports
<1>8. CASE workerDies
  <2>1. up' \in BOOLEAN
    BY <1>8 DEF workerDies
  <2>2. toWorker' \in Seq(WorkerMessage)
    BY <1>8, EmptySeq DEF workerDies
  <2> QED BY <1>8, <2>1, <2>2 DEF workerDies, Ports
<1>9. ASSUME NEW r \in Run, NEW t \in tokens, NEW A \in Arguments,
             workerInvoke(r, t, A)
      PROVE  Ports'
  <2>1. toHost' \in Seq(HostMessage)
    BY <1>9, Sent, InvokeMade DEF workerInvoke
  <2> QED BY <1>9, <2>1 DEF workerInvoke, Ports
<1>10. ASSUME NEW r \in Run, workerInternal(r) PROVE Ports'
  BY <1>10 DEF workerInternal, Ports
<1>11. ASSUME NEW r \in Run, NEW decodes \in BOOLEAN, workerSettles(r, decodes)
       PROVE  Ports'
  <2>1. outcome'[r] \in {"value", "failed"}
    BY <1>11 DEF workerSettles, runSettles, Typed, TypeOK
  <2>2. serving[r] \in 0..MaxRequests
    BY DEF Ports
  <2>3. toHost' \in Seq(HostMessage)
    BY <1>11, <2>1, <2>2, Sent, MessageMade DEF workerSettles
  <2> QED BY <1>11, <2>3 DEF workerSettles, Ports
<1> QED
  BY <1>1, <1>2, <1>3, <1>4, <1>5, <1>6, <1>7, <1>8, <1>9, <1>10, <1>11 DEF Worker

LEMMA PortsInvariant == SSpec => [](Typed /\ Ports)
<1>1. SInit => Typed /\ Ports
  BY TypedInitially, PortsInitially DEF SInit
<1>2. Typed /\ Ports /\ [SNext]_svars => (Typed /\ Ports)'
  <2> SUFFICES ASSUME Typed, Ports, [SNext]_svars PROVE Typed' /\ Ports'
    OBVIOUS
  <2>1. Typed'
    BY WorkerIsInstance, TypedPreserved
  <2>2. ASSUME UNCHANGED svars PROVE Ports'
    BY <2>2 DEF svars, hostVars, workerVars, Ports
  <2> QED
    BY <2>1, <2>2, PortsPreservedByHost, PortsPreservedByWorker DEF SNext
<1> QED BY <1>1, <1>2, PTL DEF SSpec

(***************************************************************************)
(* The instance behind the worker's message loop behaves as an instance     *)
(* that an embedder drives: whatever the host posts and in whatever order,  *)
(* worker.mjs only takes steps of runtime.mjs.                              *)
(***************************************************************************)
THEOREM WorkerRunsInstance == SSpec => Spec
<1>1. SInit => Init
  BY DEF SInit
<1>2. Ports /\ [SNext]_svars => [Next]_vars
  BY WorkerIsInstance
<1> QED BY <1>1, <1>2, PortsInvariant, PTL DEF SSpec, Spec

-----------------------------------------------------------------------------
(* The protocol between broker and worker: its inductive invariant.        *)

\* What is known of the instance, which WorkerRunsInstance carries over.
InstanceInv == Typed /\ Lifetimes /\ Delivered /\ AuthorityConfined

\* The host is starting, free, serving one request, or closed.
HostStates ==
  /\ waiter = InitRequest => ~ready /\ ~busy /\ ~closed /\ request = 0
  /\ waiter \in Request => ready /\ busy /\ ~closed /\ waiter = request
  /\ waiter = Nothing => ready \/ closed
  /\ busy => ready
  /\ closed => ~up /\ toHost = << >>
  /\ ~up => toWorker = << >>

Asks(m) == m.type \in {"init", "run"}

NoReply == \A i \in 1..Len(toWorker) : toWorker[i].type # "reply"

(***************************************************************************)
(* What the host waits for is in one place: in a message to the worker, in  *)
(* the active run of the instance, or in the answer, behind which the       *)
(* worker sends nothing.  The broker has counted at most the calls that the *)
(* instance has.                                                            *)
(***************************************************************************)
RequestPlace ==
  /\ \A i \in 1..Len(toWorker) : Asks(toWorker[i]) =>
       /\ toHost = << >> /\ active = NoRun
       /\ toWorker[i].type = "init" => waiter = InitRequest
       /\ toWorker[i].type = "run" => waiter = toWorker[i].req /\ hcalls = 0
       /\ \A j \in 1..Len(toWorker) : Asks(toWorker[j]) => i = j
  /\ active # NoRun /\ ~closed =>
       waiter \in Request /\ serving[active] = waiter /\ hcalls <= calls[active]
  /\ \A i \in 1..Len(toHost) : toHost[i].type = "answer" =>
       /\ toHost[i].req = waiter /\ i = Len(toHost) /\ active = NoRun
       /\ toHost[i].how = "value" /\ waiter \in Request => i = 1 /\ ops = {} /\ NoReply

(***************************************************************************)
(* The call a script is suspended in is in one place: in a message to the   *)
(* host, in an operation of a provider, or in the reply.                    *)
(***************************************************************************)
CallPlace ==
  /\ hcalls <= HostCalls
  /\ \A i \in 1..Len(toHost) : toHost[i].type = "invoke" =>
       /\ i = 1 /\ Pending(toHost[i].run, toHost[i].serial)
       /\ callee[toHost[i].run] = {toHost[i].on.name}
       /\ waiter \in Request /\ serving[toHost[i].run] = waiter
       /\ hcalls < toHost[i].serial
       /\ ops = {} /\ NoReply
  /\ \A o \in ops : /\ Pending(o.run, o.serial) /\ callee[o.run] = {o.name}
                    /\ serving[o.run] = o.req /\ NoReply
  /\ \A i \in 1..Len(toWorker) : toWorker[i].type = "reply" =>
       /\ Pending(toWorker[i].run, toWorker[i].serial)
       /\ \A j \in 1..Len(toWorker) : toWorker[j].type = "reply" => i = j

\* The worker knows that g is revoked, or will before it takes its message n.
Told(g, n) ==
  \/ g \in revoked
  \/ \E j \in 1..Len(toWorker) :
       j < n /\ toWorker[j].type = "revoke" /\ toWorker[j].name = g

(***************************************************************************)
(* Revocations reach the worker before the results they come too late for.  *)
(***************************************************************************)
RevocationTold ==
  /\ up => \A g \in hrevoked : Told(g, Len(toWorker) + 1)
  /\ \A i \in 1..Len(toWorker) :
       toWorker[i].type = "reply" /\ toWorker[i].got.late =>
         \A g \in callee[toWorker[i].run] : Told(g, i)
  /\ \A r \in Run : stage[r] = "settled" /\ got[r].late => callee[r] \subseteq revoked
  /\ LateResultsDropped

\* The resource that the call of run r returned.
Derived(r) == [run : {r}, serial : {calls[r]}, name : callee[r]]

(***************************************************************************)
(* A resource for the active run is in the broker's table before its reply  *)
(* is sent and stays there: the table is emptied between runs only.         *)
(***************************************************************************)
ResourceKnown ==
  /\ \A i \in 1..Len(toWorker) :
       /\ toWorker[i].type = "reply" /\ toWorker[i].got.kind = "resource"
       /\ toWorker[i].run = active
       => Derived(active) \subseteq resources
  /\ ~closed => \A r \in Run :
       stage[r] = "settled" /\ got[r].kind = "resource" /\ active = r
         => Derived(r) \subseteq resources
  /\ ResourcesHonoured

\* The signal of an operation whose request is over was aborted.
OpsAborted ==
  \A o \in ops : o.req # request \/ ~busy \/ closed => haborted[o.req]

Protocol ==
  /\ HostStates /\ RequestPlace /\ CallPlace
  /\ RevocationTold /\ ResourceKnown /\ OpsAborted

LEMMA ProtocolInitially ==
  ASSUME SInit
  PROVE  Protocol
<1>1. Len(toWorker) = 1 /\ toWorker[1] = [type |-> "init"] /\ Len(toHost) = 0
  BY DEF SInit
<1>2. HostStates /\ RequestPlace
  BY <1>1, MaxRequestsAssumption DEF SInit, Init, HostStates, RequestPlace, Asks
<1>3. CallPlace /\ OpsAborted
  BY <1>1, HostCallsAssumption DEF SInit, CallPlace, OpsAborted
<1>4. RevocationTold /\ ResourceKnown
  BY <1>1 DEF SInit, Init, RevocationTold, ResourceKnown, LateResultsDropped,
              ResourcesHonoured
<1> QED BY <1>2, <1>3, <1>4 DEF Protocol

-----------------------------------------------------------------------------
(* What the instance adds to it.                                           *)

\* Only the latest run can be suspended in a call, and no script runs then.
LEMMA OneCall ==
  ASSUME InstanceInv
  PROVE  /\ \A r \in Run : stage[r] # "none" =>
              r = started /\ script[r] = "suspended"
         /\ \A r \in Run : script[r] = "running" =>
              r = started /\ \A s \in Run : stage[s] = "none"
BY DEF InstanceInv, Lifetimes, StacksAreLatest, Unfinished, Typed, TypeOK

\* Between runs there are no tokens.
LEMMA NoTokensBetweenRuns ==
  ASSUME InstanceInv, active = NoRun
  PROVE  tokens = {}
BY DEF InstanceInv, AuthorityConfined, Typed, TypeOK, Token

-----------------------------------------------------------------------------
(* Steps of the host.                                                      *)

\* Whatever stops the worker: the ports are empty and all signals aborted.
LEMMA StopKeepsProtocol ==
  ASSUME InstanceInv, Ports, Protocol, NEW q \in 0..MaxRequests, Stop(q),
         request' = q, ops' = ops, busy' => ready', hcalls' <= HostCalls,
         \A o \in ops : o.req # q => haborted[o.req]
  PROVE  Protocol'
<1>1. Len(toWorker') = 0 /\ Len(toHost') = 0
  BY DEF Stop
<1>2. closed' = TRUE /\ up' = FALSE /\ waiter' = Nothing
  BY DEF Stop
<1>3. HostStates' /\ RequestPlace'
  BY <1>1, <1>2, MaxRequestsAssumption DEF Stop, HostStates, RequestPlace
<1>4. CallPlace'
  BY <1>1 DEF Stop, vars, Protocol, CallPlace, NoReply, Pending
<1>5. RevocationTold'
  BY <1>1, <1>2 DEF Stop, vars, Protocol, RevocationTold, LateResultsDropped
<1>6. ResourceKnown'
  BY <1>1, <1>2 DEF ResourceKnown, ResourcesHonoured
<1>7. OpsAborted'
  BY DEF Stop, Ports, OpsAborted, Op
<1> QED BY <1>3, <1>4, <1>5, <1>6, <1>7 DEF Protocol

LEMMA StopStep ==
  ASSUME InstanceInv, Ports, Protocol, stop
  PROVE  Protocol'
<1>1. request \in 0..MaxRequests
  BY DEF Ports
<1>2. \A o \in ops : o.req # request => haborted[o.req]
  BY DEF Protocol, OpsAborted
<1>3. busy' => ready'
  BY DEF stop, Protocol, HostStates
<1>4. hcalls' <= HostCalls
  BY DEF stop, Protocol, CallPlace
<1> QED BY <1>1, <1>2, <1>3, <1>4, StopKeepsProtocol DEF stop

\* A request opens only when the ports carry nothing of an earlier one.
LEMMA FreeHost ==
  ASSUME Ports, Protocol, ready, ~closed, ~busy
  PROVE  /\ waiter = Nothing /\ active = NoRun /\ toHost = << >>
         /\ \A i \in 1..Len(toWorker) : ~Asks(toWorker[i])
         /\ \A o \in ops : haborted[o.req]
<1>1. waiter = Nothing
  BY MaxRequestsAssumption DEF Ports, Protocol, HostStates
<1>2. active = NoRun
  BY <1>1, MaxRequestsAssumption DEF Protocol, RequestPlace
<1>3. Len(toHost) = 0
  <2>1. SUFFICES ASSUME NEW i \in 1..Len(toHost) PROVE FALSE
    BY LenProperties DEF Ports
  <2>2. toHost[i] \in HostMessage
    BY <2>1, ElementOfSeq DEF Ports
  <2> QED BY <2>1, <2>2, <1>1, MessageFields, MaxRequestsAssumption
          DEF Protocol, RequestPlace, CallPlace
<1>4. toHost = << >>
  BY <1>3, EmptySeq DEF Ports
<1>5. ASSUME NEW i \in 1..Len(toWorker), Asks(toWorker[i]) PROVE FALSE
  <2>1. toWorker[i] \in WorkerMessage
    BY <1>5, ElementOfSeq DEF Ports
  <2> QED BY <1>1, <1>5, <2>1, MessageFields, MaxRequestsAssumption
          DEF Protocol, RequestPlace, Asks
<1> QED BY <1>1, <1>2, <1>4, <1>5 DEF Protocol, OpsAborted

LEMMA UncloneableStep ==
  ASSUME InstanceInv, Ports, Protocol, hrunUncloneable
  PROVE  Protocol'
<1>1. request + 1 \in 0..MaxRequests /\ request' = request + 1
  BY MaxRequestsAssumption DEF hrunUncloneable, Opens, Ports
<1>2. \A o \in ops : haborted[o.req]
  BY FreeHost DEF hrunUncloneable, Opens
<1>3. hcalls' <= HostCalls
  BY HostCallsAssumption DEF hrunUncloneable, Opens
<1>4. busy' => ready'
  BY DEF hrunUncloneable, Opens
<1> QED BY <1>1, <1>2, <1>3, <1>4, StopKeepsProtocol DEF hrunUncloneable

(***************************************************************************)
(* Posting keeps RevocationTold: what is appended to a queue comes after    *)
(* the revocations that are in it.                                          *)
(***************************************************************************)
LEMMA PostKeepsTold ==
  ASSUME Ports, Protocol, NEW m \in WorkerMessage, Post(m),
         UNCHANGED <<vars, up, got>>,
         \A g \in hrevoked' : g \in hrevoked \/ (m.type = "revoke" /\ m.name = g),
         m.type = "reply" /\ m.got.late =>
           m.run \in Run /\ callee[m.run] \subseteq hrevoked
  PROVE  RevocationTold'
<1>1. PICK L \in Nat : L = Len(toWorker)
  BY LenProperties DEF Ports
<1>2. /\ UNCHANGED <<revoked, stage, callee>>
      /\ LateResultsDropped'
      /\ \A r \in Run : (stage[r] = "settled" /\ got[r].late)' => (callee[r] \subseteq revoked)'
  BY DEF vars, Protocol, RevocationTold, LateResultsDropped
<1>3. CASE ~up
  <2>1. Len(toWorker') = 0
    BY <1>3, Posted DEF Protocol, HostStates
  <2> QED BY <1>2, <1>3, <2>1 DEF RevocationTold
<1>4. CASE up
  <2>1. /\ Len(toWorker') = L + 1
        /\ \A i \in 1..L : toWorker'[i] = toWorker[i]
        /\ toWorker'[L + 1] = m
    BY <1>1, <1>4, Posted
  <2>2. ASSUME NEW g, NEW n \in 1..(L + 1), Told(g, n) PROVE Told(g, n)'
    BY <1>1, <1>2, <2>1, <2>2 DEF Told
  <2>3. ASSUME NEW g \in hrevoked PROVE Told(g, L + 1)'
    BY <1>1, <1>4, <2>2 DEF Protocol, RevocationTold
  <2>4. ASSUME NEW g \in hrevoked' PROVE Told(g, L + 2)'
    <3>1. CASE g \in hrevoked
      BY <1>1, <2>1, <2>3, <3>1 DEF Told
    <3>2. CASE m.type = "revoke" /\ m.name = g
      BY <1>1, <2>1, <3>2 DEF Told
    <3> QED BY <3>1, <3>2
  <2>5. Len(toWorker') + 1 = L + 2
    BY <1>1, <2>1
  <2>6. ASSUME NEW i \in 1..Len(toWorker'), toWorker'[i].type = "reply",
               toWorker'[i].got.late, NEW g \in callee'[toWorker'[i].run]
        PROVE  Told(g, i)'
    <3>1. CASE i \in 1..L
      <4>1. Told(g, i)
        BY <1>1, <1>2, <2>1, <2>6, <3>1 DEF Protocol, RevocationTold
      <4>2. i \in 1..(L + 1)
        BY <1>1, <3>1
      <4> QED BY <2>2, <4>1, <4>2
    <3>2. CASE i = L + 1
      BY <1>2, <2>1, <2>3, <2>6, <3>2
    <3> QED BY <1>1, <2>1, <2>6, <3>1, <3>2
  <2> QED BY <1>2, <1>4, <2>4, <2>5, <2>6 DEF RevocationTold
<1> QED BY <1>3, <1>4 DEF Ports

LEMMA RunStep ==
  ASSUME InstanceInv, Ports, Protocol, hrun
  PROVE  Protocol'
<1> DEFINE m == [type |-> "run", req |-> request + 1]
<1>1. request + 1 \in Request /\ request' = request + 1 /\ waiter' = request + 1
      /\ busy' = TRUE /\ hcalls' = 0 /\ resources' = {}
  BY MaxRequestsAssumption DEF hrun, Opens, Ports
<1>2. /\ waiter = Nothing /\ active = NoRun /\ toHost = << >>
      /\ \A i \in 1..Len(toWorker) : ~Asks(toWorker[i])
      /\ \A o \in ops : haborted[o.req]
  BY FreeHost DEF hrun, Opens
<1>3. m \in WorkerMessage
  BY <1>1, MessageMade
<1>4. /\ ~up => toWorker' = toWorker
      /\ up => /\ Len(toWorker') = Len(toWorker) + 1
               /\ \A i \in 1..Len(toWorker) : toWorker'[i] = toWorker[i]
               /\ toWorker'[Len(toWorker) + 1] = m
  BY <1>3, Posted DEF hrun
<1>5. Len(toWorker) \in Nat /\ (~up => Len(toWorker) = 0)
  BY LenProperties, EmptySeq DEF Ports, Protocol, HostStates
<1>6. UNCHANGED <<vars, ready, closed, haborted, hrevoked, ops, up, serving, got, lost,
                  toHost>>
  BY DEF hrun, workerVars
<1>7. \A i \in 1..Len(toWorker') :
        \/ i \in 1..Len(toWorker) /\ toWorker'[i] = toWorker[i]
        \/ i = Len(toWorker) + 1 /\ toWorker'[i] = m
  BY <1>4, <1>5
<1>8. HostStates'
  BY <1>1, <1>4, <1>5, <1>6, MaxRequestsAssumption
  DEF hrun, Opens, Protocol, HostStates
<1>9. RequestPlace'
  BY <1>1, <1>2, <1>4, <1>5, <1>6, <1>7, EmptySeq DEF RequestPlace, Asks, vars
<1>10. CallPlace'
  <2>1. NoReply => NoReply'
    BY <1>7 DEF NoReply
  <2>2. Len(toHost') = 0 /\ hcalls' <= HostCalls
    BY <1>1, <1>2, <1>6, HostCallsAssumption
  <2>3. (\A o \in ops : /\ Pending(o.run, o.serial) /\ callee[o.run] = {o.name}
                        /\ serving[o.run] = o.req /\ NoReply)'
    BY <1>6, <2>1 DEF Protocol, CallPlace, Pending, vars
  <2>4. (\A i \in 1..Len(toWorker) : toWorker[i].type = "reply" =>
           /\ Pending(toWorker[i].run, toWorker[i].serial)
           /\ \A j \in 1..Len(toWorker) : toWorker[j].type = "reply" => i = j)'
    BY <1>5, <1>6, <1>7 DEF Protocol, CallPlace, Pending, vars
  <2> QED BY <2>2, <2>3, <2>4 DEF CallPlace
<1>11. RevocationTold'
  <2>1. m.type = "run" /\ Post(m)
    BY DEF hrun
  <2>2. UNCHANGED <<vars, up, got>> /\ hrevoked' = hrevoked
    BY <1>6
  <2> HIDE DEF m
  <2>3. \A g \in hrevoked' : g \in hrevoked \/ (m.type = "revoke" /\ m.name = g)
    BY <2>2
  <2>4. m.type = "reply" /\ m.got.late => m.run \in Run /\ callee[m.run] \subseteq hrevoked
    BY <2>1
  <2> QED BY <1>3, <2>1, <2>2, <2>3, <2>4, PostKeepsTold
<1>12. ResourceKnown'
  <2>1. active' = NoRun /\ tokens' = {}
    BY <1>2, <1>6, NoTokensBetweenRuns DEF vars
  <2>2. \A i \in 1..Len(toWorker') : toWorker'[i].type = "reply" => toWorker'[i].run \in Run
    BY <1>7, MessageFields, ElementOfSeq DEF Ports
  <2> QED BY <2>1, <2>2 DEF ResourceKnown, ResourcesHonoured
<1>13. OpsAborted'
  BY <1>2, <1>6 DEF OpsAborted
<1> QED BY <1>8, <1>9, <1>10, <1>11, <1>12, <1>13 DEF Protocol

LEMMA PostedMessages ==
  ASSUME Ports, Protocol, NEW m \in WorkerMessage, Post(m)
  PROVE  /\ ~up => toWorker' = << >>
         /\ Len(toWorker) \in Nat
         /\ \A i \in 1..Len(toWorker') :
              \/ i \in 1..Len(toWorker) /\ toWorker'[i] = toWorker[i]
              \/ i = Len(toWorker) + 1 /\ toWorker'[i] = m
BY Posted, LenProperties DEF Ports, Protocol, HostStates

\* A message to the worker that asks for nothing and leaves the host alone.
LEMMA PostKeepsRequests ==
  ASSUME Ports, Protocol, NEW m \in WorkerMessage, Post(m), ~Asks(m),
         m.type = "reply" => ops # {},
         UNCHANGED <<vars, ready, closed, busy, request, waiter, serving, up>>,
         toHost' = toHost, ops' \subseteq ops, hcalls' = hcalls
  PROVE  HostStates' /\ RequestPlace'
<1>1. HostStates'
  BY PostedMessages DEF Protocol, HostStates
<1>2. \A i \in 1..Len(toWorker') : Asks(toWorker'[i]) =>
        i \in 1..Len(toWorker) /\ toWorker'[i] = toWorker[i]
  BY PostedMessages
<1>3. ops = {} /\ NoReply => NoReply'
  BY PostedMessages DEF NoReply
<1>4. RequestPlace'
  BY <1>2, <1>3 DEF Protocol, RequestPlace, vars, Asks
<1> QED BY <1>1, <1>4

LEMMA FinishStep ==
  ASSUME InstanceInv, Ports, Protocol, hfinish
  PROVE  Protocol'
<1>1. UNCHANGED <<vars, ready, closed, request, waiter, hrevoked, hcalls, resources,
                  ops, up, serving, got, lost, toWorker, toHost>>
  BY DEF hfinish, workerVars
<1>2. HostStates'
  BY <1>1, MaxRequestsAssumption DEF hfinish, Protocol, HostStates
<1>3. RequestPlace' /\ CallPlace'
  BY <1>1 DEF Protocol, RequestPlace, CallPlace, Pending, NoReply, Asks, vars
<1>4. RevocationTold'
  BY <1>1 DEF Protocol, RevocationTold, Told, LateResultsDropped, vars
<1>5. ResourceKnown'
  BY <1>1 DEF Protocol, ResourceKnown, Derived, ResourcesHonoured, vars
<1>6. OpsAborted'
  <2>1. haborted' = [haborted EXCEPT ![request] = TRUE]
    BY DEF hfinish
  <2>2. \A o \in ops : o.req \in 0..MaxRequests
    BY DEF Ports, Op
  <2> QED BY <1>1, <2>1, <2>2 DEF Protocol, OpsAborted, Ports
<1> QED BY <1>2, <1>3, <1>4, <1>5, <1>6 DEF Protocol

LEMMA RevokeStep ==
  ASSUME InstanceInv, Ports, Protocol, NEW g \in Grants, hrevoke(g)
  PROVE  Protocol'
<1> DEFINE m == [type |-> "revoke", name |-> g]
<1>1. m \in WorkerMessage /\ Post(m) /\ m.type = "revoke" /\ m.name = g
  BY MessageMade DEF hrevoke
<1>2. hrevoked' = hrevoked \cup {g}
  BY DEF hrevoke
<1>3. UNCHANGED <<vars, ready, closed, busy, request, waiter, haborted, hcalls,
                  resources, ops, up, serving, got, lost, toHost>>
  BY DEF hrevoke, workerVars
<1>4. UNCHANGED <<vars, up, got>>
  BY <1>3
<1> HIDE DEF m
<1>5. \A i \in 1..Len(toWorker') : toWorker'[i].type = "reply" =>
        i \in 1..Len(toWorker) /\ toWorker'[i] = toWorker[i]
  BY <1>1, PostedMessages
<1>6. HostStates' /\ RequestPlace'
  BY <1>1, <1>3, PostKeepsRequests DEF Asks
<1>7. CallPlace'
  <2>1. NoReply => NoReply'
    BY <1>5 DEF NoReply
  <2>2. \A r, n : Pending(r, n) <=> Pending(r, n)'
    BY <1>3 DEF Pending, vars
  <2>3. UNCHANGED <<callee, waiter, serving, hcalls, ops, toHost>>
    BY <1>3 DEF vars
  <2> QED BY <1>5, <2>1, <2>2, <2>3 DEF Protocol, CallPlace
<1>8. RevocationTold'
  <2>1. \A h \in hrevoked' : h \in hrevoked \/ (m.type = "revoke" /\ m.name = h)
    BY <1>1, <1>2
  <2>2. m.type = "reply" /\ m.got.late => m.run \in Run /\ callee[m.run] \subseteq hrevoked
    BY <1>1
  <2> QED BY <1>1, <1>4, <2>1, <2>2, PostKeepsTold
<1>9. ResourceKnown'
  BY <1>3, <1>5 DEF Protocol, ResourceKnown, Derived, ResourcesHonoured, vars
<1>10. OpsAborted'
  BY <1>3 DEF Protocol, OpsAborted
<1> QED BY <1>6, <1>7, <1>8, <1>9, <1>10 DEF Protocol

\* The message that the broker takes is the only call there is.
LEMMA InvokeReceived ==
  ASSUME InstanceInv, Ports, Protocol, Receives("invoke")
  PROVE  /\ Head(toHost) = toHost[1] /\ toHost[1] \in HostMessage
         /\ toHost[1].type = "invoke"
         /\ toHost[1].run \in Run /\ toHost[1].serial \in 1..HostCalls
         /\ toHost[1].on.name \in Grants
         /\ Pending(toHost[1].run, toHost[1].serial)
         /\ callee[toHost[1].run] = {toHost[1].on.name}
         /\ waiter \in Request /\ serving[toHost[1].run] = waiter
         /\ hcalls < toHost[1].serial /\ ops = {} /\ NoReply
         /\ \A i \in 1..Len(toWorker) : ~Asks(toWorker[i])
         /\ \A i \in 1..Len(toHost') : /\ toHost'[i] = toHost[i + 1]
                                       /\ i + 1 \in 1..Len(toHost)
                                       /\ toHost[i + 1].type = "answer"
                                       /\ toHost[i + 1].how = "failed"
         /\ Len(toHost') = Len(toHost) - 1 /\ toHost # << >>
<1>1. /\ Head(toHost) = toHost[1] /\ toHost[1] \in HostMessage
      /\ toHost[1].type = "invoke"
      /\ Len(toHost) \in Nat \ {0} /\ Len(toHost') = Len(toHost) - 1
      /\ \A i \in 1..Len(toHost') : toHost'[i] = toHost[i + 1]
  BY Received
<1>2. /\ toHost[1].run \in Run /\ toHost[1].serial \in 1..HostCalls
      /\ toHost[1].on.name \in Grants
  BY <1>1, MessageFields
<1>3. 1 \in 1..Len(toHost)
  BY <1>1
<1>4. /\ Pending(toHost[1].run, toHost[1].serial)
      /\ callee[toHost[1].run] = {toHost[1].on.name}
      /\ waiter \in Request /\ serving[toHost[1].run] = waiter
      /\ hcalls < toHost[1].serial /\ ops = {} /\ NoReply
  BY <1>1, <1>3 DEF Protocol, CallPlace
<1>5. toHost # << >>
  BY DEF Receives
<1>6. \A i \in 1..Len(toWorker) : ~Asks(toWorker[i])
  BY <1>5 DEF Protocol, RequestPlace
<1>7. ASSUME NEW i \in 1..Len(toHost')
      PROVE  /\ i + 1 \in 1..Len(toHost) /\ toHost[i + 1].type = "answer"
             /\ toHost[i + 1].how = "failed"
  <2>1. i + 1 \in 1..Len(toHost) /\ i + 1 # 1
    BY <1>1, <1>7
  <2>2. toHost[i + 1] \in HostMessage
    BY <2>1, ElementOfSeq DEF Ports
  <2>3. toHost[i + 1].type = "answer"
    BY <2>1, <2>2, MessageFields DEF Protocol, CallPlace
  <2> QED BY <1>4, <2>1, <2>2, <2>3, MessageFields DEF Protocol, RequestPlace
<1> QED BY <1>1, <1>2, <1>4, <1>5, <1>6, <1>7

LEMMA InvokeStep ==
  ASSUME InstanceInv, Ports, Protocol, receiveInvoke
  PROVE  Protocol'
<1> DEFINE m == toHost[1]
           o == [run |-> m.run, serial |-> m.serial, name |-> m.on.name,
                 req |-> request]
<1>1. /\ Receives("invoke") /\ Head(toHost) = m
      /\ ops' = {o} /\ hcalls' = hcalls + 1
  BY InvokeReceived DEF receiveInvoke
<1>2. UNCHANGED <<vars, ready, closed, busy, request, waiter, haborted, hrevoked,
                  resources, up, serving, got, lost, toWorker>>
  BY DEF receiveInvoke, workerVars
<1>3. ~closed /\ busy /\ waiter = request
  BY <1>1, InvokeReceived DEF Protocol, HostStates
<1>4. HostStates'
  BY <1>2, <1>3 DEF Protocol, HostStates
<1>5. /\ m.run \in Run /\ Pending(m.run, m.serial) /\ callee[m.run] = {m.on.name}
      /\ serving[m.run] = waiter /\ hcalls < m.serial /\ NoReply
      /\ m.serial \in 1..HostCalls
      /\ \A i \in 1..Len(toWorker) : ~Asks(toWorker[i])
  BY <1>1, InvokeReceived
<1>6. \A i \in 1..Len(toHost') : /\ toHost'[i] = toHost[i + 1]
                                 /\ i + 1 \in 1..Len(toHost)
                                 /\ toHost[i + 1].type = "answer"
                                 /\ toHost[i + 1].how = "failed"
  BY <1>1, InvokeReceived
<1>7. Len(toHost') = Len(toHost) - 1 /\ Len(toHost) \in Nat
  BY <1>1, InvokeReceived, LenProperties DEF Ports
<1>8. RequestPlace'
  <2>1. \A i \in 1..Len(toHost') :
          /\ toHost'[i].req = waiter /\ i = Len(toHost') /\ active = NoRun
          /\ toHost'[i].how = "failed"
    <3> SUFFICES ASSUME NEW i \in 1..Len(toHost')
                 PROVE  /\ toHost'[i].req = waiter /\ i = Len(toHost')
                        /\ active = NoRun /\ toHost'[i].how = "failed"
      OBVIOUS
    <3>1. /\ toHost'[i] = toHost[i + 1] /\ i + 1 \in 1..Len(toHost)
          /\ toHost[i + 1].type = "answer" /\ toHost[i + 1].how = "failed"
      BY <1>6
    <3>2. toHost[i + 1].req = waiter /\ i + 1 = Len(toHost) /\ active = NoRun
      BY <3>1 DEF Protocol, RequestPlace
    <3> QED BY <1>7, <3>1, <3>2
  <2>2. active # NoRun => active = m.run /\ hcalls + 1 <= calls[m.run]
    <3> SUFFICES ASSUME active # NoRun PROVE active = m.run /\ hcalls + 1 <= calls[m.run]
      OBVIOUS
    <3>1. m.run = started
      BY <1>5, OneCall DEF Pending
    <3>2. active = started
      BY DEF InstanceInv, Lifetimes, ActiveIsLatest
    <3>3. calls[m.run] = m.serial /\ hcalls + 1 <= m.serial
      BY <1>5 DEF Pending, Ports
    <3> QED BY <3>1, <3>2, <3>3
  <2>3. active' # NoRun => waiter' \in Request /\ serving'[active'] = waiter'
    BY <1>2, <1>3 DEF Protocol, RequestPlace, vars
  <2> QED BY <1>1, <1>2, <1>5, <2>1, <2>2, <2>3 DEF RequestPlace, Asks, vars
<1>9. CallPlace'
  <2>1. hcalls' <= HostCalls
    BY <1>1, <1>5, HostCallsAssumption DEF Ports
  <2>2. \A i \in 1..Len(toHost') : toHost'[i].type # "invoke"
    BY <1>6
  <2>3. NoReply'
    BY <1>2, <1>5 DEF NoReply
  <2> QED BY <1>1, <1>2, <1>3, <1>5, <2>1, <2>2, <2>3 DEF CallPlace, NoReply, Pending, vars
<1>10. RevocationTold'
  BY <1>2 DEF Protocol, RevocationTold, Told, LateResultsDropped, vars
<1>11. ResourceKnown'
  BY <1>2 DEF Protocol, ResourceKnown, Derived, ResourcesHonoured, vars
<1>12. OpsAborted'
  BY <1>1, <1>2, <1>3 DEF OpsAborted
<1> QED BY <1>4, <1>8, <1>9, <1>10, <1>11, <1>12 DEF Protocol

LEMMA DeniedStep ==
  ASSUME InstanceInv, Ports, Protocol, receiveDenied
  PROVE  Protocol'
<1> DEFINE m == toHost[1]
           x == ErrorReply(m)
<1>1. Receives("invoke") /\ Head(toHost) = m /\ m \in HostMessage /\ m.type = "invoke"
  BY InvokeReceived DEF receiveDenied
<1>2. UNCHANGED <<vars, ready, closed, busy, request, waiter, haborted, hrevoked,
                  resources, ops, up, serving, got, lost>>
  BY DEF receiveDenied, workerVars
<1>3. x \in WorkerMessage /\ Post(x) /\ x.type = "reply" /\ x.run = m.run
      /\ x.serial = m.serial /\ x.got.kind = "error"
      /\ (x.got.late <=> m.on.name \in hrevoked)
  BY <1>1, RepliesMade DEF receiveDenied, ErrorReply
<1>4. hcalls' \in Nat /\ hcalls' <= hcalls + 1
  BY DEF receiveDenied, Ports
<1>5. /\ m.run \in Run /\ Pending(m.run, m.serial) /\ callee[m.run] = {m.on.name}
      /\ serving[m.run] = waiter /\ hcalls < m.serial /\ NoReply /\ ops = {}
      /\ m.serial \in 1..HostCalls /\ waiter \in Request
      /\ \A i \in 1..Len(toWorker) : ~Asks(toWorker[i])
  BY <1>1, InvokeReceived
<1>6. \A i \in 1..Len(toHost') : /\ toHost'[i] = toHost[i + 1]
                                 /\ i + 1 \in 1..Len(toHost)
                                 /\ toHost[i + 1].type = "answer"
                                 /\ toHost[i + 1].how = "failed"
  BY <1>1, InvokeReceived
<1>7. Len(toHost') = Len(toHost) - 1 /\ Len(toHost) \in Nat
  BY <1>1, InvokeReceived, LenProperties DEF Ports
<1> HIDE DEF x
<1>8. /\ ~up => toWorker' = << >>
      /\ Len(toWorker) \in Nat
      /\ \A i \in 1..Len(toWorker') :
           \/ i \in 1..Len(toWorker) /\ toWorker'[i] = toWorker[i]
           \/ i = Len(toWorker) + 1 /\ toWorker'[i] = x
  BY <1>3, PostedMessages
<1>9. HostStates'
  BY <1>1, <1>2, <1>5, <1>8 DEF Protocol, HostStates
<1>10. RequestPlace'
  <2>1. \A i \in 1..Len(toHost') :
          /\ toHost'[i].req = waiter /\ i = Len(toHost') /\ active = NoRun
          /\ toHost'[i].how = "failed"
    <3> SUFFICES ASSUME NEW i \in 1..Len(toHost')
                 PROVE  /\ toHost'[i].req = waiter /\ i = Len(toHost')
                        /\ active = NoRun /\ toHost'[i].how = "failed"
      OBVIOUS
    <3>1. /\ toHost'[i] = toHost[i + 1] /\ i + 1 \in 1..Len(toHost)
          /\ toHost[i + 1].type = "answer" /\ toHost[i + 1].how = "failed"
      BY <1>6
    <3>2. toHost[i + 1].req = waiter /\ i + 1 = Len(toHost) /\ active = NoRun
      BY <3>1 DEF Protocol, RequestPlace
    <3> QED BY <1>7, <3>1, <3>2
  <2>2. active # NoRun => hcalls' <= calls[active]
    <3> SUFFICES ASSUME active # NoRun PROVE hcalls' <= calls[active]
      OBVIOUS
    <3>1. m.run = started
      BY <1>5, OneCall DEF Pending
    <3>2. active = started
      BY DEF InstanceInv, Lifetimes, ActiveIsLatest
    <3>3. calls[m.run] = m.serial /\ hcalls' <= m.serial
      BY <1>4, <1>5 DEF Pending, Ports
    <3> QED BY <3>1, <3>2, <3>3
  <2>3. active' # NoRun /\ ~closed' =>
          waiter' \in Request /\ serving'[active'] = waiter' /\ hcalls' <= calls'[active']
    BY <1>2, <2>2 DEF Protocol, RequestPlace, vars
  <2>4. \A i \in 1..Len(toWorker') : ~Asks(toWorker'[i])
    BY <1>3, <1>5, <1>8 DEF Asks
  <2>5. waiter' = waiter /\ active' = active
    BY <1>2 DEF vars
  <2> QED BY <2>1, <2>3, <2>4, <2>5 DEF RequestPlace
<1>11. CallPlace'
  <2>1. hcalls' <= HostCalls
    BY <1>4, <1>5, HostCallsAssumption DEF Ports
  <2>2. \A i \in 1..Len(toHost') : toHost'[i].type # "invoke"
    BY <1>6
  <2>3. \A r, n : Pending(r, n) <=> Pending(r, n)'
    BY <1>2 DEF Pending, vars
  <2>4. \A i \in 1..Len(toWorker') : toWorker'[i].type = "reply" =>
          i = Len(toWorker) + 1 /\ toWorker'[i] = x
    BY <1>5, <1>8 DEF NoReply
  <2>5. (\A i \in 1..Len(toWorker) : toWorker[i].type = "reply" =>
           /\ Pending(toWorker[i].run, toWorker[i].serial)
           /\ \A j \in 1..Len(toWorker) : toWorker[j].type = "reply" => i = j)'
    BY <1>3, <1>5, <2>3, <2>4
  <2>6. ops' = {}
    BY <1>2, <1>5
  <2> QED BY <2>1, <2>2, <2>5, <2>6 DEF CallPlace
<1>12. RevocationTold'
  <2>1. \A h \in hrevoked' : h \in hrevoked \/ (x.type = "revoke" /\ x.name = h)
    BY <1>2
  <2>2. x.type = "reply" /\ x.got.late => x.run \in Run /\ callee[x.run] \subseteq hrevoked
    BY <1>3, <1>5
  <2>3. UNCHANGED <<vars, up, got>>
    BY <1>2
  <2> QED BY <1>3, <2>1, <2>2, <2>3, PostKeepsTold
<1>13. ResourceKnown'
  <2>1. \A i \in 1..Len(toWorker') : toWorker'[i].type = "reply" =>
          toWorker'[i].got.kind = "error"
    BY <1>3, <1>5, <1>8 DEF NoReply
  <2> QED BY <1>2, <2>1 DEF Protocol, ResourceKnown, Derived, ResourcesHonoured, vars
<1>14. OpsAborted'
  BY <1>2 DEF Protocol, OpsAborted
<1> QED BY <1>9, <1>10, <1>11, <1>12, <1>13, <1>14 DEF Protocol

\* An operation in flight is the only call there is.
LEMMA OneOperation ==
  ASSUME InstanceInv, Ports, Protocol, NEW o \in ops
  PROVE  /\ ops = {o} /\ o.run \in Run /\ o.serial \in 1..HostCalls /\ o.name \in Grants
         /\ o.req \in Request
         /\ Pending(o.run, o.serial) /\ callee[o.run] = {o.name}
         /\ serving[o.run] = o.req /\ NoReply
         /\ \A i \in 1..Len(toHost) : toHost[i].type # "invoke"
<1>1. \A p \in ops : /\ p \in Op /\ p.run \in Run /\ p.serial \in 1..HostCalls
                     /\ p.name \in Grants /\ p.req \in Request
  BY DEF Ports, Op
<1>2. \A p \in ops : /\ Pending(p.run, p.serial) /\ callee[p.run] = {p.name}
                     /\ serving[p.run] = p.req /\ NoReply
  BY DEF Protocol, CallPlace
<1>3. \A p \in ops : p.run = started
  BY <1>1, <1>2, OneCall DEF Pending
<1>4. ASSUME NEW p \in ops PROVE p = o
  <2>1. p.run = o.run /\ p.serial = o.serial /\ p.name = o.name /\ p.req = o.req
    BY <1>2, <1>3, <1>4 DEF Pending
  <2> QED BY <1>1, <2>1 DEF Op
<1>5. \A i \in 1..Len(toHost) : toHost[i].type # "invoke"
  BY DEF Protocol, CallPlace
<1> QED BY <1>1, <1>2, <1>4, <1>5

LEMMA OpSettlesStep ==
  ASSUME InstanceInv, Ports, Protocol, NEW o \in ops,
         NEW kind \in Result, opSettles(o, kind)
  PROVE  Protocol'
<1>1. UNCHANGED <<vars, ready, closed, busy, request, waiter, haborted, hrevoked,
                  hcalls, up, serving, got, lost, toHost>>
  BY DEF opSettles, workerVars
<1>2. ops' = {} /\ NoReply /\ \A i \in 1..Len(toHost') : toHost'[i].type # "invoke"
  BY <1>1, OneOperation DEF opSettles
<1>3. OpsAborted'
  BY <1>2 DEF OpsAborted
<1>4. \A r, n : Pending(r, n) <=> Pending(r, n)'
  BY <1>1 DEF Pending, vars
<1>5. CASE closed
  <2>1. toWorker' = toWorker /\ resources' = resources
    BY <1>5 DEF opSettles
  <2>2. HostStates' /\ RequestPlace'
    BY <1>1, <1>2, <2>1 DEF Protocol, HostStates, RequestPlace, Asks, vars
  <2>3. CallPlace'
    BY <1>1, <1>2, <2>1 DEF Protocol, CallPlace, NoReply
  <2>4. RevocationTold'
    BY <1>1, <2>1 DEF Protocol, RevocationTold, Told, LateResultsDropped, vars
  <2>5. ResourceKnown'
    BY <1>1, <2>1 DEF Protocol, ResourceKnown, Derived, ResourcesHonoured, vars
  <2> QED BY <1>3, <2>2, <2>3, <2>4, <2>5 DEF Protocol
<1>6. CASE ~closed
  <2> DEFINE x == [type |-> "reply", run |-> o.run, serial |-> o.serial,
                   got |-> [kind |-> kind, late |-> o.name \in hrevoked]]
             res == Issue(o)
  <2>1. x \in WorkerMessage
    BY OneOperation, RepliesMade
  <2>2. /\ Post(x) /\ x.type = "reply" /\ x.run = o.run /\ x.serial = o.serial
        /\ x.got.kind = kind /\ (x.got.late <=> o.name \in hrevoked)
    BY <1>6 DEF opSettles
  <2>3. resources \subseteq resources' /\ (kind = "resource" => res \in resources')
    BY <1>6 DEF opSettles
  <2> HIDE DEF x
  <2>4. /\ Len(toWorker) \in Nat
        /\ \A i \in 1..Len(toWorker') :
             \/ i \in 1..Len(toWorker) /\ toWorker'[i] = toWorker[i]
             \/ i = Len(toWorker) + 1 /\ toWorker'[i] = x
    BY <2>1, <2>2, PostedMessages
  <2>5. \A i \in 1..Len(toWorker') : toWorker'[i].type = "reply" =>
          i = Len(toWorker) + 1 /\ toWorker'[i] = x
    BY <1>2, <2>4 DEF NoReply
  <2>6. HostStates' /\ RequestPlace'
    BY <1>1, <1>2, <2>1, <2>2, PostKeepsRequests DEF Asks
  <2>7. CallPlace'
    <3>1. hcalls' <= HostCalls
      BY <1>1 DEF Protocol, CallPlace
    <3>2. (\A i \in 1..Len(toWorker) : toWorker[i].type = "reply" =>
             /\ Pending(toWorker[i].run, toWorker[i].serial)
             /\ \A j \in 1..Len(toWorker) : toWorker[j].type = "reply" => i = j)'
      BY <1>4, <2>2, <2>5, OneOperation
    <3> QED BY <1>2, <3>1, <3>2 DEF CallPlace
  <2>8. RevocationTold'
    <3>1. \A h \in hrevoked' : h \in hrevoked \/ (x.type = "revoke" /\ x.name = h)
      BY <1>1
    <3>2. x.type = "reply" /\ x.got.late => x.run \in Run /\ callee[x.run] \subseteq hrevoked
      BY <2>2, OneOperation
    <3>3. UNCHANGED <<vars, up, got>>
      BY <1>1
    <3> QED BY <2>1, <2>2, <3>1, <3>2, <3>3, PostKeepsTold
  <2>9. ResourceKnown'
    <3>1. kind = "resource" => Derived(o.run) \subseteq resources'
      BY <2>3, OneOperation DEF Derived, Pending, Issue
    <3>2. UNCHANGED <<active, calls, callee, tokens, stage>>
      BY <1>1 DEF vars
    <3>3. \A r : Derived(r)' = Derived(r)
      BY <3>2 DEF Derived
    <3>4. \A i \in 1..Len(toWorker') :
            /\ toWorker'[i].type = "reply" /\ toWorker'[i].got.kind = "resource"
            /\ toWorker'[i].run = active'
            => Derived(active)' \subseteq resources'
      BY <2>2, <2>5, <3>1, <3>2 DEF Derived
    <3>5. ResourcesHonoured'
      BY <1>1, <2>3, <3>2 DEF Protocol, ResourceKnown, ResourcesHonoured
    <3>6. (~closed)' => \A r \in Run :
            stage'[r] = "settled" /\ got'[r].kind = "resource" /\ active' = r
              => Derived(r)' \subseteq resources'
      BY <1>1, <2>3, <3>2, <3>3 DEF Protocol, ResourceKnown
    <3> QED BY <3>4, <3>5, <3>6 DEF ResourceKnown
  <2> QED BY <1>3, <2>6, <2>7, <2>8, <2>9 DEF Protocol
<1> QED BY <1>5, <1>6 DEF Ports

LEMMA AnswerStep ==
  ASSUME InstanceInv, Ports, Protocol, receiveAnswer \/ receiveReady
  PROVE  Protocol'
<1>1. Receives("answer") /\ waiter' = Nothing
  BY DEF receiveAnswer, receiveReady
<1>2. UNCHANGED <<vars, closed, busy, request, haborted, hrevoked, hcalls, resources,
                  ops, up, serving, got, lost, toWorker>>
  BY DEF receiveAnswer, receiveReady, workerVars
<1>3. ~closed /\ toHost # << >> /\ toHost[1].type = "answer" /\ toHost[1] \in HostMessage
      /\ Len(toHost) \in Nat \ {0} /\ Len(toHost') = Len(toHost) - 1
  BY <1>1, Received DEF Receives
<1>4. /\ toHost[1].req = waiter /\ Len(toHost) = 1 /\ active = NoRun
      /\ waiter \in 0..MaxRequests
  BY <1>3, MessageFields DEF Protocol, RequestPlace
<1>5. Len(toHost') = 0
  BY <1>3, <1>4
<1>6. ready'
  <2>1. CASE receiveReady
    BY <2>1 DEF receiveReady
  <2>2. CASE receiveAnswer
    BY <1>4, <2>2 DEF receiveAnswer, Protocol, HostStates
  <2> QED BY <2>1, <2>2
<1>7. HostStates'
  BY <1>1, <1>2, <1>3, <1>6, MaxRequestsAssumption DEF Protocol, HostStates
<1>8. RequestPlace'
  <2>1. \A i \in 1..Len(toWorker') : ~Asks(toWorker'[i])
    BY <1>2, <1>3 DEF Protocol, RequestPlace
  <2> QED BY <1>2, <1>4, <1>5, <2>1 DEF RequestPlace, vars
<1>9. CallPlace'
  BY <1>2, <1>5 DEF Protocol, CallPlace, Pending, NoReply, vars
<1>10. RevocationTold'
  BY <1>2 DEF Protocol, RevocationTold, Told, LateResultsDropped, vars
<1>11. ResourceKnown'
  BY <1>2 DEF Protocol, ResourceKnown, Derived, ResourcesHonoured, vars
<1>12. OpsAborted'
  BY <1>2 DEF Protocol, OpsAborted
<1> QED BY <1>7, <1>8, <1>9, <1>10, <1>11, <1>12 DEF Protocol

-----------------------------------------------------------------------------
(* Steps of the worker.                                                    *)

(***************************************************************************)
(* Taking a message keeps the revocations in front of the results, if a     *)
(* revocation that is taken is applied.                                     *)
(***************************************************************************)
LEMMA TakeKeepsTold ==
  ASSUME Ports, Protocol, NEW type, Takes(type), revoked \subseteq revoked',
         type = "revoke" => toWorker[1].name \in revoked',
         hrevoked' = hrevoked, callee' = callee
  PROVE  /\ \A g \in hrevoked' : Told(g, Len(toWorker) + 1)'
         /\ \A i \in 1..Len(toWorker') :
              toWorker'[i].type = "reply" /\ toWorker'[i].got.late =>
                \A g \in callee'[toWorker'[i].run] : Told(g, i)'
<1>1. PICK L \in Nat : L = Len(toWorker')
  BY Taken, LenProperties
<1>2. /\ Len(toWorker) = L + 1 /\ toWorker[1].type = type
      /\ \A i \in 1..L : toWorker'[i] = toWorker[i + 1]
  BY <1>1, Taken
<1>3. ASSUME NEW g, NEW n \in 1..(L + 1), Told(g, n + 1) PROVE Told(g, n)'
  <2>1. CASE g \in revoked
    BY <2>1 DEF Told
  <2>2. ASSUME NEW j \in 1..Len(toWorker), j < n + 1, toWorker[j].type = "revoke",
               toWorker[j].name = g
        PROVE  Told(g, n)'
    <3>1. CASE j = 1
      BY <1>2, <2>2, <3>1 DEF Told
    <3>2. CASE j # 1
      <4>1. j - 1 \in 1..Len(toWorker') /\ j - 1 < n /\ toWorker'[j - 1] = toWorker[j]
        BY <1>1, <1>2, <2>2, <3>2
      <4> QED BY <2>2, <4>1 DEF Told
    <3> QED BY <3>1, <3>2
  <2> QED BY <1>3, <2>1, <2>2 DEF Told
<1>4. ASSUME NEW g \in hrevoked' PROVE Told(g, Len(toWorker) + 1)'
  <2>1. Told(g, (L + 1) + 1)
    BY <1>2, <1>4, Taken DEF Protocol, RevocationTold
  <2>2. L + 1 \in 1..(L + 1)
    OBVIOUS
  <2>3. Told(g, L + 1)'
    BY <1>3, <2>1, <2>2
  <2> QED BY <1>1, <2>3
<1>5. ASSUME NEW i \in 1..Len(toWorker'), toWorker'[i].type = "reply",
             toWorker'[i].got.late, NEW g \in callee'[toWorker'[i].run]
      PROVE  Told(g, i)'
  <2>1. toWorker'[i] = toWorker[i + 1] /\ i + 1 \in 1..Len(toWorker) /\ i \in 1..(L + 1)
    BY <1>1, <1>2, <1>5
  <2>2. Told(g, i + 1)
    BY <1>5, <2>1 DEF Protocol, RevocationTold
  <2> QED BY <1>3, <2>1, <2>2
<1> QED BY <1>4, <1>5

\* What is left of the queue when its only request was taken.
LEMMA AskTaken ==
  ASSUME Ports, Protocol, NEW type \in {"init", "run"}, Takes(type)
  PROVE  /\ up /\ ~closed /\ toHost = << >> /\ active = NoRun
         /\ type = "init" => waiter = InitRequest
         /\ type = "run" => /\ waiter = Head(toWorker).req /\ hcalls = 0
                            /\ waiter \in Request
         /\ \A i \in 1..Len(toWorker') : /\ toWorker'[i] = toWorker[i + 1]
                                         /\ i + 1 \in 1..Len(toWorker)
                                         /\ ~Asks(toWorker'[i])
<1>1. /\ up /\ toWorker[1].type = type /\ Head(toWorker) = toWorker[1]
      /\ Head(toWorker) \in WorkerMessage
      /\ Len(toWorker) \in Nat \ {0} /\ Len(toWorker') = Len(toWorker) - 1
      /\ \A i \in 1..Len(toWorker') : toWorker'[i] = toWorker[i + 1]
  BY Taken
<1>2. 1 \in 1..Len(toWorker) /\ Asks(toWorker[1])
  BY <1>1 DEF Asks
<1>3. /\ toHost = << >> /\ active = NoRun
      /\ toWorker[1].type = "init" => waiter = InitRequest
      /\ toWorker[1].type = "run" => waiter = toWorker[1].req /\ hcalls = 0
      /\ \A j \in 1..Len(toWorker) : Asks(toWorker[j]) => 1 = j
  BY <1>2 DEF Protocol, RequestPlace
<1>4. type = "run" => toWorker[1].req \in Request
  BY <1>1, MessageFields
<1>5. \A i \in 1..Len(toWorker') : i + 1 \in 1..Len(toWorker) /\ i + 1 # 1
  BY <1>1
<1>6. ~closed
  BY <1>1 DEF Protocol, HostStates
<1> QED BY <1>1, <1>3, <1>4, <1>5, <1>6

(***************************************************************************)
(* The calls there are do not change when the worker takes a request: a     *)
(* message it does not take, and an operation, keep their place.            *)
(***************************************************************************)
LEMMA AskKeepsCalls ==
  ASSUME InstanceInv, Ports, Protocol, NEW type \in {"init", "run"}, Takes(type),
         UNCHANGED <<stage, calls, callee, ops, hcalls, lost>>,
         \A r \in Run : r <= started => serving'[r] = serving[r],
         \A i \in 1..Len(toHost') : toHost'[i].type # "invoke"
  PROVE  CallPlace'
<1>1. \A r, n : Pending(r, n) <=> Pending(r, n)'
  BY DEF Pending
<1>2. \A i \in 1..Len(toWorker') : toWorker'[i] = toWorker[i + 1] /\ i + 1 \in 1..Len(toWorker)
  BY AskTaken
<1>3. NoReply => NoReply'
  BY <1>2 DEF NoReply
<1>4. hcalls' <= HostCalls
  BY DEF Protocol, CallPlace
<1>5. ASSUME NEW o \in ops'
      PROVE  /\ Pending(o.run, o.serial)' /\ callee'[o.run] = {o.name}
             /\ serving'[o.run] = o.req /\ NoReply'
  <2>1. o \in ops
    BY <1>5
  <2>2. o.run \in Run /\ Pending(o.run, o.serial) /\ callee[o.run] = {o.name}
        /\ serving[o.run] = o.req /\ NoReply
    BY <2>1, OneOperation
  <2>3. o.run = started /\ o.run <= started
    BY <2>2, OneCall DEF Pending
  <2> QED BY <1>1, <1>3, <2>2, <2>3
<1>6. ASSUME NEW i \in 1..Len(toWorker'), toWorker'[i].type = "reply"
      PROVE  /\ Pending(toWorker'[i].run, toWorker'[i].serial)
             /\ \A j \in 1..Len(toWorker') : toWorker'[j].type = "reply" => i = j
  <2>1. i + 1 \in 1..Len(toWorker) /\ toWorker'[i] = toWorker[i + 1]
    BY <1>2
  <2>2. Pending(toWorker[i + 1].run, toWorker[i + 1].serial)
    BY <1>6, <2>1 DEF Protocol, CallPlace
  <2>3. ASSUME NEW j \in 1..Len(toWorker'), toWorker'[j].type = "reply" PROVE i = j
    <3>1. j + 1 \in 1..Len(toWorker) /\ toWorker'[j] = toWorker[j + 1]
      BY <1>2
    <3>2. i + 1 = j + 1
      BY <1>6, <2>1, <2>3, <3>1 DEF Protocol, CallPlace
    <3> QED BY <3>2, LenProperties, Taken DEF Ports
  <2> QED BY <2>1, <2>2, <2>3
<1>7. (\A o \in ops : /\ Pending(o.run, o.serial) /\ callee[o.run] = {o.name}
                      /\ serving[o.run] = o.req /\ NoReply)'
  BY <1>5
<1>8. (\A i \in 1..Len(toWorker) : toWorker[i].type = "reply" =>
         /\ Pending(toWorker[i].run, toWorker[i].serial)
         /\ \A j \in 1..Len(toWorker) : toWorker[j].type = "reply" => i = j)'
  BY <1>6 DEF Pending
<1> QED BY <1>4, <1>7, <1>8 DEF CallPlace

\* The worker answers a request at once: it compiled, or run() threw.
LEMMA AnswerAtOnce ==
  ASSUME InstanceInv, Ports, Protocol, NEW type \in {"init", "run"}, Takes(type),
         NEW how \in {"value", "failed"}, type = "run" => how = "failed",
         Send(Answer(waiter, how)), hostVars' = hostVars, up' = up, got' = got, lost' = lost,
         \A r \in Run : r <= started => serving'[r] = serving[r],
         UNCHANGED <<active, stage, calls, callee, revoked>>,
         tokens' \subseteq tokens
  PROVE  Protocol'
<1> USE DEF hostVars
<1>1. /\ up /\ ~closed /\ toHost = << >> /\ active = NoRun /\ waiter \in 0..MaxRequests
      /\ \A i \in 1..Len(toWorker') : /\ toWorker'[i] = toWorker[i + 1]
                                      /\ i + 1 \in 1..Len(toWorker)
                                      /\ ~Asks(toWorker'[i])
      /\ waiter \in Request => how = "failed"
  BY AskTaken, MaxRequestsAssumption
<1>2. Answer(waiter, how) \in HostMessage
  BY <1>1, MessageMade
<1>3. Len(toHost') = 1 /\ toHost'[1] = Answer(waiter, how)
  BY <1>1, <1>2, Sent
<1>4. \A i \in 1..Len(toHost') : i = 1 /\ toHost'[i] = Answer(waiter, how)
  BY <1>3
<1>5. HostStates'
  BY <1>1 DEF Protocol, HostStates
<1>6. RequestPlace'
  BY <1>1, <1>3, <1>4 DEF RequestPlace, Answer
<1>7. CallPlace'
  <2>1. \A i \in 1..Len(toHost') : toHost'[i].type # "invoke"
    BY <1>4 DEF Answer
  <2> QED BY <2>1, AskKeepsCalls
<1>8. RevocationTold'
  <2>1. /\ \A g \in hrevoked' : Told(g, Len(toWorker) + 1)'
        /\ \A i \in 1..Len(toWorker') :
              toWorker'[i].type = "reply" /\ toWorker'[i].got.late =>
                \A g \in callee'[toWorker'[i].run] : Told(g, i)'
    BY TakeKeepsTold
  <2> QED BY <2>1 DEF Protocol, RevocationTold, LateResultsDropped
<1>9. ResourceKnown'
  <2>1. tokens' = {}
    BY <1>1, NoTokensBetweenRuns
  <2>2. \A i \in 1..Len(toWorker') : toWorker'[i].type = "reply" => toWorker'[i].run \in Run
    BY <1>1, MessageFields, ElementOfSeq DEF Ports
  <2> QED BY <1>1, <2>1, <2>2 DEF ResourceKnown, ResourcesHonoured
<1>10. OpsAborted'
  BY DEF Protocol, OpsAborted
<1> QED BY <1>5, <1>6, <1>7, <1>8, <1>9, <1>10 DEF Protocol

LEMMA WorkerAnswersAtOnce ==
  ASSUME InstanceInv, Ports, Protocol,
         workerInit \/ workerRunRefused \/ workerRunRejected
  PROVE  Protocol'
<1>1. CASE workerInit
  <2>1. PICK how \in {"value", "failed"} : Send(Answer(InitRequest, how))
    BY <1>1 DEF workerInit
  <2>2. Takes("init") /\ waiter = InitRequest
    BY <1>1, AskTaken DEF workerInit
  <2>3. UNCHANGED <<vars, hostVars, workerVars>>
    BY <1>1 DEF workerInit
  <2> QED BY <2>1, <2>2, <2>3, AnswerAtOnce DEF vars, workerVars
<1>2. CASE workerRunRefused
  <2>1. Takes("run") /\ Send(Answer(waiter, "failed")) /\ runRefused
    BY <1>2, AskTaken DEF workerRunRefused
  <2>2. hostVars' = hostVars /\ up' = up /\ got' = got /\ lost' = lost
    BY <1>2 DEF workerRunRefused
  <2>3. started \in Nat /\ serving' = [serving EXCEPT ![started + 1] = Head(toWorker).req]
    BY <1>2 DEF workerRunRefused, InstanceInv, Typed, TypeOK
  <2>4. \A r \in Run : r <= started => serving'[r] = serving[r]
    BY <2>3 DEF Ports
  <2>5. UNCHANGED <<active, stage, calls, callee, revoked>> /\ tokens' \subseteq tokens
    BY <2>1 DEF runRefused, callVars
  <2> QED BY <2>1, <2>2, <2>4, <2>5, AnswerAtOnce
<1>3. CASE workerRunRejected
  <2>1. Takes("run") /\ Send(Answer(waiter, "failed"))
    BY <1>3, AskTaken DEF workerRunRejected
  <2>2. UNCHANGED <<vars, hostVars, workerVars>>
    BY <1>3 DEF workerRunRejected
  <2> QED BY <2>1, <2>2, AnswerAtOnce DEF vars, workerVars
<1> QED BY <1>1, <1>2, <1>3

LEMMA WorkerRunStep ==
  ASSUME InstanceInv, Ports, Protocol, NEW P \in SUBSET Grants, workerRun(P)
  PROVE  Protocol'
<1> USE DEF hostVars
<1>1. Takes("run") /\ run(P) /\ UNCHANGED <<hostVars, up, got, lost, toHost>>
  BY DEF workerRun
<1>2. /\ up /\ ~closed /\ toHost = << >> /\ active = NoRun /\ hcalls = 0
      /\ waiter \in Request /\ waiter = Head(toWorker).req
      /\ \A i \in 1..Len(toWorker') : /\ toWorker'[i] = toWorker[i + 1]
                                      /\ i + 1 \in 1..Len(toWorker)
                                      /\ ~Asks(toWorker'[i])
  BY <1>1, AskTaken
<1>3. PICK r \in Run : r = started + 1
  BY <1>1, MaxRunsAssumption DEF run, InstanceInv, Typed, TypeOK
<1>4. /\ active' = r /\ UNCHANGED <<stage, calls, callee, revoked>>
      /\ calls[r] = 0 /\ stage[r] = "none"
      /\ tokens' = tokens \cup [run : {r}, serial : {0}, name : P]
  BY <1>1, <1>3 DEF run, callVars, InstanceInv, Typed, TypeOK, FreshRuns
<1>5. serving' = [serving EXCEPT ![r] = waiter]
  BY <1>2, <1>3 DEF workerRun
<1>6. \A s \in Run : s <= started => serving'[s] = serving[s]
  BY <1>3, <1>5 DEF Ports, InstanceInv, Typed, TypeOK
<1>7. HostStates'
  BY <1>1, <1>2 DEF Protocol, HostStates
<1>8. Len(toHost') = 0
  BY <1>1, <1>2
<1>9. RequestPlace'
  BY <1>1, <1>2, <1>4, <1>5, <1>8 DEF RequestPlace, Ports
<1>10. CallPlace'
  BY <1>1, <1>4, <1>6, <1>8, AskKeepsCalls
<1>11. RevocationTold'
  <2>1. /\ \A g \in hrevoked' : Told(g, Len(toWorker) + 1)'
        /\ \A i \in 1..Len(toWorker') :
              toWorker'[i].type = "reply" /\ toWorker'[i].got.late =>
                \A g \in callee'[toWorker'[i].run] : Told(g, i)'
    BY <1>1, <1>4, TakeKeepsTold
  <2> QED BY <1>1, <1>4, <2>1 DEF Protocol, RevocationTold, LateResultsDropped
<1>12. ResourceKnown'
  <2>1. \A t \in tokens' : t.serial = 0
    BY <1>2, <1>4, NoTokensBetweenRuns
  <2>2. ASSUME NEW i \in 1..Len(toWorker'), toWorker'[i].type = "reply"
        PROVE  toWorker'[i].run # r
    <3>1. i + 1 \in 1..Len(toWorker) /\ toWorker[i + 1].type = "reply"
          /\ toWorker'[i] = toWorker[i + 1]
      BY <1>2, <2>2
    <3>2. Pending(toWorker[i + 1].run, toWorker[i + 1].serial)
      BY <3>1 DEF Protocol, CallPlace
    <3> QED BY <1>4, <3>1, <3>2 DEF Pending
  <2> QED BY <1>4, <2>1, <2>2 DEF ResourceKnown, ResourcesHonoured
<1>13. OpsAborted'
  BY <1>1 DEF Protocol, OpsAborted
<1> QED BY <1>7, <1>9, <1>10, <1>11, <1>12, <1>13 DEF Protocol

\* The reply that the worker takes ends the only call there is.
LEMMA ReplyTaken ==
  ASSUME InstanceInv, Ports, Protocol, Takes("reply")
  PROVE  /\ Head(toWorker) = toWorker[1] /\ toWorker[1].type = "reply"
         /\ 1 \in 1..Len(toWorker) /\ toWorker[1].run \in Run
         /\ Pending(toWorker[1].run, toWorker[1].serial)
         /\ ops = {} /\ \A i \in 1..Len(toHost) : toHost[i].type # "invoke"
         /\ \A i \in 1..Len(toWorker') : /\ toWorker'[i] = toWorker[i + 1]
                                         /\ i + 1 \in 1..Len(toWorker)
                                         /\ toWorker'[i].type # "reply"
<1>1. /\ toWorker[1].type = "reply" /\ Head(toWorker) = toWorker[1]
      /\ Head(toWorker) \in WorkerMessage
      /\ Len(toWorker) \in Nat \ {0} /\ Len(toWorker') = Len(toWorker) - 1
      /\ \A i \in 1..Len(toWorker') : toWorker'[i] = toWorker[i + 1]
  BY Taken
<1>2. 1 \in 1..Len(toWorker) /\ toWorker[1].run \in Run
  BY <1>1, MessageFields
<1>3. /\ Pending(toWorker[1].run, toWorker[1].serial)
      /\ \A j \in 1..Len(toWorker) : toWorker[j].type = "reply" => 1 = j
  BY <1>1, <1>2 DEF Protocol, CallPlace
<1>4. ~NoReply
  BY <1>1, <1>2 DEF NoReply
<1>5. ops = {} /\ \A i \in 1..Len(toHost) : toHost[i].type # "invoke"
  BY <1>4 DEF Protocol, CallPlace
<1>6. \A i \in 1..Len(toWorker') : i + 1 \in 1..Len(toWorker) /\ i + 1 # 1
  BY <1>1
<1> QED BY <1>1, <1>2, <1>3, <1>5, <1>6

\* Taking a message that is no request keeps what is known of requests.
LEMMA TakeKeepsRequests ==
  ASSUME Ports, Protocol, NEW type, Takes(type),
         UNCHANGED <<hostVars, up, serving, toHost, active>>,
         \A r \in Run : calls'[r] = calls[r], active \in Run \cup {NoRun}
  PROVE  HostStates' /\ RequestPlace'
<1> USE DEF hostVars
<1>1. HostStates'
  BY Taken DEF Protocol, HostStates
<1>2. \A i \in 1..Len(toWorker') : /\ toWorker'[i] = toWorker[i + 1]
                                   /\ i + 1 \in 1..Len(toWorker)
                                   /\ i \in Int
  BY Taken
<1>3. ASSUME NEW i \in 1..Len(toWorker'), Asks(toWorker'[i])
      PROVE  /\ toHost' = << >> /\ active' = NoRun
             /\ toWorker'[i].type = "init" => waiter' = InitRequest
             /\ toWorker'[i].type = "run" => waiter' = toWorker'[i].req /\ hcalls' = 0
             /\ \A j \in 1..Len(toWorker') : Asks(toWorker'[j]) => i = j
  <2>1. i + 1 \in 1..Len(toWorker) /\ toWorker'[i] = toWorker[i + 1] /\ i \in Int
    BY <1>2
  <2>2. ASSUME NEW j \in 1..Len(toWorker'), Asks(toWorker'[j]) PROVE i = j
    <3>1. j + 1 \in 1..Len(toWorker) /\ toWorker'[j] = toWorker[j + 1] /\ j \in Int
      BY <1>2
    <3>2. i + 1 = j + 1
      BY <1>3, <2>1, <2>2, <3>1 DEF Protocol, RequestPlace
    <3> QED BY <2>1, <3>1, <3>2
  <2> QED BY <1>3, <2>1, <2>2 DEF Protocol, RequestPlace
<1>4. NoReply => NoReply'
  BY <1>2 DEF NoReply
<1>5. RequestPlace'
  BY <1>3, <1>4 DEF Protocol, RequestPlace, Asks
<1> QED BY <1>1, <1>5

LEMMA WorkerReplyStep ==
  ASSUME InstanceInv, Ports, Protocol, workerReply, lost' = lost
  PROVE  Protocol'
<1> USE DEF hostVars
<1> DEFINE m == toWorker[1]
<1>1. /\ m = Head(toWorker) /\ m.type = "reply" /\ 1 \in 1..Len(toWorker)
      /\ m.run \in Run /\ Pending(m.run, m.serial)
      /\ ops = {} /\ \A i \in 1..Len(toHost) : toHost[i].type # "invoke"
      /\ \A i \in 1..Len(toWorker') : /\ toWorker'[i] = toWorker[i + 1]
                                      /\ i + 1 \in 1..Len(toWorker)
                                      /\ toWorker'[i].type # "reply"
  BY ReplyTaken DEF workerReply
<1>2. PICK r \in Run : r = m.run
  BY <1>1
<1>3. /\ Takes("reply") /\ UNCHANGED <<hostVars, up, serving, lost, toHost>>
      /\ IF m.got.kind = "error" THEN ProviderRejects(r) ELSE ProviderResolves(r)
      /\ got' = [got EXCEPT ![r] = m.got]
  BY <1>1, <1>2 DEF workerReply, Pending
<1>4. /\ UNCHANGED <<active, revoked, calls, callee, tokens>>
      /\ stage' = [stage EXCEPT ![r] = IF m.got.kind = "error" THEN "throw" ELSE "settled"]
  BY <1>3 DEF ProviderRejects, ProviderResolves
<1>5. stage \in [Run -> Stage] /\ active \in Run \cup {NoRun}
      /\ calls[r] = m.serial
  BY <1>1, <1>2 DEF InstanceInv, Typed, TypeOK, Pending
<1>6. HostStates' /\ RequestPlace'
  BY <1>3, <1>4, <1>5, TakeKeepsRequests
<1>7. CallPlace'
  <2>1. hcalls' <= HostCalls /\ ops' = {}
    BY <1>1, <1>3 DEF Protocol, CallPlace
  <2> QED BY <1>1, <1>3, <2>1 DEF CallPlace
<1>8. RevocationTold'
  <2>1. \A g \in hrevoked' : Told(g, Len(toWorker) + 1)'
    BY <1>3, <1>4, TakeKeepsTold
  <2>2. m.got.late => callee[r] \subseteq revoked
    BY <1>1, <1>2 DEF Protocol, RevocationTold, Told
  <2>3. \A s \in Run : stage'[s] = "settled" /\ got'[s].late => callee'[s] \subseteq revoked'
    BY <1>3, <1>4, <1>5, <2>2 DEF Protocol, RevocationTold, Ports
  <2>4. LateResultsDropped'
    BY <1>3, <1>4, <1>5 DEF Protocol, RevocationTold, LateResultsDropped, Ports
  <2> QED BY <1>1, <2>1, <2>3, <2>4 DEF RevocationTold
<1>9. ResourceKnown'
  <2>1. m.got.kind = "resource" /\ active = r => Derived(r) \subseteq resources
    BY <1>1, <1>2 DEF Protocol, ResourceKnown
  <2>2. \A s : Derived(s)' = Derived(s)
    BY <1>4 DEF Derived
  <2>3. ASSUME ~closed', NEW s \in Run, stage'[s] = "settled",
               got'[s].kind = "resource", active' = s
        PROVE  Derived(s)' \subseteq resources'
    <3>1. CASE s = r
      BY <1>3, <1>4, <2>1, <2>2, <2>3, <3>1 DEF Ports
    <3>2. CASE s # r
      BY <1>3, <1>4, <1>5, <2>2, <2>3, <3>2 DEF Protocol, ResourceKnown, Ports
    <3> QED BY <3>1, <3>2
  <2>4. ResourcesHonoured'
    BY <1>3, <1>4 DEF Protocol, ResourceKnown, ResourcesHonoured
  <2> QED BY <1>1, <2>3, <2>4 DEF ResourceKnown
<1>10. OpsAborted'
  BY <1>3 DEF Protocol, OpsAborted
<1> QED BY <1>6, <1>7, <1>8, <1>9, <1>10 DEF Protocol

LEMMA WorkerRevokeStep ==
  ASSUME InstanceInv, Ports, Protocol, workerRevoke
  PROVE  Protocol'
<1> USE DEF hostVars
<1> DEFINE g == toWorker[1].name
<1>1. Takes("revoke") /\ UNCHANGED <<hostVars, up, serving, got, lost, toHost>>
  BY DEF workerRevoke, workerVars
<1>2. /\ UNCHANGED <<active, stage, calls, callee, tokens>>
      /\ revoked' = revoked \cup {g}
  BY <1>1, Taken DEF workerRevoke, revoke, callVars
<1>3. \A i \in 1..Len(toWorker') : /\ toWorker'[i] = toWorker[i + 1]
                                   /\ i + 1 \in 1..Len(toWorker)
                                   /\ i \in Int
  BY <1>1, Taken, SMTT(60)
<1>4. HostStates' /\ RequestPlace'
  BY <1>1, <1>2, TakeKeepsRequests DEF InstanceInv, Typed, TypeOK
<1>5. CallPlace'
  <2>1. \A r, n : Pending(r, n) <=> Pending(r, n)'
    BY <1>1, <1>2 DEF Pending
  <2>2. NoReply => NoReply'
    BY <1>3 DEF NoReply
  <2>3. ASSUME NEW i \in 1..Len(toWorker'), toWorker'[i].type = "reply"
        PROVE  /\ Pending(toWorker'[i].run, toWorker'[i].serial)
               /\ \A j \in 1..Len(toWorker') : toWorker'[j].type = "reply" => i = j
    <3>1. i + 1 \in 1..Len(toWorker) /\ toWorker'[i] = toWorker[i + 1] /\ i \in Int
      BY <1>3
    <3>2. ASSUME NEW j \in 1..Len(toWorker'), toWorker'[j].type = "reply" PROVE i = j
      <4>1. j + 1 \in 1..Len(toWorker) /\ toWorker'[j] = toWorker[j + 1] /\ j \in Int
        BY <1>3
      <4>2. i + 1 = j + 1
        BY <2>3, <3>1, <3>2, <4>1 DEF Protocol, CallPlace
      <4> QED BY <3>1, <4>1, <4>2
    <3> QED BY <2>3, <3>1, <3>2 DEF Protocol, CallPlace
  <2>4. (\A i \in 1..Len(toWorker) : toWorker[i].type = "reply" =>
           /\ Pending(toWorker[i].run, toWorker[i].serial)
           /\ \A j \in 1..Len(toWorker) : toWorker[j].type = "reply" => i = j)'
    BY <1>1, <1>2, <2>3 DEF Pending
  <2> QED BY <1>1, <1>2, <2>1, <2>2, <2>4 DEF Protocol, CallPlace
<1>6. RevocationTold'
  <2>1. /\ \A h \in hrevoked' : Told(h, Len(toWorker) + 1)'
        /\ \A i \in 1..Len(toWorker') :
              toWorker'[i].type = "reply" /\ toWorker'[i].got.late =>
                \A h \in callee'[toWorker'[i].run] : Told(h, i)'
    BY <1>1, <1>2, TakeKeepsTold
  <2> QED BY <1>1, <1>2, <2>1 DEF Protocol, RevocationTold, LateResultsDropped
<1>7. ResourceKnown'
  BY <1>1, <1>2, <1>3 DEF Protocol, ResourceKnown, Derived, ResourcesHonoured
<1>8. OpsAborted'
  BY <1>1 DEF Protocol, OpsAborted
<1> QED BY <1>4, <1>5, <1>6, <1>7, <1>8 DEF Protocol

\* While a script is on the stack no call of the instance is anywhere.
LEMMA NoCallWhileRunning ==
  ASSUME InstanceInv, Ports, Protocol, NEW r \in Run, script[r] = "running"
  PROVE  /\ ops = {} /\ NoReply
         /\ \A i \in 1..Len(toHost) : toHost[i].type # "invoke"
<1>1. \A s \in Run : \A n : ~Pending(s, n)
  BY OneCall DEF Pending
<1>2. ops = {}
  BY <1>1, OneOperation
<1>3. ASSUME NEW i \in 1..Len(toHost) PROVE toHost[i].type # "invoke"
  <2>1. toHost[i] \in HostMessage
    BY <1>3, ElementOfSeq DEF Ports
  <2> QED BY <1>1, <2>1, MessageFields DEF Protocol, CallPlace
<1>4. ASSUME NEW i \in 1..Len(toWorker) PROVE toWorker[i].type # "reply"
  <2>1. toWorker[i] \in WorkerMessage
    BY <1>4, ElementOfSeq DEF Ports
  <2> QED BY <1>1, <2>1, MessageFields DEF Protocol, CallPlace
<1> QED BY <1>2, <1>3, <1>4 DEF NoReply

LEMMA WorkerInvokeStep ==
  ASSUME InstanceInv, Ports, Protocol, lost = {}, NEW r \in Run, NEW t \in tokens,
         NEW A \in Arguments, workerInvoke(r, t, A)
  PROVE  Protocol'
<1> USE DEF hostVars
<1> DEFINE m == [type |-> "invoke", run |-> r, serial |-> calls[r] + 1, on |-> t,
                 args |-> A]
<1>1. up /\ invoke(r, t, A) /\ Send(m) /\ UNCHANGED <<hostVars, up, serving, got, lost, toWorker>>
  BY DEF workerInvoke, workerVars
<1>2. m \in HostMessage
  BY <1>1, InvokeMade DEF InstanceInv
<1>3. /\ active = r /\ script[r] = "running" /\ UNCHANGED <<active, revoked, tokens>>
      /\ calls' = [calls EXCEPT ![r] = @ + 1]
      /\ stage' = [stage EXCEPT ![r] = "provider"]
      /\ callee' = [callee EXCEPT ![r] = {t.name}]
  BY <1>1 DEF invoke, Live
<1>4. /\ stage \in [Run -> Stage] /\ calls \in [Run -> 0..HostCalls + 1]
      /\ callee \in [Run -> SUBSET Grants] /\ r # NoRun
      /\ \A s \in Run : stage[s] = "none"
  BY <1>3, OneCall DEF InstanceInv, Typed, TypeOK
<1>5. calls'[r] = calls[r] + 1 /\ stage'[r] = "provider" /\ callee'[r] = {t.name}
      /\ \A s \in Run : stage'[s] # "settled" /\ stage'[s] # "return"
  BY <1>3, <1>4
<1>6. ops = {} /\ NoReply /\ ~closed
      /\ \A i \in 1..Len(toHost) : toHost[i].type # "invoke"
  BY <1>1, <1>3, NoCallWhileRunning DEF Protocol, HostStates
<1>7. waiter \in Request /\ serving[r] = waiter /\ hcalls <= calls[r]
      /\ \A i \in 1..Len(toWorker) : ~Asks(toWorker[i])
  BY <1>3, <1>4, <1>6 DEF Protocol, RequestPlace
<1>8. Len(toHost) = 0
  <2>1. SUFFICES ASSUME NEW i \in 1..Len(toHost) PROVE FALSE
    BY LenProperties DEF Ports
  <2>2. toHost[i] \in HostMessage
    BY <2>1, ElementOfSeq DEF Ports
  <2> QED BY <1>3, <1>4, <1>6, <2>1, <2>2, MessageFields DEF Protocol, RequestPlace
<1>9. Len(toHost') = 1 /\ toHost'[1] = m
  BY <1>1, <1>2, <1>8, Sent
<1>10. \A i \in 1..Len(toHost') : i = 1 /\ toHost'[i] = m
  BY <1>9
<1>11. HostStates'
  BY <1>1, <1>6 DEF Protocol, HostStates
<1>12. RequestPlace'
  <2>1. hcalls' <= calls'[r]
    BY <1>1, <1>4, <1>5, <1>7 DEF Ports
  <2>2. \A i \in 1..Len(toHost') : toHost'[i].type # "answer"
    BY <1>10
  <2> QED BY <1>1, <1>3, <1>7, <2>1, <2>2 DEF RequestPlace, Asks
<1>13. CallPlace'
  <2>1. hcalls' <= HostCalls /\ hcalls' < calls'[r]
    BY <1>1, <1>4, <1>5, <1>7 DEF Protocol, CallPlace, Ports
  <2>2. m.type = "invoke" /\ m.run = r /\ m.serial = calls'[r] /\ m.on.name = t.name
    BY <1>5
  <2>3. NoReply' /\ ops' = {}
    BY <1>1, <1>6 DEF NoReply
  <2>4. waiter' \in Request /\ serving'[r] = waiter'
    BY <1>1, <1>7
  <2>5. r \notin lost'
    BY <1>1
  <2> HIDE DEF m
  <2> QED BY <1>5, <1>10, <2>1, <2>2, <2>3, <2>4, <2>5 DEF CallPlace, Pending, NoReply
<1>14. RevocationTold'
  <2>1. \A i \in 1..Len(toWorker') : toWorker'[i].type # "reply"
    BY <1>1, <1>6 DEF NoReply
  <2>2. up' => \A g \in hrevoked' : Told(g, Len(toWorker) + 1)'
    BY <1>1, <1>3 DEF Protocol, RevocationTold, Told
  <2> QED BY <1>5, <2>1, <2>2 DEF RevocationTold, LateResultsDropped
<1>15. ResourceKnown'
  <2>1. \A i \in 1..Len(toWorker') : toWorker'[i].type # "reply"
    BY <1>1, <1>6 DEF NoReply
  <2>2. ResourcesHonoured'
    BY <1>1, <1>3 DEF Protocol, ResourceKnown, ResourcesHonoured
  <2> QED BY <1>5, <2>1, <2>2 DEF ResourceKnown
<1>16. OpsAborted'
  BY <1>1 DEF Protocol, OpsAborted
<1> QED BY <1>11, <1>12, <1>13, <1>14, <1>15, <1>16 DEF Protocol

(***************************************************************************)
(* What the steps of the instance that send nothing leave alone: the call   *)
(* that is pending, and whatever was not settled before.                    *)
(***************************************************************************)
Quiet ==
  /\ UNCHANGED <<active, revoked, callee>>
  /\ \A r \in Run :
       /\ stage'[r] = "provider" <=> stage[r] = "provider"
       /\ stage[r] # "none" => calls'[r] = calls[r]
       /\ calls'[r] \in Nat /\ calls[r] <= calls'[r]
       /\ stage'[r] = "settled" => stage[r] = "settled"
       /\ stage'[r] = "return" =>
            \/ stage[r] = "return"
            \/ stage[r] = "settled" /\ callee[r] \cap revoked = {}
  /\ \A t \in tokens' : t \in tokens \/ \E r \in Run :
       /\ stage[r] = "settled" /\ got[r].kind = "resource" /\ active = r
       /\ t \in Derived(r)

LEMMA InternalIsQuiet ==
  ASSUME InstanceInv, NEW r \in Run, workerInternal(r)
  PROVE  Quiet
<1> USE DEF InstanceInv, Typed, TypeOK, Quiet, callVars
<1>1. stage \in [Run -> Stage] /\ calls \in [Run -> Nat]
  BY HostCallsAssumption
<1>2. ASSUME NEW counted \in BOOLEAN, invokeRefused(r, counted) PROVE Quiet
  <2>1. stage[r] = "none"
    BY <1>2, OneCall DEF invokeRefused
  <2> QED BY <1>1, <1>2, <2>1 DEF invokeRefused
<1>3. ASSUME NEW how \in {"value", "fault"}, scriptEnds(r, how) PROVE Quiet
  BY <1>1, <1>3 DEF scriptEnds
<1>4. CASE invokeReturns(r, got[r].kind = "resource")
  <2>1. /\ stage[r] = "settled" /\ active = r /\ callee[r] \cap revoked = {}
        /\ stage' = [stage EXCEPT ![r] = "return"]
        /\ UNCHANGED <<active, revoked, callee, calls>>
    BY <1>4 DEF invokeReturns, StillGranted, Live
  <2>2. tokens' = tokens \cup (IF got[r].kind = "resource" THEN Derived(r) ELSE {})
    BY <1>4 DEF invokeReturns, Derived
  <2> QED BY <1>1, <2>1, <2>2
<1>5. CASE invokeThrows(r)
  BY <1>1, <1>5 DEF invokeThrows
<1>6. CASE scriptResumes(r)
  BY <1>1, <1>6 DEF scriptResumes
<1>7. CASE scriptUnwinds(r)
  BY <1>1, <1>7 DEF scriptUnwinds
<1> QED BY <1>2, <1>3, <1>4, <1>5, <1>6, <1>7 DEF workerInternal

LEMMA TimeoutIsQuiet ==
  ASSUME InstanceInv, workerTimeout
  PROVE  Quiet
BY HostCallsAssumption
DEF workerTimeout, Timeout, cancel, callVars, InstanceInv, Typed, TypeOK, Quiet

LEMMA QuietStep ==
  ASSUME InstanceInv, Ports, Protocol, Quiet,
         UNCHANGED <<hostVars, workerVars, toWorker, toHost>>
  PROVE  Protocol'
<1> USE DEF hostVars, workerVars
<1>1. \A r \in Run : \A n : Pending(r, n) => Pending(r, n)'
  BY DEF Quiet, Pending
<1>2. /\ \A i \in 1..Len(toHost) : toHost[i].type = "invoke" => toHost[i].run \in Run
      /\ \A i \in 1..Len(toWorker) : toWorker[i].type = "reply" => toWorker[i].run \in Run
      /\ \A o \in ops : o.run \in Run
  BY ElementOfSeq, MessageFields DEF Ports, Op
<1>3. HostStates'
  BY DEF Protocol, HostStates
<1>4. RequestPlace'
  <2>1. active # NoRun /\ ~closed => hcalls <= calls'[active]
    <3> SUFFICES ASSUME active # NoRun, ~closed PROVE hcalls <= calls'[active]
      OBVIOUS
    <3>1. active \in Run /\ calls[active] \in Nat /\ hcalls \in Nat
      <4>1. active \in Run \cup {NoRun} /\ calls \in [Run -> 0..HostCalls + 1]
        BY DEF InstanceInv, Typed, TypeOK
      <4>2. hcalls \in Nat
        BY DEF Ports
      <4> QED BY <4>1, <4>2, HostCallsAssumption
    <3> QED BY <3>1 DEF Quiet, Protocol, RequestPlace
  <2> QED BY <2>1 DEF Quiet, Protocol, RequestPlace, Asks, NoReply
<1>5. CallPlace'
  <2>1. NoReply' = NoReply
    BY DEF NoReply
  <2>2. callee' = callee
    BY DEF Quiet
  <2> QED BY <1>1, <1>2, <2>1, <2>2 DEF Protocol, CallPlace
<1>6. RevocationTold'
  <2>1. \A g, n : Told(g, n) => Told(g, n)'
    BY DEF Quiet, Told
  <2>2. Len(toWorker') = Len(toWorker)
    OBVIOUS
  <2>3. (up => \A g \in hrevoked : Told(g, Len(toWorker) + 1))'
    BY DEF Quiet, Protocol, RevocationTold, Told
  <2>4. (\A i \in 1..Len(toWorker) :
          toWorker[i].type = "reply" /\ toWorker[i].got.late =>
            \A g \in callee[toWorker[i].run] : Told(g, i))'
    BY <2>1 DEF Quiet, Protocol, RevocationTold
  <2>5. \A r \in Run : stage'[r] = "settled" /\ got'[r].late => callee'[r] \subseteq revoked'
    BY DEF Quiet, Protocol, RevocationTold
  <2>6. LateResultsDropped'
    <3> SUFFICES ASSUME NEW r \in Run, stage'[r] = "return", got[r].late PROVE FALSE
      BY DEF LateResultsDropped
    <3>1. stage[r] # "return"
      BY DEF Protocol, RevocationTold, LateResultsDropped
    <3>2. stage[r] = "settled" /\ callee[r] \cap revoked = {}
      BY <3>1 DEF Quiet
    <3>3. callee[r] = {} /\ callee[r] # {}
      BY <3>2 DEF Protocol, RevocationTold, InstanceInv, Delivered
    <3> QED BY <3>3
  <2> QED BY <2>3, <2>4, <2>5, <2>6 DEF RevocationTold
<1>7. ResourceKnown'
  <2>1. \A r \in Run : stage[r] # "none" => Derived(r)' = Derived(r)
    BY DEF Quiet, Derived
  <2>2. ASSUME NEW i \in 1..Len(toWorker'), toWorker'[i].type = "reply",
               toWorker'[i].got.kind = "resource", toWorker'[i].run = active'
        PROVE  Derived(active)' \subseteq resources'
    <3>1. active \in Run /\ Pending(active, toWorker[i].serial)
      BY <1>2, <2>2 DEF Quiet, Protocol, CallPlace
    <3>2. stage[active] # "none" /\ calls'[active] = calls[active]
      BY <3>1 DEF Pending, Quiet
    <3> QED BY <2>2, <3>2 DEF Quiet, Protocol, ResourceKnown, Derived
  <2>3. ASSUME ~closed', NEW r \in Run, stage'[r] = "settled",
               got'[r].kind = "resource", active' = r
        PROVE  Derived(r)' \subseteq resources'
    BY <2>1, <2>3 DEF Quiet, Protocol, ResourceKnown
  <2>4. ResourcesHonoured'
    BY DEF Quiet, Protocol, ResourceKnown, ResourcesHonoured
  <2> QED BY <2>2, <2>3, <2>4 DEF ResourceKnown
<1>8. OpsAborted'
  BY DEF Protocol, OpsAborted
<1> QED BY <1>3, <1>4, <1>5, <1>6, <1>7, <1>8 DEF Protocol

LEMMA WorkerSettlesStep ==
  ASSUME InstanceInv, Ports, Protocol, NEW r \in Run, NEW decodes \in BOOLEAN,
         workerSettles(r, decodes)
  PROVE  Protocol'
<1> USE DEF hostVars
<1> DEFINE m == Answer(serving[r], outcome'[r])
<1>1. up /\ runSettles(r, decodes) /\ Send(m)
      /\ UNCHANGED <<hostVars, up, serving, got, lost, toWorker>>
  BY DEF workerSettles, workerVars
<1>2. /\ active = r /\ active' = NoRun /\ tokens' = {}
      /\ UNCHANGED <<revoked, stage, calls, callee>>
  BY <1>1 DEF runSettles, callVars
<1>3. /\ outcome'[r] \in {"value", "failed"}
      /\ outcome'[r] = "value" => race[r] = "value"
  BY <1>1 DEF runSettles, InstanceInv, Typed, TypeOK
<1>4. waiter \in Request /\ serving[r] = waiter /\ ~closed
  BY <1>1, <1>2 DEF Protocol, RequestPlace, HostStates
<1>5. m \in HostMessage
  BY <1>3, <1>4, MessageMade
<1>6. m.type = "answer" /\ m.req = waiter /\ m.how = outcome'[r]
  BY <1>4 DEF Answer
<1> HIDE DEF m
<1>7. /\ Len(toHost) \in Nat /\ Len(toHost') = Len(toHost) + 1
      /\ \A i \in 1..Len(toHost) : toHost'[i] = toHost[i]
      /\ toHost'[Len(toHost) + 1] = m
  BY <1>1, <1>5, Sent, LenProperties DEF Ports
<1>8. /\ \A i \in 1..Len(toHost) : toHost[i].type # "answer"
      /\ \A i \in 1..Len(toWorker) : ~Asks(toWorker[i])
  BY <1>2 DEF Protocol, RequestPlace
<1>9. outcome'[r] = "value" => Len(toHost) = 0 /\ ops = {} /\ NoReply
  <2> SUFFICES ASSUME outcome'[r] = "value" PROVE Len(toHost) = 0 /\ ops = {} /\ NoReply
    OBVIOUS
  <2>1. stage[r] = "none" /\ r = started
    BY <1>2, <1>3
    DEF InstanceInv, Delivered, Lifetimes, StacksAreLatest, ActiveIsLatest, Typed, TypeOK
  <2>2. \A s \in Run : \A n : ~Pending(s, n)
    BY <2>1, OneCall DEF Pending
  <2>3. ops = {}
    BY <2>2, OneOperation
  <2>4. ASSUME NEW i \in 1..Len(toHost) PROVE FALSE
    <3>1. toHost[i] \in HostMessage
      BY <2>4, ElementOfSeq DEF Ports
    <3> QED BY <1>8, <2>2, <2>4, <3>1, MessageFields DEF Protocol, CallPlace
  <2>5. NoReply
    BY <2>2, ElementOfSeq, MessageFields DEF Protocol, CallPlace, NoReply, Ports
  <2> QED BY <1>7, <2>3, <2>4, <2>5
<1>10. \A i \in 1..Len(toHost') :
         \/ i \in 1..Len(toHost) /\ toHost'[i] = toHost[i]
         \/ i = Len(toHost') /\ toHost'[i] = m
  BY <1>7
<1>11. HostStates'
  BY <1>1, <1>4 DEF Protocol, HostStates
<1>12. RequestPlace'
  <2>1. \A i \in 1..Len(toHost') : toHost'[i].type = "answer" =>
          i = Len(toHost') /\ toHost'[i] = m
    BY <1>8, <1>10
  <2>2. m.how = "value" => Len(toHost') = 1 /\ ops' = {} /\ NoReply'
    BY <1>1, <1>6, <1>7, <1>9 DEF NoReply
  <2> QED BY <1>1, <1>2, <1>6, <1>8, <2>1, <2>2 DEF RequestPlace, Asks
<1>13. CallPlace'
  <2>1. \A i \in 1..Len(toHost') : toHost'[i].type = "invoke" =>
          i \in 1..Len(toHost) /\ toHost'[i] = toHost[i]
    BY <1>6, <1>10
  <2>2. \A s, n : Pending(s, n) <=> Pending(s, n)'
    BY <1>1, <1>2 DEF Pending
  <2>3. NoReply' = NoReply
    BY <1>1 DEF NoReply
  <2>4. (\A i \in 1..Len(toHost) : toHost[i].type = "invoke" =>
           /\ i = 1 /\ Pending(toHost[i].run, toHost[i].serial)
           /\ callee[toHost[i].run] = {toHost[i].on.name}
           /\ waiter \in Request /\ serving[toHost[i].run] = waiter
           /\ hcalls < toHost[i].serial
           /\ ops = {} /\ NoReply)'
    <3> SUFFICES ASSUME NEW i \in 1..Len(toHost'), toHost'[i].type = "invoke"
                 PROVE  /\ i = 1 /\ Pending(toHost'[i].run, toHost'[i].serial)
                        /\ callee'[toHost'[i].run] = {toHost'[i].on.name}
                        /\ waiter' \in Request /\ serving'[toHost'[i].run] = waiter'
                        /\ hcalls' < toHost'[i].serial
                        /\ ops' = {} /\ NoReply'
      BY <1>1, <1>2 DEF Pending
    <3>1. i \in 1..Len(toHost) /\ toHost'[i] = toHost[i]
      BY <2>1
    <3> QED BY <1>1, <1>2, <2>3, <3>1 DEF Protocol, CallPlace
  <2>5. (\A o \in ops : /\ Pending(o.run, o.serial) /\ callee[o.run] = {o.name}
                        /\ serving[o.run] = o.req /\ NoReply)'
    BY <1>1, <1>2, <2>2, <2>3 DEF Protocol, CallPlace
  <2>6. (\A i \in 1..Len(toWorker) : toWorker[i].type = "reply" =>
           /\ Pending(toWorker[i].run, toWorker[i].serial)
           /\ \A j \in 1..Len(toWorker) : toWorker[j].type = "reply" => i = j)'
    BY <1>1, <2>2 DEF Protocol, CallPlace
  <2> QED BY <1>1, <2>4, <2>5, <2>6 DEF Protocol, CallPlace
<1>14. RevocationTold'
  BY <1>1, <1>2 DEF Protocol, RevocationTold, Told, LateResultsDropped
<1>15. ResourceKnown'
  <2>1. \A i \in 1..Len(toWorker') : toWorker'[i].type = "reply" => toWorker'[i].run \in Run
    BY <1>1, ElementOfSeq, MessageFields DEF Ports
  <2> QED BY <1>2, <2>1 DEF ResourceKnown, ResourcesHonoured
<1>16. OpsAborted'
  BY <1>1 DEF Protocol, OpsAborted
<1> QED BY <1>11, <1>12, <1>13, <1>14, <1>15, <1>16 DEF Protocol

LEMMA WorkerDiesStep ==
  ASSUME InstanceInv, Ports, Protocol, workerDies
  PROVE  Protocol'
<1> USE DEF hostVars
<1>1. UNCHANGED <<vars, hostVars, serving, got, lost, toHost>> /\ ~up' /\ toWorker' = << >>
  BY DEF workerDies
<1>2. Len(toWorker') = 0
  BY <1>1
<1>3. HostStates' /\ RequestPlace'
  <2>1. NoReply'
    BY <1>2 DEF NoReply
  <2>2. HostStates'
    BY <1>1, <1>2 DEF Protocol, HostStates
  <2>3. RequestPlace'
    BY <1>1, <1>2, <2>1 DEF Protocol, RequestPlace, vars
  <2> QED BY <2>2, <2>3
<1>4. CallPlace'
  <2>1. NoReply'
    BY <1>2 DEF NoReply
  <2>2. \A s, n : Pending(s, n) <=> Pending(s, n)'
    BY <1>1 DEF Pending, vars
  <2>3. UNCHANGED <<callee, waiter, serving, hcalls, ops, toHost>>
    BY <1>1 DEF vars
  <2>4. (\A i \in 1..Len(toHost) : toHost[i].type = "invoke" =>
           /\ i = 1 /\ Pending(toHost[i].run, toHost[i].serial)
           /\ callee[toHost[i].run] = {toHost[i].on.name}
           /\ waiter \in Request /\ serving[toHost[i].run] = waiter
           /\ hcalls < toHost[i].serial
           /\ ops = {} /\ NoReply)'
    <3> HIDE DEF Pending, NoReply
    <3> QED BY <2>1, <2>2, <2>3 DEF Protocol, CallPlace
  <2>5. (\A o \in ops : /\ Pending(o.run, o.serial) /\ callee[o.run] = {o.name}
                        /\ serving[o.run] = o.req /\ NoReply)'
    <3> HIDE DEF Pending, NoReply
    <3> QED BY <2>1, <2>2, <2>3 DEF Protocol, CallPlace
  <2>6. hcalls' <= HostCalls
    BY <2>3 DEF Protocol, CallPlace
  <2>7. (\A i \in 1..Len(toWorker) : toWorker[i].type = "reply" =>
           /\ Pending(toWorker[i].run, toWorker[i].serial)
           /\ \A j \in 1..Len(toWorker) : toWorker[j].type = "reply" => i = j)'
    <3>1. 1..Len(toWorker') = {}
      BY <1>2
    <3> QED BY <3>1, Zenon
  <2> QED BY <2>4, <2>5, <2>6, <2>7, Zenon DEF CallPlace
<1>5. RevocationTold' /\ ResourceKnown'
  BY <1>1, <1>2 DEF Protocol, RevocationTold, LateResultsDropped, ResourceKnown,
                    Derived, ResourcesHonoured, vars
<1>6. OpsAborted'
  BY <1>1 DEF Protocol, OpsAborted
<1> QED BY <1>3, <1>4, <1>5, <1>6 DEF Protocol

-----------------------------------------------------------------------------
(* The theorems.                                                           *)

LEMMA ProtocolPreserved ==
  ASSUME InstanceInv, Ports, Protocol, [SNext]_svars, lost = {}, lost' = lost
  PROVE  Protocol'
<1>1. CASE HostTask
  BY <1>1, StopStep, FinishStep, InvokeStep, DeniedStep, AnswerStep
  DEF HostTask, deadline, workerExited, receiveInitError
<1>2. CASE HostEmbedder
  BY <1>2, StopStep, RunStep, UncloneableStep, RevokeStep, OpSettlesStep
  DEF HostEmbedder, close
<1>3. CASE Worker
  <2>1. ASSUME NEW r \in Run, workerInternal(r) PROVE Protocol'
    BY <2>1, InternalIsQuiet, QuietStep DEF workerInternal
  <2>2. CASE workerTimeout
    BY <2>2, TimeoutIsQuiet, QuietStep DEF workerTimeout
  <2> QED
    BY <1>3, <2>1, <2>2, WorkerAnswersAtOnce, WorkerRunStep, WorkerReplyStep,
       WorkerRevokeStep, WorkerInvokeStep, WorkerSettlesStep, WorkerDiesStep
    DEF Worker
<1>4. CASE UNCHANGED svars
  <2>1. UNCHANGED <<vars, hostVars, workerVars, toWorker, toHost>>
    BY <1>4 DEF svars
  <2>2. Quiet
    BY <2>1, HostCallsAssumption DEF Quiet, vars, InstanceInv, Typed, TypeOK
  <2> QED BY <2>1, <2>2, QuietStep
<1> QED BY <1>1, <1>2, <1>3, <1>4 DEF SNext

-----------------------------------------------------------------------------
(* A call that was forgotten.                                              *)

\* No run exists before createSandbox returned.
Fresh == waiter = InitRequest => started = 0

(***************************************************************************)
(* What is left when the worker forgot a call over a malformed resource:    *)
(* the script of that run stays suspended for ever, so no call and no value *)
(* is anywhere any more, and run() of the instance throws at once, because  *)
(* the run is still active or the instance is retired.  Only errors reach   *)
(* the host.                                                                *)
(***************************************************************************)
Stuck ==
  /\ HostStates
  /\ waiter # InitRequest
  /\ ops = {} /\ hcalls <= HostCalls
  /\ \A i \in 1..Len(toWorker) : toWorker[i].type \in {"run", "revoke"}
  /\ \A i \in 1..Len(toHost) : toHost[i].type = "answer" /\ toHost[i].how = "failed"
  /\ \E r \in lost : stage[r] = "provider"

\* What the instance adds: nothing of it moves but its timer and run() itself.
LEMMA SuspendedForEver ==
  ASSUME InstanceInv, NEW r \in Run, stage[r] = "provider"
  PROVE  /\ retired \/ active = r
         /\ \A s \in Run : script[s] # "running"
         /\ \A s \in Run : stage[s] \in {"none", "provider"}
         /\ \A s \in Run : active = s => race[s] # "value"
<1>1. \A s \in Run : stage[s] # "none" => s = started /\ script[s] = "suspended"
  BY OneCall
<1>2. r = started /\ script[r] = "suspended"
  BY <1>1
<1>3. retired \/ active = r
  BY <1>2 DEF InstanceInv, Lifetimes, ActiveIsLatest, StacksAreLatest, Unfinished
<1>4. \A s \in Run : script[s] # "running"
  BY OneCall
<1>5. \A s \in Run : stage[s] \in {"none", "provider"}
  BY <1>1, <1>2
<1>6. \A s \in Run : active = s => race[s] # "value"
  BY <1>2 DEF InstanceInv, Delivered, Lifetimes, ActiveIsLatest
<1> QED BY <1>3, <1>4, <1>5, <1>6

\* A call is forgotten when its reply is taken, and nothing else is under way.
LEMMA ForgottenCall ==
  ASSUME InstanceInv, Ports, Protocol, Fresh, [SNext]_svars, lost' # lost
  PROVE  Stuck'
<1> DEFINE m == toWorker[1]
<1>1. workerReply
  BY DEF SNext, HostTask, deadline, workerExited, hfinish, receiveInvoke, receiveDenied,
         receiveAnswer, receiveReady, receiveInitError, stop, Stop, HostEmbedder, close,
         hrun, hrunUncloneable, hrevoke, opSettles, Worker, workerInit, workerRun,
         workerRunRefused, workerRunRejected, workerRevoke, workerTimeout, workerDies,
         workerInvoke, workerInternal, workerSettles, workerVars, svars
<1>2. /\ m = Head(toWorker) /\ m.type = "reply" /\ 1 \in 1..Len(toWorker)
      /\ m.run \in Run /\ Pending(m.run, m.serial)
      /\ ops = {} /\ \A i \in 1..Len(toHost) : toHost[i].type # "invoke"
      /\ \A i \in 1..Len(toWorker') : /\ toWorker'[i] = toWorker[i + 1]
                                      /\ i + 1 \in 1..Len(toWorker)
                                      /\ toWorker'[i].type # "reply"
  BY <1>1, ReplyTaken DEF workerReply
<1>3. /\ Takes("reply") /\ UNCHANGED <<vars, hostVars, up>>
      /\ lost' = lost \cup {m.run} /\ Send(Answer(serving[m.run], "failed"))
  BY <1>1, <1>2 DEF workerReply
<1>4. stage[m.run] = "provider" /\ m.run = started
  BY <1>2, OneCall DEF Pending
<1>5. waiter # InitRequest
  BY <1>2, <1>4 DEF Fresh
<1>6. up /\ ~closed
  BY <1>3 DEF Takes, Protocol, HostStates
<1>7. HostStates'
  BY <1>3, <1>6 DEF hostVars, Protocol, HostStates
<1>8. ASSUME NEW i \in 1..Len(toWorker') PROVE toWorker'[i].type \in {"run", "revoke"}
  <2>1. i + 1 \in 1..Len(toWorker) /\ toWorker'[i] = toWorker[i + 1]
    BY <1>2
  <2>2. toWorker[i + 1] \in WorkerMessage
    BY <2>1, ElementOfSeq DEF Ports
  <2>3. toWorker[i + 1].type \in {"init", "run", "revoke", "reply"}
    BY <2>2 DEF WorkerMessage
  <2>4. toWorker[i + 1].type # "init"
    BY <1>5, <2>1 DEF Protocol, RequestPlace, Asks
  <2> QED BY <1>2, <2>1, <2>3, <2>4
<1>9. ASSUME NEW i \in 1..Len(toHost)
      PROVE  toHost[i].type = "answer" /\ toHost[i].how = "failed"
  <2>1. toHost[i] \in HostMessage
    BY <1>9, ElementOfSeq DEF Ports
  <2>2. /\ toHost[i].type = "answer" /\ toHost[i].how \in {"value", "failed"}
        /\ toHost[i].req = waiter /\ toHost[i].req \in 0..MaxRequests
    BY <1>2, <2>1, <1>9, MessageFields DEF Protocol, RequestPlace
  <2>3. waiter \in Request
    BY <1>5, <2>2, MaxRequestsAssumption
  <2>4. toHost[i].how # "value"
    BY <1>2, <1>9, <2>2, <2>3 DEF Protocol, RequestPlace, NoReply
  <2> QED BY <2>2, <2>4
<1>10. ASSUME NEW i \in 1..Len(toHost')
       PROVE  toHost'[i].type = "answer" /\ toHost'[i].how = "failed"
  <2> DEFINE a == Answer(serving[m.run], "failed")
  <2>1. a \in HostMessage /\ a.type = "answer" /\ a.how = "failed"
    BY <1>2, MessageMade DEF Answer, Ports
  <2> HIDE DEF a
  <2>2. /\ Len(toHost') = Len(toHost) + 1 /\ Len(toHost) \in Nat
        /\ \A j \in 1..Len(toHost) : toHost'[j] = toHost[j]
        /\ toHost'[Len(toHost) + 1] = a
    BY <1>3, <2>1, Sent, LenProperties DEF Ports, a
  <2> QED BY <1>9, <1>10, <2>1, <2>2
<1>11. /\ hcalls' <= HostCalls /\ ops' = {} /\ waiter' # InitRequest
       /\ m.run \in lost' /\ stage'[m.run] = "provider"
  BY <1>2, <1>3, <1>4, <1>5 DEF hostVars, vars, Protocol, CallPlace
<1> QED BY <1>7, <1>8, <1>10, <1>11 DEF Stuck

\* What the host posts to a stuck worker.
LEMMA StuckPosted ==
  ASSUME Ports, Stuck, NEW m \in WorkerMessage, m.type \in {"run", "revoke"}, Post(m)
  PROVE  \A i \in 1..Len(toWorker') : toWorker'[i].type \in {"run", "revoke"}
<1>1. \A i \in 1..Len(toWorker') :
        \/ i \in 1..Len(toWorker) /\ toWorker'[i] = toWorker[i]
        \/ toWorker'[i] = m
  BY Posted, LenProperties DEF Ports
<1> QED BY <1>1 DEF Stuck

LEMMA StuckStaysHost ==
  ASSUME InstanceInv, Ports, Stuck, HostTask \/ HostEmbedder
  PROVE  Stuck'
<1>1. ASSUME NEW q \in 0..MaxRequests, Stop(q), request' = q, ops' = ops,
             busy' => ready', hcalls' <= HostCalls
      PROVE  Stuck'
  <2>1. /\ closed' /\ ~up' /\ waiter' = Nothing
        /\ toWorker' = << >> /\ toHost' = << >> /\ UNCHANGED <<vars, lost>>
    BY <1>1 DEF Stop
  <2>2. HostStates' /\ waiter' # InitRequest
    BY <1>1, <2>1, MaxRequestsAssumption DEF HostStates
  <2>3. Len(toWorker') = 0 /\ Len(toHost') = 0
    BY <2>1
  <2> QED BY <1>1, <2>1, <2>2, <2>3 DEF Stuck, vars
<1>2. CASE stop
  <2>1. request \in 0..MaxRequests /\ busy' => ready' /\ hcalls' <= HostCalls
    BY <1>2 DEF stop, Stuck, HostStates, Ports
  <2> QED BY <1>1, <1>2, <2>1 DEF stop, Ports, Stuck, HostStates
<1>3. CASE hrunUncloneable
  <2>1. /\ request + 1 \in 0..MaxRequests /\ request' = request + 1 /\ ready'
        /\ ops' = ops /\ hcalls' <= HostCalls
    BY <1>3, MaxRequestsAssumption, HostCallsAssumption
    DEF hrunUncloneable, Opens, Ports
  <2> QED BY <1>1, <1>3, <2>1 DEF hrunUncloneable
<1>4. CASE hrun
  <2> DEFINE m == [type |-> "run", req |-> request + 1]
  <2>1. /\ request + 1 \in Request /\ request' = request + 1 /\ waiter' = request + 1
        /\ ready' /\ busy' /\ ~closed' /\ hcalls' = 0 /\ Post(m) /\ m.type = "run"
        /\ UNCHANGED <<vars, ops, up, lost, toHost>>
    BY <1>4, MaxRequestsAssumption DEF hrun, Opens, Ports, workerVars
  <2>2. m \in WorkerMessage
    BY <2>1, MessageMade
  <2> HIDE DEF m
  <2>3. \A i \in 1..Len(toWorker') : toWorker'[i].type \in {"run", "revoke"}
    BY <2>1, <2>2, StuckPosted
  <2>4. HostStates' /\ waiter' # InitRequest
    BY <2>1, MaxRequestsAssumption DEF HostStates, Stuck, Post
  <2> QED BY <2>1, <2>3, <2>4, HostCallsAssumption DEF Stuck, vars
<1>5. CASE hfinish
  BY <1>5, MaxRequestsAssumption DEF hfinish, Stuck, HostStates, vars, workerVars
<1>6. ASSUME NEW g \in Grants, hrevoke(g) PROVE Stuck'
  <2> DEFINE m == [type |-> "revoke", name |-> g]
  <2>1. /\ Post(m) /\ m.type = "revoke"
        /\ UNCHANGED <<vars, ready, closed, busy, request, waiter, hcalls, ops, up, lost,
                       toHost>>
    BY <1>6 DEF hrevoke, workerVars
  <2>2. m \in WorkerMessage
    BY MessageMade
  <2> HIDE DEF m
  <2>3. \A i \in 1..Len(toWorker') : toWorker'[i].type \in {"run", "revoke"}
    BY <2>1, <2>2, StuckPosted
  <2>4. HostStates' /\ waiter' # InitRequest
    BY <2>1 DEF HostStates, Stuck, Post
  <2> QED BY <2>1, <2>3, <2>4 DEF Stuck, vars
<1>7. CASE receiveInvoke \/ receiveDenied
  <2>1. Receives("invoke")
    BY <1>7 DEF receiveInvoke, receiveDenied
  <2>2. toHost[1].type = "invoke" /\ 1 \in 1..Len(toHost)
    BY <2>1, Received
  <2> QED BY <2>2 DEF Stuck
<1>8. CASE receiveAnswer
  <2>1. /\ Receives("answer") /\ waiter' = Nothing
        /\ UNCHANGED <<vars, ready, closed, busy, request, hcalls, ops, up, lost,
                       toWorker>>
    BY <1>8 DEF receiveAnswer, workerVars
  <2>2. /\ ~closed /\ Len(toHost) \in Nat \ {0} /\ Len(toHost') = Len(toHost) - 1
        /\ \A i \in 1..Len(toHost') : toHost'[i] = toHost[i + 1]
    BY <2>1, Received
  <2>3. \A i \in 1..Len(toHost') :
          toHost'[i].type = "answer" /\ toHost'[i].how = "failed"
    BY <2>2 DEF Stuck
  <2>4. HostStates' /\ waiter' # InitRequest
    BY <2>1, <2>2, MaxRequestsAssumption DEF HostStates, Stuck, Ports
  <2> QED BY <2>1, <2>3, <2>4 DEF Stuck, vars
<1>9. CASE receiveReady
  BY <1>9 DEF receiveReady, Stuck
<1>10. ASSUME NEW o \in ops, NEW kind \in Result, opSettles(o, kind) PROVE Stuck'
  BY DEF Stuck
<1> QED
  BY <1>2, <1>3, <1>4, <1>5, <1>6, <1>7, <1>8, <1>9, <1>10
  DEF HostTask, HostEmbedder, close, deadline, workerExited, receiveInitError

LEMMA StuckStaysWorker ==
  ASSUME InstanceInv, Ports, Stuck, Worker
  PROVE  Stuck'
<1> USE DEF hostVars
<1>1. PICK r \in Run : r \in lost /\ stage[r] = "provider"
  BY DEF Stuck, Ports
<1>2. /\ retired \/ active = r
      /\ \A s \in Run : script[s] # "running"
      /\ \A s \in Run : stage[s] \in {"none", "provider"}
      /\ \A s \in Run : active = s => race[s] # "value"
  BY <1>1, SuspendedForEver
<1>3. ASSUME NEW type, Takes(type)
      PROVE  /\ up /\ type \in {"run", "revoke"}
             /\ \A i \in 1..Len(toWorker') : toWorker'[i].type \in {"run", "revoke"}
  <2>1. /\ up /\ toWorker[1].type = type
        /\ Len(toWorker) \in Nat \ {0} /\ Len(toWorker') = Len(toWorker) - 1
        /\ \A i \in 1..Len(toWorker') : toWorker'[i] = toWorker[i + 1]
    BY <1>3, Taken
  <2>2. 1 \in 1..Len(toWorker) /\ \A i \in 1..Len(toWorker') : i + 1 \in 1..Len(toWorker)
    BY <2>1
  <2> QED BY <2>1, <2>2 DEF Stuck
<1>4. ASSUME NEW q \in 0..MaxRequests, Send(Answer(q, "failed"))
      PROVE  \A i \in 1..Len(toHost') :
               toHost'[i].type = "answer" /\ toHost'[i].how = "failed"
  <2> DEFINE a == Answer(q, "failed")
  <2>1. a \in HostMessage /\ a.type = "answer" /\ a.how = "failed" /\ Send(a)
    BY <1>4, MessageMade DEF Answer
  <2> HIDE DEF a
  <2>2. /\ Len(toHost') = Len(toHost) + 1 /\ Len(toHost) \in Nat
        /\ \A j \in 1..Len(toHost) : toHost'[j] = toHost[j]
        /\ toHost'[Len(toHost) + 1] = a
    BY <2>1, Sent, LenProperties DEF Ports
  <2> QED BY <2>1, <2>2 DEF Stuck
<1>5. CASE workerInit \/ workerReply
  BY <1>3, <1>5 DEF workerInit, workerReply
<1>6. ASSUME NEW P \in SUBSET Grants, workerRun(P) PROVE Stuck'
  BY <1>1, <1>2, <1>6 DEF workerRun, run
<1>7. CASE workerRunRefused
  BY <1>1, <1>2, <1>7 DEF workerRunRefused, runRefused
<1>8. CASE workerRunRejected
  <2>1. /\ Takes("run") /\ Send(Answer(Head(toWorker).req, "failed"))
        /\ UNCHANGED <<vars, hostVars, up, lost>>
    BY <1>8 DEF workerRunRejected, workerVars
  <2>2. PICK q \in 0..MaxRequests : q = Head(toWorker).req
    BY <2>1, Taken, MessageFields
  <2>3. \A i \in 1..Len(toHost') :
          toHost'[i].type = "answer" /\ toHost'[i].how = "failed"
    BY <1>4, <2>1, <2>2
  <2>4. HostStates'
    BY <1>3, <2>1 DEF HostStates, Stuck
  <2> QED BY <1>3, <2>1, <2>3, <2>4 DEF Stuck, vars
<1>9. CASE workerRevoke
  <2>1. Takes("revoke") /\ UNCHANGED <<stage, hostVars, up, lost, toHost>>
    BY <1>9 DEF workerRevoke, workerVars, revoke, callVars
  <2>2. HostStates'
    BY <1>3, <2>1 DEF HostStates, Stuck
  <2> QED BY <1>3, <2>1, <2>2 DEF Stuck
<1>10. CASE workerTimeout
  <2>1. UNCHANGED <<stage, hostVars, workerVars, toWorker, toHost>>
    BY <1>10 DEF workerTimeout, Timeout, cancel, callVars
  <2> QED BY <2>1 DEF Stuck, HostStates, workerVars
<1>11. CASE workerDies
  <2>1. UNCHANGED <<vars, hostVars, lost, toHost>> /\ ~up' /\ toWorker' = << >>
    BY <1>11 DEF workerDies
  <2>2. Len(toWorker') = 0 /\ HostStates'
    BY <2>1 DEF HostStates, Stuck
  <2> QED BY <2>1, <2>2 DEF Stuck, vars
<1>12. ASSUME NEW s \in Run, NEW t \in tokens, NEW A \in Arguments,
              workerInvoke(s, t, A)
       PROVE  Stuck'
  BY <1>2, <1>12 DEF workerInvoke, invoke
<1>13. ASSUME NEW s \in Run, workerInternal(s) PROVE Stuck'
  BY <1>2, <1>13 DEF workerInternal, invokeRefused, scriptEnds, invokeReturns,
                     invokeThrows, scriptResumes, scriptUnwinds
<1>14. ASSUME NEW s \in Run, NEW decodes \in BOOLEAN, workerSettles(s, decodes)
       PROVE  Stuck'
  <2>1. /\ up /\ active = s /\ Send(Answer(serving[s], outcome'[s]))
        /\ UNCHANGED <<stage, hostVars, up, lost, toWorker>>
    BY <1>14 DEF workerSettles, runSettles, workerVars, callVars
  <2>2. outcome'[s] = "failed"
    BY <1>2, <1>14, <2>1 DEF workerSettles, runSettles, InstanceInv, Typed, TypeOK
  <2>3. PICK q \in 0..MaxRequests : q = serving[s]
    BY DEF Ports
  <2>4. \A i \in 1..Len(toHost') :
          toHost'[i].type = "answer" /\ toHost'[i].how = "failed"
    BY <1>4, <2>1, <2>2, <2>3
  <2>5. HostStates'
    BY <2>1 DEF HostStates, Stuck
  <2> QED BY <2>1, <2>4, <2>5 DEF Stuck
<1> QED
  BY <1>5, <1>6, <1>7, <1>8, <1>9, <1>10, <1>11, <1>12, <1>13, <1>14 DEF Worker

(***************************************************************************)
(* The inductive invariant: the protocol holds until a call is forgotten,   *)
(* and from then on the system is stuck.                                    *)
(***************************************************************************)
Conversation ==
  /\ Fresh
  /\ lost = {} => Protocol
  /\ lost # {} => Stuck

LEMMA FreshPreserved ==
  ASSUME InstanceInv, Ports, Conversation, [SNext]_svars
  PROVE  Fresh'
<1>1. waiter' = InitRequest => waiter = InitRequest
  <2>1. CASE HostTask
    BY <2>1, MaxRequestsAssumption
    DEF HostTask, deadline, workerExited, hfinish, receiveInvoke, receiveDenied,
        receiveAnswer, receiveReady, receiveInitError, stop, Stop
  <2>2. CASE HostEmbedder
    <3>1. CASE hrun
      BY <3>1 DEF hrun, Ports
    <3>2. CASE close \/ hrunUncloneable
      BY <3>2, MaxRequestsAssumption DEF close, stop, Stop, hrunUncloneable
    <3>3. ASSUME NEW g \in Grants, hrevoke(g) PROVE waiter' = waiter
      BY <3>3 DEF hrevoke
    <3>4. ASSUME NEW o \in ops, NEW kind \in Result, opSettles(o, kind)
          PROVE  waiter' = waiter
      BY <3>4 DEF opSettles
    <3> QED BY <2>2, <3>1, <3>2, <3>3, <3>4 DEF HostEmbedder
  <2>3. CASE Worker \/ UNCHANGED svars
    BY <2>3 DEF Worker, workerInit, workerRun, workerRunRefused, workerRunRejected,
       workerReply, workerRevoke, workerTimeout, workerDies, workerInvoke,
       workerInternal, workerSettles, hostVars, svars
  <2> QED BY <2>1, <2>2, <2>3 DEF SNext
<1>2. ASSUME waiter = InitRequest, Takes("run") PROVE FALSE
  <2>1. Protocol
    BY <1>2 DEF Conversation, Stuck
  <2> QED BY <1>2, <2>1, AskTaken
<1>3. ASSUME waiter = InitRequest PROVE started' = started
  <2>1. CASE HostTask \/ HostEmbedder
    BY <2>1 DEF HostTask, deadline, workerExited, hfinish, receiveInvoke, receiveDenied,
       receiveAnswer, receiveReady, receiveInitError, stop, Stop, HostEmbedder, close,
       hrun, hrunUncloneable, hrevoke, opSettles, vars
  <2>2. CASE Worker
    BY <1>2, <1>3, <2>2
    DEF Worker, workerInit, workerRun, workerRunRefused, workerRunRejected, workerReply,
        workerRevoke, workerTimeout, workerDies, workerInvoke, workerInternal,
        workerSettles, vars, runVars, Timeout, cancel, revoke, invoke, invokeRefused,
        scriptEnds, invokeReturns, invokeThrows, scriptResumes, scriptUnwinds, runSettles,
        ProviderResolves, ProviderRejects
  <2>3. CASE UNCHANGED svars
    BY <2>3 DEF svars, vars
  <2> QED BY <2>1, <2>2, <2>3 DEF SNext
<1> QED BY <1>1, <1>3 DEF Fresh, Conversation

LEMMA ConversationPreserved ==
  ASSUME InstanceInv, Ports, Conversation, [SNext]_svars
  PROVE  Conversation'
<1>1. CASE lost = {}
  <2>1. Protocol /\ Fresh
    BY <1>1 DEF Conversation
  <2>2. CASE lost' = lost
    BY <1>1, <2>1, <2>2, ProtocolPreserved, FreshPreserved DEF Conversation
  <2>3. CASE lost' # lost
    BY <1>1, <2>1, <2>3, ForgottenCall, FreshPreserved DEF Conversation
  <2> QED BY <2>2, <2>3
<1>2. CASE lost # {}
  <2>1. Stuck
    BY <1>2 DEF Conversation
  <2>2. ASSUME UNCHANGED svars PROVE Stuck'
    <3>1. UNCHANGED <<stage, hostVars, workerVars, toWorker, toHost>>
      BY <2>2 DEF svars, vars
    <3> QED BY <2>1, <3>1 DEF hostVars, workerVars, Stuck, HostStates
  <2>3. Stuck'
    BY <2>1, <2>2, StuckStaysHost, StuckStaysWorker DEF SNext
  <2>4. lost' # {}
    BY <2>3 DEF Stuck
  <2> QED BY <2>3, <2>4, FreshPreserved DEF Conversation
<1> QED BY <1>1, <1>2

LEMMA ProtocolInvariant == SSpec => [](InstanceInv /\ Ports /\ Conversation)
<1>1. Spec => []InstanceInv
  <2>1. Typed /\ Lifetimes /\ Delivered /\ AuthorityConfined => InstanceInv
    BY DEF InstanceInv
  <2> QED
    BY <2>1, TypedInvariant, LifetimesInvariant, DeliveredInvariant,
       AuthorityIsConfined, PTL
<1>2. SInit => Conversation
  BY ProtocolInitially DEF Conversation, Fresh, SInit, Init
<1>3. InstanceInv /\ Ports /\ Conversation /\ [SNext]_svars => Conversation'
  BY ConversationPreserved
<1> QED BY <1>1, <1>2, <1>3, WorkerRunsInstance, PortsInvariant, PTL DEF SSpec

(***************************************************************************)
(* Answers carry no request number, and hardly need one: in every reachable *)
(* state of the supervised system, which is well typed (the broker's        *)
(* counter stays within limits.hostCalls although a denied call counts      *)
(* without a look at the limit), an answer on its way is for the request    *)
(* that the host waits for, unless a malformed resource made the worker     *)
(* forget a call, and then it is an error.                                  *)
(***************************************************************************)
THEOREM AnswersReachTheirRequest == SSpec => []AnswersAreAwaited
<1>1. ASSUME InstanceInv, Ports, Conversation PROVE AnswersAreAwaited
  <2>1. {ready, closed, busy, up} \subseteq BOOLEAN
    BY <1>1 DEF Ports
  <2>2. hcalls \in 0..HostCalls
    BY <1>1, HostCallsAssumption DEF Ports, Conversation, Protocol, CallPlace, Stuck
  <2>3. STypeOK
    BY <1>1, <2>1, <2>2 DEF STypeOK, Ports, InstanceInv, Typed
  <2>4. DOMAIN toHost = 1..Len(toHost)
    BY <1>1, LenProperties DEF Ports
  <2>5. \A i \in 1..Len(toHost) : toHost[i].type = "answer" =>
          toHost[i].req = waiter \/ (lost # {} /\ toHost[i].how = "failed")
    BY <1>1 DEF Conversation, Protocol, RequestPlace, Stuck
  <2> QED BY <2>3, <2>4, <2>5 DEF AnswersAreAwaited
<1> QED BY <1>1, ProtocolInvariant, PTL

(***************************************************************************)
(* A provider's operation belongs to the request whose script made the      *)
(* call, and its AbortSignal is aborted once that request is over: run()    *)
(* replaces `abort` only when nothing of the earlier request can arrive.    *)
(***************************************************************************)
THEOREM OperationsBelong == SSpec => []OpsBelongToRequest
<1>1. Conversation => OpsBelongToRequest
  BY DEF Conversation, Stuck, Protocol, CallPlace, OpsAborted, OpsBelongToRequest
<1> QED BY <1>1, ProtocolInvariant, PTL

(***************************************************************************)
(* A result that came after the host revoked its grant never reaches the    *)
(* script, although the broker does not look at `revoked` again: the        *)
(* revocation is ahead of it in the port.                                   *)
(***************************************************************************)
THEOREM LateResultsNeverReturn == SSpec => []LateResultsDropped
<1>1. ASSUME InstanceInv, Ports, Conversation PROVE LateResultsDropped
  <2>1. CASE lost = {}
    BY <1>1, <2>1 DEF Conversation, Protocol, RevocationTold
  <2>2. CASE lost # {}
    <3>1. PICK r \in Run : stage[r] = "provider"
      BY <1>1, <2>2 DEF Conversation, Stuck, Ports
    <3>2. \A s \in Run : stage[s] \in {"none", "provider"}
      BY <1>1, <3>1, SuspendedForEver
    <3> QED BY <3>2 DEF LateResultsDropped
  <2> QED BY <2>1, <2>2
<1> QED BY <1>1, ProtocolInvariant, PTL

(***************************************************************************)
(* A derived capability that a script holds is in the broker's table,       *)
(* although run() empties the table; a script that is suspended for ever    *)
(* has no use for its own.                                                  *)
(***************************************************************************)
THEOREM LiveResourcesKnown == SSpec => []ResourcesHonoured
<1>1. ASSUME InstanceInv, Ports, Conversation PROVE ResourcesHonoured
  <2>1. CASE lost = {}
    BY <1>1, <2>1 DEF Conversation, Protocol, ResourceKnown
  <2>2. CASE lost # {}
    <3>1. PICK r \in Run : r \in lost /\ stage[r] = "provider"
      BY <1>1, <2>2 DEF Conversation, Stuck, Ports
    <3>2. r = started
      BY <1>1, <3>1, OneCall
    <3>3. \A t \in tokens : t.run = r
      BY <1>1, <3>2, NoTokensBetweenRuns
      DEF InstanceInv, AuthorityConfined, Lifetimes, ActiveIsLatest
    <3> QED BY <3>1, <3>3 DEF ResourcesHonoured
  <2> QED BY <2>1, <2>2
<1> QED BY <1>1, ProtocolInvariant, PTL

-----------------------------------------------------------------------------
(* The contract.                                                           *)

\* The abstract variables of the mapping.
Current == IF waiter \in Request THEN waiter ELSE 0
HostWork == [q \in Request |-> {o.name : o \in {p \in ops : p.req = q}}]

\* Ending the service is Close, whether a request is being served or not.
LEMMA StopCloses ==
  ASSUME Ports, ~closed, stop
  PROVE  SContract!Next
<1>1. /\ closed' = TRUE /\ waiter' = Nothing /\ UNCHANGED <<hrevoked, request, ops>>
      /\ SettleAs(waiter, "failed")
  BY DEF stop, Stop
<1>2. Current' = 0 /\ HostWork' = HostWork
  BY <1>1, MaxRequestsAssumption DEF Current, HostWork
<1>3. CASE waiter \in Request
  <2>1. Current = waiter /\ Current # 0 /\ settled' = [settled EXCEPT ![Current] = "failed"]
    BY <1>1, <1>3 DEF Current, SettleAs
  <2>2. SContract!Close
    BY <1>1, <1>2, <2>1 DEF SContract!Close, Current, HostWork
  <2> QED BY <2>2 DEF SContract!Next
<1>4. CASE waiter \notin Request
  <2>1. Current' = Current /\ settled' = settled
    BY <1>1, <1>2, <1>4 DEF Current, SettleAs
  <2>2. SContract!Close
    BY <1>1, <1>2, <2>1 DEF SContract!Close, Current, HostWork
  <2> QED BY <2>2 DEF SContract!Next
<1> QED BY <1>3, <1>4

LEMMA RunBegins ==
  ASSUME Ports, HostStates, hrun \/ hrunUncloneable
  PROVE  SContract!Next
<1>1. /\ ~closed /\ request' = request + 1 /\ request + 1 \in Request
      /\ UNCHANGED <<hrevoked, ops>> /\ waiter = Nothing
  BY MaxRequestsAssumption DEF hrun, hrunUncloneable, Opens, Ports, HostStates
<1>2. Current = 0 /\ HostWork' = HostWork
  BY <1>1, MaxRequestsAssumption DEF Current, HostWork
<1>3. CASE hrun
  <2>1. Current' = request + 1 /\ UNCHANGED <<closed, settled>>
    BY <1>1, <1>3 DEF hrun, Current
  <2>2. SContract!Begin
    BY <1>1, <1>2, <2>1 DEF SContract!Begin, Current, HostWork
  <2> QED BY <2>2 DEF SContract!Next
<1>4. CASE hrunUncloneable
  <2>1. closed' = TRUE /\ settled' = [settled EXCEPT ![request + 1] = "failed"]
    BY <1>1, <1>4 DEF hrunUncloneable, Stop, SettleAs
  <2>2. Current' = 0
    BY <1>4, MaxRequestsAssumption DEF hrunUncloneable, Stop, Current
  <2>3. SContract!Refuse
    BY <1>1, <1>2, <2>1, <2>2 DEF SContract!Refuse, Current, HostWork
  <2> QED BY <2>3 DEF SContract!Next
<1> QED BY <1>3, <1>4

LEMMA InvokeStarts ==
  ASSUME InstanceInv, Ports, Protocol, receiveInvoke
  PROVE  SContract!Next
<1> DEFINE m == toHost[1]
           g == m.on.name
           o == [run |-> m.run, serial |-> m.serial, name |-> g, req |-> request]
<1>1. /\ Head(toHost) = m /\ g \in Grants /\ waiter \in Request /\ ops = {}
  BY InvokeReceived DEF receiveInvoke
<1>2. /\ ops' = {o} /\ g \notin hrevoked
      /\ UNCHANGED <<closed, hrevoked, request, waiter, settled>>
  BY <1>1 DEF receiveInvoke, Admissible
<1>3. ~closed /\ waiter = request
  BY <1>1 DEF Protocol, HostStates
<1>4. Current = request /\ Current' = Current /\ Current # 0 /\ Current \in Request
  BY <1>1, <1>2, <1>3 DEF Current
<1>5. HostWork = [q \in Request |-> {}]
  BY <1>1 DEF HostWork
<1>6. HostWork' = [q \in Request |-> IF q = request THEN {g} ELSE {}]
  <2>1. o.name = g /\ o.req = request
    OBVIOUS
  <2> HIDE DEF o, g
  <2>2. \A q \in Request : {p.name : p \in {x \in ops' : x.req = q}}
                             = IF q = request THEN {g} ELSE {}
    BY <1>2, <2>1
  <2> QED BY <2>2 DEF HostWork
<1>7. HostWork[Current] = {} /\ HostWork' = [HostWork EXCEPT ![Current] = {g}]
  BY <1>4, <1>5, <1>6
<1>8. PICK c \in Grants : c = g
  BY <1>1
<1>9. SContract!Start(c)
  BY <1>2, <1>3, <1>4, <1>7, <1>8 DEF SContract!Start, Current, HostWork
<1> QED BY <1>9 DEF SContract!Next

LEMMA OpFinishes ==
  ASSUME InstanceInv, Ports, Protocol, NEW o \in ops,
         NEW kind \in Result, opSettles(o, kind)
  PROVE  SContract!Next
<1>1. ops = {o} /\ o.req \in Request /\ ops' = {}
  BY OneOperation DEF opSettles
<1>2. UNCHANGED <<closed, hrevoked, request, waiter, settled>>
  BY DEF opSettles
<1>3. HostWork' = [q \in Request |-> {}]
  BY <1>1 DEF HostWork
<1>4. HostWork = [q \in Request |-> IF q = o.req THEN {o.name} ELSE {}]
  <2>1. \A q \in Request : {p.name : p \in {x \in ops : x.req = q}}
                             = IF q = o.req THEN {o.name} ELSE {}
    BY <1>1
  <2> QED BY <2>1 DEF HostWork
<1>5. HostWork[o.req] # {} /\ HostWork' = [HostWork EXCEPT ![o.req] = {}]
  BY <1>1, <1>3, <1>4
<1>6. Current' = Current
  BY <1>2 DEF Current
<1>7. SContract!Finish(o.req)
  BY <1>1, <1>2, <1>5, <1>6 DEF SContract!Finish, Current, HostWork
<1> QED BY <1>1, <1>7 DEF SContract!Next

LEMMA HiddenFromContract ==
  ASSUME UNCHANGED <<closed, hrevoked, request, settled, ops>>, Current' = Current
  PROVE  UNCHANGED SContract!vars
<1>1. HostWork' = HostWork
  BY DEF HostWork
<1> QED BY <1>1 DEF SContract!vars, Current, HostWork

\* A stray error that nobody waits for is invisible.
LEMMA AnswerSettles ==
  ASSUME InstanceInv, Ports, Conversation, receiveAnswer
  PROVE  SContract!Next \/ UNCHANGED SContract!vars
<1> DEFINE how == toHost[1].how
<1>1. /\ Receives("answer") /\ waiter # InitRequest /\ waiter' = Nothing
      /\ SettleAs(waiter, Head(toHost).how)
      /\ UNCHANGED <<closed, hrevoked, request, ops>>
  BY DEF receiveAnswer
<1>2. /\ Head(toHost) = toHost[1] /\ toHost[1] \in HostMessage /\ ~closed
      /\ toHost[1].type = "answer" /\ 1 \in 1..Len(toHost)
  BY <1>1, Received
<1>3. waiter \in 0..Nothing /\ waiter # InitRequest /\ how \in {"value", "failed"}
  BY <1>1, <1>2, MessageFields DEF Ports
<1>4. CASE waiter \notin Request
  <2>1. waiter = Nothing
    BY <1>3, <1>4, MaxRequestsAssumption DEF Request, Nothing, InitRequest
  <2>2. settled' = settled /\ Current' = Current
    BY <1>1, <2>1, MaxRequestsAssumption DEF SettleAs, Current
  <2> QED BY <1>1, <2>2, HiddenFromContract
<1>5. CASE waiter \in Request
  <2>1. how = "value" => ops = {}
    BY <1>2, <1>5 DEF Conversation, Protocol, RequestPlace, Stuck
  <2>2. Current = waiter /\ Current # 0 /\ Current' = 0 /\ HostWork' = HostWork
    BY <1>1, <1>5, MaxRequestsAssumption DEF Current, HostWork
  <2>3. how = "value" => HostWork[Current] = {}
    BY <2>1, <1>5, <2>2 DEF HostWork
  <2>4. settled' = [settled EXCEPT ![Current] = how]
    BY <1>1, <1>2, <1>5, <2>2 DEF SettleAs
  <2>5. SContract!Settle(how)
    BY <1>1, <1>2, <2>2, <2>3, <2>4 DEF SContract!Settle, Current, HostWork
  <2> QED BY <1>3, <2>5 DEF SContract!Next
<1> QED BY <1>4, <1>5

(***************************************************************************)
(* The supervised system keeps the contract that a plain instance keeps:    *)
(* every task of sandbox.mjs is a step of InvocationContract, and nothing   *)
(* the worker does, its death included, is visible to the embedder before   *)
(* the host acts on it.                                                     *)
(***************************************************************************)
THEOREM SandboxKeepsContract == SSpec => SandboxImplementsContract
<1>1. SInit => SContract!Init
  <2> SUFFICES ASSUME SInit PROVE SContract!Init
    OBVIOUS
  <2>1. Current = 0 /\ HostWork = [q \in Request |-> {}]
    BY MaxRequestsAssumption DEF SInit, Current, HostWork
  <2> QED BY <2>1 DEF SInit, SContract!Init, Current, HostWork
<1>2. ASSUME InstanceInv, Ports, Conversation, [SNext]_svars
      PROVE  [SContract!Next]_(SContract!vars)
  <2> USE <1>2
  <2>a. HostStates
    BY DEF Conversation, Protocol, Stuck
  <2>b. ASSUME ops # {} \/ receiveInvoke PROVE Protocol
    <3>1. receiveInvoke => Receives("invoke")
      BY DEF receiveInvoke
    <3>2. receiveInvoke => toHost[1].type = "invoke" /\ 1 \in 1..Len(toHost)
      BY <3>1, Received
    <3> QED BY <2>b, <3>2 DEF Conversation, Stuck
  <2>1. CASE HostTask
    <3>1. CASE deadline \/ workerExited \/ receiveInitError
      BY <3>1, StopCloses DEF deadline, workerExited, receiveInitError
    <3>2. CASE hfinish \/ receiveDenied
      BY <3>2, HiddenFromContract DEF hfinish, receiveDenied, Current
    <3>3. CASE receiveReady
      <4>1. Current' = Current
        BY <3>3, MaxRequestsAssumption DEF receiveReady, Current
      <4> QED BY <3>3, <4>1, HiddenFromContract DEF receiveReady
    <3> QED BY <2>1, <2>b, <3>1, <3>2, <3>3, InvokeStarts, AnswerSettles DEF HostTask
  <2>2. CASE HostEmbedder
    <3>1. CASE close
      BY <3>1, StopCloses DEF close
    <3>2. ASSUME NEW g \in Grants, hrevoke(g) PROVE SContract!Next
      <4>1. Current' = Current /\ HostWork' = HostWork
        BY <3>2 DEF hrevoke, Current, HostWork
      <4>2. SContract!Revoke(g)
        BY <3>2, <4>1 DEF hrevoke, SContract!Revoke, Current, HostWork
      <4> QED BY <4>2 DEF SContract!Next
    <3>3. ASSUME NEW o \in ops, NEW kind \in Result, opSettles(o, kind)
          PROVE  SContract!Next
      BY <2>b, <3>3, OpFinishes
    <3> QED BY <2>2, <2>a, <3>1, <3>2, <3>3, RunBegins DEF HostEmbedder
  <2>3. CASE Worker \/ UNCHANGED svars
    <3>1. UNCHANGED hostVars
      BY <2>3 DEF Worker, workerInit, workerRun, workerRunRefused, workerRunRejected,
         workerReply, workerRevoke, workerTimeout, workerDies, workerInvoke,
         workerInternal, workerSettles, svars
    <3> QED BY <3>1, HiddenFromContract DEF hostVars, Current
  <2> QED BY <2>1, <2>2, <2>3 DEF SNext
<1> QED
  BY <1>1, <1>2, ProtocolInvariant, PTL
  DEF SSpec, SandboxImplementsContract, SContract!Spec
=============================================================================
