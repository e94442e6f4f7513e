---------------------------- MODULE WispSandbox -----------------------------
(***************************************************************************)
(* The supervised Wisp of wisp/js/sandbox.mjs and wisp/js/worker.mjs: a     *)
(* WispInstance lives in a worker thread, the host's providers stay in the  *)
(* application, and two first-in first-out ports connect them.              *)
(*                                                                         *)
(* Host steps are the tasks of the application's thread, worker steps those *)
(* of the worker's.  A microtask that follows a task is part of its step,   *)
(* except `finally` of the host's run(), which other microtasks (a method   *)
(* called by the embedder, a provider that answers) may precede.            *)
(*                                                                         *)
(* The worker's proxies are the providers of its instance.  A call is       *)
(* identified by its run and its number within the run, which is as unique  *)
(* as the `++serial` of the worker; a resource is identified by the call    *)
(* that returned it, as unique as the `++resourceSerial` of the broker.     *)
(***************************************************************************)
EXTENDS WispInstance, Sequences

CONSTANT
  MaxRequests  \* bound: how many calls of run() the host accepts

ASSUME MaxRequestsAssumption == MaxRequests \in Nat

Request == 1..MaxRequests

InitRequest == 0     \* what createSandbox waits for before it returns
Nothing == MaxRequests + 1   \* no waiter

VARIABLES
  \* the host
  ready,      \* createSandbox returned: the embedder has the sandbox
  closed,
  busy,
  request,    \* how many requests were made; names the current `abort` too
  waiter,     \* the request whose promise `waiter` holds, or Nothing
  settled,    \* request -> none, value or failed
  haborted,   \* request -> its AbortController was aborted
  hrevoked,   \* the broker's `revoked`
  hcalls,     \* the broker's `calls`
  resources,  \* the broker's table: the resources it issued
  ops,        \* provider operations in flight
  \* the worker
  up,         \* the thread runs
  serving,    \* instance run -> the request it was started for
  got,        \* run -> what the latest reply delivered
  lost,       \* runs whose call was forgotten without being settled
  \* the ports
  toWorker,
  toHost

hostVars == <<ready, closed, busy, request, waiter, settled, haborted, hrevoked,
              hcalls, resources, ops>>
workerVars == <<up, serving, got, lost>>
svars == <<vars, hostVars, workerVars, toWorker, toHost>>

Resource == [run : Run, serial : 1..HostCalls, name : Grants]
Op == [run : Run, serial : 1..HostCalls, name : Grants, req : Request]

(***************************************************************************)
(* What a reply delivers.  A malformed resource is one whose schema the     *)
(* worker cannot build a proxy from, for want of `operations`: resource()   *)
(* and validate() do not look at that.                                      *)
(***************************************************************************)
Result == {"value", "resource", "malformed", "error"}

STypeOK ==
  /\ TypeOK
  /\ {ready, closed, busy, up} \subseteq BOOLEAN
  /\ request \in 0..MaxRequests
  /\ waiter \in 0..Nothing
  /\ settled \in [Request -> {"none", "value", "failed"}]
  /\ haborted \in [0..MaxRequests -> BOOLEAN]
  /\ hrevoked \subseteq Grants
  /\ hcalls \in 0..HostCalls
  /\ resources \subseteq Resource
  /\ ops \subseteq Op
  /\ serving \in [Run -> 0..MaxRequests]
  /\ got \in [Run -> [kind : Result, late : BOOLEAN]]
  /\ lost \subseteq Run

SInit ==
  /\ Init
  /\ ready = FALSE
  /\ closed = FALSE
  /\ busy = FALSE
  /\ request = 0
  /\ waiter = InitRequest
  /\ settled = [q \in Request |-> "none"]
  /\ haborted = [q \in 0..MaxRequests |-> FALSE]
  /\ hrevoked = {}
  /\ hcalls = 0
  /\ resources = {}
  /\ ops = {}
  /\ up = TRUE
  /\ serving = [r \in Run |-> 0]
  /\ got = [r \in Run |-> [kind |-> "value", late |-> FALSE]]
  /\ lost = {}
  /\ toWorker = << [type |-> "init"] >>
  /\ toHost = << >>

-----------------------------------------------------------------------------
(* The host.                                                               *)

\* Messages to a worker that was terminated or died go nowhere.
Post(m) == toWorker' = IF up THEN Append(toWorker, m) ELSE toWorker

\* The promise of request q is settled; q may be the one of createSandbox.
SettleAs(q, how) ==
  settled' = IF q \in Request THEN [settled EXCEPT ![q] = how] ELSE settled

(***************************************************************************)
(* stop() while q is the latest request: closes for good, aborts what runs, *)
(* terminates the worker (its ports are gone with it) and rejects the       *)
(* waiter, if there is one.                                                 *)
(***************************************************************************)
Stop(q) ==
  /\ closed' = TRUE
  /\ haborted' = [haborted EXCEPT ![q] = TRUE]
  /\ up' = FALSE
  /\ toWorker' = << >>
  /\ toHost' = << >>
  /\ waiter' = Nothing
  /\ UNCHANGED <<vars, serving, got, lost>>

\* Mutant of stop: the promise of the waiter is left pending.
stopSilently ==
  /\ Stop(request)
  /\ UNCHANGED <<settled, ready, busy, request, hrevoked, hcalls, resources, ops>>

\* close(), cancel(), the deadline timer, and the worker's exit or error.
stop ==
  /\ Stop(request)
  /\ SettleAs(waiter, "failed")
  /\ UNCHANGED <<ready, busy, request, hrevoked, hcalls, resources, ops>>

close == ready /\ ~closed /\ stop

deadline == waiter # Nothing /\ ~closed /\ stop

workerExited == ~up /\ ~closed /\ stop

\* Mutant of Opens: run() does not look at `busy`.
OpensAgain ==
  /\ ready /\ ~closed
  /\ request < MaxRequests
  /\ request' = request + 1
  /\ busy' = TRUE
  /\ hcalls' = 0
  /\ resources' = {}

\* Mutant of Opens: the broker's counter is not reset.
OpensKeepingCalls ==
  /\ ready /\ ~closed /\ ~busy
  /\ request < MaxRequests
  /\ request' = request + 1
  /\ busy' = TRUE
  /\ resources' = {}
  /\ UNCHANGED hcalls

\* What run() resets before it asks the worker.
Opens ==
  /\ ready /\ ~closed /\ ~busy
  /\ request < MaxRequests
  /\ request' = request + 1
  /\ busy' = TRUE
  /\ hcalls' = 0
  /\ resources' = {}

hrun ==
  /\ Opens
  /\ waiter' = request + 1
  /\ Post([type |-> "run", req |-> request + 1])
  /\ UNCHANGED <<vars, ready, closed, settled, haborted, hrevoked, ops,
                 workerVars, toHost>>

\* The input or the bindings cannot be cloned: postMessage throws in wait().
hrunUncloneable ==
  /\ Opens
  /\ Stop(request + 1)
  /\ SettleAs(request + 1, "failed")
  /\ UNCHANGED <<ready, hrevoked, ops>>

\* Mutant of hfinish: the signal of the request is not aborted.
hfinishWithoutAbort ==
  /\ busy
  /\ waiter = Nothing
  /\ busy' = FALSE
  /\ UNCHANGED <<vars, ready, closed, request, waiter, settled, haborted, hrevoked,
                 hcalls, resources, ops, workerVars, toWorker, toHost>>

\* `finally` of run(), once the waiter is settled.
hfinish ==
  /\ busy
  /\ waiter = Nothing
  /\ busy' = FALSE
  /\ haborted' = [haborted EXCEPT ![request] = TRUE]
  /\ UNCHANGED <<vars, ready, closed, request, waiter, settled, hrevoked, hcalls,
                 resources, ops, workerVars, toWorker, toHost>>

\* Mutant of hrevoke: the worker is not told.
hrevokeLocally(g) ==
  /\ ready
  /\ g \notin hrevoked
  /\ hrevoked' = hrevoked \cup {g}
  /\ UNCHANGED <<vars, ready, closed, busy, request, waiter, settled, haborted,
                 hcalls, resources, ops, workerVars, toWorker, toHost>>

\* Bound: revoking a grant again changes nothing but the queue.
hrevoke(g) ==
  /\ ready
  /\ g \notin hrevoked
  /\ hrevoked' = hrevoked \cup {g}
  /\ Post([type |-> "revoke", name |-> g])
  /\ UNCHANGED <<vars, ready, closed, busy, request, waiter, settled, haborted,
                 hcalls, resources, ops, workerVars, toHost>>

\* A message is handled in a task: `finally` of run() ran before it.
Receives(type) ==
  /\ ~closed
  /\ ~(busy /\ waiter = Nothing)
  /\ toHost # << >>
  /\ Head(toHost).type = type
  /\ toHost' = Tail(toHost)

(***************************************************************************)
(* The broker's checks of an invoke message m: a resource must be one it    *)
(* issued under the name that comes with it.                                *)
(***************************************************************************)
Issued(ref) == ref.serial = 0 \/ ref \in resources

\* Mutant of Admissible: the broker leaves revocation to the worker.
AdmissibleIfBusy(m) == Issued(m.on) /\ busy

Admissible(m) == Issued(m.on) /\ busy /\ m.on.name \notin hrevoked

ArgumentsGranted(m) ==
  \A ref \in m.args : ref.name \notin hrevoked /\ Issued(ref)

ErrorReply(m) == [type |-> "reply", run |-> m.run, serial |-> m.serial,
                  got |-> [kind |-> "error", late |-> m.on.name \in hrevoked]]

\* Every check passes: the provider's operation is called.
receiveInvoke ==
  /\ Receives("invoke")
  /\ LET m == Head(toHost) IN
       /\ Admissible(m)
       /\ hcalls < HostCalls
       /\ ArgumentsGranted(m)
       /\ ops' = ops \cup {[run |-> m.run, serial |-> m.serial,
                            name |-> m.on.name, req |-> request]}
  /\ hcalls' = hcalls + 1
  /\ UNCHANGED <<vars, ready, closed, busy, request, waiter, settled, haborted,
                 hrevoked, resources, workerVars, toWorker>>

(***************************************************************************)
(* A check fails, and the error is the reply.  The operation may also be    *)
(* unknown to the provider or its arguments invalid, whatever the state.    *)
(***************************************************************************)
receiveDenied ==
  /\ Receives("invoke")
  /\ \E counted \in BOOLEAN :
       /\ counted => Admissible(Head(toHost))
       /\ hcalls' = IF counted THEN hcalls + 1 ELSE hcalls
  /\ Post(ErrorReply(Head(toHost)))
  /\ UNCHANGED <<vars, ready, closed, busy, request, waiter, settled, haborted,
                 hrevoked, resources, ops, workerVars>>

\* The entry of the broker's table for the resource that operation o returned.
Issue(o) == [run |-> o.run, serial |-> o.serial, name |-> o.name]

\* Mutant of opSettles: the resource is not entered in the table.
opSettlesUnrecorded(o, kind) ==
  /\ ops' = ops \ {o}
  /\ IF closed
     THEN UNCHANGED toWorker
     ELSE Post([type |-> "reply", run |-> o.run, serial |-> o.serial,
                got |-> [kind |-> kind, late |-> o.name \in hrevoked]])
  /\ UNCHANGED <<vars, ready, closed, busy, request, waiter, settled, haborted,
                 hrevoked, hcalls, resources, workerVars, toHost>>

(***************************************************************************)
(* The provider's promise of operation o settles.  Unless the sandbox is    *)
(* closed the broker replies with the value, with a resource it records, or *)
(* with the error of the provider, of the schema or of the transfer limit;  *)
(* a resource whose schema cannot be cloned is recorded before the error.   *)
(* A rejection without an error object gets no reply at all: to the worker  *)
(* it is a provider that never answers.                                     *)
(***************************************************************************)
opSettles(o, kind) ==
  /\ ops' = ops \ {o}
  /\ IF closed
     THEN UNCHANGED <<resources, toWorker>>
     ELSE /\ Post([type |-> "reply", run |-> o.run, serial |-> o.serial,
                   got |-> [kind |-> kind, late |-> o.name \in hrevoked]])
          /\ \E R \in SUBSET {Issue(o)} :
               /\ kind = "value" => R = {}
               /\ kind \in {"resource", "malformed"} => R # {}
               /\ resources' = resources \cup R
  /\ UNCHANGED <<vars, ready, closed, busy, request, waiter, settled, haborted,
                 hrevoked, hcalls, workerVars, toHost>>

\* A result or error message settles whatever request is waited for, if any.
receiveAnswer ==
  /\ Receives("answer")
  /\ waiter # InitRequest
  /\ waiter' = Nothing
  /\ SettleAs(waiter, Head(toHost).how)
  /\ UNCHANGED <<vars, ready, closed, busy, request, haborted, hrevoked, hcalls,
                 resources, ops, workerVars, toWorker>>

receiveReady ==
  /\ Receives("answer")
  /\ waiter = InitRequest
  /\ Head(toHost).how = "value"
  /\ waiter' = Nothing
  /\ ready' = TRUE
  /\ UNCHANGED <<vars, closed, busy, request, settled, haborted, hrevoked, hcalls,
                 resources, ops, workerVars, toWorker>>

\* createSandbox rejects, and stops the worker first.
receiveInitError ==
  /\ ~closed
  /\ toHost # << >>
  /\ waiter = InitRequest
  /\ Head(toHost).how = "failed"
  /\ stop

-----------------------------------------------------------------------------
(* The worker.                                                             *)

Send(m) == toHost' = Append(toHost, m)

Answer(q, how) == [type |-> "answer", req |-> q, how |-> how]

\* The listener of worker.mjs takes the next message.
Takes(type) ==
  /\ up
  /\ Idle
  /\ toWorker # << >>
  /\ Head(toWorker).type = type
  /\ toWorker' = Tail(toWorker)

\* Compile and instantiate; either may throw.
workerInit ==
  /\ Takes("init")
  /\ \E how \in {"value", "failed"} : Send(Answer(InitRequest, how))
  /\ UNCHANGED <<vars, hostVars, workerVars>>

workerRun(P) ==
  /\ Takes("run")
  /\ run(P)
  /\ serving' = [serving EXCEPT ![started + 1] = Head(toWorker).req]
  /\ UNCHANGED <<hostVars, up, got, lost, toHost>>

workerRunRefused ==
  /\ Takes("run")
  /\ runRefused
  /\ serving' = [serving EXCEPT ![started + 1] = Head(toWorker).req]
  /\ Send(Answer(Head(toWorker).req, "failed"))
  /\ UNCHANGED <<hostVars, up, got, lost>>

\* instance.run throws at once: retired, already running, or unknown entry.
workerRunRejected ==
  /\ Takes("run")
  /\ Send(Answer(Head(toWorker).req, "failed"))
  /\ UNCHANGED <<vars, hostVars, workerVars>>

\* The proxy's promise for a call is in `pending` until its reply comes.
Pending(r, n) == stage[r] = "provider" /\ calls[r] = n /\ r \notin lost

(***************************************************************************)
(* A reply takes its promise out of `pending` and settles it.  When proxy() *)
(* throws on a malformed resource it is never settled, and the listener     *)
(* sends the error to the host, where nobody asked for it.                  *)
(***************************************************************************)
workerReply ==
  /\ Takes("reply")
  /\ LET m == Head(toWorker) IN
       \/ /\ ~Pending(m.run, m.serial)
          /\ UNCHANGED <<vars, got, lost, toHost>>
       \/ /\ Pending(m.run, m.serial)
          /\ m.got.kind = "malformed"
          /\ lost' = lost \cup {m.run}
          /\ Send(Answer(serving[m.run], "failed"))
          /\ UNCHANGED <<vars, got>>
       \/ /\ Pending(m.run, m.serial)
          /\ m.got.kind # "malformed"
          /\ IF m.got.kind = "error" THEN ProviderRejects(m.run)
                                     ELSE ProviderResolves(m.run)
          /\ got' = [got EXCEPT ![m.run] = m.got]
          /\ UNCHANGED <<lost, toHost>>
  /\ UNCHANGED <<hostVars, up, serving>>

workerRevoke ==
  /\ Takes("revoke")
  /\ revoke(Head(toWorker).name)
  /\ UNCHANGED <<hostVars, workerVars, toHost>>

\* The script calls a proxy, which posts the request to the broker.
workerInvoke(r, t, A) ==
  /\ up
  /\ invoke(r, t, A)
  /\ Send([type |-> "invoke", run |-> r, serial |-> calls[r] + 1, on |-> t,
           args |-> A])
  /\ UNCHANGED <<hostVars, workerVars, toWorker>>

\* Steps of the instance that send nothing.
workerInternal(r) ==
  /\ up
  /\ \/ \E counted \in BOOLEAN : invokeRefused(r, counted)
     \/ \E how \in {"value", "fault"} : scriptEnds(r, how)
     \/ invokeReturns(r, got[r].kind = "resource")
     \/ invokeThrows(r)
     \/ scriptResumes(r)
     \/ scriptUnwinds(r)
  /\ UNCHANGED <<hostVars, workerVars, toWorker, toHost>>

\* run() of the instance settles and the listener sends the result or error.
workerSettles(r, decodes) ==
  /\ up
  /\ runSettles(r, decodes)
  /\ Send(Answer(serving[r], outcome'[r]))
  /\ UNCHANGED <<hostVars, workerVars, toWorker>>

\* The instance's own timer.
workerTimeout ==
  /\ up
  /\ Timeout
  /\ UNCHANGED <<hostVars, workerVars, toWorker, toHost>>

\* The thread dies: out of memory, an engine failure.
workerDies ==
  /\ up
  /\ up' = FALSE
  /\ toWorker' = << >>
  /\ UNCHANGED <<vars, hostVars, serving, got, lost, toHost>>

-----------------------------------------------------------------------------
HostTask ==
  \/ deadline
  \/ workerExited
  \/ hfinish
  \/ receiveInvoke
  \/ receiveDenied
  \/ receiveAnswer
  \/ receiveReady
  \/ receiveInitError

HostEmbedder ==
  \/ close
  \/ hrun
  \/ hrunUncloneable
  \/ \E g \in Grants : hrevoke(g)
  \/ \E o \in ops, kind \in Result : opSettles(o, kind)

Worker ==
  \/ workerInit
  \/ \E P \in SUBSET Grants : workerRun(P)
  \/ workerRunRefused
  \/ workerRunRejected
  \/ workerReply
  \/ workerRevoke
  \/ workerTimeout
  \/ workerDies
  \/ \E r \in Run :
       \/ \E t \in tokens, A \in Arguments : workerInvoke(r, t, A)
       \/ workerInternal(r)
       \/ \E decodes \in BOOLEAN : workerSettles(r, decodes)

SNext == HostTask \/ HostEmbedder \/ Worker

SSpec == SInit /\ [][SNext]_svars

(***************************************************************************)
(* Only the application's own event loop is fair: its timers fire and its   *)
(* microtasks run.  Of the worker, which may be compiling, looping or dead, *)
(* and of the providers nothing is assumed.                                 *)
(***************************************************************************)
SFairSpec == SSpec /\ WF_svars(deadline) /\ WF_svars(hfinish)

-----------------------------------------------------------------------------
(* Correctness.                                                            *)

(***************************************************************************)
(* Answers carry no request number: the host gives an answer to whatever it *)
(* waits for.  In every state, which is well typed, every answer on its way *)
(* is for that request, with one exception: once a malformed resource made  *)
(* the worker forget a call, an error may reach a request it is not of.  A  *)
(* value never does.                                                        *)
(***************************************************************************)
AnswersAreAwaited ==
  /\ STypeOK
  /\ \A i \in DOMAIN toHost : toHost[i].type = "answer" =>
       toHost[i].req = waiter \/ (lost # {} /\ toHost[i].how = "failed")

(***************************************************************************)
(* A provider operation was started for the request that the calling script *)
(* serves, and once that request is over its AbortSignal says so.  `abort`  *)
(* is replaced by every run(), while operations of earlier runs go on.      *)
(***************************************************************************)
OpsBelongToRequest ==
  \A o \in ops : /\ o.req = serving[o.run]
                 /\ o.req # request \/ ~busy \/ closed => haborted[o.req]

(***************************************************************************)
(* The broker does not look at `revoked` after an operation; it relies on   *)
(* the revoke message reaching the worker before the reply.  A result that  *)
(* came after the host revoked the grant never reaches the script.          *)
(***************************************************************************)
LateResultsDropped ==
  \A r \in Run : stage[r] = "return" => ~got[r].late

(***************************************************************************)
(* A derived capability that a script can use is one the broker knows,      *)
(* although run() empties its table: no live resource is refused.  A run    *)
(* whose call was forgotten can use nothing any more.                       *)
(***************************************************************************)
ResourcesHonoured ==
  \A t \in tokens :
    t.serial > 0 /\ ~closed /\ t.run \notin lost => t \in resources

(***************************************************************************)
(* The supervised system keeps the contract of InvocationContract.          *)
(***************************************************************************)
SContract == INSTANCE InvocationContract WITH
  Requests <- Request, revoked <- hrevoked, begun <- request,
  current <- IF waiter \in Request THEN waiter ELSE 0,
  outcome <- settled,
  work <- [q \in Request |-> {o.name : o \in {p \in ops : p.req = q}}]

SandboxImplementsContract == SContract!Spec

(***************************************************************************)
(* Every request settles and the sandbox is free again, or closed, even if  *)
(* the worker hangs, dies or never answers: the deadline is the host's own. *)
(***************************************************************************)
RequestsSettle ==
  \A q \in Request : request = q /\ busy ~> settled[q] # "none" /\ ~busy
=============================================================================
