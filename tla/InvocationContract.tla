------------------------- MODULE InvocationContract -------------------------
(***************************************************************************)
(* What an embedder of Wisp relies on, whether it drives a low-level        *)
(* instance (runtime.mjs) or a supervised worker (sandbox.mjs): requests    *)
(* are served one at a time and settle once; host work starts only for the  *)
(* open request and through a live grant, and never after the end of the    *)
(* service; work may outlive a request, but no request delivers a value     *)
(* while its work is going on.                                              *)
(***************************************************************************)
EXTENDS Naturals

CONSTANTS Grants, Requests

VARIABLES
  closed,   \* the service accepts no request any more
  revoked,  \* the grants that were withdrawn
  begun,    \* how many requests were accepted
  current,  \* the request being served, or 0
  outcome,  \* request -> none, value or failed
  work      \* request -> the grants it has host work in flight for

vars == <<closed, revoked, begun, current, outcome, work>>

Init ==
  /\ closed = FALSE
  /\ revoked = {}
  /\ begun = 0
  /\ current = 0
  /\ outcome = [q \in Requests |-> "none"]
  /\ work = [q \in Requests |-> {}]

\* A request is accepted and served.
Begin ==
  /\ ~closed
  /\ current = 0
  /\ begun + 1 \in Requests
  /\ begun' = begun + 1
  /\ current' = begun'
  /\ UNCHANGED <<closed, revoked, outcome, work>>

\* A request is accepted and fails at once, perhaps ending the service.
Refuse ==
  /\ ~closed
  /\ current = 0
  /\ begun + 1 \in Requests
  /\ begun' = begun + 1
  /\ outcome' = [outcome EXCEPT ![begun'] = "failed"]
  /\ closed' \in BOOLEAN
  /\ UNCHANGED <<revoked, current, work>>

\* Host work starts for the request being served.
Start(g) ==
  /\ ~closed
  /\ current # 0
  /\ g \notin revoked
  /\ work[current] = {}
  /\ work' = [work EXCEPT ![current] = {g}]
  /\ UNCHANGED <<closed, revoked, begun, current, outcome>>

\* Host work ends, maybe long after its request.
Finish(q) ==
  /\ work[q] # {}
  /\ work' = [work EXCEPT ![q] = {}]
  /\ UNCHANGED <<closed, revoked, begun, current, outcome>>

Settle(how) ==
  /\ current # 0
  /\ how = "value" => ~closed /\ work[current] = {}
  /\ outcome' = [outcome EXCEPT ![current] = how]
  /\ current' = 0
  /\ UNCHANGED <<closed, revoked, begun, work>>

Revoke(g) ==
  /\ revoked' = revoked \cup {g}
  /\ UNCHANGED <<closed, begun, current, outcome, work>>

\* The service ends; the request being served fails now or soon.
Close ==
  /\ ~closed
  /\ closed' = TRUE
  /\ \/ UNCHANGED <<current, outcome>>
     \/ /\ current # 0
        /\ outcome' = [outcome EXCEPT ![current] = "failed"]
        /\ current' = 0
  /\ UNCHANGED <<revoked, begun, work>>

Next ==
  \/ Begin
  \/ Refuse
  \/ Close
  \/ \E g \in Grants : Start(g) \/ Revoke(g)
  \/ \E q \in Requests : Finish(q)
  \/ \E how \in {"value", "failed"} : Settle(how)

Spec == Init /\ [][Next]_vars
=============================================================================
