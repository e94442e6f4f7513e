--------------------------- MODULE MCCondExplore ----------------------------
(* Modules over two condition variables, for TLC.                          *)
EXTENDS CondExplore

CONSTANTS a, b

A == [op |-> "and", args |-> {{v \in Valuations : a \in v}}]
B == [op |-> "and", args |-> {{v \in Valuations : b \in v}}]
Both == [op |-> "and", args |-> A.args \cup B.args]
Either == [op |-> "or", args |-> A.args \cup B.args]

leaf(n) == [kind |-> "leaf", name |-> n]
when(c, t, e) == [kind |-> "if", cond |-> c, then |-> t, else |-> e]
body(items) == [kind |-> "body", items |-> items]

Plain == {leaf("use"), leaf("err1"), leaf("err2")}

Inner == {
  when(A, <<when(B, <<leaf("err2")>>, <<leaf("use")>>)>>, << >>),
  when(B, <<leaf("err2")>>, <<leaf("use")>>),
  when(Not(B), <<leaf("err1")>>, << >>),
  when(Not(A), <<leaf("err2")>>, <<leaf("use")>>),
  when(A, <<leaf("err1")>>, << >>),
  when(Either, <<leaf("use")>>, <<when(A, <<leaf("err1")>>, << >>)>>),
  when(Both, <<leaf("err2")>>, << >>)}

\* Fields and function bodies that share, repeat, negate and nest conditions.
Fields == {
  when(A, <<leaf("err1")>>, <<leaf("use")>>),
  when(Not(B), <<leaf("use")>>, << >>),
  when(B, << >>, << >>),
  body(<<when(A, <<when(B, <<leaf("err2")>>, <<leaf("use")>>)>>, << >>),
         when(Not(B), <<leaf("err1")>>, << >>)>>),
  body(<<when(Not(A), <<leaf("err2")>>, <<leaf("use")>>)>>),
  body(<<when(Either, <<leaf("use")>>, <<when(A, <<leaf("err1")>>, << >>)>>)>>),
  body(<<when(Both, <<leaf("err2")>>, << >>)>>)}

MCPrograms == UNION {[1..n -> Fields] : n \in 0..4}

MCItems == Plain \cup Inner \cup Fields

Nested(item) ==
  CASE item.kind = "leaf" -> 0
    [] item.kind = "body" -> 3
    [] item.kind = "if" ->
         IF \A i \in DOMAIN (item.then \o item.else) : (item.then \o item.else)[i] \in Plain
         THEN 1 ELSE 2
MCLevel == [item \in MCItems |-> Nested(item)]
=============================================================================
