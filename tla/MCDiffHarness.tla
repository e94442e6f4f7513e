--------------------------- MODULE MCDiffHarness ---------------------------
EXTENDS DiffHarness, TLC

Ok(out) == [code |-> 0, out |-> out, err |-> NoDiagnostics]
Rejected == [code |-> 128, out |-> None, err |-> NoDiagnostics]
D(start, end, message) ==
    [severity |-> "error", file |-> [marked |-> TRUE, root |-> None],
     start |-> start, end |-> end, warning |-> None, message |-> message]
Check(code, diags) == [code |-> code, out |-> None, err |-> [json |-> TRUE, diags |-> diags]]
Beh(wax, wasm, check, wat) ==
    [c \in Commands |-> CASE c = "wax" -> wax [] c = "wasm" -> wasm
                          [] c = "check" -> check [] c = "wat" -> wat]

\* a1 and a2 compile; b has a type error; c does not parse; the reprint of u is
\* printed differently the second time
Ref == [t \in {"a1", "a2", "b", "c", "u", "v"} |->
    CASE t = "a1" -> Beh(Ok("a1"), Ok("w1"), Check(0, <<>>), Ok("t1"))
      [] t = "a2" -> Beh(Ok("a2"), Ok("w2"), Check(0, <<>>), Ok("t2"))
      [] t = "b" -> Beh(Ok("b"), Rejected, Check(128, <<D(3, 5, "type")>>), Rejected)
      [] t = "c" -> Beh(Rejected, Rejected, Check(128, <<D(6, 7, "Expecting x")>>), Rejected)
      [] t = "u" -> Beh(Ok("v"), Ok("w3"), Check(0, <<>>), Ok("t3"))
      [] t = "v" -> Beh(Ok("a1"), Ok("w3"), Check(0, <<>>), Ok("t3"))]

\* the port, and the next reference: at most one answer differs
Deviations ==
    {<<t, "wax", r>> : t \in {"a1"}, r \in {Rejected, Ok("a2")}}
    \cup {<<"v", "wax", Ok("v")>>, <<"a1", "wasm", Ok("w2")>>, <<"a1", "wat", Rejected>>,
          <<"a1", "check", Check(128, <<D(3, 5, "type")>>)>>, <<"a2", "check", TimedOut>>,
          <<"b", "check", Check(128, <<>>)>>, <<"b", "check", Check(128, <<D(3, 4, "type")>>)>>}
Deviate(impl, d) == [impl EXCEPT ![d[1]][d[2]] = d[3]]
SpanOfC == <<"c", "check", Check(128, <<D(0, 7, "Expecting x")>>)>>
SeverityOfC ==
    <<"c", "check", Check(128, <<[D(6, 7, "Expecting x") EXCEPT !.severity = "warning"]>>)>>

\* the port has the exempted span of c, or agrees on it
Ports == {Deviate(Ref, SpanOfC), Ref, Deviate(Ref, SeverityOfC)}
         \cup {Deviate(Deviate(Ref, SpanOfC), d) : d \in Deviations}
Few == [n \in {1} |-> Ref]
SteadyWorlds == {[refs |-> [n \in {1, 2} |-> IF n = 1 THEN Ref ELSE Deviate(Ref, d)],
                  ours |-> p, slow |-> {}] :
                    d \in {<<"a1", "wax", Ok("a2")>>}, p \in Ports}
SlowWorlds == {[refs |-> Few, slow |-> {"run"},
                ours |-> Deviate(Deviate(Ref, SpanOfC), <<"a1", "wasm", Ok("w2")>>)]}
MCWorlds == SteadyWorlds \cup SlowWorlds
MCFewWorlds == {[refs |-> Few, ours |-> Deviate(Ref, SpanOfC), slow |-> s] :
                  s \in {{}, {"golden"}}}

X1 == <<"cram", "x">>
X2 == <<"wat", "x">>
E == <<"docs", "e">>
U == <<"docs", "u">>
MCFiles == <<X1, E, U, X2>>
Corpus(x1, e, u, x2) == (X1 :> x1) @@ (E :> e) @@ (U :> u) @@ (X2 :> x2)
MCCorpora == {Corpus("a1", "c", "u", "a2"), Corpus("a1", None, None, "b")}
MCOneCorpus == {Corpus("a1", "c", "u", None)}
MCExempt == {E}
MCUnstable == {U}
MCSyntax == {"Expecting x"}
MCCustomOnly == {{"w1", "w2"}}

Args(impl, self_test, oracles, route, scope) ==
    [impl |-> impl, self_test |-> self_test, oracles |-> oracles, route |-> route,
     scope |-> scope]
MCInvocations ==
    {Args("port", FALSE, {1, 2, 3}, VIA_REFERENCE, "full"),
     Args("port", FALSE, {2, 3, 4}, NATIVE, "frontEnd"),
     Args("port", TRUE, {1, 2, 3}, VIA_REFERENCE, "full"),
     Args("port", TRUE, {1, 2, 3}, VIA_REFERENCE, "frontEnd")}
MCDefault == {Args("reference", FALSE, {1, 2, 3}, VIA_REFERENCE, "full")}
=============================================================================
