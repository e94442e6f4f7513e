--------------------------- MODULE MCMessageTable ---------------------------
EXTENDS MessageTable, TLC

\* four stacks that end in the same frame, and the start state alone
MCStacks == {<<0>>, <<0, 1>>, <<0, 2, 1>>, <<0, 3, 2, 1>>, <<0, 2, 2, 1>>}
MCNamed == "m1" :> {"a"} @@ "m2" :> {"b"}

\* the stacks that failures reduce to
MCReduced(s) ==
    [old |-> IF Len(s) < 3 THEN None ELSE <<0, 3>>,
     new |-> IF Len(s) < 3 THEN None ELSE IF s = <<0, 2, 2, 1>> THEN <<0, 2, 2>> ELSE <<0, 2>>]

\* the tokens that were acceptable before the default reductions that led to a stack:
\* either set where two parses fail on the same stack
MCAccepted(s) ==
    CASE Len(s) = 2 -> {{"a", "c"}}
      [] s = <<0, 2, 1>> -> {{"a", "b"}, {"a", "c"}}
      [] OTHER -> {{"a", "b"}}

Entry(s, m, accepted) ==
    [entry |-> "module", sentence |-> <<"IDENT", "INT">>, message |-> m,
     fails |-> [stack |-> s, index |-> 1, signature |-> accepted, reduced |-> MCReduced(s)]]
Claimants ==
    UNION {{Entry(s, m, a) : a \in MCAccepted(s)} : s \in MCStacks, m \in DOMAIN MCNamed}

\* sentences that claim no key, or end in the end of the input
Odd == {[Entry(<<0, 1>>, "m1", {"a", "c"}) EXCEPT !.fails = None],
        [Entry(<<0, 1>>, "m1", {"a", "c"}) EXCEPT !.fails.index = 0],
        [Entry(<<0, 1>>, "m1", {"a", "c"}) EXCEPT !.entry = "dummy_ctx"],
        [Entry(<<0, 1>>, "m1", {"a", "c"}) EXCEPT !.sentence = <<"EOF">>, !.fails.index = 0],
        [Entry(<<0, 2, 1>>, "m2", {"a", "b"}) EXCEPT !.sentence = <<"IDENT", "INT", "EOF">>],
        [Entry(<<0, 2, 1>>, "m2", {"a", "b"}) EXCEPT !.sentence = <<"IDENT", "INT", "EOF">>, !.fails.index = 2]}

MCGoldens == [1..4 -> Claimants] \cup [1..2 -> Odd \cup Claimants]
MCEndings == [1..2 -> Odd \cup {Entry(<<0, 2, 1>>, "m1", {"a", "b"})}]
=============================================================================
