--------------------------- MODULE MCFuzzSession ---------------------------
EXTENDS FuzzSession

\* k: a keyword, s: a string of three characters, x: a name, q: a lone quote; one
\* space between two tokens
MCTokens == {"k", "s", "x", "q"}
\* an edit makes a text longer by one token at most
MCTexts == UNION {[1..m -> MCTokens] : m \in 0..5}
MCReached == [e \in 0..Edits |-> {t \in MCTexts : Len(t) <= 5 - e}]
MCSeeds == {<<"k">>, <<"q", "k">>, <<"k", "s">>, <<"s", "x", "k">>, <<"k", "x", "s">>}

Width(token) == IF token = "s" THEN 3 ELSE 1
Starts == [t \in MCTexts |-> [i \in DOMAIN t |->
    (i - 1) + Cardinality({j \in 1..(i - 1) : t[j] = "s"}) * 2 + (i - 1)]]
MCQuotes == [t \in MCTexts |->
    UNION {{Starts[t][i], Starts[t][i] + Width(t[i]) - 1} :
               i \in {j \in DOMAIN t : t[j] \in {"s", "q"}}}]

D(start, end, message) ==
    [severity |-> "error", file |-> [marked |-> TRUE, root |-> None],
     start |-> start, end |-> end, warning |-> None, message |-> message]
Out(text) == [code |-> 0, out |-> text, err |-> NoDiagnostics]
Json(code, diags) == [code |-> code, out |-> None, err |-> [json |-> TRUE, diags |-> diags]]
Fails(message) == [code |-> 128, out |-> None, err |-> [json |-> FALSE, diags |-> message]]
Crash == [code |-> 2, out |-> None, err |-> NotJson]

StartsWith(t, p) == Len(t) >= Len(p) /\ SubSeq(t, 1, Len(p)) = p

\* What the reference does.  A text is parsed if it starts with k.  The reprints of
\* k k x and k x k alternate and mean the same (as in finding 8); that of k s, which
\* has a type error, is not read back (as in finding 7).  A longer text that ends with
\* x has a type error, and k k k crashes the check.
Reprint(t) ==
    CASE StartsWith(t, <<"k", "k", "x">>) -> <<"k", "x", "k">> \o SubSeq(t, 4, Len(t))
      [] StartsWith(t, <<"k", "x", "k">>) -> <<"k", "k", "x">> \o SubSeq(t, 4, Len(t))
      [] StartsWith(t, <<"k", "s">>) -> <<"s", "k">> \o SubSeq(t, 3, Len(t))
      [] OTHER -> t
Parses(t) == t # <<>> /\ t[1] = "k"
TypeBad(t) == StartsWith(t, <<"k", "s">>) \/ (Len(t) >= 4 /\ t[Len(t)] = "x")
Binary(t) == IF StartsWith(t, <<"k", "x", "k">>) THEN Reprint(t) ELSE t
Crashes(t) == StartsWith(t, <<"k", "k", "k">>)

\* the syntax error: on a string the reference points at its closing quote
RefSyntax(t) ==
    CASE t = <<>> -> D(0, 0, "Expecting")
      [] StartsWith(t, <<"x", "x">>) -> D(0, 1, "check")
      [] t[1] = "s" -> D(2, 3, "Expecting")
      [] OTHER -> D(0, Width(t[1]), "Expecting")
OurSyntax(t) ==
    CASE t = <<>> -> D(0, 0, "Expecting")
      [] StartsWith(t, <<"x", "x">>) -> D(2, 3, "Expecting")
      [] OTHER -> D(0, Width(t[1]), "Expecting")

Beh(t, syntax) ==
    [c \in Commands |->
       IF c = "wat" THEN Crash
       ELSE IF ~Parses(t) THEN IF c = "check" THEN Json(128, <<syntax>>) ELSE Fails("Expecting")
       ELSE CASE c = "wax" -> Out(Reprint(t))
              [] c = "wasm" -> IF TypeBad(t) THEN Fails("type") ELSE Out(<<"wasm", Binary(t)>>)
              [] c = "check" -> IF Crashes(t) THEN Crash
                                ELSE IF TypeBad(t) THEN Json(128, <<D(0, 1, "type")>>)
                                ELSE Json(0, <<>>)]
MCRef == [t \in MCTexts |-> Beh(t, RefSyntax(t))]

Port(bugs, backend, wrong(_)) ==
    [impl |-> [t \in MCTexts |-> IF t \in bugs THEN wrong(Beh(t, OurSyntax(t)))
                                 ELSE Beh(t, OurSyntax(t))],
     bugs |-> bugs, backend |-> backend]
Where(P(_)) == {t \in MCTexts : P(t) /\ ~(Parses(t) /\ Crashes(t))}

\* x before a k, but not right before it, in a stable text: the printer drops all
Dropped == Where(LAMBDA t : /\ Parses(t) /\ Reprint(t) = t
                            /\ \E i, j \in DOMAIN t : i + 1 < j /\ t[i] = "x" /\ t[j] = "k")
\* the wrong binary for a text with two strings that compiles
TwoStrings == Where(LAMBDA t : Parses(t) /\ ~TypeBad(t) /\ t[Len(t)] = "s"
                               /\ \E i \in 2..(Len(t) - 1) : t[i] = "s")
\* a syntax error at the second token, whatever its first is; a name is not a string
LateSyntax == Where(LAMBDA t : Len(t) >= 2 /\ t[1] = "x" /\ t[2] = "k")
\* the wrong severity of a type error
Mild == Where(LAMBDA t : Parses(t) /\ TypeBad(t))
\* a backtrace instead of diagnostics
Backtrace == Where(LAMBDA t : StartsWith(t, <<"k", "x">>))

MCPorts ==
    [clean |-> Port({}, FALSE, LAMBDA b : b),
     drops |-> Port(Dropped, FALSE, LAMBDA b : [b EXCEPT !["wax"].out = <<>>]),
     binary |-> Port(TwoStrings, TRUE, LAMBDA b : [b EXCEPT !["wasm"].out = <<"wasm">>]),
     late |-> Port(LateSyntax, FALSE,
                 LAMBDA b : [b EXCEPT !["check"] = Json(128, <<D(2, 3, "Expecting")>>)]),
     mild |-> Port(Mild, FALSE,
                 LAMBDA b : [b EXCEPT !["check"].err.diags[1].severity = "warning"])]
MCCrashing ==
    [crash |-> Port(Backtrace, FALSE, LAMBDA b : [b EXCEPT !["check"] = Crash])]

MCSyntax == {"Expecting"}
MCBoth == {NATIVE, VIA_REFERENCE}
=============================================================================
