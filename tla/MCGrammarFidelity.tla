------------------------- MODULE MCGrammarFidelity -------------------------
EXTENDS GrammarFidelity, TLC

Quoted(s) == <<"quote">> \o s \o <<"quote">>

\* the right-hand sides: with quoted braces that match, also around a quoted bar, a bar of
\* its own, a brace without its match, and a quoted semicolon
Braced == Quoted(<<"lbrace">>) \o <<"a">> \o Quoted(<<"bar">>) \o <<"a">> \o Quoted(<<"rbrace">>)
OrExpression == <<"a">> \o Quoted(<<"bar">>) \o <<"a">>
Unmatched == Quoted(<<"lbrace">>) \o <<"a">>
Symbols == {<<>>, <<"a">>, Braced, OrExpression, Unmatched, Quoted(<<"semi">>)}

\* nested blocks with bars; literals with braces that match, or do not; one that reads
\* like a comment
Actions ==
    {<<"lbrace", "rbrace">>,
     <<"lbrace", "a", "bar", "lbrace", "b", "rbrace", "bar", "rbrace">>,
     <<"lbrace">> \o Quoted(<<"lbrace", "a", "rbrace">>) \o <<"rbrace">>,
     <<"lbrace">> \o Quoted(<<"rbrace">>) \o <<"bar">> \o Quoted(<<"lbrace">>) \o <<"rbrace">>,
     <<"lbrace">> \o Quoted(<<"open">>) \o <<"rbrace">>}
Plain == <<"lbrace", "rbrace">>
P(symbols, action) == [symbols |-> symbols, action |-> action]

\* the text of a rule, with a comment before its first alternative
Alt(p) == <<"blank">> \o (IF p.symbols = <<>> THEN <<>> ELSE <<"bind">> \o p.symbols \o <<"prec">>)
            \o <<"blank">> \o p.action
Joined(alts) == Alt(alts[1]) \o IF Len(alts) = 1 THEN <<>> ELSE <<"bar">> \o Alt(alts[2])
Rule(header, leading, comment, alts) ==
    <<header, "newline">>
        \o (IF leading THEN <<"bar">> ELSE <<>>) \o comment \o Joined(alts)
        \o <<"newline">>

MCHeaders == [h \in {"list:", "list_of:", "r:", "sep:", "sep_trailing:", "helper:", "stray:"} |->
    CASE h = "list:" -> "list" [] h = "list_of:" -> "list_of" [] h = "r:" -> "r" [] h = "sep:" -> "sep"
      [] h = "sep_trailing:" -> "sep_trailing" [] h = "helper:" -> "helper" [] OTHER -> "stray"]
MCRenames == ("list" :> "list_of") @@ ("sep" :> "sep_trailing")
MCHelpers == {"helper", "list_of"}
MCDiffs == {"sep"}

B == P(<<"b">>, Plain)
Nested == <<"open", "bar", "open", "close", "lbrace", "close">>

\* the reference: a list rule or none, one that is known to differ, and r
Refs ==
    {[text |-> (IF list THEN Rule("list:", TRUE, <<>>, <<B>>) ELSE <<>>)
               \o Rule("r:", leading, comment, alts) \o Rule("sep:", TRUE, <<>>, <<B>>),
      rules |-> (IF list THEN "list" :> <<B>> ELSE <<>>) @@ ("r" :> alts) @@ ("sep" :> <<B>>)] :
        list \in BOOLEAN, leading \in BOOLEAN, comment \in {<<>>, Nested},
        alts \in {<<P(s, a)>> : s \in Symbols, a \in Actions}
            \cup {<<P(s, a), P(t, Plain)>> : s \in {<<>>, <<"a">>, Braced}, a \in Actions,
                                             t \in {<<"a">>, OrExpression, Unmatched}}}

\* the dump of the port: without actions behind leading bars, or with empty ones; a rule
\* short, a production more or less, a helper, and a rule of nobody
Dump(leading, comment, r, sep, more) ==
    [text |-> Rule("list_of:", TRUE, <<>>, <<B>>) \o Rule("r:", leading, comment, r)
              \o sep \o (IF more = {} THEN <<>> ELSE Rule(CHOOSE h \in more : TRUE, TRUE, <<>>, <<B>>)),
     rules |-> ("list_of" :> <<B>>) @@ ("r" :> r)
               @@ (IF sep = <<>> THEN <<>> ELSE "sep_trailing" :> <<B, B>>)
               @@ (IF more = {} THEN <<>> ELSE MCHeaders[CHOOSE h \in more : TRUE] :> <<B>>)]
Sep == Rule("sep_trailing:", FALSE, <<>>, <<B, B>>)
LineComment == <<"slashes", "bar", "lbrace", "newline">>
Dumps ==
    {Dump(TRUE, comment, r, Sep, {}) : comment \in {<<>>, LineComment},
        r \in {<<P(<<"a">>, <<>>)>>, <<P(<<>>, <<>>), P(<<"a">>, <<>>)>>, <<P(OrExpression, <<>>)>>}}
    \cup {Dump(FALSE, <<>>, r, Sep, {}) : r \in {<<P(Braced, Plain)>>, <<P(<<>>, Plain), P(OrExpression, Plain)>>,
                                                 <<P(Unmatched, Plain)>>}}
    \cup {Dump(TRUE, <<>>, <<P(<<"a">>, <<>>)>>, sep, more) :
            sep \in {<<>>, Sep}, more \in {{"helper:"}, {"stray:"}}}

MCWritten == [ours : Dumps, ref : Refs]
=============================================================================
