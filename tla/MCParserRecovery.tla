-------------------------- MODULE MCParserRecovery --------------------------
(***************************************************************************)
(* The part of the generated table (yy_state_table, yy_prod_len_table and  *)
(* yy_prod_lhs_table of lib/syntax/parser/parser.mbt) that inputs made of  *)
(* fn, nop, identifiers, parentheses, braces and `;` can reach, with the   *)
(* states' own numbers; nNNN is nonterminal NNN.                           *)
(***************************************************************************)
EXTENDS ParserRecovery, TLC

MCTerminals == {"EOF", "FN", "IDENT", "LPAREN", "RPAREN", "LBRACE", "RBRACE",
                "RBRACKET", "NOP", "SEMI"}

\* <<state, symbol, next state>>
Shifts == {
  <<0, "EOF", 648>>, <<0, "SEMI", 646>>, <<0, "n238", 644>>,
  <<0, "n246", 1>>, <<0, "n247", 986>>, <<0, "n281", 724>>,
  <<42, "IDENT", 134>>, <<42, "RBRACE", 594>>, <<42, "n120", 600>>,
  <<42, "n132", 48>>, <<42, "n181", 595>>, <<56, "IDENT", 134>>,
  <<56, "LPAREN", 56>>, <<56, "LBRACE", 42>>, <<56, "n120", 59>>,
  <<56, "n191", 57>>, <<56, "n200", 11>>, <<56, "n203", 578>>,
  <<57, "RPAREN", 58>>, <<216, "IDENT", 134>>, <<216, "LPAREN", 56>>,
  <<216, "LBRACE", 42>>, <<216, "n120", 253>>, <<216, "n198", 217>>,
  <<216, "n199", 552>>, <<216, "n200", 11>>, <<216, "n203", 324>>,
  <<216, "n274", 252>>, <<216, "n293", 249>>, <<238, "SEMI", 240>>,
  <<238, "n213", 239>>, <<238, "n276", 447>>, <<240, "IDENT", 134>>,
  <<240, "LPAREN", 56>>, <<240, "LBRACE", 42>>, <<240, "SEMI", 244>>,
  <<240, "NOP", 375>>, <<240, "n120", 382>>, <<240, "n200", 378>>, <<240, "n203", 381>>,
  <<240, "n209", 238>>, <<240, "n212", 241>>, <<244, "IDENT", 134>>,
  <<244, "LPAREN", 56>>, <<244, "LBRACE", 42>>, <<244, "SEMI", 244>>,
  <<244, "NOP", 375>>, <<244, "n120", 382>>, <<244, "n200", 378>>, <<244, "n203", 381>>,
  <<244, "n209", 238>>, <<244, "n212", 245>>, <<324, "LPAREN", 216>>,
  <<381, "LPAREN", 216>>, <<552, "RPAREN", 553>>, <<578, "LPAREN", 216>>,
  <<595, "RBRACE", 596>>, <<644, "EOF", 648>>, <<644, "SEMI", 646>>,
  <<644, "n238", 644>>, <<644, "n247", 645>>, <<644, "n281", 724>>,
  <<646, "EOF", 648>>, <<646, "SEMI", 646>>, <<646, "n238", 644>>,
  <<646, "n247", 647>>, <<646, "n281", 724>>, <<695, "IDENT", 569>>,
  <<695, "n126", 565>>, <<695, "n154", 562>>, <<695, "n155", 696>>,
  <<695, "n256", 574>>, <<695, "n287", 573>>, <<696, "RPAREN", 697>>,
  <<706, "IDENT", 134>>, <<706, "n120", 715>>, <<706, "n159", 707>>,
  <<707, "n249", 708>>, <<708, "LPAREN", 695>>, <<708, "n160", 714>>,
  <<708, "n259", 694>>, <<708, "n260", 704>>, <<724, "FN", 706>>,
  <<724, "n161", 869>>, <<724, "n163", 857>>, <<724, "n219", 725>>,
  <<869, "n167", 870>>, <<869, "n172", 874>>, <<870, "LBRACE", 871>>,
  <<871, "IDENT", 134>>, <<871, "LPAREN", 56>>, <<871, "LBRACE", 42>>,
  <<871, "SEMI", 244>>, <<871, "NOP", 375>>, <<871, "n120", 382>>, <<871, "n200", 378>>,
  <<871, "n203", 381>>, <<871, "n209", 238>>, <<871, "n211", 872>>,
  <<871, "n212", 448>>, <<872, "RBRACE", 873>>}

\* What can follow an expression, a definition, a signature.
AfterExpr == {"LPAREN", "RPAREN", "LBRACE", "RBRACE", "RBRACKET", "SEMI"}
AfterItem == {"EOF", "FN", "RBRACE", "SEMI"}
AfterSign == {"LBRACE", "SEMI"}
RParen == {"RPAREN"}
RBrace == {"RBRACE"}

\* <<state, lookaheads, symbols popped, nonterminal>>
Reductions == {
  <<0, {"FN"}, 0, "n281">>, <<11, AfterExpr, 1, "n203">>,
  <<48, RBrace, 1, "n181">>, <<58, AfterExpr, 3, "n200">>,
  <<59, AfterExpr, 1, "n200">>,
  <<134, {"FN", "IDENT", "LPAREN", "RPAREN", "LBRACE", "RBRACE", "RBRACKET", "SEMI"}, 1, "n120">>,
  <<216, RParen, 0, "n274">>, <<217, RParen, 1, "n293">>,
  <<238, RBrace, 0, "n276">>, <<239, RBrace, 1, "n276">>,
  <<240, RBrace, 0, "n212">>, <<241, RBrace, 2, "n213">>,
  <<244, RBrace, 0, "n212">>, <<245, RBrace, 2, "n212">>,
  <<249, RParen, 1, "n274">>, <<252, RParen, 1, "n199">>,
  <<253, {"LPAREN", "RPAREN"}, 1, "n200">>, <<324, RParen, 1, "n198">>,
  <<375, {"RPAREN", "RBRACE", "SEMI"}, 1, "n209">>, <<378, {"LPAREN"}, 1, "n203">>,
  <<378, {"RPAREN", "RBRACE", "SEMI"}, 1, "n209">>,
  <<382, {"LPAREN", "RPAREN", "RBRACE", "SEMI"}, 1, "n200">>,
  <<447, RBrace, 2, "n212">>, <<448, RBrace, 1, "n211">>,
  <<553, AfterExpr, 4, "n200">>, <<562, RParen, 1, "n287">>,
  <<565, RParen, 1, "n154">>, <<569, RParen, 1, "n126">>,
  <<573, RParen, 1, "n256">>, <<574, RParen, 1, "n155">>,
  <<578, RParen, 1, "n191">>, <<594, AfterExpr, 2, "n200">>,
  <<596, AfterExpr, 3, "n200">>, <<600, RBrace, 1, "n132">>,
  <<644, {"FN"}, 0, "n281">>, <<645, {End}, 2, "n247">>,
  <<646, {"FN"}, 0, "n281">>, <<647, {End}, 2, "n247">>,
  <<648, {End}, 1, "n247">>, <<694, AfterSign, 1, "n260">>,
  <<695, RParen, 0, "n256">>, <<697, AfterSign, 3, "n259">>,
  <<704, AfterSign, 1, "n160">>,
  <<707, {"LPAREN", "LBRACE", "SEMI"}, 0, "n249">>,
  <<708, AfterSign, 0, "n260">>, <<714, AfterSign, 4, "n161">>,
  <<715, {"LPAREN", "LBRACE", "SEMI"}, 1, "n159">>,
  <<725, AfterItem, 2, "n238">>, <<857, AfterItem, 1, "n219">>,
  <<869, {"LBRACE"}, 0, "n167">>, <<871, RBrace, 0, "n212">>,
  <<873, AfterItem, 4, "n172">>, <<874, AfterItem, 2, "n163">>,
  <<986, {End}, 1, "n246">>}

States == {t[1] : t \in Shifts} \cup {t[3] : t \in Shifts}

Entry(s, x) ==
  IF s = 1 THEN [kind |-> "accept"]
  ELSE IF \E t \in Shifts : t[1] = s /\ t[2] = x
       THEN [kind |-> "shift", next |-> (CHOOSE t \in Shifts : t[1] = s /\ t[2] = x)[3]]
       ELSE LET r == CHOOSE r \in Reductions : r[1] = s /\ x \in r[2]
            IN [kind |-> IF x = End THEN "reduceNow" ELSE "reduce",
                count |-> r[3], lhs |-> r[4]]

Columns(s) ==
  {t[2] : t \in {u \in Shifts : u[1] = s}}
    \cup UNION {r[2] : r \in {q \in Reductions : q[1] = s}}
    \cup (IF s = 1 THEN {End} ELSE {})

Rows == [s \in States |-> [x \in Columns(s) |-> Entry(s, x)]]

\* TLC evaluates a definition once, but not one a constant is replaced by.
MCTable == Rows

Symbols == [s \in States |-> IF s = 0 THEN "none" ELSE (CHOOSE t \in Shifts : t[3] = s)[2]]

MCAccessing == Symbols

\* The states that some path of at most n transitions leads to.
Within[n \in 0..16] ==
  IF n = 0 THEN {0}
  ELSE LET near == Within[n - 1]
       IN near \cup {t[3] : t \in {u \in Shifts : u[1] \in near}}

Depths == [s \in States |-> Cardinality({n \in 0..16 : s \notin Within[n]})]

MCDepth == Depths

Written == MCTerminals \ {"EOF", "RBRACKET"}

Starts == {<< >>, <<"FN", "IDENT", "LPAREN", "RPAREN", "LBRACE">>}

Texts(n) == {p \o q : p \in Starts, q \in UNION {[1..k -> Written] : k \in 0..n}}

\* Files that were lexed to the end, and files with a lexical error.
WholeFiles(n) == {Append(t, "EOF") : t \in Texts(n)}
CutFiles(n) == Texts(n) \ {<< >>}

Many == WholeFiles(4) \cup CutFiles(3)
Few == WholeFiles(3)
Cut == CutFiles(3)

ManyFiles == Many
FewFiles == Few
FewCutFiles == Cut
=============================================================================
