---------------------------- MODULE MCCramScope ----------------------------
EXTENDS CramScope, SequencesExt

Word(name) == [name |-> name, inline |-> None, long |-> FALSE, redir |-> FALSE]
Long(name, value) == [Word(name) EXCEPT !.inline = value, !.long = TRUE]
Short(name, value) == [Word(name) EXCEPT !.inline = value]
Redir(name) == [Word(name) EXCEPT !.redir = TRUE]

MCNames == {"wax", "wat", "json", "check", "format", "lsp", "f.wax", "f.wat", "-", "-f", "-i", "-o",
            "-v", "-W", "--other", "--inplace", "--format", "--input-format", "d/f",
            ">/dev/null", "2>&1", ">", "out.wax", "'wat'", "'-v'", "'f.wax'"}
MCExt == [w \in MCNames |->
    CASE w \in {"f.wax", "out.wax"} -> "wax" [] w = "f.wat" -> "wat" [] w = "'f.wax'" -> "wax'"
      [] OTHER -> None]
MCSlashed == {"d/f", ">/dev/null"}

\* the shell takes the quotes of these words and the redirections away
Unquoted(w) == CASE w.name = "'wat'" -> Word("wat") [] w.name = "'-v'" -> Word("-v")
                 [] w.name = "'f.wax'" -> Word("f.wax") [] OTHER -> w
Shell(args) == LET p == Passed(args) IN [i \in DOMAIN p |-> Unquoted(p[i])]

\* a segment of a line, and one in which the shell runs the word of that number as wax
Seg(prog, args) == [prog |-> prog, args |-> args, runs |-> {}]
Run(prog, args, at) ==
    [Seg(prog, args) EXCEPT !.runs = {Shell(SubSeq(args, at + 1, Len(args)))}]
Line(kind, segs) == [kind |-> kind, segs |-> segs]
Test(text) == [text |-> text, outside |-> FALSE]

\* every command line of up to three pieces, and of four of a few pieces, as the only
\* command of a test
Words ==
    {Word(w) : w \in {"wax", "wat", "check", "format", "lsp", "f.wax", "f.wat", "d/f", "-",
                      "-f", "-i", "-o", "-v", "-W", "--other", "--inplace"}}
    \cup {Long("--format", "wat"), Long("--format", "json"), Long("--input-format", "wax"),
          Long("--input-format", "wat"), Short("-f", "wat")}
Redirections == {<<Redir(">/dev/null")>>, <<Redir("2>&1")>>, <<Redir(">"), Redir("out.wax")>>}
Quoted == {<<Word("'wat'")>>, <<Word("'-v'")>>, <<Word("'f.wax'")>>}
Pieces == {<<w>> : w \in Words} \cup Redirections \cup Quoted
FewPieces == {<<Word(w)>> : w \in {"check", "f.wax", "wat", "-f", "-o"}} \cup Redirections

CommandLines ==
    {FlattenSeq(pieces) : pieces \in (UNION {[1..m -> Pieces] : m \in 0..3}) \cup [1..4 -> FewPieces]}
OneCommand ==
    {[t \in {"one"} |-> Test(<<Line("$", <<Run("wax", args, 0)>>), Line("out", <<>>)>>)] :
        args \in CommandLines}

\* the suite: tests that set up a fixture, chain commands, drive an interpreter, read
\* outside their directory, run wax on a continuation line, and behind a `!`
Good == Run("wax", <<Word("check"), Word("f.wax"), Redir("2>&1")>>, 0)
Bad == Run("wax", <<Word("lsp")>>, 0)
Hidden == Run("!", <<Word("wax"), Word("--other")>>, 1)
Suites(hiding) ==
    {[t \in {"cat", "chain", "script", "outside", "plain"} |->
        CASE t = "cat" -> Test(<<Line("$", <<Seg("cat", <<Redir(">"), Redir("f.wax")>>)>>),
                                 Line(">", <<>>), Line("$", <<Good, Seg("grep", <<>>)>>)>>)
          [] t = "chain" -> Test(<<Line("$", <<Good, Bad>>)>>)
          [] t = "script" -> Test(<<Line("$", <<Seg("python3", <<>>)>>), Line(">", <<Bad>>)>>)
          [] t = "outside" -> [text |-> <<Line("$", <<Good>>)>>, outside |-> TRUE]
          [] t = "plain" -> Test(<<Line("$", <<Good>>), Line("out", <<>>), Line("$", last)>>)] :
        last \in {<<Good>>, <<Bad>>}}
    \cup IF hiding
         THEN {[t \in {"loop", "not"} |->
                  CASE t = "loop" -> Test(<<Line("$", <<Seg("for", <<>>)>>),
                                            Line(">", <<Run("do", <<Word("wax"), Word("--other")>>, 1)>>),
                                            Line(">", <<Bad>>)>>)
                    [] t = "not" -> Test(<<Line("$", <<Hidden>>)>>)]}
         ELSE {}

MCMoves == Suites(TRUE)
MCTrees == MCMoves \cup OneCommand
=============================================================================
