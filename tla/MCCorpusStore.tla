--------------------------- MODULE MCCorpusStore ---------------------------
EXTENDS CorpusStore

F(file, stem, tag, parts) == [file |-> file, stem |-> stem, tag |-> tag, parts |-> parts]

\* The first checkout has two .wast of one stem, and the earlier has a module that the
\* later has not.  The second has two .wast flattened to one tag, which both can stand
\* behind one corpus name; the third has two pages of one stem.
MCCheckouts ==
    {[docs |-> <<F("p.md", "p", "p", {0})>>,
      spec |-> <<F("g/s.wast", "s", "g__s", {0, 1}), F("s.wast", "s", "s", {0})>>],
     [docs |-> <<F("p.md", "p", "p", {0})>>,
      spec |-> <<F("g/s.wast", "s", "g__s", {0, 1}), F("g__s.wast", "g__s", "g__s", {1})>>],
     [docs |-> <<F("p.md", "p", "p", {0}), F("x/p.md", "p", "p", {0})>>,
      spec |-> <<>>]}

MCSources == <<"docs", "spec">>

MCOnly == {<<"docs">>, <<"spec">>}

MCFinds == {[name |-> "f", file |-> "find-1"]}
=============================================================================
