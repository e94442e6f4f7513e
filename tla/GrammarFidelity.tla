-------------------------- MODULE GrammarFidelity --------------------------
(***************************************************************************)
(* grammar_fidelity.py: the dump of the port's grammar and the reference's *)
(* are stripped of comments and actions by scanners, cut into rules and    *)
(* productions, and compared.                                              *)
(*                                                                         *)
(* A text is a sequence of lexemes: "open" and "close" of a comment that   *)
(* nests, "slashes" of one that ends with the line, "newline", "blank",    *)
(* "lbrace", "rbrace", "bar", "quote", "bind" (a binder `x =`), "semi",    *)
(* "prec", the headers of rules, and symbols.  The scanners know nothing   *)
(* of quotes: the token "{" and a literal of an action are the lexemes     *)
(* between two quotes, and these are the same inside as outside.           *)
(***************************************************************************)
EXTENDS Naturals, Sequences, FiniteSets, Functions, FiniteSetsExt

CONSTANTS
    Written,       \* pairs [ours, ref] of grammars [text, rules], the text being that
                   \* behind %%, the rules name -> its productions [symbols, action]
    Headers,       \* lexeme of a header -> the name of its rule
    RENAMES,       \* reference name -> port name, where they differ
    OUR_HELPERS, EXPECTED_COUNT_DIFFS

VARIABLES
    written,
    side,          \* the grammar being read: first "ours", then "ref"
    pass,          \* "comments", "actions", "rules" or "compared"
    text, i, depth, out,
    read,          \* side -> the rules made of it
    verdict

vars == <<written, side, pass, text, i, depth, out, read, verdict>>

ACTION_MARK == "@ACT@"

Init ==
    /\ written \in Written
    /\ side = "ours" /\ pass = "comments" /\ text = written.ours.text
    /\ i = 1 /\ depth = 0 /\ out = <<>>
    /\ read = [s \in {"ours", "ref"} |-> <<>>] /\ verdict = "none"

Advance(newDepth, newOut) ==
    /\ i <= Len(text)
    /\ i' = i + 1 /\ depth' = newDepth /\ out' = newOut
    /\ UNCHANGED <<written, side, pass, text, read, verdict>>

InComments(s) == pass = "comments" /\ side = s /\ i <= Len(text)

-----------------------------------------------------------------------------
(* strip_ocaml_comments of the reference: comments nest *)

\* a mutant of closeComment: the first close ends every comment
closeCommentFlat == InComments("ref") /\ text[i] = "close" /\ depth > 0 /\ Advance(0, out)

openComment == InComments("ref") /\ text[i] = "open" /\ Advance(depth + 1, out)
closeComment == InComments("ref") /\ text[i] = "close" /\ depth > 0 /\ Advance(depth - 1, out)
otherLexeme ==
    /\ InComments("ref")
    /\ text[i] # "open" /\ ~(text[i] = "close" /\ depth > 0)
    /\ Advance(depth, IF depth = 0 THEN Append(out, text[i]) ELSE out)

(* the comments of the dump go to the end of their line *)

lineComment == InComments("ours") /\ text[i] = "slashes" /\ Advance(1, out)
endOfLine == InComments("ours") /\ text[i] = "newline" /\ Advance(0, Append(out, "newline"))
dumpLexeme ==
    /\ InComments("ours") /\ text[i] \notin {"slashes", "newline"}
    /\ Advance(depth, IF depth = 0 THEN Append(out, text[i]) ELSE out)

-----------------------------------------------------------------------------
(* strip_actions: a marker stands for each outermost block *)

\* a mutant of Marked: an action leaves nothing behind
markedNothing(s) == s

Marked(s) == Append(s, ACTION_MARK)

openAction ==
    /\ pass = "actions" /\ i <= Len(text) /\ text[i] = "lbrace"
    /\ Advance(depth + 1, IF depth = 0 THEN Marked(out) ELSE out)
closeAction ==
    /\ pass = "actions" /\ i <= Len(text) /\ text[i] = "rbrace"
    /\ Advance(IF depth > 0 THEN depth - 1 ELSE 0, out)
actionLexeme ==
    /\ pass = "actions" /\ i <= Len(text) /\ text[i] \notin {"lbrace", "rbrace"}
    /\ Advance(depth, IF depth = 0 THEN Append(out, text[i]) ELSE out)

nextPass ==
    /\ pass \in {"comments", "actions"} /\ i > Len(text)
    /\ pass' = IF pass = "comments" THEN "actions" ELSE "rules"
    /\ text' = out
    /\ i' = 1 /\ depth' = 0 /\ out' = <<>>
    /\ UNCHANGED <<written, side, read, verdict>>

-----------------------------------------------------------------------------
(* parse_grammar: from the stripped text to rules *)

\* the pieces of a body between its bars
Split(body) ==
    LET bars == {0, Len(body) + 1} \cup {j \in DOMAIN body : body[j] = "bar"}
        nth(n) == CHOOSE b \in bars : Cardinality({c \in bars : c < b}) = n - 1
    IN [n \in 1..(Cardinality(bars) - 1) |-> SubSeq(body, nth(n) + 1, nth(n + 1) - 1)]

IsBlank(piece) == \A j \in DOMAIN piece : piece[j] \in {"blank", "newline"}

\* an empty leading piece is the bar before the first alternative
Alternatives(body) == IF IsBlank(Split(body)[1]) THEN Tail(Split(body)) ELSE Split(body)

Production(alt) ==
    SelectSeq(alt, LAMBDA c : c \notin {ACTION_MARK, "semi", "prec", "bind", "blank", "newline"})

\* rules are delimited by the next header; a name that returns wins
parse_grammar(t) ==
    LET heads == {j \in DOMAIN t : t[j] \in DOMAIN Headers}
        stop(j) == Min({k \in heads : k > j} \cup {Len(t) + 1})
        last(name) == Max({j \in heads : Headers[t[j]] = name})
    IN [name \in {Headers[t[j]] : j \in heads} |->
          LET alts == Alternatives(SubSeq(t, last(name) + 1, stop(last(name)) - 1))
          IN [n \in DOMAIN alts |-> Production(alts[n])]]

\* the dump is read first, then the reference
readRules ==
    /\ pass = "rules" /\ read' = [read EXCEPT ![side] = parse_grammar(text)]
    /\ IF side = "ours"
       THEN side' = "ref" /\ pass' = "comments" /\ text' = written.ref.text
       ELSE side' = side /\ pass' = "compare" /\ text' = text
    /\ UNCHANGED <<written, i, depth, out, verdict>>

-----------------------------------------------------------------------------
(* main: grammars are functions from names to productions *)

Renamed(name) == IF name \in DOMAIN RENAMES THEN RENAMES[name] ELSE name
Compared(ref) == DOMAIN ref \ {"dummy_ctx"}

missing(ref, ours) == {Renamed(name) : name \in Compared(ref)} \ DOMAIN ours
extra(ref, ours) == (DOMAIN ours \ {Renamed(name) : name \in Compared(ref)}) \ OUR_HELPERS
count_diffs(ref, ours) ==
    {name \in Compared(ref) : /\ Renamed(name) \in DOMAIN ours
                              /\ Len(ref[name]) # Len(ours[Renamed(name)])}

\* a mutant of problems: a rule that only the port has goes unnoticed
problemsMissing(ref, ours) ==
    missing(ref, ours) \cup (count_diffs(ref, ours) \ EXPECTED_COUNT_DIFFS)

problems(ref, ours) ==
    missing(ref, ours) \cup extra(ref, ours) \cup (count_diffs(ref, ours) \ EXPECTED_COUNT_DIFFS)

main ==
    /\ pass = "compare"
    /\ verdict' = IF problems(read.ref, read.ours) = {} THEN "no unexplained differences"
                  ELSE "differences"
    /\ pass' = "compared"
    /\ UNCHANGED <<written, side, text, i, depth, out, read>>

Next ==
    \/ openComment \/ closeComment \/ otherLexeme
    \/ lineComment \/ endOfLine \/ dumpLexeme
    \/ openAction \/ closeAction \/ actionLexeme
    \/ nextPass \/ readRules \/ main

Spec == Init /\ [][Next]_vars

-----------------------------------------------------------------------------
(* Properties *)

Compares == pass \in {"compare", "compared"}
Productions(rules) == UNION {Range(rules[name]) : name \in DOMAIN rules}
Places(s, lexeme, j) == {k \in 1..(j - 1) : s[k] = lexeme}
Inside(s, j) == Cardinality(Places(s, "lbrace", j)) - Cardinality(Places(s, "rbrace", j))

\* Every brace of a production, those between quotes included, has its match there; its
\* action ends with the brace that matches the first; no literal opens a comment.
Matched(s) == Inside(s, Len(s) + 1) = 0 /\ \A j \in DOMAIN s : Inside(s, j) >= 0
Closed(p) ==
    /\ Matched(p.symbols) /\ Matched(p.action)
    /\ \A j \in 2..Len(p.action) : Inside(p.action, j) > 0
    /\ Range(p.symbols \o p.action) \cap {"open", "close", "slashes"} = {}
AllClosed(rules) == \A p \in Productions(rules) : Closed(p)

\* a bar between quotes, as of `"{" ident "|" structure "}"`, stands inside of braces
Readable(rules) ==
    AllClosed(rules) /\ \A p \in Productions(rules) : \A j \in DOMAIN p.symbols :
        p.symbols[j] = "bar" => Inside(p.symbols, j) > 0

\* no quoted token is read as punctuation
Unpunctuated(rules) ==
    \A p \in Productions(rules) : Range(p.symbols) \cap {"lbrace", "rbrace", "bar", "semi"} = {}

\* The shape of the state: a scanner has passed the lexemes before i, is as deep as
\* they leave it, and has dropped every comment before it looks for actions.
FidelityTypeOK ==
    /\ pass \in {"comments", "actions", "rules", "compare", "compared"}
    /\ i \in 1..(Len(text) + 1) /\ Len(out) < i
    /\ depth <= Cardinality({j \in 1..(i - 1) : text[j] \in {"open", "lbrace", "slashes"}})
    /\ pass # "comments" =>
          \A j \in DOMAIN text : text[j] \notin IF side = "ours" THEN {"slashes"} ELSE {"open", "close"}

\* A grammar is read rule by rule as it is written, whatever its comments and actions
\* hold, bars, braces, literals and nested blocks included, the empty productions too,
\* whether or not a bar stands before the first: each rule with as many productions, if
\* the braces of quoted tokens match and cover the quoted bars; and with the very
\* symbols, if no quoted token is punctuation.
ReadAsWritten ==
    /\ FidelityTypeOK
    /\ Compares => \A s \in {"ours", "ref"} :
          LET rules == written[s].rules IN
          Readable(rules) =>
              /\ DOMAIN read[s] = DOMAIN rules
              /\ \A name \in DOMAIN rules : Len(read[s][name]) = Len(rules[name])
              /\ Unpunctuated(rules) =>
                    \A name \in DOMAIN rules : \A n \in DOMAIN rules[name] :
                        read[s][name][n] = rules[name][n].symbols

\* Each rule of one grammar is, up to renaming and the listed helpers, a rule of the
\* other with as many productions, unless the difference is listed.
Corresponding(ref, ours) ==
    /\ \A name \in Compared(ref) :
          /\ Renamed(name) \in DOMAIN ours
          /\ name \in EXPECTED_COUNT_DIFFS \/ Len(ref[name]) = Len(ours[Renamed(name)])
    /\ \A name \in DOMAIN ours \ OUR_HELPERS : \E r \in Compared(ref) : Renamed(r) = name

\* The reference's productions under the port's names, where no difference is listed.
SameProductions(ref, ours) ==
    \A name \in Compared(ref) \ EXPECTED_COUNT_DIFFS :
        /\ Renamed(name) \in DOMAIN ours /\ DOMAIN ref[name] = DOMAIN ours[Renamed(name)]
        /\ \A n \in DOMAIN ref[name] : ref[name][n].symbols = ours[Renamed(name)][n].symbols

\* Of two grammars that it reads as written the tool reports no differences just when
\* the grammars in the files, and not only what two different scanners made of them,
\* correspond.  And a port that has the reference's productions is not reported even
\* where quoted bars are read as bars, since both readings are wrong in the same way.
CleanIsCorresponding ==
    verdict # "none" =>
        LET ref == written.ref.rules
            ours == written.ours.rules
            clean == verdict = "no unexplained differences"
        IN /\ Readable(ref) /\ Readable(ours) => (clean <=> Corresponding(ref, ours))
           /\ AllClosed(ref) /\ AllClosed(ours) /\ Corresponding(ref, ours)
                 /\ SameProductions(ref, ours) => clean

\* Stated by the docstring: the tool checks "that the grammar is a faithful translation
\* rather than something that merely happens to accept the same inputs".  Without
\* differences, a rule that has no listed reason to differ has the same productions.
CleanIsFaithful ==
    verdict = "no unexplained differences" /\ Readable(written.ref.rules) /\ Readable(written.ours.rules) =>
        \A name \in Compared(written.ref.rules) \ EXPECTED_COUNT_DIFFS :
            \A n \in DOMAIN written.ref.rules[name] :
                written.ref.rules[name][n].symbols = written.ours.rules[Renamed(name)][n].symbols

\* Stated by the same docstring: brace matching matters, or arms beginning with "|" are
\* counted as extra alternatives.  With it, no bar but those between alternatives is.
BarsAreAlternatives ==
    Compares => \A s \in {"ours", "ref"} : AllClosed(written[s].rules) =>
        \A name \in DOMAIN read[s] : Len(read[s][name]) = Len(written[s].rules[name])
=============================================================================
