-------------------------- MODULE ParserProperties --------------------------
(***************************************************************************)
(* What the parser should guarantee of the texts it accepts and of its     *)
(* errors.  The properties of the second part state what a comment or the  *)
(* README says and the code does not do.                                   *)
(***************************************************************************)
EXTENDS ParserFields

(* The reference grammar.                                                  *)
G == INSTANCE Grammar

(* The source text, as far as it was read.                                 *)
Text == IF tok = EOF THEN SubSeq(toks, 1, cur - 1) ELSE toks

(* For each difference, a text of the grammar as the code has it that keeps *)
(* to all the comments but one.                                             *)
LaxText ==
  [text     |-> <<"BEGIN", "IF", "THEN", "END", "IF", ";", "END">>,
   reverse  |-> <<"BEGIN", "FOR", "WORD", "IN", "REVERSE", "WORD", "LOOP", "END",
                  "LOOP", ";", "END">>,
   slice    |-> <<"BEGIN", "FOREACH", "WORD", "SLICE", "IN", "ARRAY", "WORD",
                  "LOOP", "END", "LOOP", ";", "END">>,
   sqlstate |-> <<"BEGIN", "RAISE", "SQLSTATE", ";", "END">>,
   equals   |-> <<"BEGIN", "GET", "DIAGNOSTICS", "WORD", "WORD", ";", "END">>,
   name     |-> <<"BEGIN", "RAISE", "USING", ";", "=", "WORD", ";", "END">>,
   clauses  |-> <<"BEGIN", "EXECUTE", "WORD", "INTO", "WORD", "USING", "WORD",
                  "INTO", "WORD", ";", "END">>,
   cursor   |-> <<"BEGIN", "MOVE", ";", "END">>,
   when     |-> <<"BEGIN", "EXCEPTION", "END">>]

ASSUME DifferencesAreReal ==
  \A d \in DOMAIN LaxText :
    /\ G!IsFunction(LaxText[d])
    /\ \A c \in DOMAIN LaxText : G!KeepsTo({c}, LaxText[d]) <=> c # d

(* What the parser made of the token at place k.                           *)
UsesOf(k) == {moved[i].use : i \in {j \in DOMAIN moved : moved[j].at = k}}

----------------------------------------------------------------------------

(* Parse accepts exactly the texts of the grammar, and the first error it  *)
(* reports is at the first token with which the text stops being the       *)
(* beginning of a function body: one-token lookahead, committed choices    *)
(* and error recovery neither hide an error nor invent one.  The texts in  *)
(* which a pushback makes the parser read a token twice are set apart.     *)
ErrorsAreExact ==
  pc = "returned" /\ (\A i \in DOMAIN moved : moved[i].at = i) =>
    IF first = 0
    THEN G!IsFunction(Text)
    ELSE /\ G!IsBeginning(SubSeq(toks, 1, first - 1))
         /\ IF toks[first] = EOF
            THEN ~G!IsFunction(Text)
            ELSE ~G!IsBeginning(SubSeq(toks, 1, first))

(* In an accepted text every token is implied by a node's kind or fields,   *)
(* is text of some node, or says what holds without it (CURRENT, AND NO     *)
(* CHAIN, a second DECLARE, FROM and IN in a FETCH, an empty ELSE); only    *)
(* the labels after END, the parameters of FOR ... IN EXECUTE and the       *)
(* REVERSE of a FOR that is no integer loop are dropped.  The REVERSE of an *)
(* integer loop is in its field.  Set apart are the texts that leave out    *)
(* the part by which the tree knows of a clause, or give a clause twice, as *)
(* their comments do not allow, and those with a scroll option before       *)
(* something else than it is meant for.                                    *)
EndLabel(k) ==
  toks[k - 1] = "END" \/ (toks[k - 2] = "END" /\ toks[k - 1] = "LOOP")

ForParameter(k) ==
  \E n \in NodesOf({"ForS"}) :
    \E u \in n.from .. k - 1 :
      /\ toks[u] = "USING"
      /\ \A j \in u .. k - 1 : toks[j] = "LOOP" => OpenBefore(u, j) > 0

Reverse(k) ==
  \E n \in NodesOf({"ForI", "ForS"}) :
    /\ k = n.from + 3 /\ toks[k] = "REVERSE"
    /\ n.kind = "ForI" => "reverse" \in n.fields

ScrollOptionsKept ==
  /\ \A n \in NodesOf({"DeclVar"}) :
       At1(n.from + 1) \in {"NO", "SCROLL"} => "cursor" \in n.fields
  /\ \A n \in NodesOf({"Open"}) :
       At1(n.from + 2) = "NO" => "noscroll" \in n.fields


(* A statement that starts with a name is an assignment exactly when an     *)
(* assignment operator follows the whole name, its dots and its nested      *)
(* subscripts included; anything else is SQL.                               *)
AssignmentsRecognised ==
  Accepted =>
    \A n \in NodesOf({"Assign", "ExecSQL"}) :
      toks[n.from] \in WordStart =>
        (n.kind = "Assign" <=>
           \E e \in G!Ends(Text, G!target, n.from, {}) \ {G!Cut} :
             At1(e) \in Assignment)

(* Parse returns, whatever the text: no loop waits for a token that the     *)
(* text does not hold.                                                     *)
Terminates == <>(pc = "returned")

----------------------------------------------------------------------------
(* What the documentation says and the code does not do.                   *)

(* README: errh is "called for each parse error (nil to collect only the   *)
(* first error)", so an error reported to errh is one Parse returns.        *)
ReportedIsReturned == pc = "returned" /\ unterminated => first # 0

(* parse_block.go: "Not NO SCROLL, push back and treat as type".            *)
NoIsPartOfType ==
  Accepted =>
    \A n \in NodesOf({"DeclVar"}) :
      At1(n.from + 1) = "NO" /\ At1(n.from + 2) # "SCROLL" =>
        UsesOf(n.from + 1) = {"text"}

(* "option = expr" (parse_misc.go:168), and likewise "target = item" and    *)
(* "a.b.c := expr": an option, an item and a part of a name is a name, and  *)
(* no semicolon or end of another statement is taken for one.               *)
NamesAreNames == Accepted => G!KeepsTo({"name"}, Text)

=============================================================================
