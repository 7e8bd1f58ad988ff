------------------------------- MODULE Grammar -------------------------------
(***************************************************************************)
(* The reference grammar: the productions that the parse functions are     *)
(* written for, and a recogniser that tries every alternative at every     *)
(* place.  It has no stack, no recovery and no committed choice, so it can *)
(* serve as the definition of what the parser should accept and of where a *)
(* text stops being the beginning of a function body.                      *)
(*                                                                         *)
(* Where the code accepts more than the comments of its functions say, the *)
(* grammar has both, the difference has a name, and the recogniser is told *)
(* in which differences it has to keep to the comment (strict):            *)
(*   "text"      IF expr THEN (parse_control.go:5), and wherever a comment *)
(*               names an expression, a type or a query: it may be empty   *)
(*   "reverse"   FOR var IN [REVERSE] lower .. upper (parse_control.go:170):*)
(*               REVERSE may stand before a query, too                     *)
(*   "slice"     [SLICE n] (parse_control.go:205): without n               *)
(*   "sqlstate"  SQLSTATE 'xxxxx' (parse_misc.go:143): without the code    *)
(*   "equals"    option = expr (parse_misc.go:168), target = item          *)
(*               (parse_misc.go:275): without =                            *)
(*   "name"      the same options and items, and the names after the first *)
(*               in a.b.c (parse_stmts.go:150): any token                  *)
(*   "clauses"   [INTO ...] [USING ...] (parse_misc.go:210): repeated      *)
(*   "cursor"    [direction] cursor (parse_misc.go:376): without a cursor  *)
(*   "when"      EXCEPTION WHEN ... (parse_misc.go:499): no handler at all *)
(***************************************************************************)
EXTENDS Tokens, Naturals, Sequences, FiniteSets

----------------------------------------------------------------------------
(* Grammar expressions.                                                    *)

T(S)       == [rule |-> "token", on |-> S]
K(t)       == T({t})
Cat(items) == [rule |-> "cat", items |-> items]
Alt(items) == [rule |-> "alt", items |-> items]
Opt(x)     == Alt(<<Cat(<<>>), x>>)
Star(x)    == [rule |-> "star", of |-> x]
Plus(x)    == Cat(<<x, Star(x)>>)
List(x, sep) == Cat(<<x, Star(Cat(<<K(sep), x>>))>>)
Upto(S)    == [rule |-> "upto", on |-> S, open |-> "(", close |-> ")"]
Subscript  == [rule |-> "upto", on |-> {"]"}, open |-> "[", close |-> "]"]
Not(x)     == [rule |-> "not", of |-> x]
Led(S, x)  == [rule |-> "led", on |-> S, of |-> x]
Ref(name)  == [rule |-> "ref", name |-> name]

(* Led says of x only that its phrases begin with one of S, which spares the *)
(* recogniser the alternatives that do not.                                *)

(* An option that is there whenever it can be.                             *)
Greedy(x)  == Alt(<<x, Not(x)>>)

(* x by the comment; what the code accepts.                                *)
Strictly(difference, x, code) ==
  [rule |-> "strictly", difference |-> difference, strict |-> x, code |-> code]

(* The text of an expression, a type, a query or a target, up to one of S.  *)
Text(S) == Strictly("text", Cat(<<Not(T(S)), Upto(S)>>), Upto(S))

ident == T(Identifiers)
anyToken == T(Token \ {EOF})
label == Cat(<<K("<<"), ident, K(">>")>>)
endLabel == Opt(T(LabelTokens))
assign == T({":=", "="})
equals == Strictly("equals", assign, Greedy(assign))
anyName == Strictly("name", ident, anyToken)
stmts == Star(Ref("stmt"))

----------------------------------------------------------------------------
(* parse_block.go and parseExceptionSect                                   *)

cursorArg == Cat(<<ident, Text({",", ")"})>>)

cursorDecl ==
  Cat(<<K("CURSOR"), Opt(Cat(<<K("("), List(cursorArg, ","), K(")")>>)),
        T({"IS", "FOR"}), Text({";"}), K(";")>>)

varDecl ==
  Cat(<<Opt(K("CONSTANT")),
        Text({";", ":=", "=", "COLLATE", "NOT", "DEFAULT", ")"}),
        Opt(Cat(<<K("COLLATE"), ident>>)),
        Opt(Cat(<<K("NOT"), K("NULL")>>)),
        Opt(Cat(<<T({":=", "=", "DEFAULT"}), Text({";"})>>)), K(";")>>)

scrollOption == Alt(<<K("SCROLL"), Cat(<<K("NO"), K("SCROLL")>>),
                      Not(T({"SCROLL", "NO"}))>>)

(* A type may begin with any word but ALIAS and what begins a cursor.       *)
decl ==
  Cat(<<ident,
        Alt(<<Cat(<<K("ALIAS"), K("FOR"), ident, K(";")>>),
              Cat(<<scrollOption, cursorDecl>>),
              Cat(<<Not(Alt(<<K("ALIAS"), Cat(<<scrollOption, K("CURSOR")>>)>>)),
                    varDecl>>)>>)>>)

declSection == Cat(<<K("DECLARE"), Star(Alt(<<K("DECLARE"), decl>>))>>)

condition ==
  Alt(<<ident, Cat(<<T({"SQLSTATE", "IDENT_SQLSTATE"}), K("SCONST")>>)>>)

handler == Cat(<<K("WHEN"), List(condition, "OR"), K("THEN"), stmts>>)

exceptionSection ==
  Cat(<<K("EXCEPTION"), Strictly("when", Plus(handler), Star(handler))>>)

blockBody ==
  Cat(<<Opt(declSection), K("BEGIN"), stmts, Opt(exceptionSection),
        K("END"), endLabel>>)

(* What Parse accepts: one block and an optional semicolon.                *)
function == Cat(<<Opt(label), blockBody, Opt(K(";"))>>)

----------------------------------------------------------------------------
(* parse_control.go                                                        *)

thenBody == Cat(<<Text({"THEN"}), K("THEN"), stmts>>)
elseBody == Opt(Cat(<<K("ELSE"), stmts>>))
loopBody == Cat(<<stmts, K("END"), K("LOOP"), endLabel, K(";")>>)

ifStmt == Cat(<<K("IF"), thenBody, Star(Cat(<<K("ELSIF"), thenBody>>)),
                elseBody, K("END"), K("IF"), K(";")>>)

caseStmt == Cat(<<K("CASE"), Upto({"WHEN"}), Plus(Cat(<<K("WHEN"), thenBody>>)),
                  elseBody, K("END"), K("CASE"), K(";")>>)

whileStmt == Cat(<<K("WHILE"), Text({"LOOP"}), K("LOOP"), loopBody>>)

integerRange ==
  Cat(<<Greedy(K("REVERSE")), Not(K("EXECUTE")), Text({"..", "LOOP"}), K(".."),
        Text({"LOOP", "BY"}), Opt(Cat(<<K("BY"), Text({"LOOP"})>>))>>)

rowsOf ==
  Cat(<<Strictly("reverse", Not(K("REVERSE")), Greedy(K("REVERSE"))),
        Alt(<<Cat(<<K("EXECUTE"), Text({"LOOP", "USING"}),
                    Opt(Cat(<<K("USING"), List(Text({",", "LOOP"}), ",")>>))>>),
              Cat(<<Not(K("EXECUTE")), Text({"..", "LOOP"})>>)>>)>>)

forStmt == Cat(<<K("FOR"), ident, K("IN"), Alt(<<integerRange, rowsOf>>),
                 K("LOOP"), loopBody>>)

slice ==
  Cat(<<K("SLICE"), Strictly("slice", K("ICONST"), Opt(K("ICONST")))>>)

foreachStmt ==
  Cat(<<K("FOREACH"), ident, Opt(slice), K("IN"), K("ARRAY"), Text({"LOOP"}),
        K("LOOP"), loopBody>>)

loopStmt ==
  Alt(<<Cat(<<K("LOOP"), loopBody>>), whileStmt, forStmt, foreachStmt>>)

exitStmt == Cat(<<T({"EXIT", "CONTINUE"}), endLabel,
                  Opt(Cat(<<K("WHEN"), Text({";"})>>)), K(";")>>)

----------------------------------------------------------------------------
(* parse_misc.go                                                           *)

raiseOption == Cat(<<anyName, equals, Text({",", ";"})>>)
raiseUsing == Cat(<<K("USING"), List(raiseOption, ",")>>)

raiseParams == Cat(<<K(","), List(Text({",", ";", "USING"}), ",")>>)

raiseCondition ==
  Alt(<<Cat(<<K("SQLSTATE"),
              Strictly("sqlstate", K("SCONST"), Opt(K("SCONST")))>>),
        T(({"WORD"} \cup Unreserved) \ {"SQLSTATE"})>>)

raiseStmt ==
  Cat(<<K("RAISE"),
        Opt(T({"EXCEPTION", "WARNING", "NOTICE", "INFO", "LOG", "DEBUG"})),
        Opt(Alt(<<Cat(<<K("SCONST"), Opt(raiseParams)>>), raiseCondition>>)),
        Opt(raiseUsing), K(";")>>)

(* One operand, or several separated by commas: text as far as `;'.        *)
operandStmt ==
  Alt(<<Cat(<<K("RETURN"), Upto({";"}), K(";")>>),
        Cat(<<T({"PERFORM", "CALL", "DO"}), Text({";"}), K(";")>>),
        Cat(<<K("ASSERT"), Text({",", ";"}),
              Opt(Cat(<<K(","), Text({";"})>>)), K(";")>>)>>)

into == Cat(<<K("INTO"), Greedy(K("STRICT")), Text({"USING", ";"})>>)
using == Cat(<<K("USING"), List(Text({",", ";", "INTO"}), ",")>>)

(* In any order: the comment parse_misc.go:222.                            *)
executeStmt ==
  Cat(<<K("EXECUTE"), Text({"INTO", "USING", ";"}),
        Strictly("clauses",
          Alt(<<Cat(<<Opt(into), Opt(using)>>), Cat(<<using, into>>)>>),
          Star(Alt(<<into, using>>))),
        K(";")>>)

diagItem == Cat(<<ident, equals, anyName>>)

getDiagStmt == Cat(<<K("GET"), Opt(T({"STACKED", "CURRENT"})),
                     K("DIAGNOSTICS"), List(diagItem, ","), K(";")>>)

(* The semicolon after a bound cursor is optional.                         *)
openStmt ==
  Cat(<<K("OPEN"), ident, scrollOption,
        Alt(<<Cat(<<K("FOR"), Text({";"}), K(";")>>),
              Cat(<<Not(K("FOR")),
                    Opt(Cat(<<K("("), Upto({")"}), K(")"), Upto({";"})>>)),
                    Opt(K(";"))>>)>>)>>)

direction ==
  Alt(<<Cat(<<T({"NEXT", "PRIOR", "FIRST", "LAST", "ABSOLUTE", "RELATIVE",
                 "FORWARD", "BACKWARD"}),
              Opt(K("ICONST")), Opt(T({"FROM", "IN"}))>>),
        Cat(<<T({"ALL", "ICONST"}), Opt(T({"FROM", "IN"}))>>)>>)

cursor == Strictly("cursor", T(LabelTokens), Opt(T(LabelTokens)))

fetchStmt ==
  Alt(<<Cat(<<K("FETCH"), Opt(direction), cursor,
              Opt(Cat(<<K("INTO"), Text({";"})>>)), K(";")>>),
        Cat(<<K("MOVE"), Opt(direction), cursor, K(";")>>)>>)

closeStmt == Cat(<<K("CLOSE"), ident, K(";")>>)

transactionStmt ==
  Cat(<<T({"COMMIT", "ROLLBACK"}),
        Opt(Cat(<<K("AND"), Opt(K("NO")), K("CHAIN")>>)), K(";")>>)

----------------------------------------------------------------------------
(* parse_stmts.go                                                          *)

Keyworded ==
  {"EXIT", "CONTINUE", "RETURN", "RAISE", "ASSERT", "EXECUTE", "PERFORM",
   "CALL", "DO", "GET", "OPEN", "FETCH", "MOVE", "CLOSE", "COMMIT",
   "ROLLBACK", "EXCEPTION", "ELSIF"}

(* A name, and what follows it up to an assignment operator.               *)
dottedName == Cat(<<Plus(Cat(<<K("."), anyName>>)), Not(K("."))>>)
subscripts ==
  Cat(<<Plus(Cat(<<K("["), Subscript, K("]")>>)), Not(K("["))>>)

target == Cat(<<T(WordStart),
                Alt(<<dottedName, subscripts, Not(T({".", "["}))>>)>>)

(* An assignment or SQL: a name, or a word that no other statement starts   *)
(* with.                                                                   *)
otherStmt ==
  Alt(<<Cat(<<target, Alt(<<Cat(<<assign, Text({";"})>>),
                            Cat(<<Not(assign), Upto({";"})>>)>>), K(";")>>),
        Cat(<<T(Unreserved \ Keyworded), Upto({";"}), K(";")>>)>>)

stmt ==
  Alt(<<Led({"<<", "LOOP", "WHILE", "FOR", "FOREACH", "DECLARE", "BEGIN"},
            Alt(<<Cat(<<Opt(label), loopStmt>>),
                  Cat(<<Opt(label), blockBody, K(";")>>)>>)),
        Led({"IF", "CASE", "NULL"},
            Alt(<<ifStmt, caseStmt, Cat(<<K("NULL"), K(";")>>)>>)),
        Led(Keyworded,
            Alt(<<exitStmt, raiseStmt, operandStmt, executeStmt, getDiagStmt,
                  openStmt, fetchStmt, closeStmt, transactionStmt>>)),
        otherStmt>>)

----------------------------------------------------------------------------
(* The recogniser.  Ends(s, g, i, strict) is the set of places where a      *)
(* phrase of g that starts at place i of s may end, with Cut among them     *)
(* when s stops inside such a phrase.                                       *)

Cut == 0

RECURSIVE Ends(_, _, _, _)
RECURSIVE CatEnds(_, _, _, _)
RECURSIVE StarEnds(_, _, _, _, _)
RECURSIVE UptoEnds(_, _, _, _)

CatEnds(s, items, from, strict) ==
  IF items = <<>> \/ from \subseteq {Cut} THEN from
  ELSE CatEnds(s, Tail(items),
               (from \cap {Cut}) \cup
               UNION {Ends(s, Head(items), i, strict) : i \in from \ {Cut}},
               strict)

(* All the places reached; the last ones are those not gone on from yet.    *)
StarEnds(s, x, reached, last, strict) ==
  LET more == UNION {Ends(s, x, i, strict) : i \in last \ {Cut}}
  IN  IF more \subseteq reached THEN reached
      ELSE StarEnds(s, x, reached \cup more, more \ reached, strict)

UptoEnds(s, g, i, depth) ==
  CASE i > Len(s)                          -> {Cut}
    [] i <= Len(s) /\ depth = 0 /\ s[i] \in g.on -> {i}
    [] OTHER -> UptoEnds(s, g, i + 1,
                  CASE s[i] = g.open                -> depth + 1
                    [] s[i] = g.close /\ depth > 0  -> depth - 1
                    [] OTHER                        -> depth)

Ends(s, g, i, strict) ==
  CASE g.rule = "token"  -> IF i > Len(s) THEN {Cut}
                            ELSE IF s[i] \in g.on THEN {i + 1} ELSE {}
    [] g.rule = "led"    -> IF i > Len(s) THEN {Cut}
                            ELSE IF s[i] \in g.on THEN Ends(s, g.of, i, strict)
                            ELSE {}
    [] g.rule = "not"    -> IF Ends(s, g.of, i, strict) \subseteq {Cut}
                            THEN {i} ELSE {}
    [] g.rule = "cat"    -> CatEnds(s, g.items, {i}, strict)
    [] g.rule = "alt"    -> UNION {Ends(s, g.items[k], i, strict) :
                                     k \in DOMAIN g.items}
    [] g.rule = "star"   -> StarEnds(s, g.of, {i}, {i}, strict)
    [] g.rule = "upto"   -> UptoEnds(s, g, i, 0)
    [] g.rule = "strictly" ->
         Ends(s, IF g.difference \in strict THEN g.strict ELSE g.code, i, strict)
    [] g.rule = "ref"    -> Ends(s, stmt, i, strict)

(* What the parser should accept, keeping to some of the comments; the      *)
(* language as the code has it, and the beginnings of its texts.            *)
KeepsTo(strict, s) == Len(s) + 1 \in Ends(s, function, 1, strict)
IsFunction(s) == KeepsTo({}, s)
IsBeginning(s) == {Cut, Len(s) + 1} \cap Ends(s, function, 1, {}) # {}

=============================================================================
