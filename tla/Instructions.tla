---------------------------- MODULE Instructions ----------------------------
(***************************************************************************)
(* The vocabulary in which module Productions writes the parse functions   *)
(* of package parser.  A parse function is a sequence of instructions; an  *)
(* instruction is one call of a helper of parser.go or parse_expr.go, or   *)
(* one of Go's control statements on the current token.  Module Parser     *)
(* says what each instruction does.  S is always a set of token kinds.     *)
(***************************************************************************)
EXTENDS Tokens, Sequences

----------------------------------------------------------------------------
(* Moving past the current token.                                          *)

(* want, wantSelf, wantKw: p.next() over the token t, else an error.       *)
want(t) == [op |-> "want", on |-> {t}]

(* got, gotSelf, gotKw: p.next() if the current token is one of S.         *)
got(S) == [op |-> "got", on |-> S]

(* p.next() over a token whose kind the surrounding code has tested.       *)
next == [op |-> "next"]

(* p.next() over a token whose text p.lit goes into the tree.              *)
lit == [op |-> "lit"]

(* p.next() over a token whose text nobody keeps.                          *)
skip == [op |-> "skip"]

(* anyIdentifier: the name of an identifier-like token, or an error.       *)
anyIdentifier == [op |-> "anyIdentifier"]

(* p.pushBack()                                                            *)
pushBack == [op |-> "pushBack"]

(* collectTokens: the text up to a token of S outside parentheses.         *)
collect(S) == [op |-> "collect", on |-> S, open |-> "(", close |-> ")"]

(* collectTokens, its result never used.                                   *)
discard(S) == [op |-> "discard", on |-> S, open |-> "(", close |-> ")"]

(* syntaxError: an error that moves past nothing.                          *)
syntaxError == [op |-> "syntaxError"]

----------------------------------------------------------------------------
(* Control and the tree.                                                   *)

If(S, then, else) == [op |-> "if", on |-> S, then |-> then, else |-> else]
When(S, then) == If(S, then, <<>>)
While(S, body) == [op |-> "while", on |-> S, body |-> body]
Until(S, body) == [op |-> "until", on |-> S, body |-> body]

(* item, then sep and item again for as long as sep follows.               *)
Separated(sep, item) == item \o <<While({sep}, <<next>> \o item)>>

(* A call of the function with this body; a call of parseProcStmt.         *)
call(body) == [op |-> "call", body |-> body]
parseProcStmt == [op |-> "parseProcStmt"]

(* Seeded bug: a subscript ends at its first `]'.                          *)
subscriptFlat == [op |-> "collect", on |-> {"]"}, open |-> "(", close |-> ")"]

(* The inner loop of parseStmtWordStart: the text of one subscript.        *)
subscript == [op |-> "collect", on |-> {"]"}, open |-> "[", close |-> "]"]

(* The statements of a section, up to a token that ends it.                 *)
parseProcSect ==
  Until({"END", "EXCEPTION", "ELSE", "ELSIF", "WHEN", EOF}, <<parseProcStmt>>)

(* Fields of the node under construction; the node, returned by the call.  *)
set(fields) == [op |-> "set", fields |-> fields]
nodeWith(kind, fields) == [op |-> "node", kind |-> kind, fields |-> fields]
node(kind) == nodeWith(kind, {})

Fields == {"alias", "cursor", "noscroll", "scroll", "constant", "notnull",
           "isExit", "isMove", "isCall", "reverse", "stacked", "chain",
           "into", "strict", "dynamic"}

Statements == {"If", "Case", "Loop", "While", "ForI", "ForS", "ForEachA",
               "Exit", "Return", "ReturnNext", "ReturnQuery", "Raise",
               "Assert", "DynExecute", "Perform", "Call", "GetDiag", "Open",
               "Fetch", "Close", "Null", "Commit", "Rollback", "Assign",
               "ExecSQL"}

Kinds == Statements \cup {"Block", "DeclVar", "ElsIf", "CaseWhen", "Exception"}

=============================================================================
