----------------------------- MODULE CodeShapes -----------------------------
(***************************************************************************)
(* The forms that code takes in the parse functions: sets of instructions  *)
(* and of sequences of instructions.  A form tells what a piece of code    *)
(* needs of the state it runs in: one that returns a node needs a token    *)
(* to have been moved past, a call of a function that returns a node needs  *)
(* the text not to be at its end, a pushback needs a NO just before.       *)
(***************************************************************************)
EXTENDS Productions, Naturals

(* Instructions with no others in them; kinds are the nodes they return.    *)
Plain(kinds) ==
  [op : {"want", "got"}, on : SUBSET Token]
  \cup [op : {"next", "lit", "skip", "anyIdentifier", "syntaxError",
              "parseProcStmt"}]
  \cup [op : {"collect", "discard"}, on : SUBSET Token, open : Token,
        close : Token]
  \cup [op : {"set"}, fields : SUBSET Fields]
  \cup [op : {"node"}, kind : kinds, fields : SUBSET Fields]

Compound(X) ==
  [op : {"if"}, on : SUBSET Token, then : Seq(X), else : Seq(X)]
  \cup [op : {"while", "until"}, on : SUBSET Token, body : Seq(X)]

Nest(X) == X \cup Compound(X)

(* No parse function has more than five statements inside one another.     *)
Nested(X) == Nest(Nest(Nest(Nest(Nest(X)))))

One(X) == [1 .. 1 -> X]

(* The next instruction of the code b is one of H.                         *)
Led(b, H) == b # <<>> /\ Head(b) \in H

----------------------------------------------------------------------------
(* Where a token may be pushed back: the tests for NO and SCROLL after a    *)
(* name.                                                                   *)

(* Only parseDeclStatement returns a DeclVar, and of all other functions    *)
(* only parseStmtDynExecute a DynExecute.                                   *)
OtherKinds == Kinds \ {"DeclVar"}
FixedKinds == OtherKinds \ {"DynExecute"}

(* The nodes with statements in them, and those of the two statements that *)
(* may have a semicolon before their last one or end without one.          *)
CompositeKinds ==
  {"Block", "Exception", "If", "ElsIf", "Case", "CaseWhen", "Loop", "While",
   "ForI", "ForS", "ForEachA", "GetDiag", "Open"}

Simple == Nested(Plain(CompositeKinds))

PushBacks == {b \in Seq(Simple \cup {pushBack}) :
                Led(b, {pushBack}) /\ Tail(b) \in Seq(Simple)}

ScrollTests ==
  [op : {"if"}, on : {{"SCROLL"}}, then : Seq(Simple), else : PushBacks]

NoTests ==
  [op : {"if"}, on : {{"NO"}}, then : {next} \X ScrollTests,
   else : Seq(Simple)]

AliasTests ==
  [op : {"if"}, on : {{"ALIAS"}}, then : Seq(Simple), else : One(NoTests)]

(* The functions that return a node and start by moving past whatever there *)
(* is: a declaration; a handler, a branch of IF or CASE.  The calls of them. *)
DeclBodies == {anyIdentifier} \X AliasTests \X {node("DeclVar")}
BranchBodies == {b \in Seq(Simple) : Led(b, {next})}

BranchCalls == [op : {"call"}, body : BranchBodies]
NodeCalls == [op : {"call"}, body : DeclBodies] \cup BranchCalls

(* What parseDeclSection tests before it calls one.                        *)
LabelTests ==
  [op : {"if"}, on : {{"<<"}}, then : Seq(Plain({})), else : One(NodeCalls)]

DeclareTests ==
  [op : {"if"}, on : {{"DECLARE"}}, then : Seq(Plain({})),
   else : One(LabelTests)]

(* The loops that call one in each turn: none turns at the end of the text. *)
BranchLoops ==
  [op : {"while"}, on : SUBSET (Token \ {EOF}), body : One(BranchCalls)]

Loops ==
  BranchLoops
  \cup [op : {"until"}, on : {S \in SUBSET Token : EOF \in S},
        body : One(DeclareTests)]

----------------------------------------------------------------------------
(* All code but the above.                                                 *)

Sections(kinds) == Nested(Plain(kinds) \cup Loops)

(* What parses a block, without and with a label before it.                *)
LabelledBlock == blockRest \o <<want(semi), node("Block")>>
BlockBodies == {parseBlock, LabelledBlock}

BlockCalls == {call(b) : b \in BlockBodies}

Code(kinds) == Nested(Plain(kinds) \cup Loops \cup BlockCalls)

(* Code that calls nothing but branches and statements.                    *)
Stems(kinds) == Nested(Plain(kinds) \cup BranchLoops)

(* The instructions that move past the token t.                            *)
Movers(t) ==
  {i \in Plain({}) :
     t # EOF /\ \/ i.op \in {"next", "lit", "anyIdentifier"}
                \/ i.op = "want" /\ t \in i.on}

NamedOpen == {anyIdentifier} \X NoTests \X Simple \X Simple
OpenBodies == {want("OPEN")} \X {anyIdentifier} \X NoTests \X Simple \X Simple

(* What parseProcStmt does at the token t: it starts by moving past t, or    *)
(* calls parseBlock, or only reports an error.                             *)
StatementBodies(t) ==
  {b \in Seq(Code({"Block"})) \cup Seq(Code(Kinds)) : Led(b, Movers(t))}
  \cup {b \in OpenBodies : t = "OPEN"}
  \cup {b \in {<<call(parseBlock), want(semi)>>} : t \in {"DECLARE", "BEGIN"}}
  \cup {<<syntaxError, skip>>}

----------------------------------------------------------------------------
(* When code can be run.                                                   *)

(* The code b can run wherever the text goes on: it returns no node but a   *)
(* block, or its function has moved past a token (fed).                     *)
Settled(b, fed) == b \in Seq(Code({"Block"})) \/ (fed /\ b \in Seq(Code(Kinds)))

(* The code b can run at the token t: it is settled; or it is about to move *)
(* past t, which is not the end of the text, or to call what does; or it    *)
(* has just read a name and looks for NO and SCROLL.  free means that no    *)
(* token is pushed back, afterNo that t follows a NO just moved past.       *)
Ready(b, fed, t, free, afterNo) ==
  \/ Settled(b, fed)
  \/ /\ t # EOF /\ Led(b, NodeCalls \cup LabelTests \cup DeclareTests)
     /\ Settled(Tail(b), fed)
  \/ Led(b, Movers(t)) /\ b \in Seq(Code(Kinds))
  \/ t # EOF /\ b \in DeclBodies
  \/ t = "OPEN" /\ b \in OpenBodies
  \/ fed /\ b \in NamedOpen
  \/ /\ fed /\ free /\ Led(b, AliasTests \cup NoTests)
     /\ Tail(b) \in Seq(Code(Kinds))
  \/ /\ fed /\ free /\ t = "NO" /\ Led(b, {next}) /\ Led(Tail(b), ScrollTests)
     /\ Tail(Tail(b)) \in Seq(Code(Kinds))
  \/ fed /\ afterNo /\ Led(b, ScrollTests) /\ Tail(b) \in Seq(Code(Kinds))
  \/ /\ fed /\ afterNo /\ t # "SCROLL" /\ Led(b, {pushBack})
     /\ Tail(b) \in Seq(Code(Kinds))

=============================================================================
