-------------------------------- MODULE Parser --------------------------------
(***************************************************************************)
(* The recursive-descent parser (package parser) as a state machine.  Each *)
(* activation of a parse function is a pair: what is left of its body, in  *)
(* `code', and its locals, in `acts'; both are stacks, the running         *)
(* activation last.  A step carries out one instruction and moves past at  *)
(* most one token.                                                         *)
(***************************************************************************)
EXTENDS Productions, TokenStream

VARIABLES
  pc,            \* where Parse is: in parseBlock, past the
                 \*   optional `;', or returned
  code,          \* the rest of each active function's body
  acts,          \* its locals: the token at which it started, how many
                 \*   tokens had been moved past, the fields it has set
  depth,         \* the local variable of collectTokens
  nodes,         \* the nodes returned, in order
  moved,         \* history: each p.next(), the token it left and its use
  first,         \* the token at which p.first was recorded, 0 if it is nil
  errcnt         \* p.errcnt, the calls of the error handler by the parser

vars == <<src, toks, pushed, unterminated, pc, code, acts, depth, nodes, moved,
          first, errcnt>>

(* What becomes of a token the parser moves past: implied by the kind of   *)
(* node or by a field (syntax), text in a node (text), or nothing (lost).   *)
Uses == {"syntax", "text", "lost"}

TypeOK ==
  /\ StreamType
  /\ pc \in {"parseBlock", "semicolon", "returned"}
  /\ acts \in Seq([at : Nat, begun : Nat, fields : SUBSET Fields])
  /\ depth \in Nat
  /\ nodes \in Seq([kind : Kinds, from : Nat, to : Nat, begun : Nat,
                    ended : Nat, fields : SUBSET Fields])
  /\ moved \in Seq([at : Nat, use : Uses])
  /\ first \in 0 .. cur
  /\ errcnt \in Nat

Init ==
  /\ StreamInit
  /\ pc = "parseBlock"
  /\ code = <<parseBlock>>
  /\ acts = <<[at |-> 1, begun |-> 0, fields |-> {}]>>
  /\ depth = 0
  /\ nodes = <<>>
  /\ moved = <<>>
  /\ first = 0
  /\ errcnt = 0

----------------------------------------------------------------------------
(* p.next() and p.error().                                                 *)

Operand(m) == m.use # "syntax"

(* The bounds: whether the source text may go on after the current token.   *)
Room ==
  /\ cur < src.tokens
  /\ first = 0 \/ cur < first + src.slack
  /\ Len(SelectSeq(moved, Operand)) < src.operands

MoveOn(use) ==
  /\ Advance(Room)
  /\ moved' = IF tok = EOF THEN moved
              ELSE Append(moved, [at |-> cur, use |-> use])

Stay == UNCHANGED <<src, toks, pushed, unterminated, moved>>

(* Seeded bug: the last error is the one recorded.                         *)
SyntaxErrorLast == first' = cur /\ errcnt' = errcnt + 1

SyntaxError ==
  /\ first' = IF first = 0 THEN cur ELSE first
  /\ errcnt' = errcnt + 1

NoError == UNCHANGED <<first, errcnt>>

----------------------------------------------------------------------------
(* The running activation.                                                 *)

Running == pc = "parseBlock" /\ acts # <<>>
Body == code[Len(code)]
Ins == Head(Body)
At(ops) == Running /\ Body # <<>> /\ Ins.op \in ops

(* Replace the rest of the running body.                                   *)
GoOnWith(body) ==
  /\ code' = [code EXCEPT ![Len(code)] = body]
  /\ UNCHANGED <<pc, acts, nodes>>

Done == GoOnWith(Tail(Body))

Call(body) ==
  /\ code' = Append([code EXCEPT ![Len(code)] = Tail(Body)], body)
  /\ acts' = Append(acts, [at |-> cur, begun |-> Len(moved), fields |-> {}])
  /\ Stay /\ NoError /\ UNCHANGED <<pc, depth, nodes>>

Leave ==
  /\ code' = SubSeq(code, 1, Len(code) - 1)
  /\ acts' = SubSeq(acts, 1, Len(acts) - 1)
  /\ Stay /\ NoError /\ UNCHANGED <<pc, depth>>

----------------------------------------------------------------------------
(* The instructions.                                                       *)

(* Seeded bug: a token that is missing is not an error.                    *)
WantSilent ==
  /\ At({"want"})
  /\ \/ tok \in Ins.on /\ MoveOn("syntax")
     \/ tok \notin Ins.on /\ Stay
  /\ Done /\ NoError /\ UNCHANGED depth

Want ==
  /\ At({"want"})
  /\ \/ tok \in Ins.on /\ MoveOn("syntax") /\ NoError
     \/ tok \notin Ins.on /\ Stay /\ SyntaxError
  /\ Done /\ UNCHANGED depth

Got ==
  /\ At({"got"})
  /\ \/ tok \in Ins.on /\ MoveOn("syntax")
     \/ tok \notin Ins.on /\ Stay
  /\ Done /\ NoError /\ UNCHANGED depth

TakeToken ==
  /\ At({"next", "lit", "skip"})
  /\ MoveOn(CASE Ins.op = "next" -> "syntax"
              [] Ins.op = "lit"  -> "text"
              [] Ins.op = "skip" -> "lost")
  /\ Done /\ NoError /\ UNCHANGED depth

(* Seeded bug: an error moves past nothing.                                *)
AnyIdentifierStays ==
  /\ At({"anyIdentifier"})
  /\ \/ tok \in Identifiers /\ MoveOn("text") /\ NoError
     \/ tok \notin Identifiers /\ Stay /\ SyntaxError
  /\ Done /\ UNCHANGED depth

(* Moves past the token whether or not it is an identifier.                *)
AnyIdentifier ==
  /\ At({"anyIdentifier"})
  /\ \/ tok \in Identifiers /\ MoveOn("text") /\ NoError
     \/ tok \notin Identifiers /\ MoveOn("lost") /\ SyntaxError
  /\ Done /\ UNCHANGED depth

PutBack ==
  /\ At({"pushBack"})
  /\ PushBack
  /\ Done /\ NoError /\ UNCHANGED <<depth, moved>>

Complain ==
  /\ At({"syntaxError"})
  /\ SyntaxError
  /\ Done /\ Stay /\ UNCHANGED depth

(* Seeded bugs: the end of input is not looked for; `)' is not guarded.     *)
CollectPastEnd ==
  /\ At({"collect", "discard"})
  /\ IF depth = 0 /\ tok \in Ins.on
     THEN Done /\ Stay /\ depth' = 0
     ELSE /\ MoveOn(IF Ins.op = "collect" THEN "text" ELSE "lost")
          /\ UNCHANGED <<pc, code, acts, nodes, depth>>
  /\ NoError

CollectUnguarded ==
  /\ At({"collect", "discard"})
  /\ IF tok = EOF \/ (depth = 0 /\ tok \in Ins.on)
     THEN Done /\ Stay /\ depth' = 0
     ELSE /\ MoveOn(IF Ins.op = "collect" THEN "text" ELSE "lost")
          /\ depth' = CASE tok = Ins.open  -> depth + 1
                        [] tok = Ins.close -> depth - 1
                        [] OTHER           -> depth
          /\ UNCHANGED <<pc, code, acts, nodes>>
  /\ NoError

(* One turn of collectTokens, or its end.                                  *)
Collect ==
  /\ At({"collect", "discard"})
  /\ IF tok = EOF \/ (depth = 0 /\ tok \in Ins.on)
     THEN Done /\ Stay /\ depth' = 0
     ELSE /\ MoveOn(IF Ins.op = "collect" THEN "text" ELSE "lost")
          /\ depth' = CASE tok = Ins.open               -> depth + 1
                        [] tok = Ins.close /\ depth > 0 -> depth - 1
                        [] OTHER                        -> depth
          /\ UNCHANGED <<pc, code, acts, nodes>>
  /\ NoError

Branch ==
  /\ At({"if", "while", "until"})
  /\ GoOnWith(CASE Ins.op = "if" ->
                     (IF tok \in Ins.on THEN Ins.then ELSE Ins.else)
                     \o Tail(Body)
                [] Ins.op = "while" ->
                     IF tok \in Ins.on THEN Ins.body \o Body ELSE Tail(Body)
                [] Ins.op = "until" ->
                     IF tok \in Ins.on THEN Tail(Body) ELSE Ins.body \o Body)
  /\ Stay /\ NoError /\ UNCHANGED depth

CallFunction == At({"call"}) /\ Call(Ins.body)

ParseProcStmt == At({"parseProcStmt"}) /\ Call(Statement(tok))

SetFields ==
  /\ At({"set"}) /\ Ins.fields \subseteq Fields
  /\ acts' = [acts EXCEPT ![Len(acts)].fields = @ \cup Ins.fields]
  /\ code' = [code EXCEPT ![Len(code)] = Tail(Body)]
  /\ Stay /\ NoError /\ UNCHANGED <<pc, depth, nodes>>

(* Seeded bug: the fields set before the node is made are lost.            *)
ReturnNodeFresh ==
  /\ At({"node"}) /\ Ins.kind \in Kinds /\ Ins.fields \subseteq Fields
  /\ nodes' = Append(nodes, [kind |-> Ins.kind, from |-> acts[Len(acts)].at,
                             to |-> cur, begun |-> acts[Len(acts)].begun,
                             ended |-> Len(moved), fields |-> Ins.fields])
  /\ Leave

(* return &Stmt...{...}                                                    *)
ReturnNode ==
  /\ At({"node"}) /\ Ins.kind \in Kinds /\ Ins.fields \subseteq Fields
  /\ LET act == acts[Len(acts)]
     IN  nodes' = Append(nodes, [kind |-> Ins.kind, from |-> act.at, to |-> cur,
                                 begun |-> act.begun, ended |-> Len(moved),
                                 fields |-> act.fields \cup Ins.fields])
  /\ Leave

(* The end of a function that returns what its last call returned, or nil.  *)
Return == Running /\ Body = <<>> /\ Leave /\ UNCHANGED nodes

----------------------------------------------------------------------------
(* Parse after parseBlock.                                                 *)

OptionalSemicolon ==
  /\ pc = "parseBlock" /\ acts = <<>>
  /\ pc' = "semicolon"
  /\ \/ tok = ";" /\ MoveOn("syntax")
     \/ tok # ";" /\ Stay
  /\ NoError /\ UNCHANGED <<code, acts, depth, nodes>>

ExpectEndOfInput ==
  /\ pc = "semicolon"
  /\ pc' = "returned"
  /\ \/ tok = EOF /\ NoError
     \/ tok # EOF /\ SyntaxError
  /\ Stay /\ UNCHANGED <<code, acts, depth, nodes>>

Returned == pc = "returned" /\ UNCHANGED vars

Parse ==
  \/ Want \/ Got \/ TakeToken \/ AnyIdentifier \/ PutBack \/ Complain
  \/ Collect \/ Branch \/ CallFunction \/ ParseProcStmt \/ SetFields
  \/ ReturnNode \/ Return \/ OptionalSemicolon \/ ExpectEndOfInput

Next == Parse \/ Returned

Spec == Init /\ [][Next]_vars

(* A call of Parse runs until it returns: nothing can hold it up.           *)
FairSpec == Spec /\ WF_vars(Parse)

=============================================================================
