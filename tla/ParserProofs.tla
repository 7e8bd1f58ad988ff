---------------------------- MODULE ParserProofs ----------------------------
(***************************************************************************)
(* Proofs about module Parser, for every family of texts and bound.        *)
(* Inv is the inductive invariant: the types, and the fact that p.first is *)
(* set exactly when an error has been counted, without which a later error *)
(* could become the one that Parse returns.                                *)
(***************************************************************************)
EXTENDS ParserContract, TLAPS

Latch == first = 0 <=> errcnt = 0

Inv == TypeOK /\ Latch

Moves == [at : Nat, use : Uses]
Locals == [at : Nat, begun : Nat, fields : SUBSET Fields]
Nodes == [kind : Kinds, from : Nat, to : Nat, begun : Nat, ended : Nat,
          fields : SUBSET Fields]

(* What every step does to the stream, and to the error fields.             *)
Forward ==
  StreamType' /\ moved' \in Seq(Moves) /\ cur <= cur' /\ (tok = EOF => tok' = EOF)

Errors == NoError \/ SyntaxError

(* What every step leaves of the control state.                            *)
Control ==
  /\ pc' = pc
  /\ acts' \in Seq(Locals)
  /\ depth' \in Nat
  /\ nodes' \in Seq(Nodes)

----------------------------------------------------------------------------
(* The stream.                                                             *)

(* Whatever the bounds, the scanner delivers tokens.                       *)
LEMMA UpcomingAreTokens ==
  ASSUME src \in Sources, NEW n \in Nat, n > 0, NEW more
  PROVE  Upcoming(n, more) \subseteq Token
<1>1. EOF \in Token
  BY DEF Token
<1>2. src.start \in Seq(Token \ {EOF}) /\ src.rest \subseteq Token \ {EOF}
  BY StreamAssumption DEF Source
<1>3. CASE n <= Len(src.start)
  <2>1. n \in 1 .. Len(src.start)
    BY <1>2, <1>3
  <2>2. src.start[n] \in Token
    BY <1>2, <2>1
  <2>. QED  BY <1>3, <2>2 DEF Upcoming
<1>4. CASE ~(n <= Len(src.start))
  BY <1>1, <1>2, <1>4 DEF Upcoming
<1>. QED  BY <1>3, <1>4

(* Scanner.Next keeps the stream's types, never goes back, and stays at    *)
(* the end of the input.                                                   *)
LEMMA AdvanceKeepsStream ==
  ASSUME StreamType, NEW more, Advance(more)
  PROVE  StreamType' /\ cur <= cur' /\ (tok = EOF => tok' = EOF)
<1>1. /\ src \in Sources
      /\ toks \in Seq(Token) /\ Len(toks) \in Nat /\ Len(toks) > 0
  BY DEF StreamType
<1>2. CASE pushed
  <2>1. /\ pushed' = FALSE
        /\ src' = src /\ toks' = toks /\ unterminated' = unterminated
    BY <1>2 DEF Advance
  <2>2. StreamType'
    BY <2>1 DEF StreamType
  <2>. QED  BY <1>1, <2>1, <2>2 DEF cur, tok
<1>3. CASE ~pushed /\ tok = EOF
  <2>1. /\ pushed' = pushed
        /\ src' = src /\ toks' = toks /\ unterminated' = unterminated
    BY <1>3 DEF Advance, streamVars
  <2>2. StreamType'
    BY <2>1 DEF StreamType
  <2>. QED  BY <1>1, <2>1, <2>2 DEF cur, tok
<1>4. CASE ~pushed /\ tok # EOF
  <2>1. Scan(more) /\ pushed' = pushed
    BY <1>4 DEF Advance
  <2>2. PICK t \in IF unterminated THEN {EOF} ELSE Upcoming(cur + 1, more) :
          /\ toks' = Append(toks, t)
          /\ unterminated' \in {unterminated, unterminated \/ t \in Broken}
          /\ src' = src
    BY <2>1 DEF Scan
  <2>3. t \in Token
    <3>1. EOF \in Token
      BY DEF Token
    <3>2. Upcoming(cur + 1, more) \subseteq Token
      BY <1>1, UpcomingAreTokens DEF cur
    <3>. QED  BY <2>2, <3>1, <3>2
  <2>4. toks' \in Seq(Token) /\ Len(toks') = Len(toks) + 1
    BY <1>1, <2>2, <2>3
  <2>5. unterminated' \in BOOLEAN
    BY <2>2 DEF StreamType
  <2>. QED  BY <1>1, <1>4, <2>1, <2>2, <2>4, <2>5 DEF StreamType, cur
<1>. QED  BY <1>2, <1>3, <1>4

LEMMA MoveOnGoesForward ==
  ASSUME TypeOK, NEW use \in Uses, MoveOn(use)
  PROVE  Forward
<1>1. StreamType /\ moved \in Seq(Moves) /\ Advance(Room)
  BY DEF TypeOK, Moves, MoveOn
<1>2. StreamType' /\ cur <= cur' /\ (tok = EOF => tok' = EOF)
  BY <1>1, AdvanceKeepsStream
<1>3. [at |-> cur, use |-> use] \in Moves
  BY <1>1 DEF StreamType, cur, Moves
<1>4. moved' \in Seq(Moves)
  BY <1>1, <1>3 DEF MoveOn
<1>. QED  BY <1>2, <1>4 DEF Forward

LEMMA StayGoesForward ==
  ASSUME TypeOK, Stay
  PROVE  Forward
<1>1. /\ StreamType /\ moved \in Seq(Moves)
      /\ src' = src /\ toks' = toks /\ pushed' = pushed
      /\ unterminated' = unterminated /\ moved' = moved
  BY DEF TypeOK, Moves, Stay
<1>2. StreamType'
  BY <1>1 DEF StreamType
<1>3. Len(toks) \in Nat
  BY <1>1 DEF StreamType
<1>. QED  BY <1>1, <1>2, <1>3 DEF Forward, cur, tok

LEMMA PushBackGoesForward ==
  ASSUME TypeOK, PushBack, moved' = moved
  PROVE  Forward
<1>1. /\ StreamType /\ moved \in Seq(Moves)
      /\ src' = src /\ toks' = toks /\ pushed' = TRUE
      /\ unterminated' = unterminated
  BY DEF TypeOK, Moves, PushBack
<1>2. StreamType'
  BY <1>1 DEF StreamType
<1>3. Len(toks) \in Nat
  BY <1>1 DEF StreamType
<1>. QED  BY <1>1, <1>2, <1>3 DEF Forward, cur, tok

----------------------------------------------------------------------------
(* The errors.                                                             *)

(* The first error stays the one recorded; the contract sees one report or  *)
(* none.                                                                   *)
LEMMA ErrorsAreLatched ==
  ASSUME Inv, Forward, Errors
  PROVE  /\ first' \in 0 .. cur'
         /\ errcnt' \in Nat
         /\ Latch'
         /\ Contract!Report \/ (first' = first /\ errcnt' = errcnt)
<1>1. /\ cur \in Nat /\ cur > 0 /\ cur' \in Nat /\ cur <= cur'
      /\ first \in 0 .. cur /\ errcnt \in Nat
      /\ first = 0 <=> errcnt = 0
  BY DEF Inv, Latch, TypeOK, StreamType, Forward, cur
<1>2. CASE NoError
  BY <1>1, <1>2 DEF NoError, Latch
<1>3. CASE SyntaxError
  <2>1. /\ first' = IF first = 0 THEN cur ELSE first
        /\ errcnt' = errcnt + 1
    BY <1>3 DEF SyntaxError
  <2>2. first' \in 0 .. cur' /\ errcnt' \in Nat /\ first' # 0 /\ errcnt' # 0
    BY <1>1, <2>1
  <2>3. IF errcnt = 0 THEN first' \in Nat \ {0} ELSE first' = first
    BY <1>1, <2>1
  <2>. QED  BY <2>1, <2>2, <2>3 DEF Latch, Contract!Report
<1>. QED  BY <1>2, <1>3 DEF Errors

----------------------------------------------------------------------------
(* The instructions, one lemma for each action.                            *)

LEMMA WantStep ==
  ASSUME Inv, Want
  PROVE  Forward /\ Errors /\ Control
<1>1. Forward
  BY MoveOnGoesForward, StayGoesForward DEF Want, Inv, Uses
<1>. QED  BY <1>1 DEF Want, Errors, Control, Done, GoOnWith, Inv, TypeOK,
               Locals, Nodes

LEMMA GotStep ==
  ASSUME Inv, Got
  PROVE  Forward /\ Errors /\ Control
<1>1. Forward
  BY MoveOnGoesForward, StayGoesForward DEF Got, Inv, Uses
<1>. QED  BY <1>1 DEF Got, Errors, Control, Done, GoOnWith, Inv, TypeOK,
               Locals, Nodes

LEMMA TakeTokenStep ==
  ASSUME Inv, TakeToken
  PROVE  Forward /\ Errors /\ Control
<1>1. PICK use \in Uses : MoveOn(use)
  <2>1. Ins.op = "next" \/ Ins.op = "lit" \/ Ins.op = "skip"
    BY DEF TakeToken, At
  <2>. QED  BY <2>1 DEF TakeToken, Uses
<1>2. Forward
  BY <1>1, MoveOnGoesForward DEF Inv
<1>. QED  BY <1>2 DEF TakeToken, Errors, Control, Done, GoOnWith, Inv,
               TypeOK, Locals, Nodes

LEMMA AnyIdentifierStep ==
  ASSUME Inv, AnyIdentifier
  PROVE  Forward /\ Errors /\ Control
<1>1. Forward
  BY MoveOnGoesForward DEF AnyIdentifier, Inv, Uses
<1>. QED  BY <1>1 DEF AnyIdentifier, Errors, Control, Done, GoOnWith, Inv,
               TypeOK, Locals, Nodes

LEMMA PutBackStep ==
  ASSUME Inv, PutBack
  PROVE  Forward /\ Errors /\ Control
<1>1. Forward
  BY PushBackGoesForward DEF PutBack, Inv
<1>. QED  BY <1>1 DEF PutBack, Errors, Control, Done, GoOnWith, Inv, TypeOK,
               Locals, Nodes

LEMMA ComplainStep ==
  ASSUME Inv, Complain
  PROVE  Forward /\ Errors /\ Control
<1>1. Forward
  BY StayGoesForward DEF Complain, Inv
<1>. QED  BY <1>1 DEF Complain, Errors, Control, Done, GoOnWith, Inv, TypeOK,
               Locals, Nodes

LEMMA CollectStep ==
  ASSUME Inv, Collect
  PROVE  Forward /\ Errors /\ Control
<1>1. CASE tok = EOF \/ (depth = 0 /\ tok \in Ins.on)
  <2>1. Done /\ Stay /\ depth' = 0 /\ NoError
    BY <1>1 DEF Collect
  <2>2. Forward
    BY <2>1, StayGoesForward DEF Inv
  <2>. QED  BY <2>1, <2>2 DEF Errors, Control, Done, GoOnWith, Inv, TypeOK,
                 Locals, Nodes
<1>2. CASE ~(tok = EOF \/ (depth = 0 /\ tok \in Ins.on))
  <2>1. /\ MoveOn(IF Ins.op = "collect" THEN "text" ELSE "lost")
        /\ depth' = CASE tok = Ins.open               -> depth + 1
                      [] tok = Ins.close /\ depth > 0 -> depth - 1
                      [] OTHER                        -> depth
        /\ UNCHANGED <<pc, code, acts, nodes>> /\ NoError
    BY <1>2 DEF Collect
  <2>2. Forward
    BY <2>1, MoveOnGoesForward DEF Inv, Uses
  <2>3. depth' \in Nat
    BY <2>1 DEF Inv, TypeOK
  <2>. QED  BY <2>1, <2>2, <2>3 DEF Errors, Control, Inv, TypeOK, Locals, Nodes
<1>. QED  BY <1>1, <1>2

LEMMA BranchStep ==
  ASSUME Inv, Branch
  PROVE  Forward /\ Errors /\ Control
<1>1. Forward
  BY StayGoesForward DEF Branch, Inv
<1>. QED  BY <1>1 DEF Branch, Errors, Control, GoOnWith, Inv, TypeOK, Locals,
               Nodes

LEMMA CallStep ==
  ASSUME Inv, NEW body, Call(body)
  PROVE  Forward /\ Errors /\ Control
<1>1. Forward
  BY StayGoesForward DEF Call, Inv
<1>2. [at |-> cur, begun |-> Len(moved), fields |-> {}] \in Locals
  BY DEF Inv, TypeOK, StreamType, Locals, cur
<1>3. acts' \in Seq(Locals)
  BY <1>2 DEF Call, Inv, TypeOK, Locals
<1>. QED  BY <1>1, <1>3 DEF Call, Errors, Control, Inv, TypeOK, Nodes

LEMMA SetFieldsStep ==
  ASSUME Inv, SetFields
  PROVE  Forward /\ Errors /\ Control
<1>1. Forward
  BY StayGoesForward DEF SetFields, Inv
<1>2. acts \in Seq(Locals) /\ acts # <<>>
  BY DEF SetFields, At, Running, Inv, TypeOK, Locals
<1>3. Len(acts) \in 1 .. Len(acts) /\ acts[Len(acts)] \in Locals
  BY <1>2
<1>4. [acts[Len(acts)] EXCEPT !.fields = @ \cup Ins.fields] \in Locals
  BY <1>3 DEF SetFields, Locals
<1>5. acts' = [acts EXCEPT ![Len(acts)] =
                [acts[Len(acts)] EXCEPT !.fields = @ \cup Ins.fields]]
  BY <1>2, <1>3 DEF SetFields
<1>6. acts' \in Seq(Locals)
  BY <1>2, <1>3, <1>4, <1>5
<1>. QED  BY <1>1, <1>6 DEF SetFields, Errors, Control, Inv, TypeOK, Nodes

LEMMA LeaveStep ==
  ASSUME Inv, acts # <<>>, Leave
  PROVE  Forward /\ Errors /\ acts' \in Seq(Locals)
<1>1. Forward
  BY StayGoesForward DEF Leave, Inv
<1>2. acts \in Seq(Locals) /\ Len(acts) \in Nat /\ Len(acts) > 0
  BY DEF Inv, TypeOK, Locals
<1>3. SubSeq(acts, 1, Len(acts) - 1) \in Seq(Locals)
  BY <1>2
<1>. QED  BY <1>1, <1>3 DEF Leave, Errors

LEMMA ReturnNodeStep ==
  ASSUME Inv, ReturnNode
  PROVE  Forward /\ Errors /\ Control
<1>1. acts \in Seq(Locals) /\ acts # <<>> /\ cur \in Nat
  BY DEF ReturnNode, At, Running, Inv, TypeOK, StreamType, Locals, cur
<1>2. acts[Len(acts)] \in Locals
  BY <1>1
<1>3. [kind |-> Ins.kind, from |-> acts[Len(acts)].at, to |-> cur,
       begun |-> acts[Len(acts)].begun, ended |-> Len(moved),
       fields |-> acts[Len(acts)].fields \cup Ins.fields] \in Nodes
  BY <1>1, <1>2 DEF ReturnNode, Nodes, Locals, Inv, TypeOK
<1>4. nodes' \in Seq(Nodes)
  BY <1>3 DEF ReturnNode, Inv, TypeOK, Nodes
<1>5. Forward /\ Errors /\ acts' \in Seq(Locals)
  BY <1>1, LeaveStep DEF ReturnNode
<1>. QED  BY <1>4, <1>5 DEF ReturnNode, Leave, Control, Inv, TypeOK

LEMMA ReturnStep ==
  ASSUME Inv, Return
  PROVE  Forward /\ Errors /\ Control
<1>1. Forward /\ Errors /\ acts' \in Seq(Locals)
  BY LeaveStep DEF Return, Running
<1>. QED  BY <1>1 DEF Return, Leave, Control, Inv, TypeOK, Nodes

(* What is left of Parse once parseBlock has returned.                     *)

LEMMA OptionalSemicolonStep ==
  ASSUME Inv, OptionalSemicolon
  PROVE  Forward /\ Errors /\ pc' = "semicolon" /\ UNCHANGED <<acts, depth, nodes>>
<1>1. Forward
  BY MoveOnGoesForward, StayGoesForward DEF OptionalSemicolon, Inv, Uses
<1>. QED  BY <1>1 DEF OptionalSemicolon, Errors

(* Parse returns nil only at the end of the text.                          *)
LEMMA ExpectEndOfInputStep ==
  ASSUME Inv, ExpectEndOfInput
  PROVE  /\ Forward /\ Errors
         /\ pc' = "returned" /\ UNCHANGED <<acts, depth, nodes>>
         /\ errcnt' = 0 => tok' = EOF
<1>1. Forward
  BY StayGoesForward DEF ExpectEndOfInput, Inv
<1>2. tok' = tok
  <2>1. toks' = toks
    BY DEF ExpectEndOfInput, Stay
  <2>. QED  BY <2>1 DEF tok, cur
<1>3. tok # EOF => errcnt' # 0
  BY DEF ExpectEndOfInput, SyntaxError, Inv, TypeOK
<1>. QED  BY <1>1, <1>2, <1>3 DEF ExpectEndOfInput, Errors

----------------------------------------------------------------------------
(* All the steps.                                                          *)

(* An instruction of a parse function leaves Parse inside parseBlock.      *)
LEMMA InstructionStep ==
  ASSUME Inv,
         \/ Want \/ Got \/ TakeToken \/ AnyIdentifier \/ PutBack \/ Complain
         \/ Collect \/ Branch \/ CallFunction \/ ParseProcStmt \/ SetFields
         \/ ReturnNode \/ Return
  PROVE  pc = "parseBlock" /\ Forward /\ Errors /\ Control
<1>1. pc = "parseBlock"
  BY DEF Want, Got, TakeToken, AnyIdentifier, PutBack, Complain, Collect,
         Branch, CallFunction, ParseProcStmt, SetFields, ReturnNode, Return,
         At, Running
<1>2. CallFunction => Forward /\ Errors /\ Control
  BY CallStep DEF CallFunction
<1>3. ParseProcStmt => Forward /\ Errors /\ Control
  BY CallStep DEF ParseProcStmt
<1>. QED  BY <1>1, <1>2, <1>3, WantStep, GotStep, TakeTokenStep,
               AnyIdentifierStep, PutBackStep, ComplainStep, CollectStep,
               BranchStep, SetFieldsStep, ReturnNodeStep, ReturnStep

(* Every step of Parse is a step of the contract, and keeps the invariant. *)
LEMMA ParseStep ==
  ASSUME Inv, Parse
  PROVE  Inv' /\ Contract!Step
<1>1. /\ Forward /\ Errors /\ pc # "returned"
      /\ acts' \in Seq(Locals) /\ depth' \in Nat /\ nodes' \in Seq(Nodes)
      /\ \/ pc' \in {"parseBlock", "semicolon"}
         \/ pc' = "returned" /\ (errcnt' = 0 => tok' = EOF)
  <2>0. acts \in Seq(Locals) /\ depth \in Nat /\ nodes \in Seq(Nodes)
    BY DEF Inv, TypeOK, Locals, Nodes
  <2>1. CASE OptionalSemicolon
    <3>1. pc = "parseBlock"
      BY <2>1 DEF OptionalSemicolon
    <3>. QED  BY <2>0, <2>1, <3>1, OptionalSemicolonStep
  <2>2. CASE ExpectEndOfInput
    <3>1. pc = "semicolon"
      BY <2>2 DEF ExpectEndOfInput
    <3>. QED  BY <2>0, <2>2, <3>1, ExpectEndOfInputStep
  <2>3. CASE ~OptionalSemicolon /\ ~ExpectEndOfInput
    <3>1. pc = "parseBlock" /\ Forward /\ Errors /\ Control
      BY <2>3, InstructionStep DEF Parse
    <3>. QED  BY <3>1 DEF Control
  <2>. QED  BY <2>1, <2>2, <2>3
<1>2. /\ first' \in 0 .. cur' /\ errcnt' \in Nat /\ Latch'
      /\ Contract!Report \/ (first' = first /\ errcnt' = errcnt)
  BY <1>1, ErrorsAreLatched
<1>3. Inv'
  <2>1. StreamType' /\ moved' \in Seq(Moves)
    BY <1>1 DEF Forward
  <2>2. pc' \in {"parseBlock", "semicolon", "returned"}
    BY <1>1
  <2>. QED  BY <1>1, <1>2, <2>1, <2>2 DEF Inv, TypeOK, Moves, Locals, Nodes
<1>4. Contract!Step
  <2>1. tok = EOF => tok' = EOF
    BY <1>1 DEF Forward
  <2>. QED  BY <1>1, <1>2, <2>1 DEF Contract!Step
<1>. QED  BY <1>3, <1>4

LEMMA InitialStates ==
  ASSUME Init
  PROVE  Inv /\ Contract!Init
<1>1. StreamType
  <2>1. PICK t \in Upcoming(1, TRUE) :
          toks = <<t>> /\ unterminated \in {FALSE, (t \in Broken)}
    BY DEF Init, StreamInit
  <2>2. src \in Sources /\ pushed \in BOOLEAN
    BY DEF Init, StreamInit
  <2>3. t \in Token
    <3>1. 1 \in Nat /\ 1 > 0
      OBVIOUS
    <3>2. Upcoming(1, TRUE) \subseteq Token
      BY <2>2, <3>1, UpcomingAreTokens, Zenon
    <3>. QED  BY <3>2
  <2>4. toks \in Seq(Token) /\ toks # <<>>
    BY <2>1, <2>3
  <2>5. unterminated \in BOOLEAN
    <3>1. unterminated = FALSE \/ unterminated = (t \in Broken)
      BY <2>1, Zenon
    <3>2. (t \in Broken) \in BOOLEAN
      OBVIOUS
    <3>. QED  BY <3>1, <3>2, Zenon
  <2>. QED  BY <2>2, <2>4, <2>5 DEF StreamType
<1>2. cur \in Nat
  BY <1>1 DEF StreamType, cur
<1>3. [at |-> 1, begun |-> 0, fields |-> {}] \in Locals
  BY DEF Locals
<1>4. acts \in Seq(Locals)
  BY <1>3 DEF Init
<1>5. TypeOK
  BY <1>1, <1>2, <1>4 DEF Init, TypeOK, Locals
<1>6. Latch
  BY DEF Init, Latch
<1>7. Contract!Init
  BY DEF Init, Contract!Init
<1>. QED  BY <1>5, <1>6, <1>7 DEF Inv

LEMMA StutteringStep ==
  ASSUME Inv, UNCHANGED vars
  PROVE  Inv' /\ UNCHANGED Contract!contractVars
<1>1. /\ src' = src
      /\ toks' = toks /\ pushed' = pushed /\ unterminated' = unterminated
      /\ pc' = pc /\ acts' = acts /\ depth' = depth /\ nodes' = nodes
      /\ moved' = moved /\ first' = first /\ errcnt' = errcnt
  BY DEF vars
<1>2. cur' = cur /\ tok' = tok
  BY <1>1 DEF cur, tok
<1>3. Inv'
  BY <1>1, <1>2 DEF Inv, TypeOK, StreamType, Latch
<1>4. UNCHANGED Contract!contractVars
  BY <1>1, <1>2 DEF Contract!contractVars
<1>. QED  BY <1>3, <1>4

(* The invariant is one.                                                   *)
LEMMA Invariance == Spec => []Inv
<1>1. Init => Inv
  BY InitialStates
<1>2. Inv /\ [Next]_vars => Inv'
  BY ParseStep, StutteringStep DEF Next, Returned
<1>. QED  BY <1>1, <1>2, PTL DEF Spec

(* Whatever the source text, however long and however wrong, the parser's  *)
(* variables keep their types: its stacks, its bracket counter (which a    *)
(* stray `)' does not make negative) and p.first, which is never a place   *)
(* the scanner has not reached.                                            *)
THEOREM TypeCorrect == Spec => []TypeOK
<1>1. Inv => TypeOK
  BY DEF Inv
<1>. QED  BY <1>1, Invariance, PTL

(* Parser.Parse implements its contract on every source text: the error it *)
(* returns is the first the parser reported, it returns nil only after it  *)
(* has reached the end of the text without reporting one, the end once     *)
(* reached stays, and it does nothing after it has returned.               *)
THEOREM ParserImplementsContract == Spec => KeepsContract
<1>1. Init => Contract!Init
  BY InitialStates
<1>2. Inv /\ [Next]_vars => [Contract!Step]_(Contract!contractVars)
  BY ParseStep, StutteringStep DEF Next, Returned
<1>. QED  BY <1>1, <1>2, Invariance, PTL DEF Spec, KeepsContract, Contract!Spec

=============================================================================
