---------------------------- MODULE RecursionProofs ----------------------------
(***************************************************************************)
(* Proofs that the parse functions do not call each other without end, for *)
(* every family of texts and bound: the stack of calls grows by two at most *)
(* for each token moved past.  The bound is not inductive.  DepthsAgree     *)
(* keeps what it rests on: a function that has moved past nothing yet may   *)
(* call others only where they move past the current token, or call what   *)
(* does, and it stands no higher than two calls above the last function    *)
(* that moved.                                                             *)
(***************************************************************************)
EXTENDS ProgressProofs

(* Instructions that call nothing.                                         *)
Callless == {i \in Plain({}) : i.op # "parseProcStmt"}

BlockBegins == {"DECLARE", "BEGIN"}

BlockRests == {blockRest \o <<node("Block")>>, LabelledBlock}

(* The code b of a function that has moved past nothing, h calls above the  *)
(* last one that did, waits at the token t for a call to return.           *)
Waiting(b, h, t) ==
  \/ h <= 2 /\ b \in Seq(Callless)
  \/ h <= 1 /\ t \notin BlockBegins /\ b \in Seq(Sections({"Block"}))

(* The code b of such a function runs at the token t.                      *)
Shallow(b, h, t) ==
  \/ Waiting(b, h, t)
  \/ h <= 2 /\ Led(b, Movers(t))
  \/ /\ h <= IF t \in BlockBegins THEN 2 ELSE 1
     /\ b \in {parseBlock} \cup BlockRests
  \/ h <= 1 /\ t # "DECLARE" /\ b \in {Tail(r) : r \in BlockRests}
  \/ h <= 1 /\ t \in BlockBegins /\ b = <<call(parseBlock), want(semi)>>
  \/ /\ h <= 1 /\ t # EOF /\ t \notin BlockBegins
     /\ Led(b, NodeCalls \cup LabelTests \cup DeclareTests)
     /\ Tail(b) \in Seq(Sections({"Block"}))

(* Two calls are allowed for each token that had been passed when the call  *)
(* number k began; Height(k) tells how far above them it stands.           *)
Height(k) == k - 2 * acts[k].begun

DepthsAgree ==
  /\ \A k \in 1 .. Len(acts) : Height(k) <= 2
  /\ \A k \in 1 .. Len(acts) - 1 :
       Fed(acts[k]) \/ Waiting(code[k], Height(k), tok)
  /\ acts # <<>> => \/ Fed(acts[Len(acts)])
                    \/ Shallow(code[Len(acts)], Height(Len(acts)), tok)

----------------------------------------------------------------------------
(* The code.                                                               *)

LEMMA SectionParts ==
  ASSUME NEW kinds, NEW i \in Sections(kinds)
  PROVE  \/ i \in Plain(kinds)
         \/ i \in Loops
         \/ /\ i.op = "if" /\ i.then \in Seq(Sections(kinds))
            /\ i.else \in Seq(Sections(kinds))
         \/ i.op \in {"while", "until"} /\ i.body \in Seq(Sections(kinds))
<1>. DEFINE X == Plain(kinds) \cup Loops
<1>1. Sections(kinds) = Nested(X)
  BY DEF Sections
<1>. HIDE DEF X
<1>2. i \in X \/ i \in Compound(Sections(kinds))
  BY <1>1, NestedParts
<1>3. CASE i \in X
  BY <1>3 DEF X
<1>4. CASE i \in Compound(Sections(kinds))
  BY <1>4 DEF Compound
<1>. QED  BY <1>2, <1>3, <1>4

LEMMA SectionsHold == Seq(Plain({})) \subseteq Seq(Sections({"Block"}))
<1>1. Plain({}) \subseteq Plain({"Block"})
  BY DEF Plain
<1>2. Plain({}) \subseteq Sections({"Block"})
  BY <1>1, NestedHolds DEF Sections
<1>. QED  BY <1>2

LEMMA CalllessForms ==
  /\ <<want(semi)>> \in Seq(Callless)
  /\ <<syntaxError, skip>> \in Seq(Callless)
<1>1. semi \in Token
  BY DEF Token, Symbols, semi
<1>2. /\ want(semi) \in Plain({}) /\ syntaxError \in Plain({})
      /\ skip \in Plain({})
  BY <1>1, PlainForms
<1>3. /\ want(semi).op = "want" /\ syntaxError.op = "syntaxError"
      /\ skip.op = "skip"
  BY DEF want, syntaxError, skip
<1>4. want(semi) \in Callless /\ syntaxError \in Callless /\ skip \in Callless
  BY <1>2, <1>3 DEF Callless
<1>. QED  BY <1>4

LEMMA NextLeads ==
  /\ \A x : Led(<<next, x>>, {next}) /\ <<next, x>> \in Seq({next, x})
  /\ \A x, y : /\ Led(<<next, x, y>>, {next})
              /\ <<next, x, y>> \in Seq({next, x, y})
  BY DEF Led

(* The two instructions that the parsing of a block begins with.            *)
LEMMA RestParts ==
  ASSUME NEW r \in BlockRests
  PROVE  /\ r \in Seq(Sections({"Block"})) /\ r # <<>>
         /\ Head(r) = If({"DECLARE"}, <<next, parseDeclSection>>, <<>>)
         /\ Tail(r) \in Seq(Sections({"Block"})) /\ Tail(r) # <<>>
         /\ Head(Tail(r)) = want("BEGIN")
         /\ Tail(Tail(r)) \in Seq(Sections({"Block"}))
<1>1. /\ r \in Seq(Sections({"Block"}))
      /\ \/ r = blockRest \o <<node("Block")>>
         \/ r = blockRest \o <<want(semi), node("Block")>>
  BY BlockBodyForms DEF BlockRests, BlockBodies, LabelledBlock
<1>2. ASSUME NEW d, \/ d = blockRest \o <<node("Block")>>
                    \/ d = blockRest \o <<want(semi), node("Block")>>
      PROVE  /\ d # <<>> /\ Tail(d) # <<>>
             /\ Head(d) = When({"DECLARE"}, <<next, parseDeclSection>>)
             /\ Head(Tail(d)) = want("BEGIN")
  <2>1. CASE d = blockRest \o <<node("Block")>>
    BY <2>1 DEF blockRest
  <2>2. CASE d = blockRest \o <<want(semi), node("Block")>>
    BY <2>2 DEF blockRest
  <2>. QED  BY <1>2, <2>1, <2>2
<1>3. Tail(r) \in Seq(Sections({"Block"}))
  BY <1>1, <1>2
<1>4. Tail(Tail(r)) \in Seq(Sections({"Block"}))
  BY <1>1, <1>2, <1>3
<1>5. Head(r) = If({"DECLARE"}, <<next, parseDeclSection>>, <<>>)
  BY <1>1, <1>2 DEF When
<1>. QED  BY <1>1, <1>2, <1>3, <1>4, <1>5

LEMMA ParseBlockParts ==
  /\ parseBlock \in Seq(Sections({"Block"})) /\ parseBlock # <<>>
  /\ Head(parseBlock) =
       If({"<<"}, <<next, anyIdentifier, want(">>")>>, <<>>)
  /\ Tail(parseBlock) = blockRest \o <<node("Block")>>
<1>1. parseBlock \in Seq(Sections({"Block"}))
  BY BlockBodyForms DEF BlockBodies
<1>2. /\ parseBlock # <<>>
      /\ Head(parseBlock) = When({"<<"}, <<next, anyIdentifier, want(">>")>>)
      /\ Tail(parseBlock) = blockRest \o <<node("Block")>>
  BY DEF parseBlock, blockRest
<1>. QED  BY <1>1, <1>2 DEF When

----------------------------------------------------------------------------
(* What each instruction leaves of shallow code.  One that neither branches *)
(* nor calls, when it does not move past the token t.                      *)
LEMMA ShallowAtStay ==
  ASSUME NEW b, NEW h \in Int, NEW t \in Token, Shallow(b, h, t), b # <<>>,
         Head(b).op \notin {"if", "while", "until", "call"},
         ~Led(b, Movers(t))
  PROVE  Shallow(Tail(b), h, t)
<1>1. CASE Waiting(b, h, t)
  <2>1. Waiting(Tail(b), h, t)
    BY <1>1 DEF Waiting
  <2>. QED  BY <2>1 DEF Shallow
<1>2. CASE b \in {parseBlock} \cup BlockRests
  <2>1. Head(b).op = "if"
    BY <1>2, RestParts, ParseBlockParts DEF If
  <2>. QED  BY <2>1
<1>3. CASE h <= 1 /\ t # "DECLARE" /\ b \in {Tail(r) : r \in BlockRests}
  <2>1. PICK r \in BlockRests : b = Tail(r)
    BY <1>3
  <2>2. Head(b) = want("BEGIN") /\ Tail(b) \in Seq(Sections({"Block"}))
    BY <2>1, RestParts
  <2>3. t # "BEGIN"
    <3>1. t = "BEGIN" => t # EOF
      BY DEF EOF
    <3>. QED  BY <2>2, <3>1, MoverForms DEF Led
  <2>4. Waiting(Tail(b), h, t)
    BY <1>3, <2>2, <2>3 DEF Waiting, BlockBegins
  <2>. QED  BY <2>4 DEF Shallow
<1>4. b # <<call(parseBlock), want(semi)>>
  BY DEF call
<1>5. ~Led(b, NodeCalls \cup LabelTests \cup DeclareTests)
  BY Operations DEF Led
<1>. QED  BY <1>1, <1>2, <1>3, <1>4, <1>5 DEF Shallow

LEMMA ShallowAfterIf ==
  ASSUME NEW b, NEW h \in Int, NEW t \in Token, Shallow(b, h, t), b # <<>>,
         Head(b).op = "if",
         NEW c, c = IF t \in Head(b).on THEN Head(b).then ELSE Head(b).else
  PROVE  Shallow(c \o Tail(b), h, t)
<1>1. CASE Waiting(b, h, t)
  <2>1. /\ h <= 1 /\ t \notin BlockBegins /\ b \in Seq(Sections({"Block"}))
    <3>1. b \notin Seq(Callless)
      BY Operations DEF Callless
    <3>. QED  BY <1>1, <3>1 DEF Waiting
  <2>2. Head(b) \in Sections({"Block"}) /\ Tail(b) \in Seq(Sections({"Block"}))
    BY <2>1
  <2>3. /\ Head(b).then \in Seq(Sections({"Block"}))
        /\ Head(b).else \in Seq(Sections({"Block"}))
    BY <2>2, SectionParts, Operations
  <2>4. c \o Tail(b) \in Seq(Sections({"Block"}))
    BY <2>2, <2>3
  <2>. QED  BY <2>1, <2>4 DEF Shallow, Waiting
<1>2. ASSUME Led(c, {next}), t # EOF, h <= 2,
             Tail(b) \in Seq(Sections({"Block"})), \E S : c \in Seq(S)
      PROVE  Shallow(c \o Tail(b), h, t)
  <2>1. c \o Tail(b) # <<>> /\ Head(c \o Tail(b)) = Head(c)
    BY <1>2, Prefixed DEF Led
  <2>2. Led(c \o Tail(b), Movers(t))
    BY <1>2, <2>1, MoverForms DEF Led
  <2>. QED  BY <1>2, <2>2 DEF Shallow
<1>3. CASE /\ h <= IF t \in BlockBegins THEN 2 ELSE 1
           /\ b = parseBlock
  <2>1. h <= 2
    BY <1>3
  <2>2. Tail(b) \in Seq(Sections({"Block"})) /\ Tail(b) \in BlockRests
    BY <1>3, ParseBlockParts, RestParts DEF BlockRests
  <2>3. CASE t = "<<"
    <3>1. c = <<next, anyIdentifier, want(">>")>>
      BY <1>3, <2>3, ParseBlockParts, IfParts
    <3>2. Led(c, {next}) /\ c \in Seq({next, anyIdentifier, want(">>")})
      BY <3>1, NextLeads
    <3>3. t # EOF
      BY <2>3 DEF EOF
    <3>. QED  BY <1>2, <2>1, <2>2, <3>2, <3>3
  <2>4. CASE t # "<<"
    <3>1. c = <<>>
      BY <1>3, <2>4, ParseBlockParts, IfParts
    <3>2. c \o Tail(b) = Tail(b)
      BY <2>2, <3>1
    <3>. QED  BY <1>3, <2>2, <3>2 DEF Shallow
  <2>. QED  BY <2>3, <2>4
<1>4. CASE /\ h <= IF t \in BlockBegins THEN 2 ELSE 1
           /\ b \in BlockRests
  <2>1. h <= 2
    BY <1>4
  <2>2. Tail(b) \in Seq(Sections({"Block"}))
    BY <1>4, RestParts
  <2>3. CASE t = "DECLARE"
    <3>1. c = <<next, parseDeclSection>>
      BY <1>4, <2>3, RestParts, IfParts
    <3>2. Led(c, {next}) /\ c \in Seq({next, parseDeclSection})
      BY <3>1, NextLeads
    <3>3. t # EOF
      BY <2>3 DEF EOF
    <3>. QED  BY <1>2, <2>1, <2>2, <3>2, <3>3
  <2>4. CASE t # "DECLARE"
    <3>1. c = <<>>
      BY <1>4, <2>4, RestParts, IfParts
    <3>2. c \o Tail(b) = Tail(b)
      BY <2>2, <3>1
    <3>3. CASE h <= 1
      BY <1>4, <2>4, <3>2, <3>3 DEF Shallow
    <3>4. CASE t = "BEGIN"
      <4>1. want("BEGIN") \in Movers(t)
        BY <3>4, MoverForms DEF EOF
      <4>2. Led(Tail(b), Movers(t))
        BY <1>4, <4>1, RestParts DEF Led
      <4>. QED  BY <2>1, <3>2, <4>2 DEF Shallow
    <3>. QED  BY <1>4, <2>4, <3>3, <3>4 DEF BlockBegins
  <2>. QED  BY <2>3, <2>4
<1>5. CASE /\ h <= 1 /\ t # EOF /\ t \notin BlockBegins
           /\ Led(b, NodeCalls \cup LabelTests \cup DeclareTests)
           /\ Tail(b) \in Seq(Sections({"Block"}))
  <2>1. Head(b) \in LabelTests \cup DeclareTests
    BY <1>5, Operations DEF Led
  <2>2. c \in Seq(Plain({})) \/ c \in One(NodeCalls) \/ c \in One(LabelTests)
    BY <2>1 DEF LabelTests, DeclareTests
  <2>3. CASE c \in Seq(Plain({}))
    <3>1. c \o Tail(b) \in Seq(Sections({"Block"}))
      BY <1>5, <2>3, SectionsHold
    <3>. QED  BY <1>5, <3>1 DEF Shallow, Waiting
  <2>4. CASE c \in One(NodeCalls) \/ c \in One(LabelTests)
    <3>1. PICK i \in NodeCalls \cup LabelTests : c = <<i>>
      BY <2>4, OneHolds
    <3>2. /\ <<i>> \o Tail(b) # <<>> /\ Head(<<i>> \o Tail(b)) = i
          /\ Tail(<<i>> \o Tail(b)) = Tail(b)
      BY <1>5, Prefixed
    <3>. QED  BY <1>5, <3>1, <3>2 DEF Shallow, Led
  <2>. QED  BY <2>2, <2>3, <2>4
<1>6. ~Led(b, Movers(t))
  BY DEF Led, Movers
<1>7. b \notin {Tail(r) : r \in BlockRests}
  <2>1. \A r \in BlockRests : Head(Tail(r)).op = "want"
    BY RestParts DEF want
  <2>. QED  BY <2>1
<1>8. b # <<call(parseBlock), want(semi)>>
  BY DEF call
<1>. QED  BY <1>1, <1>3, <1>4, <1>5, <1>6, <1>7, <1>8 DEF Shallow
LEMMA ShallowAfterLoopTest ==
  ASSUME NEW b, NEW h \in Int, NEW t \in Token, Shallow(b, h, t), b # <<>>,
         Head(b).op \in {"while", "until"}
  PROVE  /\ Shallow(Tail(b), h, t)
         /\ (Head(b).op = "while" /\ t \in Head(b).on)
              \/ (Head(b).op = "until" /\ t \notin Head(b).on)
            => Shallow(Head(b).body \o b, h, t)
<1>1. Waiting(b, h, t)
  <2>1. ~Led(b, Movers(t))
    BY DEF Led, Movers
  <2>2. b \notin {parseBlock} \cup BlockRests
    BY RestParts, ParseBlockParts, IfParts
  <2>3. b \notin {Tail(r) : r \in BlockRests}
    <3>1. \A r \in BlockRests : Head(Tail(r)).op = "want"
      BY RestParts DEF want
    <3>. QED  BY <3>1
  <2>4. b # <<call(parseBlock), want(semi)>>
    BY DEF call
  <2>5. ~Led(b, NodeCalls \cup LabelTests \cup DeclareTests)
    BY Operations DEF Led
  <2>. QED  BY <2>1, <2>2, <2>3, <2>4, <2>5 DEF Shallow
<1>2. h <= 1 /\ t \notin BlockBegins /\ b \in Seq(Sections({"Block"}))
  <2>1. b \notin Seq(Callless)
    BY Operations DEF Callless
  <2>. QED  BY <1>1, <2>1 DEF Waiting
<1>3. Shallow(Tail(b), h, t)
  BY <1>2 DEF Shallow, Waiting
<1>4. ASSUME \/ Head(b).op = "while" /\ t \in Head(b).on
             \/ Head(b).op = "until" /\ t \notin Head(b).on
      PROVE  Shallow(Head(b).body \o b, h, t)
  <2>1. Head(b) \in Loops \/ Head(b).body \in Seq(Sections({"Block"}))
    <3>1. Head(b) \in Sections({"Block"})
      BY <1>2
    <3>. QED  BY <3>1, SectionParts, Operations
  <2>2. CASE Head(b) \in Loops
    <3>1. /\ t # EOF
          /\ \/ Head(b).body \in One(NodeCalls)
             \/ Head(b).body \in One(DeclareTests)
      BY <1>4, <2>2, LoopBodies
    <3>2. PICK i \in NodeCalls \cup DeclareTests : Head(b).body = <<i>>
      BY <3>1, OneHolds
    <3>3. /\ <<i>> \o b # <<>> /\ Head(<<i>> \o b) = i
          /\ Tail(<<i>> \o b) = b
      BY <1>2, Prefixed
    <3>. QED  BY <1>2, <3>1, <3>2, <3>3 DEF Shallow, Led
  <2>3. CASE Head(b).body \in Seq(Sections({"Block"}))
    <3>1. Head(b).body \o b \in Seq(Sections({"Block"}))
      BY <1>2, <2>3
    <3>. QED  BY <1>2, <3>1 DEF Shallow, Waiting
  <2>. QED  BY <2>1, <2>2, <2>3
<1>. QED  BY <1>3, <1>4

(* The functions called for each declaration, handler and branch start by  *)
(* moving past a token.                                                    *)
LEMMA NodeCallMoves ==
  ASSUME NEW c \in NodeCalls, NEW t \in Token, t # EOF
  PROVE  Led(c.body, Movers(t))
<1>1. c.body \in DeclBodies \/ c.body \in BranchBodies
  BY NodeCallBodies
<1>2. CASE c.body \in DeclBodies
  <2>1. PICK n \in AliasTests : c.body = <<anyIdentifier, n, node("DeclVar")>>
    BY <1>2, BodyParts
  <2>2. c.body # <<>> /\ Head(c.body) = anyIdentifier
    BY <2>1
  <2>. QED  BY <2>2, MoverForms DEF Led
<1>3. CASE c.body \in BranchBodies
  BY <1>3, MoverForms DEF BranchBodies, Led
<1>. QED  BY <1>1, <1>2, <1>3

(* parseProcStmt moves past the token t, or calls parseBlock, which does.   *)
LEMMA ShallowStatement ==
  ASSUME NEW t \in Token, NEW h \in Int, h <= 2, t \in BlockBegins => h <= 1
  PROVE  Shallow(Statement(t), h, t)
<1>1. CASE Led(Statement(t), Movers(t))
  BY <1>1 DEF Shallow
<1>2. CASE t = "OPEN" /\ Statement(t) \in OpenBodies
  <2>1. want("OPEN") \in Movers(t)
    BY <1>2, MoverForms DEF EOF
  <2>2. Led(Statement(t), Movers(t))
    BY <1>2, <2>1, BodyParts DEF Led
  <2>. QED  BY <2>2 DEF Shallow
<1>3. CASE /\ t \in BlockBegins
           /\ Statement(t) = <<call(parseBlock), want(semi)>>
  BY <1>3 DEF Shallow
<1>4. CASE Statement(t) = <<syntaxError, skip>>
  BY <1>4, CalllessForms DEF Shallow, Waiting
<1>. QED  BY <1>1, <1>2, <1>3, <1>4, StatementForm DEF StatementBodies,
     BlockBegins

(* A function that has moved past nothing calls another.                   *)
LEMMA ShallowAfterCall ==
  ASSUME NEW b, NEW h \in Int, NEW t \in Token, Shallow(b, h, t), b # <<>>,
         Head(b).op = "call"
  PROVE  h <= 1 /\ Waiting(Tail(b), h, t) /\ Shallow(Head(b).body, h + 1, t)
<1>1. ~Waiting(b, h, t)
  <2>1. b \notin Seq(Callless)
    BY Operations DEF Callless
  <2>2. b \notin Seq(Sections({"Block"}))
    BY SectionParts, Operations
  <2>. QED  BY <2>1, <2>2 DEF Waiting
<1>2. ~Led(b, Movers(t))
  BY DEF Led, Movers
<1>3. b \notin {parseBlock} \cup BlockRests
  BY RestParts, ParseBlockParts, IfParts
<1>4. b \notin {Tail(r) : r \in BlockRests}
  <2>1. \A r \in BlockRests : Head(Tail(r)).op = "want"
    BY RestParts DEF want
  <2>. QED  BY <2>1
<1>5. CASE /\ h <= 1 /\ t \in BlockBegins
           /\ b = <<call(parseBlock), want(semi)>>
  <2>1. Tail(b) = <<want(semi)>> /\ Head(b).body = parseBlock
    BY <1>5 DEF call
  <2>2. h <= 2 /\ h + 1 <= 2
    BY <1>5
  <2>3. Waiting(Tail(b), h, t)
    BY <2>1, <2>2, CalllessForms DEF Waiting
  <2>. QED  BY <1>5, <2>1, <2>2, <2>3 DEF Shallow
<1>6. CASE /\ h <= 1 /\ t # EOF /\ t \notin BlockBegins
           /\ Led(b, NodeCalls \cup LabelTests \cup DeclareTests)
           /\ Tail(b) \in Seq(Sections({"Block"}))
  <2>1. Head(b) \in NodeCalls
    BY <1>6, Operations DEF Led
  <2>2. Led(Head(b).body, Movers(t))
    BY <1>6, <2>1, NodeCallMoves
  <2>3. h + 1 <= 2
    BY <1>6
  <2>. QED  BY <1>6, <2>2, <2>3 DEF Shallow, Waiting
<1>. QED  BY <1>1, <1>2, <1>3, <1>4, <1>5, <1>6 DEF Shallow

LEMMA ShallowAfterStatementCall ==
  ASSUME NEW b, NEW h \in Int, NEW t \in Token, Shallow(b, h, t), b # <<>>,
         Head(b).op = "parseProcStmt"
  PROVE  h <= 1 /\ Waiting(Tail(b), h, t) /\ Shallow(Statement(t), h + 1, t)
<1>1. Waiting(b, h, t)
  <2>1. ~Led(b, Movers(t))
    BY DEF Led, Movers
  <2>2. b \notin {parseBlock} \cup BlockRests
    BY RestParts, ParseBlockParts, IfParts
  <2>3. b \notin {Tail(r) : r \in BlockRests}
    <3>1. \A r \in BlockRests : Head(Tail(r)).op = "want"
      BY RestParts DEF want
    <3>. QED  BY <3>1
  <2>4. b # <<call(parseBlock), want(semi)>>
    BY DEF call
  <2>5. ~Led(b, NodeCalls \cup LabelTests \cup DeclareTests)
    BY Operations DEF Led
  <2>. QED  BY <2>1, <2>2, <2>3, <2>4, <2>5 DEF Shallow
<1>2. h <= 1 /\ t \notin BlockBegins /\ b \in Seq(Sections({"Block"}))
  <2>1. b \notin Seq(Callless)
    BY DEF Callless
  <2>. QED  BY <1>1, <2>1 DEF Waiting
<1>3. h + 1 <= 2 /\ h + 1 \in Int
  BY <1>2
<1>. QED  BY <1>2, <1>3, ShallowStatement DEF Waiting

(* A function that has moved past a token calls another.                   *)
LEMMA ShallowWhenCalled ==
  ASSUME NEW b, NEW fed \in BOOLEAN, NEW t \in Token, NEW free \in BOOLEAN,
         NEW afterNo \in BOOLEAN, Ready(b, fed, t, free, afterNo),
         b # <<>>, Head(b).op = "call", NEW h \in Int, h <= 1
  PROVE  Shallow(Head(b).body, h, t)
<1>1. CASE Settled(b, fed)
  <2>1. PICK kinds \in {{"Block"}, Kinds} : Head(b) \in Code(kinds)
    BY <1>1, SettledHead
  <2>2. Head(b) \in BlockCalls
    BY <2>1, InstructionParts, Operations
  <2>3. Head(b).body \in {parseBlock} \cup BlockRests
    BY <2>2, BlockCallBodies DEF BlockBodies, BlockRests
  <2>4. h <= IF t \in BlockBegins THEN 2 ELSE 1
    OBVIOUS
  <2>. QED  BY <2>3, <2>4 DEF Shallow
<1>2. CASE t # EOF /\ Led(b, NodeCalls \cup LabelTests \cup DeclareTests)
  <2>1. Head(b) \in NodeCalls
    BY <1>2, Operations DEF Led
  <2>2. Led(Head(b).body, Movers(t))
    BY <1>2, <2>1, NodeCallMoves
  <2>. QED  BY <2>2 DEF Shallow
<1>3. ~Led(b, Movers(t))
  BY DEF Led, Movers
<1>4. b \notin DeclBodies /\ b \notin OpenBodies /\ b \notin NamedOpen
  BY BodyParts, Operations
<1>5. /\ ~Led(b, AliasTests \cup NoTests) /\ ~Led(b, ScrollTests)
      /\ ~Led(b, {next}) /\ ~Led(b, {pushBack})
  BY Operations DEF Led
<1>. QED  BY <1>1, <1>2, <1>3, <1>4, <1>5 DEF Ready
----------------------------------------------------------------------------
(* The steps.                                                              *)

LEMMA HeightTypes ==
  ASSUME Inv, StacksAgree
  PROVE  /\ Len(acts) \in Nat /\ Len(moved) \in Nat /\ tok \in Token
         /\ \A k \in 1 .. Len(acts) :
              /\ acts[k].begun \in Nat /\ acts[k].begun <= Len(moved)
              /\ Height(k) \in Int
              /\ Fed(acts[k]) <=> acts[k].begun < Len(moved)
<1>1. Len(acts) \in Nat /\ Len(moved) \in Nat /\ tok \in Token
  BY StackTypes, HistoryTypes DEF tok
<1>2. \A k \in 1 .. Len(acts) :
        acts[k].begun \in Nat /\ acts[k].begun <= Len(moved)
  BY StackTypes DEF StacksAgree
<1>3. \A k \in 1 .. Len(acts) : Height(k) \in Int
  BY <1>1, <1>2 DEF Height
<1>. QED  BY <1>1, <1>2, <1>3 DEF Fed

(* When a token is passed, every function that runs has passed it.         *)
LEMMA MovingKeepsDepths ==
  ASSUME Inv, StacksAgree, DepthsAgree, acts' = acts, Grows,
         Len(moved) < Len(moved')
  PROVE  DepthsAgree'
<1>. DEFINE n == Len(acts)
<1>1. /\ n \in Nat /\ Len(moved) \in Nat /\ Len(moved') \in Nat
      /\ \A k \in 1 .. n : acts[k].begun \in Nat /\ acts[k].begun <= Len(moved)
  BY HeightTypes DEF Grows
<1>2. \A k \in 1 .. n : acts[k].begun < Len(moved')
  BY <1>1
<1>3. \A k \in 1 .. n : Height(k) <= 2
  BY DEF DepthsAgree
<1>4. acts # <<>> => n \in 1 .. n
  BY StackTypes
<1>5. \A k \in 1 .. n : Fed(acts[k])'
  BY <1>2 DEF Fed
<1>6. \A k \in 1 .. n - 1 : k \in 1 .. n
  BY <1>1
<1>. QED  BY <1>3, <1>4, <1>5, <1>6 DEF DepthsAgree, Height

(* When none is, the calls below stay and the running one goes on with b.   *)
LEMMA StayingKeepsDepths ==
  ASSUME Inv, StacksAgree, DepthsAgree, Running, moved' = moved, tok' = tok,
         Len(acts') = Len(acts),
         \A k \in 1 .. Len(acts) : acts'[k].begun = acts[k].begun,
         NEW b, code' = [code EXCEPT ![Len(code)] = b],
         Fed(acts[Len(acts)]) \/ Shallow(b, Height(Len(acts)), tok)
  PROVE  DepthsAgree'
<1>. DEFINE n == Len(acts)
<1>1. n \in 1 .. n /\ n \in Nat
  BY RunningCode, StackTypes
<1>2. /\ code'[n] = b
      /\ \A k \in 1 .. n - 1 : code'[k] = code[k]
  BY GoOnStacks
<1>3. \A k \in 1 .. n : /\ k - 2 * acts'[k].begun = Height(k)
                        /\ acts'[k].begun < Len(moved') <=> Fed(acts[k])
  BY DEF Height, Fed
<1>4. \A k \in 1 .. n : k - 2 * acts'[k].begun <= 2
  BY <1>3 DEF DepthsAgree
<1>5. ASSUME NEW k \in 1 .. n - 1
      PROVE  \/ acts'[k].begun < Len(moved')
             \/ Waiting(code'[k], k - 2 * acts'[k].begun, tok')
  <2>1. k \in 1 .. n
    BY <1>1
  <2>2. Fed(acts[k]) \/ Waiting(code[k], Height(k), tok)
    BY DEF DepthsAgree
  <2>. QED  BY <1>2, <1>3, <2>1, <2>2
<1>6. \/ acts'[n].begun < Len(moved')
      \/ Shallow(code'[n], n - 2 * acts'[n].begun, tok')
  BY <1>1, <1>2, <1>3
<1>. QED  BY <1>4, <1>5, <1>6 DEF DepthsAgree, Height, Fed

(* A call: the caller waits, and the new function is one call above it.     *)
LEMMA CallingKeepsDepths ==
  ASSUME Inv, StacksAgree, DepthsAgree, Running, NEW b, Call(b),
         Fed(acts[Len(acts)]) \/ Waiting(Tail(Body), Height(Len(acts)), tok),
         NEW h \in Int, h = Len(acts) + 1 - 2 * Len(moved),
         h <= 2, Shallow(b, h, tok)
  PROVE  DepthsAgree'
<1>. DEFINE n == Len(acts)
<1>1. n \in 1 .. n /\ n \in Nat
  BY RunningCode, StackTypes
<1>2. /\ Len(acts') = n + 1
      /\ acts'[n + 1].begun = Len(moved) /\ code'[n + 1] = b
      /\ \A k \in 1 .. n : acts'[k] = acts[k]
      /\ code'[n] = Tail(Body)
      /\ \A k \in 1 .. n - 1 : code'[k] = code[k]
  BY CallStacks
<1>3. moved' = moved /\ tok' = tok
  BY DEF Call, Stay, tok, cur
<1>4. \A k \in 1 .. n : /\ k - 2 * acts'[k].begun = Height(k)
                        /\ acts'[k].begun < Len(moved') <=> Fed(acts[k])
  BY <1>2, <1>3 DEF Height, Fed
<1>5. n + 1 - 2 * acts'[n + 1].begun = h
  BY <1>2
<1>6. \A k \in 1 .. n + 1 : k - 2 * acts'[k].begun <= 2
  <2>1. \A k \in 1 .. n : Height(k) <= 2
    BY DEF DepthsAgree
  <2>2. ASSUME NEW k \in 1 .. n + 1
        PROVE  k - 2 * acts'[k].begun <= 2
    <3>1. CASE k \in 1 .. n
      BY <1>4, <2>1, <3>1
    <3>2. CASE k = n + 1
      <4>1. k - 2 * acts'[k].begun = h
        BY <1>2, <3>2
      <4>. QED  BY <4>1
    <3>. QED  BY <1>1, <3>1, <3>2
  <2>. QED  BY <2>2
<1>7. ASSUME NEW k \in 1 .. n
      PROVE  \/ acts'[k].begun < Len(moved')
             \/ Waiting(code'[k], k - 2 * acts'[k].begun, tok')
  <2>1. k = n \/ (k \in 1 .. n - 1 /\ code'[k] = code[k])
    BY <1>1, <1>2
  <2>2. Fed(acts[k]) \/ Waiting(code'[k], Height(k), tok)
    BY <1>2, <2>1 DEF DepthsAgree
  <2>. QED  BY <1>3, <1>4, <2>2
<1>8. Shallow(code'[n + 1], n + 1 - 2 * acts'[n + 1].begun, tok')
  BY <1>2, <1>3, <1>5
<1>9. Len(acts') - 1 = n
  BY <1>1, <1>2
<1>. QED  BY <1>2, <1>6, <1>7, <1>8, <1>9 DEF DepthsAgree, Height, Fed

(* The end of a function: the one that waited for it goes on.              *)
LEMMA LeavingKeepsDepths ==
  ASSUME Inv, StacksAgree, DepthsAgree, Running, Leave
  PROVE  DepthsAgree'
<1>. DEFINE n == Len(acts)
<1>1. n \in 1 .. n /\ n \in Nat
  BY RunningCode, StackTypes
<1>2. /\ Len(acts') = n - 1 /\ (acts' # <<>> => n - 1 \in 1 .. n - 1)
      /\ \A k \in 1 .. n - 1 : acts'[k] = acts[k] /\ code'[k] = code[k]
  BY LeaveStacks
<1>3. moved' = moved /\ tok' = tok
  BY DEF Leave, Stay, tok, cur
<1>4. \A k \in 1 .. n - 1 :
        /\ Height(k) <= 2
        /\ Fed(acts[k]) \/ Waiting(code[k], Height(k), tok)
  BY <1>1 DEF DepthsAgree
<1>5. \A k \in 1 .. n - 1 :
        /\ k - 2 * acts'[k].begun <= 2
        /\ \/ acts'[k].begun < Len(moved')
           \/ Waiting(code'[k], k - 2 * acts'[k].begun, tok')
  BY <1>2, <1>3, <1>4 DEF Height, Fed
<1>6. \A k \in 1 .. n - 2 : k \in 1 .. n - 1
  BY <1>1
<1>7. n - 1 - 1 = n - 2
  BY <1>1
<1>8. acts' # <<>> =>
        \/ acts'[n - 1].begun < Len(moved')
        \/ Shallow(code'[n - 1], n - 1 - 2 * acts'[n - 1].begun, tok')
  BY <1>2, <1>5 DEF Shallow
<1>. QED  BY <1>2, <1>5, <1>6, <1>7, <1>8 DEF DepthsAgree, Height, Fed
LEMMA NoMovers == Movers(EOF) = {}
  BY DEF Movers

(* An instruction that passes the current token, and is done.              *)
LEMMA MoveDepths ==
  ASSUME Inv, IInv, DepthsAgree, Running, Body # <<>>,
         Ins.op \in {"want", "got", "next", "lit", "skip", "anyIdentifier"},
         NEW use \in Uses, MoveOn(use), Done
  PROVE  DepthsAgree'
<1>. DEFINE n == Len(acts)
<1>1. StacksAgree /\ LastMove /\ RereadOnlyAfterNo
  BY DEF IInv
<1>2. /\ Grows
      /\ tok # EOF => Len(moved) < Len(moved')
  BY <1>1, MoveKeepsHistory
<1>3. acts' = acts /\ code' = [code EXCEPT ![Len(code)] = Tail(Body)]
  BY DEF Done, GoOnWith
<1>4. CASE tok # EOF
  BY <1>1, <1>2, <1>3, <1>4, MovingKeepsDepths
<1>5. CASE tok = EOF
  <2>1. moved' = moved /\ toks' = toks
    BY <1>5, MoveOnCases
  <2>2. tok' = tok
    BY <2>1 DEF tok, cur
  <2>3. /\ n \in 1 .. n /\ tok \in Token /\ Height(n) \in Int
        /\ Body = code[n] /\ acts # <<>>
    BY <1>1, RunningCode, HeightTypes DEF Running
  <2>4. Fed(acts[n]) \/ Shallow(Body, Height(n), tok)
    BY <2>3 DEF DepthsAgree
  <2>5. Fed(acts[n]) \/ Shallow(Tail(Body), Height(n), tok)
    BY <1>5, <2>3, <2>4, ShallowAtStay, NoMovers DEF Ins, Led
  <2>. QED  BY <1>1, <1>3, <2>1, <2>2, <2>5, StayingKeepsDepths
<1>. QED  BY <1>4, <1>5

(* An instruction that passes nothing, and is done.                        *)
LEMMA StayDepths ==
  ASSUME Inv, IInv, DepthsAgree, Running, Body # <<>>,
         moved' = moved, tok' = tok, Len(acts') = Len(acts),
         \A k \in 1 .. Len(acts) : acts'[k].begun = acts[k].begun,
         code' = [code EXCEPT ![Len(code)] = Tail(Body)],
         \/ Ins.op \in {"got", "syntaxError", "collect", "discard", "set",
                        "pushBack"}
         \/ Ins.op = "want" /\ tok \notin Ins.on
  PROVE  DepthsAgree'
<1>. DEFINE n == Len(acts)
<1>1. StacksAgree
  BY DEF IInv
<1>2. /\ n \in 1 .. n /\ tok \in Token /\ Height(n) \in Int
      /\ Body = code[n] /\ acts # <<>>
  BY <1>1, RunningCode, HeightTypes DEF Running
<1>3. Fed(acts[n]) \/ Shallow(Body, Height(n), tok)
  BY <1>2 DEF DepthsAgree
<1>4. ~Led(Body, Movers(tok))
  BY DEF Led, Movers, Ins
<1>5. Ins.op \notin {"if", "while", "until", "call"}
  OBVIOUS
<1>6. Fed(acts[n]) \/ Shallow(Tail(Body), Height(n), tok)
  BY <1>2, <1>3, <1>4, <1>5, ShallowAtStay DEF Ins
<1>. QED  BY <1>1, <1>6, StayingKeepsDepths

(* An instruction that neither passes a token nor makes a node.            *)
LEMMA PassingOverDepths ==
  ASSUME Inv, IInv, DepthsAgree, Running, Body # <<>>, Stay, Done,
         \/ Ins.op \in {"got", "syntaxError", "collect", "discard"}
         \/ Ins.op = "want" /\ tok \notin Ins.on
  PROVE  DepthsAgree'
<1>1. moved' = moved /\ tok' = tok
  BY DEF Stay, tok, cur
<1>2. acts' = acts /\ code' = [code EXCEPT ![Len(code)] = Tail(Body)]
  BY DEF Done, GoOnWith
<1>. QED  BY <1>1, <1>2, StayDepths

LEMMA TokenDepths ==
  ASSUME Inv, IInv, DepthsAgree,
         Want \/ Got \/ TakeToken \/ AnyIdentifier \/ Complain
  PROVE  DepthsAgree'
<1>1. Uses = {"syntax", "text", "lost"}
  BY DEF Uses
<1>2. CASE Want
  <2>1. /\ Running /\ Body # <<>> /\ Ins.op = "want" /\ Done
        /\ \/ tok \in Ins.on /\ MoveOn("syntax")
           \/ tok \notin Ins.on /\ Stay
    BY <1>2 DEF Want, At
  <2>. QED  BY <1>1, <2>1, MoveDepths, PassingOverDepths
<1>3. CASE Got
  <2>1. /\ Running /\ Body # <<>> /\ Ins.op = "got" /\ Done
        /\ MoveOn("syntax") \/ Stay
    BY <1>3 DEF Got, At
  <2>. QED  BY <1>1, <2>1, MoveDepths, PassingOverDepths
<1>4. CASE TakeToken
  <2>1. Running /\ Body # <<>> /\ Ins.op \in {"next", "lit", "skip"} /\ Done
    BY <1>4 DEF TakeToken, At
  <2>2. \E use \in Uses : MoveOn(use)
    BY <1>1, <1>4, <2>1, Zenon DEF TakeToken
  <2>. QED  BY <2>1, <2>2, MoveDepths
<1>5. CASE AnyIdentifier
  <2>1. /\ Running /\ Body # <<>> /\ Ins.op = "anyIdentifier" /\ Done
        /\ MoveOn("text") \/ MoveOn("lost")
    BY <1>5 DEF AnyIdentifier, At
  <2>. QED  BY <1>1, <2>1, MoveDepths
<1>6. CASE Complain
  BY <1>6, PassingOverDepths DEF Complain, At
<1>. QED  BY <1>2, <1>3, <1>4, <1>5, <1>6

(* collectTokens stands at the end of the text, or passes a token.         *)
LEMMA CollectDepths ==
  ASSUME Inv, IInv, DepthsAgree, Collect
  PROVE  DepthsAgree'
<1>. DEFINE use == IF Ins.op = "collect" THEN "text" ELSE "lost"
<1>1. /\ Running /\ Body # <<>> /\ Ins.op \in {"collect", "discard"}
      /\ \/ Done /\ Stay
         \/ tok # EOF /\ MoveOn(use) /\ acts' = acts
  BY DEF Collect, At
<1>2. CASE Done /\ Stay
  BY <1>1, <1>2, PassingOverDepths
<1>3. CASE tok # EOF /\ MoveOn(use) /\ acts' = acts
  <2>1. use \in Uses
    BY DEF Uses
  <2>2. StacksAgree /\ LastMove /\ RereadOnlyAfterNo
    BY DEF IInv
  <2>3. Grows /\ Len(moved) < Len(moved')
    BY <1>3, <2>1, <2>2, MoveKeepsHistory
  <2>. QED  BY <1>3, <2>2, <2>3, MovingKeepsDepths
<1>. QED  BY <1>1, <1>2, <1>3

LEMMA BranchDepths ==
  ASSUME Inv, IInv, DepthsAgree, Branch
  PROVE  DepthsAgree'
<1>. DEFINE n == Len(acts)
<1>1. /\ Running /\ Body # <<>> /\ Ins.op \in {"if", "while", "until"} /\ Stay
  BY DEF Branch, At
<1>2. StacksAgree /\ moved' = moved /\ tok' = tok
  BY <1>1 DEF IInv, Stay, tok, cur
<1>3. /\ n \in 1 .. n /\ tok \in Token /\ Height(n) \in Int
      /\ Body = code[n] /\ acts # <<>>
  BY <1>1, <1>2, RunningCode, HeightTypes DEF Running
<1>4. Fed(acts[n]) \/ Shallow(Body, Height(n), tok)
  BY <1>3 DEF DepthsAgree
<1>5. ASSUME NEW b, GoOnWith(b), Fed(acts[n]) \/ Shallow(b, Height(n), tok)
      PROVE  DepthsAgree'
  <2>1. acts' = acts /\ code' = [code EXCEPT ![Len(code)] = b]
    BY <1>5 DEF GoOnWith
  <2>. QED  BY <1>1, <1>2, <1>5, <2>1, StayingKeepsDepths
<1>6. CASE Ins.op = "if"
  <2>. DEFINE c == IF tok \in Ins.on THEN Ins.then ELSE Ins.else
  <2>1. GoOnWith(c \o Tail(Body))
    BY <1>6, Zenon DEF Branch
  <2>2. Fed(acts[n]) \/ Shallow(c \o Tail(Body), Height(n), tok)
    BY <1>1, <1>3, <1>4, <1>6, ShallowAfterIf DEF Ins
  <2>. HIDE DEF c
  <2>. QED  BY <1>5, <2>1, <2>2
<1>7. CASE Ins.op \in {"while", "until"}
  <2>1. \/ Fed(acts[n])
        \/ /\ Shallow(Tail(Body), Height(n), tok)
           /\ (Ins.op = "while" /\ tok \in Ins.on)
                \/ (Ins.op = "until" /\ tok \notin Ins.on)
              => Shallow(Ins.body \o Body, Height(n), tok)
    BY <1>1, <1>3, <1>4, <1>7, ShallowAfterLoopTest DEF Ins
  <2>2. CASE Ins.op = "while"
    <3>1. GoOnWith(IF tok \in Ins.on THEN Ins.body \o Body ELSE Tail(Body))
      BY <2>2, Zenon DEF Branch
    <3>. QED  BY <1>5, <2>1, <2>2, <3>1
  <2>3. CASE Ins.op = "until"
    <3>1. GoOnWith(IF tok \in Ins.on THEN Tail(Body) ELSE Ins.body \o Body)
      BY <2>3, Zenon DEF Branch
    <3>. QED  BY <1>5, <2>1, <2>3, <3>1
  <2>. QED  BY <1>7, <2>2, <2>3
<1>. QED  BY <1>1, <1>6, <1>7
(* A call: the caller has moved past a token, or stands low enough.        *)
LEMMA CallDepths ==
  ASSUME Inv, IInv, DepthsAgree, CallFunction \/ ParseProcStmt
  PROVE  DepthsAgree'
<1>. DEFINE n == Len(acts)
            h == n + 1 - 2 * Len(moved)
<1>1. /\ Running /\ Body # <<>> /\ StacksAgree
  BY DEF CallFunction, ParseProcStmt, At, IInv
<1>2. /\ n \in 1 .. n /\ n \in Nat /\ Len(moved) \in Nat
      /\ tok \in Token /\ Height(n) \in Int
      /\ acts[n].begun \in Nat /\ acts[n].begun <= Len(moved)
      /\ Body = code[n] /\ acts # <<>>
      /\ Fed(acts[n]) <=> acts[n].begun < Len(moved)
  BY <1>1, RunningCode, HeightTypes DEF Running
<1>3. /\ Ready(Body, Fed(acts[n]), tok, ~pushed, AfterNo)
      /\ Fed(acts[n]) \in BOOLEAN /\ (~pushed) \in BOOLEAN
      /\ AfterNo \in BOOLEAN
  BY <1>1, RunningCode
<1>4. Height(n) <= 2 /\ (Fed(acts[n]) \/ Shallow(Body, Height(n), tok))
  BY <1>2 DEF DepthsAgree
<1>5. h \in Int /\ (Fed(acts[n]) => h <= 1) /\ (~Fed(acts[n]) => h = Height(n) + 1)
  BY <1>2, <1>4 DEF Height
<1>6. ASSUME NEW b, Call(b), h <= 2, Shallow(b, h, tok),
             Fed(acts[n]) \/ Waiting(Tail(Body), Height(n), tok)
      PROVE  DepthsAgree'
  BY <1>1, <1>5, <1>6, CallingKeepsDepths
<1>7. ASSUME ~Fed(acts[n]), Ins.op = "call"
      PROVE  h <= 2 /\ Waiting(Tail(Body), Height(n), tok) /\ Shallow(Ins.body, h, tok)
  <2>1. /\ Height(n) <= 1 /\ Waiting(Tail(Body), Height(n), tok)
        /\ Shallow(Ins.body, Height(n) + 1, tok)
    BY <1>1, <1>2, <1>4, <1>7, ShallowAfterCall DEF Ins
  <2>. HIDE DEF h
  <2>. QED  BY <1>2, <1>5, <1>7, <2>1
<1>8. ASSUME ~Fed(acts[n]), Ins.op = "parseProcStmt"
      PROVE  h <= 2 /\ Waiting(Tail(Body), Height(n), tok) /\ Shallow(Statement(tok), h, tok)
  <2>1. /\ Height(n) <= 1 /\ Waiting(Tail(Body), Height(n), tok)
        /\ Shallow(Statement(tok), Height(n) + 1, tok)
    BY <1>1, <1>2, <1>4, <1>8, ShallowAfterStatementCall DEF Ins
  <2>. HIDE DEF h
  <2>. QED  BY <1>2, <1>5, <1>8, <2>1
<1>. HIDE DEF h
<1>9. CASE CallFunction
  <2>1. Ins.op = "call" /\ Call(Ins.body)
    BY <1>9 DEF CallFunction, At
  <2>2. CASE Fed(acts[n])
    <3>1. Shallow(Ins.body, h, tok)
      BY <1>1, <1>2, <1>3, <1>5, <2>1, <2>2, ShallowWhenCalled DEF Ins
    <3>. QED  BY <1>5, <1>6, <2>1, <2>2, <3>1
  <2>. QED  BY <1>6, <1>7, <2>1, <2>2
<1>10. CASE ParseProcStmt
  <2>1. Ins.op = "parseProcStmt" /\ Call(Statement(tok))
    BY <1>10 DEF ParseProcStmt, At
  <2>2. CASE Fed(acts[n])
    <3>1. Shallow(Statement(tok), h, tok)
      BY <1>2, <1>5, <2>2, ShallowStatement
    <3>. QED  BY <1>5, <1>6, <2>1, <2>2, <3>1
  <2>. QED  BY <1>6, <1>8, <2>1, <2>2
<1>. QED  BY <1>9, <1>10
LEMMA OtherDepths ==
  ASSUME Inv, IInv, DepthsAgree,
         PutBack \/ SetFields \/ ReturnNode \/ Return \/ OptionalSemicolon
  PROVE  DepthsAgree'
<1>0. StacksAgree /\ LastMove /\ RereadOnlyAfterNo
  BY DEF IInv
<1>1. CASE PutBack
  <2>1. /\ Running /\ Body # <<>> /\ Ins.op = "pushBack"
        /\ moved' = moved /\ toks' = toks
        /\ acts' = acts /\ code' = [code EXCEPT ![Len(code)] = Tail(Body)]
    BY <1>1 DEF PutBack, PushBack, At, Done, GoOnWith
  <2>2. tok' = tok
    BY <2>1 DEF tok, cur
  <2>. QED  BY <2>1, <2>2, StayDepths
<1>2. CASE SetFields
  <2>1. /\ Running /\ Body # <<>> /\ Ins.op = "set" /\ Stay
        /\ code' = [code EXCEPT ![Len(code)] = Tail(Body)]
    BY <1>2 DEF SetFields, At
  <2>2. moved' = moved /\ tok' = tok
    BY <2>1 DEF Stay, tok, cur
  <2>3. /\ Len(acts') = Len(acts)
        /\ \A k \in 1 .. Len(acts) : acts'[k].begun = acts[k].begun
    BY <1>0, <1>2, SetFieldsStacks
  <2>. QED  BY <2>1, <2>2, <2>3, StayDepths
<1>3. CASE ReturnNode \/ Return
  <2>1. Running /\ Leave
    BY <1>3 DEF ReturnNode, Return, At
  <2>. QED  BY <1>0, <2>1, LeavingKeepsDepths
<1>4. CASE OptionalSemicolon
  <2>1. acts = <<>> /\ acts' = <<>>
    BY <1>4 DEF OptionalSemicolon
  <2>2. \A k : k \notin 1 .. 0 /\ k \notin 1 .. 0 - 1
    OBVIOUS
  <2>3. Len(acts') = 0
    BY <2>1
  <2>. QED  BY <2>1, <2>2, <2>3 DEF DepthsAgree
<1>. QED  BY <1>1, <1>2, <1>3, <1>4

LEMMA IdleDepths ==
  ASSUME DepthsAgree, Stay, UNCHANGED <<code, acts>>
  PROVE  DepthsAgree'
<1>1. moved' = moved /\ tok' = tok
  BY DEF Stay, tok, cur
<1>2. \A k : (Fed(acts[k])' <=> Fed(acts[k])) /\ Height(k)' = Height(k)
  BY <1>1 DEF Fed, Height
<1>. QED  BY <1>1, <1>2 DEF DepthsAgree, Fed, Height

(* Parse starts in parseBlock, one call high.                              *)
LEMMA StartsShallow ==
  ASSUME Init
  PROVE  DepthsAgree
<1>1. code = <<parseBlock>> /\ acts = <<[at |-> 1, begun |-> 0, fields |-> {}]>>
  BY DEF Init
<1>2. /\ Len(acts) = 1 /\ acts[1].begun = 0 /\ code[1] = parseBlock
      /\ 1 - 1 = 0 /\ 1 .. 0 = {}
  BY <1>1
<1>3. Height(1) = 1
  BY <1>2 DEF Height
<1>4. 1 <= IF tok \in BlockBegins THEN 2 ELSE 1
  OBVIOUS
<1>5. Shallow(parseBlock, 1, tok)
  BY <1>4 DEF Shallow
<1>. QED  BY <1>2, <1>3, <1>5 DEF DepthsAgree

LEMMA NextKeepsDepths ==
  ASSUME Inv, IInv, DepthsAgree, [Next]_vars
  PROVE  DepthsAgree'
<1>1. CASE ExpectEndOfInput
  BY <1>1, IdleDepths DEF ExpectEndOfInput
<1>2. CASE UNCHANGED vars
  BY <1>2, IdleDepths DEF vars, Stay
<1>3. CASE Returned
  BY <1>2, <1>3 DEF Returned
<1>. QED
  BY <1>1, <1>2, <1>3, TokenDepths, CollectDepths, BranchDepths, CallDepths,
     OtherDepths DEF Next, Parse

(* Whatever the text, the stack of calls holds two functions at most for    *)
(* each token Parser.next has passed, and two more: at one token it grows   *)
(* by parseProcStmt's function and parseBlock under it, no further, so Go's *)
(* stack grows with the nesting of the text and with nothing else.          *)
THEOREM CallsAreBounded == Spec => []RecursionIsBounded
<1>1. Init => DepthsAgree
  BY StartsShallow
<1>2. Inv /\ IInv /\ DepthsAgree /\ [Next]_vars => DepthsAgree'
  BY NextKeepsDepths
<1>3. Inv /\ IInv /\ DepthsAgree => RecursionIsBounded
  <2>1. SUFFICES ASSUME Inv, IInv, DepthsAgree
                 PROVE  RecursionIsBounded
    OBVIOUS
  <2>. DEFINE n == Len(acts)
  <2>2. StacksAgree
    BY <2>1 DEF IInv
  <2>3. /\ n \in Nat /\ Len(moved) \in Nat
        /\ \A k \in 1 .. n : acts[k].begun \in Nat /\ acts[k].begun <= Len(moved)
    BY <2>1, <2>2, HeightTypes
  <2>4. \A k \in 1 .. n : k - 2 * acts[k].begun <= 2
    BY <2>1 DEF DepthsAgree, Height
  <2>5. n <= 2 * (Len(moved) + 1)
    <3>1. CASE n = 0
      BY <2>3, <3>1
    <3>2. CASE n # 0
      <4>1. n \in 1 .. n
        BY <2>3, <3>2
      <4>. QED  BY <2>3, <2>4, <4>1
    <3>. QED  BY <3>1, <3>2
  <2>. QED  BY <2>5 DEF RecursionIsBounded
<1>. QED  BY <1>1, <1>2, <1>3, Invariance, ProgressInvariance, PTL DEF Spec

=============================================================================
