-------------------------- MODULE ProductionProofs --------------------------
(***************************************************************************)
(* Every parse function has one of the forms of module CodeShapes, and the *)
(* forms are closed: what an instruction leaves of them is one again.      *)
(***************************************************************************)
EXTENDS CodeShapes, SequenceTheorems, TLAPS

----------------------------------------------------------------------------
(* The forms themselves.                                                   *)

LEMMA NestHolds ==
  ASSUME NEW X
  PROVE  /\ \A i \in X : i \in Nest(X)
         /\ \A s \in Seq(X) : s \in Seq(Nest(X))
         /\ \A S, a, b : S \subseteq Token /\ a \in Seq(X) /\ b \in Seq(X) =>
              If(S, a, b) \in Nest(X)
         /\ \A S, a : S \subseteq Token /\ a \in Seq(X) =>
              /\ When(S, a) \in Nest(X)
              /\ While(S, a) \in Nest(X) /\ Until(S, a) \in Nest(X)
<1>1. X \subseteq Nest(X)
  BY DEF Nest
<1>2. \A S, a, b : S \subseteq Token /\ a \in Seq(X) /\ b \in Seq(X) =>
        If(S, a, b) \in Nest(X)
  BY DEF If, Nest, Compound
<1>6. \A S, a : S \subseteq Token /\ a \in Seq(X) =>
        While(S, a) \in Nest(X) /\ Until(S, a) \in Nest(X)
  BY DEF While, Until, Nest, Compound
<1>3. <<>> \in Seq(X)
  OBVIOUS
<1>4. \A S, a : S \subseteq Token /\ a \in Seq(X) => When(S, a) \in Nest(X)
  BY <1>2, <1>3 DEF When
<1>5. Seq(X) \subseteq Seq(Nest(X))
  BY <1>1
<1>. QED  BY <1>1, <1>2, <1>4, <1>5, <1>6

LEMMA NestedHolds ==
  ASSUME NEW X
  PROVE  /\ Nest(X) \subseteq Nested(X)
         /\ Nest(Nest(X)) \subseteq Nested(X)
         /\ Nest(Nest(Nest(X))) \subseteq Nested(X)
         /\ Nest(Nest(Nest(Nest(X)))) \subseteq Nested(X)
         /\ X \subseteq Nested(X)
         /\ Seq(Nest(X)) \subseteq Seq(Nested(X))
         /\ Seq(Nest(Nest(X))) \subseteq Seq(Nested(X))
         /\ Seq(Nest(Nest(Nest(X)))) \subseteq Seq(Nested(X))
         /\ Seq(Nest(Nest(Nest(Nest(X))))) \subseteq Seq(Nested(X))
         /\ Seq(X) \subseteq Seq(Nested(X))
<1>1. /\ Nest(X) \subseteq Nested(X)
      /\ Nest(Nest(X)) \subseteq Nested(X)
      /\ Nest(Nest(Nest(X))) \subseteq Nested(X)
      /\ Nest(Nest(Nest(Nest(X)))) \subseteq Nested(X)
      /\ X \subseteq Nested(X)
  BY NestHolds DEF Nested
<1>. QED  BY <1>1

LEMMA OneHolds ==
  ASSUME NEW X
  PROVE  /\ \A x \in X : <<x>> \in One(X)
         /\ \A s \in One(X) : s = <<s[1]>> /\ s[1] \in X
  BY DEF One

LEMMA SeparatedForm ==
  ASSUME NEW X, next \in X, NEW sep \in Token, NEW item \in Seq(X)
  PROVE  Separated(sep, item) \in Seq(Nest(X))
<1>1. <<next>> \o item \in Seq(X) /\ {sep} \in SUBSET Token
  OBVIOUS
<1>2. While({sep}, <<next>> \o item) \in Nest(X) /\ item \in Seq(Nest(X))
  BY <1>1, NestHolds
<1>. QED  BY <1>2 DEF Separated

(* The functions called from loops, and the bodies of those loops.          *)
LEMMA NodeCallBodies ==
  /\ BranchCalls \subseteq NodeCalls
  /\ \A c \in BranchCalls : c.body \in BranchBodies
  /\ \A c \in NodeCalls : c.body \in DeclBodies \/ c.body \in BranchBodies
<1>1. \A c \in BranchCalls : c.body \in BranchBodies
  BY DEF BranchCalls
<1>2. \A c \in [op : {"call"}, body : DeclBodies] : c.body \in DeclBodies
  OBVIOUS
<1>. QED  BY <1>1, <1>2 DEF NodeCalls

LEMMA LoopBodies ==
  ASSUME NEW i \in Loops
  PROVE  /\ \/ i.op = "while" /\ EOF \notin i.on
            \/ i.op = "until" /\ EOF \in i.on
         /\ i.body \in One(NodeCalls) \/ i.body \in One(DeclareTests)
<1>1. CASE i \in BranchLoops
  <2>1. i.op = "while" /\ EOF \notin i.on /\ i.body \in One(BranchCalls)
    BY <1>1 DEF BranchLoops
  <2>2. One(BranchCalls) \subseteq One(NodeCalls)
    BY NodeCallBodies DEF One
  <2>. QED  BY <2>1, <2>2
<1>2. CASE i \notin BranchLoops
  <2>1. i \in [op : {"until"}, on : {S \in SUBSET Token : EOF \in S},
               body : One(DeclareTests)]
    BY <1>2 DEF Loops
  <2>. QED  BY <2>1
<1>. QED  BY <1>1, <1>2

(* The vocabulary is plain.                                                *)
LEMMA PlainForms ==
  ASSUME NEW X, Plain({}) \subseteq X
  PROVE  /\ \A t \in Token : want(t) \in X
         /\ \A S : S \subseteq Token =>
              got(S) \in X /\ collect(S) \in X /\ discard(S) \in X
         /\ next \in X /\ lit \in X /\ skip \in X /\ anyIdentifier \in X
         /\ syntaxError \in X /\ parseProcStmt \in X /\ subscript \in X
         /\ \A f : f \subseteq Fields => set(f) \in X
<1>1. \A t \in Token : want(t) \in Plain({})
  BY DEF want, Plain
<1>2. \A S \in SUBSET Token : got(S) \in Plain({})
  BY DEF got, Plain
<1>3. "(" \in Token /\ ")" \in Token /\ "[" \in Token /\ "]" \in Token
  BY DEF Token, Symbols
<1>4. \A S \in SUBSET Token : collect(S) \in Plain({}) /\ discard(S) \in Plain({})
  BY <1>3 DEF collect, discard, Plain
<1>5. subscript \in Plain({})
  BY <1>3 DEF subscript, Plain
<1>6. /\ next \in Plain({}) /\ lit \in Plain({}) /\ skip \in Plain({})
      /\ anyIdentifier \in Plain({}) /\ syntaxError \in Plain({})
      /\ parseProcStmt \in Plain({})
  BY DEF next, lit, skip, anyIdentifier, syntaxError, parseProcStmt, Plain
<1>7. \A f \in SUBSET Fields : set(f) \in Plain({})
  BY DEF set, Plain
<1>. QED  BY <1>1, <1>2, <1>4, <1>5, <1>6, <1>7

(* A set with all plain code in it has the vocabulary and the nodes.       *)
LEMMA KindForms ==
  ASSUME NEW K, NEW X, Plain(K) \subseteq X
  PROVE  /\ Plain({}) \subseteq X
         /\ \A kind \in K : node(kind) \in X
         /\ \A kind \in K, f \in SUBSET Fields : nodeWith(kind, f) \in X
<1>1. Plain({}) \subseteq Plain(K)
  BY DEF Plain
<1>2. \A kind \in K, f \in SUBSET Fields : nodeWith(kind, f) \in Plain(K)
  BY DEF nodeWith, Plain
<1>3. \A kind \in K : node(kind) \in Plain(K)
  BY <1>2 DEF node
<1>. QED  BY <1>1, <1>2, <1>3

LEMMA CompositeAreOther ==
  CompositeKinds \subseteq FixedKinds /\ FixedKinds \subseteq OtherKinds
  BY DEF CompositeKinds, FixedKinds, OtherKinds, Kinds, Statements

----------------------------------------------------------------------------
(* parse_block.go                                                          *)

LEMMA DeclVarRestForm ==
  ASSUME NEW X, Plain({}) \subseteq X
  PROVE  parseDeclVarRest \in Seq(Nest(Nest(X)))
<1>0. /\ {semi, ":=", "=", "COLLATE", "NOT", "DEFAULT", ")", "CONSTANT", "NULL"}
           \subseteq Token
      /\ {"constant"} \in SUBSET Fields /\ {"notnull"} \in SUBSET Fields
  BY DEF Token, Reserved, Unreserved, Symbols, Fields, semi
<1>1. /\ <<set({"constant"}), next>> \in Seq(X)
      /\ <<next, anyIdentifier>> \in Seq(X)
      /\ <<next, want("NULL"), set({"notnull"})>> \in Seq(X)
      /\ <<next, collect({semi})>> \in Seq(X)
      /\ <<next>> \in Seq(X) /\ want(semi) \in X /\ readDataType \in X
  BY <1>0, PlainForms DEF readDataType
<1>a. /\ When({"=", ":=", "DEFAULT"}, <<next, collect({semi})>>) \in Nest(X)
      /\ want(semi) \in Nest(X)
  BY <1>0, <1>1, NestHolds
<1>2. <<When({"=", ":=", "DEFAULT"}, <<next, collect({semi})>>), want(semi)>>
        \in Seq(Nest(X))
  BY <1>a
<1>3. /\ When({"CONSTANT"}, <<set({"constant"}), next>>) \in Nest(X)
      /\ When({"COLLATE"}, <<next, anyIdentifier>>) \in Nest(X)
      /\ When({"NOT"}, <<next, want("NULL"), set({"notnull"})>>) \in Nest(X)
      /\ readDataType \in Nest(X) /\ <<next>> \in Seq(Nest(X))
  BY <1>0, <1>1, NestHolds
<1>4. If({semi}, <<next>>,
         <<When({"=", ":=", "DEFAULT"}, <<next, collect({semi})>>), want(semi)>>)
        \in Nest(Nest(X))
  BY <1>0, <1>2, <1>3, NestHolds
<1>. QED  BY <1>3, <1>4, NestHolds DEF parseDeclVarRest

LEMMA CursorForm ==
  ASSUME NEW X, Plain({}) \subseteq X, NEW opt \in SUBSET Fields
  PROVE  cursorOrVar(opt) \in Seq(Nest(Nest(Nest(X))))
<1>0. /\ {semi, comma, ")", "(", "IS", "FOR", "CURSOR"} \subseteq Token
      /\ {"cursor"} \cup opt \subseteq Fields
  BY DEF Token, Reserved, Unreserved, Symbols, Fields, semi, comma
<1>1. <<anyIdentifier, readDataTypeUntilCommaOrParen>> \in Seq(X)
  BY <1>0, PlainForms DEF readDataTypeUntilCommaOrParen
<1>2. parseCursorArgs \in Seq(Nest(X))
  BY <1>0, <1>1, PlainForms, SeparatedForm DEF parseCursorArgs
<1>a. next \in X /\ want(")") \in X /\ want("FOR") \in X
  BY <1>0, PlainForms
<1>3. /\ next \in Nest(X) /\ want(")") \in Nest(X)
      /\ <<next>> \in Seq(Nest(X)) /\ <<want("FOR")>> \in Seq(Nest(X))
  BY <1>a, NestHolds
<1>4. <<next>> \o parseCursorArgs \o <<want(")")>> \in Seq(Nest(X))
  BY <1>2, <1>3
<1>5. /\ When({"("}, <<next>> \o parseCursorArgs \o <<want(")")>>)
           \in Nest(Nest(X))
      /\ If({"IS"}, <<next>>, <<want("FOR")>>) \in Nest(Nest(X))
  BY <1>0, <1>3, <1>4, NestHolds
<1>6. /\ next \in Nest(Nest(X)) /\ set({"cursor"} \cup opt) \in Nest(Nest(X))
      /\ collect({semi}) \in Nest(Nest(X)) /\ want(semi) \in Nest(Nest(X))
  BY <1>0, PlainForms, NestHolds
<1>7. <<next, set({"cursor"} \cup opt),
        When({"("}, <<next>> \o parseCursorArgs \o <<want(")")>>),
        If({"IS"}, <<next>>, <<want("FOR")>>),
        collect({semi}), want(semi)>> \in Seq(Nest(Nest(X)))
  BY <1>5, <1>6
<1>8. If({"CURSOR"},
         <<next, set({"cursor"} \cup opt),
           When({"("}, <<next>> \o parseCursorArgs \o <<want(")")>>),
           If({"IS"}, <<next>>, <<want("FOR")>>),
           collect({semi}), want(semi)>>,
         parseDeclVarRest) \in Nest(Nest(Nest(X)))
  BY <1>0, <1>7, DeclVarRestForm, NestHolds
<1>. QED  BY <1>8 DEF cursorOrVar

LEMMA DeclStatementForm == parseDeclStatement \in DeclBodies
<1>. DEFINE P == Plain(CompositeKinds)
<1>0. /\ {semi, "ALIAS", "FOR", "SCROLL", "NO"} \subseteq Token
      /\ {"alias"} \subseteq Fields /\ {"scroll"} \subseteq Fields
      /\ {"noscroll"} \subseteq Fields /\ {} \subseteq Fields
  BY DEF Token, Reserved, Unreserved, Symbols, Fields, semi
<1>1. Plain({}) \subseteq P
  BY KindForms
<1>. HIDE DEF P
<1>2. /\ next \in P /\ want("FOR") \in P /\ set({"alias"}) \in P
      /\ anyIdentifier \in P /\ want(semi) \in P
  BY <1>0, <1>1, PlainForms
<1>3. /\ cursorOrVar({"noscroll"}) \in Seq(Nest(Nest(Nest(P))))
      /\ cursorOrVar({"scroll"}) \in Seq(Nest(Nest(Nest(P))))
      /\ cursorOrVar({}) \in Seq(Nest(Nest(Nest(P))))
      /\ next \in Nest(Nest(Nest(P)))
  BY <1>0, <1>1, <1>2, CursorForm, NestHolds
<1>4. /\ <<next>> \o cursorOrVar({"noscroll"}) \in Seq(Nest(Nest(Nest(P))))
      /\ <<next>> \o cursorOrVar({"scroll"}) \in Seq(Nest(Nest(Nest(P))))
  BY <1>3
<1>5. If({"SCROLL"}, <<next>> \o cursorOrVar({"scroll"}), cursorOrVar({}))
        \in Nest(Nest(Nest(Nest(P))))
  BY <1>0, <1>3, <1>4, NestHolds
<1>6. <<next, want("FOR"), set({"alias"}), anyIdentifier, want(semi)>> \in Seq(P)
  BY <1>2
<1>. HIDE DEF cursorOrVar
<1>7. /\ <<If({"SCROLL"}, <<next>> \o cursorOrVar({"scroll"}), cursorOrVar({}))>>
           \in Seq(Simple)
      /\ <<next, want("FOR"), set({"alias"}), anyIdentifier, want(semi)>>
           \in Seq(Simple)
      /\ <<next>> \o cursorOrVar({"noscroll"}) \in Seq(Simple)
      /\ parseDeclVarRest \in Seq(Simple)
  BY <1>1, <1>4, <1>5, <1>6, DeclVarRestForm, NestedHolds DEF Simple, P
<1>8. <<pushBack>> \o parseDeclVarRest \in PushBacks
  <2>1. <<pushBack>> \o parseDeclVarRest \in Seq(Simple \cup {pushBack})
    BY <1>7
  <2>2. <<pushBack>> \o parseDeclVarRest # <<>>
        /\ Head(<<pushBack>> \o parseDeclVarRest) = pushBack
        /\ Tail(<<pushBack>> \o parseDeclVarRest) = parseDeclVarRest
    BY <1>7
  <2>. QED  BY <1>7, <2>1, <2>2 DEF PushBacks, Led
<1>9. If({"SCROLL"}, <<next>> \o cursorOrVar({"noscroll"}),
         <<pushBack>> \o parseDeclVarRest) \in ScrollTests
  BY <1>7, <1>8 DEF If, ScrollTests
<1>10. If({"NO"},
          <<next, If({"SCROLL"}, <<next>> \o cursorOrVar({"noscroll"}),
                                 <<pushBack>> \o parseDeclVarRest)>>,
          <<If({"SCROLL"}, <<next>> \o cursorOrVar({"scroll"}),
                           cursorOrVar({}))>>) \in NoTests
  BY <1>7, <1>9 DEF If, NoTests
<1>11. <<If({"NO"},
            <<next, If({"SCROLL"}, <<next>> \o cursorOrVar({"noscroll"}),
                                   <<pushBack>> \o parseDeclVarRest)>>,
            <<If({"SCROLL"}, <<next>> \o cursorOrVar({"scroll"}),
                             cursorOrVar({}))>>)>> \in One(NoTests)
  BY <1>10, OneHolds
<1>12. If({"ALIAS"},
          <<next, want("FOR"), set({"alias"}), anyIdentifier, want(semi)>>,
          <<If({"NO"},
               <<next, If({"SCROLL"}, <<next>> \o cursorOrVar({"noscroll"}),
                                      <<pushBack>> \o parseDeclVarRest)>>,
               <<If({"SCROLL"}, <<next>> \o cursorOrVar({"scroll"}),
                                cursorOrVar({}))>>)>>) \in AliasTests
  BY <1>7, <1>11 DEF If, AliasTests
<1>. QED  BY <1>7, <1>12 DEF parseDeclStatement, DeclBodies

LEMMA DeclSectionForm == parseDeclSection \in Loops
<1>0. /\ {"BEGIN", EOF} \in SUBSET Token /\ "BEGIN" # EOF
      /\ ">>" \in Token
  BY DEF Token, Reserved, Symbols, EOF
<1>1. call(parseDeclStatement) \in NodeCalls
  BY DeclStatementForm DEF call, NodeCalls
<1>2. /\ <<syntaxError, next, anyIdentifier, got({">>"})>> \in Seq(Plain({}))
      /\ <<next>> \in Seq(Plain({}))
  <2>1. /\ syntaxError \in Plain({}) /\ next \in Plain({})
        /\ anyIdentifier \in Plain({}) /\ got({">>"}) \in Plain({})
    BY <1>0, PlainForms
  <2>. QED  BY <2>1
<1>3. If({"<<"}, <<syntaxError, next, anyIdentifier, got({">>"})>>,
                 <<call(parseDeclStatement)>>) \in LabelTests
  BY <1>1, <1>2, OneHolds DEF If, LabelTests
<1>4. If({"DECLARE"}, <<next>>,
         <<If({"<<"}, <<syntaxError, next, anyIdentifier, got({">>"})>>,
                      <<call(parseDeclStatement)>>)>>) \in DeclareTests
  BY <1>2, <1>3, OneHolds DEF If, DeclareTests
<1>5. Until({"BEGIN", EOF},
            <<If({"DECLARE"}, <<next>>,
                 <<If({"<<"}, <<syntaxError, next, anyIdentifier, got({">>"})>>,
                              <<call(parseDeclStatement)>>)>>)>>) \in Loops
  BY <1>0, <1>4, OneHolds DEF Until, Loops
<1>. QED  BY <1>5 DEF parseDeclSection

LEMMA ProcSectForm ==
  ASSUME NEW X, Plain({}) \subseteq X
  PROVE  parseProcSect \in Nest(X)
<1>0. {"END", "EXCEPTION", "ELSE", "ELSIF", "WHEN", EOF} \subseteq Token
  BY DEF Token, Reserved, Unreserved
<1>1. <<parseProcStmt>> \in Seq(X)
  BY PlainForms
<1>. QED  BY <1>0, <1>1, NestHolds DEF parseProcSect

LEMMA LabelForm ==
  ASSUME NEW X, Plain({}) \subseteq X
  PROVE  When(LabelTokens, <<skip>>) \in Nest(X)
         /\ When(LabelTokens, <<lit>>) \in Nest(X)
<1>0. LabelTokens \subseteq Token
  BY DEF LabelTokens, Token, Names, WordStart, QuotedNames
<1>1. <<skip>> \in Seq(X) /\ <<lit>> \in Seq(X)
  BY PlainForms
<1>. QED  BY <1>0, <1>1, NestHolds

(* A branch: code that starts by moving past its keyword.                  *)
LEMMA BranchCall ==
  ASSUME NEW b \in Seq(Simple)
  PROVE  call(<<next>> \o b) \in BranchCalls
<1>1. next \in Simple
  BY KindForms, PlainForms, NestedHolds DEF Simple
<1>2. <<next>> \o b \in Seq(Simple) /\ <<next>> \o b # <<>>
      /\ Head(<<next>> \o b) = next
  BY <1>1
<1>3. <<next>> \o b \in BranchBodies
  BY <1>2 DEF BranchBodies, Led
<1>. QED  BY <1>3 DEF call, BranchCalls

LEMMA HandlerForm ==
  call(<<next>> \o Separated("OR", parseCondition) \o
       <<want("THEN"), parseProcSect, node("Exception")>>) \in BranchCalls
<1>. DEFINE P == Plain(CompositeKinds)
<1>0. /\ {"SQLSTATE", "SCONST", "OR", "THEN"} \subseteq Token
      /\ {"SQLSTATE", "IDENT_SQLSTATE"} \subseteq Token
      /\ "Exception" \in CompositeKinds
  BY DEF Token, Reserved, Unreserved, Names, WordStart, QuotedNames, Symbols,
     CompositeKinds
<1>1. Plain({}) \subseteq P /\ node("Exception") \in P
  BY <1>0, KindForms
<1>. HIDE DEF P
<1>2. /\ lit \in P /\ anyIdentifier \in P /\ want("THEN") \in P
      /\ next \in Nest(Nest(P))
  BY <1>0, <1>1, PlainForms, NestHolds
<1>a. <<lit>> \in Seq(P)
  BY <1>2
<1>3. When({"SCONST"}, <<lit>>) \in Nest(P) /\ anyIdentifier \in Nest(P)
  BY <1>0, <1>a, <1>2, NestHolds
<1>b. /\ <<anyIdentifier, When({"SCONST"}, <<lit>>)>> \in Seq(Nest(P))
      /\ <<anyIdentifier>> \in Seq(Nest(P))
  BY <1>3
<1>c. If({"SQLSTATE", "IDENT_SQLSTATE"},
         <<anyIdentifier, When({"SCONST"}, <<lit>>)>>, <<anyIdentifier>>) \in Nest(Nest(P))
  BY <1>0, <1>b, NestHolds
<1>4. parseCondition \in Seq(Nest(Nest(P)))
  BY <1>c DEF parseCondition
<1>5. Separated("OR", parseCondition) \in Seq(Nest(Nest(Nest(P))))
  BY <1>0, <1>2, <1>4, SeparatedForm
<1>6. /\ Separated("OR", parseCondition) \in Seq(Simple)
      /\ want("THEN") \in Simple /\ parseProcSect \in Simple
      /\ node("Exception") \in Simple
  BY <1>1, <1>2, <1>5, ProcSectForm, NestedHolds DEF Simple, P
<1>7. Separated("OR", parseCondition)
        \o <<want("THEN"), parseProcSect, node("Exception")>> \in Seq(Simple)
  BY <1>6
<1>8. <<next>> \o Separated("OR", parseCondition) \o
         <<want("THEN"), parseProcSect, node("Exception")>>
      = <<next>> \o (Separated("OR", parseCondition) \o
         <<want("THEN"), parseProcSect, node("Exception")>>)
  BY <1>6
<1>. QED  BY <1>7, <1>8, BranchCall

LEMMA ExceptionSectForm ==
  ASSUME NEW X, Plain({}) \subseteq X, BranchLoops \subseteq X
  PROVE  parseExceptionSect \in Seq(X)
<1>0. "EXCEPTION" \in Token /\ {"WHEN"} \in SUBSET (Token \ {EOF})
  BY DEF Token, Reserved, Unreserved, EOF
<1>. DEFINE h == call(<<next>> \o Separated("OR", parseCondition) \o
                      <<want("THEN"), parseProcSect, node("Exception")>>)
<1>1. <<h>> \in One(BranchCalls)
  BY HandlerForm, OneHolds
<1>. HIDE DEF h
<1>2. While({"WHEN"}, <<h>>) \in X
  BY <1>0, <1>1 DEF While, BranchLoops
<1>3. want("EXCEPTION") \in X
  BY <1>0, PlainForms
<1>4. <<want("EXCEPTION"), While({"WHEN"}, <<h>>)>> \in Seq(X)
  BY <1>2, <1>3
<1>. QED  BY <1>4 DEF parseExceptionSect, h

(* A block from its declarations to its end.                               *)
LEMMA BlockRestParts ==
  ASSUME NEW X, Plain({"Block"}) \subseteq X, BranchLoops \subseteq X
  PROVE  \E rest \in Seq(Nest(X)) :
           blockRest = <<When({"DECLARE"}, <<next, parseDeclSection>>),
                         want("BEGIN")>> \o rest
<1>0. {"EXCEPTION", "END"} \subseteq Token
  BY DEF Token, Reserved, Unreserved
<1>1. Plain({}) \subseteq X
  BY KindForms
<1>2. want("END") \in Nest(X)
  BY <1>0, <1>1, PlainForms, NestHolds
<1>3. /\ When({"EXCEPTION"}, parseExceptionSect) \in Nest(X)
      /\ parseProcSect \in Nest(X) /\ When(LabelTokens, <<skip>>) \in Nest(X)
  BY <1>0, <1>1, ExceptionSectForm, ProcSectForm, LabelForm, NestHolds
<1>. DEFINE rest == <<parseProcSect, When({"EXCEPTION"}, parseExceptionSect),
                      want("END"), When(LabelTokens, <<skip>>)>>
<1>4. rest \in Seq(Nest(X))
  BY <1>2, <1>3
<1>5. blockRest = <<When({"DECLARE"}, <<next, parseDeclSection>>),
                    want("BEGIN")>> \o rest
  BY DEF blockRest
<1>. QED  BY <1>4, <1>5

LEMMA BlockForms ==
  ASSUME NEW X, Plain({"Block"}) \subseteq X, Loops \subseteq X
  PROVE  blockRest \in Seq(Nest(X)) /\ parseBlock \in Seq(Nest(X))
<1>0. {"DECLARE", "BEGIN", "EXCEPTION", "END", "<<", ">>"} \subseteq Token
  BY DEF Token, Reserved, Unreserved, Symbols
<1>1. Plain({}) \subseteq X /\ node("Block") \in X
  BY KindForms
<1>2. /\ next \in X /\ anyIdentifier \in X /\ want(">>") \in X
      /\ want("BEGIN") \in Nest(X) /\ want("END") \in Nest(X)
      /\ node("Block") \in Nest(X)
  BY <1>0, <1>1, PlainForms, NestHolds
<1>3. parseDeclSection \in X
  BY DeclSectionForm
<1>4. /\ <<next, anyIdentifier, want(">>")>> \in Seq(X)
      /\ <<next, parseDeclSection>> \in Seq(X)
  BY <1>2, <1>3
<1>a. BranchLoops \subseteq X
  BY DEF Loops
<1>5. /\ When({"DECLARE"}, <<next, parseDeclSection>>) \in Nest(X)
      /\ When({"EXCEPTION"}, parseExceptionSect) \in Nest(X)
      /\ When({"<<"}, <<next, anyIdentifier, want(">>")>>) \in Nest(X)
      /\ parseProcSect \in Nest(X) /\ When(LabelTokens, <<skip>>) \in Nest(X)
  BY <1>0, <1>1, <1>a, <1>4, ExceptionSectForm, ProcSectForm, LabelForm,
     NestHolds
<1>6. blockRest \in Seq(Nest(X))
  BY <1>2, <1>5 DEF blockRest
<1>7. parseBlock \in Seq(Nest(X))
  BY <1>2, <1>5, <1>6 DEF parseBlock
<1>. QED  BY <1>6, <1>7

----------------------------------------------------------------------------
(* parse_control.go                                                        *)

LEMMA LoopForm ==
  ASSUME NEW X, Plain(CompositeKinds) \subseteq X, NEW a \in Seq(Nest(X)),
         NEW h, Led(a, {h}), NEW kind \in CompositeKinds,
         NEW fields \in SUBSET Fields
  PROVE  /\ a \o parseLoopBody \o <<nodeWith(kind, fields)>> \in Seq(Nest(X))
         /\ Led(a \o parseLoopBody \o <<nodeWith(kind, fields)>>, {h})
<1>0. {"END", "LOOP", semi} \subseteq Token
  BY DEF Token, Reserved, Symbols, semi
<1>1. Plain({}) \subseteq X /\ nodeWith(kind, fields) \in Nest(X)
  BY KindForms, NestHolds
<1>2. /\ parseProcSect \in Nest(X) /\ When(LabelTokens, <<skip>>) \in Nest(X)
      /\ want("END") \in Nest(X) /\ want("LOOP") \in Nest(X)
      /\ want(semi) \in Nest(X)
  BY <1>0, <1>1, ProcSectForm, LabelForm, PlainForms, NestHolds
<1>3. parseLoopBody \in Seq(Nest(X))
  BY <1>2 DEF parseLoopBody
<1>4. /\ a \o parseLoopBody \in Seq(Nest(X)) /\ a \o parseLoopBody # <<>>
      /\ Head(a \o parseLoopBody) = h
  BY <1>3 DEF Led
<1>. QED  BY <1>1, <1>4 DEF Led

(* The branches of IF and CASE.                                            *)
LEMMA BranchForm ==
  ASSUME NEW kind \in CompositeKinds
  PROVE  call(<<next, collect({"THEN"}), want("THEN"), parseProcSect,
                node(kind)>>) \in BranchCalls
<1>0. "THEN" \in Token
  BY DEF Token, Reserved
<1>1. /\ collect({"THEN"}) \in Simple /\ want("THEN") \in Simple
      /\ parseProcSect \in Simple /\ node(kind) \in Simple
  BY <1>0, KindForms, PlainForms, ProcSectForm, NestedHolds, ZenonT(30) DEF Simple
<1>2. <<collect({"THEN"}), want("THEN"), parseProcSect, node(kind)>>
        \in Seq(Simple)
  BY <1>1
<1>3. <<next, collect({"THEN"}), want("THEN"), parseProcSect, node(kind)>>
      = <<next>> \o <<collect({"THEN"}), want("THEN"), parseProcSect, node(kind)>>
  OBVIOUS
<1>. QED  BY <1>2, <1>3, BranchCall

LEMMA ElseForm ==
  ASSUME NEW X, Plain({}) \subseteq X
  PROVE  When({"ELSE"}, <<next, parseProcSect>>) \in Nest(Nest(X))
<1>0. {"ELSE"} \subseteq Token
  BY DEF Token, Reserved
<1>1. next \in Nest(X) /\ parseProcSect \in Nest(X)
  BY PlainForms, ProcSectForm, NestHolds
<1>2. <<next, parseProcSect>> \in Seq(Nest(X))
  BY <1>1
<1>. QED  BY <1>0, <1>2, NestHolds

LEMMA IfForm ==
  ASSUME NEW X, Plain(CompositeKinds) \subseteq X, BranchLoops \subseteq X
  PROVE  /\ parseStmtIf \in Seq(Nest(Nest(X)))
         /\ Led(parseStmtIf, {want("IF")})
<1>0. /\ {"IF", "THEN", "ELSIF", "ELSE", "END", semi} \subseteq Token
      /\ {"ELSIF"} \in SUBSET (Token \ {EOF})
      /\ "ElsIf" \in CompositeKinds /\ "If" \in CompositeKinds
  BY DEF Token, Reserved, Unreserved, Symbols, EOF, CompositeKinds, semi
<1>1. Plain({}) \subseteq X /\ node("If") \in X
  BY <1>0, KindForms
<1>. DEFINE b == call(<<next, collect({"THEN"}), want("THEN"), parseProcSect,
                        node("ElsIf")>>)
<1>2. <<b>> \in One(BranchCalls)
  BY <1>0, BranchForm, OneHolds
<1>. HIDE DEF b
<1>3. While({"ELSIF"}, <<b>>) \in X
  BY <1>0, <1>2 DEF While, BranchLoops
<1>4. /\ want("IF") \in X /\ want("THEN") \in X /\ want("END") \in X
      /\ want(semi) \in X /\ collect({"THEN"}) \in X
  BY <1>0, <1>1, PlainForms
<1>5. /\ \A i \in X : i \in Nest(Nest(X))
      /\ parseProcSect \in Nest(Nest(X))
      /\ When({"ELSE"}, <<next, parseProcSect>>) \in Nest(Nest(X))
  BY <1>1, ProcSectForm, ElseForm, NestHolds
<1>. QED  BY <1>1, <1>3, <1>4, <1>5 DEF parseStmtIf, b, Led

LEMMA CaseForm ==
  ASSUME NEW X, Plain(CompositeKinds) \subseteq X, BranchLoops \subseteq X
  PROVE  /\ parseStmtCase \in Seq(Nest(Nest(X)))
         /\ Led(parseStmtCase, {want("CASE")})
<1>0. /\ {"CASE", "WHEN", "END", semi} \subseteq Token
      /\ {"WHEN"} \in SUBSET (Token \ {EOF})
      /\ "CaseWhen" \in CompositeKinds /\ "Case" \in CompositeKinds
  BY DEF Token, Reserved, Symbols, EOF, CompositeKinds, semi
<1>1. Plain({}) \subseteq X /\ node("Case") \in X
  BY <1>0, KindForms
<1>. DEFINE b == call(<<next, collect({"THEN"}), want("THEN"), parseProcSect,
                        node("CaseWhen")>>)
<1>2. <<b>> \in One(BranchCalls)
  BY <1>0, BranchForm, OneHolds
<1>. HIDE DEF b
<1>3. While({"WHEN"}, <<b>>) \in X
  BY <1>0, <1>2 DEF While, BranchLoops
<1>4. /\ want("CASE") \in X /\ want("END") \in X /\ want(semi) \in X
      /\ collect({"WHEN"}) \in X
  BY <1>0, <1>1, PlainForms
<1>5. /\ \A i \in X : i \in Nest(Nest(X))
      /\ When({"ELSE"}, <<next, parseProcSect>>) \in Nest(Nest(X))
  BY <1>1, ElseForm, NestHolds
<1>. QED  BY <1>1, <1>3, <1>4, <1>5 DEF parseStmtCase, b, Led

LEMMA LoopWhileForms ==
  ASSUME NEW X, Plain(CompositeKinds) \subseteq X
  PROVE  /\ parseStmtLoop \in Seq(Nest(X)) /\ Led(parseStmtLoop, {want("LOOP")})
         /\ parseStmtWhile \in Seq(Nest(X))
         /\ Led(parseStmtWhile, {want("WHILE")})
<1>0. /\ {"LOOP", "WHILE"} \subseteq Token /\ {} \in SUBSET Fields
      /\ {"Loop", "While"} \subseteq CompositeKinds
  BY DEF Token, Reserved, CompositeKinds
<1>a. Plain({}) \subseteq X
  BY KindForms
<1>1. /\ want("LOOP") \in Nest(X) /\ want("WHILE") \in Nest(X)
      /\ collect({"LOOP"}) \in Nest(X)
  BY <1>0, <1>a, PlainForms, NestHolds
<1>2. /\ <<want("LOOP")>> \in Seq(Nest(X))
      /\ <<want("WHILE"), collect({"LOOP"}), want("LOOP")>> \in Seq(Nest(X))
      /\ Led(<<want("LOOP")>>, {want("LOOP")})
      /\ Led(<<want("WHILE"), collect({"LOOP"}), want("LOOP")>>,
             {want("WHILE")})
  BY <1>1 DEF Led
<1>3. /\ <<want("LOOP")>> \o parseLoopBody \o <<nodeWith("Loop", {})>>
           \in Seq(Nest(X))
      /\ Led(<<want("LOOP")>> \o parseLoopBody \o <<nodeWith("Loop", {})>>,
             {want("LOOP")})
  BY <1>0, <1>2, LoopForm
<1>4. /\ <<want("WHILE"), collect({"LOOP"}), want("LOOP")>> \o parseLoopBody
           \o <<nodeWith("While", {})>> \in Seq(Nest(X))
      /\ Led(<<want("WHILE"), collect({"LOOP"}), want("LOOP")>>
               \o parseLoopBody \o <<nodeWith("While", {})>>, {want("WHILE")})
  BY <1>0, <1>2, LoopForm
<1>. QED  BY <1>3, <1>4 DEF parseStmtLoop, parseStmtWhile, node

(* An integer loop, after the first bound.                                 *)
LEMMA IntegerLoopForm ==
  ASSUME NEW X, Plain(CompositeKinds) \subseteq X, NEW reverse \in SUBSET Fields
  PROVE  <<next, collect({"LOOP", "BY"}),
           If({"BY"}, <<next, collect({"LOOP"}), want("LOOP")>>,
                      <<got({"LOOP"})>>)>>
           \o parseLoopBody \o <<nodeWith("ForI", reverse)>> \in Seq(Nest(X))
<1>0. {"LOOP", "BY"} \subseteq Token /\ "ForI" \in CompositeKinds
  BY DEF Token, Reserved, CompositeKinds
<1>1. Plain({}) \subseteq X
  BY KindForms
<1>2. /\ next \in X /\ want("LOOP") \in X /\ got({"LOOP"}) \in X
      /\ collect({"LOOP"}) \in X /\ collect({"LOOP", "BY"}) \in X
  BY <1>0, <1>1, PlainForms
<1>3. /\ <<next, collect({"LOOP"}), want("LOOP")>> \in Seq(X)
      /\ <<got({"LOOP"})>> \in Seq(X)
  BY <1>2
<1>4. /\ If({"BY"}, <<next, collect({"LOOP"}), want("LOOP")>>,
                    <<got({"LOOP"})>>) \in Nest(X)
      /\ next \in Nest(X) /\ collect({"LOOP", "BY"}) \in Nest(X)
  BY <1>0, <1>2, <1>3, NestHolds
<1>. DEFINE a == <<next, collect({"LOOP", "BY"}),
                   If({"BY"}, <<next, collect({"LOOP"}), want("LOOP")>>,
                              <<got({"LOOP"})>>)>>
<1>5. a \in Seq(Nest(X)) /\ Led(a, {next})
  BY <1>4 DEF Led
<1>. HIDE DEF a
<1>6. a \o parseLoopBody \o <<nodeWith("ForI", reverse)>> \in Seq(Nest(X))
  BY <1>0, <1>5, LoopForm
<1>. QED  BY <1>6 DEF a

(* The values after USING.                                                 *)
LEMMA ListForm ==
  ASSUME NEW X, Plain({}) \subseteq X, NEW i \in X
  PROVE  <<next>> \o Separated(comma, <<i>>) \in Seq(Nest(X))
<1>0. comma \in Token
  BY DEF Token, Symbols, comma
<1>1. next \in X /\ <<i>> \in Seq(X)
  BY PlainForms
<1>2. Separated(comma, <<i>>) \in Seq(Nest(X)) /\ next \in Nest(X)
  BY <1>0, <1>1, SeparatedForm, NestHolds
<1>. QED  BY <1>2

(* A loop over the rows of a query, static or dynamic.                     *)
LEMMA QueryLoopForms ==
  ASSUME NEW X, Plain(CompositeKinds) \subseteq X
  PROVE  /\ <<got({"LOOP"})>> \o parseLoopBody \o <<node("ForS")>>
              \in Seq(Nest(X))
         /\ <<next, collect({"LOOP", "USING"}),
              When({"USING"},
                   <<next>> \o Separated(comma, <<discard({comma, "LOOP"})>>)),
              got({"LOOP"})>> \o parseLoopBody \o <<node("ForS")>>
              \in Seq(Nest(Nest(X)))
<1>0. /\ {"LOOP", "USING", comma} \subseteq Token /\ "ForS" \in CompositeKinds
      /\ {} \in SUBSET Fields
  BY DEF Token, Reserved, Symbols, CompositeKinds, comma
<1>1. Plain({}) \subseteq X
  BY KindForms
<1>2. /\ next \in X /\ got({"LOOP"}) \in X /\ collect({"LOOP", "USING"}) \in X
      /\ discard({comma, "LOOP"}) \in X
  BY <1>0, <1>1, PlainForms
<1>3. \A i \in X : i \in Nest(X) /\ i \in Nest(Nest(X))
  BY NestHolds
<1>4. <<got({"LOOP"})>> \in Seq(Nest(X)) /\ Led(<<got({"LOOP"})>>, {got({"LOOP"})})
  BY <1>2, <1>3 DEF Led
<1>5. <<got({"LOOP"})>> \o parseLoopBody \o <<nodeWith("ForS", {})>>
        \in Seq(Nest(X))
  BY <1>0, <1>4, LoopForm
<1>7. <<next>> \o Separated(comma, <<discard({comma, "LOOP"})>>) \in Seq(Nest(X))
  BY <1>1, <1>2, ListForm
<1>8. When({"USING"}, <<next>> \o Separated(comma, <<discard({comma, "LOOP"})>>))
        \in Nest(Nest(X))
  BY <1>0, <1>7, NestHolds
<1>. DEFINE a == <<next, collect({"LOOP", "USING"}),
              When({"USING"},
                   <<next>> \o Separated(comma, <<discard({comma, "LOOP"})>>)),
              got({"LOOP"})>>
<1>9. a \in Seq(Nest(Nest(X))) /\ Led(a, {next})
  BY <1>2, <1>3, <1>8 DEF Led
<1>. HIDE DEF a
<1>10. Plain(CompositeKinds) \subseteq Nest(X)
  BY <1>3
<1>11. a \o parseLoopBody \o <<nodeWith("ForS", {})>> \in Seq(Nest(Nest(X)))
  BY <1>0, <1>9, <1>10, LoopForm
<1>. QED  BY <1>5, <1>11 DEF a, node

LEMMA ForRestForm ==
  ASSUME NEW X, Plain(CompositeKinds) \subseteq X, NEW reverse \in SUBSET Fields
  PROVE  forRest(reverse) \in Seq(Nest(Nest(Nest(X))))
<1>0. {"EXECUTE", "..", "LOOP"} \subseteq Token
  BY DEF Token, Reserved, Unreserved, Symbols
<1>1. Plain({}) \subseteq X
  BY KindForms
<1>. DEFINE int == <<next, collect({"LOOP", "BY"}),
               If({"BY"}, <<next, collect({"LOOP"}), want("LOOP")>>,
                          <<got({"LOOP"})>>)>>
               \o parseLoopBody \o <<nodeWith("ForI", reverse)>>
            rows == <<got({"LOOP"})>> \o parseLoopBody \o <<node("ForS")>>
            dyn == <<next, collect({"LOOP", "USING"}),
                When({"USING"},
                     <<next>> \o Separated(comma, <<discard({comma, "LOOP"})>>)),
                got({"LOOP"})>> \o parseLoopBody \o <<node("ForS")>>
<1>2. /\ int \in Seq(Nest(X)) /\ rows \in Seq(Nest(X))
      /\ dyn \in Seq(Nest(Nest(X)))
  BY IntegerLoopForm, QueryLoopForms
<1>. HIDE DEF int, rows, dyn
<1>3. If({".."}, int, rows) \in Nest(Nest(X))
  BY <1>0, <1>2, NestHolds
<1>4. collect({"..", "LOOP"}) \in Nest(Nest(X))
  BY <1>0, <1>1, PlainForms, NestHolds
<1>5. <<collect({"..", "LOOP"}), If({".."}, int, rows)>> \in Seq(Nest(Nest(X)))
  BY <1>3, <1>4
<1>6. If({"EXECUTE"}, dyn, <<collect({"..", "LOOP"}), If({".."}, int, rows)>>)
        \in Nest(Nest(Nest(X)))
  BY <1>0, <1>2, <1>5, NestHolds
<1>. QED  BY <1>6 DEF forRest, int, rows, dyn

LEMMA ForForms ==
  ASSUME NEW X, Plain(CompositeKinds) \subseteq X
  PROVE  /\ parseStmtFor \in Seq(Nested(X)) /\ Led(parseStmtFor, {want("FOR")})
         /\ parseStmtForEach \in Seq(Nested(X))
         /\ Led(parseStmtForEach, {want("FOREACH")})
<1>0. /\ {"FOR", "IN", "REVERSE", "FOREACH", "SLICE", "ICONST", "ARRAY", "LOOP"}
           \subseteq Token
      /\ "ForEachA" \in CompositeKinds
      /\ {} \in SUBSET Fields /\ {"reverse"} \in SUBSET Fields
  BY DEF Token, Reserved, Unreserved, Symbols, Fields, CompositeKinds
<1>1. Plain({}) \subseteq X
  BY KindForms
<1>2. /\ next \in X /\ lit \in X /\ skip \in X /\ anyIdentifier \in X /\ want("FOR") \in X
      /\ want("IN") \in X /\ want("FOREACH") \in X /\ want("ARRAY") \in X
      /\ want("LOOP") \in X /\ collect({"LOOP"}) \in X
  BY <1>0, <1>1, PlainForms
<1>3. /\ forRest({}) \in Seq(Nest(Nest(Nest(X))))
      /\ forRest({"reverse"}) \in Seq(Nest(Nest(Nest(X))))
      /\ skip \in Nest(Nest(Nest(X)))
  BY <1>0, <1>2, ForRestForm, NestHolds
<1>4. <<skip>> \o forRest({"reverse"}) \in Seq(Nest(Nest(Nest(X))))
  BY <1>3
<1>5. If({"REVERSE"}, <<skip>> \o forRest({"reverse"}), forRest({}))
        \in Nest(Nest(Nest(Nest(X))))
  BY <1>0, <1>3, <1>4, NestHolds
<1>6. /\ If({"REVERSE"}, <<skip>> \o forRest({"reverse"}), forRest({}))
           \in Nested(X)
      /\ want("FOR") \in Nested(X) /\ anyIdentifier \in Nested(X)
      /\ want("IN") \in Nested(X)
  BY <1>2, <1>5, NestedHolds
<1>7. parseStmtFor \in Seq(Nested(X)) /\ Led(parseStmtFor, {want("FOR")})
  BY <1>6 DEF parseStmtFor, Led
<1>8. <<lit>> \in Seq(X)
  BY <1>2
<1>9. When({"ICONST"}, <<lit>>) \in Nest(X) /\ next \in Nest(X)
  BY <1>0, <1>2, <1>8, NestHolds
<1>10. <<next, When({"ICONST"}, <<lit>>)>> \in Seq(Nest(X))
  BY <1>9
<1>11. When({"SLICE"}, <<next, When({"ICONST"}, <<lit>>)>>) \in Nest(Nest(X))
  BY <1>0, <1>10, NestHolds
<1>12. \A i \in X : i \in Nest(Nest(X))
  BY NestHolds
<1>. DEFINE a ==
       <<want("FOREACH"), anyIdentifier,
         When({"SLICE"}, <<next, When({"ICONST"}, <<lit>>)>>),
         want("IN"), want("ARRAY"), collect({"LOOP"}), want("LOOP")>>
<1>13. a \in Seq(Nest(Nest(X))) /\ Led(a, {want("FOREACH")})
  BY <1>2, <1>11, <1>12 DEF Led
<1>. HIDE DEF a
<1>14. Plain(CompositeKinds) \subseteq Nest(X)
  BY NestHolds
<1>15. /\ a \o parseLoopBody \o <<nodeWith("ForEachA", {})>>
            \in Seq(Nest(Nest(X)))
       /\ Led(a \o parseLoopBody \o <<nodeWith("ForEachA", {})>>,
              {want("FOREACH")})
  BY <1>0, <1>13, <1>14, LoopForm
<1>16. /\ parseStmtForEach \in Seq(Nested(X))
       /\ Led(parseStmtForEach, {want("FOREACH")})
  BY <1>15, NestedHolds DEF parseStmtForEach, a, node
<1>. QED  BY <1>7, <1>16

LEMMA ExitForm ==
  ASSUME NEW X, Plain(FixedKinds) \subseteq X, NEW fields \in SUBSET Fields
  PROVE  /\ parseStmtExit(fields) \in Seq(Nest(X))
         /\ Led(parseStmtExit(fields), {next})
<1>0. {"WHEN", semi} \subseteq Token /\ "Exit" \in FixedKinds
  BY DEF Token, Reserved, Symbols, FixedKinds, OtherKinds, Kinds,
         Statements, semi
<1>1. Plain({}) \subseteq X /\ nodeWith("Exit", fields) \in Nest(X)
  BY <1>0, KindForms, NestHolds
<1>2. next \in X /\ collect({semi}) \in X /\ want(semi) \in X
  BY <1>0, <1>1, PlainForms
<1>3. <<next, collect({semi})>> \in Seq(X)
  BY <1>2
<1>4. /\ next \in Nest(X) /\ want(semi) \in Nest(X)
      /\ When({"WHEN"}, <<next, collect({semi})>>) \in Nest(X)
      /\ When(LabelTokens, <<lit>>) \in Nest(X)
  BY <1>0, <1>1, <1>2, <1>3, LabelForm, NestHolds
<1>. QED  BY <1>1, <1>4 DEF parseStmtExit, Led

----------------------------------------------------------------------------
(* parse_misc.go                                                           *)

LEMMA UsingForm ==
  ASSUME NEW X, Plain({}) \subseteq X, NEW S \in SUBSET Token
  PROVE  When({"USING"}, usingParams(S)) \in Nest(Nest(X))
         /\ usingParams(S) \in Seq(Nest(X))
<1>0. {"USING"} \subseteq Token /\ {comma} \cup S \subseteq Token
  BY DEF Token, Reserved, Symbols, comma
<1>1. collect({comma} \cup S) \in X
  BY <1>0, PlainForms
<1>2. usingParams(S) \in Seq(Nest(X))
  BY <1>1, ListForm DEF usingParams
<1>. QED  BY <1>0, <1>2, NestHolds

(* The end of many statements: the text up to the semicolon, and it.       *)
LEMMA RestForm ==
  ASSUME NEW kinds, NEW X, Plain(kinds) \subseteq X, NEW kind \in kinds,
         NEW fields \in SUBSET Fields
  PROVE  /\ collect({semi}) \in X /\ want(semi) \in X
         /\ <<collect({semi}), want(semi)>> \in Seq(X)
         /\ <<next, collect({semi})>> \in Seq(X)
         /\ <<next, collect({semi}), want(semi)>> \in Seq(X)
         /\ <<collect({semi}), want(semi), nodeWith(kind, fields)>> \in Seq(X)
         /\ <<next, collect({semi}), want(semi), nodeWith(kind, fields)>>
              \in Seq(X)
<1>1. Plain({}) \subseteq X /\ nodeWith(kind, fields) \in X
  BY KindForms
<1>2. semi \in Token
  BY DEF Token, Symbols, semi
<1>3. next \in X /\ collect({semi}) \in X /\ want(semi) \in X
  BY <1>1, <1>2, PlainForms
<1>. QED  BY <1>1, <1>3

LEMMA ReturnForm ==
  ASSUME NEW X, Plain(FixedKinds) \subseteq X
  PROVE  /\ parseStmtReturn \in Seq(Nested(X))
         /\ Led(parseStmtReturn, {want("RETURN")})
<1>0. /\ {"RETURN", "NEXT", "QUERY", "EXECUTE", "USING", semi} \subseteq Token
      /\ {"ReturnNext", "ReturnQuery", "Return"} \subseteq FixedKinds
      /\ {"dynamic"} \in SUBSET Fields /\ {} \in SUBSET Fields
  BY DEF Token, Reserved, Unreserved, Symbols, Fields, FixedKinds, OtherKinds, Kinds,
         Statements, semi
<1>1. Plain({}) \subseteq X
  BY KindForms
<1>2. /\ next \in X /\ want("RETURN") \in X /\ got({semi}) \in X
      /\ collect({semi, "USING"}) \in X
      /\ nodeWith("ReturnQuery", {"dynamic"}) \in X
  BY <1>0, <1>1, KindForms, PlainForms
<1>3. \A i \in X : i \in Nest(X) /\ i \in Nest(Nest(X))
      /\ i \in Nest(Nest(Nest(X))) /\ i \in Nested(X)
  BY NestHolds, NestedHolds
<1>4. When({"USING"}, usingParams({semi})) \in Nest(Nest(X))
  BY <1>0, <1>1, UsingForm
<1>5. <<next, collect({semi, "USING"}), When({"USING"}, usingParams({semi})),
        got({semi}), nodeWith("ReturnQuery", {"dynamic"})>>
        \in Seq(Nest(Nest(X)))
  BY <1>2, <1>3, <1>4
<1>6. /\ <<collect({semi}), want(semi), nodeWith("ReturnQuery", {})>>
           \in Seq(Nest(Nest(X)))
      /\ <<collect({semi}), want(semi), nodeWith("Return", {})>>
           \in Seq(Nest(Nest(Nest(X))))
  BY <1>0, <1>3, RestForm
<1>7. If({"EXECUTE"},
         <<next, collect({semi, "USING"}), When({"USING"}, usingParams({semi})),
           got({semi}), nodeWith("ReturnQuery", {"dynamic"})>>,
         <<collect({semi}), want(semi), nodeWith("ReturnQuery", {})>>)
        \in Nest(Nest(Nest(X)))
  BY <1>0, <1>5, <1>6, NestHolds
<1>8. <<next, If({"EXECUTE"},
         <<next, collect({semi, "USING"}), When({"USING"}, usingParams({semi})),
           got({semi}), nodeWith("ReturnQuery", {"dynamic"})>>,
         <<collect({semi}), want(semi), nodeWith("ReturnQuery", {})>>)>>
        \in Seq(Nest(Nest(Nest(X))))
  BY <1>2, <1>3, <1>7
<1>9. If({"QUERY"},
         <<next, If({"EXECUTE"},
            <<next, collect({semi, "USING"}),
              When({"USING"}, usingParams({semi})), got({semi}),
              nodeWith("ReturnQuery", {"dynamic"})>>,
            <<collect({semi}), want(semi), nodeWith("ReturnQuery", {})>>)>>,
         <<collect({semi}), want(semi), nodeWith("Return", {})>>)
        \in Nest(Nest(Nest(Nest(X))))
  BY <1>0, <1>6, <1>8, NestHolds
<1>. DEFINE query == If({"QUERY"},
         <<next, If({"EXECUTE"},
            <<next, collect({semi, "USING"}),
              When({"USING"}, usingParams({semi})), got({semi}),
              nodeWith("ReturnQuery", {"dynamic"})>>,
            <<collect({semi}), want(semi), nodeWith("ReturnQuery", {})>>)>>,
         <<collect({semi}), want(semi), nodeWith("Return", {})>>)
            nxt == <<next, collect({semi}), want(semi),
                     nodeWith("ReturnNext", {})>>
<1>. HIDE DEF query
<1>10. <<query>> \in Seq(Nest(Nest(Nest(Nest(X)))))
  BY <1>9 DEF query
<1>11. nxt \in Seq(Nest(Nest(Nest(Nest(X)))))
  BY <1>0, NestHolds, RestForm
<1>. HIDE DEF nxt
<1>12. If({"NEXT"}, nxt, <<query>>) \in Nested(X)
  BY <1>0, <1>10, <1>11, NestHolds DEF Nested
<1>13. want("RETURN") \in Nested(X)
  BY <1>2, <1>3
<1>14. parseStmtReturn = <<want("RETURN"), If({"NEXT"}, nxt, <<query>>)>>
  BY DEF parseStmtReturn, node, query, nxt
<1>. QED  BY <1>12, <1>13, <1>14 DEF Led

LEMMA RaiseOptionsForm ==
  ASSUME NEW X, Plain({}) \subseteq X, NEW i \in X
  PROVE  /\ If({"USING"}, <<next>> \o parseRaiseOptions, <<i>>)
              \in Nest(Nest(X))
         /\ parseRaiseOptions \in Seq(Nest(X))
<1>0. {"USING", "=", ":=", comma, semi} \subseteq Token
  BY DEF Token, Reserved, Symbols, comma, semi
<1>1. /\ next \in X /\ lit \in X /\ got({"=", ":="}) \in X
      /\ collect({comma, semi}) \in X /\ got({semi}) \in X
  BY <1>0, PlainForms
<1>2. <<lit, got({"=", ":="}), collect({comma, semi})>> \in Seq(X)
  BY <1>1
<1>3. /\ Separated(comma, <<lit, got({"=", ":="}), collect({comma, semi})>>)
           \in Seq(Nest(X))
      /\ next \in Nest(X) /\ got({semi}) \in Nest(X) /\ i \in Nest(X)
  BY <1>0, <1>1, <1>2, SeparatedForm, NestHolds
<1>4. parseRaiseOptions \in Seq(Nest(X))
  BY <1>3 DEF parseRaiseOptions
<1>5. <<next>> \o parseRaiseOptions \in Seq(Nest(X)) /\ <<i>> \in Seq(Nest(X))
  BY <1>3, <1>4
<1>. QED  BY <1>0, <1>4, <1>5, NestHolds

LEMMA RaiseFormatForm ==
  ASSUME NEW X, Plain({}) \subseteq X
  PROVE  raiseFormat \in Seq(Nest(Nest(Nest(X))))
<1>0. {"USING", comma, semi, EOF} \subseteq Token
  BY DEF Token, Reserved, Symbols, comma, semi
<1>1. /\ next \in X /\ lit \in X /\ got({comma}) \in X /\ got({semi}) \in X
      /\ want(semi) \in X /\ collect({comma, semi, "USING"}) \in X
  BY <1>0, PlainForms
<1>2. <<collect({comma, semi, "USING"}), got({comma})>> \in Seq(X)
  BY <1>1
<1>3. /\ Until({"USING", semi, EOF},
               <<collect({comma, semi, "USING"}), got({comma})>>) \in Nest(X)
      /\ If({"USING"}, <<next>> \o parseRaiseOptions, <<got({semi})>>)
           \in Nest(Nest(X))
      /\ If({"USING"}, <<next>> \o parseRaiseOptions, <<want(semi)>>)
           \in Nest(Nest(X))
  BY <1>0, <1>1, <1>2, RaiseOptionsForm, NestHolds
<1>. DEFINE u == If({"USING"}, <<next>> \o parseRaiseOptions, <<got({semi})>>)
            v == If({"USING"}, <<next>> \o parseRaiseOptions, <<want(semi)>>)
            w == Until({"USING", semi, EOF},
                       <<collect({comma, semi, "USING"}), got({comma})>>)
<1>. HIDE DEF u, v, w
<1>4. /\ u \in Nest(Nest(X)) /\ v \in Nest(Nest(X)) /\ w \in Nest(Nest(X))
      /\ next \in Nest(Nest(X)) /\ lit \in Nest(Nest(Nest(X)))
  BY <1>1, <1>3, NestHolds DEF u, v, w
<1>5. <<next, w, u>> \in Seq(Nest(Nest(X))) /\ <<v>> \in Seq(Nest(Nest(X)))
  BY <1>4
<1>6. If({comma}, <<next, w, u>>, <<v>>) \in Nest(Nest(Nest(X)))
  BY <1>0, <1>5, NestHolds
<1>7. <<lit, If({comma}, <<next, w, u>>, <<v>>)>> \in Seq(Nest(Nest(Nest(X))))
  BY <1>4, <1>6
<1>. QED  BY <1>7 DEF raiseFormat, u, v, w

LEMMA RaiseConditionForm ==
  ASSUME NEW X, Plain({}) \subseteq X
  PROVE  raiseCondition \in Seq(Nest(Nest(X)))
<1>0. /\ {"SQLSTATE", "SCONST", semi} \subseteq Token
      /\ {"WORD"} \cup Unreserved \subseteq Token
  BY DEF Token, Unreserved, Names, WordStart, QuotedNames, Symbols, semi
<1>1. next \in X /\ lit \in X /\ want(semi) \in X
  BY <1>0, PlainForms
<1>2. <<lit>> \in Seq(X)
  BY <1>1
<1>3. /\ When({"SCONST"}, <<lit>>) \in Nest(X) /\ next \in Nest(X)
      /\ When({"WORD"} \cup Unreserved, <<lit>>) \in Nest(X)
  BY <1>0, <1>1, <1>2, NestHolds
<1>4. /\ <<next, When({"SCONST"}, <<lit>>)>> \in Seq(Nest(X))
      /\ <<When({"WORD"} \cup Unreserved, <<lit>>)>> \in Seq(Nest(X))
  BY <1>3
<1>5. If({"SQLSTATE"}, <<next, When({"SCONST"}, <<lit>>)>>,
                       <<When({"WORD"} \cup Unreserved, <<lit>>)>>)
        \in Nest(Nest(X))
  BY <1>0, <1>4, NestHolds
<1>6. If({"USING"}, <<next>> \o parseRaiseOptions, <<want(semi)>>)
        \in Nest(Nest(X))
  BY <1>1, RaiseOptionsForm
<1>. QED  BY <1>5, <1>6 DEF raiseCondition

LEMMA RaiseForm ==
  ASSUME NEW X, Plain(FixedKinds) \subseteq X
  PROVE  /\ parseStmtRaise \in Seq(Nested(X))
         /\ Led(parseStmtRaise, {want("RAISE")})
<1>0. /\ {"RAISE", "SCONST", semi} \subseteq Token /\ RaiseLevels \subseteq Token
      /\ "Raise" \in FixedKinds
  BY DEF Token, Unreserved, Symbols, RaiseLevels, FixedKinds, OtherKinds, Kinds,
         Statements, semi
<1>1. Plain({}) \subseteq X /\ node("Raise") \in X
  BY <1>0, KindForms
<1>2. next \in X /\ lit \in X /\ want("RAISE") \in X
  BY <1>0, <1>1, PlainForms
<1>3. <<lit>> \in Seq(X)
  BY <1>2
<1>4. When(RaiseLevels, <<lit>>) \in Nest(X)
  BY <1>0, <1>3, NestHolds
<1>5. /\ raiseFormat \in Seq(Nest(Nest(Nest(X))))
      /\ raiseCondition \in Seq(Nest(Nest(Nest(X))))
  BY <1>1, RaiseFormatForm, RaiseConditionForm, NestHolds
<1>6. If({"SCONST"}, raiseFormat, raiseCondition) \in Nest(Nest(Nest(Nest(X))))
  BY <1>0, <1>5, NestHolds
<1>7. next \in Nest(Nest(Nest(Nest(X))))
  BY <1>2, NestHolds
<1>8. /\ <<If({"SCONST"}, raiseFormat, raiseCondition)>>
           \in Seq(Nest(Nest(Nest(Nest(X)))))
      /\ <<next>> \in Seq(Nest(Nest(Nest(Nest(X)))))
  BY <1>6, <1>7
<1>9. If({semi}, <<next>>, <<If({"SCONST"}, raiseFormat, raiseCondition)>>)
        \in Nested(X)
  BY <1>0, <1>8, NestHolds DEF Nested
<1>10. /\ want("RAISE") \in Nested(X) /\ node("Raise") \in Nested(X)
       /\ When(RaiseLevels, <<lit>>) \in Nested(X)
  BY <1>1, <1>2, <1>4, NestedHolds
<1>. QED  BY <1>9, <1>10 DEF parseStmtRaise, Led

LEMMA AssertForm ==
  ASSUME NEW X, Plain(FixedKinds) \subseteq X
  PROVE  /\ parseStmtAssert \in Seq(Nest(X))
         /\ Led(parseStmtAssert, {want("ASSERT")})
<1>0. {"ASSERT", comma, semi} \subseteq Token /\ "Assert" \in FixedKinds
      /\ {} \in SUBSET Fields
  BY DEF Token, Unreserved, Symbols, FixedKinds, OtherKinds, Kinds,
         Statements, comma, semi
<1>1. Plain({}) \subseteq X /\ node("Assert") \in X
  BY <1>0, KindForms
<1>2. /\ want("ASSERT") \in X /\ collect({comma, semi}) \in X
      /\ got({semi}) \in X
  BY <1>0, <1>1, PlainForms
<1>3. <<next, collect({semi}), want(semi)>> \in Seq(X)
  BY <1>0, RestForm
<1>4. <<got({semi})>> \in Seq(X)
  BY <1>2
<1>5. /\ If({comma}, <<next, collect({semi}), want(semi)>>, <<got({semi})>>)
           \in Nest(X)
      /\ want("ASSERT") \in Nest(X) /\ collect({comma, semi}) \in Nest(X)
      /\ node("Assert") \in Nest(X)
  BY <1>0, <1>1, <1>2, <1>3, <1>4, NestHolds
<1>. QED  BY <1>5 DEF parseStmtAssert, Led

LEMMA DynExecuteForm ==
  ASSUME NEW X, Plain(OtherKinds) \subseteq X
  PROVE  /\ parseStmtDynExecute \in Seq(Nest(Nest(Nest(X))))
         /\ Led(parseStmtDynExecute, {want("EXECUTE")})
<1>0. /\ {"EXECUTE", "INTO", "USING", "STRICT", semi} \subseteq Token
      /\ "DynExecute" \in OtherKinds
      /\ {"into"} \in SUBSET Fields /\ {"strict"} \in SUBSET Fields
  BY DEF Token, Reserved, Unreserved, Symbols, Fields, OtherKinds, Kinds,
         Statements, semi
<1>1. Plain({}) \subseteq X /\ node("DynExecute") \in X
  BY <1>0, KindForms
<1>2. /\ next \in X /\ set({"into"}) \in X /\ set({"strict"}) \in X
      /\ collect({"USING", semi}) \in X /\ got({semi}) \in X
      /\ want("EXECUTE") \in X /\ collect({"INTO", "USING", semi}) \in X
  BY <1>0, <1>1, PlainForms
<1>3. <<set({"strict"}), next>> \in Seq(X)
  BY <1>2
<1>4. /\ When({"STRICT"}, <<set({"strict"}), next>>) \in Nest(X)
      /\ next \in Nest(X) /\ set({"into"}) \in Nest(X)
      /\ collect({"USING", semi}) \in Nest(X)
  BY <1>0, <1>2, <1>3, NestHolds
<1>. DEFINE a == <<next, set({"into"}),
                   When({"STRICT"}, <<set({"strict"}), next>>),
                   collect({"USING", semi})>>
<1>5. a \in Seq(Nest(X))
  BY <1>4
<1>. HIDE DEF a
<1>6. usingParams({semi, "INTO"}) \in Seq(Nest(X))
  BY <1>0, <1>1, UsingForm
<1>7. If({"INTO"}, a, usingParams({semi, "INTO"})) \in Nest(Nest(X))
  BY <1>0, <1>5, <1>6, NestHolds
<1>8. <<If({"INTO"}, a, usingParams({semi, "INTO"}))>> \in Seq(Nest(Nest(X)))
  BY <1>7
<1>9. /\ While({"INTO", "USING"}, <<If({"INTO"}, a, usingParams({semi, "INTO"}))>>)
           \in Nest(Nest(Nest(X)))
      /\ \A i \in X : i \in Nest(Nest(Nest(X)))
  BY <1>0, <1>8, NestHolds
<1>. QED  BY <1>1, <1>2, <1>9 DEF parseStmtDynExecute, a, Led

LEMMA ShortForms ==
  ASSUME NEW X, Plain(FixedKinds) \subseteq X, NEW fields \in SUBSET Fields
  PROVE  /\ parseStmtPerform \in Seq(X) /\ Led(parseStmtPerform, {want("PERFORM")})
         /\ parseStmtCall(fields) \in Seq(X) /\ Led(parseStmtCall(fields), {next})
         /\ parseStmtClose \in Seq(X) /\ Led(parseStmtClose, {want("CLOSE")})
         /\ parseStmtNull \in Seq(X) /\ Led(parseStmtNull, {want("NULL")})
<1>0. /\ {"PERFORM", "CLOSE", "NULL", semi} \subseteq Token
      /\ {"Perform", "Call", "Close", "Null"} \subseteq FixedKinds
  BY DEF Token, Reserved, Unreserved, Symbols, FixedKinds, OtherKinds, Kinds,
         Statements, semi
<1>1. Plain({}) \subseteq X /\ nodeWith("Call", fields) \in X
      /\ node("Perform") \in X /\ node("Close") \in X /\ node("Null") \in X
  BY <1>0, KindForms
<1>2. /\ next \in X /\ anyIdentifier \in X /\ collect({semi}) \in X
      /\ want(semi) \in X /\ want("PERFORM") \in X /\ want("CLOSE") \in X
      /\ want("NULL") \in X
  BY <1>0, <1>1, PlainForms
<1>3. parseStmtPerform \in Seq(X) /\ Led(parseStmtPerform, {want("PERFORM")})
  BY <1>1, <1>2 DEF parseStmtPerform, Led
<1>4. parseStmtCall(fields) \in Seq(X) /\ Led(parseStmtCall(fields), {next})
  BY <1>1, <1>2 DEF parseStmtCall, Led
<1>5. parseStmtClose \in Seq(X) /\ Led(parseStmtClose, {want("CLOSE")})
  BY <1>1, <1>2 DEF parseStmtClose, Led
<1>6. parseStmtNull \in Seq(X) /\ Led(parseStmtNull, {want("NULL")})
  BY <1>1, <1>2 DEF parseStmtNull, Led
<1>. QED  BY <1>3, <1>4, <1>5, <1>6

LEMMA GetDiagForm ==
  ASSUME NEW X, Plain(CompositeKinds) \subseteq X
  PROVE  /\ parseStmtGetDiag \in Seq(Nest(X))
         /\ Led(parseStmtGetDiag, {want("GET")})
<1>0. /\ {"GET", "STACKED", "CURRENT", "DIAGNOSTICS", "=", ":=", comma, semi}
           \subseteq Token
      /\ {"stacked"} \in SUBSET Fields /\ "GetDiag" \in CompositeKinds
  BY DEF Token, Unreserved, Symbols, Fields, CompositeKinds, comma, semi
<1>1. Plain({}) \subseteq X /\ node("GetDiag") \in X
  BY <1>0, KindForms
<1>2. /\ next \in X /\ lit \in X /\ anyIdentifier \in X /\ want("GET") \in X
      /\ want("DIAGNOSTICS") \in X /\ want(semi) \in X
      /\ set({"stacked"}) \in X /\ got({"CURRENT"}) \in X
      /\ got({"=", ":="}) \in X
  BY <1>0, <1>1, PlainForms
<1>3. /\ <<set({"stacked"}), next>> \in Seq(X) /\ <<got({"CURRENT"})>> \in Seq(X)
      /\ <<anyIdentifier, got({"=", ":="}), lit>> \in Seq(X)
  BY <1>2
<1>. DEFINE a == Separated(comma, <<anyIdentifier, got({"=", ":="}), lit>>)
            b == If({"STACKED"}, <<set({"stacked"}), next>>, <<got({"CURRENT"})>>)
<1>4. a \in Seq(Nest(X))
  BY <1>0, <1>2, <1>3, SeparatedForm
<1>5. b \in Nest(X)
  BY <1>0, <1>3, NestHolds
<1>6. /\ want("GET") \in Nest(X) /\ want("DIAGNOSTICS") \in Nest(X)
      /\ want(semi) \in Nest(X) /\ node("GetDiag") \in Nest(X)
  BY <1>1, <1>2, NestHolds
<1>. HIDE DEF a, b
<1>7. /\ <<want("GET"), b, want("DIAGNOSTICS")>> \o a \in Seq(Nest(X))
      /\ <<want("GET"), b, want("DIAGNOSTICS")>> \o a # <<>>
      /\ Head(<<want("GET"), b, want("DIAGNOSTICS")>> \o a) = want("GET")
  BY <1>4, <1>5, <1>6
<1>8. <<want(semi), node("GetDiag")>> \in Seq(Nest(X))
  BY <1>6
<1>. DEFINE c == <<want("GET"), b, want("DIAGNOSTICS")>> \o a
            d == <<want(semi), node("GetDiag")>>
<1>9. c \in Seq(Nest(X)) /\ c # <<>> /\ Head(c) = want("GET")
      /\ d \in Seq(Nest(X))
  BY <1>7, <1>8
<1>10. parseStmtGetDiag = c \o d
  BY DEF parseStmtGetDiag, a, b
<1>. HIDE DEF c, d
<1>11. c \o d \in Seq(Nest(X)) /\ c \o d # <<>> /\ Head(c \o d) = want("GET")
  BY <1>9
<1>. QED  BY <1>10, <1>11 DEF Led

LEMMA OpenForm == parseStmtOpen \in OpenBodies
<1>. DEFINE P == Plain(CompositeKinds)
<1>0. /\ {"NO", "SCROLL", "FOR", "EXECUTE", "USING", "(", semi} \subseteq Token
      /\ {"noscroll"} \in SUBSET Fields /\ {"scroll"} \in SUBSET Fields
      /\ {"dynamic"} \in SUBSET Fields /\ {} \in SUBSET Fields
      /\ "Open" \in CompositeKinds
  BY DEF Token, Reserved, Unreserved, Symbols, Fields, CompositeKinds, semi
<1>1. Plain({}) \subseteq P /\ node("Open") \in P
  BY <1>0, KindForms
<1>2. /\ <<collect({semi}), want(semi)>> \in Seq(P) /\ collect({semi}) \in P
      /\ <<collect({semi})>> \in Seq(P)
  <2>1. collect({semi}) \in P /\ want(semi) \in P
    BY <1>0, <1>1, PlainForms
  <2>. HIDE DEF P
  <2>. QED  BY <2>1
<1>. HIDE DEF P
<1>3. /\ next \in P /\ got({semi}) \in P /\ set({"noscroll"}) \in P
      /\ set({"scroll"}) \in P /\ set({"dynamic"}) \in P
      /\ collect({"USING", semi}) \in P
  BY <1>0, <1>1, PlainForms
<1>4. \A i \in P : i \in Nest(P) /\ i \in Nest(Nest(P))
      /\ i \in Nest(Nest(Nest(P)))
  BY NestHolds
<1>5. <<set({"scroll"}), next>> \in Seq(P) /\ <<set({"noscroll"}), next>> \in Seq(P)
  BY <1>3
<1>6. When({"SCROLL"}, <<set({"scroll"}), next>>) \in Nest(P)
      /\ When({"("}, <<collect({semi})>>) \in Nest(P)
  BY <1>0, <1>2, <1>5, NestHolds
<1>7. When({"USING"}, usingParams({semi})) \in Nest(Nest(P))
  BY <1>0, <1>1, UsingForm
<1>. DEFINE dyn == <<next, set({"dynamic"}), collect({"USING", semi}),
                     When({"USING"}, usingParams({semi})), got({semi})>>
            bound == <<When({"("}, <<collect({semi})>>), got({semi})>>
            sql == <<collect({semi}), want(semi)>>
<1>8. dyn \in Seq(Nest(Nest(P)))
  BY <1>3, <1>4, <1>7
<1>9. bound \in Seq(Nest(P))
  BY <1>3, <1>4, <1>6
<1>10. sql \in Seq(Nest(Nest(P)))
  BY <1>2, NestHolds
<1>11. bound \in Seq(Nest(Nest(Nest(P))))
  BY <1>9, NestHolds
<1>. HIDE DEF dyn, bound, sql
<1>12. If({"EXECUTE"}, dyn, sql) \in Nest(Nest(Nest(P)))
  BY <1>0, <1>8, <1>10, NestHolds
<1>13. <<next, If({"EXECUTE"}, dyn, sql)>> \in Seq(Nest(Nest(Nest(P))))
  BY <1>3, <1>4, <1>12
<1>14. If({"FOR"}, <<next, If({"EXECUTE"}, dyn, sql)>>, bound)
         \in Nest(Nest(Nest(Nest(P))))
  BY <1>0, <1>11, <1>13, NestHolds
<1>15. /\ If({"FOR"}, <<next, If({"EXECUTE"}, dyn, sql)>>, bound) \in Simple
       /\ node("Open") \in Simple
       /\ When({"SCROLL"}, <<set({"scroll"}), next>>) \in Simple
       /\ <<set({"noscroll"}), next>> \in Seq(Simple)
  BY <1>1, <1>5, <1>6, <1>14, NestedHolds DEF Simple, P
<1>16. /\ <<pushBack>> \in PushBacks
  <2>1. <<pushBack>> \in Seq(Simple \cup {pushBack}) /\ <<pushBack>> # <<>>
        /\ Head(<<pushBack>>) = pushBack /\ Tail(<<pushBack>>) \in Seq(Simple)
    OBVIOUS
  <2>. QED  BY <2>1 DEF PushBacks, Led
<1>17. If({"SCROLL"}, <<set({"noscroll"}), next>>, <<pushBack>>) \in ScrollTests
  BY <1>15, <1>16 DEF If, ScrollTests
<1>18. <<When({"SCROLL"}, <<set({"scroll"}), next>>)>> \in Seq(Simple)
  BY <1>15
<1>19. If({"NO"},
          <<next, If({"SCROLL"}, <<set({"noscroll"}), next>>, <<pushBack>>)>>,
          <<When({"SCROLL"}, <<set({"scroll"}), next>>)>>) \in NoTests
  BY <1>17, <1>18 DEF If, NoTests
<1>. QED  BY <1>15, <1>19 DEF parseStmtOpen, OpenBodies, dyn, bound, sql

LEMMA FetchForm ==
  ASSUME NEW X, Plain(FixedKinds) \subseteq X, NEW fields \in SUBSET Fields
  PROVE  /\ parseStmtFetch(fields) \in Seq(Nest(Nest(X)))
         /\ Led(parseStmtFetch(fields), {next})
<1>0. /\ {"NEXT", "PRIOR", "FIRST", "LAST", "ABSOLUTE", "RELATIVE", "FORWARD",
          "BACKWARD"} \subseteq Token
      /\ {"ALL", "ICONST", "FROM", "IN", "INTO", semi} \subseteq Token
      /\ "Fetch" \in FixedKinds /\ {} \in SUBSET Fields
  BY DEF Token, Reserved, Unreserved, Symbols, FixedKinds, OtherKinds, Kinds,
         Statements, semi
<1>1. Plain({}) \subseteq X /\ nodeWith("Fetch", fields) \in X
  BY <1>0, KindForms
<1>2. next \in X /\ lit \in X /\ got({"FROM", "IN"}) \in X /\ want(semi) \in X
  BY <1>0, <1>1, PlainForms
<1>3. /\ <<lit>> \in Seq(X) /\ <<lit, got({"FROM", "IN"})>> \in Seq(X)
      /\ <<next, collect({semi})>> \in Seq(X)
  BY <1>0, <1>2, RestForm
<1>4. /\ When({"ICONST"}, <<lit>>) \in Nest(X)
      /\ When({"ALL", "ICONST"}, <<lit, got({"FROM", "IN"})>>) \in Nest(X)
      /\ When({"INTO"}, <<next, collect({semi})>>) \in Nest(X)
      /\ When(LabelTokens, <<lit>>) \in Nest(X)
      /\ lit \in Nest(X) /\ got({"FROM", "IN"}) \in Nest(X)
  BY <1>0, <1>1, <1>2, <1>3, LabelForm, NestHolds
<1>5. /\ <<lit, When({"ICONST"}, <<lit>>), got({"FROM", "IN"})>> \in Seq(Nest(X))
      /\ <<When({"ALL", "ICONST"}, <<lit, got({"FROM", "IN"})>>)>>
           \in Seq(Nest(X))
  BY <1>4
<1>6. parseFetchDirection \in Nest(Nest(X))
  BY <1>0, <1>5, NestHolds DEF parseFetchDirection
<1>7. \A i \in Nest(X) : i \in Nest(Nest(X))
  BY NestHolds
<1>8. \A i \in X : i \in Nest(Nest(X))
  BY NestHolds
<1>. DEFINE a == <<next, parseFetchDirection, When(LabelTokens, <<lit>>)>>
            b == IF "isMove" \in fields THEN <<>>
                 ELSE <<When({"INTO"}, <<next, collect({semi})>>)>>
            c == <<want(semi), nodeWith("Fetch", fields)>>
<1>9. a \in Seq(Nest(Nest(X))) /\ a # <<>> /\ Head(a) = next
  BY <1>2, <1>4, <1>6, <1>7, <1>8
<1>10. b \in Seq(Nest(Nest(X)))
  BY <1>4, <1>7
<1>11. c \in Seq(Nest(Nest(X)))
  BY <1>1, <1>2, <1>8
<1>12. parseStmtFetch(fields) = a \o b \o c
  BY DEF parseStmtFetch
<1>. HIDE DEF a, b, c
<1>13. a \o b \in Seq(Nest(Nest(X))) /\ a \o b # <<>> /\ Head(a \o b) = next
  BY <1>9, <1>10
<1>. QED  BY <1>11, <1>12, <1>13 DEF Led

LEMMA CommitForms ==
  ASSUME NEW X, Plain(FixedKinds) \subseteq X
  PROVE  /\ parseStmtCommit \in Seq(Nest(Nest(X)))
         /\ Led(parseStmtCommit, {want("COMMIT")})
         /\ parseStmtRollback \in Seq(Nest(Nest(X)))
         /\ Led(parseStmtRollback, {want("ROLLBACK")})
<1>0. /\ {"COMMIT", "ROLLBACK", "AND", "NO", "CHAIN", semi} \subseteq Token
      /\ {"chain"} \in SUBSET Fields
      /\ {"Commit", "Rollback"} \subseteq FixedKinds
  BY DEF Token, Unreserved, Symbols, Fields, FixedKinds, OtherKinds, Kinds,
         Statements, semi
<1>1. Plain({}) \subseteq X /\ node("Commit") \in X /\ node("Rollback") \in X
  BY <1>0, KindForms
<1>2. /\ next \in X /\ want("CHAIN") \in X /\ set({"chain"}) \in X
      /\ want("COMMIT") \in X /\ want("ROLLBACK") \in X /\ want(semi) \in X
  BY <1>0, <1>1, PlainForms
<1>3. <<next, want("CHAIN")>> \in Seq(X)
      /\ <<want("CHAIN"), set({"chain"})>> \in Seq(X)
  BY <1>2
<1>4. If({"NO"}, <<next, want("CHAIN")>>, <<want("CHAIN"), set({"chain"})>>)
        \in Nest(X) /\ next \in Nest(X)
  BY <1>0, <1>2, <1>3, NestHolds
<1>5. <<next, If({"NO"}, <<next, want("CHAIN")>>,
                         <<want("CHAIN"), set({"chain"})>>)>> \in Seq(Nest(X))
  BY <1>4
<1>6. parseOptTransactionChain \in Nest(Nest(X))
  BY <1>0, <1>5, NestHolds DEF parseOptTransactionChain
<1>7. \A i \in X : i \in Nest(Nest(X))
  BY NestHolds
<1>8. parseStmtCommit \in Seq(Nest(Nest(X))) /\ Led(parseStmtCommit, {want("COMMIT")})
  BY <1>1, <1>2, <1>6, <1>7 DEF parseStmtCommit, Led
<1>9. /\ parseStmtRollback \in Seq(Nest(Nest(X)))
      /\ Led(parseStmtRollback, {want("ROLLBACK")})
  BY <1>1, <1>2, <1>6, <1>7 DEF parseStmtRollback, Led
<1>. QED  BY <1>8, <1>9

----------------------------------------------------------------------------
(* parse_stmts.go                                                          *)

(* The nodes of the statements that start with a word.                      *)
SQLKinds == {"Assign", "ExecSQL"}

LEMMA ExecSQLForm ==
  ASSUME NEW X, Plain(SQLKinds) \subseteq X
  PROVE  /\ finishExecSQL \in Seq(X)
         /\ parseStmtExecSQL \in Seq(X) /\ Led(parseStmtExecSQL, {lit})
<1>0. "ExecSQL" \in SQLKinds /\ {} \in SUBSET Fields
  BY DEF SQLKinds
<1>1. Plain({}) \subseteq X
  BY KindForms
<1>2. finishExecSQL \in Seq(X)
  BY <1>0, RestForm DEF finishExecSQL, node
<1>3. lit \in X
  BY <1>1, PlainForms
<1>4. parseStmtExecSQL \in Seq(X) /\ Led(parseStmtExecSQL, {lit})
  BY <1>2, <1>3 DEF parseStmtExecSQL, Led
<1>. QED  BY <1>2, <1>4

LEMMA WordStartForm ==
  ASSUME NEW X, Plain(SQLKinds) \subseteq X
  PROVE  /\ parseStmtWordStart \in Seq(Nest(Nest(X)))
         /\ Led(parseStmtWordStart, {lit})
<1>0. /\ {".", "[", "]"} \subseteq Token /\ Assignment \subseteq Token
      /\ "Assign" \in SQLKinds /\ {} \in SUBSET Fields
  BY DEF Token, Symbols, Assignment, SQLKinds
<1>1. Plain({}) \subseteq X
  BY KindForms
<1>2. /\ next \in X /\ lit \in X /\ subscript \in X /\ got({"]"}) \in X
  BY <1>0, <1>1, PlainForms
<1>3. <<next, lit>> \in Seq(X) /\ <<next, subscript, got({"]"})>> \in Seq(X)
  BY <1>2
<1>4. /\ While({"."}, <<next, lit>>) \in Nest(X)
      /\ While({"["}, <<next, subscript, got({"]"})>>) \in Nest(X)
  BY <1>0, <1>3, NestHolds
<1>5. /\ <<While({"."}, <<next, lit>>)>> \in Seq(Nest(X))
      /\ <<While({"["}, <<next, subscript, got({"]"})>>)>> \in Seq(Nest(X))
  BY <1>4
<1>6. If({"."}, <<While({"."}, <<next, lit>>)>>,
                <<While({"["}, <<next, subscript, got({"]"})>>)>>)
        \in Nest(Nest(X))
  BY <1>0, <1>5, NestHolds
<1>7. <<next, collect({semi}), want(semi), nodeWith("Assign", {})>> \in Seq(X)
      /\ finishExecSQL \in Seq(X)
  BY <1>0, RestForm, ExecSQLForm
<1>8. If(Assignment,
         <<next, collect({semi}), want(semi), nodeWith("Assign", {})>>,
         finishExecSQL) \in Nest(Nest(X))
  BY <1>0, <1>7, NestHolds
<1>9. lit \in Nest(Nest(X))
  BY <1>2, NestHolds
<1>. QED  BY <1>6, <1>8, <1>9 DEF parseStmtWordStart, node, Led

(* The functions that parse a block return no other node.                  *)
LEMMA BlockBodyForms ==
  /\ BlockBodies \subseteq Seq(Sections({"Block"}))
  /\ blockRest \o <<node("Block")>> \in Seq(Sections({"Block"}))
<1>. DEFINE S == Plain({"Block"}) \cup Loops
<1>0. semi \in Token
  BY DEF Token, Symbols, semi
<1>1. Plain({"Block"}) \subseteq S /\ Loops \subseteq S
  OBVIOUS
<1>2. Plain({}) \subseteq S /\ node("Block") \in S
  BY KindForms
<1>3. Nested(S) = Sections({"Block"})
  BY DEF Sections
<1>. HIDE DEF S
<1>4. /\ blockRest \in Seq(Nested(S)) /\ parseBlock \in Seq(Nested(S))
      /\ want(semi) \in Nested(S) /\ node("Block") \in Nested(S)
  BY <1>0, <1>1, <1>2, BlockForms, PlainForms, NestedHolds
<1>5. /\ blockRest \o <<want(semi), node("Block")>> \in Seq(Nested(S))
      /\ blockRest \o <<node("Block")>> \in Seq(Nested(S))
  BY <1>4
<1>. QED  BY <1>3, <1>4, <1>5 DEF BlockBodies, LabelledBlock

LEMMA BlockCallBodies == \A c \in BlockCalls : c.body \in BlockBodies
<1>1. \A b : call(b).body = b
  BY DEF call
<1>. QED  BY <1>1 DEF BlockCalls

(* A label and what it labels: no node but that of a block is returned.    *)
LEMMA LabelledForm ==
  ASSUME NEW X, Plain({"Block"}) \subseteq X, BlockCalls \subseteq X
  PROVE  labelled \in Seq(Nest(Nest(X)))
<1>0. /\ ">>" \in Token
      /\ {"LOOP", "WHILE", "FOR", "FOREACH"} \subseteq Token
      /\ {"DECLARE", "BEGIN"} \subseteq Token
  BY DEF Token, Reserved, Symbols
<1>1. call(LabelledBlock) \in X
  BY DEF BlockCalls, BlockBodies
<1>2. Plain({}) \subseteq X
  BY KindForms
<1>4. /\ next \in X /\ anyIdentifier \in X /\ want(">>") \in X
      /\ parseProcStmt \in X /\ syntaxError \in X
  BY <1>0, <1>2, PlainForms
<1>5. <<call(LabelledBlock)>> \in Seq(X) /\ <<syntaxError>> \in Seq(X)
  BY <1>1, <1>4
<1>6. If({"DECLARE", "BEGIN"}, <<call(LabelledBlock)>>, <<syntaxError>>)
        \in Nest(X)
  BY <1>0, <1>5, NestHolds
<1>7. <<parseProcStmt>> \in Seq(Nest(X))
  BY <1>4, NestHolds
<1>8. <<If({"DECLARE", "BEGIN"}, <<call(LabelledBlock)>>, <<syntaxError>>)>>
        \in Seq(Nest(X))
  BY <1>6
<1>9. If({"LOOP", "WHILE", "FOR", "FOREACH"}, <<parseProcStmt>>,
         <<If({"DECLARE", "BEGIN"}, <<call(LabelledBlock)>>, <<syntaxError>>)>>)
        \in Nest(Nest(X))
  BY <1>0, <1>7, <1>8, NestHolds
<1>10. \A i \in X : i \in Nest(Nest(X))
  BY NestHolds
<1>. QED  BY <1>4, <1>9, <1>10 DEF labelled, LabelledBlock

LEMMA BlockCallForm == <<call(parseBlock), want(semi)>> \in Seq(Code({"Block"}))
<1>. DEFINE X == Plain({"Block"}) \cup Loops \cup BlockCalls
<1>0. semi \in Token
  BY DEF Token, Symbols, semi
<1>1. call(parseBlock) \in X
  BY DEF BlockCalls, BlockBodies
<1>2. Plain({}) \subseteq X
  BY KindForms
<1>3. Code({"Block"}) = Nested(X)
  BY DEF Code
<1>. HIDE DEF X
<1>4. want(semi) \in X
  BY <1>0, <1>2, PlainForms
<1>5. <<call(parseBlock), want(semi)>> \in Seq(X)
  BY <1>1, <1>4
<1>. QED  BY <1>3, <1>5, NestedHolds

(* Which function parseProcStmt calls.                                     *)
LEMMA ReservedStatements ==
  /\ Statement("<<") = labelled
  /\ Statement("IF") = parseStmtIf
  /\ Statement("CASE") = parseStmtCase
  /\ Statement("LOOP") = parseStmtLoop
  /\ Statement("WHILE") = parseStmtWhile
  /\ Statement("FOR") = parseStmtFor
  /\ Statement("FOREACH") = parseStmtForEach
  /\ Statement("NULL") = parseStmtNull
  /\ \A t \in {"DECLARE", "BEGIN"} : Statement(t) = <<call(parseBlock), want(semi)>>
  /\ \A t \in WordStart : Statement(t) = parseStmtWordStart
<1>1. /\ \A t \in {"<<", "DECLARE", "BEGIN", "IF", "CASE", "LOOP", "WHILE", "FOR",
                  "FOREACH", "NULL"} : t \notin Unreserved /\ t \notin WordStart
      /\ \A t \in WordStart : t \notin Unreserved
  BY DEF Unreserved, WordStart, QuotedNames
<1>2. /\ Statement("<<") = labelled
      /\ Statement("IF") = parseStmtIf
      /\ Statement("CASE") = parseStmtCase
      /\ Statement("LOOP") = parseStmtLoop
      /\ Statement("WHILE") = parseStmtWhile
      /\ Statement("FOR") = parseStmtFor
      /\ Statement("FOREACH") = parseStmtForEach
      /\ Statement("NULL") = parseStmtNull
  BY <1>1, Zenon DEF Statement
<1>3. \A t \in {"DECLARE", "BEGIN"} : Statement(t) = <<call(parseBlock), want(semi)>>
  BY <1>1, Zenon DEF Statement
<1>4. \A t \in WordStart : Statement(t) = parseStmtWordStart
  BY <1>1, Zenon DEF Statement, WordStart, QuotedNames
<1>. QED  BY <1>2, <1>3, <1>4

LEMMA KeywordStatements ==
  /\ Statement("EXIT") = parseStmtExit({"isExit"})
  /\ Statement("CONTINUE") = parseStmtExit({})
  /\ Statement("RETURN") = parseStmtReturn
  /\ Statement("RAISE") = parseStmtRaise
  /\ Statement("ASSERT") = parseStmtAssert
  /\ Statement("EXECUTE") = parseStmtDynExecute
  /\ Statement("PERFORM") = parseStmtPerform
  /\ Statement("CALL") = parseStmtCall({"isCall"})
  /\ Statement("DO") = parseStmtCall({})
  /\ Statement("GET") = parseStmtGetDiag
  /\ Statement("OPEN") = parseStmtOpen
  /\ Statement("FETCH") = parseStmtFetch({})
  /\ Statement("MOVE") = parseStmtFetch({"isMove"})
  /\ Statement("CLOSE") = parseStmtClose
  /\ Statement("COMMIT") = parseStmtCommit
  /\ Statement("ROLLBACK") = parseStmtRollback
<1>1. \A t \in WordStart : t \notin Unreserved
  BY DEF Unreserved, WordStart, QuotedNames
<1>2. \A t \in {"EXIT", "CONTINUE", "RETURN", "RAISE", "ASSERT", "EXECUTE",
                "PERFORM", "CALL", "DO", "GET", "OPEN", "FETCH", "MOVE", "CLOSE",
                "COMMIT", "ROLLBACK"} : t \notin WordStart
  BY <1>1 DEF Unreserved
<1>. QED  BY <1>2, Zenon DEF Statement

(* The keywords with a function of their own.                              *)
Leading ==
  {"<<", "DECLARE", "BEGIN", "IF", "CASE", "LOOP", "WHILE", "FOR", "FOREACH",
   "NULL", "EXIT", "CONTINUE", "RETURN", "RAISE", "ASSERT", "EXECUTE", "PERFORM", "CALL", "DO", "GET", "OPEN", "FETCH",
   "MOVE", "CLOSE", "COMMIT", "ROLLBACK"} \cup WordStart

LEMMA OtherStatements ==
  ASSUME NEW t, t \notin Leading
  PROVE  Statement(t) = IF t \in Unreserved THEN parseStmtExecSQL
                        ELSE <<syntaxError, skip>>
<1>1. /\ "INSERT" \in Unreserved /\ "IMPORT" \in Unreserved
      /\ "MERGE" \in Unreserved
  BY DEF Unreserved
<1>a. \A u \in {"INSERT", "IMPORT", "MERGE"} : u \notin WordStart
  BY DEF WordStart, QuotedNames
<1>2. CASE t \in {"INSERT", "IMPORT", "MERGE"}
  BY <1>1, <1>2, <1>a, Zenon DEF Statement
<1>3. CASE t \in Unreserved /\ t \notin {"INSERT", "IMPORT", "MERGE"}
  BY <1>3, Zenon DEF Statement, Leading
<1>4. CASE t \notin Unreserved
  BY <1>1, <1>4, Zenon DEF Statement, Leading
<1>. QED  BY <1>2, <1>3, <1>4

LEMMA MoverForms ==
  ASSUME NEW t \in Token, t # EOF
  PROVE  want(t) \in Movers(t) /\ next \in Movers(t) /\ lit \in Movers(t)
         /\ anyIdentifier \in Movers(t)
<1>1. want(t) \in Plain({}) /\ want(t).op = "want" /\ t \in want(t).on
  BY PlainForms DEF want
<1>2. /\ next \in Plain({}) /\ next.op = "next"
      /\ lit \in Plain({}) /\ lit.op = "lit"
      /\ anyIdentifier \in Plain({}) /\ anyIdentifier.op = "anyIdentifier"
  BY PlainForms DEF next, lit, anyIdentifier
<1>. QED  BY <1>1, <1>2 DEF Movers

LEMMA ErrorForm == <<syntaxError, skip>> \in Seq(Code({"Block"}))
<1>. DEFINE X == Plain({"Block"}) \cup Loops \cup BlockCalls
<1>1. Plain({}) \subseteq X
  BY KindForms
<1>2. Code({"Block"}) = Nested(X)
  BY DEF Code
<1>. HIDE DEF X
<1>3. syntaxError \in X /\ skip \in X
  BY <1>1, PlainForms
<1>4. <<syntaxError, skip>> \in Seq(X)
  BY <1>3
<1>. QED  BY <1>2, <1>4, NestedHolds

(* What parseProcStmt does, for every token: all but a few functions begin  *)
(* by moving past it, and call nothing but their branches.                 *)
Stemmed(b, t, kinds) ==
  /\ t # EOF /\ b \in Seq(Stems(kinds))
  /\ Led(b, {want(t)}) \/ Led(b, {next}) \/ Led(b, {lit})

(* The tokens at which a statement with others in it may start, and those   *)
(* of OPEN and GET.                                                        *)
CompositeTokens ==
  {"<<", "DECLARE", "BEGIN", "IF", "CASE", "LOOP", "WHILE", "FOR", "FOREACH",
   "GET", "OPEN"}

LEMMA StatementParts ==
  ASSUME NEW t \in Token, NEW kinds, CompositeKinds \subseteq kinds,
         t \notin CompositeTokens => FixedKinds \subseteq kinds,
         t = "EXECUTE" => OtherKinds \subseteq kinds
  PROVE  \/ Stemmed(Statement(t), t, kinds)
         \/ t = "OPEN" /\ Statement(t) = parseStmtOpen
         \/ t = "<<" /\ Statement(t) = labelled
         \/ /\ t \in {"DECLARE", "BEGIN"}
            /\ Statement(t) = <<call(parseBlock), want(semi)>>
         \/ Statement(t) = <<syntaxError, skip>>
<1>. DEFINE X == Plain(kinds) \cup BranchLoops
<1>1. /\ Plain(CompositeKinds) \subseteq X /\ BranchLoops \subseteq X
      /\ t \notin CompositeTokens => Plain(FixedKinds) \subseteq X
      /\ t = "EXECUTE" => Plain(OtherKinds) \subseteq X
  BY DEF Plain
<1>0. t \notin CompositeTokens => Plain(SQLKinds) \subseteq X
  <2>1. SQLKinds \subseteq FixedKinds
    BY DEF SQLKinds, FixedKinds, OtherKinds, Kinds, Statements
  <2>2. Plain(SQLKinds) \subseteq Plain(FixedKinds)
    BY <2>1 DEF Plain
  <2>. QED  BY <1>1, <2>2
<1>2. Stems(kinds) = Nested(X)
  BY DEF Stems
<1>. HIDE DEF X
<1>3. /\ Seq(Nest(X)) \subseteq Seq(Nested(X))
      /\ Seq(Nest(Nest(X))) \subseteq Seq(Nested(X))
      /\ Seq(Nest(Nest(Nest(X)))) \subseteq Seq(Nested(X))
      /\ Seq(X) \subseteq Seq(Nested(X))
  BY NestedHolds
<1>4. ASSUME NEW b \in Seq(Nested(X)), t # EOF,
             Led(b, {want(t)}) \/ Led(b, {next}) \/ Led(b, {lit})
      PROVE  Stemmed(b, t, kinds)
  BY <1>2, <1>4 DEF Stemmed
<1>5. /\ {} \in SUBSET Fields /\ {"isExit"} \in SUBSET Fields
      /\ {"isCall"} \in SUBSET Fields /\ {"isMove"} \in SUBSET Fields
  BY DEF Fields
<1>6. CASE t = "IF"
  <2>1. /\ Statement(t) \in Seq(Nested(X))
        /\ Led(Statement(t), {want(t)}) \/ Led(Statement(t), {next})
    BY <1>1, <1>3, <1>5, <1>6, IfForm, ReservedStatements
  <2>2. t # EOF
    BY <1>6 DEF EOF
  <2>. QED  BY <2>1, <2>2, <1>4
<1>7. CASE t = "CASE"
  <2>1. /\ Statement(t) \in Seq(Nested(X))
        /\ Led(Statement(t), {want(t)}) \/ Led(Statement(t), {next})
    BY <1>1, <1>3, <1>5, <1>7, CaseForm, ReservedStatements
  <2>2. t # EOF
    BY <1>7 DEF EOF
  <2>. QED  BY <2>1, <2>2, <1>4
<1>8. CASE t \in {"LOOP", "WHILE"}
  <2>1. /\ Statement(t) \in Seq(Nested(X))
        /\ Led(Statement(t), {want(t)}) \/ Led(Statement(t), {next})
    BY <1>1, <1>3, <1>5, <1>8, LoopWhileForms, ReservedStatements
  <2>2. t # EOF
    BY <1>8 DEF EOF
  <2>. QED  BY <2>1, <2>2, <1>4
<1>9. CASE t \in {"FOR", "FOREACH"}
  <2>1. /\ Statement(t) \in Seq(Nested(X))
        /\ Led(Statement(t), {want(t)}) \/ Led(Statement(t), {next})
    BY <1>1, <1>3, <1>5, <1>9, ForForms, ReservedStatements
  <2>2. t # EOF
    BY <1>9 DEF EOF
  <2>. QED  BY <2>1, <2>2, <1>4
<1>10. CASE t = "NULL"
  <2>1. /\ Statement(t) \in Seq(Nested(X))
        /\ Led(Statement(t), {want(t)}) \/ Led(Statement(t), {next})
    BY <1>1, <1>3, <1>5, <1>10, ShortForms, ReservedStatements
       DEF CompositeTokens
  <2>2. t # EOF
    BY <1>10 DEF EOF
  <2>. QED  BY <2>1, <2>2, <1>4
<1>11. CASE t \in {"EXIT", "CONTINUE"}
  <2>1. /\ Statement(t) \in Seq(Nested(X))
        /\ Led(Statement(t), {want(t)}) \/ Led(Statement(t), {next})
    BY <1>1, <1>3, <1>5, <1>11, ExitForm, KeywordStatements
       DEF CompositeTokens
  <2>2. t # EOF
    BY <1>11 DEF EOF
  <2>. QED  BY <2>1, <2>2, <1>4
<1>12. CASE t = "RETURN"
  <2>1. /\ Statement(t) \in Seq(Nested(X))
        /\ Led(Statement(t), {want(t)}) \/ Led(Statement(t), {next})
    BY <1>1, <1>3, <1>5, <1>12, ReturnForm, KeywordStatements
       DEF CompositeTokens
  <2>2. t # EOF
    BY <1>12 DEF EOF
  <2>. QED  BY <2>1, <2>2, <1>4
<1>13. CASE t = "RAISE"
  <2>1. /\ Statement(t) \in Seq(Nested(X))
        /\ Led(Statement(t), {want(t)}) \/ Led(Statement(t), {next})
    BY <1>1, <1>3, <1>5, <1>13, RaiseForm, KeywordStatements
       DEF CompositeTokens
  <2>2. t # EOF
    BY <1>13 DEF EOF
  <2>. QED  BY <2>1, <2>2, <1>4
<1>14. CASE t = "ASSERT"
  <2>1. /\ Statement(t) \in Seq(Nested(X))
        /\ Led(Statement(t), {want(t)}) \/ Led(Statement(t), {next})
    BY <1>1, <1>3, <1>5, <1>14, AssertForm, KeywordStatements
       DEF CompositeTokens
  <2>2. t # EOF
    BY <1>14 DEF EOF
  <2>. QED  BY <2>1, <2>2, <1>4
<1>15. CASE t = "EXECUTE"
  <2>1. /\ Statement(t) \in Seq(Nested(X))
        /\ Led(Statement(t), {want(t)}) \/ Led(Statement(t), {next})
    BY <1>1, <1>3, <1>5, <1>15, DynExecuteForm, KeywordStatements
  <2>2. t # EOF
    BY <1>15 DEF EOF
  <2>. QED  BY <2>1, <2>2, <1>4
<1>16. CASE t \in {"PERFORM", "CALL", "DO", "CLOSE"}
  <2>1. /\ Statement(t) \in Seq(Nested(X))
        /\ Led(Statement(t), {want(t)}) \/ Led(Statement(t), {next})
    BY <1>1, <1>3, <1>5, <1>16, ShortForms, KeywordStatements
       DEF CompositeTokens
  <2>2. t # EOF
    BY <1>16 DEF EOF
  <2>. QED  BY <2>1, <2>2, <1>4
<1>17. CASE t = "GET"
  <2>1. /\ Statement(t) \in Seq(Nested(X))
        /\ Led(Statement(t), {want(t)}) \/ Led(Statement(t), {next})
    BY <1>1, <1>3, <1>5, <1>17, GetDiagForm, KeywordStatements
  <2>2. t # EOF
    BY <1>17 DEF EOF
  <2>. QED  BY <2>1, <2>2, <1>4
<1>18. CASE t \in {"FETCH", "MOVE"}
  <2>1. /\ Statement(t) \in Seq(Nested(X))
        /\ Led(Statement(t), {want(t)}) \/ Led(Statement(t), {next})
    BY <1>1, <1>3, <1>5, <1>18, FetchForm, KeywordStatements
       DEF CompositeTokens
  <2>2. t # EOF
    BY <1>18 DEF EOF
  <2>. QED  BY <2>1, <2>2, <1>4
<1>19. CASE t \in {"COMMIT", "ROLLBACK"}
  <2>1. /\ Statement(t) \in Seq(Nested(X))
        /\ Led(Statement(t), {want(t)}) \/ Led(Statement(t), {next})
    BY <1>1, <1>3, <1>5, <1>19, CommitForms, KeywordStatements
       DEF CompositeTokens
  <2>2. t # EOF
    BY <1>19 DEF EOF
  <2>. QED  BY <2>1, <2>2, <1>4
<1>20. CASE t = "OPEN"
  BY <1>20, KeywordStatements
<1>21. CASE t \in WordStart
  <2>1. Statement(t) \in Seq(Nested(X)) /\ Led(Statement(t), {lit})
    BY <1>0, <1>3, <1>21, WordStartForm, ReservedStatements
       DEF CompositeTokens, WordStart, QuotedNames
  <2>2. t # EOF
    BY <1>21 DEF EOF, WordStart, QuotedNames
  <2>. QED  BY <2>1, <2>2, <1>4
<1>22. CASE t = "<<" \/ t \in {"DECLARE", "BEGIN"}
  BY <1>22, ReservedStatements
<1>23. CASE t \notin Leading
  <2>1. CASE t \in Unreserved
    <3>1. Statement(t) = parseStmtExecSQL
      BY <1>23, <2>1, OtherStatements
    <3>2. Statement(t) \in Seq(Nested(X)) /\ Led(Statement(t), {lit})
      BY <1>0, <1>3, <1>23, <3>1, ExecSQLForm DEF Leading, CompositeTokens
    <3>3. t # EOF
      BY <2>1 DEF EOF, Unreserved
    <3>. QED  BY <1>4, <3>2, <3>3
  <2>2. CASE t \notin Unreserved
    BY <1>23, <2>2, OtherStatements
  <2>. QED  BY <2>1, <2>2
<1>. QED  BY <1>6, <1>7, <1>8, <1>9, <1>10, <1>11, <1>12, <1>13, <1>14,
  <1>15, <1>16, <1>17, <1>18, <1>19, <1>20, <1>21, <1>22, <1>23 DEF Leading

----------------------------------------------------------------------------
(* Taking code apart.                                                      *)

LEMMA NestedParts ==
  ASSUME NEW X, NEW i \in Nested(X)
  PROVE  i \in X \/ i \in Compound(Nested(X))
<1>1. \A Y, Z : Y \subseteq Z => Compound(Y) \subseteq Compound(Z)
  <2>1. SUFFICES ASSUME NEW Y, NEW Z, Y \subseteq Z
                 PROVE  Compound(Y) \subseteq Compound(Z)
    OBVIOUS
  <2>2. Seq(Y) \subseteq Seq(Z)
    BY <2>1
  <2>. QED  BY <2>2 DEF Compound
<1>2. \A Y : Y \subseteq Nested(X) => Compound(Y) \subseteq Compound(Nested(X))
  BY <1>1
<1>3. /\ i \in X \/ i \in Compound(X) \/ i \in Compound(Nest(X))
         \/ i \in Compound(Nest(Nest(X))) \/ i \in Compound(Nest(Nest(Nest(X))))
         \/ i \in Compound(Nest(Nest(Nest(Nest(X)))))
  BY DEF Nested, Nest
<1>. QED  BY <1>2, <1>3, NestedHolds

LEMMA NestedMonotone ==
  ASSUME NEW X, NEW Y, X \subseteq Y
  PROVE  Nested(X) \subseteq Nested(Y)
<1>1. \A A, B : A \subseteq B => Nest(A) \subseteq Nest(B)
  <2>1. SUFFICES ASSUME NEW A, NEW B, A \subseteq B
                 PROVE  Nest(A) \subseteq Nest(B)
    OBVIOUS
  <2>2. Seq(A) \subseteq Seq(B)
    BY <2>1
  <2>. QED  BY <2>1, <2>2 DEF Nest, Compound
<1>2. Nest(X) \subseteq Nest(Y)
  BY <1>1
<1>3. Nest(Nest(X)) \subseteq Nest(Nest(Y))
  BY <1>1, <1>2
<1>4. Nest(Nest(Nest(X))) \subseteq Nest(Nest(Nest(Y)))
  BY <1>1, <1>3
<1>5. Nest(Nest(Nest(Nest(X)))) \subseteq Nest(Nest(Nest(Nest(Y))))
  BY <1>1, <1>4
<1>. QED  BY <1>1, <1>5 DEF Nested

(* What parseProcStmt does has the forms that progress needs.              *)
LEMMA StemsAreCode == Seq(Stems(OtherKinds)) \subseteq Seq(Code(Kinds))
<1>1. Plain(OtherKinds) \cup BranchLoops
        \subseteq Plain(Kinds) \cup Loops \cup BlockCalls
  BY DEF Plain, OtherKinds, Loops
<1>2. Stems(OtherKinds) \subseteq Code(Kinds)
  BY <1>1, NestedMonotone DEF Stems, Code
<1>. QED  BY <1>2

LEMMA StatementForm ==
  ASSUME NEW t \in Token
  PROVE  Statement(t) \in StatementBodies(t)
<1>0. CompositeKinds \subseteq OtherKinds /\ FixedKinds \subseteq OtherKinds
  BY CompositeAreOther
<1>1. CASE Stemmed(Statement(t), t, OtherKinds)
  <2>1. Led(Statement(t), Movers(t))
    BY <1>1, MoverForms DEF Stemmed, Led
  <2>2. Statement(t) \in Seq(Code(Kinds))
    BY <1>1, StemsAreCode DEF Stemmed
  <2>. QED  BY <2>1, <2>2 DEF StatementBodies
<1>2. CASE t = "OPEN" /\ Statement(t) = parseStmtOpen
  BY <1>2, OpenForm DEF StatementBodies
<1>3. CASE t = "<<" /\ Statement(t) = labelled
  <2>1. t # EOF
    BY <1>3 DEF EOF
  <2>2. Led(labelled, {next})
    BY DEF labelled, Led
  <2>3. Led(labelled, Movers(t))
    BY <2>1, <2>2, MoverForms DEF Led
  <2>4. labelled \in Seq(Code({"Block"}))
    <3>. DEFINE X == Plain({"Block"}) \cup Loops \cup BlockCalls
    <3>1. Plain({"Block"}) \subseteq X /\ BlockCalls \subseteq X
      OBVIOUS
    <3>2. Code({"Block"}) = Nested(X)
      BY DEF Code
    <3>. HIDE DEF X
    <3>. QED  BY <3>1, <3>2, LabelledForm, NestedHolds
  <2>. QED  BY <1>3, <2>3, <2>4 DEF StatementBodies
<1>4. CASE /\ t \in {"DECLARE", "BEGIN"}
           /\ Statement(t) = <<call(parseBlock), want(semi)>>
  BY <1>4 DEF StatementBodies
<1>5. CASE Statement(t) = <<syntaxError, skip>>
  BY <1>5 DEF StatementBodies
<1>. QED  BY <1>0, <1>1, <1>2, <1>3, <1>4, <1>5, StatementParts

LEMMA CodeHolds ==
  ASSUME NEW kinds
  PROVE  /\ Plain({}) \subseteq Code(kinds)
         /\ Sections(kinds) \subseteq Code(kinds)
         /\ Seq(Plain({})) \subseteq Seq(Code(kinds))
         /\ Seq(Sections(kinds)) \subseteq Seq(Code(kinds))
<1>1. Plain({}) \subseteq Plain(kinds)
  BY DEF Plain
<1>2. Plain({}) \subseteq Code(kinds)
  BY <1>1, NestedHolds DEF Code
<1>3. Sections(kinds) \subseteq Code(kinds)
  BY NestedMonotone DEF Sections, Code
<1>. QED  BY <1>2, <1>3

LEMMA SimpleIsCode ==
  Simple \subseteq Code(Kinds) /\ Seq(Simple) \subseteq Seq(Code(Kinds))
<1>1. Plain(CompositeKinds) \subseteq Plain(Kinds) \cup Loops \cup BlockCalls
  BY CompositeAreOther DEF Plain, OtherKinds
<1>2. Simple \subseteq Code(Kinds)
  BY <1>1, NestedMonotone DEF Simple, Code
<1>. QED  BY <1>2

(* An instruction of ordinary code, by what it does.                       *)
LEMMA InstructionParts ==
  ASSUME NEW kinds, NEW i \in Code(kinds)
  PROVE  \/ i \in Plain(kinds)
         \/ i \in Loops
         \/ i \in BlockCalls
         \/ /\ i.op = "if" /\ i.then \in Seq(Code(kinds))
            /\ i.else \in Seq(Code(kinds))
         \/ i.op \in {"while", "until"} /\ i.body \in Seq(Code(kinds))
<1>. DEFINE X == Plain(kinds) \cup Loops \cup BlockCalls
<1>1. Code(kinds) = Nested(X)
  BY DEF Code
<1>. HIDE DEF X
<1>2. i \in X \/ i \in Compound(Code(kinds))
  BY <1>1, NestedParts
<1>3. CASE i \in X
  BY <1>3 DEF X
<1>4. CASE i \in Compound(Code(kinds))
  BY <1>4 DEF Compound
<1>. QED  BY <1>2, <1>3, <1>4

(* Each kind of instruction has its own operation.                         *)
LEMMA Operations ==
  /\ \A kinds : \A i \in Plain(kinds) :
       i.op \in {"want", "got", "next", "lit", "skip", "anyIdentifier",
                 "syntaxError", "parseProcStmt", "collect", "discard", "set",
                 "node"}
  /\ \A i \in AliasTests \cup NoTests \cup ScrollTests \cup LabelTests
              \cup DeclareTests : i.op = "if"
  /\ \A i \in NodeCalls \cup BlockCalls : i.op = "call"
  /\ \A i \in Loops : i.op \in {"while", "until"}
  /\ next.op = "next" /\ anyIdentifier.op = "anyIdentifier"
  /\ pushBack.op = "pushBack" /\ want("OPEN").op = "want"
<1>1. \A kinds : \A i \in Plain(kinds) :
       i.op \in {"want", "got", "next", "lit", "skip", "anyIdentifier",
                 "syntaxError", "parseProcStmt", "collect", "discard", "set",
                 "node"}
  BY DEF Plain
<1>2. /\ \A i \in AliasTests : i.op = "if"
      /\ \A i \in NoTests : i.op = "if"
      /\ \A i \in ScrollTests : i.op = "if"
  BY DEF AliasTests, NoTests, ScrollTests
<1>3. /\ \A i \in LabelTests : i.op = "if"
      /\ \A i \in DeclareTests : i.op = "if"
  BY DEF LabelTests, DeclareTests
<1>4. \A i \in NodeCalls \cup BlockCalls : i.op = "call"
  BY DEF NodeCalls, BranchCalls, BlockCalls, call
<1>5. \A i \in Loops : i.op \in {"while", "until"}
  BY DEF Loops, BranchLoops
<1>6. /\ next.op = "next" /\ anyIdentifier.op = "anyIdentifier"
      /\ pushBack.op = "pushBack" /\ want("OPEN").op = "want"
  BY DEF next, anyIdentifier, pushBack, want
<1>. QED  BY <1>1, <1>2, <1>3, <1>4, <1>5, <1>6

----------------------------------------------------------------------------
(* What each instruction leaves of code that is ready to run is ready again, *)
(* whatever the parse function and however deeply the code is nested.  There *)
(* is one lemma for each way in which an action of module Parser uses the    *)
(* running code.                                                           *)

LEMMA IfParts ==
  \A S, x, y : /\ If(S, x, y).op = "if" /\ If(S, x, y).on = S
               /\ If(S, x, y).then = x /\ If(S, x, y).else = y
  BY DEF If

(* The three bodies that look for NO, taken apart.                         *)
LEMMA BodyParts ==
  /\ \A c \in DeclBodies : \E n \in AliasTests :
       c = <<anyIdentifier, n, node("DeclVar")>>
  /\ \A c \in NamedOpen : \E n \in NoTests, x \in Simple, y \in Simple :
       c = <<anyIdentifier, n, x, y>>
  /\ \A c \in OpenBodies : \E n \in NoTests, x \in Simple, y \in Simple :
       c = <<want("OPEN"), anyIdentifier, n, x, y>>
<1>1. \A c \in DeclBodies : \E n \in AliasTests :
        c = <<anyIdentifier, n, node("DeclVar")>>
  BY DEF DeclBodies
<1>2. \A c \in NamedOpen : \E n \in NoTests, x \in Simple, y \in Simple :
        c = <<anyIdentifier, n, x, y>>
  BY DEF NamedOpen
<1>3. \A c \in OpenBodies : \E n \in NoTests, x \in Simple, y \in Simple :
        c = <<want("OPEN"), anyIdentifier, n, x, y>>
  BY DEF OpenBodies
<1>. QED  BY <1>1, <1>2, <1>3

(* A piece of code in front of another.                                    *)
LEMMA Prefixed ==
  ASSUME NEW S, NEW d \in Seq(S)
  PROVE  /\ \A i : /\ <<i>> \o d # <<>> /\ Head(<<i>> \o d) = i
                   /\ Tail(<<i>> \o d) = d
         /\ \A i, j : /\ <<i, j>> \o d # <<>> /\ Head(<<i, j>> \o d) = i
                      /\ Tail(<<i, j>> \o d) = <<j>> \o d
         /\ \A T : \A c \in Seq(T) : c # <<>> =>
              /\ c \o d # <<>> /\ Head(c \o d) = Head(c)
              /\ Tail(c \o d) = Tail(c) \o d
<1>1. ASSUME NEW T, NEW c \in Seq(T), c # <<>>
      PROVE  /\ c \o d # <<>> /\ Head(c \o d) = Head(c)
             /\ Tail(c \o d) = Tail(c) \o d
  <2>. DEFINE U == S \cup T
  <2>1. c \in Seq(U) /\ d \in Seq(U)
    OBVIOUS
  <2>2. /\ Tail(c) \in Seq(U) /\ Len(Tail(c)) = Len(c) - 1
        /\ \A k \in 1 .. Len(c) - 1 : Tail(c)[k] = c[k + 1]
    BY <1>1, <2>1
  <2>3. /\ c \o d \in Seq(U) /\ Len(c \o d) = Len(c) + Len(d) /\ c \o d # <<>>
        /\ \A k \in 1 .. Len(c) + Len(d) :
             (c \o d)[k] = IF k <= Len(c) THEN c[k] ELSE d[k - Len(c)]
    BY <1>1, <2>1
  <2>4. /\ Tail(c \o d) \in Seq(U) /\ Len(Tail(c \o d)) = Len(c) + Len(d) - 1
        /\ \A k \in 1 .. Len(c) + Len(d) - 1 : Tail(c \o d)[k] = (c \o d)[k + 1]
    BY <2>3
  <2>5. /\ Tail(c) \o d \in Seq(U) /\ Len(Tail(c) \o d) = Len(c) + Len(d) - 1
        /\ \A k \in 1 .. Len(c) + Len(d) - 1 : (Tail(c) \o d)[k] =
             IF k <= Len(c) - 1 THEN Tail(c)[k] ELSE d[k - (Len(c) - 1)]
    BY <2>1, <2>2
  <2>6. \A k \in 1 .. Len(c) + Len(d) - 1 : Tail(c \o d)[k] = (Tail(c) \o d)[k]
    BY <2>1, <2>2, <2>3, <2>4, <2>5
  <2>7. Tail(c \o d) = Tail(c) \o d
    BY <2>4, <2>5, <2>6
  <2>8. Head(c \o d) = Head(c)
    BY <1>1, <2>1, <2>3
  <2>. QED  BY <2>3, <2>7, <2>8
<1>2. ASSUME NEW i
      PROVE  <<i>> \o d # <<>> /\ Head(<<i>> \o d) = i /\ Tail(<<i>> \o d) = d
  <2>1. <<i>> \in Seq({i}) /\ <<i>> # <<>> /\ Head(<<i>>) = i
        /\ Tail(<<i>>) = <<>> /\ <<>> \o d = d
    OBVIOUS
  <2>. QED  BY <1>1, <2>1
<1>3. ASSUME NEW i, NEW j
      PROVE  /\ <<i, j>> \o d # <<>> /\ Head(<<i, j>> \o d) = i
             /\ Tail(<<i, j>> \o d) = <<j>> \o d
  <2>1. <<i, j>> \in Seq({i, j}) /\ <<i, j>> # <<>> /\ Head(<<i, j>>) = i
        /\ Tail(<<i, j>>) = <<j>>
    OBVIOUS
  <2>. QED  BY <1>1, <2>1
<1>. QED  BY <1>1, <1>2, <1>3

LEMMA SettledTail ==
  ASSUME NEW b, b # <<>>, NEW fed \in BOOLEAN, Settled(b, fed)
  PROVE  Settled(Tail(b), fed)
  BY DEF Settled

LEMMA SettledHead ==
  ASSUME NEW b, b # <<>>, NEW fed \in BOOLEAN, Settled(b, fed)
  PROVE  \E kinds \in {{"Block"}, Kinds} :
           /\ kinds = {"Block"} \/ fed
           /\ b \in Seq(Code(kinds)) /\ Head(b) \in Code(kinds)
           /\ Tail(b) \in Seq(Code(kinds))
<1>1. CASE b \in Seq(Code({"Block"}))
  BY <1>1
<1>2. CASE fed /\ b \in Seq(Code(Kinds))
  BY <1>2
<1>. QED  BY <1>1, <1>2 DEF Settled

LEMMA SettledLater ==
  ASSUME NEW b, NEW fed \in BOOLEAN, NEW fed2 \in BOOLEAN, fed => fed2,
         Settled(b, fed)
  PROVE  Settled(b, fed2)
  BY DEF Settled

(* Operations of the instructions that ready but unsettled code starts with. *)
LEMMA UnsettledHead ==
  ASSUME NEW b, NEW fed \in BOOLEAN, NEW t, NEW free \in BOOLEAN,
         NEW afterNo \in BOOLEAN, Ready(b, fed, t, free, afterNo),
         ~Settled(b, fed)
  PROVE  /\ b # <<>>
         /\ Head(b).op \in {"want", "next", "lit", "anyIdentifier", "if",
                            "call", "pushBack"}
<1>1. \A i \in Movers(t) : i.op \in {"want", "next", "lit", "anyIdentifier"}
  BY DEF Movers
<1>2. \A c \in DeclBodies \cup NamedOpen : c # <<>> /\ Head(c) = anyIdentifier
  BY BodyParts
<1>3. \A c \in OpenBodies : c # <<>> /\ Head(c) = want("OPEN")
  BY BodyParts
<1>. QED  BY <1>1, <1>2, <1>3, Operations DEF Ready, Led

----------------------------------------------------------------------------
(* After an instruction that moved past the token t.                       *)

LEMMA ReadyAfterMove ==
  ASSUME NEW b, NEW fed \in BOOLEAN, NEW t, NEW free \in BOOLEAN,
         NEW afterNo \in BOOLEAN, Ready(b, fed, t, free, afterNo),
         b # <<>>, Head(b).op \in {"want", "got", "next", "lit", "skip",
                                   "anyIdentifier"},
         Head(b).op = "want" => t \in Head(b).on,
         NEW fed2 \in BOOLEAN, fed => fed2, t # EOF => fed2,
         NEW afterNo2 \in BOOLEAN, free /\ t = "NO" => afterNo2, NEW t2
  PROVE  Ready(Tail(b), fed2, t2, TRUE, afterNo2)
<1>1. CASE Settled(b, fed)
  BY <1>1, SettledTail, SettledLater DEF Ready
<1>2. CASE Led(b, NodeCalls \cup LabelTests \cup DeclareTests)
  BY <1>2, Operations DEF Led
<1>3. CASE Led(b, Movers(t)) /\ b \in Seq(Code(Kinds))
  <2>1. t # EOF /\ Tail(b) \in Seq(Code(Kinds))
    BY <1>3 DEF Led, Movers
  <2>. QED  BY <2>1 DEF Ready, Settled
<1>4. CASE t # EOF /\ b \in DeclBodies
  <2>. DEFINE x == node("DeclVar")
  <2>1. PICK n \in AliasTests : b = <<anyIdentifier, n, x>>
    BY <1>4, BodyParts
  <2>a. "DeclVar" \in Kinds /\ Plain(Kinds) \subseteq Code(Kinds)
    BY NestedHolds DEF Code, Kinds
  <2>b. x \in Code(Kinds)
    BY <2>a, KindForms
  <2>. HIDE DEF x
  <2>2. <<x>> \in Seq(Code(Kinds))
    BY <2>b
  <2>3. Tail(b) = <<n, x>> /\ Tail(b) # <<>> /\ Head(Tail(b)) = n
        /\ Tail(Tail(b)) = <<x>>
    BY <2>1
  <2>. QED  BY <1>4, <2>2, <2>3 DEF Ready, Led
<1>5. CASE t = "OPEN" /\ b \in OpenBodies
  <2>1. PICK n \in NoTests, x \in Simple, y \in Simple :
          b = <<want("OPEN"), anyIdentifier, n, x, y>>
    BY <1>5, BodyParts
  <2>2. Tail(b) = <<anyIdentifier, n, x, y>>
    BY <2>1
  <2>3. Tail(b) \in NamedOpen
    BY <2>2 DEF NamedOpen
  <2>4. t # EOF
    BY <1>5 DEF EOF
  <2>. QED  BY <2>3, <2>4 DEF Ready
<1>6. CASE fed /\ b \in NamedOpen
  <2>1. PICK n \in NoTests, x \in Simple, y \in Simple :
          b = <<anyIdentifier, n, x, y>>
    BY <1>6, BodyParts
  <2>2. <<x, y>> \in Seq(Code(Kinds))
    BY SimpleIsCode
  <2>3. Tail(b) = <<n, x, y>> /\ Tail(b) # <<>> /\ Head(Tail(b)) = n
        /\ Tail(Tail(b)) = <<x, y>>
    BY <2>1
  <2>. QED  BY <1>6, <2>2, <2>3 DEF Ready, Led
<1>7. CASE Led(b, AliasTests \cup NoTests)
  BY <1>7, Operations DEF Led
<1>8. CASE /\ fed /\ free /\ t = "NO" /\ Led(b, {next})
           /\ Led(Tail(b), ScrollTests) /\ Tail(Tail(b)) \in Seq(Code(Kinds))
  <2>1. fed2 /\ afterNo2
    BY <1>8
  <2>. QED  BY <1>8, <2>1 DEF Ready
<1>9. CASE Led(b, ScrollTests)
  BY <1>9, Operations DEF Led
<1>10. CASE Led(b, {pushBack})
  BY <1>10, Operations DEF Led
<1>. QED  BY <1>1, <1>2, <1>3, <1>4, <1>5, <1>6, <1>7, <1>8, <1>9, <1>10
     DEF Ready

(* After an instruction that moved past nothing: only settled code has it   *)
(* next.                                                                   *)
LEMMA SettledAtStay ==
  ASSUME NEW b, NEW fed \in BOOLEAN, NEW t, NEW free \in BOOLEAN,
         NEW afterNo \in BOOLEAN, Ready(b, fed, t, free, afterNo),
         b # <<>>, \/ Head(b).op \in {"got", "syntaxError", "collect", "discard",
                                      "set", "node", "parseProcStmt", "skip"}
                   \/ Head(b).op = "want" /\ t \notin Head(b).on
  PROVE  Settled(b, fed)
<1>1. CASE Head(b).op # "want"
  BY <1>1, UnsettledHead
<1>2. CASE Head(b).op = "want" /\ t \notin Head(b).on
  <2>1. ~Led(b, Movers(t))
    BY <1>2 DEF Led, Movers
  <2>2. ~(t = "OPEN" /\ b \in OpenBodies)
    <3>1. want("OPEN").on = {"OPEN"}
      BY DEF want
    <3>. QED  BY <1>2, <3>1, BodyParts
  <2>3. b \notin DeclBodies /\ b \notin NamedOpen
    BY <1>2, BodyParts, Operations
  <2>. QED  BY <1>2, <2>1, <2>2, <2>3, Operations DEF Ready, Led
<1>. QED  BY <1>1, <1>2

----------------------------------------------------------------------------
(* After a test of the current token t.                                    *)

LEMMA ReadyAfterIf ==
  ASSUME NEW b, NEW fed \in BOOLEAN, NEW t, NEW free \in BOOLEAN,
         NEW afterNo \in BOOLEAN, Ready(b, fed, t, free, afterNo),
         b # <<>>, Head(b).op = "if",
         NEW c, c = IF t \in Head(b).on THEN Head(b).then ELSE Head(b).else
  PROVE  Ready(c \o Tail(b), fed, t, free, afterNo)
<1>1. CASE Settled(b, fed)
  <2>1. PICK kinds \in {{"Block"}, Kinds} :
          /\ kinds = {"Block"} \/ fed
          /\ b \in Seq(Code(kinds)) /\ Head(b) \in Code(kinds)
          /\ Tail(b) \in Seq(Code(kinds))
    BY <1>1, SettledHead
  <2>2. Head(b).then \in Seq(Code(kinds)) /\ Head(b).else \in Seq(Code(kinds))
    BY <2>1, InstructionParts, Operations
  <2>3. c \o Tail(b) \in Seq(Code(kinds))
    BY <2>1, <2>2
  <2>. QED  BY <2>1, <2>3 DEF Ready, Settled
<1>2. CASE /\ t # EOF /\ Led(b, NodeCalls \cup LabelTests \cup DeclareTests)
           /\ Settled(Tail(b), fed)
  <2>0. Head(b) \in LabelTests \cup DeclareTests
    BY <1>2, Operations DEF Led
  <2>1. c \in Seq(Plain({})) \/ c \in One(NodeCalls) \/ c \in One(LabelTests)
    BY <2>0 DEF LabelTests, DeclareTests
  <2>2. CASE c \in Seq(Plain({}))
    <3>1. c \o Tail(b) \in Seq(Code({"Block"})) \/
            (fed /\ c \o Tail(b) \in Seq(Code(Kinds)))
      BY <1>2, <2>2, CodeHolds DEF Settled
    <3>. QED  BY <3>1 DEF Ready, Settled
  <2>3. CASE c \in One(NodeCalls) \/ c \in One(LabelTests)
    <3>1. PICK i \in NodeCalls \cup LabelTests : c = <<i>>
      BY <2>3, OneHolds
    <3>2. \E S : Tail(b) \in Seq(S)
      BY <1>2 DEF Settled
    <3>3. /\ <<i>> \o Tail(b) # <<>> /\ Head(<<i>> \o Tail(b)) = i
          /\ Tail(<<i>> \o Tail(b)) = Tail(b)
      BY <3>2, Prefixed
    <3>. QED  BY <1>2, <3>1, <3>3 DEF Ready, Led
  <2>. QED  BY <2>1, <2>2, <2>3
<1>3. CASE Led(b, Movers(t))
  BY <1>3, UnsettledHead DEF Led, Movers
<1>4. CASE b \in DeclBodies \/ b \in OpenBodies \/ b \in NamedOpen
  BY <1>4, BodyParts, Operations
<1>5. CASE /\ fed /\ free /\ Led(b, AliasTests \cup NoTests)
           /\ Tail(b) \in Seq(Code(Kinds))
  <2>1. CASE c \in Seq(Simple)
    <3>1. c \o Tail(b) \in Seq(Code(Kinds))
      BY <1>5, <2>1, SimpleIsCode
    <3>. QED  BY <1>5, <3>1 DEF Ready, Settled
  <2>2. CASE c \in One(NoTests)
    <3>1. PICK i \in NoTests : c = <<i>>
      BY <2>2, OneHolds
    <3>2. /\ <<i>> \o Tail(b) # <<>> /\ Head(<<i>> \o Tail(b)) = i
          /\ Tail(<<i>> \o Tail(b)) = Tail(b)
      BY <1>5, Prefixed
    <3>. QED  BY <1>5, <3>1, <3>2 DEF Ready, Led
  <2>3. CASE c \in {next} \X ScrollTests /\ t = "NO"
    <3>1. PICK s \in ScrollTests : c = <<next, s>>
      BY <2>3
    <3>2. /\ <<next, s>> \o Tail(b) # <<>> /\ Head(<<next, s>> \o Tail(b)) = next
          /\ Tail(<<next, s>> \o Tail(b)) = <<s>> \o Tail(b)
      BY <1>5, Prefixed
    <3>3. /\ <<s>> \o Tail(b) # <<>> /\ Head(<<s>> \o Tail(b)) = s
          /\ Tail(<<s>> \o Tail(b)) = Tail(b)
      BY <1>5, Prefixed
    <3>. QED  BY <1>5, <2>3, <3>1, <3>2, <3>3 DEF Ready, Led
  <2>4. Head(b) \in AliasTests => c \in Seq(Simple) \/ c \in One(NoTests)
    BY DEF AliasTests
  <2>5. Head(b) \in NoTests =>
          c \in Seq(Simple) \/ (c \in {next} \X ScrollTests /\ t = "NO")
    BY DEF NoTests
  <2>. QED  BY <1>5, <2>1, <2>2, <2>3, <2>4, <2>5 DEF Led
<1>6. CASE Led(b, {next}) \/ Led(b, {pushBack})
  BY <1>6, Operations DEF Led
<1>7. CASE fed /\ afterNo /\ Led(b, ScrollTests) /\ Tail(b) \in Seq(Code(Kinds))
  <2>1. c \in Seq(Simple) \/ (c \in PushBacks /\ t # "SCROLL")
    BY <1>7 DEF Led, ScrollTests
  <2>2. CASE c \in Seq(Simple)
    <3>1. c \o Tail(b) \in Seq(Code(Kinds))
      BY <1>7, <2>2, SimpleIsCode
    <3>. QED  BY <1>7, <3>1 DEF Ready, Settled
  <2>3. CASE c \in PushBacks /\ t # "SCROLL"
    <3>1. /\ c \in Seq(Simple \cup {pushBack}) /\ c # <<>> /\ Head(c) = pushBack
          /\ Tail(c) \in Seq(Code(Kinds))
      BY <2>3, SimpleIsCode DEF PushBacks, Led
    <3>2. /\ c \o Tail(b) # <<>> /\ Head(c \o Tail(b)) = pushBack
          /\ Tail(c \o Tail(b)) = Tail(c) \o Tail(b)
      BY <1>7, <3>1, Prefixed, ZenonT(30)
    <3>3. Tail(c) \o Tail(b) \in Seq(Code(Kinds))
      BY <1>7, <3>1
    <3>. QED  BY <1>7, <2>3, <3>2, <3>3 DEF Ready, Led
  <2>. QED  BY <2>1, <2>2, <2>3
<1>. QED  BY <1>1, <1>2, <1>3, <1>4, <1>5, <1>6, <1>7 DEF Ready

LEMMA ReadyAfterLoopTest ==
  ASSUME NEW b, NEW fed \in BOOLEAN, NEW t, NEW free \in BOOLEAN,
         NEW afterNo \in BOOLEAN, Ready(b, fed, t, free, afterNo),
         b # <<>>, Head(b).op \in {"while", "until"}
  PROVE  /\ Ready(Tail(b), fed, t, free, afterNo)
         /\ (Head(b).op = "while" /\ t \in Head(b).on)
              \/ (Head(b).op = "until" /\ t \notin Head(b).on)
            => Ready(Head(b).body \o b, fed, t, free, afterNo)
<1>1. Settled(b, fed)
  BY UnsettledHead
<1>2. Ready(Tail(b), fed, t, free, afterNo)
  BY <1>1, SettledTail DEF Ready
<1>3. ASSUME \/ Head(b).op = "while" /\ t \in Head(b).on
             \/ Head(b).op = "until" /\ t \notin Head(b).on
      PROVE  Ready(Head(b).body \o b, fed, t, free, afterNo)
  <2>1. PICK kinds \in {{"Block"}, Kinds} :
          /\ kinds = {"Block"} \/ fed
          /\ b \in Seq(Code(kinds)) /\ Head(b) \in Code(kinds)
    BY <1>1, SettledHead
  <2>2. Head(b) \in Loops \/ Head(b).body \in Seq(Code(kinds))
    BY <2>1, InstructionParts, Operations
  <2>3. CASE Head(b) \in Loops
    <3>1. /\ t # EOF
          /\ \/ Head(b).body \in One(NodeCalls)
             \/ Head(b).body \in One(DeclareTests)
      BY <1>3, <2>3, LoopBodies
    <3>2. PICK i \in NodeCalls \cup DeclareTests : Head(b).body = <<i>>
      BY <3>1, OneHolds
    <3>3. /\ <<i>> \o b # <<>> /\ Head(<<i>> \o b) = i
          /\ Tail(<<i>> \o b) = b
      BY <2>1
    <3>. QED  BY <1>1, <3>1, <3>2, <3>3 DEF Ready, Led
  <2>4. CASE Head(b).body \in Seq(Code(kinds))
    <3>1. Head(b).body \o b \in Seq(Code(kinds))
      BY <2>1, <2>4
    <3>. QED  BY <2>1, <3>1 DEF Ready, Settled
  <2>. QED  BY <2>2, <2>3, <2>4
<1>. QED  BY <1>2, <1>3

----------------------------------------------------------------------------
(* After a call: the caller's code is settled, the new one's is ready       *)
(* though nothing has been moved past since it began.                      *)

LEMMA ReadyAfterCall ==
  ASSUME NEW b, NEW fed \in BOOLEAN, NEW t, NEW free \in BOOLEAN,
         NEW afterNo \in BOOLEAN, Ready(b, fed, t, free, afterNo),
         b # <<>>, Head(b).op = "call"
  PROVE  /\ Settled(Tail(b), fed)
         /\ Ready(Head(b).body, FALSE, t, free, afterNo)
<1>1. CASE Settled(b, fed)
  <2>1. PICK kinds \in {{"Block"}, Kinds} :
          b \in Seq(Code(kinds)) /\ Head(b) \in Code(kinds)
    BY <1>1, SettledHead
  <2>2. Head(b) \in BlockCalls
    BY <2>1, InstructionParts, Operations
  <2>3. Head(b).body \in Seq(Code({"Block"}))
    <3>1. Head(b).body \in BlockBodies
      BY <2>2, BlockCallBodies
    <3>. QED  BY <3>1, BlockBodyForms, CodeHolds
  <2>. QED  BY <1>1, <2>3, SettledTail DEF Ready, Settled
<1>2. CASE /\ t # EOF /\ Led(b, NodeCalls \cup LabelTests \cup DeclareTests)
           /\ Settled(Tail(b), fed)
  <2>0. Head(b) \in NodeCalls
    BY <1>2, Operations DEF Led
  <2>1. Head(b).body \in DeclBodies \/ Head(b).body \in BranchBodies
    BY <2>0, NodeCallBodies
  <2>2. CASE Head(b).body \in DeclBodies
    BY <1>2, <2>2 DEF Ready
  <2>3. CASE Head(b).body \in BranchBodies
    <3>1. next \in Movers(t)
      <4>1. next \in Plain({}) /\ next.op = "next"
        BY PlainForms, Operations
      <4>. QED  BY <1>2, <4>1 DEF Movers
    <3>2. /\ Led(Head(b).body, Movers(t)) /\ Head(b).body \in Seq(Code(Kinds))
      BY <2>3, <3>1, SimpleIsCode DEF BranchBodies, Led
    <3>. QED  BY <1>2, <3>2 DEF Ready
  <2>. QED  BY <1>2, <2>1, <2>2, <2>3
<1>3. CASE Led(b, Movers(t))
  BY <1>3 DEF Led, Movers
<1>4. CASE b \in DeclBodies \/ b \in OpenBodies \/ b \in NamedOpen
  BY <1>4, BodyParts, Operations
<1>5. CASE \/ Led(b, AliasTests \cup NoTests) \/ Led(b, ScrollTests)
           \/ Led(b, {next}) \/ Led(b, {pushBack})
  BY <1>5, Operations DEF Led
<1>6. \/ Settled(b, fed)
      \/ /\ t # EOF /\ Led(b, NodeCalls \cup LabelTests \cup DeclareTests)
         /\ Settled(Tail(b), fed)
      \/ Led(b, Movers(t))
      \/ b \in DeclBodies \/ b \in OpenBodies \/ b \in NamedOpen
      \/ Led(b, AliasTests \cup NoTests) \/ Led(b, ScrollTests)
      \/ Led(b, {next}) \/ Led(b, {pushBack})
  BY DEF Ready
<1>. QED  BY <1>1, <1>2, <1>3, <1>4, <1>5, <1>6

LEMMA ReadyAfterStatementCall ==
  ASSUME NEW t \in Token, NEW free \in BOOLEAN, NEW afterNo \in BOOLEAN
  PROVE  Ready(Statement(t), FALSE, t, free, afterNo)
<1>1. CASE Statement(t) \in Seq(Code({"Block"}))
  BY <1>1 DEF Ready, Settled
<1>2. CASE Led(Statement(t), Movers(t)) /\ Statement(t) \in Seq(Code(Kinds))
  BY <1>2 DEF Ready
<1>3. CASE t = "OPEN" /\ Statement(t) \in OpenBodies
  BY <1>3 DEF Ready
<1>4. \/ Statement(t) \in Seq(Code({"Block"}))
      \/ Led(Statement(t), Movers(t)) /\ Statement(t) \in Seq(Code(Kinds))
      \/ t = "OPEN" /\ Statement(t) \in OpenBodies
  BY StatementForm, BlockCallForm, ErrorForm DEF StatementBodies
<1>. QED  BY <1>1, <1>2, <1>3, <1>4

----------------------------------------------------------------------------
(* A pushback: at a token after a NO, other than SCROLL, in a function that *)
(* has moved past a token.                                                 *)

LEMMA ReadyAtPushBack ==
  ASSUME NEW b, NEW fed \in BOOLEAN, NEW t, NEW free \in BOOLEAN,
         NEW afterNo \in BOOLEAN, Ready(b, fed, t, free, afterNo),
         b # <<>>, Head(b).op = "pushBack"
  PROVE  afterNo /\ t # "SCROLL" /\ Settled(Tail(b), fed)
<1>1. ~Settled(b, fed)
  <2>1. SUFFICES ASSUME Settled(b, fed) PROVE FALSE
    OBVIOUS
  <2>2. PICK kinds \in {{"Block"}, Kinds} : Head(b) \in Code(kinds)
    BY <2>1, SettledHead
  <2>. QED  BY <2>2, InstructionParts, Operations
<1>2. ~Led(b, Movers(t))
  BY DEF Led, Movers
<1>3. b \notin DeclBodies /\ b \notin OpenBodies /\ b \notin NamedOpen
  BY BodyParts, Operations
<1>4. /\ ~Led(b, NodeCalls \cup LabelTests \cup DeclareTests)
      /\ ~Led(b, AliasTests \cup NoTests) /\ ~Led(b, ScrollTests)
      /\ ~Led(b, {next})
  BY Operations DEF Led
<1>. QED  BY <1>1, <1>2, <1>3, <1>4 DEF Ready, Settled

(* A node: of a function that has moved past a token, unless it is a block. *)
LEMMA NodeAtReturn ==
  ASSUME NEW b, NEW fed \in BOOLEAN, NEW t, NEW free \in BOOLEAN,
         NEW afterNo \in BOOLEAN, Ready(b, fed, t, free, afterNo),
         b # <<>>, Head(b).op = "node"
  PROVE  Head(b).kind = "Block" \/ fed
<1>1. PICK kinds \in {{"Block"}, Kinds} :
        /\ kinds = {"Block"} \/ fed
        /\ Head(b) \in Code(kinds)
  BY SettledAtStay, SettledHead
<1>2. Head(b) \in Plain(kinds)
  BY <1>1, InstructionParts, Operations
<1>3. Head(b).kind \in kinds
  BY <1>2 DEF Plain
<1>. QED  BY <1>1, <1>3

=============================================================================
