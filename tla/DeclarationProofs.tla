-------------------------- MODULE DeclarationProofs --------------------------
(***************************************************************************)
(* Proof that the fields of every declaration say what its text says, for   *)
(* every family of texts and bound.  parseDeclStatement calls no function,  *)
(* so it is followed instruction by instruction: FieldsRead keeps, of the   *)
(* declaration that is being parsed, how far its options have been looked   *)
(* for and at which token, and that no other code returns a declaration or  *)
(* calls parseDeclStatement.  All of it is about texts without an error so  *)
(* far: after one, a declaration may start at a token that was pushed back. *)
(***************************************************************************)
EXTENDS ProgressProofs, ParserFields

----------------------------------------------------------------------------
(* The code of parseDeclSection and of all that is not a declaration.      *)

declares == When({"DECLARE"}, <<next, parseDeclSection>>)

(* Code that returns no declaration and calls parseDeclStatement nowhere   *)
(* but in the declaration section of a block.                              *)
Parts ==
  Plain(OtherKinds) \cup {pushBack, declares} \cup BranchCalls \cup BlockCalls
Tame == Nested(Nested(Parts))

(* A turn of the loop of parseDeclSection.                                 *)
mislabelled == <<syntaxError, next, anyIdentifier, got({">>"})>>
labelTest == If({"<<"}, mislabelled, <<call(parseDeclStatement)>>)
declareTest == If({"DECLARE"}, <<next>>, <<labelTest>>)

(* The code b is in a declaration section and s comes after it.  Whenever a *)
(* declaration may begin no token is pushed back (free).                   *)
HeadingTo(free, b, s) ==
  \/ b = <<next, parseDeclSection>> \o s
  \/ free /\ b = <<parseDeclSection>> \o s
  \/ free /\ b = <<declareTest, parseDeclSection>> \o s
  \/ free /\ b = <<labelTest, parseDeclSection>> \o s
  \/ free /\ b = <<call(parseDeclStatement), parseDeclSection>> \o s
  \/ b = mislabelled \o (<<parseDeclSection>> \o s)

Heading(free, b) == \E s \in Seq(Tame) : HeadingTo(free, b, s)
Declaring(b) == \E s \in Seq(Tame) : b = <<parseDeclSection>> \o s

----------------------------------------------------------------------------
(* The code of parseDeclStatement, from the outside in.                    *)

declared == node("DeclVar")

typeRest ==
  <<When({"CONSTANT"}, <<set({"constant"}), next>>), readDataType,
    When({"COLLATE"}, <<next, anyIdentifier>>)>>
notNullRest == <<next, want("NULL"), set({"notnull"})>>
notNullTest == When({"NOT"}, notNullRest)
defaultTest == When({"=", ":=", "DEFAULT"}, <<next, collect({semi})>>)
lastTest == If({semi}, <<next>>, <<defaultTest, want(semi)>>)

argumentTest == When({"("}, <<next>> \o parseCursorArgs \o <<want(")")>>)
isTest == If({"IS"}, <<next>>, <<want("FOR")>>)
cursorRest(o) ==
  <<next, set({"cursor"} \cup o), argumentTest, isTest, collect({semi}),
    want(semi)>>
cursorTest(o) == If({"CURSOR"}, cursorRest(o), parseDeclVarRest)

aliasRest == <<next, want("FOR"), set({"alias"}), anyIdentifier, want(semi)>>
scrollTest ==
  If({"SCROLL"}, <<next, cursorTest({"noscroll"})>>,
                 <<pushBack>> \o parseDeclVarRest)
optionTest == If({"SCROLL"}, <<next, cursorTest({"scroll"})>>, <<cursorTest({})>>)
noTest == If({"NO"}, <<next, scrollTest>>, <<optionTest>>)
aliasTest == If({"ALIAS"}, aliasRest, <<noTest>>)

(* The fields that say which kind of declaration it is, and those followed. *)
Options == {"alias", "cursor", "scroll", "noscroll"}
Watched == Options \cup {"notnull"}

(* Code that calls nothing, returns no node and sets none of these fields.  *)
Silent ==
  {i \in Plain({}) :
     i.op # "parseProcStmt" /\ (i.op = "set" => i.fields \cap Watched = {})}
Quiet == Nested(Silent)

(* Nothing but such code comes before t in b.                              *)
EndsIn(b, t) == \E p \in Seq(Quiet) : b = p \o t

----------------------------------------------------------------------------
(* What the text says of the declaration that starts at f, once the tokens   *)
(* ts have been scanned.                                                   *)

Written(ts, f) ==
  LET t(k) == IF f + k <= Len(ts) THEN ts[f + k] ELSE EOF
  IN  IF t(1) = "ALIAS" THEN {"alias"}
      ELSE IF t(1) = "CURSOR" THEN {"cursor"}
      ELSE IF t(1) = "SCROLL" /\ t(2) = "CURSOR" THEN {"cursor", "scroll"}
      ELSE IF t(1) = "NO" /\ t(2) = "SCROLL" /\ t(3) = "CURSOR"
      THEN {"cursor", "noscroll"}
      ELSE {}

(* The tokens that Written depends on have been scanned.                   *)
Known(ts, f) ==
  /\ f < Len(ts)
  /\ ts[f + 1] \in {"SCROLL", "NO"} => f + 1 < Len(ts)
  /\ ts[f + 1] = "NO" /\ ts[f + 2] = "SCROLL" => f + 2 < Len(ts)

(* NOT NULL is written after the name, its NULL before place m.            *)
NotNullBefore(ts, f, m) ==
  \E k \in f + 1 .. m - 2 : ts[k] = "NOT" /\ ts[k + 1] = "NULL"

(* Where the test for CURSOR is, with the option o before it.              *)
AfterOption(ts, f, o) ==
  \/ o = {} /\ Len(ts) = f + 1 /\ ts[f + 1] \notin {"ALIAS", "NO", "SCROLL"}
  \/ o = {"scroll"} /\ Len(ts) = f + 2 /\ ts[f + 1] = "SCROLL"
  \/ /\ o = {"noscroll"} /\ Len(ts) = f + 3
     /\ ts[f + 1] = "NO" /\ ts[f + 2] = "SCROLL"

(* The code b while the options are looked for.                            *)
Looking(ts, b, f) ==
  \/ Len(ts) = f /\ b = parseDeclStatement
  \/ Len(ts) = f + 1 /\ b = <<aliasTest, declared>>
  \/ Len(ts) = f + 1 /\ ts[f + 1] # "ALIAS" /\ b = <<noTest, declared>>
  \/ Len(ts) = f + 1 /\ ts[f + 1] = "NO" /\ b = <<next, scrollTest, declared>>
  \/ Len(ts) = f + 2 /\ ts[f + 1] = "NO" /\ b = <<scrollTest, declared>>
  \/ /\ Len(ts) = f + 2 /\ ts[f + 1] = "NO" /\ ts[f + 2] = "SCROLL"
     /\ b = <<next, cursorTest({"noscroll"}), declared>>
  \/ /\ Len(ts) = f + 1 /\ ts[f + 1] \notin {"ALIAS", "NO"}
     /\ b = <<optionTest, declared>>
  \/ /\ Len(ts) = f + 1 /\ ts[f + 1] = "SCROLL"
     /\ b = <<next, cursorTest({"scroll"}), declared>>
  \/ \E o \in SUBSET Options :
       AfterOption(ts, f, o) /\ b = <<cursorTest(o), declared>>

(* The code b once they are found: they are about to be recorded; ...       *)
Recording(ts, b, f) ==
  /\ Known(ts, f)
  /\ \E q \in Seq(Quiet) :
       EndsIn(b, <<set(Written(ts, f))>> \o (q \o <<want(semi), declared>>))

(* ... there are none, and NOT NULL may follow; ...                         *)
Plainly(ts, free, b, f) ==
  LET n == Len(ts)
  IN  /\ Known(ts, f) /\ Written(ts, f) = {}
      /\ \/ b = <<pushBack>> \o (parseDeclVarRest \o <<declared>>)
         \/ EndsIn(b, <<notNullTest, lastTest, declared>>)
         \/ ts[n] = "NOT" /\ b = notNullRest \o <<lastTest, declared>>
         \/ /\ ts[n] = "NOT" \/ (free /\ f + 1 < n /\ ts[n - 1] = "NOT")
            /\ b = <<want("NULL"), set({"notnull"}), lastTest, declared>>
         \/ /\ free /\ NotNullBefore(ts, f, n)
            /\ b = <<set({"notnull"}), lastTest, declared>>

(* ... they are recorded, and what is left is the end of the statement.     *)
Closing(ts, free, b, f, fields) ==
  LET n == Len(ts)
  IN  /\ Known(ts, f) /\ fields \cap Options = Written(ts, f)
      /\ \/ /\ \/ EndsIn(b, <<lastTest, declared>>)
               \/ EndsIn(b, <<want(semi), declared>>)
               \/ ts[n] # EOF /\ b = <<next, declared>>
            /\ "notnull" \in fields => free /\ NotNullBefore(ts, f, n)
         \/ /\ free /\ b = <<declared>>
            /\ "notnull" \in fields => NotNullBefore(ts, f, n - 1)

(* The code b of an activation of parseDeclStatement that started at f and *)
(* has set the given fields.                                               *)
DeclAt(ts, free, b, f, fields) ==
  \/ fields \cap Watched = {} /\ \/ free /\ Looking(ts, b, f)
                                 \/ Recording(ts, b, f)
                                 \/ Plainly(ts, free, b, f)
  \/ Closing(ts, free, b, f, fields)

----------------------------------------------------------------------------

Calm(m) == \A k \in 1 .. m : code[k] \in Seq(Tame)

(* At most the last two activations are in a declaration section.          *)
StackRead ==
  LET n == Len(acts)
  IN  \/ Calm(n)
      \/ n > 0 /\ Calm(n - 1) /\ Heading(~pushed, code[n])
      \/ /\ n > 1 /\ Calm(n - 2) /\ Declaring(code[n - 1])
         /\ DeclAt(toks, ~pushed, code[n], acts[n].at, acts[n].fields)

(* The declaration n says what its text says.                              *)
ReadRight(n) ==
  /\ Known(toks, n.from) /\ n.to <= cur
  /\ n.fields \cap Options = Written(toks, n.from)
  /\ "notnull" \in n.fields => NotNullBefore(toks, n.from, n.to - 1)

AllRead == \A n \in NodesOf({"DeclVar"}) : ReadRight(n)

FieldsRead == first = 0 => StackRead /\ AllRead

----------------------------------------------------------------------------
(* The forms of the code.                                                  *)

LEMMA CompoundMonotone ==
  ASSUME NEW X, NEW Y, X \subseteq Y
  PROVE  Compound(X) \subseteq Compound(Y) /\ Seq(X) \subseteq Seq(Y)
<1>1. Seq(X) \subseteq Seq(Y)
  OBVIOUS
<1>. QED  BY <1>1 DEF Compound

LEMMA CompoundHolds ==
  ASSUME NEW X
  PROVE  Compound(X) \subseteq Nested(X)
  BY NestedHolds DEF Nest

LEMMA TameHolds ==
  /\ Parts \subseteq Tame /\ Nested(Parts) \subseteq Tame
  /\ Seq(Parts) \subseteq Seq(Tame) /\ Seq(Nested(Parts)) \subseteq Seq(Tame)
  /\ Plain(OtherKinds) \subseteq Parts /\ Plain({}) \subseteq Parts
  /\ Plain({"Block"}) \subseteq Parts
<1>1. Parts \subseteq Nested(Parts) /\ Nested(Parts) \subseteq Tame
  BY NestedHolds DEF Tame
<1>2. Parts \subseteq Tame
  BY <1>1
<1>3. Seq(Parts) \subseteq Seq(Tame) /\ Seq(Nested(Parts)) \subseteq Seq(Tame)
  BY <1>1, <1>2, CompoundMonotone
<1>4. "Block" \in OtherKinds
  BY DEF OtherKinds, Kinds
<1>5. Plain({}) \subseteq Plain(OtherKinds)
      /\ Plain({"Block"}) \subseteq Plain(OtherKinds)
  BY <1>4 DEF Plain
<1>. QED  BY <1>1, <1>2, <1>3, <1>5 DEF Parts

LEMMA TameParts ==
  ASSUME NEW i \in Tame
  PROVE  \/ i \in Plain(OtherKinds) \/ i = pushBack \/ i = declares
         \/ i \in BranchCalls \/ i \in BlockCalls
         \/ /\ i.op = "if" /\ i.then \in Seq(Tame) /\ i.else \in Seq(Tame)
         \/ i.op \in {"while", "until"} /\ i.body \in Seq(Tame)
<1>1. i \in Nested(Parts) \/ i \in Compound(Tame)
  BY NestedParts DEF Tame
<1>2. Compound(Nested(Parts)) \subseteq Compound(Tame)
  BY TameHolds, CompoundMonotone
<1>3. i \in Parts \/ i \in Compound(Tame)
  BY <1>1, <1>2, NestedParts
<1>4. i \in Compound(Tame) =>
        \/ /\ i.op = "if" /\ i.then \in Seq(Tame) /\ i.else \in Seq(Tame)
        \/ i.op \in {"while", "until"} /\ i.body \in Seq(Tame)
  BY DEF Compound
<1>5. i \in Parts => \/ i \in Plain(OtherKinds) \/ i = pushBack \/ i = declares
                     \/ i \in BranchCalls \/ i \in BlockCalls
  BY DEF Parts
<1>. QED  BY <1>3, <1>4, <1>5

LEMMA SimpleIsTame ==
  /\ Simple \subseteq Nested(Parts) /\ Seq(Simple) \subseteq Seq(Nested(Parts))
  /\ Simple \subseteq Tame /\ Seq(Simple) \subseteq Seq(Tame)
<1>1. Plain(CompositeKinds) \subseteq Parts
  BY CompositeAreOther DEF Plain, Parts
<1>2. Simple \subseteq Nested(Parts)
  BY <1>1, NestedMonotone DEF Simple
<1>. QED  BY <1>2, TameHolds, CompoundMonotone

LEMMA BranchesAreTame ==
  /\ BranchBodies \subseteq Seq(Tame)
  /\ BranchLoops \subseteq Nested(Parts)
<1>1. BranchBodies \subseteq Seq(Tame)
  BY SimpleIsTame DEF BranchBodies
<1>2. ASSUME NEW s \in One(BranchCalls)
      PROVE  s \in Seq(Parts)
  <2>1. s = <<s[1]>> /\ s[1] \in BranchCalls
    BY OneHolds
  <2>2. s[1] \in Parts
    BY <2>1 DEF Parts
  <2>3. <<s[1]>> \in Seq(Parts)
    BY <2>2
  <2>. QED  BY <2>1, <2>3
<1>3. BranchLoops \subseteq Compound(Parts)
  BY <1>2 DEF BranchLoops, Compound
<1>. QED  BY <1>1, <1>3, CompoundHolds

(* A block: declarations are parsed in it, and nowhere else.               *)
LEMMA BlocksAreTame == BlockBodies \subseteq Seq(Tame)
<1>. DEFINE X == Nested(Parts)
<1>0. {semi, "BEGIN", "<<", ">>"} \subseteq Token
  BY DEF Token, Reserved, Symbols, semi
<1>1. Parts \subseteq X
  BY NestedHolds
<1>2. /\ Plain({"Block"}) \subseteq X /\ Plain({}) \subseteq X
      /\ BranchLoops \subseteq X /\ declares \in X
  BY <1>1, TameHolds, BranchesAreTame DEF Parts
<1>3. Tame = Nested(X)
  BY DEF Tame
<1>. HIDE DEF X
<1>4. /\ node("Block") \in X /\ want(semi) \in X /\ want("BEGIN") \in X
      /\ next \in X /\ anyIdentifier \in X /\ want(">>") \in X
  BY <1>0, <1>2, PlainForms, KindForms
<1>5. PICK rest \in Seq(Nest(X)) :
        blockRest = <<declares, want("BEGIN")>> \o rest
  BY <1>2, BlockRestParts DEF declares
<1>6. blockRest \in Seq(Nest(X))
  <2>1. declares \in Nest(X) /\ want("BEGIN") \in Nest(X)
    BY <1>2, <1>4, NestHolds
  <2>2. <<declares, want("BEGIN")>> \in Seq(Nest(X))
    BY <2>1
  <2>. HIDE DEF declares
  <2>. QED  BY <1>5, <2>2
<1>7. When({"<<"}, <<next, anyIdentifier, want(">>")>>) \in Nest(X)
  <2>1. <<next, anyIdentifier, want(">>")>> \in Seq(X)
    BY <1>4
  <2>. QED  BY <1>0, <2>1, NestHolds
<1>8. node("Block") \in Nest(X) /\ want(semi) \in Nest(X)
  BY <1>4, NestHolds
<1>9. parseBlock \in Seq(Nest(X)) /\ LabelledBlock \in Seq(Nest(X))
  <2>1. parseBlock \in Seq(Nest(X))
    BY <1>6, <1>7, <1>8 DEF parseBlock
  <2>2. LabelledBlock \in Seq(Nest(X))
    BY <1>6, <1>8 DEF LabelledBlock
  <2>. QED  BY <2>1, <2>2
<1>. QED  BY <1>3, <1>9, NestedHolds DEF BlockBodies

(* What a statement does.                                                  *)
LEMMA OpenIsTame == OpenBodies \subseteq Seq(Tame)
<1>. DEFINE X == Nested(Parts)
<1>1. Tame = Nested(X)
  BY DEF Tame
<1>2. pushBack \in X
  BY NestedHolds DEF Parts
<1>3. Simple \subseteq X
  BY SimpleIsTame
<1>4. "OPEN" \in Token /\ {"SCROLL"} \in SUBSET Token /\ {"NO"} \in SUBSET Token
  BY DEF Token, Unreserved
<1>5. want("OPEN") \in X /\ next \in X /\ anyIdentifier \in X
  <2>1. Plain({}) \subseteq X
    BY TameHolds, NestedHolds
  <2>. HIDE DEF X
  <2>. QED  BY <1>4, <2>1, PlainForms
<1>. HIDE DEF X
<1>6. PushBacks \subseteq Seq(X)
  BY <1>2, <1>3 DEF PushBacks
<1>7. ScrollTests \subseteq Nest(X)
  BY <1>3, <1>4, <1>6 DEF ScrollTests, Nest, Compound
<1>8. ASSUME NEW b \in {next} \X ScrollTests
      PROVE  b \in Seq(Nest(X))
  <2>1. next \in Nest(X)
    BY <1>5, NestHolds
  <2>2. \A i \in ScrollTests : <<next, i>> \in Seq(Nest(X))
    BY <1>7, <2>1
  <2>3. PICK i \in ScrollTests : b = <<next, i>>
    BY <1>8
  <2>. QED  BY <2>2, <2>3
<1>9. Seq(Simple) \subseteq Seq(Nest(X))
  BY <1>3, NestHolds
<1>10. NoTests \subseteq Nest(Nest(X))
  BY <1>4, <1>8, <1>9 DEF NoTests, Nest, Compound
<1>11. /\ want("OPEN") \in Nest(Nest(X)) /\ anyIdentifier \in Nest(Nest(X))
       /\ Simple \subseteq Nest(Nest(X))
  BY <1>3, <1>5, NestHolds
<1>12. ASSUME NEW b \in OpenBodies
       PROVE  b \in Seq(Nest(Nest(X)))
  <2>1. PICK n \in NoTests, x \in Simple, y \in Simple :
          b = <<want("OPEN"), anyIdentifier, n, x, y>>
    BY BodyParts
  <2>2. /\ n \in Nest(Nest(X)) /\ x \in Nest(Nest(X)) /\ y \in Nest(Nest(X))
        /\ want("OPEN") \in Nest(Nest(X)) /\ anyIdentifier \in Nest(Nest(X))
    BY <1>10, <1>11
  <2>3. <<want("OPEN"), anyIdentifier, n, x, y>> \in Seq(Nest(Nest(X)))
    BY <2>2
  <2>. QED  BY <2>1, <2>3
<1>. QED  BY <1>1, <1>12, NestedHolds

LEMMA StatementsAreTame ==
  ASSUME NEW t \in Token
  PROVE  Statement(t) \in Seq(Tame)
<1>0. semi \in Token
  BY DEF Token, Symbols, semi
<1>1. CASE Stemmed(Statement(t), t, OtherKinds)
  <2>1. Plain(OtherKinds) \cup BranchLoops \subseteq Nested(Parts)
    BY TameHolds, BranchesAreTame, NestedHolds
  <2>2. Stems(OtherKinds) \subseteq Tame
    BY <2>1, NestedMonotone DEF Stems, Tame
  <2>. QED  BY <1>1, <2>2, CompoundMonotone DEF Stemmed
<1>2. CASE Statement(t) = parseStmtOpen
  BY <1>2, OpenForm, OpenIsTame
<1>3. CASE Statement(t) = labelled
  <2>1. BlockCalls \subseteq Parts
    BY DEF Parts
  <2>2. labelled \in Seq(Nested(Parts))
    BY <2>1, TameHolds, LabelledForm, NestedHolds
  <2>. QED  BY <1>3, <2>2, TameHolds
<1>4. CASE Statement(t) = <<call(parseBlock), want(semi)>>
  <2>1. call(parseBlock) \in Parts
    BY DEF Parts, BlockCalls, BlockBodies
  <2>2. want(semi) \in Parts
    BY <1>0, TameHolds, PlainForms
  <2>3. <<call(parseBlock), want(semi)>> \in Seq(Parts)
    BY <2>1, <2>2
  <2>. QED  BY <1>4, <2>3, TameHolds
<1>5. CASE Statement(t) = <<syntaxError, skip>>
  <2>1. syntaxError \in Parts /\ skip \in Parts
    BY TameHolds, PlainForms
  <2>2. <<syntaxError, skip>> \in Seq(Parts)
    BY <2>1
  <2>. QED  BY <1>5, <2>2, TameHolds
<1>. QED  BY <1>1, <1>2, <1>3, <1>4, <1>5, CompositeAreOther, StatementParts

----------------------------------------------------------------------------
(* The parse functions of declarations, by the names given to their parts.  *)

LEMMA PairForm ==
  /\ \A i, j : <<i>> \o <<j>> = <<i, j>>
  /\ \A S, i, j : \A s \in Seq(S) : <<i>> \o (<<j>> \o s) = <<i, j>> \o s
<1>1. ASSUME NEW i, NEW j
      PROVE  <<i>> \o <<j>> = <<i, j>>
  <2>. DEFINE s == <<i>> \o <<j>>
              t == <<i, j>>
  <2>1. <<i>> \in Seq({i, j}) /\ <<j>> \in Seq({i, j})
    OBVIOUS
  <2>2. s \in Seq({i, j}) /\ Len(s) = 2 /\ s[1] = i /\ s[2] = j
    BY <2>1, ConcatProperties
  <2>3. t \in Seq({i, j}) /\ Len(t) = 2 /\ t[1] = i /\ t[2] = j
    OBVIOUS
  <2>. HIDE DEF s, t
  <2>4. \A k \in 1 .. Len(s) : s[k] = t[k]
    BY <2>2, <2>3
  <2>5. s = t
    BY <2>2, <2>3, <2>4, SeqEqual
  <2>. QED  BY <2>5 DEF s, t
<1>2. ASSUME NEW S, NEW i, NEW j, NEW s \in Seq(S)
      PROVE  <<i>> \o (<<j>> \o s) = <<i, j>> \o s
  <2>. DEFINE U == S \cup {i, j}
  <2>1. <<i>> \in Seq(U) /\ <<j>> \in Seq(U) /\ s \in Seq(U)
    OBVIOUS
  <2>2. <<i>> \o (<<j>> \o s) = (<<i>> \o <<j>>) \o s
    BY <2>1, ConcatAssociative
  <2>. QED  BY <1>1, <2>2
<1>. QED  BY <1>1, <1>2

LEMMA DeclarationCode ==
  /\ parseDeclStatement = <<anyIdentifier, aliasTest, declared>>
  /\ parseDeclVarRest = typeRest \o <<notNullTest, lastTest>>
  /\ parseDeclSection = Until({"BEGIN", EOF}, <<declareTest>>)
<1>1. parseDeclVarRest = typeRest \o <<notNullTest, lastTest>>
  BY DEF parseDeclVarRest, typeRest, notNullTest, notNullRest, lastTest,
         defaultTest
<1>2. \A o : cursorOrVar(o) = <<cursorTest(o)>>
  BY DEF cursorOrVar, cursorTest, cursorRest, argumentTest, isTest
<1>3. \A o : <<next>> \o cursorOrVar(o) = <<next, cursorTest(o)>>
  BY <1>2, PairForm, Zenon
<1>4. parseDeclStatement = <<anyIdentifier, aliasTest, declared>>
  BY <1>2, <1>3, Zenon DEF parseDeclStatement, aliasTest, aliasRest, noTest,
                          optionTest, scrollTest, declared
<1>5. parseDeclSection = Until({"BEGIN", EOF}, <<declareTest>>)
  BY DEF parseDeclSection, declareTest, labelTest, mislabelled
<1>. QED  BY <1>1, <1>4, <1>5

LEMMA SilentForms ==
  /\ \A t \in Token : want(t) \in Silent
  /\ \A S : S \subseteq Token => got(S) \in Silent /\ collect(S) \in Silent
  /\ next \in Silent /\ anyIdentifier \in Silent
  /\ set({"constant"}) \in Silent
<1>1. /\ \A t \in Token : want(t) \in Plain({})
      /\ \A S : S \subseteq Token => got(S) \in Plain({}) /\ collect(S) \in Plain({})
      /\ next \in Plain({}) /\ anyIdentifier \in Plain({})
      /\ set({"constant"}) \in Plain({})
  BY PlainForms DEF Fields
<1>2. \A t : want(t).op = "want"
  BY DEF want
<1>3. \A S : got(S).op = "got" /\ collect(S).op = "collect"
  BY DEF got, collect
<1>4. next.op = "next" /\ anyIdentifier.op = "anyIdentifier"
  BY DEF next, anyIdentifier
<1>5. /\ set({"constant"}).op = "set"
      /\ set({"constant"}).fields \cap Watched = {}
  BY DEF set, Watched, Options
<1>. QED  BY <1>1, <1>2, <1>3, <1>4, <1>5 DEF Silent

LEMMA QuietForms ==
  /\ typeRest \in Seq(Quiet) /\ <<defaultTest>> \in Seq(Quiet)
  /\ <<argumentTest, isTest, collect({semi})>> \in Seq(Quiet)
  /\ <<next, want("FOR")>> \in Seq(Quiet) /\ <<anyIdentifier>> \in Seq(Quiet)
  /\ <<next>> \in Seq(Quiet) /\ <<>> \in Seq(Quiet)
<1>0. /\ {semi, comma, ":=", "=", "COLLATE", "NOT", "DEFAULT", ")", "(",
          "CONSTANT", "FOR", "IS"} \subseteq Token
  BY DEF Token, Reserved, Unreserved, Symbols, semi, comma
<1>1. /\ next \in Silent /\ anyIdentifier \in Silent /\ readDataType \in Silent
      /\ set({"constant"}) \in Silent /\ collect({semi}) \in Silent
      /\ want("FOR") \in Silent /\ want(")") \in Silent
      /\ readDataTypeUntilCommaOrParen \in Silent
  BY <1>0, SilentForms DEF readDataType, readDataTypeUntilCommaOrParen
<1>2. /\ <<set({"constant"}), next>> \in Seq(Silent)
      /\ <<next, anyIdentifier>> \in Seq(Silent)
      /\ <<next, collect({semi})>> \in Seq(Silent)
      /\ <<next>> \in Seq(Silent) /\ <<want("FOR")>> \in Seq(Silent)
      /\ <<anyIdentifier, readDataTypeUntilCommaOrParen>> \in Seq(Silent)
      /\ <<want(")")>> \in Seq(Silent)
  BY <1>1
<1>3. /\ When({"CONSTANT"}, <<set({"constant"}), next>>) \in Nest(Silent)
      /\ When({"COLLATE"}, <<next, anyIdentifier>>) \in Nest(Silent)
      /\ defaultTest \in Nest(Silent) /\ isTest \in Nest(Silent)
  BY <1>0, <1>2, NestHolds DEF defaultTest, isTest
<1>4. parseCursorArgs \in Seq(Nest(Silent))
  BY <1>0, <1>1, <1>2, SeparatedForm DEF parseCursorArgs
<1>5. argumentTest \in Nest(Nest(Silent))
  <2>1. <<next>> \in Seq(Nest(Silent)) /\ <<want(")")>> \in Seq(Nest(Silent))
    BY <1>2, NestHolds
  <2>2. <<next>> \o parseCursorArgs \o <<want(")")>> \in Seq(Nest(Silent))
    BY <1>4, <2>1
  <2>. QED  BY <1>0, <2>2, NestHolds DEF argumentTest
<1>6. /\ Silent \subseteq Quiet /\ Nest(Silent) \subseteq Quiet
      /\ Nest(Nest(Silent)) \subseteq Quiet
  BY NestedHolds DEF Quiet
<1>7. /\ When({"CONSTANT"}, <<set({"constant"}), next>>) \in Quiet
      /\ When({"COLLATE"}, <<next, anyIdentifier>>) \in Quiet
      /\ defaultTest \in Quiet /\ isTest \in Quiet /\ argumentTest \in Quiet
      /\ readDataType \in Quiet /\ collect({semi}) \in Quiet
      /\ next \in Quiet /\ anyIdentifier \in Quiet /\ want("FOR") \in Quiet
  BY <1>1, <1>3, <1>5, <1>6
<1>. HIDE DEF Quiet
<1>8. typeRest \in Seq(Quiet)
  BY <1>7 DEF typeRest
<1>9. /\ <<defaultTest>> \in Seq(Quiet) /\ <<next>> \in Seq(Quiet)
      /\ <<argumentTest, isTest, collect({semi})>> \in Seq(Quiet)
      /\ <<next, want("FOR")>> \in Seq(Quiet) /\ <<anyIdentifier>> \in Seq(Quiet)
  BY <1>7
<1>. QED  BY <1>8, <1>9

(* An instruction of such code.                                            *)
LEMMA QuietParts ==
  ASSUME NEW i \in Quiet
  PROVE  \/ i.op \in {"want", "got", "next", "lit", "skip", "anyIdentifier",
                      "syntaxError", "collect", "discard"}
         \/ i.op = "set" /\ i.fields \cap Watched = {}
         \/ i.op = "if" /\ i.then \in Seq(Quiet) /\ i.else \in Seq(Quiet)
         \/ i.op \in {"while", "until"} /\ i.body \in Seq(Quiet)
<1>1. i \in Silent \/ i \in Compound(Quiet)
  BY NestedParts DEF Quiet
<1>2. CASE i \in Silent
  <2>1. i.op # "node"
    BY <1>2 DEF Silent, Plain
  <2>. QED  BY <1>2, <2>1, Operations DEF Silent
<1>3. CASE i \in Compound(Quiet)
  BY <1>3 DEF Compound
<1>. QED  BY <1>1, <1>2, <1>3

----------------------------------------------------------------------------
(* What an instruction that calls no function and returns no node does to   *)
(* the code b, the scanned tokens ts and the pushback: it leaves b2, ts2 and *)
(* free2, and sets fields.  There is no such turn if it reports an error.   *)

Passes(ts, free, ts2, free2) ==
  /\ free2
  /\ IF ~free \/ ts[Len(ts)] = EOF THEN ts2 = ts
     ELSE Len(ts2) = Len(ts) + 1 /\ \A i \in 1 .. Len(ts) : ts2[i] = ts[i]

Waits(ts, free, ts2, free2) == free2 = free /\ ts2 = ts

Turn(b, ts, free, b2, ts2, free2, fields) ==
  LET i == Head(b)
      t == ts[Len(ts)]
  IN  \/ /\ i.op \in {"want", "got", "next", "lit", "skip", "anyIdentifier"}
         /\ Passes(ts, free, ts2, free2) /\ b2 = Tail(b) /\ fields = {}
         /\ i.op \in {"want", "got"} => t \in i.on
         /\ i.op = "anyIdentifier" => t \in Identifiers
      \/ /\ i.op = "got"
         /\ Waits(ts, free, ts2, free2) /\ b2 = Tail(b) /\ fields = {}
      \/ /\ i.op \in {"collect", "discard"} /\ fields = {}
         /\ \/ Waits(ts, free, ts2, free2) /\ b2 = Tail(b)
            \/ Passes(ts, free, ts2, free2) /\ b2 = b
      \/ /\ i.op = "if" /\ Waits(ts, free, ts2, free2) /\ fields = {}
         /\ b2 = (IF t \in i.on THEN i.then ELSE i.else) \o Tail(b)
      \/ /\ i.op = "while" /\ Waits(ts, free, ts2, free2) /\ fields = {}
         /\ b2 = IF t \in i.on THEN i.body \o b ELSE Tail(b)
      \/ /\ i.op = "until" /\ Waits(ts, free, ts2, free2) /\ fields = {}
         /\ b2 = IF t \in i.on THEN Tail(b) ELSE i.body \o b
      \/ /\ i.op = "pushBack" /\ ts2 = ts /\ ~free2
         /\ b2 = Tail(b) /\ fields = {}
      \/ /\ i.op = "set" /\ Waits(ts, free, ts2, free2)
         /\ b2 = Tail(b) /\ fields = i.fields

LEMMA MoveTurn ==
  ASSUME NEW b, NEW ts, NEW ts2, NEW free, NEW free2, NEW b2, NEW fields,
         Turn(b, ts, free, b2, ts2, free2, fields),
         Head(b).op \in {"want", "next", "anyIdentifier"}
  PROVE  /\ Passes(ts, free, ts2, free2) /\ b2 = Tail(b) /\ fields = {}
         /\ Head(b).op = "want" => ts[Len(ts)] \in Head(b).on
         /\ Head(b).op = "anyIdentifier" => ts[Len(ts)] \in Identifiers
         /\ free2
  BY DEF Turn, Passes

LEMMA IfTurn ==
  ASSUME NEW b, NEW ts, NEW ts2, NEW free, NEW free2, NEW b2, NEW fields,
         Turn(b, ts, free, b2, ts2, free2, fields), Head(b).op = "if"
  PROVE  /\ ts2 = ts /\ free2 = free /\ fields = {}
         /\ ts[Len(ts)] \in Head(b).on => b2 = Head(b).then \o Tail(b)
         /\ ts[Len(ts)] \notin Head(b).on => b2 = Head(b).else \o Tail(b)
  BY DEF Turn, Waits

LEMMA UntilTurn ==
  ASSUME NEW b, NEW ts, NEW ts2, NEW free, NEW free2, NEW b2, NEW fields,
         Turn(b, ts, free, b2, ts2, free2, fields), Head(b).op = "until"
  PROVE  /\ ts2 = ts /\ free2 = free /\ fields = {}
         /\ b2 = Tail(b) \/ b2 = Head(b).body \o b
  BY DEF Turn, Waits

LEMMA NoTurn ==
  ASSUME NEW b, NEW ts, NEW ts2, NEW free, NEW free2, NEW b2, NEW fields,
         Head(b).op \in {"call", "syntaxError", "node"}
  PROVE  ~Turn(b, ts, free, b2, ts2, free2, fields)
  BY DEF Turn

(* A sequence of tokens and what it becomes.                               *)
Extends(ts, ts2) ==
  Len(ts) <= Len(ts2) /\ \A i \in 1 .. Len(ts) : ts2[i] = ts[i]

LEMMA TurnExtends ==
  ASSUME NEW ts \in Seq(Token), NEW ts2, NEW free, NEW free2,
         Passes(ts, free, ts2, free2) \/ Waits(ts, free, ts2, free2)
  PROVE  Extends(ts, ts2)
  BY DEF Passes, Waits, Extends

LEMMA KnownStays ==
  ASSUME NEW ts \in Seq(Token), NEW ts2 \in Seq(Token), Extends(ts, ts2),
         NEW f \in Nat, Known(ts, f)
  PROVE  Known(ts2, f) /\ Written(ts2, f) = Written(ts, f)
<1>1. f + 1 \in 1 .. Len(ts)
  BY DEF Known
<1>2. ts2[f + 1] = ts[f + 1]
  BY <1>1 DEF Extends
<1>3. ts[f + 1] \in {"SCROLL", "NO"} =>
        f + 2 \in 1 .. Len(ts) /\ ts2[f + 2] = ts[f + 2]
  BY DEF Known, Extends
<1>4. ts[f + 1] = "NO" /\ ts[f + 2] = "SCROLL" =>
        f + 3 \in 1 .. Len(ts) /\ ts2[f + 3] = ts[f + 3]
  BY DEF Known, Extends
<1>5. Len(ts) \in Nat /\ Len(ts2) \in Nat /\ Len(ts) <= Len(ts2)
  BY DEF Extends
<1>6. Known(ts2, f)
  BY <1>1, <1>2, <1>3, <1>4, <1>5 DEF Known
<1>7. Written(ts2, f) = Written(ts, f)
  BY <1>1, <1>2, <1>3, <1>4, <1>5 DEF Written
<1>. QED  BY <1>6, <1>7

LEMMA NotNullStays ==
  ASSUME NEW ts \in Seq(Token), NEW ts2 \in Seq(Token), Extends(ts, ts2),
         NEW f \in Nat, NEW m \in Nat, m <= Len(ts) + 1, NotNullBefore(ts, f, m),
         NEW m2 \in Nat, m <= m2
  PROVE  NotNullBefore(ts2, f, m2)
  BY DEF NotNullBefore, Extends

(* In front of any code, code that is silent leaves silent code.            *)
LEMMA QuietTurn ==
  ASSUME NEW U, NEW t \in Seq(U), NEW p \in Seq(Quiet), p # <<>>,
         NEW ts \in Seq(Token), NEW ts2, NEW free, NEW free2, NEW b2,
         NEW fields, Turn(p \o t, ts, free, b2, ts2, free2, fields)
  PROVE  /\ EndsIn(b2, t) /\ fields \cap Watched = {}
         /\ Passes(ts, free, ts2, free2) \/ Waits(ts, free, ts2, free2)
<1>. DEFINE b == p \o t
            i == Head(p)
            r == Tail(p)
<1>1. b # <<>> /\ Head(b) = i /\ Tail(b) = r \o t
  BY Prefixed
<1>2. i \in Quiet /\ r \in Seq(Quiet)
  BY HeadTailProperties
<1>3. \A c \in Seq(Quiet) : EndsIn(c \o t, t)
  BY DEF EndsIn
<1>4. \A c \in Seq(Quiet), d \in Seq(Quiet) : EndsIn(c \o (d \o t), t)
  <2>1. SUFFICES ASSUME NEW c \in Seq(Quiet), NEW d \in Seq(Quiet)
                 PROVE  EndsIn(c \o (d \o t), t)
    OBVIOUS
  <2>. DEFINE V == Quiet \cup U
  <2>2. c \in Seq(V) /\ d \in Seq(V) /\ t \in Seq(V)
    OBVIOUS
  <2>. HIDE DEF V
  <2>3. c \o (d \o t) = (c \o d) \o t
    BY <2>2, ConcatAssociative, SMTT(30)
  <2>4. c \o d \in Seq(Quiet)
    OBVIOUS
  <2>. QED  BY <1>3, <2>3, <2>4
<1>. HIDE DEF b, i, r
<1>5. CASE i.op \in {"want", "got", "next", "lit", "skip", "anyIdentifier"}
  <2>1. /\ b2 = r \o t /\ fields = {}
        /\ Passes(ts, free, ts2, free2) \/ Waits(ts, free, ts2, free2)
    BY <1>1, <1>5 DEF Turn, b
  <2>. QED  BY <1>2, <1>3, <2>1
<1>6. CASE i.op \in {"collect", "discard"}
  <2>1. /\ b2 \in {r \o t, p \o t} /\ fields = {}
        /\ Passes(ts, free, ts2, free2) \/ Waits(ts, free, ts2, free2)
    BY <1>1, <1>6 DEF Turn, b
  <2>. QED  BY <1>2, <1>3, <2>1
<1>7. CASE i.op = "set" /\ i.fields \cap Watched = {}
  <2>1. b2 = r \o t /\ fields = i.fields /\ Waits(ts, free, ts2, free2)
    BY <1>1, <1>7 DEF Turn, b
  <2>. QED  BY <1>2, <1>3, <1>7, <2>1
<1>8. CASE i.op = "if" /\ i.then \in Seq(Quiet) /\ i.else \in Seq(Quiet)
  <2>1. /\ b2 \in {i.then \o (r \o t), i.else \o (r \o t)} /\ fields = {}
        /\ Waits(ts, free, ts2, free2)
    BY <1>1, <1>8 DEF Turn, b
  <2>. QED  BY <1>2, <1>4, <1>8, <2>1
<1>9. CASE i.op \in {"while", "until"} /\ i.body \in Seq(Quiet)
  <2>1. /\ b2 \in {i.body \o (p \o t), r \o t} /\ fields = {}
        /\ Waits(ts, free, ts2, free2)
    BY <1>1, <1>9 DEF Turn, b
  <2>. QED  BY <1>2, <1>3, <1>4, <1>9, <2>1
<1>10. i.op # "syntaxError"
  BY <1>1 DEF Turn, b
<1>. QED  BY <1>2, <1>5, <1>6, <1>7, <1>8, <1>9, <1>10, QuietParts

(* Code outside declaration sections: it may enter one.                    *)
LEMMA TameTurn ==
  ASSUME NEW b \in Seq(Tame), b # <<>>, NEW ts, NEW ts2, NEW free, NEW free2,
         NEW b2, NEW fields, Turn(b, ts, free, b2, ts2, free2, fields)
  PROVE  b2 \in Seq(Tame) \/ Heading(free2, b2)
<1>. DEFINE i == Head(b)
            r == Tail(b)
<1>1. i \in Tame /\ r \in Seq(Tame)
  BY HeadTailProperties
<1>2. <<>> \o r = r
  BY <1>1
<1>. HIDE DEF i, r
<1>3. CASE i = declares
  <2>1. i.op = "if" /\ i.then = <<next, parseDeclSection>> /\ i.else = <<>>
    BY <1>3, IfParts DEF declares, When
  <2>2. b2 = <<next, parseDeclSection>> \o r \/ b2 = r
    BY <1>2, <2>1 DEF Turn, i, r
  <2>. QED  BY <1>1, <2>2 DEF Heading, HeadingTo
<1>4. CASE i.op = "if" /\ i.then \in Seq(Tame) /\ i.else \in Seq(Tame)
  <2>1. b2 = i.then \o r \/ b2 = i.else \o r
    BY <1>4, IfTurn, ZenonT(30) DEF i, r
  <2>2. i.then \o r \in Seq(Tame) /\ i.else \o r \in Seq(Tame)
    BY <1>1, <1>4
  <2>. QED  BY <2>1, <2>2
<1>5. CASE i.op \in {"while", "until"} /\ i.body \in Seq(Tame)
  <2>1. b2 = i.body \o b \/ b2 = r
    BY <1>5 DEF Turn, i, r
  <2>2. i.body \o b \in Seq(Tame)
    BY <1>5
  <2>. QED  BY <1>1, <2>1, <2>2
<1>6. CASE i.op \notin {"if", "while", "until"}
  <2>1. b2 \in {r, b}
    BY <1>6 DEF Turn, i, r
  <2>. QED  BY <1>1, <2>1
<1>7. i \in Plain(OtherKinds) \/ i = pushBack \/ i \in BranchCalls \cup BlockCalls
        => i.op \notin {"if", "while", "until"}
  BY Operations DEF NodeCalls
<1>. QED  BY <1>1, <1>3, <1>4, <1>5, <1>6, <1>7, TameParts

(* The declaration section, up to the call of parseDeclStatement.          *)
LEMMA DeclSectionParts ==
  /\ parseDeclSection.op = "until" /\ parseDeclSection.body = <<declareTest>>
  /\ declareTest.op = "if" /\ declareTest.then = <<next>>
  /\ declareTest.else = <<labelTest>>
  /\ labelTest.op = "if" /\ labelTest.then = mislabelled
  /\ labelTest.else = <<call(parseDeclStatement)>>
<1>1. parseDeclSection.op = "until" /\ parseDeclSection.body = <<declareTest>>
  BY DeclarationCode DEF Until
<1>. QED  BY <1>1, IfParts DEF declareTest, labelTest

LEMMA HeadingTurn ==
  ASSUME NEW free \in BOOLEAN, NEW b, Heading(free, b), NEW ts, NEW ts2,
         NEW free2 \in BOOLEAN, NEW b2, NEW fields,
         Turn(b, ts, free, b2, ts2, free2, fields)
  PROVE  b2 \in Seq(Tame) \/ Heading(free2, b2)
<1>. DEFINE D == parseDeclSection
<1>1. PICK s \in Seq(Tame) : HeadingTo(free, b, s)
  BY DEF Heading
<1>2. /\ Head(<<D>> \o s) = D /\ Tail(<<D>> \o s) = s
      /\ \A i : Head(<<i, D>> \o s) = i /\ Tail(<<i, D>> \o s) = <<D>> \o s
      /\ \A i : <<i>> \o (<<D>> \o s) = <<i, D>> \o s
  BY Prefixed, PairForm
<1>. HIDE DEF D
<1>3. CASE b = <<next, D>> \o s
  <2>1. Head(b) = next /\ Tail(b) = <<D>> \o s
    BY <1>2, <1>3
  <2>2. Head(b).op = "next"
    BY <2>1 DEF next
  <2>3. free2 /\ b2 = Tail(b)
    BY <2>2, MoveTurn
  <2>. QED  BY <2>1, <2>3 DEF Heading, HeadingTo, D
<1>4. CASE free /\ b = <<D>> \o s
  <2>1. Head(b) = D /\ Tail(b) = s
    BY <1>2, <1>4
  <2>2. free2 = free /\ (b2 = s \/ b2 = <<declareTest>> \o b)
    BY <2>1, DeclSectionParts, UntilTurn DEF D
  <2>3. <<declareTest>> \o b = <<declareTest, D>> \o s
    BY <1>2, <1>4
  <2>. QED  BY <1>4, <2>2, <2>3 DEF Heading, HeadingTo, D
<1>5. CASE free /\ b = <<declareTest, D>> \o s
  <2>1. Head(b) = declareTest /\ Tail(b) = <<D>> \o s
    BY <1>2, <1>5
  <2>2. /\ free2 = free
        /\ b2 = <<next>> \o (<<D>> \o s) \/ b2 = <<labelTest>> \o (<<D>> \o s)
    <3>1. Head(b).op = "if"
      BY <2>1, DeclSectionParts
    <3>2. /\ free2 = free
          /\ b2 = Head(b).then \o Tail(b) \/ b2 = Head(b).else \o Tail(b)
      BY <3>1, IfTurn
    <3>. QED  BY <2>1, <3>2, DeclSectionParts
  <2>3. b2 = <<next, D>> \o s \/ b2 = <<labelTest, D>> \o s
    BY <1>2, <2>2
  <2>. QED  BY <1>5, <2>2, <2>3 DEF Heading, HeadingTo, D
<1>6. CASE free /\ b = <<labelTest, D>> \o s
  <2>1. Head(b) = labelTest /\ Tail(b) = <<D>> \o s
    BY <1>2, <1>6
  <2>2. /\ free2 = free
        /\ \/ b2 = mislabelled \o (<<D>> \o s)
           \/ b2 = <<call(parseDeclStatement)>> \o (<<D>> \o s)
    <3>1. Head(b).op = "if"
      BY <2>1, DeclSectionParts
    <3>2. /\ free2 = free
          /\ b2 = Head(b).then \o Tail(b) \/ b2 = Head(b).else \o Tail(b)
      BY <3>1, IfTurn
    <3>. QED  BY <2>1, <3>2, DeclSectionParts
  <2>3. \/ b2 = mislabelled \o (<<D>> \o s)
        \/ b2 = <<call(parseDeclStatement), D>> \o s
    BY <1>2, <2>2
  <2>. QED  BY <1>6, <2>2, <2>3 DEF Heading, HeadingTo, D
<1>7. CASE b = <<call(parseDeclStatement), D>> \o s
  <2>1. Head(b).op = "call"
    BY <1>2, <1>7 DEF call
  <2>. QED  BY <2>1, NoTurn
<1>8. CASE b = mislabelled \o (<<D>> \o s)
  <2>1. <<D>> \o s \in Seq(Tame \cup {D})
    OBVIOUS
  <2>2. Head(b) = syntaxError
    <3>1. /\ mislabelled # <<>> /\ Head(mislabelled) = syntaxError
          /\ mislabelled \in Seq({syntaxError, next, anyIdentifier, got({">>"})})
      BY DEF mislabelled
    <3>. QED  BY <1>8, <2>1, <3>1, Prefixed
  <2>3. syntaxError.op = "syntaxError"
    BY DEF syntaxError
  <2>. QED  BY <2>2, <2>3, NoTurn
<1>. QED  BY <1>1, <1>3, <1>4, <1>5, <1>6, <1>7, <1>8 DEF HeadingTo, D

----------------------------------------------------------------------------
(* What is left of parseDeclStatement, as its instructions take it apart.   *)

LEMMA ConcatForm ==
  ASSUME NEW S, NEW s \in Seq(S), NEW t \in Seq(S), NEW r \in Seq(S),
         Len(r) = Len(s) + Len(t), \A k \in 1 .. Len(s) : r[k] = s[k],
         \A k \in 1 .. Len(t) : r[Len(s) + k] = t[k]
  PROVE  s \o t = r
<1>. DEFINE c == s \o t
            n == Len(s)
<1>1. /\ c \in Seq(S) /\ Len(c) = n + Len(t)
      /\ \A k \in 1 .. n + Len(t) : c[k] = IF k <= n THEN s[k] ELSE t[k - n]
  BY ConcatProperties
<1>2. n \in Nat /\ Len(t) \in Nat
  OBVIOUS
<1>. HIDE DEF c
<1>3. ASSUME NEW k \in 1 .. Len(c)
      PROVE  c[k] = r[k]
  <2>1. CASE k <= n
    BY <1>1, <1>2, <2>1
  <2>2. CASE k > n
    <3>1. k - n \in 1 .. Len(t) /\ n + (k - n) = k
      BY <1>1, <1>2, <2>2
    <3>2. r[k] = t[k - n]
      BY <3>1
    <3>. QED  BY <1>1, <1>2, <2>2, <3>2
  <2>. QED  BY <1>2, <2>1, <2>2
<1>4. c = r
  BY <1>1, <1>3, SeqEqual
<1>. QED  BY <1>4 DEF c

LEMMA Tuples ==
  /\ \A a, b, c :
       <<a, b>> \o <<c>> = <<a, b, c>>
  /\ \A a, b, c :
       <<a>> \o <<b, c>> = <<a, b, c>>
  /\ \A a, b, c, d, e :
       <<a, b, c>> \o <<d, e>> = <<a, b, c, d, e>>
  /\ \A a, b, c, d :
       <<a>> \o <<b, c, d>> = <<a, b, c, d>>
  /\ \A a, b, c, d, e :
       <<a>> \o <<b, c, d, e>> = <<a, b, c, d, e>>
  /\ \A a, b, c, d, e, f :
       <<a>> \o <<b, c, d, e, f>> = <<a, b, c, d, e, f>>
  /\ \A a, b, c, d, e, f :
       <<a, b, c, d, e>> \o <<f>> = <<a, b, c, d, e, f>>
  /\ \A a, b, c, d, e, f :
       <<a, b>> \o <<c, d, e, f>> = <<a, b, c, d, e, f>>
  /\ \A a, b, c, d, e, f, g :
       <<a, b, c, d, e, f>> \o <<g>> = <<a, b, c, d, e, f, g>>
  /\ \A a, b, c, d, e, f, g :
       <<a>> \o <<b, c, d, e, f, g>> = <<a, b, c, d, e, f, g>>
<1>1. ASSUME NEW a, NEW b, NEW c
      PROVE  <<a, b>> \o <<c>> = <<a, b, c>>
  <2>. DEFINE S == {a, b, c}
              s == <<a, b>>
              t == <<c>>
              r == <<a, b, c>>
  <2>1. /\ s \in Seq(S) /\ Len(s) = 2
        /\ s[1] = a /\ s[2] = b
    OBVIOUS
  <2>2. /\ t \in Seq(S) /\ Len(t) = 1
        /\ t[1] = c
    OBVIOUS
  <2>3. /\ r \in Seq(S) /\ Len(r) = 3
        /\ r[1] = a /\ r[2] = b /\ r[3] = c
    OBVIOUS
  <2>. HIDE DEF S, s, t, r
  <2>4. \A k \in 1 .. Len(s) : r[k] = s[k]
    <3>1. ASSUME NEW k \in 1 .. Len(s)
          PROVE  r[k] = s[k]
      <4>1. k \in {1, 2}
        BY <2>1
      <4>. QED  BY <2>1, <2>2, <2>3, <4>1
    <3>. QED  BY <3>1
  <2>5. \A k \in 1 .. Len(t) : r[Len(s) + k] = t[k]
    <3>1. ASSUME NEW k \in 1 .. Len(t)
          PROVE  r[Len(s) + k] = t[k]
      <4>1. k \in {1}
        BY <2>2
      <4>. QED  BY <2>1, <2>2, <2>3, <4>1
    <3>. QED  BY <3>1
  <2>6. Len(r) = Len(s) + Len(t)
    BY <2>1, <2>2, <2>3
  <2>7. s \o t = r
    BY <2>1, <2>2, <2>3, <2>4, <2>5, <2>6, ConcatForm, Zenon
  <2>. QED  BY <2>7 DEF s, t, r
<1>2. ASSUME NEW a, NEW b, NEW c
      PROVE  <<a>> \o <<b, c>> = <<a, b, c>>
  <2>. DEFINE S == {a, b, c}
              s == <<a>>
              t == <<b, c>>
              r == <<a, b, c>>
  <2>1. /\ s \in Seq(S) /\ Len(s) = 1
        /\ s[1] = a
    OBVIOUS
  <2>2. /\ t \in Seq(S) /\ Len(t) = 2
        /\ t[1] = b /\ t[2] = c
    OBVIOUS
  <2>3. /\ r \in Seq(S) /\ Len(r) = 3
        /\ r[1] = a /\ r[2] = b /\ r[3] = c
    OBVIOUS
  <2>. HIDE DEF S, s, t, r
  <2>4. \A k \in 1 .. Len(s) : r[k] = s[k]
    <3>1. ASSUME NEW k \in 1 .. Len(s)
          PROVE  r[k] = s[k]
      <4>1. k \in {1}
        BY <2>1
      <4>. QED  BY <2>1, <2>2, <2>3, <4>1
    <3>. QED  BY <3>1
  <2>5. \A k \in 1 .. Len(t) : r[Len(s) + k] = t[k]
    <3>1. ASSUME NEW k \in 1 .. Len(t)
          PROVE  r[Len(s) + k] = t[k]
      <4>1. k \in {1, 2}
        BY <2>2
      <4>. QED  BY <2>1, <2>2, <2>3, <4>1
    <3>. QED  BY <3>1
  <2>6. Len(r) = Len(s) + Len(t)
    BY <2>1, <2>2, <2>3
  <2>7. s \o t = r
    BY <2>1, <2>2, <2>3, <2>4, <2>5, <2>6, ConcatForm, Zenon
  <2>. QED  BY <2>7 DEF s, t, r
<1>3. ASSUME NEW a, NEW b, NEW c, NEW d, NEW e
      PROVE  <<a, b, c>> \o <<d, e>> = <<a, b, c, d, e>>
  <2>. DEFINE S == {a, b, c, d, e}
              s == <<a, b, c>>
              t == <<d, e>>
              r == <<a, b, c, d, e>>
  <2>1. /\ s \in Seq(S) /\ Len(s) = 3
        /\ s[1] = a /\ s[2] = b /\ s[3] = c
    OBVIOUS
  <2>2. /\ t \in Seq(S) /\ Len(t) = 2
        /\ t[1] = d /\ t[2] = e
    OBVIOUS
  <2>3. /\ r \in Seq(S) /\ Len(r) = 5
        /\ r[1] = a /\ r[2] = b /\ r[3] = c /\ r[4] = d /\ r[5] = e
    OBVIOUS
  <2>. HIDE DEF S, s, t, r
  <2>4. \A k \in 1 .. Len(s) : r[k] = s[k]
    <3>1. ASSUME NEW k \in 1 .. Len(s)
          PROVE  r[k] = s[k]
      <4>1. k \in {1, 2, 3}
        BY <2>1
      <4>. QED  BY <2>1, <2>2, <2>3, <4>1
    <3>. QED  BY <3>1
  <2>5. \A k \in 1 .. Len(t) : r[Len(s) + k] = t[k]
    <3>1. ASSUME NEW k \in 1 .. Len(t)
          PROVE  r[Len(s) + k] = t[k]
      <4>1. k \in {1, 2}
        BY <2>2
      <4>. QED  BY <2>1, <2>2, <2>3, <4>1
    <3>. QED  BY <3>1
  <2>6. Len(r) = Len(s) + Len(t)
    BY <2>1, <2>2, <2>3
  <2>7. s \o t = r
    BY <2>1, <2>2, <2>3, <2>4, <2>5, <2>6, ConcatForm, Zenon
  <2>. QED  BY <2>7 DEF s, t, r
<1>4. ASSUME NEW a, NEW b, NEW c, NEW d
      PROVE  <<a>> \o <<b, c, d>> = <<a, b, c, d>>
  <2>. DEFINE S == {a, b, c, d}
              s == <<a>>
              t == <<b, c, d>>
              r == <<a, b, c, d>>
  <2>1. /\ s \in Seq(S) /\ Len(s) = 1
        /\ s[1] = a
    OBVIOUS
  <2>2. /\ t \in Seq(S) /\ Len(t) = 3
        /\ t[1] = b /\ t[2] = c /\ t[3] = d
    OBVIOUS
  <2>3. /\ r \in Seq(S) /\ Len(r) = 4
        /\ r[1] = a /\ r[2] = b /\ r[3] = c /\ r[4] = d
    OBVIOUS
  <2>. HIDE DEF S, s, t, r
  <2>4. \A k \in 1 .. Len(s) : r[k] = s[k]
    <3>1. ASSUME NEW k \in 1 .. Len(s)
          PROVE  r[k] = s[k]
      <4>1. k \in {1}
        BY <2>1
      <4>. QED  BY <2>1, <2>2, <2>3, <4>1
    <3>. QED  BY <3>1
  <2>5. \A k \in 1 .. Len(t) : r[Len(s) + k] = t[k]
    <3>1. ASSUME NEW k \in 1 .. Len(t)
          PROVE  r[Len(s) + k] = t[k]
      <4>1. k \in {1, 2, 3}
        BY <2>2
      <4>. QED  BY <2>1, <2>2, <2>3, <4>1
    <3>. QED  BY <3>1
  <2>6. Len(r) = Len(s) + Len(t)
    BY <2>1, <2>2, <2>3
  <2>7. s \o t = r
    BY <2>1, <2>2, <2>3, <2>4, <2>5, <2>6, ConcatForm, Zenon
  <2>. QED  BY <2>7 DEF s, t, r
<1>5. ASSUME NEW a, NEW b, NEW c, NEW d, NEW e
      PROVE  <<a>> \o <<b, c, d, e>> = <<a, b, c, d, e>>
  <2>. DEFINE S == {a, b, c, d, e}
              s == <<a>>
              t == <<b, c, d, e>>
              r == <<a, b, c, d, e>>
  <2>1. /\ s \in Seq(S) /\ Len(s) = 1
        /\ s[1] = a
    OBVIOUS
  <2>2. /\ t \in Seq(S) /\ Len(t) = 4
        /\ t[1] = b /\ t[2] = c /\ t[3] = d /\ t[4] = e
    OBVIOUS
  <2>3. /\ r \in Seq(S) /\ Len(r) = 5
        /\ r[1] = a /\ r[2] = b /\ r[3] = c /\ r[4] = d /\ r[5] = e
    OBVIOUS
  <2>. HIDE DEF S, s, t, r
  <2>4. \A k \in 1 .. Len(s) : r[k] = s[k]
    <3>1. ASSUME NEW k \in 1 .. Len(s)
          PROVE  r[k] = s[k]
      <4>1. k \in {1}
        BY <2>1
      <4>. QED  BY <2>1, <2>2, <2>3, <4>1
    <3>. QED  BY <3>1
  <2>5. \A k \in 1 .. Len(t) : r[Len(s) + k] = t[k]
    <3>1. ASSUME NEW k \in 1 .. Len(t)
          PROVE  r[Len(s) + k] = t[k]
      <4>1. k \in {1, 2, 3, 4}
        BY <2>2
      <4>. QED  BY <2>1, <2>2, <2>3, <4>1
    <3>. QED  BY <3>1
  <2>6. Len(r) = Len(s) + Len(t)
    BY <2>1, <2>2, <2>3
  <2>7. s \o t = r
    BY <2>1, <2>2, <2>3, <2>4, <2>5, <2>6, ConcatForm, Zenon
  <2>. QED  BY <2>7 DEF s, t, r
<1>6. ASSUME NEW a, NEW b, NEW c, NEW d, NEW e, NEW f
      PROVE  <<a>> \o <<b, c, d, e, f>> = <<a, b, c, d, e, f>>
  <2>. DEFINE S == {a, b, c, d, e, f}
              s == <<a>>
              t == <<b, c, d, e, f>>
              r == <<a, b, c, d, e, f>>
  <2>1. /\ s \in Seq(S) /\ Len(s) = 1
        /\ s[1] = a
    OBVIOUS
  <2>2. /\ t \in Seq(S) /\ Len(t) = 5
        /\ t[1] = b /\ t[2] = c /\ t[3] = d /\ t[4] = e /\ t[5] = f
    OBVIOUS
  <2>3. /\ r \in Seq(S) /\ Len(r) = 6
        /\ r[1] = a /\ r[2] = b /\ r[3] = c /\ r[4] = d /\ r[5] = e /\ r[6] = f
    OBVIOUS
  <2>. HIDE DEF S, s, t, r
  <2>4. \A k \in 1 .. Len(s) : r[k] = s[k]
    <3>1. ASSUME NEW k \in 1 .. Len(s)
          PROVE  r[k] = s[k]
      <4>1. k \in {1}
        BY <2>1
      <4>. QED  BY <2>1, <2>2, <2>3, <4>1
    <3>. QED  BY <3>1
  <2>5. \A k \in 1 .. Len(t) : r[Len(s) + k] = t[k]
    <3>1. ASSUME NEW k \in 1 .. Len(t)
          PROVE  r[Len(s) + k] = t[k]
      <4>1. k \in {1, 2, 3, 4, 5}
        BY <2>2
      <4>. QED  BY <2>1, <2>2, <2>3, <4>1
    <3>. QED  BY <3>1
  <2>6. Len(r) = Len(s) + Len(t)
    BY <2>1, <2>2, <2>3
  <2>7. s \o t = r
    BY <2>1, <2>2, <2>3, <2>4, <2>5, <2>6, ConcatForm, Zenon
  <2>. QED  BY <2>7 DEF s, t, r
<1>7. ASSUME NEW a, NEW b, NEW c, NEW d, NEW e, NEW f
      PROVE  <<a, b, c, d, e>> \o <<f>> = <<a, b, c, d, e, f>>
  <2>. DEFINE S == {a, b, c, d, e, f}
              s == <<a, b, c, d, e>>
              t == <<f>>
              r == <<a, b, c, d, e, f>>
  <2>1. /\ s \in Seq(S) /\ Len(s) = 5
        /\ s[1] = a /\ s[2] = b /\ s[3] = c /\ s[4] = d /\ s[5] = e
    OBVIOUS
  <2>2. /\ t \in Seq(S) /\ Len(t) = 1
        /\ t[1] = f
    OBVIOUS
  <2>3. /\ r \in Seq(S) /\ Len(r) = 6
        /\ r[1] = a /\ r[2] = b /\ r[3] = c /\ r[4] = d /\ r[5] = e /\ r[6] = f
    OBVIOUS
  <2>. HIDE DEF S, s, t, r
  <2>4. \A k \in 1 .. Len(s) : r[k] = s[k]
    <3>1. ASSUME NEW k \in 1 .. Len(s)
          PROVE  r[k] = s[k]
      <4>1. k \in {1, 2, 3, 4, 5}
        BY <2>1
      <4>. QED  BY <2>1, <2>2, <2>3, <4>1
    <3>. QED  BY <3>1
  <2>5. \A k \in 1 .. Len(t) : r[Len(s) + k] = t[k]
    <3>1. ASSUME NEW k \in 1 .. Len(t)
          PROVE  r[Len(s) + k] = t[k]
      <4>1. k \in {1}
        BY <2>2
      <4>. QED  BY <2>1, <2>2, <2>3, <4>1
    <3>. QED  BY <3>1
  <2>6. Len(r) = Len(s) + Len(t)
    BY <2>1, <2>2, <2>3
  <2>7. s \o t = r
    BY <2>1, <2>2, <2>3, <2>4, <2>5, <2>6, ConcatForm, Zenon
  <2>. QED  BY <2>7 DEF s, t, r
<1>8. ASSUME NEW a, NEW b, NEW c, NEW d, NEW e, NEW f
      PROVE  <<a, b>> \o <<c, d, e, f>> = <<a, b, c, d, e, f>>
  <2>. DEFINE S == {a, b, c, d, e, f}
              s == <<a, b>>
              t == <<c, d, e, f>>
              r == <<a, b, c, d, e, f>>
  <2>1. /\ s \in Seq(S) /\ Len(s) = 2
        /\ s[1] = a /\ s[2] = b
    OBVIOUS
  <2>2. /\ t \in Seq(S) /\ Len(t) = 4
        /\ t[1] = c /\ t[2] = d /\ t[3] = e /\ t[4] = f
    OBVIOUS
  <2>3. /\ r \in Seq(S) /\ Len(r) = 6
        /\ r[1] = a /\ r[2] = b /\ r[3] = c /\ r[4] = d /\ r[5] = e /\ r[6] = f
    OBVIOUS
  <2>. HIDE DEF S, s, t, r
  <2>4. \A k \in 1 .. Len(s) : r[k] = s[k]
    <3>1. ASSUME NEW k \in 1 .. Len(s)
          PROVE  r[k] = s[k]
      <4>1. k \in {1, 2}
        BY <2>1
      <4>. QED  BY <2>1, <2>2, <2>3, <4>1
    <3>. QED  BY <3>1
  <2>5. \A k \in 1 .. Len(t) : r[Len(s) + k] = t[k]
    <3>1. ASSUME NEW k \in 1 .. Len(t)
          PROVE  r[Len(s) + k] = t[k]
      <4>1. k \in {1, 2, 3, 4}
        BY <2>2
      <4>. QED  BY <2>1, <2>2, <2>3, <4>1
    <3>. QED  BY <3>1
  <2>6. Len(r) = Len(s) + Len(t)
    BY <2>1, <2>2, <2>3
  <2>7. s \o t = r
    BY <2>1, <2>2, <2>3, <2>4, <2>5, <2>6, ConcatForm, Zenon
  <2>. QED  BY <2>7 DEF s, t, r
<1>9. ASSUME NEW a, NEW b, NEW c, NEW d, NEW e, NEW f, NEW g
      PROVE  <<a, b, c, d, e, f>> \o <<g>> = <<a, b, c, d, e, f, g>>
  <2>. DEFINE S == {a, b, c, d, e, f, g}
              s == <<a, b, c, d, e, f>>
              t == <<g>>
              r == <<a, b, c, d, e, f, g>>
  <2>1. /\ s \in Seq(S) /\ Len(s) = 6
        /\ s[1] = a /\ s[2] = b /\ s[3] = c /\ s[4] = d /\ s[5] = e /\ s[6] = f
    OBVIOUS
  <2>2. /\ t \in Seq(S) /\ Len(t) = 1
        /\ t[1] = g
    OBVIOUS
  <2>3. /\ r \in Seq(S) /\ Len(r) = 7
        /\ r[1] = a /\ r[2] = b /\ r[3] = c /\ r[4] = d /\ r[5] = e /\ r[6] = f /\ r[7] = g
    OBVIOUS
  <2>. HIDE DEF S, s, t, r
  <2>4. \A k \in 1 .. Len(s) : r[k] = s[k]
    <3>1. ASSUME NEW k \in 1 .. Len(s)
          PROVE  r[k] = s[k]
      <4>1. k \in {1, 2, 3, 4, 5, 6}
        BY <2>1
      <4>. QED  BY <2>1, <2>2, <2>3, <4>1
    <3>. QED  BY <3>1
  <2>5. \A k \in 1 .. Len(t) : r[Len(s) + k] = t[k]
    <3>1. ASSUME NEW k \in 1 .. Len(t)
          PROVE  r[Len(s) + k] = t[k]
      <4>1. k \in {1}
        BY <2>2
      <4>. QED  BY <2>1, <2>2, <2>3, <4>1
    <3>. QED  BY <3>1
  <2>6. Len(r) = Len(s) + Len(t)
    BY <2>1, <2>2, <2>3
  <2>7. s \o t = r
    BY <2>1, <2>2, <2>3, <2>4, <2>5, <2>6, ConcatForm, Zenon
  <2>. QED  BY <2>7 DEF s, t, r
<1>10. ASSUME NEW a, NEW b, NEW c, NEW d, NEW e, NEW f, NEW g
      PROVE  <<a>> \o <<b, c, d, e, f, g>> = <<a, b, c, d, e, f, g>>
  <2>. DEFINE S == {a, b, c, d, e, f, g}
              s == <<a>>
              t == <<b, c, d, e, f, g>>
              r == <<a, b, c, d, e, f, g>>
  <2>1. /\ s \in Seq(S) /\ Len(s) = 1
        /\ s[1] = a
    OBVIOUS
  <2>2. /\ t \in Seq(S) /\ Len(t) = 6
        /\ t[1] = b /\ t[2] = c /\ t[3] = d /\ t[4] = e /\ t[5] = f /\ t[6] = g
    OBVIOUS
  <2>3. /\ r \in Seq(S) /\ Len(r) = 7
        /\ r[1] = a /\ r[2] = b /\ r[3] = c /\ r[4] = d /\ r[5] = e /\ r[6] = f /\ r[7] = g
    OBVIOUS
  <2>. HIDE DEF S, s, t, r
  <2>4. \A k \in 1 .. Len(s) : r[k] = s[k]
    <3>1. ASSUME NEW k \in 1 .. Len(s)
          PROVE  r[k] = s[k]
      <4>1. k \in {1}
        BY <2>1
      <4>. QED  BY <2>1, <2>2, <2>3, <4>1
    <3>. QED  BY <3>1
  <2>5. \A k \in 1 .. Len(t) : r[Len(s) + k] = t[k]
    <3>1. ASSUME NEW k \in 1 .. Len(t)
          PROVE  r[Len(s) + k] = t[k]
      <4>1. k \in {1, 2, 3, 4, 5, 6}
        BY <2>2
      <4>. QED  BY <2>1, <2>2, <2>3, <4>1
    <3>. QED  BY <3>1
  <2>6. Len(r) = Len(s) + Len(t)
    BY <2>1, <2>2, <2>3
  <2>7. s \o t = r
    BY <2>1, <2>2, <2>3, <2>4, <2>5, <2>6, ConcatForm, Zenon
  <2>. QED  BY <2>7 DEF s, t, r
<1>. QED  BY <1>1, <1>2, <1>3, <1>4, <1>5, <1>6, <1>7, <1>8, <1>9, <1>10

(* A sequence in front of another, its first element apart.                *)
LEMMA Cons ==
  ASSUME NEW S, NEW a \in S, NEW s \in Seq(S), NEW t \in Seq(S)
  PROVE  (<<a>> \o s) \o t = <<a>> \o (s \o t)
<1>1. <<a>> \in Seq(S)
  OBVIOUS
<1>. QED  BY <1>1, ConcatAssociative

LEMMA Remains ==
  /\ aliasRest \o <<declared>>
       = <<next, want("FOR")>> \o
           (<<set({"alias"})>> \o (<<anyIdentifier>> \o <<want(semi), declared>>))
  /\ \A o : cursorRest(o) \o <<declared>>
       = <<next>> \o
           (<<set({"cursor"} \cup o)>> \o
              (<<argumentTest, isTest, collect({semi})>> \o
                 <<want(semi), declared>>))
  /\ \A i : <<next, i>> \o <<declared>> = <<next, i, declared>>
  /\ \A i : <<i>> \o <<declared>> = <<i, declared>>
  /\ (<<pushBack>> \o parseDeclVarRest) \o <<declared>>
       = <<pushBack>> \o (parseDeclVarRest \o <<declared>>)
  /\ parseDeclVarRest \o <<declared>>
       = typeRest \o <<notNullTest, lastTest, declared>>
  /\ notNullRest \o <<lastTest, declared>>
       = <<next, want("NULL"), set({"notnull"}), lastTest, declared>>
  /\ <<defaultTest, want(semi)>> \o <<declared>>
       = <<defaultTest>> \o <<want(semi), declared>>
<1>1. /\ aliasRest = <<next, want("FOR"), set({"alias"}), anyIdentifier, want(semi)>>
      /\ notNullRest = <<next, want("NULL"), set({"notnull"})>>
  BY DEF aliasRest, notNullRest
<1>2. \A o : cursorRest(o) = <<next, set({"cursor"} \cup o), argumentTest, isTest,
                               collect({semi}), want(semi)>>
  BY DEF cursorRest
<1>3. typeRest \in Seq(Quiet)
  BY QuietForms
<1>4. /\ \A a, b, c : <<a, b>> \o <<c>> = <<a, b, c>>
      /\ \A a, b, c : <<a>> \o <<b, c>> = <<a, b, c>>
  BY Tuples
<1>5. parseDeclVarRest \o <<declared>>
        = typeRest \o <<notNullTest, lastTest, declared>>
  <2>. DEFINE U == Quiet \cup {notNullTest, lastTest, declared}
              d == <<notNullTest, lastTest>>
              e == <<declared>>
  <2>1. typeRest \in Seq(U) /\ d \in Seq(U) /\ e \in Seq(U)
    BY <1>3
  <2>2. parseDeclVarRest = typeRest \o d
    BY DeclarationCode
  <2>3. d \o e = <<notNullTest, lastTest, declared>>
    BY <1>4
  <2>. HIDE DEF U, d, e
  <2>4. (typeRest \o d) \o e = typeRest \o (d \o e)
    BY <2>1, ConcatAssociative
  <2>5. parseDeclVarRest \o e = typeRest \o <<notNullTest, lastTest, declared>>
    BY <2>2, <2>3, <2>4, Zenon
  <2>. QED  BY <2>5 DEF e
<1>6. (<<pushBack>> \o parseDeclVarRest) \o <<declared>>
        = <<pushBack>> \o (parseDeclVarRest \o <<declared>>)
  <2>. DEFINE U == Quiet \cup {notNullTest, lastTest, declared, pushBack}
              d == <<notNullTest, lastTest>>
              e == <<declared>>
  <2>1. typeRest \in Seq(U) /\ d \in Seq(U) /\ e \in Seq(U) /\ pushBack \in U
    BY <1>3
  <2>2. parseDeclVarRest = typeRest \o d
    BY DeclarationCode
  <2>. HIDE DEF U, d, e
  <2>3. parseDeclVarRest \in Seq(U)
    BY <2>1, <2>2
  <2>4. (<<pushBack>> \o parseDeclVarRest) \o e
          = <<pushBack>> \o (parseDeclVarRest \o e)
    BY <2>1, <2>3, Cons
  <2>. QED  BY <2>4 DEF e
<1>7. <<defaultTest, want(semi)>> \o <<declared>>
        = <<defaultTest>> \o <<want(semi), declared>>
  <2>1. <<defaultTest, want(semi)>> \o <<declared>>
          = <<defaultTest, want(semi), declared>>
    BY <1>4
  <2>2. <<defaultTest>> \o <<want(semi), declared>>
          = <<defaultTest, want(semi), declared>>
    BY <1>4
  <2>. QED  BY <2>1, <2>2, Zenon
<1>8. notNullRest \o <<lastTest, declared>>
        = <<next, want("NULL"), set({"notnull"}), lastTest, declared>>
  <2>1. <<next, want("NULL"), set({"notnull"})>> \o <<lastTest, declared>>
          = <<next, want("NULL"), set({"notnull"}), lastTest, declared>>
    BY Tuples
  <2>. QED  BY <1>1, <2>1, Zenon
<1>9. aliasRest \o <<declared>>
       = <<next, want("FOR")>> \o
           (<<set({"alias"})>> \o (<<anyIdentifier>> \o <<want(semi), declared>>))
  <2>. DEFINE b == want("FOR")
              c == set({"alias"})
              e == want(semi)
  <2>1. aliasRest = <<next, b, c, anyIdentifier, e>>
    BY <1>1
  <2>. HIDE DEF b, c, e
  <2>2. /\ <<next, b, c, anyIdentifier, e>> \o <<declared>>
             = <<next, b, c, anyIdentifier, e, declared>>
        /\ <<next, b>> \o <<c, anyIdentifier, e, declared>>
             = <<next, b, c, anyIdentifier, e, declared>>
        /\ <<c>> \o <<anyIdentifier, e, declared>>
             = <<c, anyIdentifier, e, declared>>
        /\ <<anyIdentifier>> \o <<e, declared>> = <<anyIdentifier, e, declared>>
    BY Tuples
  <2>3. aliasRest \o <<declared>>
          = <<next, b>> \o (<<c>> \o (<<anyIdentifier>> \o <<e, declared>>))
    BY <2>1, <2>2, Zenon
  <2>. QED  BY <2>3 DEF b, c, e
<1>10. ASSUME NEW o
       PROVE  cursorRest(o) \o <<declared>>
                = <<next>> \o
                    (<<set({"cursor"} \cup o)>> \o
                       (<<argumentTest, isTest, collect({semi})>> \o
                          <<want(semi), declared>>))
  <2>. DEFINE b == set({"cursor"} \cup o)
              e == collect({semi})
              f == want(semi)
  <2>1. cursorRest(o) = <<next, b, argumentTest, isTest, e, f>>
    BY <1>2
  <2>. HIDE DEF b, e, f
  <2>2. /\ <<next, b, argumentTest, isTest, e, f>> \o <<declared>>
             = <<next, b, argumentTest, isTest, e, f, declared>>
        /\ <<argumentTest, isTest, e>> \o <<f, declared>>
             = <<argumentTest, isTest, e, f, declared>>
        /\ <<b>> \o <<argumentTest, isTest, e, f, declared>>
             = <<b, argumentTest, isTest, e, f, declared>>
        /\ <<next>> \o <<b, argumentTest, isTest, e, f, declared>>
             = <<next, b, argumentTest, isTest, e, f, declared>>
    BY Tuples
  <2>3. cursorRest(o) \o <<declared>>
          = <<next>> \o (<<b>> \o (<<argumentTest, isTest, e>> \o <<f, declared>>))
    BY <2>1, <2>2, Zenon
  <2>. QED  BY <2>3 DEF b, e, f
<1>11. /\ \A i : <<next, i>> \o <<declared>> = <<next, i, declared>>
       /\ \A i : <<i>> \o <<declared>> = <<i, declared>>
  BY <1>4, PairForm, ZenonT(30)
<1>. QED  BY <1>5, <1>6, <1>7, <1>8, <1>9, <1>10, <1>11

----------------------------------------------------------------------------
(* The turns of parseDeclStatement.                                        *)

LEMMA NotTheEnd ==
  /\ \A t \in Identifiers : t # EOF
  /\ \A t \in {"ALIAS", "NO", "SCROLL", "CURSOR", "NOT", "NULL"} : t # EOF
  /\ semi # EOF
<1>1. \A t \in Names : t # EOF
  BY DEF Names, WordStart, QuotedNames, EOF
<1>2. \A t \in Unreserved : t # EOF
  BY DEF Unreserved, EOF
<1>3. \A t \in {"ALIAS", "NO", "SCROLL", "CURSOR", "NOT", "NULL"} : t # EOF
  BY DEF EOF
<1>4. semi # EOF
  BY Zenon DEF semi, EOF
<1>. QED  BY <1>1, <1>2, <1>3, <1>4 DEF Identifiers

(* Past a token that is not pushed back, and not the end, comes one more.   *)
Longer(ts, ts2) ==
  Len(ts2) = Len(ts) + 1 /\ \A i \in 1 .. Len(ts) : ts2[i] = ts[i]

LEMMA NextTurn ==
  ASSUME NEW b, NEW ts, NEW ts2, NEW free, NEW free2, NEW b2, NEW fields,
         Turn(b, ts, free, b2, ts2, free2, fields), free,
         Head(b) = next, ts[Len(ts)] # EOF
  PROVE  Longer(ts, ts2) /\ free2 /\ b2 = Tail(b) /\ fields = {}
<1>1. Head(b).op = "next"
  BY DEF next
<1>2. Passes(ts, free, ts2, free2) /\ b2 = Tail(b) /\ fields = {}
  BY <1>1, MoveTurn
<1>. QED  BY <1>2 DEF Passes, Longer

(* The options are found, or looked for at the next token.                 *)
LEMMA LookingTurn ==
  ASSUME NEW ts \in Seq(Token), NEW ts2 \in Seq(Token), NEW f \in Nat, NEW b,
         Looking(ts, b, f), NEW free, NEW free2, NEW b2, NEW fields,
         Turn(b, ts, free, b2, ts2, free2, fields), free
  PROVE  /\ fields = {}
         /\ \/ free2 /\ Looking(ts2, b2, f)
            \/ Recording(ts2, b2, f)
            \/ Plainly(ts2, free2, b2, f)
<1>. DEFINE n == Len(ts)
            t == ts[Len(ts)]
<1>0. /\ n \in Nat /\ Len(ts2) \in Nat
      /\ \A i, j : Head(<<i, j>>) = i /\ Tail(<<i, j>>) = <<j>>
      /\ \A i, j, k : Head(<<i, j, k>>) = i /\ Tail(<<i, j, k>>) = <<j, k>>
  OBVIOUS
<1>. DEFINE Tests(S, x, y) ==
              /\ ts2 = ts /\ free2 /\ fields = {}
              /\ t \in S => b2 = x \o Tail(b)
              /\ t \notin S => b2 = y \o Tail(b)
<1>10. ASSUME NEW S, NEW x, NEW y, Head(b) = If(S, x, y)
       PROVE  Tests(S, x, y)
  <2>1. /\ Head(b).op = "if" /\ Head(b).on = S
        /\ Head(b).then = x /\ Head(b).else = y
    BY <1>10, IfParts
  <2>. QED  BY <2>1 DEF Turn, Waits
<1>1. CASE n = f /\ b = parseDeclStatement
  <2>1. Head(b) = anyIdentifier /\ Tail(b) = <<aliasTest, declared>>
    BY <1>0, <1>1, DeclarationCode
  <2>2. Head(b).op = "anyIdentifier"
    BY <2>1 DEF anyIdentifier
  <2>3. /\ Passes(ts, free, ts2, free2) /\ b2 = Tail(b) /\ fields = {}
        /\ t \in Identifiers
    BY <2>2, MoveTurn
  <2>4. free2 /\ Len(ts2) = f + 1
    BY <1>1, <2>3, NotTheEnd DEF Passes
  <2>. QED  BY <2>1, <2>3, <2>4 DEF Looking
<1>2. CASE n = f + 1 /\ b = <<aliasTest, declared>>
  <2>1. Head(b) = aliasTest /\ Tail(b) = <<declared>>
    BY <1>0, <1>2
  <2>2. /\ ts2 = ts /\ free2 /\ fields = {}
        /\ t = "ALIAS" => b2 = aliasRest \o <<declared>>
        /\ t # "ALIAS" => b2 = <<noTest>> \o <<declared>>
    <3>1. Tests({"ALIAS"}, aliasRest, <<noTest>>)
      BY <1>10, <2>1 DEF aliasTest
    <3>. QED  BY <2>1, <3>1
  <2>3. CASE t = "ALIAS"
    <3>1. Known(ts, f) /\ Written(ts, f) = {"alias"}
      BY <1>2, <2>3 DEF Known, Written
    <3>2. b2 = <<next, want("FOR")>> \o
                 (<<set(Written(ts, f))>> \o
                    (<<anyIdentifier>> \o <<want(semi), declared>>))
      BY <2>2, <2>3, <3>1, Remains
    <3>3. <<next, want("FOR")>> \in Seq(Quiet) /\ <<anyIdentifier>> \in Seq(Quiet)
      BY QuietForms
    <3>. QED  BY <2>2, <3>1, <3>2, <3>3 DEF Recording, EndsIn
  <2>4. CASE t # "ALIAS"
    <3>1. b2 = <<noTest, declared>>
      BY <2>2, <2>4, Remains
    <3>. QED  BY <1>2, <2>2, <2>4, <3>1 DEF Looking
  <2>. QED  BY <2>3, <2>4
<1>3. CASE n = f + 1 /\ ts[f + 1] # "ALIAS" /\ b = <<noTest, declared>>
  <2>1. Head(b) = noTest /\ Tail(b) = <<declared>>
    BY <1>0, <1>3
  <2>2. /\ ts2 = ts /\ free2 /\ fields = {}
        /\ t = "NO" => b2 = <<next, scrollTest>> \o <<declared>>
        /\ t # "NO" => b2 = <<optionTest>> \o <<declared>>
    <3>1. Tests({"NO"}, <<next, scrollTest>>, <<optionTest>>)
      BY <1>10, <2>1 DEF noTest
    <3>. QED  BY <2>1, <3>1
  <2>3. /\ t = "NO" => b2 = <<next, scrollTest, declared>>
        /\ t # "NO" => b2 = <<optionTest, declared>>
    BY <2>2, Remains
  <2>. QED  BY <1>3, <2>2, <2>3 DEF Looking
<1>4. CASE n = f + 1 /\ ts[f + 1] = "NO" /\ b = <<next, scrollTest, declared>>
  <2>1. Head(b) = next /\ Tail(b) = <<scrollTest, declared>>
    BY <1>0, <1>4
  <2>2. Longer(ts, ts2) /\ free2 /\ b2 = Tail(b) /\ fields = {}
    <3>1. t # EOF
      BY <1>4, NotTheEnd
    <3>. QED  BY <2>1, <3>1, NextTurn, Zenon
  <2>3. Len(ts2) = f + 2 /\ ts2[f + 1] = "NO"
    BY <1>4, <2>2 DEF Longer
  <2>. QED  BY <2>1, <2>2, <2>3 DEF Looking
<1>5. CASE n = f + 2 /\ ts[f + 1] = "NO" /\ b = <<scrollTest, declared>>
  <2>1. Head(b) = scrollTest /\ Tail(b) = <<declared>>
    BY <1>0, <1>5
  <2>2. /\ ts2 = ts /\ free2 /\ fields = {}
        /\ t = "SCROLL" =>
             b2 = <<next, cursorTest({"noscroll"})>> \o <<declared>>
        /\ t # "SCROLL" =>
             b2 = (<<pushBack>> \o parseDeclVarRest) \o <<declared>>
    <3>1. Tests({"SCROLL"}, <<next, cursorTest({"noscroll"})>>,
                 <<pushBack>> \o parseDeclVarRest)
      BY <1>10, <2>1 DEF scrollTest
    <3>. QED  BY <2>1, <3>1
  <2>3. /\ t = "SCROLL" => b2 = <<next, cursorTest({"noscroll"}), declared>>
        /\ t # "SCROLL" =>
             b2 = <<pushBack>> \o (parseDeclVarRest \o <<declared>>)
    BY <2>2, Remains
  <2>4. t # "SCROLL" => Known(ts, f) /\ Written(ts, f) = {}
    BY <1>5 DEF Known, Written
  <2>. QED  BY <1>5, <2>2, <2>3, <2>4 DEF Looking, Plainly
<1>6. CASE /\ n = f + 2 /\ ts[f + 1] = "NO" /\ ts[f + 2] = "SCROLL"
           /\ b = <<next, cursorTest({"noscroll"}), declared>>
  <2>1. Head(b) = next /\ Tail(b) = <<cursorTest({"noscroll"}), declared>>
    BY <1>0, <1>6
  <2>2. Longer(ts, ts2) /\ free2 /\ b2 = Tail(b) /\ fields = {}
    <3>1. t # EOF
      BY <1>6, NotTheEnd
    <3>. QED  BY <2>1, <3>1, NextTurn, Zenon
  <2>3. AfterOption(ts2, f, {"noscroll"})
    BY <1>6, <2>2 DEF AfterOption, Longer
  <2>4. {"noscroll"} \in SUBSET Options
    BY DEF Options
  <2>. QED  BY <2>1, <2>2, <2>3, <2>4 DEF Looking
<1>7. CASE /\ n = f + 1 /\ ts[f + 1] \notin {"ALIAS", "NO"}
           /\ b = <<optionTest, declared>>
  <2>1. Head(b) = optionTest /\ Tail(b) = <<declared>>
    BY <1>0, <1>7
  <2>2. /\ ts2 = ts /\ free2 /\ fields = {}
        /\ t = "SCROLL" => b2 = <<next, cursorTest({"scroll"})>> \o <<declared>>
        /\ t # "SCROLL" => b2 = <<cursorTest({})>> \o <<declared>>
    <3>1. Tests({"SCROLL"}, <<next, cursorTest({"scroll"})>>, <<cursorTest({})>>)
      BY <1>10, <2>1 DEF optionTest
    <3>. QED  BY <2>1, <3>1
  <2>3. /\ t = "SCROLL" => b2 = <<next, cursorTest({"scroll"}), declared>>
        /\ t # "SCROLL" => b2 = <<cursorTest({}), declared>>
    BY <2>2, Remains
  <2>4. t # "SCROLL" => AfterOption(ts, f, {})
    BY <1>7 DEF AfterOption
  <2>5. {} \in SUBSET Options
    OBVIOUS
  <2>. QED  BY <1>7, <2>2, <2>3, <2>4, <2>5 DEF Looking
<1>8. CASE /\ n = f + 1 /\ ts[f + 1] = "SCROLL"
           /\ b = <<next, cursorTest({"scroll"}), declared>>
  <2>1. Head(b) = next /\ Tail(b) = <<cursorTest({"scroll"}), declared>>
    BY <1>0, <1>8
  <2>2. Longer(ts, ts2) /\ free2 /\ b2 = Tail(b) /\ fields = {}
    <3>1. t # EOF
      BY <1>8, NotTheEnd
    <3>. QED  BY <2>1, <3>1, NextTurn, Zenon
  <2>3. AfterOption(ts2, f, {"scroll"})
    BY <1>8, <2>2 DEF AfterOption, Longer
  <2>4. {"scroll"} \in SUBSET Options
    BY DEF Options
  <2>. QED  BY <2>1, <2>2, <2>3, <2>4 DEF Looking
<1>9. ASSUME NEW o \in SUBSET Options, AfterOption(ts, f, o),
             b = <<cursorTest(o), declared>>
      PROVE  /\ fields = {}
             /\ Recording(ts2, b2, f) \/ Plainly(ts2, free2, b2, f)
  <2>1. Head(b) = cursorTest(o) /\ Tail(b) = <<declared>>
    BY <1>0, <1>9
  <2>2. /\ ts2 = ts /\ free2 /\ fields = {}
        /\ t = "CURSOR" => b2 = cursorRest(o) \o <<declared>>
        /\ t # "CURSOR" => b2 = parseDeclVarRest \o <<declared>>
    <3>1. Tests({"CURSOR"}, cursorRest(o), parseDeclVarRest)
      BY <1>10, <2>1 DEF cursorTest
    <3>. QED  BY <2>1, <3>1
  <2>3. Known(ts, f)
    BY <1>9 DEF AfterOption, Known
  <2>4. CASE t = "CURSOR"
    <3>1. Written(ts, f) = {"cursor"} \cup o
      BY <1>9, <2>4 DEF AfterOption, Written
    <3>2. b2 = <<next>> \o
                 (<<set(Written(ts, f))>> \o
                    (<<argumentTest, isTest, collect({semi})>> \o
                       <<want(semi), declared>>))
      BY <2>2, <2>4, <3>1, Remains
    <3>3. /\ <<next>> \in Seq(Quiet)
          /\ <<argumentTest, isTest, collect({semi})>> \in Seq(Quiet)
      BY QuietForms
    <3>. QED  BY <2>2, <2>3, <3>2, <3>3 DEF Recording, EndsIn
  <2>5. CASE t # "CURSOR"
    <3>1. Written(ts, f) = {}
      BY <1>9, <2>5 DEF AfterOption, Written
    <3>2. b2 = typeRest \o <<notNullTest, lastTest, declared>>
      BY <2>2, <2>5, Remains
    <3>3. EndsIn(b2, <<notNullTest, lastTest, declared>>)
      BY <3>2, QuietForms DEF EndsIn
    <3>. QED  BY <2>2, <2>3, <3>1, <3>3 DEF Plainly
  <2>. QED  BY <2>4, <2>5
<1>. QED  BY <1>1, <1>2, <1>3, <1>4, <1>5, <1>6, <1>7, <1>8, <1>9 DEF Looking

LEMMA EndsInItself ==
  ASSUME NEW T, NEW t \in Seq(T)
  PROVE  EndsIn(t, t)
<1>1. <<>> \in Seq(Quiet) /\ t = <<>> \o t
  BY QuietForms
<1>. QED  BY <1>1 DEF EndsIn

(* A prefix of silent code is empty, or a turn leaves one.                 *)
LEMMA PrefixTurn ==
  ASSUME NEW U, NEW t \in Seq(U), NEW b, EndsIn(b, t),
         NEW ts \in Seq(Token), NEW ts2 \in Seq(Token), NEW free,
         NEW free2, NEW b2, NEW fields, Turn(b, ts, free, b2, ts2, free2, fields)
  PROVE  \/ b = t
         \/ /\ EndsIn(b2, t) /\ fields \cap Watched = {} /\ Extends(ts, ts2)
            /\ free => free2
<1>1. PICK p \in Seq(Quiet) : b = p \o t
  BY DEF EndsIn
<1>2. CASE p = <<>>
  BY <1>1, <1>2
<1>3. CASE p # <<>>
  <2>1. Turn(p \o t, ts, free, b2, ts2, free2, fields)
    BY <1>1, Zenon
  <2>2. /\ EndsIn(b2, t) /\ fields \cap Watched = {}
        /\ Passes(ts, free, ts2, free2) \/ Waits(ts, free, ts2, free2)
    BY <1>3, <2>1, QuietTurn
  <2>3. Extends(ts, ts2)
    BY <2>2, TurnExtends
  <2>. QED  BY <2>2, <2>3 DEF Passes, Waits
<1>. QED  BY <1>2, <1>3

LEMMA RecordingTurn ==
  ASSUME NEW ts \in Seq(Token), NEW ts2 \in Seq(Token), NEW f \in Nat, NEW b,
         Recording(ts, b, f), NEW free, NEW free2, NEW b2,
         NEW before, before \cap Watched = {},
         NEW fields, Turn(b, ts, free, b2, ts2, free2, fields)
  PROVE  \/ fields \cap Watched = {} /\ Recording(ts2, b2, f)
         \/ Closing(ts2, free2, b2, f, before \cup fields)
<1>. DEFINE w == set(Written(ts, f))
            e == <<want(semi), declared>>
<1>0. \A S : Head(b) = set(S) => ts2 = ts /\ b2 = Tail(b) /\ fields = S
  <2>1. ASSUME NEW S, Head(b) = set(S)
        PROVE  ts2 = ts /\ b2 = Tail(b) /\ fields = S
    <3>1. Head(b).op = "set" /\ Head(b).fields = S
      BY <2>1 DEF set
    <3>. QED  BY <3>1 DEF Turn, Waits
  <2>. QED  BY <2>1
<1>9. ASSUME NEW T, NEW s \in Seq(T), EndsIn(b, s)
      PROVE  \/ b = s
             \/ /\ EndsIn(b2, s) /\ fields \cap Watched = {} /\ Extends(ts, ts2)
                /\ free => free2
  BY <1>9, PrefixTurn
<1>1. Known(ts, f)
  BY DEF Recording
<1>2. PICK q \in Seq(Quiet) : EndsIn(b, <<w>> \o (q \o e))
  BY DEF Recording
<1>. DEFINE t == <<w>> \o (q \o e)
            U == Quiet \cup {w, want(semi), declared}
<1>3. t \in Seq(U)
  OBVIOUS
<1>4. Head(t) = w /\ Tail(t) = q \o e
  <2>1. q \o e \in Seq(U)
    OBVIOUS
  <2>. HIDE DEF U, e, w
  <2>. QED  BY <2>1, Prefixed
<1>5. Written(ts, f) \subseteq Options
  BY DEF Written, Options
<1>. HIDE DEF U
<1>6. CASE b = t
  <2>1. Head(b) = w /\ Tail(b) = q \o e
    BY <1>4, <1>6
  <2>. HIDE DEF t, e
  <2>2. ts2 = ts /\ b2 = q \o e /\ fields = Written(ts, f)
    BY <1>0, <2>1
  <2>3. EndsIn(b2, e)
    BY <2>2 DEF EndsIn
  <2>4. (before \cup fields) \cap Options = Written(ts2, f)
    BY <1>5, <2>2 DEF Watched
  <2>5. "notnull" \notin before \cup fields
    BY <1>5, <2>2 DEF Watched, Options
  <2>. QED  BY <1>1, <2>2, <2>3, <2>4, <2>5 DEF Closing, e
<1>7. CASE /\ EndsIn(b2, t) /\ fields \cap Watched = {} /\ Extends(ts, ts2)
           /\ free => free2
  <2>1. Known(ts2, f) /\ Written(ts2, f) = Written(ts, f)
    BY <1>1, <1>7, KnownStays
  <2>. QED  BY <1>7, <2>1 DEF Recording
<1>8. EndsIn(b, t)
  BY <1>2
<1>. HIDE DEF t
<1>. QED  BY <1>3, <1>6, <1>7, <1>8, <1>9

(* No option was found: the type, then perhaps NOT NULL.                   *)
LEMMA PlainlyTurn ==
  ASSUME NEW ts \in Seq(Token), NEW ts2 \in Seq(Token), NEW f \in Nat, NEW b,
         NEW free, Plainly(ts, free, b, f), NEW free2, NEW b2,
         NEW before, before \cap Watched = {},
         NEW fields, Turn(b, ts, free, b2, ts2, free2, fields)
  PROVE  \/ fields \cap Watched = {} /\ Plainly(ts2, free2, b2, f)
         \/ Closing(ts2, free2, b2, f, before \cup fields)
<1>. DEFINE n == Len(ts)
            t == ts[Len(ts)]
            notNullSet == set({"notnull"})
            nullWanted == want("NULL")
<1>0. Known(ts, f) /\ Written(ts, f) = {} /\ n \in Nat /\ f < n
  BY DEF Plainly, Known
<1>1. ASSUME NEW T, NEW s \in Seq(T), EndsIn(b, s)
      PROVE  \/ b = s
             \/ /\ EndsIn(b2, s) /\ fields \cap Watched = {} /\ Extends(ts, ts2)
                /\ free => free2
  BY <1>1, PrefixTurn
<1>2. Head(b).op = "next" =>
        Passes(ts, free, ts2, free2) /\ b2 = Tail(b) /\ fields = {}
  BY DEF Turn
<1>3. CASE b = <<pushBack>> \o (parseDeclVarRest \o <<declared>>)
  <2>1. b = <<pushBack>> \o (typeRest \o <<notNullTest, lastTest, declared>>)
    BY <1>3, Remains
  <2>2. typeRest \o <<notNullTest, lastTest, declared>>
          \in Seq(Quiet \cup {notNullTest, lastTest, declared})
    BY QuietForms
  <2>3. /\ Head(b) = pushBack
        /\ Tail(b) = typeRest \o <<notNullTest, lastTest, declared>>
    BY <2>1, <2>2, Prefixed
  <2>4. Head(b).op = "pushBack"
    BY <2>3 DEF pushBack
  <2>5. ts2 = ts /\ b2 = Tail(b) /\ fields = {}
    BY <2>4 DEF Turn
  <2>6. EndsIn(b2, <<notNullTest, lastTest, declared>>)
    BY <2>3, <2>5, QuietForms DEF EndsIn
  <2>. QED  BY <1>0, <2>5, <2>6 DEF Plainly
<1>4. CASE EndsIn(b, <<notNullTest, lastTest, declared>>)
  <2>. DEFINE s == <<notNullTest, lastTest, declared>>
  <2>1. s \in Seq({notNullTest, lastTest, declared})
    OBVIOUS
  <2>2. \/ b = s
        \/ EndsIn(b2, s) /\ fields \cap Watched = {} /\ Extends(ts, ts2)
    <3>. HIDE DEF s
    <3>. QED  BY <1>1, <1>4, <2>1 DEF s
  <2>3. CASE EndsIn(b2, s) /\ fields \cap Watched = {} /\ Extends(ts, ts2)
    <3>1. Known(ts2, f) /\ Written(ts2, f) = {}
      BY <1>0, <2>3, KnownStays
    <3>. QED  BY <2>3, <3>1 DEF Plainly
  <2>4. CASE b = s
    <3>1. Head(b) = notNullTest /\ Tail(b) = <<lastTest, declared>>
      BY <2>4
    <3>2. /\ Head(b).op = "if" /\ Head(b).on = {"NOT"}
          /\ Head(b).then = notNullRest /\ Head(b).else = <<>>
      BY <3>1, IfParts DEF notNullTest, When
    <3>3. /\ ts2 = ts /\ fields = {}
          /\ t = "NOT" => b2 = notNullRest \o <<lastTest, declared>>
          /\ t # "NOT" => b2 = <<>> \o <<lastTest, declared>>
      BY <3>1, <3>2 DEF Turn, Waits
    <3>4. t = "NOT" => Plainly(ts2, free2, b2, f)
      BY <1>0, <3>3 DEF Plainly
    <3>5. CASE t # "NOT"
      <4>1. EndsIn(b2, <<lastTest, declared>>)
        BY <3>3, <3>5, QuietForms DEF EndsIn
      <4>2. (before \cup fields) \cap Options = {}
            /\ "notnull" \notin before \cup fields
        BY <3>3 DEF Watched
      <4>. QED  BY <1>0, <3>3, <4>1, <4>2 DEF Closing
    <3>. QED  BY <3>3, <3>4, <3>5
  <2>. QED  BY <2>2, <2>3, <2>4
<1>5. CASE t = "NOT" /\ b = notNullRest \o <<lastTest, declared>>
  <2>1. b = <<next, nullWanted, notNullSet, lastTest, declared>>
    BY <1>5, Remains
  <2>. HIDE DEF nullWanted, notNullSet
  <2>2. /\ Head(b) = next
        /\ Tail(b) = <<nullWanted, notNullSet, lastTest, declared>>
    BY <2>1
  <2>3. Passes(ts, free, ts2, free2) /\ b2 = Tail(b) /\ fields = {}
    BY <1>2, <2>2 DEF next
  <2>4. t # EOF
    BY <1>5, NotTheEnd
  <2>5. Extends(ts, ts2)
    BY <2>3, TurnExtends
  <2>6. Known(ts2, f) /\ Written(ts2, f) = {}
    BY <1>0, <2>5, KnownStays
  <2>7. \/ ts2 = ts
        \/ free2 /\ Len(ts2) = n + 1 /\ ts2[n] = t
    BY <1>0, <2>3, <2>4 DEF Passes
  <2>8. \/ ts2[Len(ts2)] = "NOT"
        \/ free2 /\ f + 1 < Len(ts2) /\ ts2[Len(ts2) - 1] = "NOT"
    BY <1>0, <1>5, <2>7
  <2>. QED  BY <2>2, <2>3, <2>6, <2>8 DEF Plainly, nullWanted, notNullSet
<1>6. CASE /\ t = "NOT" \/ (free /\ f + 1 < n /\ ts[n - 1] = "NOT")
           /\ b = <<want("NULL"), set({"notnull"}), lastTest, declared>>
  <2>1. /\ Head(b) = nullWanted /\ Tail(b) = <<notNullSet, lastTest, declared>>
    BY <1>6
  <2>2. Head(b).op = "want" /\ Head(b).on = {"NULL"}
    BY <2>1 DEF want
  <2>3. /\ Passes(ts, free, ts2, free2) /\ b2 = Tail(b) /\ fields = {}
        /\ t = "NULL"
    BY <2>2 DEF Turn
  <2>4. t # EOF
    BY <2>3, NotTheEnd
  <2>5. Extends(ts, ts2)
    BY <2>3, TurnExtends
  <2>6. Known(ts2, f) /\ Written(ts2, f) = {}
    BY <1>0, <2>5, KnownStays
  <2>7. free /\ f + 1 < n /\ ts[n - 1] = "NOT"
    BY <1>6, <2>3
  <2>8. free2 /\ Len(ts2) = n + 1 /\ ts2[n] = "NULL" /\ ts2[n - 1] = "NOT"
    BY <1>0, <2>3, <2>4, <2>7 DEF Passes
  <2>9. NotNullBefore(ts2, f, Len(ts2))
    <3>1. n - 1 \in f + 1 .. Len(ts2) - 2 /\ (n - 1) + 1 = n
      BY <1>0, <2>7, <2>8
    <3>. QED  BY <2>8, <3>1 DEF NotNullBefore
  <2>. QED  BY <2>1, <2>3, <2>6, <2>8, <2>9 DEF Plainly
<1>7. CASE /\ free /\ NotNullBefore(ts, f, n)
           /\ b = <<set({"notnull"}), lastTest, declared>>
  <2>1. Head(b) = notNullSet /\ Tail(b) = <<lastTest, declared>>
    BY <1>7
  <2>2. Head(b).op = "set" /\ Head(b).fields = {"notnull"}
    BY <2>1 DEF set
  <2>3. ts2 = ts /\ free2 = free /\ b2 = Tail(b) /\ fields = {"notnull"}
    BY <2>2 DEF Turn, Waits
  <2>4. EndsIn(b2, <<lastTest, declared>>)
    <3>1. <<lastTest, declared>> \in Seq({lastTest, declared})
      OBVIOUS
    <3>. QED  BY <2>1, <2>3, <3>1, EndsInItself
  <2>5. (before \cup fields) \cap Options = {}
    BY <2>3 DEF Watched, Options
  <2>. QED  BY <1>0, <1>7, <2>3, <2>4, <2>5 DEF Closing
<1>. QED  BY <1>3, <1>4, <1>5, <1>6, <1>7 DEF Plainly

(* What is left is the end of the statement.                               *)
LEMMA ClosingTurn ==
  ASSUME NEW ts \in Seq(Token), NEW ts2 \in Seq(Token), NEW f \in Nat, NEW b,
         NEW free, NEW before, Closing(ts, free, b, f, before),
         NEW free2, NEW b2,
         NEW fields, Turn(b, ts, free, b2, ts2, free2, fields)
  PROVE  Closing(ts2, free2, b2, f, before \cup fields)
<1>. DEFINE n == Len(ts)
            t == ts[Len(ts)]
            wanted == want(semi)
<1>0. /\ Known(ts, f) /\ before \cap Options = Written(ts, f)
      /\ n \in Nat /\ Len(ts2) \in Nat /\ f < n
  BY DEF Closing, Known
<1>1. ASSUME NEW T, NEW s \in Seq(T), EndsIn(b, s)
      PROVE  \/ b = s
             \/ /\ EndsIn(b2, s) /\ fields \cap Watched = {} /\ Extends(ts, ts2)
                /\ free => free2
  BY <1>1, PrefixTurn
<1>2. /\ Extends(ts, ts2) =>
           Known(ts2, f) /\ Written(ts2, f) = Written(ts, f)
      /\ Extends(ts, ts2) /\ NotNullBefore(ts, f, n) =>
           NotNullBefore(ts2, f, Len(ts2))
  <2>1. Extends(ts, ts2) => n <= Len(ts2)
    BY DEF Extends
  <2>. QED  BY <1>0, <2>1, KnownStays, NotNullStays
<1>3. fields \cap Watched = {} =>
        /\ (before \cup fields) \cap Options = Written(ts, f)
        /\ "notnull" \in before \cup fields => "notnull" \in before
  BY <1>0 DEF Watched
<1>4. ASSUME "notnull" \in before => free /\ NotNullBefore(ts, f, n),
             NEW s, s \in {<<lastTest, declared>>, <<wanted, declared>>},
             EndsIn(b, s), b # s
      PROVE  Closing(ts2, free2, b2, f, before \cup fields)
  <2>1. s \in Seq({lastTest, wanted, declared})
    <3>. HIDE DEF wanted
    <3>1. /\ <<lastTest, declared>> \in Seq({lastTest, wanted, declared})
          /\ <<wanted, declared>> \in Seq({lastTest, wanted, declared})
      OBVIOUS
    <3>. QED  BY <1>4, <3>1
  <2>2. /\ EndsIn(b2, s) /\ fields \cap Watched = {} /\ Extends(ts, ts2)
        /\ free => free2
    BY <1>1, <1>4, <2>1
  <2>3. \/ EndsIn(b2, <<lastTest, declared>>)
        \/ EndsIn(b2, <<want(semi), declared>>)
    BY <1>4, <2>2
  <2>. QED  BY <1>2, <1>3, <1>4, <2>2, <2>3 DEF Closing
<1>5. CASE /\ "notnull" \in before => free /\ NotNullBefore(ts, f, n)
           /\ b = <<lastTest, declared>>
  <2>1. Head(b) = lastTest /\ Tail(b) = <<declared>>
    BY <1>5
  <2>2. /\ Head(b).op = "if" /\ Head(b).on = {semi}
        /\ Head(b).then = <<next>>
        /\ Head(b).else = <<defaultTest, want(semi)>>
    BY <2>1, IfParts DEF lastTest
  <2>3. /\ ts2 = ts /\ free2 = free /\ fields = {}
        /\ t = semi => b2 = <<next>> \o <<declared>>
        /\ t # semi => b2 = <<defaultTest, want(semi)>> \o <<declared>>
    BY <2>1, <2>2 DEF Turn, Waits
  <2>4. CASE t = semi
    <3>1. b2 = <<next, declared>> /\ ts2[Len(ts2)] # EOF
      BY <2>3, <2>4, Remains, NotTheEnd
    <3>. QED  BY <1>0, <1>5, <2>3, <3>1 DEF Closing
  <2>5. CASE t # semi
    <3>1. b2 = <<defaultTest>> \o <<want(semi), declared>>
      BY <2>3, <2>5, Remains
    <3>2. EndsIn(b2, <<want(semi), declared>>)
      BY <3>1, QuietForms DEF EndsIn
    <3>. QED  BY <1>0, <1>5, <2>3, <3>2 DEF Closing
  <2>. QED  BY <2>4, <2>5
<1>6. ASSUME "notnull" \in before => free /\ NotNullBefore(ts, f, n),
             Passes(ts, free, ts2, free2), b2 = <<declared>>, fields = {},
             t # EOF
      PROVE  Closing(ts2, free2, b2, f, before \cup fields)
  <2>1. Extends(ts, ts2)
    BY <1>6, TurnExtends
  <2>2. ASSUME "notnull" \in before
        PROVE  NotNullBefore(ts2, f, Len(ts2) - 1)
    <3>1. Len(ts2) = n + 1
      BY <1>6, <2>2 DEF Passes
    <3>2. NotNullBefore(ts2, f, n)
      BY <1>0, <1>6, <2>1, <2>2, NotNullStays
    <3>. QED  BY <1>0, <3>1, <3>2
  <2>3. free2
    BY <1>6 DEF Passes
  <2>. QED  BY <1>0, <1>2, <1>6, <2>1, <2>2, <2>3 DEF Closing
<1>7. CASE /\ "notnull" \in before => free /\ NotNullBefore(ts, f, n)
           /\ b = <<wanted, declared>>
  <2>1. Head(b) = wanted /\ Tail(b) = <<declared>>
    BY <1>7
  <2>2. Head(b).op = "want" /\ Head(b).on = {semi}
    BY <2>1 DEF want
  <2>3. Passes(ts, free, ts2, free2) /\ b2 = Tail(b) /\ fields = {} /\ t = semi
    BY <2>2 DEF Turn
  <2>. QED  BY <1>6, <1>7, <2>1, <2>3, NotTheEnd
<1>8. CASE /\ "notnull" \in before => free /\ NotNullBefore(ts, f, n)
           /\ t # EOF /\ b = <<next, declared>>
  <2>1. Head(b) = next /\ Tail(b) = <<declared>>
    BY <1>8
  <2>2. Head(b).op = "next"
    BY <2>1 DEF next
  <2>3. Passes(ts, free, ts2, free2) /\ b2 = Tail(b) /\ fields = {}
    BY <2>2 DEF Turn
  <2>. QED  BY <1>6, <1>8, <2>1, <2>3
<1>9. b # <<declared>>
  <2>1. ASSUME b = <<declared>> PROVE FALSE
    <3>1. Head(b).op = "node"
      BY <2>1 DEF declared, node, nodeWith
    <3>. QED  BY <3>1, NoTurn
  <2>. QED  BY <2>1
<1>. QED  BY <1>4, <1>5, <1>7, <1>8, <1>9 DEF Closing

(* The declaration that is being parsed.                                   *)
LEMMA DeclTurn ==
  ASSUME NEW ts \in Seq(Token), NEW ts2 \in Seq(Token), NEW f \in Nat, NEW b,
         NEW free, NEW before, DeclAt(ts, free, b, f, before),
         NEW free2, NEW b2,
         NEW fields, Turn(b, ts, free, b2, ts2, free2, fields)
  PROVE  DeclAt(ts2, free2, b2, f, before \cup fields)
<1>1. CASE before \cap Watched = {} /\ free /\ Looking(ts, b, f)
  <2>1. /\ fields = {}
        /\ \/ free2 /\ Looking(ts2, b2, f)
           \/ Recording(ts2, b2, f)
           \/ Plainly(ts2, free2, b2, f)
    BY <1>1, LookingTurn
  <2>. QED  BY <1>1, <2>1 DEF DeclAt
<1>2. CASE before \cap Watched = {} /\ Recording(ts, b, f)
  <2>1. \/ fields \cap Watched = {} /\ Recording(ts2, b2, f)
        \/ Closing(ts2, free2, b2, f, before \cup fields)
    BY <1>2, RecordingTurn
  <2>. QED  BY <1>2, <2>1 DEF DeclAt
<1>3. CASE before \cap Watched = {} /\ Plainly(ts, free, b, f)
  <2>1. \/ fields \cap Watched = {} /\ Plainly(ts2, free2, b2, f)
        \/ Closing(ts2, free2, b2, f, before \cup fields)
    BY <1>3, PlainlyTurn
  <2>. QED  BY <1>3, <2>1 DEF DeclAt
<1>4. CASE Closing(ts, free, b, f, before)
  <2>1. Closing(ts2, free2, b2, f, before \cup fields)
    BY <1>4, ClosingTurn
  <2>. QED  BY <2>1 DEF DeclAt
<1>. QED  BY <1>1, <1>2, <1>3, <1>4 DEF DeclAt

----------------------------------------------------------------------------
(* What the code of a declaration does next: it calls nothing, and when it  *)
(* returns the declaration all of it has been read.                        *)

Started(b) == b # <<>> /\ Head(b).op \notin {"call", "parseProcStmt", "node"}

LEMMA EndsInStarted ==
  ASSUME NEW T, NEW t \in Seq(T), Started(t), NEW b, EndsIn(b, t)
  PROVE  Started(b)
<1>1. PICK p \in Seq(Quiet) : b = p \o t
  BY DEF EndsIn
<1>2. CASE p = <<>>
  BY <1>1, <1>2
<1>3. CASE p # <<>>
  <2>1. b # <<>> /\ Head(b) = Head(p)
    BY <1>1, <1>3, Prefixed
  <2>2. Head(p) \in Quiet
    BY <1>3
  <2>3. Head(p).op \notin {"call", "parseProcStmt", "node"}
    BY <2>2, QuietParts
  <2>. QED  BY <2>1, <2>3 DEF Started
<1>. QED  BY <1>2, <1>3

LEMMA StartedForms ==
  /\ \A S, x, y, t : Started(<<If(S, x, y), t>>)
  /\ \A t : Started(<<next, t>>)
  /\ \A x, t : Started(<<want(x), t>>)
  /\ \A t, u : Started(<<next, t, u>>)
  /\ \A S, x, y, t, u : Started(<<If(S, x, y), t, u>>)
  /\ \A t, u : Started(<<anyIdentifier, t, u>>)
  /\ \A x, t, u, v : Started(<<want(x), t, u, v>>)
  /\ \A S, t, u : Started(<<set(S), t, u>>)
  /\ \A t, u, v, w : Started(<<next, t, u, v, w>>)
<1>1. /\ \A S, x, y : If(S, x, y).op = "if"
      /\ next.op = "next" /\ anyIdentifier.op = "anyIdentifier"
      /\ \A x : want(x).op = "want"
      /\ \A S : set(S).op = "set"
  BY IfParts DEF next, anyIdentifier, want, set
<1>2. /\ \A i, t : Head(<<i, t>>) = i /\ <<i, t>> # <<>>
      /\ \A i, t, u : Head(<<i, t, u>>) = i /\ <<i, t, u>> # <<>>
      /\ \A i, t, u, v : Head(<<i, t, u, v>>) = i /\ <<i, t, u, v>> # <<>>
      /\ \A i, t, u, v, w :
           Head(<<i, t, u, v, w>>) = i /\ <<i, t, u, v, w>> # <<>>
  OBVIOUS
<1>. QED  BY <1>1, <1>2 DEF Started

LEMMA LookingStarts ==
  ASSUME NEW ts, NEW b, NEW f, Looking(ts, b, f)
  PROVE  Started(b)
<1>1. \A o : Started(<<cursorTest(o), declared>>)
  BY StartedForms DEF cursorTest
<1>2. /\ Started(<<aliasTest, declared>>) /\ Started(<<noTest, declared>>)
      /\ Started(<<scrollTest, declared>>) /\ Started(<<optionTest, declared>>)
  BY StartedForms DEF aliasTest, noTest, scrollTest, optionTest
<1>3. Started(parseDeclStatement)
  BY StartedForms, DeclarationCode
<1>4. \A t : Started(<<next, t, declared>>)
  BY StartedForms
<1>. QED  BY <1>1, <1>2, <1>3, <1>4 DEF Looking

LEMMA RecordingStarts ==
  ASSUME NEW ts, NEW b, NEW f, Recording(ts, b, f)
  PROVE  Started(b)
<1>. DEFINE w == set(Written(ts, f))
            U == Quiet \cup {w, want(semi), declared}
<1>1. PICK q \in Seq(Quiet) : EndsIn(b, <<w>> \o (q \o <<want(semi), declared>>))
  BY DEF Recording
<1>. DEFINE r == q \o <<want(semi), declared>>
            t == <<w>> \o r
<1>2. r \in Seq(U)
  OBVIOUS
<1>3. w \in U /\ w.op = "set"
  BY DEF set
<1>. HIDE DEF U, w, r
<1>4. t \in Seq(U) /\ t # <<>> /\ Head(t) = w
  BY <1>2, <1>3, Prefixed
<1>5. Started(t)
  BY <1>3, <1>4 DEF Started
<1>. HIDE DEF t
<1>6. EndsIn(b, t)
  BY <1>1 DEF t, r, w
<1>. QED  BY <1>4, <1>5, <1>6, EndsInStarted

LEMMA PlainlyStarts ==
  ASSUME NEW ts, NEW free, NEW b, NEW f, Plainly(ts, free, b, f)
  PROVE  Started(b)
<1>1. CASE b = <<pushBack>> \o (parseDeclVarRest \o <<declared>>)
  <2>1. b = <<pushBack>> \o (typeRest \o <<notNullTest, lastTest, declared>>)
    BY <1>1, Remains
  <2>2. typeRest \o <<notNullTest, lastTest, declared>>
          \in Seq(Quiet \cup {notNullTest, lastTest, declared})
    BY QuietForms
  <2>3. b # <<>> /\ Head(b) = pushBack
    BY <2>1, <2>2, Prefixed
  <2>4. pushBack.op = "pushBack"
    BY DEF pushBack
  <2>. QED  BY <2>3, <2>4 DEF Started
<1>2. CASE EndsIn(b, <<notNullTest, lastTest, declared>>)
  <2>. DEFINE t == <<notNullTest, lastTest, declared>>
  <2>1. t \in Seq({notNullTest, lastTest, declared})
    OBVIOUS
  <2>2. Started(t)
    BY StartedForms DEF notNullTest, When
  <2>. HIDE DEF t
  <2>. QED  BY <1>2, <2>1, <2>2, EndsInStarted DEF t
<1>3. CASE b = notNullRest \o <<lastTest, declared>>
  BY <1>3, Remains, StartedForms
<1>4. CASE b = <<want("NULL"), set({"notnull"}), lastTest, declared>>
  BY <1>4, StartedForms
<1>5. CASE b = <<set({"notnull"}), lastTest, declared>>
  BY <1>5, StartedForms
<1>. QED  BY <1>1, <1>2, <1>3, <1>4, <1>5 DEF Plainly

LEMMA DeclHead ==
  ASSUME NEW ts, NEW free, NEW b, NEW f, NEW fields,
         DeclAt(ts, free, b, f, fields)
  PROVE  /\ b # <<>> /\ Head(b).op \notin {"call", "parseProcStmt"}
         /\ Head(b).op = "node" =>
              /\ free /\ Head(b) = declared
              /\ Known(ts, f) /\ fields \cap Options = Written(ts, f)
              /\ "notnull" \in fields => NotNullBefore(ts, f, Len(ts) - 1)
<1>1. CASE Looking(ts, b, f) \/ Recording(ts, b, f) \/ Plainly(ts, free, b, f)
  BY <1>1, LookingStarts, RecordingStarts, PlainlyStarts DEF Started
<1>2. CASE Closing(ts, free, b, f, fields)
  <2>1. EndsIn(b, <<lastTest, declared>>) => Started(b)
    <3>. DEFINE t == <<lastTest, declared>>
    <3>1. t \in Seq({lastTest, declared})
      OBVIOUS
    <3>2. Started(t)
      BY StartedForms DEF lastTest
    <3>. HIDE DEF t
    <3>3. EndsIn(b, t) => Started(b)
      BY <3>1, <3>2, EndsInStarted
    <3>. QED  BY <3>3 DEF t
  <2>2. EndsIn(b, <<want(semi), declared>>) => Started(b)
    <3>. DEFINE t == <<want(semi), declared>>
    <3>1. t \in Seq({want(semi), declared})
      OBVIOUS
    <3>2. Started(t)
      BY StartedForms
    <3>. HIDE DEF t
    <3>3. EndsIn(b, t) => Started(b)
      BY <3>1, <3>2, EndsInStarted
    <3>. QED  BY <3>3 DEF t
  <2>3. b = <<next, declared>> => Started(b)
    BY StartedForms
  <2>4. CASE Started(b)
    BY <2>4 DEF Started
  <2>5. CASE /\ free /\ b = <<declared>>
             /\ "notnull" \in fields => NotNullBefore(ts, f, Len(ts) - 1)
    <3>1. b # <<>> /\ Head(b) = declared
      BY <2>5
    <3>2. declared.op = "node"
      BY DEF declared, node, nodeWith
    <3>3. Known(ts, f) /\ fields \cap Options = Written(ts, f)
      BY <1>2 DEF Closing
    <3>. QED  BY <2>5, <3>1, <3>2, <3>3
  <2>. QED  BY <1>2, <2>1, <2>2, <2>3, <2>4, <2>5 DEF Closing
<1>. QED  BY <1>1, <1>2 DEF DeclAt

----------------------------------------------------------------------------
(* The steps, as long as the text has no error.                            *)

LEMMA NoErrorYet ==
  ASSUME Inv, first' = 0
  PROVE  ~SyntaxError /\ ([Next]_vars => first = 0)
<1>1. cur > 0 /\ first \in 0 .. cur
  BY HistoryTypes DEF Inv, TypeOK
<1>2. ~SyntaxError
  BY <1>1 DEF SyntaxError
<1>3. NoError => first = 0
  BY DEF NoError
<1>4. [Next]_vars => NoError \/ SyntaxError
  <2>1. UNCHANGED vars => NoError
    BY DEF vars, NoError
  <2>2. Parse => NoError \/ SyntaxError
    BY InstructionStep, OptionalSemicolonStep, ExpectEndOfInputStep
       DEF Parse, Errors
  <2>. QED  BY <2>1, <2>2 DEF Next, Returned
<1>. QED  BY <1>2, <1>3, <1>4

LEMMA MovePasses ==
  ASSUME Inv, NEW use \in Uses, MoveOn(use)
  PROVE  Passes(toks, ~pushed, toks', ~pushed')
<1>1. /\ ~pushed'
      /\ IF tok = EOF THEN toks' = toks
         ELSE IF pushed THEN toks' = toks
         ELSE cur' = cur + 1 /\ \A i \in 1 .. cur : toks'[i] = toks[i]
  BY MoveOnCases
<1>. QED  BY <1>1 DEF Passes, tok, cur

LEMMA StayWaits ==
  ASSUME Stay
  PROVE  Waits(toks, ~pushed, toks', ~pushed')
  BY DEF Stay, Waits

(* The running function goes on with the code b2, once it has set fields.   *)
Turned(b2, fields) ==
  LET n == Len(acts)
  IN  /\ Running /\ Body # <<>>
      /\ Turn(Body, toks, ~pushed, b2, toks', ~pushed', fields)
      /\ nodes' = nodes /\ Len(acts') = n /\ acts'[n].at = acts[n].at
      /\ acts'[n].fields = acts[n].fields \cup fields
      /\ code'[n] = b2 /\ \A k \in 1 .. n - 1 : code'[k] = code[k]

LEMMA GoOnTurns ==
  ASSUME Inv, StacksAgree, Running, Body # <<>>, NEW b2, GoOnWith(b2),
         Turn(Body, toks, ~pushed, b2, toks', ~pushed', {})
  PROVE  Turned(b2, {})
<1>1. /\ acts' = acts /\ nodes' = nodes
      /\ code' = [code EXCEPT ![Len(code)] = b2]
  BY DEF GoOnWith
<1>2. /\ code'[Len(acts)] = b2
      /\ \A k \in 1 .. Len(acts) - 1 : code'[k] = code[k]
  BY <1>1, GoOnStacks
<1>3. acts[Len(acts)].fields = acts[Len(acts)].fields \cup {}
  OBVIOUS
<1>. QED  BY <1>1, <1>2, <1>3 DEF Turned

(* Instructions that move past the current token, and that do not.          *)
LEMMA TokenTurns ==
  ASSUME Inv, StacksAgree, first' = 0,
         Want \/ Got \/ TakeToken \/ AnyIdentifier \/ PutBack
  PROVE  Turned(Tail(Body), {})
<1>1. ~SyntaxError
  BY NoErrorYet
<1>2. "syntax" \in Uses /\ "text" \in Uses /\ "lost" \in Uses
  BY DEF Uses
<1>3. Running /\ Body # <<>> /\ GoOnWith(Tail(Body))
  BY DEF Want, Got, TakeToken, AnyIdentifier, PutBack, At, Done
<1>. DEFINE T == Turn(Body, toks, ~pushed, Tail(Body), toks', ~pushed', {})
            past == Passes(toks, ~pushed, toks', ~pushed')
            waits == Waits(toks, ~pushed, toks', ~pushed')
<1>4. CASE Want
  <2>1. Ins.op = "want" /\ tok \in Ins.on /\ past
    BY <1>1, <1>2, <1>4, MovePasses DEF Want, At
  <2>. HIDE DEF past
  <2>2. T
    BY <2>1 DEF Turn, past, Ins, tok, cur
  <2>. QED  BY <1>3, <2>2, GoOnTurns
<1>5. CASE Got
  <2>1. Ins.op = "got" /\ ((tok \in Ins.on /\ past) \/ waits)
    BY <1>2, <1>5, MovePasses, StayWaits DEF Got, At
  <2>. HIDE DEF past, waits
  <2>2. T
    BY <2>1 DEF Turn, past, waits, Ins, tok, cur
  <2>. QED  BY <1>3, <2>2, GoOnTurns
<1>6. CASE TakeToken
  <2>1. Ins.op \in {"next", "lit", "skip"}
    BY <1>6 DEF TakeToken, At
  <2>2. \E use \in Uses : MoveOn(use)
    <3>1. {"syntax", "text", "lost"} = Uses
      BY DEF Uses
    <3>. QED  BY <1>6, <2>1, <3>1, Zenon DEF TakeToken
  <2>3. past
    BY <2>2, MovePasses
  <2>. HIDE DEF past
  <2>4. T
    BY <2>1, <2>3 DEF Turn, past, Ins
  <2>. QED  BY <1>3, <2>4, GoOnTurns
<1>7. CASE AnyIdentifier
  <2>1. Ins.op = "anyIdentifier" /\ tok \in Identifiers /\ past
    BY <1>1, <1>2, <1>7, MovePasses DEF AnyIdentifier, At
  <2>. HIDE DEF past
  <2>2. T
    BY <2>1 DEF Turn, past, Ins, tok, cur
  <2>. QED  BY <1>3, <2>2, GoOnTurns
<1>8. CASE PutBack
  <2>1. Ins.op = "pushBack" /\ toks' = toks /\ pushed'
    BY <1>8 DEF PutBack, PushBack, At
  <2>2. T
    BY <2>1 DEF Turn, Ins
  <2>. QED  BY <1>3, <2>2, GoOnTurns
<1>. QED  BY <1>4, <1>5, <1>6, <1>7, <1>8

LEMMA CollectTurns ==
  ASSUME Inv, StacksAgree, Collect
  PROVE  \E b2 : Turned(b2, {})
<1>. DEFINE use == IF Ins.op = "collect" THEN "text" ELSE "lost"
<1>1. Running /\ Body # <<>> /\ Ins.op \in {"collect", "discard"}
  BY DEF Collect, At
<1>2. CASE Done /\ Stay
  <2>1. Waits(toks, ~pushed, toks', ~pushed') /\ GoOnWith(Tail(Body))
    BY <1>2, StayWaits DEF Done
  <2>2. Turn(Body, toks, ~pushed, Tail(Body), toks', ~pushed', {})
    BY <1>1, <2>1 DEF Turn, Ins
  <2>3. Turned(Tail(Body), {})
    BY <1>1, <2>1, <2>2, GoOnTurns
  <2>. QED  BY <2>3
<1>3. CASE MoveOn(use) /\ UNCHANGED <<pc, code, acts, nodes>>
  <2>1. use \in Uses
    BY DEF Uses
  <2>2. Passes(toks, ~pushed, toks', ~pushed')
    BY <1>3, <2>1, MovePasses
  <2>3. Turn(Body, toks, ~pushed, Body, toks', ~pushed', {})
    BY <1>1, <2>2 DEF Turn, Ins
  <2>4. Body = code[Len(acts)]
    BY <1>1, RunningCode
  <2>5. Turned(Body, {})
    BY <1>1, <1>3, <2>3, <2>4 DEF Turned
  <2>. QED  BY <2>5
<1>. QED  BY <1>2, <1>3 DEF Collect

LEMMA BranchTurns ==
  ASSUME Inv, StacksAgree, Branch
  PROVE  \E b2 : Turned(b2, {})
<1>1. /\ Running /\ Body # <<>> /\ Ins.op \in {"if", "while", "until"}
      /\ Waits(toks, ~pushed, toks', ~pushed')
  BY StayWaits DEF Branch, At
<1>. DEFINE T(b2) == Turn(Body, toks, ~pushed, b2, toks', ~pushed', {})
<1>2. \E b2 : GoOnWith(b2) /\ T(b2)
  <2>1. CASE Ins.op = "if"
    <3>. DEFINE b2 == (IF tok \in Ins.on THEN Ins.then ELSE Ins.else)
                      \o Tail(Body)
    <3>1. GoOnWith(b2)
      BY <2>1, Zenon DEF Branch
    <3>2. T(b2)
      BY <1>1, <2>1 DEF Turn, Ins, tok, cur
    <3>. QED  BY <3>1, <3>2
  <2>2. CASE Ins.op = "while"
    <3>. DEFINE b2 == IF tok \in Ins.on THEN Ins.body \o Body ELSE Tail(Body)
    <3>1. GoOnWith(b2)
      BY <2>2, Zenon DEF Branch
    <3>2. T(b2)
      BY <1>1, <2>2 DEF Turn, Ins, tok, cur
    <3>. QED  BY <3>1, <3>2
  <2>3. CASE Ins.op = "until"
    <3>. DEFINE b2 == IF tok \in Ins.on THEN Tail(Body) ELSE Ins.body \o Body
    <3>1. GoOnWith(b2)
      BY <2>3, Zenon DEF Branch
    <3>2. T(b2)
      BY <1>1, <2>3 DEF Turn, Ins, tok, cur
    <3>. QED  BY <3>1, <3>2
  <2>. QED  BY <1>1, <2>1, <2>2, <2>3
<1>3. \A b2 : GoOnWith(b2) /\ T(b2) => Turned(b2, {})
  BY <1>1, GoOnTurns
<1>. QED  BY <1>2, <1>3

LEMMA SetFieldsTurns ==
  ASSUME Inv, StacksAgree, SetFields
  PROVE  \E b2 : Turned(b2, Ins.fields)
<1>. DEFINE n == Len(acts)
            r == [acts[n] EXCEPT !.fields = @ \cup Ins.fields]
<1>1. /\ Running /\ Body # <<>> /\ Ins.op = "set" /\ Ins.fields \subseteq Fields
      /\ code' = [code EXCEPT ![Len(code)] = Tail(Body)] /\ nodes' = nodes
      /\ Waits(toks, ~pushed, toks', ~pushed')
  BY StayWaits DEF SetFields, At
<1>2. n \in 1 .. n /\ acts \in Seq(Locals)
  BY <1>1, StackTypes, RunningCode
<1>3. acts[n] \in Locals
  BY <1>2
<1>4. /\ r \in Locals /\ r.at = acts[n].at
      /\ r.fields = acts[n].fields \cup Ins.fields
  BY <1>1, <1>3 DEF Locals
<1>5. acts' = [acts EXCEPT ![n] = r]
  BY DEF SetFields
<1>. HIDE DEF r
<1>6. Len(acts') = n /\ acts'[n] = r
  BY <1>2, <1>4, <1>5, ExceptSeq
<1>7. /\ code'[n] = Tail(Body)
      /\ \A k \in 1 .. n - 1 : code'[k] = code[k]
  BY <1>1, GoOnStacks
<1>8. Turn(Body, toks, ~pushed, Tail(Body), toks', ~pushed', Ins.fields)
  BY <1>1 DEF Turn, Ins
<1>. QED  BY <1>1, <1>4, <1>6, <1>7, <1>8 DEF Turned

(* What has been read of a declaration stays read as the text goes on.      *)
LEMMA NodeTypes ==
  ASSUME Inv
  PROVE  \A n \in NodesOf({"DeclVar"}) : n.from \in Nat /\ n.to \in Nat
<1>1. nodes \in Seq(Nodes)
  BY DEF Inv, TypeOK, Nodes
<1>2. \A n \in NodesOf({"DeclVar"}) : n \in Nodes
  BY <1>1 DEF NodesOf
<1>. QED  BY <1>2 DEF Nodes

LEMMA ReadStays ==
  ASSUME Inv, toks' \in Seq(Token), Extends(toks, toks'), NEW n,
         n.from \in Nat, n.to \in Nat, ReadRight(n)
  PROVE  ReadRight(n)'
<1>1. toks \in Seq(Token) /\ cur \in Nat
  BY HistoryTypes
<1>2. /\ Known(toks, n.from) /\ n.to <= Len(toks)
      /\ n.fields \cap Options = Written(toks, n.from)
      /\ "notnull" \in n.fields => NotNullBefore(toks, n.from, n.to - 1)
  BY DEF ReadRight, cur
<1>3. Known(toks', n.from) /\ Written(toks', n.from) = Written(toks, n.from)
  BY <1>1, <1>2, KnownStays
<1>4. Len(toks) \in Nat /\ Len(toks') \in Nat /\ Len(toks) <= Len(toks')
  BY <1>1 DEF Extends
<1>5. NotNullBefore(toks, n.from, n.to - 1) =>
        NotNullBefore(toks', n.from, n.to - 1)
  <2>1. SUFFICES ASSUME NEW k \in n.from + 1 .. n.to - 1 - 2,
                        toks[k] = "NOT", toks[k + 1] = "NULL"
                 PROVE  NotNullBefore(toks', n.from, n.to - 1)
    BY DEF NotNullBefore
  <2>2. k \in 1 .. Len(toks) /\ k + 1 \in 1 .. Len(toks)
    BY <1>2, <1>4
  <2>3. toks'[k] = "NOT" /\ toks'[k + 1] = "NULL"
    BY <2>1, <2>2 DEF Extends
  <2>. QED  BY <2>3 DEF NotNullBefore
<1>. QED  BY <1>2, <1>3, <1>4, <1>5 DEF ReadRight, cur

LEMMA AllStayRead ==
  ASSUME Inv, toks' \in Seq(Token), Extends(toks, toks'), nodes' = nodes, AllRead
  PROVE  AllRead'
<1>1. \A n \in NodesOf({"DeclVar"}) : ReadRight(n)'
  BY NodeTypes, ReadStays DEF AllRead
<1>2. NodesOf({"DeclVar"})' = NodesOf({"DeclVar"})
  BY DEF NodesOf
<1>. QED  BY <1>1, <1>2 DEF AllRead

(* Nothing but a token more or less happens to the scanned tokens.          *)
LEMMA TurnedExtends ==
  ASSUME Inv, NEW b2, NEW fields, Turned(b2, fields)
  PROVE  Extends(toks, toks')
<1>1. toks \in Seq(Token)
  BY HistoryTypes
<1>2. \/ Passes(toks, ~pushed, toks', ~pushed')
      \/ Waits(toks, ~pushed, toks', ~pushed') \/ toks' = toks
  BY DEF Turned, Turn
<1>. QED  BY <1>1, <1>2, TurnExtends DEF Extends

LEMMA TurnKeepsRead ==
  ASSUME Inv, Inv', StacksAgree, StackRead, AllRead, NEW b2, NEW fields,
         Turned(b2, fields)
  PROVE  StackRead' /\ AllRead'
<1>. DEFINE n == Len(acts)
<1>1. /\ Running /\ Body # <<>>
      /\ Turn(Body, toks, ~pushed, b2, toks', ~pushed', fields)
      /\ nodes' = nodes /\ Len(acts') = n /\ acts'[n].at = acts[n].at
      /\ acts'[n].fields = acts[n].fields \cup fields
      /\ code'[n] = b2 /\ \A k \in 1 .. n - 1 : code'[k] = code[k]
  BY DEF Turned
<1>2. /\ n \in 1 .. n /\ n \in Nat /\ Body = code[n]
      /\ (~pushed) \in BOOLEAN /\ acts[n] \in Locals
  BY <1>1, StackTypes, RunningCode
<1>3. toks \in Seq(Token) /\ toks' \in Seq(Token) /\ acts[n].at \in Nat
  BY <1>2, HistoryTypes DEF Inv, TypeOK, StreamType, Locals
<1>4. AllRead'
  BY <1>1, <1>3, TurnedExtends, AllStayRead
<1>5. (~pushed') \in BOOLEAN
  OBVIOUS
<1>6. ASSUME Calm(n - 1), b2 \in Seq(Tame) \/ Heading(~pushed', b2)
      PROVE  StackRead'
  <2>1. \A k \in 1 .. n - 1 : code'[k] \in Seq(Tame)
    BY <1>1, <1>6 DEF Calm
  <2>2. b2 \in Seq(Tame) => \A k \in 1 .. n : code'[k] \in Seq(Tame)
    BY <1>1, <1>2, <2>1
  <2>. QED  BY <1>1, <1>2, <1>6, <2>1, <2>2 DEF StackRead, Calm
<1>7. CASE Calm(n)
  <2>1. Calm(n - 1) /\ Body \in Seq(Tame)
    BY <1>2, <1>7 DEF Calm
  <2>2. b2 \in Seq(Tame) \/ Heading(~pushed', b2)
    BY <1>1, <2>1, TameTurn
  <2>. QED  BY <1>4, <1>6, <2>1, <2>2
<1>8. CASE Calm(n - 1) /\ Heading(~pushed, code[n])
  <2>1. b2 \in Seq(Tame) \/ Heading(~pushed', b2)
    BY <1>1, <1>2, <1>5, <1>8, HeadingTurn
  <2>. QED  BY <1>4, <1>6, <1>8, <2>1
<1>9. CASE /\ n > 1 /\ Calm(n - 2) /\ Declaring(code[n - 1])
           /\ DeclAt(toks, ~pushed, code[n], acts[n].at, acts[n].fields)
  <2>1. DeclAt(toks', ~pushed', b2, acts[n].at, acts[n].fields \cup fields)
    BY <1>1, <1>2, <1>3, <1>9, DeclTurn
  <2>2. \A k \in 1 .. n - 2 : code'[k] \in Seq(Tame)
    BY <1>1, <1>2, <1>9 DEF Calm
  <2>3. code'[n - 1] = code[n - 1]
    BY <1>1, <1>2, <1>9
  <2>4. StackRead'
    BY <1>1, <1>9, <2>1, <2>2, <2>3 DEF StackRead, Calm
  <2>. QED  BY <1>4, <2>4
<1>. QED  BY <1>7, <1>8, <1>9 DEF StackRead

----------------------------------------------------------------------------
(* Calls and returns.                                                      *)

(* What tame code calls is tame, and no declaration is returned by it.      *)
LEMMA TameHead ==
  ASSUME NEW i \in Tame
  PROVE  /\ i.op = "call" => i.body \in Seq(Tame)
         /\ i.op = "node" => i.kind # "DeclVar"
<1>1. i \in BranchCalls => i.op = "call" /\ i.body \in Seq(Tame)
  BY BranchesAreTame DEF BranchCalls
<1>2. i \in BlockCalls => i.op = "call" /\ i.body \in Seq(Tame)
  BY BlockCallBodies, BlocksAreTame, Operations
<1>3. i \in Plain(OtherKinds) =>
        i.op # "call" /\ (i.op = "node" => i.kind # "DeclVar")
  BY DEF Plain, OtherKinds
<1>4. pushBack.op = "pushBack" /\ declares.op = "if"
  BY IfParts DEF pushBack, declares, When
<1>. QED  BY <1>1, <1>2, <1>3, <1>4, TameParts

(* In a declaration section, parseDeclStatement is all that is called.      *)
LEMMA HeadingHead ==
  ASSUME NEW free, NEW b, Heading(free, b)
  PROVE  /\ b # <<>> /\ Head(b).op \notin {"parseProcStmt", "node"}
         /\ Head(b).op = "call" =>
              free /\ Head(b).body = parseDeclStatement /\ Declaring(Tail(b))
<1>. DEFINE D == parseDeclSection
            S == call(parseDeclStatement)
<1>1. PICK s \in Seq(Tame) : HeadingTo(free, b, s)
  BY DEF Heading
<1>2. /\ <<D>> \o s # <<>> /\ Head(<<D>> \o s) = D
      /\ \A i : /\ <<i, D>> \o s # <<>> /\ Head(<<i, D>> \o s) = i
                /\ Tail(<<i, D>> \o s) = <<D>> \o s
  BY Prefixed
<1>3. /\ next.op = "next" /\ D.op = "until" /\ syntaxError.op = "syntaxError"
      /\ declareTest.op = "if" /\ labelTest.op = "if"
      /\ S.op = "call" /\ S.body = parseDeclStatement
  BY DeclSectionParts DEF next, syntaxError, call
<1>4. /\ mislabelled \o (<<D>> \o s) # <<>>
      /\ Head(mislabelled \o (<<D>> \o s)) = syntaxError
  <2>1. <<D>> \o s \in Seq(Tame \cup {D})
    OBVIOUS
  <2>2. /\ mislabelled # <<>> /\ Head(mislabelled) = syntaxError
        /\ mislabelled \in Seq({syntaxError, next, anyIdentifier, got({">>"})})
    BY DEF mislabelled
  <2>. HIDE DEF D
  <2>. QED  BY <2>1, <2>2, Prefixed
<1>5. Declaring(<<D>> \o s)
  BY DEF Declaring
<1>6. \/ b = <<D>> \o s \/ b = mislabelled \o (<<D>> \o s)
      \/ b = <<next, D>> \o s \/ b = <<declareTest, D>> \o s
      \/ b = <<labelTest, D>> \o s \/ (free /\ b = <<S, D>> \o s)
  BY <1>1 DEF HeadingTo
<1>. HIDE DEF D, S
<1>. QED  BY <1>2, <1>3, <1>4, <1>5, <1>6

LEMMA CallLocals ==
  ASSUME Inv, StacksAgree, Running, NEW b, Call(b)
  PROVE  /\ acts'[Len(acts) + 1].at = cur
         /\ acts'[Len(acts) + 1].fields = {}
<1>. DEFINE a == [at |-> cur, begun |-> Len(moved), fields |-> {}]
<1>1. acts \in Seq(Locals) /\ acts' = Append(acts, a)
  BY StackTypes DEF Call
<1>2. a \in Locals /\ a.at = cur /\ a.fields = {}
  BY DEF Inv, TypeOK, StreamType, Locals, cur
<1>. HIDE DEF a
<1>3. acts'[Len(acts) + 1] = a
  BY <1>1, <1>2, AppendProperties
<1>. QED  BY <1>2, <1>3

LEMMA CallKeepsRead ==
  ASSUME Inv, StacksAgree, StackRead, AllRead, CallFunction \/ ParseProcStmt
  PROVE  StackRead' /\ AllRead'
<1>. DEFINE n == Len(acts)
            c == IF Ins.op = "call" THEN Ins.body ELSE Statement(tok)
<1>1. /\ Running /\ Body # <<>> /\ Ins.op \in {"call", "parseProcStmt"}
      /\ Call(c)
  BY DEF CallFunction, ParseProcStmt, At
<1>2. /\ n \in 1 .. n /\ n \in Nat /\ Body = code[n] /\ tok \in Token
  BY <1>1, RunningCode, HistoryTypes DEF tok
<1>3. /\ Len(acts') = n + 1
      /\ acts'[n + 1].at = cur /\ acts'[n + 1].fields = {}
      /\ code'[n + 1] = c /\ code'[n] = Tail(Body)
      /\ \A k \in 1 .. n - 1 : code'[k] = code[k]
  BY <1>1, CallStacks, CallLocals
<1>4. toks' = toks /\ pushed' = pushed /\ nodes' = nodes
  BY <1>1 DEF Call, Stay
<1>5. AllRead'
  BY <1>4 DEF AllRead, ReadRight, NodesOf, cur
<1>6. CASE Calm(n)
  <2>1. Body \in Seq(Tame)
    BY <1>2, <1>6 DEF Calm
  <2>2. Ins \in Tame /\ Tail(Body) \in Seq(Tame)
    BY <1>1, <2>1 DEF Ins
  <2>3. c \in Seq(Tame)
    BY <1>2, <2>2, TameHead, StatementsAreTame
  <2>4. \A k \in 1 .. n - 1 : code'[k] \in Seq(Tame)
    BY <1>2, <1>3, <1>6 DEF Calm
  <2>5. ASSUME NEW k \in 1 .. n + 1
        PROVE  code'[k] \in Seq(Tame)
    <3>1. k \in 1 .. n - 1 \/ k = n \/ k = n + 1
      BY <1>2
    <3>. QED  BY <1>3, <2>2, <2>3, <2>4, <3>1
  <2>6. StackRead'
    BY <1>3, <2>5 DEF StackRead, Calm
  <2>. QED  BY <1>5, <2>6
<1>7. CASE Calm(n - 1) /\ Heading(~pushed, code[n])
  <2>1. ~pushed /\ c = parseDeclStatement /\ Declaring(Tail(Body))
    BY <1>1, <1>2, <1>7, HeadingHead DEF Ins
  <2>2. DeclAt(toks, ~pushed, parseDeclStatement, cur, {})
    BY <2>1 DEF DeclAt, Looking, cur
  <2>3. DeclAt(toks', ~pushed', code'[n + 1], acts'[n + 1].at, acts'[n + 1].fields)
    BY <1>3, <1>4, <2>1, <2>2
  <2>4. \A k \in 1 .. n - 1 : code'[k] \in Seq(Tame)
    BY <1>3, <1>7 DEF Calm
  <2>5. StackRead'
    <3>1. n + 1 > 1 /\ (n + 1) - 2 = n - 1 /\ (n + 1) - 1 = n
      BY <1>2
    <3>. QED  BY <1>3, <2>1, <2>3, <2>4, <3>1 DEF StackRead, Calm
  <2>. QED  BY <1>5, <2>5
<1>8. CASE DeclAt(toks, ~pushed, code[n], acts[n].at, acts[n].fields)
  BY <1>1, <1>2, <1>8, DeclHead DEF Ins
<1>. QED  BY <1>6, <1>7, <1>8 DEF StackRead

(* A function that is not parseDeclStatement ends.                         *)
LEMMA LeaveKeepsCalm ==
  ASSUME Inv, StacksAgree, Running, Leave, Calm(Len(acts))
  PROVE  StackRead'
<1>. DEFINE n == Len(acts)
<1>1. /\ n \in 1 .. n /\ n \in Nat
      /\ Len(acts') = n - 1 /\ \A k \in 1 .. n - 1 : code'[k] = code[k]
  BY RunningCode, LeaveStacks
<1>2. \A k \in 1 .. n - 1 : code'[k] \in Seq(Tame)
  BY <1>1 DEF Calm
<1>. QED  BY <1>1, <1>2 DEF StackRead, Calm

LEMMA ReturnKeepsRead ==
  ASSUME Inv, StacksAgree, StackRead, AllRead, Return
  PROVE  StackRead' /\ AllRead'
<1>. DEFINE n == Len(acts)
<1>1. Running /\ Body = <<>> /\ Leave /\ nodes' = nodes /\ toks' = toks
  BY DEF Return, Leave, Stay
<1>2. Body = code[n]
  BY <1>1, RunningCode
<1>3. Calm(n)
  BY <1>1, <1>2, HeadingHead, DeclHead DEF StackRead
<1>4. StackRead'
  BY <1>1, <1>3, LeaveKeepsCalm
<1>5. AllRead'
  BY <1>1 DEF AllRead, ReadRight, NodesOf, cur
<1>. QED  BY <1>4, <1>5

LEMMA ReturnNodeKeepsRead ==
  ASSUME Inv, StacksAgree, StackRead, AllRead, ReturnNode
  PROVE  StackRead' /\ AllRead'
<1>. DEFINE n == Len(acts)
            d == [kind |-> Ins.kind, from |-> acts[n].at, to |-> cur,
                  begun |-> acts[n].begun, ended |-> Len(moved),
                  fields |-> acts[n].fields \cup Ins.fields]
<1>1. /\ Running /\ Leave /\ Body # <<>> /\ Ins.op = "node"
      /\ nodes' = Append(nodes, d)
      /\ toks' = toks /\ pushed' = pushed
  BY DEF ReturnNode, Leave, Stay, At
<1>2. n \in 1 .. n /\ n \in Nat /\ Body = code[n] /\ cur' = cur /\ cur \in Nat
  BY <1>1, RunningCode, HistoryTypes DEF cur
<1>3. /\ d.kind = Ins.kind /\ d.from = acts[n].at /\ d.to = cur
      /\ d.fields = acts[n].fields \cup Ins.fields
  OBVIOUS
<1>. HIDE DEF d
<1>4. ASSUME d.kind = "DeclVar" => ReadRight(d)
      PROVE  AllRead'
  <2>1. nodes \in Seq(Nodes)
    BY DEF Inv, TypeOK, Nodes
  <2>2. \A i \in DOMAIN nodes' :
          nodes'[i] = d \/ \E j \in DOMAIN nodes : nodes'[i] = nodes[j]
    <3>1. nodes \in Seq(Nodes \cup {d}) /\ d \in Nodes \cup {d}
      BY <2>1
    <3>. QED  BY <1>1, <3>1, AppendProperties
  <2>3. \A m : ReadRight(m) => ReadRight(m)'
    BY <1>1, <1>2 DEF ReadRight
  <2>. QED  BY <1>4, <2>2, <2>3 DEF AllRead, NodesOf
<1>5. CASE Calm(n)
  <2>1. Body \in Seq(Tame)
    BY <1>2, <1>5 DEF Calm
  <2>2. Ins \in Tame
    BY <1>1, <2>1 DEF Ins
  <2>3. d.kind # "DeclVar"
    BY <1>1, <1>3, <2>2, TameHead
  <2>. QED  BY <1>1, <1>4, <1>5, <2>3, LeaveKeepsCalm
<1>6. CASE Heading(~pushed, code[n])
  BY <1>1, <1>2, <1>6, HeadingHead DEF Ins
<1>7. CASE /\ n > 1 /\ Calm(n - 2) /\ Declaring(code[n - 1])
           /\ DeclAt(toks, ~pushed, code[n], acts[n].at, acts[n].fields)
  <2>0. Head(code[n]).op = "node" /\ Ins = Head(code[n])
    BY <1>1, <1>2 DEF Ins
  <2>1. /\ ~pushed /\ Ins = declared /\ Known(toks, acts[n].at)
        /\ acts[n].fields \cap Options = Written(toks, acts[n].at)
        /\ "notnull" \in acts[n].fields =>
             NotNullBefore(toks, acts[n].at, Len(toks) - 1)
    <3>. DEFINE free == ~pushed
                b == code[n]
                f == acts[n].at
                fs == acts[n].fields
    <3>1. DeclAt(toks, free, b, f, fs) /\ Head(b).op = "node"
      BY <1>7, <2>0
    <3>. HIDE DEF free, b, f, fs
    <3>2. /\ free /\ Head(b) = declared
          /\ Known(toks, f) /\ fs \cap Options = Written(toks, f)
          /\ "notnull" \in fs => NotNullBefore(toks, f, Len(toks) - 1)
      BY <3>1, DeclHead
    <3>. QED  BY <2>0, <3>2 DEF free, b, f, fs
  <2>2. Ins.fields = {}
    BY <2>1 DEF declared, node, nodeWith
  <2>3. d.fields = acts[n].fields
    BY <1>3, <2>2
  <2>4. ReadRight(d)
    BY <1>2, <1>3, <2>1, <2>3 DEF ReadRight, cur
  <2>5. /\ Len(acts') = n - 1
        /\ \A k \in 1 .. n - 1 : code'[k] = code[k]
    BY <1>1, LeaveStacks
  <2>6. n - 1 \in 1 .. n - 1 /\ n - 1 > 0 /\ (n - 1) - 1 = n - 2
    BY <1>2, <1>7
  <2>7. Heading(~pushed', code'[n - 1])
    BY <1>1, <1>7, <2>1, <2>5, <2>6 DEF Declaring, Heading, HeadingTo
  <2>8. \A k \in 1 .. n - 2 : code'[k] \in Seq(Tame)
    BY <1>2, <1>7, <2>5 DEF Calm
  <2>9. StackRead'
    BY <2>5, <2>6, <2>7, <2>8 DEF StackRead, Calm
  <2>. QED  BY <1>4, <2>4, <2>9
<1>. QED  BY <1>5, <1>6, <1>7 DEF StackRead

(* Past the outermost block, and when nothing happens.                     *)
LEMMA SemicolonKeepsRead ==
  ASSUME Inv, Inv', AllRead, OptionalSemicolon
  PROVE  StackRead' /\ AllRead'
<1>1. /\ acts' = <<>> /\ nodes' = nodes
      /\ MoveOn("syntax") \/ Stay
  BY DEF OptionalSemicolon
<1>2. toks \in Seq(Token) /\ toks' \in Seq(Token)
  BY HistoryTypes DEF Inv, TypeOK, StreamType
<1>3. Extends(toks, toks')
  <2>1. "syntax" \in Uses
    BY DEF Uses
  <2>2. \/ Passes(toks, ~pushed, toks', ~pushed')
        \/ Waits(toks, ~pushed, toks', ~pushed')
    BY <1>1, <2>1, MovePasses, StayWaits
  <2>. QED  BY <1>2, <2>2, TurnExtends
<1>4. AllRead'
  BY <1>1, <1>2, <1>3, AllStayRead
<1>5. StackRead'
  BY <1>1 DEF StackRead, Calm
<1>. QED  BY <1>4, <1>5

LEMMA IdleKeepsRead ==
  ASSUME StackRead, AllRead, Stay, UNCHANGED <<code, acts, nodes>>
  PROVE  StackRead' /\ AllRead'
<1>1. /\ toks' = toks /\ pushed' = pushed
      /\ code' = code /\ acts' = acts /\ nodes' = nodes
  BY DEF Stay
<1>2. StackRead'
  BY <1>1 DEF StackRead, Calm
<1>3. AllRead'
  BY <1>1 DEF AllRead, ReadRight, NodesOf, cur
<1>. QED  BY <1>2, <1>3

(* Parse starts in parseBlock, and no node has been returned.              *)
LEMMA StartsRead ==
  ASSUME Init
  PROVE  FieldsRead
<1>1. /\ code = <<parseBlock>> /\ nodes = <<>>
      /\ acts = <<[at |-> 1, begun |-> 0, fields |-> {}]>>
  BY DEF Init
<1>2. Len(acts) = 1 /\ code[1] = parseBlock
  BY <1>1
<1>3. parseBlock \in Seq(Tame)
  BY BlocksAreTame DEF BlockBodies
<1>4. StackRead
  BY <1>2, <1>3 DEF StackRead, Calm
<1>5. AllRead
  BY <1>1 DEF AllRead, NodesOf
<1>. QED  BY <1>4, <1>5 DEF FieldsRead

LEMMA NextKeepsRead ==
  ASSUME Inv, Inv', IInv, FieldsRead, [Next]_vars
  PROVE  FieldsRead'
<1>1. SUFFICES ASSUME first' = 0
               PROVE  StackRead' /\ AllRead'
  BY DEF FieldsRead
<1>2. StacksAgree /\ StackRead /\ AllRead /\ ~SyntaxError
  BY <1>1, NoErrorYet DEF IInv, FieldsRead
<1>3. \A b2, fields : Turned(b2, fields) => StackRead' /\ AllRead'
  BY <1>2, TurnKeepsRead
<1>4. ~Complain
  BY <1>2 DEF Complain
<1>5. Want \/ Got \/ TakeToken \/ AnyIdentifier \/ PutBack
        => StackRead' /\ AllRead'
  BY <1>1, <1>2, <1>3, TokenTurns
<1>6. Collect \/ Branch \/ SetFields => StackRead' /\ AllRead'
  BY <1>2, <1>3, CollectTurns, BranchTurns, SetFieldsTurns
<1>7. CallFunction \/ ParseProcStmt \/ ReturnNode \/ Return
        => StackRead' /\ AllRead'
  BY <1>2, CallKeepsRead, ReturnNodeKeepsRead, ReturnKeepsRead
<1>8. OptionalSemicolon => StackRead' /\ AllRead'
  BY <1>2, SemicolonKeepsRead
<1>9. ExpectEndOfInput \/ UNCHANGED vars => StackRead' /\ AllRead'
  BY <1>2, IdleKeepsRead DEF ExpectEndOfInput, vars, Stay
<1>. QED  BY <1>4, <1>5, <1>6, <1>7, <1>8, <1>9 DEF Next, Parse, Returned

LEMMA FieldsInvariance == Spec => []FieldsRead
<1>1. Init => FieldsRead
  BY StartsRead
<1>2. Inv /\ Inv' /\ IInv /\ FieldsRead /\ [Next]_vars => FieldsRead'
  BY NextKeepsRead
<1>. QED  BY <1>1, <1>2, Invariance, ProgressInvariance, PTL DEF Spec

(* In every text that Parse accepts, a declaration is made an alias, a      *)
(* cursor, or a cursor with a scroll option exactly when its text says so    *)
(* right after the name, the one-token pushback after a NO included; and it  *)
(* is made NOT NULL only if its text has both words.                       *)
THEOREM DeclarationsAreRead == Spec => []DeclarationFields
<1>1. Inv /\ FieldsRead => DeclarationFields
  <2>1. SUFFICES ASSUME Inv, FieldsRead, Accepted,
                        NEW n \in NodesOf({"DeclVar"})
                 PROVE  LET t(k) == At1(n.from + k)
                            plain    == t(1) = "CURSOR"
                            scroll   == t(1) = "SCROLL" /\ t(2) = "CURSOR"
                            noscroll == /\ t(1) = "NO" /\ t(2) = "SCROLL"
                                        /\ t(3) = "CURSOR"
                        IN  /\ "alias" \in n.fields <=> t(1) = "ALIAS"
                            /\ "cursor" \in n.fields <=>
                                 plain \/ scroll \/ noscroll
                            /\ "scroll" \in n.fields <=> scroll
                            /\ "noscroll" \in n.fields <=> noscroll
                            /\ "notnull" \in n.fields =>
                                 \E k \in n.from + 1 .. n.to - 3 :
                                   toks[k] = "NOT" /\ toks[k + 1] = "NULL"
    BY DEF DeclarationFields
  <2>2. /\ n.fields \cap Options = Written(toks, n.from)
        /\ "notnull" \in n.fields => NotNullBefore(toks, n.from, n.to - 1)
    BY <2>1 DEF FieldsRead, Accepted, AllRead, ReadRight
  <2>. DEFINE t(k) == At1(n.from + k)
              W == Written(toks, n.from)
  <2>3. W = IF t(1) = "ALIAS" THEN {"alias"}
            ELSE IF t(1) = "CURSOR" THEN {"cursor"}
            ELSE IF t(1) = "SCROLL" /\ t(2) = "CURSOR" THEN {"cursor", "scroll"}
            ELSE IF t(1) = "NO" /\ t(2) = "SCROLL" /\ t(3) = "CURSOR"
            THEN {"cursor", "noscroll"}
            ELSE {}
    BY DEF Written, At1, cur
  <2>4. \A x \in Options : x \in n.fields <=> x \in W
    BY <2>2
  <2>5. "notnull" \in n.fields =>
          \E k \in n.from + 1 .. n.to - 3 :
            toks[k] = "NOT" /\ toks[k + 1] = "NULL"
    <3>1. n.from \in Nat /\ n.to \in Nat
      BY <2>1, NodeTypes
    <3>2. (n.to - 1) - 2 = n.to - 3
      BY <3>1
    <3>. QED  BY <2>2, <3>2 DEF NotNullBefore
  <2>. HIDE DEF W, t
  <2>6. /\ "alias" \in n.fields <=> t(1) = "ALIAS"
        /\ "cursor" \in n.fields <=>
             \/ t(1) = "CURSOR" \/ (t(1) = "SCROLL" /\ t(2) = "CURSOR")
             \/ (t(1) = "NO" /\ t(2) = "SCROLL" /\ t(3) = "CURSOR")
        /\ "scroll" \in n.fields <=> t(1) = "SCROLL" /\ t(2) = "CURSOR"
        /\ "noscroll" \in n.fields <=>
             t(1) = "NO" /\ t(2) = "SCROLL" /\ t(3) = "CURSOR"
    BY <2>3, <2>4 DEF Options
  <2>. QED  BY <2>5, <2>6 DEF t
<1>. QED  BY <1>1, Invariance, FieldsInvariance, PTL

=============================================================================
