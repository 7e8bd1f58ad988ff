--------------------------- MODULE SemicolonProofs ---------------------------
(***************************************************************************)
(* Proof that a simple statement of an accepted text ends with its first    *)
(* semicolon outside parentheses, for every family of texts and bound.  The *)
(* code of a simple statement, at the token it has reached, is related to   *)
(* the code and the token one turn later; the statement is right if there   *)
(* is such a relation in which no semicolon is moved past but by the last   *)
(* turn.  One rule for each instruction builds these relations, so that the *)
(* functions are followed one after the other without a list of all that    *)
(* may be left of them.  A text may also stop in the middle of a statement: *)
(* then an END is missing, and the text is not accepted.                   *)
(***************************************************************************)
EXTENDS StatementProofs

----------------------------------------------------------------------------
(* Where a turn leads.                                                     *)

Live == Token \ {EOF}

(* The kinds of nodes that statements with a token taken unseen return.     *)
RaiseKinds == ComplexKinds \cup {"Raise"}
WordKinds == ComplexKinds \cup {"Assign", "ExecSQL"}

(* Moving past t leads to the code r: the semicolon is the last token, the   *)
(* options of RAISE follow USING, and any other token may come next; none of *)
(* them opens a parenthesis.                                               *)
Beyond(R, t, r) ==
  \/ t = semi /\ \E i : r = <<i>> /\ i.op = "node"
  \/ t = "USING" /\ r \in Seq(Other(RaiseKinds))
  \/ t \notin {semi, "("} /\ \A u \in Live : <<u, r>> \in R

(* A turn of the code b at the token t, outside parentheses, leads to R.     *)
Goes(R, t, b) ==
  LET i == Head(b)
      r == Tail(b)
  IN  /\ b # <<>>
      /\ \/ i.op = "want" /\ (t \in i.on => Beyond(R, t, r))
         \/ /\ i.op = "got"
            /\ t \in i.on => Beyond(R, t, r)
            /\ t \notin i.on => <<t, r>> \in R
         \/ i.op \in {"next", "lit"} /\ Beyond(R, t, r)
         \/ i.op = "anyIdentifier" /\ (t \in Identifiers => Beyond(R, t, r))
         \/ /\ i.op = "collect" /\ i.open = "(" /\ i.close = ")"
            /\ semi \in i.on /\ \A u \in i.on : <<u, r>> \in R
         \/ /\ i.op = "if"
            /\ t \in i.on => <<t, i.then \o r>> \in R
            /\ t \notin i.on => <<t, i.else \o r>> \in R
         \/ /\ i.op = "while"
            /\ t \in i.on => <<t, i.body \o b>> \in R
            /\ t \notin i.on => <<t, r>> \in R
         \/ /\ i.op = "until"
            /\ t \in i.on => <<t, r>> \in R
            /\ t \notin i.on => <<t, i.body \o b>> \in R
         \/ i.op = "set" /\ <<t, r>> \in R

(* The code b fits the text at every token of T, if H holds what fits.      *)
Closed(H, R) == \A t, b : <<t, b>> \in R => <<t, b>> \in H \/ Goes(R, t, b)
Fits(H, T, b) == \E R : Closed(H, R) /\ \A t \in T : <<t, b>> \in R

----------------------------------------------------------------------------
(* The rules.                                                              *)

LEMMA GoesMore ==
  ASSUME NEW R, NEW Q, R \subseteq Q, NEW t, NEW b, Goes(R, t, b)
  PROVE  Goes(Q, t, b)
<1>1. \A r : Beyond(R, t, r) => Beyond(Q, t, r)
  BY DEF Beyond
<1>. QED  BY <1>1 DEF Goes

(* A turn leads to code that fits at the tokens of S or to other at those   *)
(* of U.                                                                   *)
LEMMA FitsStep ==
  ASSUME NEW H, NEW S, NEW c, NEW U, NEW d, Fits(H, S, c), Fits(H, U, d),
         NEW T, NEW b,
         \A R : /\ \A t \in S : <<t, c>> \in R
                /\ \A t \in U : <<t, d>> \in R
                => \A t \in T : Goes(R, t, b)
  PROVE  Fits(H, T, b)
<1>1. PICK P : Closed(H, P) /\ \A t \in S : <<t, c>> \in P
  BY DEF Fits
<1>2. PICK Q : Closed(H, Q) /\ \A t \in U : <<t, d>> \in Q
  BY DEF Fits
<1>. DEFINE N == {<<t, b>> : t \in T}
            R == P \cup Q \cup N
<1>3. \A t \in T : <<t, b>> \in N
  OBVIOUS
<1>4. \A t, e : <<t, e>> \in N => t \in T /\ e = b
  OBVIOUS
<1>5. P \subseteq R /\ Q \subseteq R /\ N \subseteq R
  OBVIOUS
<1>6. \A t, e : <<t, e>> \in R => <<t, e>> \in P \/ <<t, e>> \in Q \/ <<t, e>> \in N
  OBVIOUS
<1>. HIDE DEF N, R
<1>7. \A t \in T : Goes(R, t, b)
  BY <1>1, <1>2, <1>5
<1>8. ASSUME NEW t, NEW e, <<t, e>> \in R
      PROVE  <<t, e>> \in H \/ Goes(R, t, e)
  <2>1. CASE <<t, e>> \in P
    BY <1>1, <1>5, <2>1, GoesMore DEF Closed
  <2>2. CASE <<t, e>> \in Q
    BY <1>2, <1>5, <2>2, GoesMore DEF Closed
  <2>3. CASE <<t, e>> \in N
    BY <1>4, <1>7, <2>3
  <2>. QED  BY <1>6, <1>8, <2>1, <2>2, <2>3
<1>9. Closed(H, R) /\ \A t \in T : <<t, b>> \in R
  BY <1>3, <1>5, <1>8 DEF Closed
<1>. QED  BY <1>9 DEF Fits

LEMMA FitsAt ==
  ASSUME NEW H, NEW S, NEW c, Fits(H, S, c), NEW T, NEW b,
         \A R : (\A t \in S : <<t, c>> \in R) => \A t \in T : Goes(R, t, b)
  PROVE  Fits(H, T, b)
BY FitsStep

LEMMA FitsNowhere ==
  ASSUME NEW H, NEW b
  PROVE  Fits(H, {}, b)
<1>1. Closed(H, {})
  BY DEF Closed
<1>. QED  BY <1>1 DEF Fits

LEMMA FitsLess ==
  ASSUME NEW H, NEW S, NEW b, Fits(H, S, b), NEW T, T \subseteq S
  PROVE  Fits(H, T, b)
BY DEF Fits

(* What is assumed.                                                        *)
LEMMA FitsAssumed ==
  ASSUME NEW H, NEW T, NEW b, \A t \in T : <<t, b>> \in H
  PROVE  Fits(H, T, b)
<1>. DEFINE N == {<<t, b>> : t \in T}
<1>1. \A t, e : <<t, e>> \in N => t \in T /\ e = b
  OBVIOUS
<1>2. \A t \in T : <<t, b>> \in N
  OBVIOUS
<1>. HIDE DEF N
<1>3. Closed(H, N)
  BY <1>1 DEF Closed
<1>. QED  BY <1>2, <1>3 DEF Fits

(* A loop fits if its body does, followed by the loop.                     *)
LEMMA FitsLoop ==
  ASSUME NEW H, NEW T, NEW b, NEW S, NEW c, NEW U, NEW d,
         Fits(H \cup {<<t, b>> : t \in T}, S, c), Fits(H, U, d),
         \A R : /\ \A t \in S : <<t, c>> \in R
                /\ \A t \in U : <<t, d>> \in R
                => \A t \in T : Goes(R, t, b)
  PROVE  Fits(H, T, b)
<1>. DEFINE N == {<<t, b>> : t \in T}
<1>1. PICK P : Closed(H \cup N, P) /\ \A t \in S : <<t, c>> \in P
  BY DEF Fits
<1>2. PICK Q : Closed(H, Q) /\ \A t \in U : <<t, d>> \in Q
  BY DEF Fits
<1>. DEFINE R == P \cup Q \cup N
<1>3. \A t \in T : <<t, b>> \in N
  OBVIOUS
<1>4. \A t, e : <<t, e>> \in N => t \in T /\ e = b
  OBVIOUS
<1>5. P \subseteq R /\ Q \subseteq R /\ N \subseteq R
  OBVIOUS
<1>6. \A t, e : <<t, e>> \in R => <<t, e>> \in P \/ <<t, e>> \in Q \/ <<t, e>> \in N
  OBVIOUS
<1>a. \A t, e : <<t, e>> \in H \cup N => <<t, e>> \in H \/ <<t, e>> \in N
  OBVIOUS
<1>. HIDE DEF N, R
<1>7. \A t \in T : Goes(R, t, b)
  BY <1>1, <1>2, <1>5
<1>8. ASSUME NEW t, NEW e, <<t, e>> \in R
      PROVE  <<t, e>> \in H \/ Goes(R, t, e)
  <2>1. CASE <<t, e>> \in P
    <3>1. <<t, e>> \in H \/ <<t, e>> \in N \/ Goes(P, t, e)
      BY <1>1, <1>a, <2>1 DEF Closed
    <3>. QED  BY <1>4, <1>5, <1>7, <3>1, GoesMore
  <2>2. CASE <<t, e>> \in Q
    BY <1>2, <1>5, <2>2, GoesMore DEF Closed
  <2>3. CASE <<t, e>> \in N
    BY <1>4, <1>7, <2>3
  <2>. QED  BY <1>6, <1>8, <2>1, <2>2, <2>3
<1>9. Closed(H, R) /\ \A t \in T : <<t, b>> \in R
  BY <1>3, <1>5, <1>8 DEF Closed
<1>. QED  BY <1>9 DEF Fits

----------------------------------------------------------------------------
(* One rule for each instruction.                                          *)

LEMMA InstructionForms ==
  /\ \A x : want(x).op = "want" /\ want(x).on = {x}
  /\ \A S : got(S).op = "got" /\ got(S).on = S
  /\ \A S : /\ collect(S).op = "collect" /\ collect(S).on = S
            /\ collect(S).open = "(" /\ collect(S).close = ")"
  /\ \A S, x : Until(S, x).op = "until" /\ Until(S, x).on = S
               /\ Until(S, x).body = x
  /\ \A k, F : nodeWith(k, F).op = "node" /\ nodeWith(k, F).kind = k
  /\ next.op = "next" /\ lit.op = "lit" /\ anyIdentifier.op = "anyIdentifier"
BY DEF want, got, collect, Until, nodeWith, next, lit, anyIdentifier

LEMMA LiveTokens ==
  /\ semi \in Live /\ comma \in Live /\ semi # comma /\ comma # "(" /\ semi # "("
  /\ semi # EOF /\ comma # EOF /\ "USING" # semi
  /\ \A t \in Identifiers \cup LabelTokens : t \notin {semi, "(", EOF}
BY DEF Live, Token, Symbols, semi, comma, EOF, Identifiers, LabelTokens, Names,
       WordStart, QuotedNames, Unreserved

(* Past a token that is no semicolon and no parenthesis.                   *)
LEMMA FitsPast ==
  ASSUME NEW H, NEW T, NEW b, b # <<>>, Fits(H, Live, Tail(b)),
         Head(b) \in {next, lit}, semi \notin T, "(" \notin T
  PROVE  Fits(H, T, b)
<1>1. Head(b).op \in {"next", "lit"}
  BY InstructionForms
<1>. DEFINE r == Tail(b)
<1>2. \A R : (\A t \in Live : <<t, r>> \in R) => \A t \in T : Goes(R, t, b)
  BY <1>1 DEF Goes, Beyond
<1>. HIDE DEF r
<1>. QED  BY <1>2, FitsAt DEF r

LEMMA FitsWant ==
  ASSUME NEW H, NEW T, NEW b, b # <<>>, Fits(H, Live, Tail(b)),
         NEW x, Head(b) = want(x), x \notin {semi, "("}
  PROVE  Fits(H, T, b)
<1>1. Head(b).op = "want" /\ Head(b).on = {x}
  BY InstructionForms
<1>. DEFINE r == Tail(b)
<1>2. \A R : (\A t \in Live : <<t, r>> \in R) => \A t \in T : Goes(R, t, b)
  BY <1>1 DEF Goes, Beyond
<1>. HIDE DEF r
<1>. QED  BY <1>2, FitsAt DEF r

LEMMA FitsName ==
  ASSUME NEW H, NEW T, NEW b, b # <<>>, Fits(H, Live, Tail(b)),
         Head(b) = anyIdentifier
  PROVE  Fits(H, T, b)
<1>1. Head(b).op = "anyIdentifier"
  BY InstructionForms
<1>. DEFINE r == Tail(b)
<1>2. \A t \in Identifiers : t \notin {semi, "("}
  BY LiveTokens
<1>3. \A R : (\A t \in Live : <<t, r>> \in R) => \A t \in T : Goes(R, t, b)
  BY <1>1, <1>2 DEF Goes, Beyond
<1>. HIDE DEF r
<1>. QED  BY <1>3, FitsAt DEF r

LEMMA FitsGot ==
  ASSUME NEW H, NEW T, T \subseteq Live, NEW b, b # <<>>, Fits(H, Live, Tail(b)),
         NEW S, Head(b) = got(S), semi \notin S, "(" \notin S
  PROVE  Fits(H, T, b)
<1>1. Head(b).op = "got" /\ Head(b).on = S
  BY InstructionForms
<1>. DEFINE r == Tail(b)
<1>2. \A R : (\A t \in Live : <<t, r>> \in R) => \A t \in T : Goes(R, t, b)
  BY <1>1 DEF Goes, Beyond
<1>. HIDE DEF r
<1>. QED  BY <1>2, FitsAt DEF r

LEMMA FitsCollect ==
  ASSUME NEW H, NEW T, NEW b, b # <<>>, NEW S, Fits(H, S, Tail(b)),
         Head(b) = collect(S), semi \in S
  PROVE  Fits(H, T, b)
<1>1. /\ Head(b).op = "collect" /\ Head(b).on = S
      /\ Head(b).open = "(" /\ Head(b).close = ")"
  BY InstructionForms
<1>. DEFINE r == Tail(b)
<1>2. \A R : (\A t \in S : <<t, r>> \in R) => \A t \in T : Goes(R, t, b)
  BY <1>1 DEF Goes
<1>. HIDE DEF r
<1>. QED  BY <1>2, FitsAt DEF r

LEMMA FitsIf ==
  ASSUME NEW H, NEW T, NEW b, b # <<>>, NEW S, NEW x, NEW y,
         Head(b) = If(S, x, y),
         Fits(H, T \cap S, x \o Tail(b)), Fits(H, T \ S, y \o Tail(b))
  PROVE  Fits(H, T, b)
<1>1. /\ Head(b).op = "if" /\ Head(b).on = S
      /\ Head(b).then = x /\ Head(b).else = y
  BY IfParts
<1>. DEFINE c == x \o Tail(b)
            d == y \o Tail(b)
<1>2. \A R : /\ \A t \in T \cap S : <<t, c>> \in R
             /\ \A t \in T \ S : <<t, d>> \in R
             => \A t \in T : Goes(R, t, b)
  BY <1>1 DEF Goes
<1>. HIDE DEF c, d
<1>. QED  BY <1>2, FitsStep DEF c, d

LEMMA FitsSet ==
  ASSUME NEW H, NEW T, NEW b, b # <<>>, NEW F, Head(b) = set(F),
         Fits(H, T, Tail(b))
  PROVE  Fits(H, T, b)
<1>1. Head(b).op = "set"
  BY ExecuteParts
<1>. DEFINE r == Tail(b)
<1>2. \A R : (\A t \in T : <<t, r>> \in R) => \A t \in T : Goes(R, t, b)
  BY <1>1 DEF Goes
<1>. HIDE DEF r
<1>. QED  BY <1>2, FitsAt DEF r

LEMMA FitsWhile ==
  ASSUME NEW H, NEW T, NEW b, b # <<>>, NEW S, NEW x, Head(b) = While(S, x),
         Fits(H \cup {<<t, b>> : t \in T}, T \cap S, x \o b),
         Fits(H, T \ S, Tail(b))
  PROVE  Fits(H, T, b)
<1>1. Head(b).op = "while" /\ Head(b).on = S /\ Head(b).body = x
  BY ExecuteParts
<1>. DEFINE c == x \o b
            d == Tail(b)
<1>2. \A R : /\ \A t \in T \cap S : <<t, c>> \in R
             /\ \A t \in T \ S : <<t, d>> \in R
             => \A t \in T : Goes(R, t, b)
  BY <1>1 DEF Goes
<1>. HIDE DEF c, d
<1>. QED  BY <1>2, FitsLoop DEF c, d

LEMMA FitsUntil ==
  ASSUME NEW H, NEW T, NEW b, b # <<>>, NEW S, NEW x, Head(b) = Until(S, x),
         Fits(H \cup {<<t, b>> : t \in T}, T \ S, x \o b),
         Fits(H, T \cap S, Tail(b))
  PROVE  Fits(H, T, b)
<1>1. Head(b).op = "until" /\ Head(b).on = S /\ Head(b).body = x
  BY InstructionForms
<1>. DEFINE c == x \o b
            d == Tail(b)
<1>2. \A R : /\ \A t \in T \ S : <<t, c>> \in R
             /\ \A t \in T \cap S : <<t, d>> \in R
             => \A t \in T : Goes(R, t, b)
  BY <1>1 DEF Goes
<1>. HIDE DEF c, d
<1>. QED  BY <1>2, FitsLoop DEF c, d

(* The last turns of a statement.                                          *)
LEMMA FitsEnd ==
  ASSUME NEW H, NEW T, NEW k, NEW F
  PROVE  /\ Fits(H, T, <<want(semi), nodeWith(k, F)>>)
         /\ Fits(H, {semi}, <<got({semi}), nodeWith(k, F)>>)
         /\ Fits(H, {semi}, <<next, nodeWith(k, F)>>)
<1>. DEFINE n == nodeWith(k, F)
<1>1. n.op = "node"
  BY InstructionForms
<1>. HIDE DEF n
<1>2. \A R : Beyond(R, semi, <<n>>)
  BY <1>1 DEF Beyond
<1>3. ASSUME NEW i
      PROVE  <<i, n>> # <<>> /\ Head(<<i, n>>) = i /\ Tail(<<i, n>>) = <<n>>
  OBVIOUS
<1>4. ASSUME NEW i, NEW U, \A R : \A t \in U : Goes(R, t, <<i, n>>)
      PROVE  Fits(H, U, <<i, n>>)
  BY <1>4, FitsNowhere, FitsAt
<1>5. \A R : \A t \in T : Goes(R, t, <<want(semi), n>>)
  BY <1>2, <1>3, InstructionForms DEF Goes
<1>6. \A R : \A t \in {semi} : Goes(R, t, <<got({semi}), n>>)
  BY <1>2, <1>3, InstructionForms DEF Goes
<1>7. \A R : \A t \in {semi} : Goes(R, t, <<next, n>>)
  BY <1>2, <1>3, InstructionForms DEF Goes
<1>. QED  BY <1>4, <1>5, <1>6, <1>7 DEF n

(* The options of RAISE.                                                   *)
LEMMA FitsOptions ==
  ASSUME NEW H, NEW b, b # <<>>, Head(b) = next,
         Tail(b) \in Seq(Other(RaiseKinds))
  PROVE  Fits(H, {"USING"}, b)
<1>1. Head(b).op = "next"
  BY InstructionForms
<1>2. \A R : \A t \in {"USING"} : Goes(R, t, b)
  BY <1>1 DEF Goes, Beyond
<1>. QED  BY <1>2, FitsNowhere, FitsAt

----------------------------------------------------------------------------
(* Tuples put together.                                                    *)

LEMMA EmptyJoins ==
  /\ \A a : <<>> \o <<a>> = <<a>> /\ <<a>> \o <<>> = <<a>>
  /\ \A a, b : <<>> \o <<a, b>> = <<a, b>> /\ <<a, b>> \o <<>> = <<a, b>>
  /\ \A a, b, c :
       <<>> \o <<a, b, c>> = <<a, b, c>> /\ <<a, b, c>> \o <<>> = <<a, b, c>>
  /\ \A a, b, c, d : /\ <<>> \o <<a, b, c, d>> = <<a, b, c, d>>
                     /\ <<a, b, c, d>> \o <<>> = <<a, b, c, d>>
  /\ \A a, b, c, d, e : /\ <<>> \o <<a, b, c, d, e>> = <<a, b, c, d, e>>
                        /\ <<a, b, c, d, e>> \o <<>> = <<a, b, c, d, e>>
<1>1. \A S : \A s \in Seq(S) : <<>> \o s = s /\ s \o <<>> = s
  BY ConcatEmptySeq
<1>2. /\ \A a : <<a>> \in Seq({a})
      /\ \A a, b : <<a, b>> \in Seq({a, b})
      /\ \A a, b, c : <<a, b, c>> \in Seq({a, b, c})
      /\ \A a, b, c, d : <<a, b, c, d>> \in Seq({a, b, c, d})
      /\ \A a, b, c, d, e : <<a, b, c, d, e>> \in Seq({a, b, c, d, e})
  OBVIOUS
<1>. QED  BY <1>1, <1>2

LEMMA Joins ==
  /\ \A a, b : <<a>> \o <<b>> = <<a, b>>
  /\ \A a, b, c, d : <<a, b>> \o <<c, d>> = <<a, b, c, d>>
  /\ \A a, b, c, d, e : <<a, b>> \o <<c, d, e>> = <<a, b, c, d, e>>
  /\ \A a, b, c, d : <<a, b, c>> \o <<d>> = <<a, b, c, d>>
  /\ \A a, b, c, d, e, f, g :
       <<a, b, c>> \o <<d, e, f, g>> = <<a, b, c, d, e, f, g>>
  /\ \A a, b, c, d, e, f :
       <<a, b, c, d>> \o <<e, f>> = <<a, b, c, d, e, f>>
<1>1. \A a, b : <<a>> \o <<b>> = <<a, b>>
  BY PairForm
<1>2. ASSUME NEW S, NEW a \in S, NEW s \in Seq(S), NEW t \in Seq(S),
             NEW r, s \o t = r
      PROVE  (<<a>> \o s) \o t = <<a>> \o r
  <2>1. (<<a>> \o s) \o t = <<a>> \o (s \o t)
    BY Cons
  <2>. QED  BY <1>2, <2>1
<1>3. ASSUME NEW a, NEW b, NEW c, NEW d
      PROVE  <<a, b>> \o <<c, d>> = <<a, b, c, d>>
  <2>. DEFINE S == {a, b, c, d}
  <2>1. a \in S /\ <<b>> \in Seq(S) /\ <<c, d>> \in Seq(S)
    OBVIOUS
  <2>. HIDE DEF S
  <2>2. (<<a>> \o <<b>>) \o <<c, d>> = <<a>> \o <<b, c, d>>
    BY <1>2, <2>1, Tuples
  <2>4. <<a>> \o <<b>> = <<a, b>>
    BY <1>1
  <2>5. <<a>> \o <<b, c, d>> = <<a, b, c, d>>
    BY Tuples
  <2>. QED  BY <2>2, <2>4, <2>5
<1>4. ASSUME NEW a, NEW b, NEW c, NEW d, NEW e
      PROVE  <<a, b>> \o <<c, d, e>> = <<a, b, c, d, e>>
  <2>. DEFINE S == {a, b, c, d, e}
  <2>1. a \in S /\ <<b>> \in Seq(S) /\ <<c, d, e>> \in Seq(S)
    OBVIOUS
  <2>. HIDE DEF S
  <2>2. (<<a>> \o <<b>>) \o <<c, d, e>> = <<a>> \o <<b, c, d, e>>
    BY <1>2, <2>1, Tuples
  <2>4. <<a>> \o <<b>> = <<a, b>>
    BY <1>1
  <2>5. <<a>> \o <<b, c, d, e>> = <<a, b, c, d, e>>
    BY Tuples
  <2>. QED  BY <2>2, <2>4, <2>5
<1>5. ASSUME NEW a, NEW b, NEW c, NEW d
      PROVE  <<a, b, c>> \o <<d>> = <<a, b, c, d>>
  <2>. DEFINE S == {a, b, c, d}
  <2>1. a \in S /\ <<b, c>> \in Seq(S) /\ <<d>> \in Seq(S)
    OBVIOUS
  <2>. HIDE DEF S
  <2>2. (<<a>> \o <<b, c>>) \o <<d>> = <<a>> \o <<b, c, d>>
    BY <1>2, <2>1, Tuples
  <2>4. <<a>> \o <<b, c>> = <<a, b, c>>
    BY Tuples
  <2>5. <<a>> \o <<b, c, d>> = <<a, b, c, d>>
    BY Tuples
  <2>. QED  BY <2>2, <2>4, <2>5
<1>6. ASSUME NEW a, NEW b, NEW c, NEW d, NEW e, NEW f
      PROVE  <<a, b, c, d>> \o <<e, f>> = <<a, b, c, d, e, f>>
  <2>. DEFINE S == {a, b, c, d, e, f}
  <2>1. a \in S /\ <<b, c, d>> \in Seq(S) /\ <<e, f>> \in Seq(S)
    OBVIOUS
  <2>. HIDE DEF S
  <2>2. <<b, c, d>> \o <<e, f>> = <<b, c, d, e, f>>
    BY Tuples
  <2>3. (<<a>> \o <<b, c, d>>) \o <<e, f>> = <<a>> \o <<b, c, d, e, f>>
    BY <1>2, <2>1, <2>2
  <2>4. <<a>> \o <<b, c, d>> = <<a, b, c, d>>
    BY Tuples
  <2>5. <<a>> \o <<b, c, d, e, f>> = <<a, b, c, d, e, f>>
    BY Tuples
  <2>. QED  BY <2>2, <2>3, <2>4, <2>5
<1>7. ASSUME NEW a, NEW b, NEW c, NEW d, NEW e, NEW f, NEW g
      PROVE  <<a, b, c>> \o <<d, e, f, g>> = <<a, b, c, d, e, f, g>>
  <2>. DEFINE S == {a, b, c, d, e, f, g}
  <2>1. a \in S /\ <<b, c>> \in Seq(S) /\ <<d, e, f, g>> \in Seq(S)
    OBVIOUS
  <2>. HIDE DEF S
  <2>2. <<b, c>> \o <<d, e, f, g>> = <<b, c, d, e, f, g>>
    BY Tuples
  <2>3. (<<a>> \o <<b, c>>) \o <<d, e, f, g>> = <<a>> \o <<b, c, d, e, f, g>>
    BY <1>2, <2>1, <2>2
  <2>4. <<a>> \o <<b, c>> = <<a, b, c>>
    BY Tuples
  <2>5. <<a>> \o <<b, c, d, e, f, g>> = <<a, b, c, d, e, f, g>>
    BY Tuples
  <2>. QED  BY <2>2, <2>3, <2>4, <2>5
<1>. QED  BY <1>1, <1>3, <1>4, <1>5, <1>6, <1>7

----------------------------------------------------------------------------
(* The functions, after the token that they start with.                    *)

LEMMA FitsRest ==
  ASSUME NEW H, NEW T, NEW k, NEW F
  PROVE  Fits(H, T, <<collect({semi}), want(semi), nodeWith(k, F)>>)
<1>. DEFINE b == <<collect({semi}), want(semi), nodeWith(k, F)>>
<1>1. /\ b # <<>> /\ Head(b) = collect({semi})
      /\ Tail(b) = <<want(semi), nodeWith(k, F)>>
  OBVIOUS
<1>. HIDE DEF b
<1>2. Fits(H, {semi}, Tail(b))
  BY <1>1, FitsEnd
<1>3. Fits(H, T, b)
  BY <1>1, <1>2, FitsCollect
<1>. QED  BY <1>3 DEF b

(* The same after a word.                                                  *)
LEMMA FitsWordRest ==
  ASSUME NEW H, NEW T, semi \notin T, "(" \notin T, NEW k, NEW F
  PROVE  /\ Fits(H, T, <<next, collect({semi}), want(semi), nodeWith(k, F)>>)
         /\ Fits(H, T, <<lit, collect({semi}), want(semi), nodeWith(k, F)>>)
<1>. DEFINE r == <<collect({semi}), want(semi), nodeWith(k, F)>>
<1>1. ASSUME NEW i \in {next, lit}
      PROVE  Fits(H, T, <<i, collect({semi}), want(semi), nodeWith(k, F)>>)
  <2>. DEFINE b == <<i, collect({semi}), want(semi), nodeWith(k, F)>>
  <2>1. b # <<>> /\ Head(b) = i /\ Tail(b) = r
    OBVIOUS
  <2>. HIDE DEF b
  <2>2. Fits(H, Live, Tail(b))
    BY <2>1, FitsRest
  <2>3. Fits(H, T, b)
    BY <2>1, <2>2, FitsPast
  <2>. QED  BY <2>3 DEF b
<1>. QED  BY <1>1

(* An optional word, one whose text is kept or not.                        *)
LEMMA FitsOption ==
  ASSUME NEW H, NEW T, T \subseteq Live, NEW b, b # <<>>, NEW S, NEW i \in {next, lit},
         Head(b) = When(S, <<i>>), semi \notin S, "(" \notin S,
         Fits(H, Live, Tail(b)), NEW U, Tail(b) \in Seq(U)
  PROVE  Fits(H, T, b)
<1>. DEFINE r == Tail(b)
            c == <<i>> \o r
<1>1. c # <<>> /\ Head(c) = i /\ Tail(c) = r /\ <<>> \o r = r
  <2>1. i \in U \cup {i} /\ r \in Seq(U \cup {i})
    OBVIOUS
  <2>. HIDE DEF r
  <2>. QED  BY <2>1
<1>. HIDE DEF c
<1>2. Fits(H, T \cap S, c)
  BY <1>1, FitsPast
<1>3. Fits(H, T \ S, r)
  BY FitsLess
<1>4. Head(b) = If(S, <<i>>, <<>>)
  BY DEF When
<1>. QED  BY <1>1, <1>2, <1>3, <1>4, FitsIf DEF c

(* An optional word and an expression.                                     *)
LEMMA FitsClause ==
  ASSUME NEW H, NEW T, T \subseteq Live, NEW S, semi \notin S, "(" \notin S,
         NEW k, NEW F
  PROVE  Fits(H, T, <<When(S, <<next, collect({semi})>>), want(semi),
                      nodeWith(k, F)>>)
<1>. DEFINE w == When(S, <<next, collect({semi})>>)
            b == <<w, want(semi), nodeWith(k, F)>>
            r == <<want(semi), nodeWith(k, F)>>
<1>1. b # <<>> /\ Head(b) = w /\ Tail(b) = r
  OBVIOUS
<1>2. /\ <<next, collect({semi})>> \o r
           = <<next, collect({semi}), want(semi), nodeWith(k, F)>>
      /\ <<>> \o r = r
  BY Joins, EmptyJoins
<1>3. w = If(S, <<next, collect({semi})>>, <<>>)
  BY DEF When
<1>4. Fits(H, T \cap S, <<next, collect({semi}), want(semi), nodeWith(k, F)>>)
  BY FitsWordRest
<1>5. Fits(H, T \ S, r)
  BY FitsEnd
<1>. HIDE DEF b, w, r
<1>6. Fits(H, T, b)
  BY <1>1, <1>2, <1>3, <1>4, <1>5, FitsIf
<1>. QED  BY <1>6 DEF b, w

(* EXIT and CONTINUE.                                                      *)
LEMMA ExitFits ==
  ASSUME NEW H, NEW F
  PROVE  Fits(H, Live, Tail(parseStmtExit(F))) /\ parseStmtExit(F) # <<>>
         /\ Head(parseStmtExit(F)) = next
<1>. DEFINE w == When({"WHEN"}, <<next, collect({semi})>>)
            n == nodeWith("Exit", F)
            b == <<When(LabelTokens, <<lit>>), w, want(semi), n>>
            r == <<w, want(semi), n>>
<1>1. /\ Tail(parseStmtExit(F)) = b /\ parseStmtExit(F) # <<>>
      /\ Head(parseStmtExit(F)) = next
  BY DEF parseStmtExit
<1>2. /\ b # <<>> /\ Head(b) = When(LabelTokens, <<lit>>) /\ Tail(b) = r
      /\ r \in Seq({w, want(semi), n})
  OBVIOUS
<1>3. Fits(H, Live, r)
  <2>1. semi \notin {"WHEN"} /\ "(" \notin {"WHEN"}
    BY DEF semi
  <2>. QED  BY <2>1, FitsClause
<1>4. semi \notin LabelTokens /\ "(" \notin LabelTokens
  BY LiveTokens
<1>. HIDE DEF b, r
<1>5. Fits(H, Live, b)
  BY <1>2, <1>3, <1>4, FitsOption
<1>. QED  BY <1>1, <1>5

(* PERFORM, CALL, DO, CLOSE, NULL and the SQL statements.                   *)
LEMMA ShortFits ==
  ASSUME NEW H
  PROVE  /\ Fits(H, Live, Tail(parseStmtPerform))
         /\ \A F : Fits(H, Live, Tail(parseStmtCall(F)))
         /\ Fits(H, Live, Tail(parseStmtExecSQL))
         /\ Fits(H, Live, Tail(parseStmtClose))
         /\ Fits(H, Live, Tail(parseStmtNull))
<1>1. Tail(parseStmtPerform) = <<collect({semi}), want(semi), nodeWith("Perform", {})>>
  BY DEF parseStmtPerform, node
<1>2. \A F : Tail(parseStmtCall(F))
               = <<collect({semi}), want(semi), nodeWith("Call", F)>>
  BY DEF parseStmtCall
<1>3. Tail(parseStmtExecSQL)
        = <<collect({semi}), want(semi), nodeWith("ExecSQL", {})>>
  <2>. DEFINE s == <<collect({semi}), want(semi), nodeWith("ExecSQL", {})>>
  <2>1. <<lit>> \o s = <<lit, collect({semi}), want(semi), nodeWith("ExecSQL", {})>>
    BY Tuples
  <2>2. Tail(<<lit, collect({semi}), want(semi), nodeWith("ExecSQL", {})>>) = s
    OBVIOUS
  <2>. QED  BY <2>1, <2>2 DEF parseStmtExecSQL, finishExecSQL, node
<1>4. Tail(parseStmtNull) = <<want(semi), nodeWith("Null", {})>>
  BY DEF parseStmtNull, node
<1>5. Fits(H, Live, Tail(parseStmtClose))
  <2>. DEFINE b == <<anyIdentifier, want(semi), nodeWith("Close", {})>>
  <2>1. Tail(parseStmtClose) = b
    BY DEF parseStmtClose, node
  <2>2. /\ b # <<>> /\ Head(b) = anyIdentifier
        /\ Tail(b) = <<want(semi), nodeWith("Close", {})>>
    OBVIOUS
  <2>. HIDE DEF b
  <2>3. Fits(H, Live, Tail(b))
    BY <2>2, FitsEnd
  <2>. QED  BY <2>1, <2>2, <2>3, FitsName
<1>. QED  BY <1>1, <1>2, <1>3, <1>4, <1>5, FitsRest, FitsEnd

(* COMMIT and ROLLBACK.                                                    *)
LEMMA ChainFits ==
  ASSUME NEW H, NEW k
  PROVE  Fits(H, Live, <<parseOptTransactionChain, want(semi), nodeWith(k, {})>>)
<1>. DEFINE n == nodeWith(k, {})
            m == want("CHAIN")
            s == set({"chain"})
            x == <<next, m>>
            y == <<m, s>>
            i == If({"NO"}, x, y)
            z == <<next, i>>
            e == <<>>
            r == <<want(semi), n>>
            b == <<parseOptTransactionChain, want(semi), n>>
            c == <<next, i, want(semi), n>>
            d == <<i, want(semi), n>>
            f == <<next, m, want(semi), n>>
            g == <<m, want(semi), n>>
            h == <<m, s, want(semi), n>>
            l == <<s, want(semi), n>>
<1>1. parseOptTransactionChain = If({"AND"}, z, e)
  BY DEF parseOptTransactionChain, When
<1>2. /\ b # <<>> /\ Head(b) = parseOptTransactionChain /\ Tail(b) = r
      /\ c # <<>> /\ Head(c) = next /\ Tail(c) = d
      /\ d # <<>> /\ Head(d) = i /\ Tail(d) = r
      /\ f # <<>> /\ Head(f) = next /\ Tail(f) = g
      /\ g # <<>> /\ Head(g) = m /\ Tail(g) = r
      /\ h # <<>> /\ Head(h) = m /\ Tail(h) = l
      /\ l # <<>> /\ Head(l) = s /\ Tail(l) = r
  <2>. HIDE DEF n, m, s, i
  <2>. QED  OBVIOUS
<1>3. z \o r = c /\ e \o r = r /\ x \o r = f /\ y \o r = h
  <2>. HIDE DEF n, m, s, i
  <2>. QED  BY Joins, EmptyJoins
<1>4. "CHAIN" \notin {semi, "("} /\ semi \notin {"AND", "NO"}
  BY DEF semi
<1>5. \A T : Fits(H, T, r)
  BY FitsEnd
<1>. HIDE DEF n, x, y, z, e, r, b, c, d, f, g, h, l
<1>6. Fits(H, Live, g)
  BY <1>2, <1>4, <1>5, FitsWant DEF m
<1>7. Fits(H, Live \cap {"NO"}, f)
  BY <1>2, <1>4, <1>6, FitsPast
<1>8. Fits(H, Live, l)
  BY <1>2, <1>5, FitsSet DEF s
<1>9. Fits(H, Live \ {"NO"}, h)
  BY <1>2, <1>4, <1>8, FitsWant DEF m
<1>10. Fits(H, Live, d)
  <2>1. /\ Head(d) = If({"NO"}, x, y) /\ d # <<>>
        /\ Fits(H, Live \cap {"NO"}, x \o Tail(d))
        /\ Fits(H, Live \ {"NO"}, y \o Tail(d))
    BY <1>2, <1>3, <1>7, <1>9
  <2>. QED  BY <2>1, FitsIf
<1>11. Fits(H, Live \cap {"AND"}, c)
  BY <1>2, <1>4, <1>10, FitsPast
<1>12. Fits(H, Live, b)
  <2>1. /\ Head(b) = If({"AND"}, z, e) /\ b # <<>>
        /\ Fits(H, Live \cap {"AND"}, z \o Tail(b))
        /\ Fits(H, Live \ {"AND"}, e \o Tail(b))
    BY <1>1, <1>2, <1>3, <1>5, <1>11
  <2>. QED  BY <2>1, FitsIf
<1>. QED  BY <1>12 DEF b, n

(* A list of expressions.                                                  *)
LEMMA ListFits ==
  ASSUME NEW H, NEW S, semi \in S, NEW U, NEW r \in Seq(U), Fits(H, S, r),
         NEW T, semi \notin T, "(" \notin T
  PROVE  LET c == collect({comma} \cup S)
         IN  Fits(H, T, <<next, c, While({comma}, <<next, c>>)>> \o r)
<1>. DEFINE c == collect({comma} \cup S)
            x == <<next, c>>
            w == While({comma}, x)
            b == <<w>> \o r
            d == x \o b
            e == Tail(d)
            L == {comma} \cup S
            N == {<<t, b>> : t \in L}
<1>1. /\ b # <<>> /\ Head(b) = w /\ Tail(b) = r
      /\ d # <<>> /\ Head(d) = next /\ e # <<>> /\ Head(e) = c /\ Tail(e) = b
      /\ <<next, c, w>> \o r = d
  <2>. DEFINE X == {next, c, w} \cup U
  <2>1. next \in X /\ c \in X /\ w \in X /\ r \in Seq(X)
    OBVIOUS
  <2>. HIDE DEF c, w, X
  <2>2. /\ b \in Seq(X) /\ b # <<>> /\ Head(b) = w /\ Tail(b) = r
    BY <2>1
  <2>3. x = <<next>> \o <<c>> /\ <<next>> \in Seq(X) /\ <<c>> \in Seq(X)
        /\ <<w>> \in Seq(X)
    BY <2>1, PairForm
  <2>. HIDE DEF b
  <2>4. d = <<next>> \o (<<c>> \o b)
    <3>1. (<<next>> \o <<c>>) \o b = <<next>> \o (<<c>> \o b)
      BY <2>1, <2>2, <2>3, Cons
    <3>. QED  BY <2>3, <3>1, Zenon
  <2>. DEFINE q == <<c>> \o b
  <2>5. q \in Seq(X) /\ q # <<>> /\ Head(q) = c /\ Tail(q) = b
    BY <2>1, <2>2
  <2>. HIDE DEF q, d
  <2>6. d # <<>> /\ Head(d) = next /\ Tail(d) = q
    BY <2>1, <2>4, <2>5 DEF q
  <2>7. <<next, c, w>> \o r = d
    <3>1. x \in Seq(X) /\ x \o <<w>> = <<next, c, w>>
      BY <2>1, Tuples
    <3>. HIDE DEF x
    <3>2. (x \o <<w>>) \o r = x \o (<<w>> \o r)
      BY <2>1, <2>3, <3>1, ConcatAssociative
    <3>. QED  BY <3>1, <3>2, Zenon DEF d, b
  <2>. QED  BY <2>2, <2>5, <2>6, <2>7
<1>2. \A t \in L : <<t, b>> \in H \cup N
  OBVIOUS
<1>3. comma # semi /\ semi \in L /\ semi \notin {comma} /\ "(" \notin {comma}
  BY LiveTokens
<1>. HIDE DEF c, w, x, b, d, e, N
<1>4. ASSUME NEW G, Fits(G, L, b)
      PROVE  Fits(G, Live, e)
  BY <1>1, <1>3, <1>4, FitsCollect DEF c
<1>5. Fits(H \cup N, L, b)
  BY <1>2, FitsAssumed
<1>6. Fits(H \cup N, L \cap {comma}, d)
  <2>1. Fits(H \cup N, Live, e)
    BY <1>4, <1>5
  <2>. QED  BY <1>1, <1>3, <2>1, FitsPast DEF e
<1>7. Fits(H, L \ {comma}, r)
  BY FitsLess
<1>8. Fits(H, L, b)
  <2>1. /\ Fits(H \cup {<<t, b>> : t \in L}, L \cap {comma}, x \o b)
        /\ Fits(H, L \ {comma}, Tail(b)) /\ b # <<>>
        /\ Head(b) = While({comma}, x)
    BY <1>1, <1>6, <1>7 DEF d, N, w
  <2>. HIDE DEF L
  <2>. QED  BY <2>1, FitsWhile
<1>9. Fits(H, T, d)
  <2>1. Fits(H, Live, e)
    BY <1>4, <1>8
  <2>. QED  BY <1>1, <2>1, FitsPast DEF e
<1>. QED  BY <1>1, <1>9 DEF c, w, x

(* Code put in front of other code.                                        *)
LEMMA Fronts ==
  ASSUME NEW U, NEW r \in Seq(U)
  PROVE  /\ <<>> \o r = r
         /\ \A a : LET s == <<a>> \o r
                   IN  /\ s # <<>> /\ Head(s) = a /\ Tail(s) = r
                       /\ s \in Seq(U \cup {a})
         /\ \A a, b : LET s == <<a, b>> \o r
                      IN  s # <<>> /\ Head(s) = a /\ Tail(s) = <<b>> \o r
         /\ \A a, b, c : LET s == <<a, b, c>> \o r
                         IN  s # <<>> /\ Head(s) = a /\ Tail(s) = <<b, c>> \o r
<1>1. <<>> \o r = r
  OBVIOUS
<1>2. ASSUME NEW a
      PROVE  LET s == <<a>> \o r
             IN  /\ s # <<>> /\ Head(s) = a /\ Tail(s) = r
                 /\ s \in Seq(U \cup {a})
  <2>1. r \in Seq(U \cup {a}) /\ a \in U \cup {a}
    OBVIOUS
  <2>. QED  BY <2>1
<1>3. ASSUME NEW a, NEW p, p \in Seq(U \cup {a}), NEW q, q = <<a>> \o p
      PROVE  LET s == q \o r
             IN  s # <<>> /\ Head(s) = a /\ Tail(s) = p \o r
  <2>. DEFINE V == U \cup {a}
              s == p \o r
  <2>1. a \in V /\ p \in Seq(V) /\ r \in Seq(V)
    BY <1>3
  <2>. HIDE DEF V
  <2>2. s \in Seq(V) /\ (<<a>> \o p) \o r = <<a>> \o s
    BY <2>1, Cons
  <2>. HIDE DEF s
  <2>3. LET c == <<a>> \o s IN c # <<>> /\ Head(c) = a /\ Tail(c) = s
    BY <2>1, <2>2
  <2>. QED  BY <1>3, <2>2, <2>3 DEF s
<1>4. ASSUME NEW a, NEW b
      PROVE  LET s == <<a, b>> \o r
             IN  s # <<>> /\ Head(s) = a /\ Tail(s) = <<b>> \o r
  <2>. DEFINE V == U \cup {a, b}
  <2>1. r \in Seq(V) /\ <<b>> \in Seq(V) /\ a \in V
    OBVIOUS
  <2>. HIDE DEF V
  <2>2. /\ (<<a>> \o <<b>>) \o r = <<a>> \o (<<b>> \o r)
        /\ <<b>> \o r \in Seq(V) /\ <<a>> \o <<b>> = <<a, b>>
    BY <2>1, Cons, PairForm
  <2>. DEFINE s == <<b>> \o r
  <2>. HIDE DEF s
  <2>3. LET c == <<a>> \o s IN c # <<>> /\ Head(c) = a /\ Tail(c) = s
    BY <2>1, <2>2 DEF s
  <2>. QED  BY <2>2, <2>3, Zenon DEF s
<1>5. ASSUME NEW a, NEW b, NEW c
      PROVE  LET s == <<a, b, c>> \o r
             IN  s # <<>> /\ Head(s) = a /\ Tail(s) = <<b, c>> \o r
  <2>. DEFINE V == U \cup {a, b, c}
  <2>1. r \in Seq(V) /\ <<b, c>> \in Seq(V) /\ a \in V
    OBVIOUS
  <2>. HIDE DEF V
  <2>2. /\ (<<a>> \o <<b, c>>) \o r = <<a>> \o (<<b, c>> \o r)
        /\ <<b, c>> \o r \in Seq(V) /\ <<a>> \o <<b, c>> = <<a, b, c>>
    BY <2>1, Cons, Tuples
  <2>. DEFINE s == <<b, c>> \o r
  <2>. HIDE DEF s
  <2>3. LET d == <<a>> \o s IN d # <<>> /\ Head(d) = a /\ Tail(d) = s
    BY <2>1, <2>2 DEF s
  <2>. QED  BY <2>2, <2>3, Zenon DEF s
<1>. QED  BY <1>1, <1>2, <1>4, <1>5

(* FETCH and MOVE.                                                         *)
LEMMA DirectionFits ==
  ASSUME NEW H, NEW U, NEW r \in Seq(U), Fits(H, Live, r)
  PROVE  Fits(H, Live, <<parseFetchDirection>> \o r)
<1>. DEFINE D == {"NEXT", "PRIOR", "FIRST", "LAST", "ABSOLUTE", "RELATIVE",
                  "FORWARD", "BACKWARD"}
            A == {"ALL", "ICONST"}
            F == {"FROM", "IN"}
            g == got(F)
            o == When({"ICONST"}, <<lit>>)
            x == <<lit, g>>
            w == When(A, x)
            y == <<lit, o, g>>
            e == <<>>
            z == <<w>>
            b == <<parseFetchDirection>> \o r
            gr == <<g>> \o r
            xr == x \o r
            wr == z \o r
            og == <<o, g>> \o r
            yr == y \o r
<1>1. parseFetchDirection = If(D, y, z) /\ w = If(A, x, e)
  BY DEF parseFetchDirection, When
<1>2. /\ b # <<>> /\ Head(b) = parseFetchDirection /\ Tail(b) = r
      /\ gr # <<>> /\ Head(gr) = g /\ Tail(gr) = r /\ gr \in Seq(U \cup {g})
      /\ xr # <<>> /\ Head(xr) = lit /\ Tail(xr) = gr
      /\ wr # <<>> /\ Head(wr) = w /\ Tail(wr) = r
      /\ og # <<>> /\ Head(og) = o /\ Tail(og) = gr
      /\ yr # <<>> /\ Head(yr) = lit /\ Tail(yr) = og
      /\ e \o r = r
  <2>. HIDE DEF g, o, w
  <2>1. /\ \A a : LET s == <<a>> \o r
                 IN  /\ s # <<>> /\ Head(s) = a /\ Tail(s) = r
                     /\ s \in Seq(U \cup {a})
        /\ e \o r = r
    BY Fronts
  <2>2. \A a, c : LET s == <<a, c>> \o r
                 IN  s # <<>> /\ Head(s) = a /\ Tail(s) = <<c>> \o r
    BY Fronts
  <2>3. yr # <<>> /\ Head(yr) = lit /\ Tail(yr) = og
    BY Fronts
  <2>. QED  BY <2>1, <2>2, <2>3
<1>3. \A S \in {D, A, F, {"ICONST"}} : semi \notin S /\ "(" \notin S
  BY DEF semi
<1>. HIDE DEF D, A, F, g, x, w, y, e, z, b, gr, xr, wr, og, yr
<1>4. Fits(H, Live, gr)
  BY <1>2, <1>3, FitsGot DEF g
<1>5. Fits(H, Live \cap A, xr)
  BY <1>2, <1>3, <1>4, FitsPast
<1>6. Fits(H, Live, wr)
  <2>1. /\ Head(wr) = If(A, x, e) /\ wr # <<>>
        /\ Fits(H, Live \cap A, x \o Tail(wr))
        /\ Fits(H, Live \ A, e \o Tail(wr))
    BY <1>1, <1>2, <1>5, FitsLess DEF xr
  <2>. QED  BY <2>1, FitsIf
<1>7. Fits(H, Live, og)
  BY <1>2, <1>3, <1>4, FitsOption DEF o
<1>8. Fits(H, Live \cap D, yr)
  BY <1>2, <1>3, <1>7, FitsPast
<1>9. Fits(H, Live, b)
  <2>1. /\ Head(b) = If(D, y, z) /\ b # <<>>
        /\ Fits(H, Live \cap D, y \o Tail(b))
        /\ Fits(H, Live \ D, z \o Tail(b))
    BY <1>1, <1>2, <1>6, <1>8, FitsLess DEF wr, yr
  <2>. QED  BY <2>1, FitsIf
<1>. QED  BY <1>9 DEF b

LEMMA FetchFits ==
  ASSUME NEW H, NEW F
  PROVE  /\ parseStmtFetch(F) # <<>> /\ Head(parseStmtFetch(F)) = next
         /\ Fits(H, Live, Tail(parseStmtFetch(F)))
<1>. DEFINE p == parseFetchDirection
            l == When(LabelTokens, <<lit>>)
            n == nodeWith("Fetch", F)
            i == When({"INTO"}, <<next, collect({semi})>>)
            r == <<want(semi), n>>
            c == <<i, want(semi), n>>
            U == {l, i, want(semi), n}
            q == IF "isMove" \in F THEN <<>> ELSE <<i>>
            v == q \o r
            s == <<l>> \o v
            b == <<p>> \o s
<1>1. v = r \/ v = c
  <2>1. q = <<>> \/ q = <<i>>
    OBVIOUS
  <2>2. <<>> \o r = r /\ <<i>> \o r = c
    <3>. HIDE DEF n, i
    <3>. QED  BY Tuples, EmptyJoins
  <2>. HIDE DEF q, r, c, i
  <2>. QED  BY <2>1, <2>2 DEF v
<1>2. v \in Seq(U)
  <2>1. r \in Seq(U) /\ c \in Seq(U)
    OBVIOUS
  <2>. HIDE DEF U
  <2>. QED  BY <1>1, <2>1, Zenon
<1>3. Fits(H, Live, v)
  <2>1. Fits(H, Live, r)
    BY FitsEnd
  <2>2. semi \notin {"INTO"} /\ "(" \notin {"INTO"}
    BY DEF semi
  <2>3. Fits(H, Live, c)
    BY <2>2, FitsClause
  <2>. HIDE DEF v, r, c
  <2>. QED  BY <1>1, <2>1, <2>3, Zenon
<1>. HIDE DEF v, U
<1>4. s # <<>> /\ Head(s) = l /\ Tail(s) = v /\ s \in Seq(U \cup {l})
  <2>. HIDE DEF l
  <2>. QED  BY <1>2, Fronts
<1>. HIDE DEF s
<1>5. Fits(H, Live, s)
  <2>1. semi \notin LabelTokens /\ "(" \notin LabelTokens
    BY LiveTokens
  <2>. QED  BY <1>2, <1>3, <1>4, <2>1, FitsOption
<1>6. Fits(H, Live, b)
  BY <1>4, <1>5, DirectionFits
<1>7. parseStmtFetch(F) = <<next>> \o b
  <2>. DEFINE X == U \cup {next, p, l, i, want(semi), n}
  <2>1. parseStmtFetch(F) = (<<next, p, l>> \o q) \o r
    BY DEF parseStmtFetch
  <2>2. /\ next \in X /\ p \in X /\ l \in X
        /\ q \in Seq(X) /\ r \in Seq(X) /\ v \in Seq(X)
    <3>1. next \in X /\ p \in X /\ l \in X /\ i \in X /\ r \in Seq(X)
          /\ U \subseteq X
      OBVIOUS
    <3>2. <<>> \in Seq(X) /\ <<i>> \in Seq(X)
      OBVIOUS
    <3>3. q = <<>> \/ q = <<i>>
      OBVIOUS
    <3>4. v \in Seq(X)
      BY <1>2, <3>1, CompoundMonotone
    <3>. HIDE DEF X, q, r, i
    <3>. QED  BY <3>1, <3>2, <3>3, <3>4
  <2>. HIDE DEF X, p, l, q, r
  <2>3. /\ (<<next, p, l>> \o q) \o r = <<next, p, l>> \o v
        /\ <<next, p, l>> \in Seq(X) /\ <<p, l>> \in Seq(X)
    BY <2>2, ConcatAssociative DEF v
  <2>4. <<next, p, l>> \o v = <<next>> \o (<<p, l>> \o v)
    <3>1. (<<next>> \o <<p, l>>) \o v = <<next>> \o (<<p, l>> \o v)
      BY <2>2, <2>3, Cons
    <3>2. <<next>> \o <<p, l>> = <<next, p, l>>
      BY Tuples
    <3>. QED  BY <3>1, <3>2, Zenon
  <2>5. <<p, l>> \o v = b
    <3>1. (<<p>> \o <<l>>) \o v = <<p>> \o (<<l>> \o v)
      BY <2>2, Cons
    <3>2. <<p>> \o <<l>> = <<p, l>>
      BY PairForm
    <3>. QED  BY <3>1, <3>2, Zenon DEF s
  <2>. QED  BY <2>1, <2>3, <2>4, <2>5, Zenon
<1>8. b \in Seq(U \cup {l} \cup {p})
  <2>. HIDE DEF p
  <2>. QED  BY <1>4, Fronts
<1>. HIDE DEF b
<1>9. LET a == <<next>> \o b IN a # <<>> /\ Head(a) = next /\ Tail(a) = b
  BY <1>8, Fronts
<1>. QED  BY <1>6, <1>7, <1>9

(* ASSERT.                                                                 *)
LEMMA AssertFits ==
  ASSUME NEW H
  PROVE  Fits(H, Live, Tail(parseStmtAssert))
<1>. DEFINE n == node("Assert")
            c == collect({semi})
            g == got({semi})
            x == <<next, c, want(semi)>>
            y == <<g>>
            i == If({comma}, x, y)
            L == {comma, semi}
            a == collect(L)
            b == <<a, i, n>>
            r == <<n>>
            s == <<i, n>>
            xr == <<next, c, want(semi), n>>
            yr == <<g, n>>
<1>1. Tail(parseStmtAssert) = b
  BY DEF parseStmtAssert
<1>2. /\ b # <<>> /\ Head(b) = a /\ Tail(b) = s
      /\ s # <<>> /\ Head(s) = i /\ Tail(s) = r
      /\ x \o r = xr /\ y \o r = yr
  <2>. HIDE DEF n, c, g, i, a
  <2>. QED  BY Joins
<1>3. semi \notin {comma} /\ "(" \notin {comma}
  BY LiveTokens
<1>4. Fits(H, L \cap {comma}, xr)
  <2>1. semi \notin L \cap {comma} /\ "(" \notin L \cap {comma}
    BY <1>3
  <2>. HIDE DEF L
  <2>. QED  BY <2>1, FitsWordRest DEF node
<1>5. Fits(H, L \ {comma}, yr)
  <2>1. Fits(H, {semi}, yr)
    BY FitsEnd DEF node
  <2>2. L \ {comma} \subseteq {semi}
    OBVIOUS
  <2>. HIDE DEF L, yr
  <2>. QED  BY <2>1, <2>2, FitsLess
<1>. HIDE DEF n, c, g, x, y, b, r, s, xr, yr
<1>6. Fits(H, L, s)
  <2>1. /\ Head(s) = If({comma}, x, y) /\ s # <<>>
        /\ Fits(H, L \cap {comma}, x \o Tail(s))
        /\ Fits(H, L \ {comma}, y \o Tail(s))
    BY <1>2, <1>4, <1>5
  <2>. HIDE DEF L
  <2>. QED  BY <2>1, FitsIf
<1>7. Fits(H, Live, b)
  <2>1. semi \in L /\ Head(b) = collect(L) /\ Fits(H, L, Tail(b)) /\ b # <<>>
    BY <1>2, <1>6
  <2>. HIDE DEF L
  <2>. QED  BY <2>1, FitsCollect
<1>. QED  BY <1>1, <1>7

LEMMA UsingIs ==
  ASSUME NEW S
  PROVE  LET c == collect({comma} \cup S)
         IN  usingParams(S) = <<next, c, While({comma}, <<next, c>>)>>
<1>. DEFINE c == collect({comma} \cup S)
            w == While({comma}, <<next, c>>)
<1>1. <<next>> \o <<c>> = <<next, c>> /\ <<c>> \o <<w>> = <<c, w>>
  BY PairForm
<1>2. <<next>> \o <<c, w>> = <<next, c, w>>
  BY Tuples
<1>3. Separated(comma, <<c>>) = <<c>> \o <<w>>
  BY <1>1, Zenon DEF Separated
<1>. QED  BY <1>1, <1>2, <1>3, Zenon DEF usingParams

(* The values after USING, and the end of the statement.                   *)
LEMMA UsingFits ==
  ASSUME NEW H, NEW S, semi \in S, NEW U, NEW r \in Seq(U), Fits(H, S, r),
         NEW T, semi \notin T, "(" \notin T
  PROVE  Fits(H, T, usingParams(S) \o r)
BY UsingIs, ListFits, Zenon

(* RETURN.                                                                 *)
LEMMA ReturnFits ==
  ASSUME NEW H
  PROVE  Fits(H, Live, Tail(parseStmtReturn))
<1>. DEFINE e == <<>>
            c == collect({semi})
            m == want(semi)
            g == got({semi})
            n == nodeWith("ReturnQuery", {"dynamic"})
            u == usingParams({semi})
            w == When({"USING"}, u)
            L == {semi, "USING"}
            k == collect(L)
            x == <<next, k, w, g, n>>
            y == <<c, m, node("ReturnQuery")>>
            j == If({"EXECUTE"}, x, y)
            q == <<next, j>>
            s == <<c, m, node("Return")>>
            i == If({"QUERY"}, q, s)
            v == <<next, c, m, node("ReturnNext")>>
            z == <<i>>
            h == If({"NEXT"}, v, z)
            b == <<h>>
            f == <<j>>
            d == <<k, w, g, n>>
            p == <<w, g, n>>
            r == <<g, n>>
<1>1. Tail(parseStmtReturn) = b
  BY DEF parseStmtReturn
<1>2. /\ b # <<>> /\ Head(b) = h /\ Tail(b) = e
      /\ z # <<>> /\ Head(z) = i /\ Tail(z) = e
      /\ q # <<>> /\ Head(q) = next /\ Tail(q) = f
      /\ f # <<>> /\ Head(f) = j /\ Tail(f) = e
      /\ x # <<>> /\ Head(x) = next /\ Tail(x) = d
      /\ d # <<>> /\ Head(d) = k /\ Tail(d) = p
      /\ p # <<>> /\ Head(p) = w /\ Tail(p) = r
      /\ r \in Seq({g, n})
  <2>. HIDE DEF c, m, g, n, w, k, j, i, h
  <2>. QED  OBVIOUS
<1>3. v \o e = v /\ z \o e = z /\ q \o e = q /\ s \o e = s /\ y \o e = y
      /\ x \o e = x /\ e \o r = r
  <2>. HIDE DEF c, m, g, n, w, k, j, i, h
  <2>. QED  BY EmptyJoins
<1>4. /\ \A t \in {"NEXT", "QUERY", "EXECUTE", "USING"} : t # semi /\ t # "("
      /\ semi \in L
  BY DEF semi
<1>5. \A t : Live \cap {t} \subseteq {t}
  OBVIOUS
<1>6. /\ Fits(H, Live \cap {"NEXT"}, v)
      /\ \A T : Fits(H, T, s) /\ Fits(H, T, y)
  BY <1>4, FitsWordRest, FitsRest DEF node
<1>7. Fits(H, {semi}, r)
  BY FitsEnd
<1>8. Fits(H, L \cap {"USING"}, u \o r)
  <2>. DEFINE T == L \cap {"USING"}
              S == {semi}
  <2>1. semi \notin T /\ "(" \notin T /\ semi \in S
    BY <1>4
  <2>. HIDE DEF T, S, r
  <2>2. Fits(H, T, usingParams(S) \o r)
    BY <1>2, <1>7, <2>1, UsingFits DEF S
  <2>. QED  BY <2>2 DEF T, S
<1>. HIDE DEF e, u, x, y, q, s, v, z, b, f, d, p, r
<1>9. Fits(H, L, p)
  <2>1. L \ {"USING"} \subseteq {semi}
    OBVIOUS
  <2>. HIDE DEF L
  <2>2. /\ Head(p) = If({"USING"}, u, e) /\ p # <<>>
        /\ Fits(H, L \cap {"USING"}, u \o Tail(p))
        /\ Fits(H, L \ {"USING"}, e \o Tail(p))
    BY <1>2, <1>3, <1>7, <1>8, <2>1, FitsLess, ZenonT(30) DEF When, e
  <2>. QED  BY <2>2, FitsIf
<1>10. Fits(H, Live, d)
  <2>1. Head(d) = collect(L) /\ Fits(H, L, Tail(d)) /\ d # <<>>
    BY <1>2, <1>9
  <2>. HIDE DEF L
  <2>. QED  BY <1>4, <2>1, FitsCollect
<1>11. Fits(H, Live \cap {"EXECUTE"}, x)
  <2>1. semi \notin Live \cap {"EXECUTE"} /\ "(" \notin Live \cap {"EXECUTE"}
    BY <1>4
  <2>. QED  BY <1>2, <1>10, <2>1, FitsPast
<1>12. Fits(H, Live, f)
  <2>1. /\ Head(f) = If({"EXECUTE"}, x, y) /\ f # <<>>
        /\ Fits(H, Live \cap {"EXECUTE"}, x \o Tail(f))
        /\ Fits(H, Live \ {"EXECUTE"}, y \o Tail(f))
    BY <1>2, <1>3, <1>6, <1>11
  <2>. QED  BY <2>1, FitsIf
<1>13. Fits(H, Live \cap {"QUERY"}, q)
  <2>1. semi \notin Live \cap {"QUERY"} /\ "(" \notin Live \cap {"QUERY"}
    BY <1>4
  <2>. QED  BY <1>2, <1>12, <2>1, FitsPast
<1>14. Fits(H, Live, z)
  <2>1. /\ Head(z) = If({"QUERY"}, q, s) /\ z # <<>>
        /\ Fits(H, Live \cap {"QUERY"}, q \o Tail(z))
        /\ Fits(H, Live \ {"QUERY"}, s \o Tail(z))
    BY <1>2, <1>3, <1>6, <1>13
  <2>. QED  BY <2>1, FitsIf
<1>15. Fits(H, Live, b)
  <2>1. /\ Head(b) = If({"NEXT"}, v, z) /\ b # <<>>
        /\ Fits(H, Live \cap {"NEXT"}, v \o Tail(b))
        /\ Fits(H, Live \ {"NEXT"}, z \o Tail(b))
    BY <1>2, <1>3, <1>6, <1>14, FitsLess
  <2>. QED  BY <2>1, FitsIf
<1>. QED  BY <1>1, <1>15

(* EXECUTE.                                                                *)
LEMMA ExecuteFits ==
  ASSUME NEW H
  PROVE  Fits(H, Live, Tail(parseStmtDynExecute))
<1>. DEFINE g == got({semi})
            L == {"INTO", "USING", semi}
            K == {"INTO", "USING"}
            D == {"USING", semi}
            V == {semi, "INTO"}
            b == <<queryText, clauseLoop, g, executed>>
            a == <<clauseLoop, g, executed>>
            r == <<g, executed>>
            o == <<clauseTest>>
            oa == <<clauseTest, clauseLoop, g, executed>>
            w == set({"into"})
            st == set({"strict"})
            x == <<next, w, strictTest, targetText>>
            y == <<next, valueText, valueLoop>>
            e == <<>>
            xa == <<next, w, strictTest, targetText, clauseLoop, g, executed>>
            xb == <<w, strictTest, targetText, clauseLoop, g, executed>>
            xc == <<strictTest, targetText, clauseLoop, g, executed>>
            xd == <<targetText, clauseLoop, g, executed>>
            xs == <<st, next, targetText, clauseLoop, g, executed>>
            xn == <<next, targetText, clauseLoop, g, executed>>
            G == H \cup {<<t, a>> : t \in L}
<1>1. Tail(parseStmtDynExecute) = b
  BY ExecuteCode
<1>2. /\ b # <<>> /\ Head(b) = queryText /\ Tail(b) = a
      /\ a # <<>> /\ Head(a) = clauseLoop /\ Tail(a) = r
      /\ oa # <<>> /\ Head(oa) = clauseTest /\ Tail(oa) = a
      /\ xa # <<>> /\ Head(xa) = next /\ Tail(xa) = xb
      /\ xb # <<>> /\ Head(xb) = w /\ Tail(xb) = xc
      /\ xc # <<>> /\ Head(xc) = strictTest /\ Tail(xc) = xd
      /\ xd # <<>> /\ Head(xd) = targetText /\ Tail(xd) = a
      /\ xs # <<>> /\ Head(xs) = st /\ Tail(xs) = xn
      /\ xn # <<>> /\ Head(xn) = next /\ Tail(xn) = xd
      /\ a \in Seq({clauseLoop, g, executed})
  <2>. HIDE DEF g, w, st
  <2>. QED  OBVIOUS
<1>3. /\ o \o a = oa /\ x \o a = xa /\ strictRest \o xd = xs /\ e \o xd = xd
  <2>1. strictRest = <<st, next>>
    BY DEF strictRest
  <2>. HIDE DEF g, w, st
  <2>. QED  BY <2>1, Tuples, LongTuples, EmptyJoins
<1>4. /\ queryText = collect(L) /\ clauseLoop = While(K, o)
      /\ clauseTest = If({"INTO"}, x, y) /\ targetText = collect(D)
      /\ strictTest = If({"STRICT"}, strictRest, e)
      /\ usingParams(V) = y
  <2>1. usingParams(V) = y
    BY UsingIs, Zenon DEF valueText, valueLoop
  <2>. QED  BY <2>1 DEF queryText, clauseLoop, clauseTest, targetText, strictTest,
       When
<1>5. /\ semi \in L /\ semi \in D /\ semi \in V /\ D \subseteq L /\ V \subseteq L
      /\ \A T \in {L \cap K, (L \cap K) \cap {"INTO"}, (L \cap K) \ {"INTO"},
                   Live \cap {"STRICT"}} : semi \notin T /\ "(" \notin T
      /\ L \ K \subseteq {semi}
  BY DEF semi
<1>. HIDE DEF L, K, D, V, g, b, a, r, o, oa, w, st, x, y, e, xa, xb, xc, xd, xs, xn
<1>6. Fits(G, L, a)
  <2>1. \A t \in L : <<t, a>> \in G
    OBVIOUS
  <2>. QED  BY <2>1, FitsAssumed
<1>. HIDE DEF G
<1>7. Fits(G, D, a) /\ Fits(G, V, a)
  BY <1>5, <1>6, FitsLess
<1>8. Fits(G, Live, xd)
  BY <1>2, <1>4, <1>5, <1>7, FitsCollect
<1>9. Fits(G, Live, xc)
  <2>1. Fits(G, Live \cap {"STRICT"}, xn)
    BY <1>2, <1>5, <1>8, FitsPast
  <2>2. Fits(G, Live \cap {"STRICT"}, xs)
    BY <1>2, <2>1, FitsSet DEF st
  <2>3. /\ Head(xc) = If({"STRICT"}, strictRest, e) /\ xc # <<>>
        /\ Fits(G, Live \cap {"STRICT"}, strictRest \o Tail(xc))
        /\ Fits(G, Live \ {"STRICT"}, e \o Tail(xc))
    BY <1>2, <1>3, <1>4, <1>8, <2>2, FitsLess
  <2>. QED  BY <2>3, FitsIf
<1>10. Fits(G, Live, xb)
  BY <1>2, <1>9, FitsSet DEF w
<1>11. Fits(G, (L \cap K) \cap {"INTO"}, xa)
  BY <1>2, <1>5, <1>10, FitsPast
<1>12. Fits(G, (L \cap K) \ {"INTO"}, y \o a)
  <2>1. Fits(G, (L \cap K) \ {"INTO"}, usingParams(V) \o a)
    BY <1>2, <1>5, <1>7, UsingFits
  <2>. QED  BY <1>4, <2>1
<1>13. Fits(G, L \cap K, oa)
  <2>1. /\ Head(oa) = If({"INTO"}, x, y) /\ oa # <<>>
        /\ Fits(G, (L \cap K) \cap {"INTO"}, x \o Tail(oa))
        /\ Fits(G, (L \cap K) \ {"INTO"}, y \o Tail(oa))
    BY <1>2, <1>3, <1>4, <1>11, <1>12
  <2>. QED  BY <2>1, FitsIf
<1>14. Fits(H, L \ K, r)
  <2>1. Fits(H, {semi}, r)
    BY FitsEnd DEF r, g, executed, node
  <2>. QED  BY <1>5, <2>1, FitsLess
<1>15. Fits(H, L, a)
  <2>1. /\ Fits(H \cup {<<t, a>> : t \in L}, L \cap K, o \o a)
        /\ Fits(H, L \ K, Tail(a)) /\ a # <<>> /\ Head(a) = While(K, o)
    BY <1>2, <1>3, <1>4, <1>13, <1>14 DEF G
  <2>. QED  BY <2>1, FitsWhile
<1>16. Fits(H, Live, b)
  BY <1>2, <1>4, <1>5, <1>15, FitsCollect
<1>. QED  BY <1>1, <1>16

(* RAISE.                                                                  *)
LEMMA RaiseOptionsAreOther ==
  /\ parseRaiseOptions \in Seq(Other(RaiseKinds))
  /\ \A F \in SUBSET Fields : nodeWith("Raise", F) \in Other(RaiseKinds)
<1>. DEFINE X == Steps(RaiseKinds)
<1>1. Plain({}) \subseteq X /\ Plain(RaiseKinds) \subseteq X
  BY OtherHolds
<1>2. lit \in X /\ Nest(X) \subseteq Other(RaiseKinds) /\ X \subseteq Other(RaiseKinds)
  <2>1. /\ Nest(X) \subseteq Nested(X) /\ Nested(X) \subseteq Other(RaiseKinds)
        /\ X \subseteq Other(RaiseKinds)
    BY OtherHolds, NestedHolds
  <2>. HIDE DEF X
  <2>. QED  BY <1>1, <2>1, PlainForms
<1>. HIDE DEF X
<1>3. parseRaiseOptions \in Seq(Nest(X))
  BY <1>1, <1>2, RaiseOptionsForm
<1>4. \A F \in SUBSET Fields : nodeWith("Raise", F) \in X
  BY <1>1, KindForms DEF RaiseKinds
<1>. QED  BY <1>2, <1>3, <1>4, CompoundMonotone

(* From USING, or without it to the semicolon.                             *)
LEMMA OptionsFit ==
  ASSUME NEW H
  PROVE  LET n == node("Raise")
             u == <<next>> \o parseRaiseOptions
         IN  /\ Fits(H, Live, <<If({"USING"}, u, <<want(semi)>>), n>>)
             /\ Fits(H, {"USING", semi}, <<If({"USING"}, u, <<got({semi})>>), n>>)
<1>. DEFINE n == node("Raise")
            O == Other(RaiseKinds)
            p == parseRaiseOptions
            u == <<next>> \o p
            v == <<want(semi)>>
            w == <<got({semi})>>
            i == If({"USING"}, u, v)
            j == If({"USING"}, u, w)
            r == <<n>>
            q == p \o r
            uq == u \o r
            b == <<i, n>>
            c == <<j, n>>
            K == {"USING", semi}
<1>1. p \in Seq(O) /\ n \in O
  <2>1. {} \in SUBSET Fields
    OBVIOUS
  <2>. QED  BY <2>1, RaiseOptionsAreOther DEF node
<1>2. uq # <<>> /\ Head(uq) = next /\ Tail(uq) = q /\ q \in Seq(O)
  <2>. DEFINE V == O \cup {next}
  <2>1. next \in V /\ p \in Seq(V) /\ r \in Seq(V) /\ r \in Seq(O)
    BY <1>1
  <2>. HIDE DEF V, p, r, O
  <2>2. uq = <<next>> \o q /\ q \in Seq(V) /\ q \in Seq(O)
    BY <1>1, <2>1, Cons
  <2>. HIDE DEF q, uq
  <2>3. LET d == <<next>> \o q IN d # <<>> /\ Head(d) = next /\ Tail(d) = q
    BY <2>2, Fronts
  <2>. QED  BY <2>2, <2>3
<1>3. /\ b # <<>> /\ Head(b) = i /\ Tail(b) = r
      /\ c # <<>> /\ Head(c) = j /\ Tail(c) = r
      /\ v \o r = <<want(semi), n>> /\ w \o r = <<got({semi}), n>>
  <2>. DEFINE x == want(semi)
              y == got({semi})
  <2>. HIDE DEF n, i, j, x, y
  <2>. QED  BY Joins DEF x, y
<1>4. (\A T : Fits(H, T, v \o r)) /\ Fits(H, {semi}, w \o r)
  BY <1>3, FitsEnd DEF node
<1>. HIDE DEF p, u, v, w, i, j, r, q, uq, b, c, n
<1>5. Fits(H, {"USING"}, u \o r)
  BY <1>2, FitsOptions DEF uq, O
<1>6. Fits(H, Live, b)
  <2>1. Live \cap {"USING"} \subseteq {"USING"}
    OBVIOUS
  <2>2. /\ Head(b) = If({"USING"}, u, v) /\ b # <<>>
        /\ Fits(H, Live \cap {"USING"}, u \o Tail(b))
        /\ Fits(H, Live \ {"USING"}, v \o Tail(b))
    BY <1>3, <1>4, <1>5, <2>1, FitsLess DEF i
  <2>. QED  BY <2>2, FitsIf
<1>7. Fits(H, K, c)
  <2>1. K \cap {"USING"} \subseteq {"USING"} /\ K \ {"USING"} \subseteq {semi}
    OBVIOUS
  <2>. HIDE DEF K
  <2>2. /\ Head(c) = If({"USING"}, u, w) /\ c # <<>>
        /\ Fits(H, K \cap {"USING"}, u \o Tail(c))
        /\ Fits(H, K \ {"USING"}, w \o Tail(c))
    BY <1>3, <1>4, <1>5, <2>1, FitsLess DEF j
  <2>. QED  BY <2>2, FitsIf
<1>. QED  BY <1>6, <1>7 DEF b, c, i, j, u, v, w, p, n

LEMMA FormatFits ==
  ASSUME NEW H
  PROVE  Fits(H, {"SCONST"}, raiseFormat \o <<node("Raise")>>)
<1>. DEFINE n == node("Raise")
            u == <<next>> \o parseRaiseOptions
            i == If({"USING"}, u, <<got({semi})>>)
            j == If({"USING"}, u, <<want(semi)>>)
            C == {comma, semi, "USING"}
            E == {"USING", semi, EOF}
            k == collect(C)
            g == got({comma})
            z == <<k, g>>
            w == Until(E, z)
            x == <<next, w, i>>
            y == <<j>>
            h == If({comma}, x, y)
            b == <<lit, h, n>>
            c == <<h, n>>
            r == <<n>>
            d == <<next, w, i, n>>
            f == <<w, i, n>>
            l == <<k, g, w, i, n>>
            m == <<g, w, i, n>>
            a == <<i, n>>
            e == <<j, n>>
            G == H \cup {<<t, f>> : t \in Live}
<1>1. raiseFormat = <<lit, h>>
  BY DEF raiseFormat
<1>2. /\ b # <<>> /\ Head(b) = lit /\ Tail(b) = c
      /\ c # <<>> /\ Head(c) = h /\ Tail(c) = r
      /\ d # <<>> /\ Head(d) = next /\ Tail(d) = f
      /\ f # <<>> /\ Head(f) = w /\ Tail(f) = a
      /\ l # <<>> /\ Head(l) = k /\ Tail(l) = m
      /\ m # <<>> /\ Head(m) = g /\ Tail(m) = f
  <2>. HIDE DEF n, i, j, k, g, w, h
  <2>. QED  OBVIOUS
<1>3. x \o r = d /\ y \o r = e /\ z \o f = l /\ <<lit, h>> \o r = b
  <2>. HIDE DEF n, i, j, k, g, w, h
  <2>. QED  BY Tuples, Joins
<1>4. Fits(H, {"USING", semi}, a) /\ Fits(H, Live, e)
  BY OptionsFit
<1>5. /\ semi \in C /\ C \subseteq Live /\ Live \cap E \subseteq {"USING", semi}
      /\ semi \notin {comma} /\ "(" \notin {comma}
      /\ semi \notin {"SCONST"} /\ "(" \notin {"SCONST"}
  <2>1. "USING" \in Live
    BY DEF Live, Token, Reserved, EOF
  <2>2. EOF \notin Live /\ "SCONST" # semi
    BY DEF Live, semi
  <2>. QED  BY <2>1, <2>2, LiveTokens
<1>. HIDE DEF n, i, j, u, C, E, x, y, z, b, c, r, d, f, l, m, a, e
<1>6. Fits(G, Live, f)
  <2>1. \A t \in Live : <<t, f>> \in G
    OBVIOUS
  <2>. QED  BY <2>1, FitsAssumed
<1>. HIDE DEF G
<1>7. Fits(G, C, m)
  <2>1. Head(m) = got({comma}) /\ m # <<>> /\ Fits(G, Live, Tail(m))
    BY <1>2, <1>6
  <2>. QED  BY <1>5, <2>1, FitsGot
<1>8. Fits(G, Live \ E, l)
  <2>1. Head(l) = collect(C) /\ l # <<>> /\ Fits(G, C, Tail(l))
    BY <1>2, <1>7
  <2>. QED  BY <1>5, <2>1, FitsCollect
<1>9. Fits(H, Live, f)
  <2>1. /\ Fits(H \cup {<<t, f>> : t \in Live}, Live \ E, z \o f)
        /\ Fits(H, Live \cap E, Tail(f)) /\ f # <<>> /\ Head(f) = Until(E, z)
    BY <1>2, <1>3, <1>4, <1>5, <1>8, FitsLess DEF G
  <2>. QED  BY <2>1, FitsUntil
<1>10. Fits(H, Live \cap {comma}, d)
  BY <1>2, <1>5, <1>9, FitsPast
<1>11. Fits(H, Live, c)
  <2>1. /\ Head(c) = If({comma}, x, y) /\ c # <<>>
        /\ Fits(H, Live \cap {comma}, x \o Tail(c))
        /\ Fits(H, Live \ {comma}, y \o Tail(c))
    BY <1>2, <1>3, <1>4, <1>10, FitsLess
  <2>. QED  BY <2>1, FitsIf
<1>12. Fits(H, {"SCONST"}, b)
  BY <1>2, <1>5, <1>11, FitsPast
<1>. QED  BY <1>1, <1>3, <1>12 DEF r, n

LEMMA ConditionFits ==
  ASSUME NEW H
  PROVE  Fits(H, Live, raiseCondition \o <<node("Raise")>>)
<1>. DEFINE n == node("Raise")
            j == If({"USING"}, <<next>> \o parseRaiseOptions, <<want(semi)>>)
            W == {"WORD"} \cup Unreserved
            o == When({"SCONST"}, <<lit>>)
            p == When(W, <<lit>>)
            x == <<next, o>>
            y == <<p>>
            i == If({"SQLSTATE"}, x, y)
            b == <<i, j, n>>
            r == <<j, n>>
            c == <<next, o, j, n>>
            d == <<o, j, n>>
            e == <<p, j, n>>
<1>1. raiseCondition = <<i, j>>
  BY DEF raiseCondition
<1>2. /\ b # <<>> /\ Head(b) = i /\ Tail(b) = r
      /\ c # <<>> /\ Head(c) = next /\ Tail(c) = d
      /\ d # <<>> /\ Head(d) = o /\ Tail(d) = r
      /\ e # <<>> /\ Head(e) = p /\ Tail(e) = r
      /\ r \in Seq({j, n})
  <2>. HIDE DEF n, j, o, p, i
  <2>. QED  OBVIOUS
<1>3. x \o r = c /\ y \o r = e /\ <<i, j>> \o <<n>> = b
  <2>. HIDE DEF n, j, o, p, i
  <2>. QED  BY Joins, Tuples
<1>4. Fits(H, Live, r)
  BY OptionsFit
<1>5. /\ semi \notin W /\ "(" \notin W /\ semi \notin {"SCONST", "SQLSTATE"}
      /\ "(" \notin {"SCONST", "SQLSTATE"}
  BY LiveTokens DEF LabelTokens, semi
<1>. HIDE DEF n, j, W, x, y, b, r, c, d, e
<1>6. Fits(H, Live, d)
  <2>1. semi \notin {"SCONST"} /\ "(" \notin {"SCONST"} /\ lit \in {next, lit}
    BY <1>5
  <2>. QED  BY <1>2, <1>4, <2>1, FitsOption
<1>7. Fits(H, Live, e)
  <2>1. lit \in {next, lit}
    OBVIOUS
  <2>. QED  BY <1>2, <1>4, <1>5, <2>1, FitsOption
<1>8. Fits(H, Live \cap {"SQLSTATE"}, c)
  <2>1. semi \notin Live \cap {"SQLSTATE"} /\ "(" \notin Live \cap {"SQLSTATE"}
    BY <1>5
  <2>. QED  BY <1>2, <1>6, <2>1, FitsPast
<1>9. Fits(H, Live, b)
  <2>1. /\ Head(b) = If({"SQLSTATE"}, x, y) /\ b # <<>>
        /\ Fits(H, Live \cap {"SQLSTATE"}, x \o Tail(b))
        /\ Fits(H, Live \ {"SQLSTATE"}, y \o Tail(b))
    BY <1>2, <1>3, <1>7, <1>8, FitsLess
  <2>. QED  BY <2>1, FitsIf
<1>. QED  BY <1>1, <1>3, <1>9 DEF n

LEMMA RaiseFits ==
  ASSUME NEW H
  PROVE  Fits(H, Live, Tail(parseStmtRaise))
<1>. DEFINE n == node("Raise")
            r == <<n>>
            o == When(RaiseLevels, <<lit>>)
            j == If({"SCONST"}, raiseFormat, raiseCondition)
            x == <<next>>
            y == <<j>>
            i == If({semi}, x, y)
            b == <<o, i, n>>
            c == <<i, n>>
            d == <<j, n>>
<1>1. Tail(parseStmtRaise) = b
  BY DEF parseStmtRaise
<1>2. /\ b # <<>> /\ Head(b) = o /\ Tail(b) = c
      /\ c # <<>> /\ Head(c) = i /\ Tail(c) = r
      /\ d # <<>> /\ Head(d) = j /\ Tail(d) = r
      /\ c \in Seq({i, n}) /\ x \o r = <<next, n>> /\ y \o r = d
  <2>. HIDE DEF n, o, j, i
  <2>. QED  BY Joins
<1>3. Fits(H, Live \cap {semi}, x \o r)
  <2>1. Fits(H, {semi}, <<next, n>>)
    BY FitsEnd DEF node
  <2>2. Live \cap {semi} \subseteq {semi}
    OBVIOUS
  <2>. HIDE DEF x, r, n
  <2>. QED  BY <1>2, <2>1, <2>2, FitsLess
<1>4. /\ \A T : T \subseteq {"SCONST"} => Fits(H, T, raiseFormat \o r)
      /\ \A T : T \subseteq Live => Fits(H, T, raiseCondition \o r)
  BY FormatFits, ConditionFits, FitsLess
<1>5. semi \notin RaiseLevels /\ "(" \notin RaiseLevels
  BY DEF RaiseLevels, semi
<1>. HIDE DEF n, r, x, y, b, c, d
<1>6. Fits(H, Live \ {semi}, d)
  <2>. DEFINE T == Live \ {semi}
  <2>1. T \cap {"SCONST"} \subseteq {"SCONST"} /\ T \ {"SCONST"} \subseteq Live
    OBVIOUS
  <2>. HIDE DEF T
  <2>2. /\ Head(d) = If({"SCONST"}, raiseFormat, raiseCondition) /\ d # <<>>
        /\ Fits(H, T \cap {"SCONST"}, raiseFormat \o Tail(d))
        /\ Fits(H, T \ {"SCONST"}, raiseCondition \o Tail(d))
    BY <1>2, <1>4, <2>1
  <2>3. Fits(H, T, d)
    BY <2>2, FitsIf
  <2>. QED  BY <2>3 DEF T
<1>7. Fits(H, Live, c)
  <2>1. /\ Head(c) = If({semi}, x, y) /\ c # <<>>
        /\ Fits(H, Live \cap {semi}, x \o Tail(c))
        /\ Fits(H, Live \ {semi}, y \o Tail(c))
    BY <1>2, <1>3, <1>6
  <2>. QED  BY <2>1, FitsIf
<1>8. Fits(H, Live, b)
  <2>1. lit \in {next, lit}
    OBVIOUS
  <2>. QED  BY <1>2, <1>5, <1>7, <2>1, FitsOption
<1>. QED  BY <1>1, <1>8

(* An assignment or an SQL statement that starts with a word.               *)
LEMMA WordFits ==
  ASSUME NEW H
  PROVE  /\ parseStmtWordStart # <<>> /\ Head(parseStmtWordStart) = lit
         /\ Tail(parseStmtWordStart) \in Seq(Other(WordKinds))
         /\ Fits(H, Live \ {".", "["}, Tail(parseStmtWordStart))
<1>. DEFINE e == <<>>
            o == While({"."}, <<next, lit>>)
            p == While({"["}, <<next, subscript, got({"]"})>>)
            x == <<o>>
            y == <<p>>
            u == <<next, collect({semi}), want(semi), node("Assign")>>
            v == finishExecSQL
            i == If({"."}, x, y)
            j == If(Assignment, u, v)
            b == <<i, j>>
            c == <<j>>
            d == <<p, j>>
            T == Live \ {".", "["}
<1>1. /\ parseStmtWordStart # <<>> /\ Head(parseStmtWordStart) = lit
      /\ Tail(parseStmtWordStart) = b
  BY DEF parseStmtWordStart
<1>2. parseStmtWordStart \in Seq(Other(WordKinds))
  <2>. DEFINE X == Steps(WordKinds)
  <2>1. SQLKinds \subseteq WordKinds
    BY DEF SQLKinds, WordKinds
  <2>2. Plain(SQLKinds) \subseteq X /\ Seq(Nested(X)) \subseteq Seq(Other(WordKinds))
    BY <2>1, OtherHolds
  <2>. HIDE DEF X
  <2>. QED  BY <2>2, WordStartForm, NestedHolds
<1>3. /\ b # <<>> /\ Head(b) = i /\ Tail(b) = c
      /\ c # <<>> /\ Head(c) = j /\ Tail(c) = e
      /\ d # <<>> /\ Head(d) = p /\ Tail(d) = c
      /\ y \o c = d /\ u \o e = u /\ v \o e = v
  <2>1. v \o e = v
    <3>. DEFINE k == collect({semi})
                m == want(semi)
                n == node("ExecSQL")
    <3>1. v = <<k, m, n>>
      BY DEF finishExecSQL
    <3>. HIDE DEF k, m, n, v
    <3>. QED  BY <3>1, EmptyJoins
  <2>2. u \o e = u
    <3>. DEFINE k == collect({semi})
                m == want(semi)
                n == node("Assign")
    <3>. HIDE DEF k, m, n
    <3>. QED  BY EmptyJoins
  <2>. HIDE DEF i, j, p, u, v
  <2>. QED  BY <2>1, <2>2, Joins
<1>4. Fits(H, T \cap Assignment, u) /\ \A S : Fits(H, S, v)
  <2>1. semi \notin T \cap Assignment /\ "(" \notin T \cap Assignment
    BY DEF Assignment, semi
  <2>. HIDE DEF T
  <2>. QED  BY <2>1, FitsWordRest, FitsRest DEF finishExecSQL, node
<1>. HIDE DEF e, x, y, u, v, b, c, d
<1>5. Fits(H, T, c)
  <2>. HIDE DEF T
  <2>1. /\ Head(c) = If(Assignment, u, v) /\ c # <<>>
        /\ Fits(H, T \cap Assignment, u \o Tail(c))
        /\ Fits(H, T \ Assignment, v \o Tail(c))
    BY <1>3, <1>4
  <2>. QED  BY <2>1, FitsIf
<1>6. Fits(H, T, d)
  <2>1. T \cap {"["} = {} /\ T \ {"["} = T
    OBVIOUS
  <2>. DEFINE z == <<next, subscript, got({"]"})>>
  <2>. HIDE DEF T, z
  <2>2. /\ Fits(H \cup {<<t, d>> : t \in T}, T \cap {"["}, z \o d)
        /\ Fits(H, T \ {"["}, Tail(d)) /\ d # <<>> /\ Head(d) = While({"["}, z)
    BY <1>3, <1>5, <2>1, FitsNowhere DEF z
  <2>. QED  BY <2>2, FitsWhile
<1>7. Fits(H, T, b)
  <2>1. T \cap {"."} = {} /\ T \ {"."} = T
    OBVIOUS
  <2>. HIDE DEF T
  <2>2. /\ Head(b) = If({"."}, x, y) /\ b # <<>>
        /\ Fits(H, T \cap {"."}, x \o Tail(b))
        /\ Fits(H, T \ {"."}, y \o Tail(b))
    BY <1>3, <1>6, <2>1, FitsNowhere
  <2>. QED  BY <2>2, FitsIf
<1>8. Tail(parseStmtWordStart) \in Seq(Other(WordKinds))
  <2>. DEFINE X == Other(WordKinds)
              s == parseStmtWordStart
  <2>1. s \in Seq(X) /\ s # <<>>
    BY <1>1, <1>2
  <2>. HIDE DEF X, s
  <2>2. Tail(s) \in Seq(X)
    BY <2>1, HeadTailProperties
  <2>. QED  BY <2>2 DEF X, s
<1>9. Fits(H, T, Tail(parseStmtWordStart))
  BY <1>1, <1>7
<1>. QED  BY <1>1, <1>8, <1>9

----------------------------------------------------------------------------
(* Which function parseProcStmt calls.                                     *)

(* The code b of a function that moves past the token it is called at, and  *)
(* goes on as described above.                                             *)
Fitting(b) ==
  /\ b # <<>> /\ Head(b).op \in {"want", "next", "lit"}
  /\ \A u \in Live :
       \/ Fits({}, {u}, Tail(b))
       \/ u \in {".", "["} /\ Tail(b) \in Seq(Other(WordKinds))

LEMMA FittingNow ==
  ASSUME NEW b, b # <<>>, Fits({}, Live, Tail(b)),
         \/ Head(b) \in {next, lit}
         \/ \E t : Head(b) = want(t)
  PROVE  Fitting(b)
<1>1. Head(b).op \in {"want", "next", "lit"}
  BY InstructionForms
<1>2. \A u \in Live : Fits({}, {u}, Tail(b))
  BY FitsLess
<1>. QED  BY <1>1, <1>2 DEF Fitting

(* The tokens at which a simple statement starts.                          *)
SimpleTokens == (Leading \cup Unreserved) \ CompositeTokens

LEMMA CompositeOrSimple ==
  /\ SimpleTokens \cap {semi, "(", EOF, ".", "["} = {}
  /\ \A t : t \notin SimpleTokens =>
       t \in CompositeTokens \/ Statement(t) = <<syntaxError, skip>>
<1>1. /\ semi \notin Unreserved /\ "(" \notin Unreserved /\ EOF \notin Unreserved
      /\ "." \notin Unreserved /\ "[" \notin Unreserved
  BY DEF Unreserved, semi, EOF
<1>2. /\ semi \notin Leading /\ "(" \notin Leading /\ EOF \notin Leading
      /\ "." \notin Leading /\ "[" \notin Leading
  BY DEF Leading, WordStart, QuotedNames, semi, EOF
<1>3. ASSUME NEW t, t \notin SimpleTokens, t \notin CompositeTokens
      PROVE  Statement(t) = <<syntaxError, skip>>
  <2>1. t \notin Leading /\ t \notin Unreserved
    BY <1>3 DEF SimpleTokens
  <2>. QED  BY <2>1, OtherStatements
<1>. QED  BY <1>1, <1>2, <1>3 DEF SimpleTokens

LEMMA WordFitting == Fitting(parseStmtWordStart)
<1>. DEFINE b == parseStmtWordStart
<1>1. /\ b # <<>> /\ Head(b) = lit /\ Tail(b) \in Seq(Other(WordKinds))
      /\ Fits({}, Live \ {".", "["}, Tail(b))
  BY WordFits
<1>. HIDE DEF b
<1>2. ASSUME NEW u \in Live, u \notin {".", "["}
      PROVE  Fits({}, {u}, Tail(b))
  <2>1. {u} \subseteq Live \ {".", "["}
    BY <1>2
  <2>. QED  BY <1>1, <2>1, FitsLess
<1>3. Head(b).op = "lit"
  BY <1>1, InstructionForms
<1>. QED  BY <1>1, <1>2, <1>3 DEF Fitting, b

LEMMA SimpleFits ==
  ASSUME NEW t \in SimpleTokens
  PROVE  Fitting(Statement(t))
<1>1. CASE t = "NULL"
  <2>1. parseStmtNull # <<>> /\ Head(parseStmtNull) = want("NULL")
    BY DEF parseStmtNull
  <2>. QED  BY <1>1, <2>1, ShortFits, FittingNow, ReservedStatements
<1>2. CASE t \in WordStart
  BY <1>2, WordFitting, ReservedStatements
<1>3. CASE t \in {"EXIT", "CONTINUE"}
  <2>1. \A F : Fitting(parseStmtExit(F))
    BY ExitFits, FittingNow
  <2>. QED  BY <1>3, <2>1, KeywordStatements
<1>4. CASE t = "RETURN"
  <2>1. parseStmtReturn # <<>> /\ Head(parseStmtReturn) = want("RETURN")
    BY DEF parseStmtReturn
  <2>. QED  BY <1>4, <2>1, ReturnFits, FittingNow, KeywordStatements
<1>5. CASE t = "RAISE"
  <2>1. parseStmtRaise # <<>> /\ Head(parseStmtRaise) = want("RAISE")
    BY DEF parseStmtRaise
  <2>. QED  BY <1>5, <2>1, RaiseFits, FittingNow, KeywordStatements
<1>6. CASE t = "ASSERT"
  <2>1. parseStmtAssert # <<>> /\ Head(parseStmtAssert) = want("ASSERT")
    BY DEF parseStmtAssert
  <2>. QED  BY <1>6, <2>1, AssertFits, FittingNow, KeywordStatements
<1>7. CASE t = "EXECUTE"
  <2>1. parseStmtDynExecute # <<>> /\ Head(parseStmtDynExecute) = want("EXECUTE")
    BY DEF parseStmtDynExecute
  <2>. QED  BY <1>7, <2>1, ExecuteFits, FittingNow, KeywordStatements
<1>8. CASE t = "PERFORM"
  <2>1. parseStmtPerform # <<>> /\ Head(parseStmtPerform) = want("PERFORM")
    BY DEF parseStmtPerform
  <2>. QED  BY <1>8, <2>1, ShortFits, FittingNow, KeywordStatements
<1>9. CASE t \in {"CALL", "DO"}
  <2>1. ASSUME NEW F
        PROVE  Fitting(parseStmtCall(F))
    <3>1. parseStmtCall(F) # <<>> /\ Head(parseStmtCall(F)) = next
      BY DEF parseStmtCall
    <3>. QED  BY <3>1, ShortFits, FittingNow
  <2>. QED  BY <1>9, <2>1, KeywordStatements
<1>10. CASE t \in {"FETCH", "MOVE"}
  <2>1. \A F : Fitting(parseStmtFetch(F))
    BY FetchFits, FittingNow
  <2>. QED  BY <1>10, <2>1, KeywordStatements
<1>11. CASE t = "CLOSE"
  <2>1. parseStmtClose # <<>> /\ Head(parseStmtClose) = want("CLOSE")
    BY DEF parseStmtClose
  <2>. QED  BY <1>11, <2>1, ShortFits, FittingNow, KeywordStatements
<1>12. CASE t = "COMMIT"
  <2>1. /\ parseStmtCommit # <<>> /\ Head(parseStmtCommit) = want("COMMIT")
        /\ Tail(parseStmtCommit)
             = <<parseOptTransactionChain, want(semi), nodeWith("Commit", {})>>
    BY DEF parseStmtCommit, node
  <2>. QED  BY <1>12, <2>1, ChainFits, FittingNow, KeywordStatements
<1>13. CASE t = "ROLLBACK"
  <2>1. /\ parseStmtRollback # <<>> /\ Head(parseStmtRollback) = want("ROLLBACK")
        /\ Tail(parseStmtRollback)
             = <<parseOptTransactionChain, want(semi), nodeWith("Rollback", {})>>
    BY DEF parseStmtRollback, node
  <2>. QED  BY <1>13, <2>1, ChainFits, FittingNow, KeywordStatements
<1>14. CASE t \notin Leading
  <2>1. Statement(t) = parseStmtExecSQL
    BY <1>14, OtherStatements DEF SimpleTokens
  <2>2. parseStmtExecSQL # <<>> /\ Head(parseStmtExecSQL) = lit
    <3>1. <<lit>> \o <<collect({semi}), want(semi), node("ExecSQL")>>
            = <<lit, collect({semi}), want(semi), node("ExecSQL")>>
      BY Tuples
    <3>. QED  BY <3>1 DEF parseStmtExecSQL, finishExecSQL
  <2>. QED  BY <2>1, <2>2, ShortFits, FittingNow
<1>. QED  BY <1>1, <1>2, <1>3, <1>4, <1>5, <1>6, <1>7, <1>8, <1>9, <1>10, <1>11,
             <1>12, <1>13, <1>14 DEF SimpleTokens, Leading, CompositeTokens

----------------------------------------------------------------------------
(* A statement in the text.                                                *)

(* The statement that starts at f has no semicolon outside parentheses      *)
(* before place m.                                                         *)
NoneBefore(ts, f, m) ==
  \A k \in f .. m - 1 : ts[k] = semi => DepthIn(ts, f, k) > 0

(* It ends before m with its first one.                                    *)
EndsRight(ts, f, m) == m > f /\ ts[m - 1] = semi /\ NoneBefore(ts, f, m - 1)

(* The kinds of nodes that it may return after a token taken unseen.        *)
UnseenKinds(ts, f, m) ==
  {k \in {"Raise"} : \E j \in f .. m - 1 : ts[j] = "USING"}
  \cup {k \in {"Assign", "ExecSQL"} : f < m /\ ts[f + 1] \in {".", "["}}

(* The kinds of which nothing is said.                                     *)
LeftKinds(ts, f, m) == ComplexKinds \cup UnseenKinds(ts, f, m)

(* The code b of a simple statement that started at f, where d parentheses  *)
(* are open: it is about to move past its first token, it is followed, or    *)
(* it is about to return its node.                                         *)
StatementAt(ts, free, d, b, f) ==
  LET n == Len(ts)
  IN  /\ Placed(ts, d, f) /\ ts[n] # EOF
      /\ \/ f = n /\ ts[n] \notin {semi, "(", ".", "["} /\ Fitting(b)
         \/ free /\ NoneBefore(ts, f, n) /\ Fits({}, {ts[n]}, b)
         \/ EndsRight(ts, f, n) /\ \E i : b = <<i>> /\ i.op = "node"

LEMMA NoneStays ==
  ASSUME NEW ts \in Seq(Token), NEW ts2 \in Seq(Token), Extends(ts, ts2),
         NEW f \in Nat, f > 0, NEW m \in Nat, m <= Len(ts) + 1,
         NoneBefore(ts, f, m)
  PROVE  NoneBefore(ts2, f, m)
<1>1. Len(ts) \in Nat
  OBVIOUS
<1>2. ASSUME NEW k \in f .. m - 1
      PROVE  ts2[k] = ts[k] /\ DepthIn(ts2, f, k) = DepthIn(ts, f, k)
  <2>1. k \in Nat /\ f <= k /\ k \in 1 .. Len(ts)
    BY <1>1
  <2>2. ts2[k] = ts[k]
    BY <2>1 DEF Extends
  <2>3. \A i \in f .. k - 1 : ts2[i] = ts[i]
    BY <1>1, <2>1 DEF Extends
  <2>4. k \in Nat /\ f <= k
    BY <2>1
  <2>5. DepthIn(ts2, f, k) = DepthIn(ts, f, k)
    BY <2>3, <2>4, DepthSame
  <2>. QED  BY <2>2, <2>5
<1>. QED  BY <1>2 DEF NoneBefore

LEMMA EndsStay ==
  ASSUME NEW ts \in Seq(Token), NEW ts2 \in Seq(Token), Extends(ts, ts2),
         NEW f \in Nat, f > 0, NEW m \in Nat, m <= Len(ts) + 1,
         EndsRight(ts, f, m)
  PROVE  EndsRight(ts2, f, m)
<1>1. Len(ts) \in Nat
  OBVIOUS
<1>2. /\ m > f /\ m - 1 \in Nat /\ m - 1 <= Len(ts) + 1 /\ m - 1 \in 1 .. Len(ts)
      /\ ts[m - 1] = semi /\ NoneBefore(ts, f, m - 1)
  BY <1>1 DEF EndsRight
<1>3. ts2[m - 1] = semi
  BY <1>2 DEF Extends
<1>4. NoneBefore(ts2, f, m - 1)
  BY <1>2, NoneStays
<1>. QED  BY <1>2, <1>3, <1>4 DEF EndsRight

LEMMA UnseenStay ==
  ASSUME NEW ts \in Seq(Token), NEW ts2 \in Seq(Token), Extends(ts, ts2),
         NEW f \in Nat, f > 0, NEW m \in Nat, m <= Len(ts), NEW m2 \in Nat,
         m <= m2
  PROVE  /\ UnseenKinds(ts, f, m) \subseteq UnseenKinds(ts2, f, m2)
         /\ LeftKinds(ts, f, m) \subseteq LeftKinds(ts2, f, m2)
<1>1. Len(ts) \in Nat
  OBVIOUS
<1>2. \A j \in f .. m - 1 : j \in f .. m2 - 1 /\ ts2[j] = ts[j]
  BY <1>1 DEF Extends
<1>3. f < m => f < m2 /\ ts2[f + 1] = ts[f + 1]
  BY <1>1 DEF Extends
<1>. QED  BY <1>2, <1>3 DEF UnseenKinds, LeftKinds

LEMMA NoneNext ==
  ASSUME NEW ts, NEW f \in Nat, NEW m \in Nat, f <= m, NoneBefore(ts, f, m),
         ts[m] # semi \/ DepthIn(ts, f, m) > 0
  PROVE  NoneBefore(ts, f, m + 1)
<1>1. \A k \in f .. (m + 1) - 1 : k \in f .. m - 1 \/ k = m
  OBVIOUS
<1>. QED  BY <1>1 DEF NoneBefore

(* Past the current token.                                                 *)
LEMMA StatementPast ==
  ASSUME NEW ts \in Seq(Token), NEW ts2 \in Seq(Token), NEW free2, NEW f,
         NEW d \in Nat, NEW d2, Placed(ts, d, f), NoneBefore(ts, f, Len(ts)),
         ts[Len(ts)] # EOF, Passes(ts, TRUE, ts2, free2),
         d2 = After(ts[Len(ts)], d)
  PROVE  /\ free2 /\ Placed(ts2, d2, f) /\ f \in Nat /\ f > 0 /\ f <= Len(ts)
         /\ Len(ts) \in Nat /\ Len(ts2) = Len(ts) + 1
         /\ ts2[Len(ts)] = ts[Len(ts)] /\ NoneBefore(ts2, f, Len(ts))
         /\ ts[Len(ts)] # semi \/ d > 0 => NoneBefore(ts2, f, Len(ts) + 1)
<1>. DEFINE n == Len(ts)
<1>1. free2 /\ Longer(ts, ts2)
  BY DEF Passes, Longer
<1>2. Placed(ts2, d2, f) /\ f \in Nat /\ f > 0 /\ Extends(ts, ts2)
  BY <1>1, PlacedNext
<1>3. /\ n \in Nat /\ Len(ts2) = n + 1 /\ f <= n /\ n \in 1 .. n
      /\ d = DepthIn(ts, f, n)
  BY <1>1, <1>2 DEF Longer, Placed
<1>4. NoneBefore(ts2, f, n)
  BY <1>2, <1>3, NoneStays
<1>5. ts2[n] = ts[n] /\ \A i \in f .. n - 1 : ts2[i] = ts[i]
  BY <1>2, <1>3 DEF Extends
<1>. HIDE DEF n
<1>6. f <= n /\ f \in Nat /\ n \in Nat
  BY <1>2, <1>3
<1>7. DepthIn(ts2, f, n) = DepthIn(ts, f, n)
  BY <1>5, <1>6, DepthSame
<1>8. ts[n] # semi \/ d > 0 => NoneBefore(ts2, f, n + 1)
  BY <1>3, <1>4, <1>5, <1>6, <1>7, NoneNext
<1>. QED  BY <1>1, <1>2, <1>3, <1>4, <1>5, <1>8 DEF n

(* More kinds allow more code.                                             *)
LEMMA OtherMore ==
  ASSUME NEW K, NEW L, K \subseteq L
  PROVE  Other(K) \subseteq Other(L) /\ Seq(Other(K)) \subseteq Seq(Other(L))
<1>1. Plain(K) \subseteq Plain(L)
  BY DEF Plain
<1>2. Steps(K) \subseteq Steps(L)
  BY <1>1 DEF Steps
<1>3. Other(K) \subseteq Other(L)
  BY <1>2, NestedMonotone DEF Other
<1>. QED  BY <1>3, CompoundMonotone

(* One turn: the statement is still followed, or has a token taken unseen,   *)
(* or the text ends inside it.                                             *)
LEMMA FollowedTurn ==
  ASSUME NEW ts \in Seq(Token), NEW ts2 \in Seq(Token), NEW free2, NEW f,
         NEW d \in Nat, NEW d2, NEW b, NEW b2, NEW fields,
         Placed(ts, d, f), ts[Len(ts)] # EOF, NoneBefore(ts, f, Len(ts)),
         Fits({}, {ts[Len(ts)]}, b),
         Turn(b, ts, TRUE, b2, ts2, free2, fields),
         Levelled(b, ts, TRUE, d, b2, ts2, free2, d2),
         d = 0 \/ Head(b).op \in {"collect", "discard"}
  PROVE  \/ ts2[Len(ts2)] = EOF
         \/ StatementAt(ts2, free2, d2, b2, f)
         \/ b2 \in Seq(Other(LeftKinds(ts2, f, Len(ts2))))
<1>. DEFINE n == Len(ts)
            t == ts[n]
            i == Head(b)
            r == Tail(b)
            Right == \/ ts2[Len(ts2)] = EOF
                     \/ StatementAt(ts2, free2, d2, b2, f)
                     \/ b2 \in Seq(Other(LeftKinds(ts2, f, Len(ts2))))
<1>1. PICK R : Closed({}, R) /\ <<t, b>> \in R
  BY DEF Fits
<1>2. Goes(R, t, b)
  BY <1>1 DEF Closed
<1>3. \A u, c : <<u, c>> \in R => Fits({}, {u}, c)
  BY <1>1 DEF Fits
<1>4. Placed(ts, d, f) /\ t # EOF /\ NoneBefore(ts, f, n)
  OBVIOUS
<1>5. ASSUME Waits(ts, TRUE, ts2, free2), d = 0, d2 = 0, <<t, b2>> \in R
      PROVE  StatementAt(ts2, free2, d2, b2, f)
  <2>1. ts2 = ts /\ free2 /\ Fits({}, {t}, b2)
    BY <1>3, <1>5 DEF Waits
  <2>. QED  BY <1>4, <1>5, <2>1 DEF StatementAt
<1>6. ASSUME Passes(ts, TRUE, ts2, free2), d2 = After(t, d)
      PROVE  /\ free2 /\ Placed(ts2, d2, f) /\ f \in Nat /\ f > 0 /\ f <= n
             /\ n \in Nat /\ Len(ts2) = n + 1
             /\ ts2[n] = t /\ NoneBefore(ts2, f, n)
             /\ t # semi \/ d > 0 => NoneBefore(ts2, f, n + 1)
  BY <1>4, <1>6, StatementPast
<1>7. ASSUME Passes(ts, TRUE, ts2, free2), d2 = After(t, d), t # semi \/ d > 0,
             ts2[Len(ts2)] # EOF, <<ts2[Len(ts2)], b2>> \in R
      PROVE  StatementAt(ts2, free2, d2, b2, f)
  <2>1. /\ free2 /\ Placed(ts2, d2, f) /\ Len(ts2) = n + 1
        /\ NoneBefore(ts2, f, n + 1)
    BY <1>6, <1>7
  <2>2. Fits({}, {ts2[Len(ts2)]}, b2)
    BY <1>3, <1>7
  <2>3. NoneBefore(ts2, f, Len(ts2))
    BY <2>1
  <2>. QED  BY <1>7, <2>1, <2>2, <2>3 DEF StatementAt
<1>8. \A m \in Seq(Token) : m # <<>> => m[Len(m)] \in Token
  OBVIOUS
<1>9. ts2[Len(ts2)] # EOF => ts2[Len(ts2)] \in Live
  <2>1. Extends(ts, ts2) \/ ts2 = ts
    <3>1. Passes(ts, TRUE, ts2, free2) \/ ts2 = ts
      BY DEF Turn, Waits
    <3>. QED  BY <3>1, TurnExtends
  <2>2. ts # <<>>
    BY DEF Placed
  <2>3. ts2 # <<>>
    BY <2>1, <2>2 DEF Extends
  <2>. QED  BY <1>8, <2>3 DEF Live
<1>10. ASSUME Passes(ts, TRUE, ts2, free2), d = 0, d2 = 0, Beyond(R, t, b2)
       PROVE  Right
  <2>0. "(" # semi /\ "USING" # "(" /\ "USING" # semi
    BY LiveTokens
  <2>1. After(t, d) = d2
    <3>1. t # "("
      BY <1>10, <2>0 DEF Beyond
    <3>2. ~(t = ")" /\ d > 0)
      BY <1>10
    <3>. QED  BY <1>10, <3>1, <3>2, AfterIs
  <2>. HIDE DEF n, t, Right
  <2>2. /\ free2 /\ Placed(ts2, d2, f) /\ f \in Nat /\ f > 0 /\ f <= n
        /\ n \in Nat /\ Len(ts2) = n + 1
        /\ ts2[n] = t /\ NoneBefore(ts2, f, n)
    BY <1>6, <1>10, <2>1
  <2>3. CASE t = semi /\ \E j : b2 = <<j>> /\ j.op = "node"
    <3>1. EndsRight(ts2, f, Len(ts2))
      <4>1. Len(ts2) - 1 = n /\ Len(ts2) > f
        BY <2>2
      <4>. QED  BY <2>2, <2>3, <4>1 DEF EndsRight
    <3>. QED  BY <2>2, <2>3, <3>1 DEF StatementAt, Right
  <2>4. CASE t = "USING" /\ b2 \in Seq(Other(RaiseKinds))
    <3>1. n \in f .. Len(ts2) - 1
      BY <2>2
    <3>2. "Raise" \in UnseenKinds(ts2, f, Len(ts2))
      BY <2>2, <2>4, <3>1 DEF UnseenKinds
    <3>3. RaiseKinds \subseteq LeftKinds(ts2, f, Len(ts2))
      BY <3>2 DEF RaiseKinds, LeftKinds
    <3>. QED  BY <2>4, <3>3, OtherMore DEF Right
  <2>5. CASE t \notin {semi, "("} /\ \A u \in Live : <<u, b2>> \in R
    BY <1>7, <1>9, <1>10, <2>1, <2>5 DEF Right
  <2>. QED  BY <1>10, <2>3, <2>4, <2>5 DEF Beyond
<1>11. i.op \notin {"collect", "discard"} => d = 0 /\ d2 = 0
  BY DEF Levelled
<1>. HIDE DEF n, t, Right
<1>12. CASE i.op \in {"want", "got", "next", "lit", "anyIdentifier"}
  <2>1. \/ Passes(ts, TRUE, ts2, free2) /\ b2 = r /\ Beyond(R, t, r)
        \/ Waits(ts, TRUE, ts2, free2) /\ b2 = r /\ <<t, r>> \in R
    <3>1. CASE i.op = "got"
      <4>1. t \in i.on => Passes(ts, TRUE, ts2, free2)
        BY <3>1 DEF Levelled, t, n
      <4>2. /\ b2 = r
            /\ \/ Passes(ts, TRUE, ts2, free2) /\ t \in i.on
               \/ Waits(ts, TRUE, ts2, free2)
        BY <3>1 DEF Turn, t, n
      <4>. QED  BY <1>2, <3>1, <4>1, <4>2 DEF Goes
    <3>2. CASE i.op # "got"
      <4>1. /\ b2 = r /\ Passes(ts, TRUE, ts2, free2)
            /\ i.op = "want" => t \in i.on
            /\ i.op = "anyIdentifier" => t \in Identifiers
        BY <1>12, <3>2 DEF Turn, t, n
      <4>. QED  BY <1>2, <1>12, <3>2, <4>1 DEF Goes
    <3>. QED  BY <3>1, <3>2
  <2>2. d = 0 /\ d2 = 0
    BY <1>11, <1>12
  <2>. QED  BY <1>5, <1>10, <2>1, <2>2 DEF Right
<1>13. CASE i.op \in {"if", "while", "until", "set"}
  <2>1. Waits(ts, TRUE, ts2, free2) /\ <<t, b2>> \in R
    <3>1. CASE i.op = "if"
      BY <1>2, <3>1 DEF Turn, Goes, t, n
    <3>2. CASE i.op = "while"
      BY <1>2, <3>2 DEF Turn, Goes, t, n
    <3>3. CASE i.op = "until"
      BY <1>2, <3>3 DEF Turn, Goes, t, n
    <3>4. CASE i.op = "set"
      BY <1>2, <3>4 DEF Turn, Goes, t, n
    <3>. QED  BY <1>13, <3>1, <3>2, <3>3, <3>4
  <2>2. d = 0 /\ d2 = 0
    BY <1>11, <1>13
  <2>. QED  BY <1>5, <2>1, <2>2 DEF Right
<1>14. CASE i.op = "collect"
  <2>1. /\ i.open = "(" /\ i.close = ")" /\ semi \in i.on
        /\ \A u \in i.on : <<u, r>> \in R
    BY <1>2, <1>14 DEF Goes
  <2>2. CASE d = 0 /\ t \in i.on
    <3>1. d2 = 0 /\ b2 = r /\ Waits(ts, TRUE, ts2, free2)
      BY <1>14, <2>2 DEF Levelled, t, n
    <3>. QED  BY <1>5, <2>1, <2>2, <3>1 DEF Right
  <2>3. CASE ~(d = 0 /\ t \in i.on)
    <3>1. b2 = b /\ Passes(ts, TRUE, ts2, free2) /\ d2 = After(t, d)
      BY <1>4, <1>14, <2>1, <2>3 DEF Levelled, t, n
    <3>2. t # semi \/ d > 0
      BY <2>1, <2>3
    <3>3. ASSUME ts2[Len(ts2)] # EOF
          PROVE  StatementAt(ts2, free2, d2, b2, f)
      <4>. DEFINE u == ts2[Len(ts2)]
      <4>1. Fits({}, {u}, b)
        <5>1. Fits({}, i.on, r)
          BY <1>1, <2>1 DEF Fits
        <5>2. \A Q : (\A v \in i.on : <<v, r>> \in Q) => \A v \in {u} : Goes(Q, v, b)
          BY <1>2, <1>14, <2>1 DEF Goes
        <5>. HIDE DEF u, i, r
        <5>. QED  BY <5>1, <5>2, FitsAt
      <4>2. /\ free2 /\ Placed(ts2, d2, f) /\ Len(ts2) = n + 1
            /\ NoneBefore(ts2, f, n + 1)
        BY <1>6, <3>1, <3>2
      <4>3. NoneBefore(ts2, f, Len(ts2))
        BY <4>2
      <4>. QED  BY <3>1, <3>3, <4>1, <4>2, <4>3 DEF StatementAt
    <3>. QED  BY <3>3 DEF Right
  <2>. QED  BY <2>2, <2>3
<1>15. i.op \in {"want", "got", "next", "lit", "anyIdentifier", "if", "while",
                 "until", "set", "collect"}
  BY <1>2 DEF Goes
<1>. QED  BY <1>12, <1>13, <1>14, <1>15 DEF Right

LEMMA StatementTurn ==
  ASSUME NEW ts \in Seq(Token), NEW ts2 \in Seq(Token), NEW free \in BOOLEAN,
         NEW free2, NEW f, NEW d \in Nat, NEW d2, NEW b, NEW b2, NEW fields,
         StatementAt(ts, free, d, b, f),
         Turn(b, ts, free, b2, ts2, free2, fields),
         Levelled(b, ts, free, d, b2, ts2, free2, d2),
         d = 0 \/ Head(b).op \in {"collect", "discard"}
  PROVE  \/ ts2[Len(ts2)] = EOF
         \/ StatementAt(ts2, free2, d2, b2, f)
         \/ b2 \in Seq(Other(LeftKinds(ts2, f, Len(ts2))))
<1>. DEFINE n == Len(ts)
            t == ts[n]
            n2 == Len(ts2)
            u == ts2[n2]
<1>1. Placed(ts, d, f) /\ t # EOF
  BY DEF StatementAt
<1>2. CASE f = n /\ t \notin {semi, "(", ".", "["} /\ Fitting(b)
  <2>1. /\ Head(b).op \in {"want", "next", "lit"}
        /\ \A v \in Live :
             \/ Fits({}, {v}, Tail(b))
             \/ v \in {".", "["} /\ Tail(b) \in Seq(Other(WordKinds))
    BY <1>2 DEF Fitting
  <2>2. Passes(ts, free, ts2, free2) /\ b2 = Tail(b)
    BY <2>1 DEF Turn
  <2>3. d = 0 /\ d2 = 0
    BY <2>1 DEF Levelled
  <2>4. f \in Nat /\ n \in Nat /\ f \in 1 .. n /\ NoneBefore(ts, f, n)
    BY <1>1, <1>2 DEF Placed, NoneBefore
  <2>5. CASE ~free
    <3>1. ts2 = ts /\ free2
      BY <2>2, <2>5 DEF Passes
    <3>2. t \in Live
      BY <1>1, <2>4 DEF Live
    <3>3. Fits({}, {t}, b2)
      BY <1>2, <2>1, <2>2, <3>2
    <3>4. StatementAt(ts2, free2, d2, b2, f)
      BY <1>1, <2>3, <2>4, <3>1, <3>3 DEF StatementAt
    <3>. QED  BY <3>4
  <2>6. CASE free /\ u # EOF
    <3>1. d2 = After(t, d)
      BY <1>2, <2>3, AfterIs
    <3>. HIDE DEF t
    <3>2. Passes(ts, TRUE, ts2, free2)
      BY <2>2, <2>6
    <3>3. /\ free2 /\ Placed(ts2, d2, f) /\ n2 = n + 1
          /\ t # semi => NoneBefore(ts2, f, n + 1)
      BY <1>1, <2>4, <3>1, <3>2, StatementPast DEF t
    <3>4. NoneBefore(ts2, f, n2)
      BY <1>2, <3>3
    <3>5. u \in Live
      BY <2>4, <2>6, <3>3 DEF Live
    <3>. HIDE DEF n, n2, u
    <3>6. CASE Fits({}, {u}, b2)
      <4>1. StatementAt(ts2, free2, d2, b2, f)
        BY <2>6, <3>3, <3>4, <3>6 DEF StatementAt, u, n2
      <4>. QED  BY <4>1
    <3>7. CASE u \in {".", "["} /\ b2 \in Seq(Other(WordKinds))
      <4>1. f < n2 /\ ts2[f + 1] = u
        BY <1>2, <2>4, <3>3 DEF u
      <4>2. WordKinds \subseteq LeftKinds(ts2, f, n2)
        BY <3>7, <4>1 DEF WordKinds, LeftKinds, UnseenKinds
      <4>3. b2 \in Seq(Other(LeftKinds(ts2, f, n2)))
        BY <3>7, <4>2, OtherMore
      <4>. QED  BY <4>3 DEF n2
    <3>. QED  BY <2>1, <2>2, <3>5, <3>6, <3>7
  <2>. QED  BY <2>5, <2>6
<1>3. CASE free /\ NoneBefore(ts, f, n) /\ Fits({}, {t}, b)
  <2>. HIDE DEF t
  <2>1. /\ Turn(b, ts, TRUE, b2, ts2, free2, fields)
        /\ Levelled(b, ts, TRUE, d, b2, ts2, free2, d2)
    BY <1>3
  <2>. QED  BY <1>1, <1>3, <2>1, FollowedTurn DEF t
<1>4. CASE \E i : b = <<i>> /\ i.op = "node"
  <2>1. PICK i : b = <<i>> /\ i.op = "node"
    BY <1>4
  <2>2. Head(b).op = "node"
    BY <2>1
  <2>. QED  BY <2>2, NoTurn
<1>. QED  BY <1>2, <1>3, <1>4 DEF StatementAt

(* It calls nothing, and the node it returns ends rightly.                  *)
LEMMA StatementHead ==
  ASSUME NEW ts, NEW free, NEW d, NEW b, NEW f, StatementAt(ts, free, d, b, f)
  PROVE  /\ b # <<>> /\ Head(b).op \notin {"call", "parseProcStmt"}
         /\ f \in 1 .. Len(ts)
         /\ Head(b).op = "node" => EndsRight(ts, f, Len(ts))
<1>. DEFINE i == Head(b)
<1>1. f \in 1 .. Len(ts)
  BY DEF StatementAt, Placed
<1>2. CASE Fitting(b)
  BY <1>1, <1>2 DEF Fitting
<1>3. CASE Fits({}, {ts[Len(ts)]}, b)
  <2>1. PICK R : Closed({}, R) /\ <<ts[Len(ts)], b>> \in R
    BY <1>3 DEF Fits
  <2>2. Goes(R, ts[Len(ts)], b)
    BY <2>1 DEF Closed
  <2>3. b # <<>> /\ i.op \in {"want", "got", "next", "lit", "anyIdentifier", "if",
                              "while", "until", "set", "collect"}
    BY <2>2 DEF Goes
  <2>. QED  BY <1>1, <2>3
<1>4. CASE EndsRight(ts, f, Len(ts)) /\ \E j : b = <<j>> /\ j.op = "node"
  <2>1. PICK j : b = <<j>> /\ j.op = "node"
    BY <1>4
  <2>2. b # <<>> /\ i = j
    BY <2>1
  <2>. QED  BY <1>1, <1>4, <2>1, <2>2
<1>. QED  BY <1>2, <1>3, <1>4 DEF StatementAt

(* A statement starts at the current token: it is simple, or its code is    *)
(* that of the functions nothing is said of.                               *)
LEMMA StatementStarts ==
  ASSUME NEW ts \in Seq(Token), ts # <<>>, NEW free
  PROVE  \/ StatementAt(ts, free, 0, Statement(ts[Len(ts)]), Len(ts))
         \/ \A L : ComplexKinds \subseteq L
                     => Statement(ts[Len(ts)]) \in Seq(Other(L))
<1>. DEFINE f == Len(ts)
            t == ts[f]
<1>1. f \in Nat /\ f \in 1 .. f /\ t \in Token
  OBVIOUS
<1>2. CASE t \in SimpleTokens
  <2>1. t \notin {semi, "(", EOF, ".", "["} /\ Fitting(Statement(t))
    BY <1>2, CompositeOrSimple, SimpleFits
  <2>2. DepthIn(ts, f, f) = 0
    BY <1>1, DepthLaws
  <2>3. Placed(ts, 0, f)
    BY <1>1, <2>2 DEF Placed
  <2>4. ts[f] # EOF /\ ts[f] \notin {semi, "(", ".", "["} /\ Fitting(Statement(ts[f]))
    BY <2>1
  <2>. QED  BY <2>3, <2>4 DEF StatementAt
<1>3. CASE t \in CompositeTokens
  <2>1. t # "EXECUTE"
    BY <1>3 DEF CompositeTokens
  <2>. QED  BY <1>1, <1>3, <2>1, StatementsAreOther
<1>4. CASE Statement(t) = <<syntaxError, skip>>
  BY <1>4, ErrorIsOther
<1>. QED  BY <1>2, <1>3, <1>4, CompositeOrSimple

----------------------------------------------------------------------------
(* The outermost block.  Until its END, it has an END to find.              *)

endLabel == When(LabelTokens, <<skip>>)
ended == node("Block")
blockEnd == <<want("END"), endLabel, ended>>

Unclosed(b) == \E s \in Seq(Other({})) : b = s \o blockEnd
Finishing(b) == b \in {<<endLabel, ended>>, <<skip, ended>>, <<ended>>}

LEMMA EndParts ==
  /\ want("END").op = "want" /\ want("END").on = {"END"}
  /\ endLabel.op = "if" /\ endLabel.then = <<skip>> /\ endLabel.else = <<>>
  /\ skip.op = "skip" /\ ended.op = "node"
  /\ "END" # EOF
  BY DEF want, endLabel, When, If, skip, ended, node, nodeWith, EOF

LEMMA EndTuples ==
  /\ blockEnd # <<>> /\ Head(blockEnd) = want("END")
  /\ Tail(blockEnd) = <<endLabel, ended>>
  /\ <<skip>> \o <<ended>> = <<skip, ended>>
  /\ <<>> \o <<ended>> = <<ended>>
  /\ \E S : blockEnd \in Seq(S)
<1>. DEFINE a == want("END")
            b == endLabel
            c == ended
            d == skip
<1>. HIDE DEF a, b, c, d
<1>1. /\ <<a, b, c>> # <<>> /\ Head(<<a, b, c>>) = a /\ Tail(<<a, b, c>>) = <<b, c>>
      /\ <<a, b, c>> \in Seq({a, b, c})
  OBVIOUS
<1>2. <<d>> \o <<c>> = <<d, c>>
  BY PairForm
<1>3. <<>> \o <<c>> = <<c>>
  OBVIOUS
<1>. QED  BY <1>1, <1>2, <1>3 DEF a, b, c, d, blockEnd

(* The code of parseBlock: five parts, and its end.                         *)
startLabel == When({"<<"}, <<next, anyIdentifier, want(">>")>>)
declarations == When({"DECLARE"}, <<next, parseDeclSection>>)
exceptionTest == When({"EXCEPTION"}, parseExceptionSect)
blockStart ==
  <<startLabel, declarations, want("BEGIN"), parseProcSect, exceptionTest>>

LEMMA BlockCode == parseBlock = blockStart \o blockEnd
<1>. DEFINE a == startLabel
            b == declarations
            c == want("BEGIN")
            d == parseProcSect
            e == exceptionTest
            f == want("END")
            g == endLabel
            h == ended
<1>1. /\ parseBlock = (<<a>> \o <<b, c, d, e, f, g>>) \o <<h>>
      /\ blockStart = <<a, b, c, d, e>> /\ blockEnd = <<f, g, h>>
  BY DEF parseBlock, blockRest, blockStart, blockEnd, startLabel, declarations,
     exceptionTest, endLabel, ended
<1>. HIDE DEF a, b, c, d, e, f, g, h
<1>. DEFINE S == {a, b, c, d, e, f, g, h}
            one == <<a>>
            six == <<b, c, d, e, f, g>>
            seven == <<a, b, c, d, e, f, g>>
            last == <<h>>
            five == <<a, b, c, d, e>>
            three == <<f, g, h>>
            all == <<a, b, c, d, e, f, g, h>>
<1>2. /\ one \in Seq(S) /\ Len(one) = 1 /\ one[1] = a
      /\ last \in Seq(S) /\ Len(last) = 1 /\ last[1] = h
      /\ three \in Seq(S) /\ Len(three) = 3
      /\ three[1] = f /\ three[2] = g /\ three[3] = h
  OBVIOUS
<1>3. /\ six \in Seq(S) /\ Len(six) = 6
      /\ six[1] = b /\ six[2] = c /\ six[3] = d /\ six[4] = e /\ six[5] = f
      /\ six[6] = g
  OBVIOUS
<1>4. /\ seven \in Seq(S) /\ Len(seven) = 7
      /\ seven[1] = a /\ seven[2] = b /\ seven[3] = c /\ seven[4] = d
      /\ seven[5] = e /\ seven[6] = f /\ seven[7] = g
  OBVIOUS
<1>5. /\ five \in Seq(S) /\ Len(five) = 5
      /\ five[1] = a /\ five[2] = b /\ five[3] = c /\ five[4] = d /\ five[5] = e
  OBVIOUS
<1>6. /\ all \in Seq(S) /\ Len(all) = 8
      /\ all[1] = a /\ all[2] = b /\ all[3] = c /\ all[4] = d
      /\ all[5] = e /\ all[6] = f /\ all[7] = g /\ all[8] = h
  OBVIOUS
<1>. HIDE DEF S, one, six, seven, last, five, three, all
<1>7. /\ \A k \in 1 .. 1 : k = 1
      /\ \A k \in 1 .. 3 : k \in {1, 2, 3}
      /\ \A k \in 1 .. 5 : k \in {1, 2, 3, 4, 5}
      /\ \A k \in 1 .. 6 : k \in {1, 2, 3, 4, 5, 6}
      /\ \A k \in 1 .. 7 : k \in {1, 2, 3, 4, 5, 6, 7}
  OBVIOUS
<1>8. one \o six = seven
  <2>1. /\ \A k \in 1 .. Len(one) : seven[k] = one[k]
        /\ \A k \in 1 .. Len(six) : seven[Len(one) + k] = six[k]
        /\ Len(seven) = Len(one) + Len(six)
    BY <1>2, <1>3, <1>4, <1>7
  <2>. QED  BY <1>2, <1>3, <1>4, <2>1, ConcatForm, Zenon
<1>9. seven \o last = all
  <2>1. /\ \A k \in 1 .. Len(seven) : all[k] = seven[k]
        /\ \A k \in 1 .. Len(last) : all[Len(seven) + k] = last[k]
        /\ Len(all) = Len(seven) + Len(last)
    BY <1>2, <1>4, <1>6, <1>7
  <2>. QED  BY <1>2, <1>4, <1>6, <2>1, ConcatForm, Zenon
<1>10. five \o three = all
  <2>1. /\ \A k \in 1 .. Len(five) : all[k] = five[k]
        /\ \A k \in 1 .. Len(three) : all[Len(five) + k] = three[k]
        /\ Len(all) = Len(five) + Len(three)
    BY <1>2, <1>5, <1>6, <1>7
  <2>. QED  BY <1>2, <1>5, <1>6, <2>1, ConcatForm, Zenon
<1>11. (one \o six) \o last = five \o three
  BY <1>8, <1>9, <1>10, Zenon
<1>. QED  BY <1>1, <1>11, Zenon DEF one, six, last, five, three

LEMMA BlockStarts == Unclosed(parseBlock)
<1>. DEFINE X == Nested(Steps({}))
            A == startLabel
            B == declarations
            C == want("BEGIN")
            D == parseProcSect
            E == exceptionTest
<1>1. Plain({}) \subseteq X /\ Loops \subseteq X /\ BranchLoops \subseteq X
  BY OtherHolds, NestedHolds, LoopsAreOther, BranchesAreOther
<1>2. /\ {"<<"} \subseteq Token /\ ">>" \in Token /\ {"DECLARE"} \subseteq Token
      /\ "BEGIN" \in Token /\ {"EXCEPTION"} \subseteq Token
  BY DEF Token, Reserved, Unreserved, Symbols
<1>. HIDE DEF X
<1>3. /\ next \in X /\ anyIdentifier \in X /\ want(">>") \in X
      /\ parseDeclSection \in X /\ C \in X
  BY <1>1, <1>2, PlainForms, DeclSectionForm
<1>4. /\ <<next, anyIdentifier, want(">>")>> \in Seq(X)
      /\ <<next, parseDeclSection>> \in Seq(X)
      /\ parseExceptionSect \in Seq(X)
  BY <1>1, <1>3, ExceptionSectForm
<1>5. A \in Nest(X) /\ B \in Nest(X) /\ E \in Nest(X)
  BY <1>2, <1>4, NestHolds DEF startLabel, declarations, exceptionTest
<1>6. C \in Nest(X) /\ D \in Nest(X)
  BY <1>1, <1>3, NestHolds, ProcSectForm
<1>7. Nest(X) \subseteq Other({})
  BY NestedHolds DEF Other, X
<1>. HIDE DEF A, B, C, D, E
<1>8. <<A, B, C, D, E>> \in Seq(Other({}))
  BY <1>5, <1>6, <1>7
<1>9. blockStart = <<A, B, C, D, E>>
  BY DEF blockStart, A, B, C, D, E
<1>. QED  BY <1>8, <1>9, BlockCode DEF Unclosed

(* What a turn leaves of the code before e.                                 *)
LEMMA FrontTurn ==
  ASSUME NEW K, NEW s \in Seq(Other(K)), s # <<>>, NEW S, NEW e \in Seq(S),
         NEW ts, NEW ts2, NEW free, NEW free2, NEW b2, NEW fields,
         Turn(s \o e, ts, free, b2, ts2, free2, fields)
  PROVE  \E s2 \in Seq(Other(K)) : b2 = s2 \o e
<1>. DEFINE X == Other(K)
            i == Head(s)
            r == Tail(s)
            b == s \o e
<1>1. Head(b) = i /\ Tail(b) = r \o e
  BY Prefixed
<1>2. i \in X /\ r \in Seq(X)
  BY HeadTailProperties
<1>3. \A p, q : p \in Seq(X) /\ q \in Seq(X) =>
        p \o q \in Seq(X) /\ p \o (q \o e) = (p \o q) \o e
  <2>1. SUFFICES ASSUME NEW p \in Seq(X), NEW q \in Seq(X)
                 PROVE  p \o q \in Seq(X) /\ p \o (q \o e) = (p \o q) \o e
    OBVIOUS
  <2>. DEFINE U == X \cup S
  <2>. HIDE DEF X
  <2>2. p \in Seq(U) /\ q \in Seq(U) /\ e \in Seq(U)
    OBVIOUS
  <2>. HIDE DEF U
  <2>3. p \o (q \o e) = (p \o q) \o e
    BY <2>2, ConcatAssociative
  <2>. QED  BY <2>3
<1>4. \/ i \in Steps(K)
      \/ i.op = "if" /\ i.then \in Seq(X) /\ i.else \in Seq(X)
      \/ i.op \in {"while", "until"} /\ i.body \in Seq(X)
  BY <1>2, OtherParts
<1>. HIDE DEF X, i, r, b
<1>5. CASE i.op = "if" /\ i.then \in Seq(X) /\ i.else \in Seq(X)
  <2>1. \E c \in {i.then, i.else} : b2 = c \o (r \o e)
    <3>1. Head(b).op = "if" /\ Turn(b, ts, free, b2, ts2, free2, fields)
      BY <1>1, <1>5 DEF b
    <3>2. \/ b2 = Head(b).then \o Tail(b)
          \/ b2 = Head(b).else \o Tail(b)
      BY <3>1, IfTurn
    <3>. QED  BY <1>1, <3>2
  <2>2. PICK c \in {i.then, i.else} : b2 = c \o (r \o e)
    BY <2>1
  <2>3. c \o r \in Seq(X) /\ b2 = (c \o r) \o e
    BY <1>2, <1>3, <1>5, <2>2
  <2>. QED  BY <2>3 DEF X
<1>6. CASE i.op \in {"while", "until"} /\ i.body \in Seq(X)
  <2>1. b2 = i.body \o b \/ b2 = r \o e
    <3>1. Head(b).op \in {"while", "until"}
          /\ Turn(b, ts, free, b2, ts2, free2, fields)
      BY <1>1, <1>6 DEF b
    <3>2. b2 = Head(b).body \o b \/ b2 = Tail(b)
      BY <3>1 DEF Turn
    <3>. QED  BY <1>1, <3>2
  <2>2. i.body \o s \in Seq(X) /\ i.body \o b = (i.body \o s) \o e
    BY <1>3, <1>6 DEF b, X
  <2>. QED  BY <1>2, <2>1, <2>2 DEF X
<1>7. CASE i.op \notin {"if", "while", "until"}
  <2>1. Head(b).op \notin {"if", "while", "until"}
        /\ Turn(b, ts, free, b2, ts2, free2, fields)
    BY <1>1, <1>7 DEF b
  <2>2. b2 \in {Tail(b), b}
    BY <2>1 DEF Turn
  <2>. QED  BY <1>1, <1>2, <2>2 DEF b, X
<1>8. i \in Steps(K) => i.op \notin {"if", "while", "until"}
  BY Operations DEF Steps
<1>. QED  BY <1>4, <1>5, <1>6, <1>7, <1>8

(* The block is left open until its END.                                    *)
LEMMA UnclosedTurn ==
  ASSUME NEW b, Unclosed(b), NEW ts, NEW ts2, NEW free, NEW free2, NEW b2,
         NEW fields, Turn(b, ts, free, b2, ts2, free2, fields)
  PROVE  Unclosed(b2) \/ (ts[Len(ts)] = "END" /\ Finishing(b2))
<1>1. PICK s \in Seq(Other({})) : b = s \o blockEnd
  BY DEF Unclosed
<1>2. PICK S : blockEnd \in Seq(S)
  BY EndTuples
<1>3. CASE s = <<>>
  <2>1. b = blockEnd
    BY <1>1, <1>2, <1>3
  <2>2. Head(b).op = "want" /\ Head(b).on = {"END"} /\ Tail(b) = <<endLabel, ended>>
    BY <2>1, EndParts, EndTuples
  <2>3. b2 = Tail(b) /\ ts[Len(ts)] \in Head(b).on
    BY <2>2, MoveTurn
  <2>. QED  BY <2>2, <2>3 DEF Finishing
<1>4. CASE s # <<>>
  <2>1. Turn(s \o blockEnd, ts, free, b2, ts2, free2, fields)
    BY <1>1
  <2>2. \E s2 \in Seq(Other({})) : b2 = s2 \o blockEnd
    BY <1>2, <1>4, <2>1, FrontTurn
  <2>. QED  BY <2>2 DEF Unclosed
<1>. QED  BY <1>3, <1>4

(* Until then it returns no node, and what it calls is called before END.    *)
LEMMA UnclosedHead ==
  ASSUME NEW b, Unclosed(b)
  PROVE  /\ b # <<>> /\ Head(b).op # "node"
         /\ Head(b).op \in {"call", "parseProcStmt"} => Unclosed(Tail(b))
<1>1. PICK s \in Seq(Other({})) : b = s \o blockEnd
  BY DEF Unclosed
<1>2. PICK S : blockEnd \in Seq(S)
  BY EndTuples
<1>3. CASE s = <<>>
  <2>1. b = blockEnd
    BY <1>1, <1>2, <1>3
  <2>. QED  BY <2>1, EndParts, EndTuples
<1>4. CASE s # <<>>
  <2>1. b # <<>> /\ Head(b) = Head(s) /\ Tail(b) = Tail(s) \o blockEnd
    BY <1>1, <1>2, <1>4, Prefixed
  <2>2. Head(s) \in Other({}) /\ Tail(s) \in Seq(Other({}))
    BY <1>4, HeadTailProperties
  <2>3. Head(s).op # "node"
    BY <2>2, OtherHead
  <2>. QED  BY <2>1, <2>2, <2>3 DEF Unclosed
<1>. QED  BY <1>3, <1>4

(* After it there may be a label, and the node is returned.                 *)
LEMMA FinishingTurn ==
  ASSUME NEW b, Finishing(b), NEW ts, NEW ts2, NEW free, NEW free2, NEW b2,
         NEW fields, Turn(b, ts, free, b2, ts2, free2, fields)
  PROVE  Finishing(b2)
<1>. DEFINE g == endLabel
            h == ended
            d == skip
<1>1. /\ g.op = "if" /\ g.then = <<d>> /\ g.else = <<>>
      /\ d.op = "skip" /\ h.op = "node"
  BY EndParts
<1>2. <<d>> \o <<h>> = <<d, h>> /\ <<>> \o <<h>> = <<h>>
  BY EndTuples
<1>3. b \in {<<g, h>>, <<d, h>>, <<h>>}
  BY DEF Finishing
<1>. HIDE DEF g, h, d
<1>4. CASE b = <<g, h>>
  <2>1. Head(b) = g /\ Tail(b) = <<h>>
    BY <1>4
  <2>2. b2 = g.then \o <<h>> \/ b2 = g.else \o <<h>>
    <3>1. Head(b).op = "if"
      BY <1>1, <2>1
    <3>2. b2 = Head(b).then \o Tail(b) \/ b2 = Head(b).else \o Tail(b)
      BY <3>1, IfTurn
    <3>. QED  BY <2>1, <3>2
  <2>3. b2 = <<d, h>> \/ b2 = <<h>>
    BY <1>1, <1>2, <2>2
  <2>. QED  BY <2>3 DEF Finishing, d, h
<1>5. CASE b = <<d, h>>
  <2>1. Head(b).op = "skip" /\ Tail(b) = <<h>>
    BY <1>1, <1>5
  <2>2. b2 = <<h>>
    BY <2>1 DEF Turn
  <2>. QED  BY <2>2 DEF Finishing, h
<1>6. CASE b = <<h>>
  <2>1. Head(b).op = "node"
    BY <1>1, <1>6
  <2>. QED  BY <2>1, NoTurn
<1>. QED  BY <1>3, <1>4, <1>5, <1>6

LEMMA FinishingHead ==
  ASSUME NEW b, Finishing(b)
  PROVE  b # <<>> /\ Head(b).op \notin {"call", "parseProcStmt"}
<1>. DEFINE g == endLabel
            h == ended
            d == skip
<1>1. g.op = "if" /\ d.op = "skip" /\ h.op = "node"
  BY EndParts
<1>2. b \in {<<g, h>>, <<d, h>>, <<h>>}
  BY DEF Finishing
<1>. HIDE DEF g, h, d
<1>3. b # <<>> /\ Head(b) \in {g, h, d}
  BY <1>2
<1>. QED  BY <1>1, <1>3

----------------------------------------------------------------------------
(* The invariant.                                                          *)

(* The first m activations are not of simple statements, but for those that  *)
(* have a token taken unseen.                                              *)
LeftTo(m) ==
  \A k \in 1 .. m :
    /\ acts[k].at \in 1 .. cur
    /\ code[k] \in Seq(Other(LeftKinds(toks, acts[k].at, cur)))

(* The last may be that of a simple statement, and is not the outermost.    *)
StackEnds ==
  LET n == Len(acts)
  IN  \/ LeftTo(n)
      \/ /\ n > 1 /\ LeftTo(n - 1)
         /\ StatementAt(toks, ~pushed, depth, code[n], acts[n].at)

EndsAsSaid(n) ==
  /\ n.from \in 1 .. n.to /\ n.to <= cur
  /\ \/ n.kind \in UnseenKinds(toks, n.from, n.to)
     \/ EndsRight(toks, n.from, n.to)

AllEnded == \A n \in NodesOf(SimpleStatements) : EndsAsSaid(n)

(* The outermost block is open until its END; then nothing is called.       *)
BlockOpen ==
  acts # <<>> => \/ Unclosed(code[1])
                 \/ Len(acts) = 1 /\ Finishing(code[1])

(* The text has ended and the block has not.                               *)
Unfinished == tok = EOF /\ acts # <<>> /\ Unclosed(code[1])

Emptied == pc # "parseBlock" => acts = <<>>

Followed == BlockOpen /\ (Unfinished \/ (StackEnds /\ AllEnded))

EndsSeen == DepthInUse /\ Emptied /\ (first = 0 => Followed)

----------------------------------------------------------------------------
(* What is said stays said as the text goes on.                            *)

LEMMA SimpleNodeTypes ==
  ASSUME Inv
  PROVE  \A n \in NodesOf(SimpleStatements) : n.from \in Nat /\ n.to \in Nat
<1>1. nodes \in Seq(Nodes)
  BY DEF Inv, TypeOK, Nodes
<1>2. \A n \in NodesOf(SimpleStatements) : n \in Nodes
  BY <1>1 DEF NodesOf
<1>. QED  BY <1>2 DEF Nodes

LEMMA SaidEndStays ==
  ASSUME Inv, toks' \in Seq(Token), Extends(toks, toks'), NEW n,
         n.from \in Nat, n.to \in Nat, EndsAsSaid(n)
  PROVE  EndsAsSaid(n)'
<1>. DEFINE f == n.from
            m == n.to
            t2 == toks'
            k == n.kind
<1>1. toks \in Seq(Token) /\ cur = Len(toks) /\ cur' = Len(toks')
  BY HistoryTypes DEF cur
<1>2. Len(toks) \in Nat /\ Len(toks') \in Nat /\ Len(toks) <= Len(toks')
  BY <1>1 DEF Extends
<1>3. /\ f \in Nat /\ f > 0 /\ m \in Nat /\ m <= Len(toks) /\ m <= Len(toks) + 1
      /\ t2 \in Seq(Token) /\ Extends(toks, t2) /\ m <= m
      /\ k \in UnseenKinds(toks, f, m) \/ EndsRight(toks, f, m)
  BY <1>1, <1>2 DEF EndsAsSaid
<1>. HIDE DEF f, m, t2, k
<1>4. UnseenKinds(toks, f, m) \subseteq UnseenKinds(t2, f, m)
  BY <1>1, <1>3, UnseenStay
<1>5. EndsRight(toks, f, m) => EndsRight(t2, f, m)
  BY <1>1, <1>3, EndsStay
<1>6. k \in UnseenKinds(t2, f, m) \/ EndsRight(t2, f, m)
  BY <1>3, <1>4, <1>5
<1>7. n.kind \in UnseenKinds(toks', n.from, n.to) \/ EndsRight(toks', n.from, n.to)
  BY <1>6 DEF f, m, t2, k
<1>8. n.from \in 1 .. n.to /\ n.to <= cur'
  BY <1>1, <1>2 DEF EndsAsSaid
<1>. QED  BY <1>7, <1>8 DEF EndsAsSaid

LEMMA AllStayEnded ==
  ASSUME Inv, toks' \in Seq(Token), Extends(toks, toks'), nodes' = nodes, AllEnded
  PROVE  AllEnded'
<1>1. \A n \in NodesOf(SimpleStatements) : EndsAsSaid(n)'
  BY SimpleNodeTypes, SaidEndStays DEF AllEnded
<1>2. NodesOf(SimpleStatements)' = NodesOf(SimpleStatements)
  BY DEF NodesOf, SimpleStatements
<1>. QED  BY <1>1, <1>2 DEF AllEnded

(* A function nothing is said of, as the text goes on.                      *)
LEMMA LeftStays ==
  ASSUME Inv, toks' \in Seq(Token), Extends(toks, toks'), NEW f \in 1 .. cur
  PROVE  /\ f \in 1 .. cur'
         /\ Seq(Other(LeftKinds(toks, f, cur)))
              \subseteq Seq(Other(LeftKinds(toks', f, cur')))
<1>. DEFINE t2 == toks'
            m == cur
            m2 == cur'
<1>1. /\ toks \in Seq(Token) /\ m \in Nat /\ m = Len(toks) /\ m2 = Len(t2)
      /\ t2 \in Seq(Token) /\ Extends(toks, t2) /\ f \in Nat /\ f > 0
  BY HistoryTypes DEF cur
<1>2. m2 \in Nat /\ m <= m2 /\ m <= Len(toks)
  BY <1>1 DEF Extends
<1>3. f \in 1 .. m2
  BY <1>1, <1>2
<1>. HIDE DEF t2, m, m2
<1>4. LeftKinds(toks, f, m) \subseteq LeftKinds(t2, f, m2)
  BY <1>1, <1>2, UnseenStay
<1>5. Seq(Other(LeftKinds(toks, f, m))) \subseteq Seq(Other(LeftKinds(t2, f, m2)))
  BY <1>4, OtherMore
<1>. QED  BY <1>3, <1>5 DEF t2, m, m2

LEMMA LeftToStays ==
  ASSUME Inv, toks' \in Seq(Token), Extends(toks, toks'), NEW m,
         \A k \in 1 .. m : acts'[k].at = acts[k].at /\ code'[k] = code[k],
         LeftTo(m)
  PROVE  LeftTo(m)'
<1>1. ASSUME NEW k \in 1 .. m
      PROVE  /\ acts'[k].at \in 1 .. cur'
             /\ code'[k] \in Seq(Other(LeftKinds(toks', acts'[k].at, cur')))
  <2>. DEFINE f == acts[k].at
  <2>1. f \in 1 .. cur /\ code[k] \in Seq(Other(LeftKinds(toks, f, cur)))
    BY DEF LeftTo
  <2>2. acts'[k].at = f /\ code'[k] = code[k]
    OBVIOUS
  <2>. HIDE DEF f
  <2>3. /\ f \in 1 .. cur'
        /\ Seq(Other(LeftKinds(toks, f, cur)))
             \subseteq Seq(Other(LeftKinds(toks', f, cur')))
    BY <2>1, LeftStays
  <2>. QED  BY <2>1, <2>2, <2>3
<1>. QED  BY <1>1 DEF LeftTo

----------------------------------------------------------------------------
(* The steps, as long as the text has no error.                            *)

(* An activation stays where it started.                                   *)
LEMMA PlacesStay ==
  ASSUME Inv, StacksAgree,
         \/ Want \/ Got \/ TakeToken \/ AnyIdentifier \/ PutBack
         \/ Collect \/ Branch \/ SetFields
  PROVE  \A k \in 1 .. Len(acts) : acts'[k].at = acts[k].at
<1>. DEFINE n == Len(acts)
            r == [acts[n] EXCEPT !.fields = @ \cup Ins.fields]
<1>1. CASE SetFields
  <2>1. /\ Running /\ acts' = [acts EXCEPT ![n] = r]
    BY <1>1 DEF SetFields, At
  <2>2. n \in 1 .. n /\ acts \in Seq(Locals)
    BY <2>1, StackTypes, RunningCode
  <2>3. r.at = acts[n].at
    BY <2>2 DEF Locals
  <2>. HIDE DEF r
  <2>. QED  BY <2>1, <2>2, <2>3
<1>2. CASE ~SetFields
  <2>1. acts' = acts
    BY <1>2 DEF Want, Got, TakeToken, AnyIdentifier, PutBack, Collect, Branch,
       Done, GoOnWith
  <2>. QED  BY <2>1
<1>. QED  BY <1>1, <1>2

LEMMA TurnKeepsOpen ==
  ASSUME Inv, Inv', StacksAgree, BlockOpen, NEW b2, NEW fields, Turned(b2, fields)
  PROVE  BlockOpen' /\ (Unfinished => Unfinished')
<1>. DEFINE n == Len(acts)
            free == ~pushed
            free2 == ~pushed'
            t2 == toks'
<1>1. /\ Running /\ Body # <<>>
      /\ Turn(Body, toks, free, b2, t2, free2, fields)
      /\ Len(acts') = n /\ code'[n] = b2
      /\ \A k \in 1 .. n - 1 : code'[k] = code[k]
  BY DEF Turned
<1>2. n \in 1 .. n /\ n \in Nat /\ Body = code[n] /\ acts # <<>>
  BY <1>1, RunningCode DEF Running
<1>3. /\ tok = toks[Len(toks)] /\ cur' = Len(t2) /\ tok' = t2[Len(t2)]
  BY DEF tok, cur
<1>4. tok = EOF => tok' = EOF
  <2>1. tok = EOF => t2 = toks
    <3>1. Passes(toks, free, t2, free2) \/ Waits(toks, free, t2, free2) \/ t2 = toks
      BY <1>1 DEF Turn
    <3>2. tok = EOF /\ Passes(toks, free, t2, free2) => t2 = toks
      BY <1>3 DEF Passes
    <3>. QED  BY <3>1, <3>2 DEF Waits
  <2>. QED  BY <1>3, <2>1
<1>5. acts' # <<>>
  <2>1. Len(acts') # 0
    BY <1>1, <1>2
  <2>2. acts' = <<>> => Len(acts') = 0
    OBVIOUS
  <2>. QED  BY <2>1, <2>2
<1>. HIDE DEF free, free2, t2
<1>6. CASE n = 1
  <2>1. Body = code[1] /\ code'[1] = b2
    BY <1>1, <1>2, <1>6
  <2>2. CASE Unclosed(code[1])
    <3>1. Unclosed(b2) \/ (tok = "END" /\ Finishing(b2))
      BY <1>1, <1>3, <2>1, <2>2, UnclosedTurn
    <3>2. BlockOpen'
      BY <1>1, <1>6, <2>1, <3>1 DEF BlockOpen
    <3>3. Unfinished => Unfinished'
      BY <1>4, <1>5, <2>1, <3>1, EndParts DEF Unfinished
    <3>. QED  BY <3>2, <3>3
  <2>3. CASE ~Unclosed(code[1])
    <3>1. Finishing(b2)
      BY <1>1, <1>2, <2>1, <2>3, FinishingTurn DEF BlockOpen
    <3>2. BlockOpen'
      BY <1>1, <1>6, <2>1, <3>1 DEF BlockOpen
    <3>. QED  BY <2>3, <3>2 DEF Unfinished
  <2>. QED  BY <2>2, <2>3
<1>7. CASE n > 1
  <2>1. Unclosed(code[1]) /\ code'[1] = code[1]
    BY <1>1, <1>2, <1>7 DEF BlockOpen
  <2>. QED  BY <1>4, <1>5, <2>1 DEF BlockOpen, Unfinished
<1>. QED  BY <1>2, <1>6, <1>7

LEMMA TurnKeepsEnds ==
  ASSUME Inv, Inv', StacksAgree, DepthInUse, StackEnds, AllEnded, NEW b2,
         NEW fields, Turned(b2, fields), Counted(b2),
         \A k \in 1 .. Len(acts) : acts'[k].at = acts[k].at
  PROVE  AllEnded' /\ (StackEnds' \/ (tok' = EOF /\ Len(acts) > 1))
<1>. DEFINE n == Len(acts)
<1>1. /\ Running /\ Body # <<>>
      /\ Turn(Body, toks, ~pushed, b2, toks', ~pushed', fields)
      /\ nodes' = nodes /\ Len(acts') = n
      /\ code'[n] = b2 /\ \A k \in 1 .. n - 1 : code'[k] = code[k]
  BY DEF Turned
<1>2. /\ n \in 1 .. n /\ n \in Nat /\ Body = code[n]
      /\ (~pushed) \in BOOLEAN /\ (~pushed') \in BOOLEAN
  BY <1>1, RunningCode
<1>3. toks \in Seq(Token) /\ toks' \in Seq(Token) /\ Extends(toks, toks')
  BY HistoryTypes, TurnedExtends DEF Inv, TypeOK, StreamType
<1>4. AllEnded'
  BY <1>1, <1>3, AllStayEnded
<1>5. ASSUME LeftTo(n - 1)
      PROVE  LeftTo(n - 1)'
  <2>1. \A k \in 1 .. n - 1 : acts'[k].at = acts[k].at /\ code'[k] = code[k]
    BY <1>1, <1>2
  <2>. DEFINE m == n - 1
  <2>2. \A k \in 1 .. m : acts'[k].at = acts[k].at /\ code'[k] = code[k]
    BY <2>1
  <2>3. LeftTo(m)
    BY <1>5
  <2>. HIDE DEF m
  <2>4. \A k \in 1 .. m :
          /\ acts'[k].at \in 1 .. cur'
          /\ code'[k] \in Seq(Other(LeftKinds(toks', acts'[k].at, cur')))
    BY <1>3, <2>2, <2>3, LeftToStays DEF LeftTo
  <2>. QED  BY <1>1, <2>4 DEF LeftTo, m
<1>6. ASSUME LeftTo(n - 1), acts'[n].at \in 1 .. cur',
             b2 \in Seq(Other(LeftKinds(toks', acts'[n].at, cur')))
      PROVE  StackEnds'
  <2>1. LeftTo(n - 1)'
    BY <1>5, <1>6
  <2>2. \A k \in 1 .. n : k \in 1 .. n - 1 \/ k = n
    BY <1>2
  <2>3. \A k \in 1 .. n :
          /\ acts'[k].at \in 1 .. cur'
          /\ code'[k] \in Seq(Other(LeftKinds(toks', acts'[k].at, cur')))
    BY <1>1, <1>6, <2>1, <2>2 DEF LeftTo
  <2>. QED  BY <1>1, <2>3 DEF StackEnds, LeftTo
<1>7. CASE LeftTo(n)
  <2>. DEFINE f == acts[n].at
  <2>1. f \in 1 .. cur /\ Body \in Seq(Other(LeftKinds(toks, f, cur)))
    BY <1>2, <1>7 DEF LeftTo
  <2>2. LeftTo(n - 1)
    BY <1>2, <1>7 DEF LeftTo
  <2>3. acts'[n].at = f
    BY <1>2
  <2>. HIDE DEF f
  <2>4. b2 \in Seq(Other(LeftKinds(toks, f, cur)))
    BY <1>1, <2>1, OtherTurn
  <2>5. f \in 1 .. cur' /\ b2 \in Seq(Other(LeftKinds(toks', f, cur')))
    BY <1>3, <2>1, <2>4, LeftStays
  <2>. QED  BY <1>4, <1>6, <2>2, <2>3, <2>5
<1>8. CASE /\ n > 1 /\ LeftTo(n - 1)
           /\ StatementAt(toks, ~pushed, depth, code[n], acts[n].at)
  <2>. DEFINE free == ~pushed
              free2 == ~pushed'
              t2 == toks'
              d2 == depth'
              f == acts[n].at
  <2>1. /\ free \in BOOLEAN /\ t2 \in Seq(Token) /\ depth \in Nat
        /\ StatementAt(toks, free, depth, Body, f)
        /\ Turn(Body, toks, free, b2, t2, free2, fields)
        /\ Levelled(Body, toks, free, depth, b2, t2, free2, d2)
        /\ depth = 0 \/ Head(Body).op \in {"collect", "discard"}
    BY <1>1, <1>2, <1>3, <1>8 DEF Counted, DepthInUse, Ins, Inv, TypeOK
  <2>2. tok' = t2[Len(t2)] /\ cur' = Len(t2) /\ cur = Len(toks) /\ acts'[n].at = f
    BY <1>2 DEF tok, cur
  <2>. HIDE DEF free, free2, t2, d2, f
  <2>3. \/ t2[Len(t2)] = EOF
        \/ StatementAt(t2, free2, d2, b2, f)
        \/ b2 \in Seq(Other(LeftKinds(t2, f, Len(t2))))
    BY <1>3, <2>1, StatementTurn
  <2>4. f \in 1 .. Len(toks)
    BY <2>1, StatementHead
  <2>5. f \in 1 .. Len(t2)
    BY <1>3, <2>4 DEF Extends, t2
  <2>6. CASE t2[Len(t2)] = EOF
    BY <1>4, <1>8, <2>2, <2>6
  <2>7. CASE StatementAt(t2, free2, d2, b2, f)
    <3>1. StatementAt(toks', ~pushed', depth', code'[n], acts'[n].at)
      BY <1>1, <2>2, <2>7 DEF free2, t2, d2
    <3>2. StackEnds'
      BY <1>1, <1>5, <1>8, <3>1 DEF StackEnds
    <3>. QED  BY <1>4, <3>2
  <2>8. CASE b2 \in Seq(Other(LeftKinds(t2, f, Len(t2))))
    <3>1. /\ acts'[n].at \in 1 .. cur'
          /\ b2 \in Seq(Other(LeftKinds(toks', acts'[n].at, cur')))
      BY <2>2, <2>5, <2>8 DEF t2
    <3>. QED  BY <1>4, <1>6, <1>8, <3>1
  <2>. QED  BY <2>3, <2>6, <2>7, <2>8
<1>. QED  BY <1>7, <1>8 DEF StackEnds

LEMMA TurnKeepsFollowed ==
  ASSUME Inv, Inv', StacksAgree, DepthInUse, Followed, NEW b2, NEW fields,
         Turned(b2, fields), Counted(b2),
         \A k \in 1 .. Len(acts) : acts'[k].at = acts[k].at
  PROVE  Followed'
<1>1. BlockOpen' /\ (Unfinished => Unfinished')
  BY TurnKeepsOpen DEF Followed
<1>2. CASE Unfinished
  BY <1>1, <1>2 DEF Followed
<1>3. CASE StackEnds /\ AllEnded
  <2>1. AllEnded' /\ (StackEnds' \/ (tok' = EOF /\ Len(acts) > 1))
    BY <1>3, TurnKeepsEnds
  <2>2. ASSUME tok' = EOF, Len(acts) > 1
        PROVE  Unfinished'
    <3>1. Len(acts') = Len(acts)
      BY DEF Turned
    <3>2. acts' # <<>> /\ ~(Len(acts') = 1)
      <4>1. Len(acts') \in Nat /\ Len(acts') > 1
        BY <2>2, <3>1, StackTypes
      <4>2. acts' = <<>> => Len(acts') = 0
        OBVIOUS
      <4>. QED  BY <4>1, <4>2
    <3>3. Unclosed(code'[1])
      BY <1>1, <3>2 DEF BlockOpen
    <3>. QED  BY <2>2, <3>2, <3>3 DEF Unfinished
  <2>. QED  BY <1>1, <2>1, <2>2 DEF Followed
<1>. QED  BY <1>2, <1>3 DEF Followed

----------------------------------------------------------------------------
(* Calls and returns.                                                      *)

LEMMA CallKeepsOpen ==
  ASSUME Inv, StacksAgree, BlockOpen, CallFunction \/ ParseProcStmt
  PROVE  BlockOpen' /\ (Unfinished => Unfinished')
<1>. DEFINE n == Len(acts)
            c == IF Ins.op = "call" THEN Ins.body ELSE Statement(tok)
<1>1. /\ Running /\ Body # <<>> /\ Ins.op \in {"call", "parseProcStmt"}
      /\ Call(c)
  BY DEF CallFunction, ParseProcStmt, At
<1>2. n \in 1 .. n /\ n \in Nat /\ Body = code[n] /\ acts # <<>>
  BY <1>1, RunningCode DEF Running
<1>3. /\ Len(acts') = n + 1 /\ code'[n] = Tail(Body)
      /\ \A k \in 1 .. n - 1 : code'[k] = code[k]
  BY <1>1, CallStacks
<1>4. tok' = tok
  BY <1>1 DEF Call, Stay, tok, cur
<1>. HIDE DEF c
<1>5. Unclosed(code[1]) /\ Unclosed(code'[1])
  <2>1. CASE n = 1
    <3>1. Body = code[1] /\ code'[1] = Tail(Body)
      BY <1>2, <1>3, <2>1
    <3>2. ~Finishing(code[1])
      BY <1>1, <3>1, FinishingHead DEF Ins
    <3>3. Unclosed(code[1])
      BY <1>2, <3>2 DEF BlockOpen
    <3>4. Unclosed(Tail(Body))
      BY <1>1, <3>1, <3>3, UnclosedHead DEF Ins
    <3>. QED  BY <3>1, <3>3, <3>4
  <2>2. CASE n > 1
    <3>1. 1 \in 1 .. n - 1 /\ Len(acts) # 1
      BY <1>2, <2>2
    <3>2. Unclosed(code[1])
      BY <1>2, <3>1 DEF BlockOpen
    <3>3. code'[1] = code[1]
      BY <1>3, <3>1
    <3>. QED  BY <3>2, <3>3
  <2>. QED  BY <1>2, <2>1, <2>2
<1>6. acts' # <<>>
  <2>1. Len(acts') # 0
    BY <1>2, <1>3
  <2>2. acts' = <<>> => Len(acts') = 0
    OBVIOUS
  <2>. QED  BY <2>1, <2>2
<1>. QED  BY <1>4, <1>5, <1>6 DEF BlockOpen, Unfinished

LEMMA CallKeepsEnds ==
  ASSUME Inv, StacksAgree, DepthInUse, StackEnds, AllEnded,
         CallFunction \/ ParseProcStmt
  PROVE  StackEnds' /\ AllEnded'
<1>. DEFINE n == Len(acts)
            c == IF Ins.op = "call" THEN Ins.body ELSE Statement(tok)
<1>1. /\ Running /\ Body # <<>> /\ Ins.op \in {"call", "parseProcStmt"}
      /\ Call(c)
  BY DEF CallFunction, ParseProcStmt, At
<1>2. /\ n \in 1 .. n /\ n \in Nat /\ Body = code[n] /\ tok = toks[Len(toks)]
      /\ toks \in Seq(Token) /\ toks # <<>> /\ cur = Len(toks) /\ cur \in 1 .. cur
  BY <1>1, RunningCode, HistoryTypes DEF tok, cur
<1>3. /\ Len(acts') = n + 1 /\ acts'[n + 1].at = cur
      /\ \A k \in 1 .. n : acts'[k] = acts[k]
      /\ code'[n + 1] = c /\ code'[n] = Tail(Body)
      /\ \A k \in 1 .. n - 1 : code'[k] = code[k]
  BY <1>1, CallStacks, CallLocals
<1>4. /\ toks' = toks /\ pushed' = pushed /\ nodes' = nodes
      /\ depth' = depth /\ depth = 0 /\ cur' = cur
  BY <1>1 DEF Call, Stay, DepthInUse, cur
<1>5. AllEnded'
  BY <1>4 DEF AllEnded, EndsAsSaid, NodesOf
<1>6. CASE LeftTo(n)
  <2>. DEFINE f == acts[n].at
              L == LeftKinds(toks, f, cur)
              L2 == LeftKinds(toks, cur, cur)
  <2>1. f \in 1 .. cur /\ Body \in Seq(Other(L))
    BY <1>2, <1>6 DEF LeftTo
  <2>2. ComplexKinds \subseteq L2
    BY DEF LeftKinds
  <2>. HIDE DEF L, L2
  <2>3. Ins \in Other(L) /\ Tail(Body) \in Seq(Other(L))
    BY <1>1, <2>1, HeadTailProperties DEF Ins
  <2>4. \A k \in 1 .. n :
          /\ acts'[k].at \in 1 .. cur'
          /\ code'[k] \in Seq(Other(LeftKinds(toks', acts'[k].at, cur')))
    <3>1. SUFFICES ASSUME NEW k \in 1 .. n
                   PROVE  /\ acts'[k].at \in 1 .. cur'
                          /\ code'[k] \in Seq(Other(LeftKinds(toks', acts'[k].at, cur')))
      OBVIOUS
    <3>2. acts'[k] = acts[k] /\ cur' = cur /\ toks' = toks
      BY <1>3, <1>4
    <3>3. /\ acts[k].at \in 1 .. cur
          /\ code[k] \in Seq(Other(LeftKinds(toks, acts[k].at, cur)))
      BY <1>6 DEF LeftTo
    <3>4. CASE k = n
      BY <1>3, <2>3, <3>2, <3>3, <3>4 DEF L
    <3>5. CASE k \in 1 .. n - 1
      BY <1>3, <3>2, <3>3, <3>5
    <3>. QED  BY <1>2, <3>4, <3>5
  <2>5. CASE c \in Seq(Other(L2))
    <3>1. \A k \in 1 .. n + 1 : k \in 1 .. n \/ k = n + 1
      BY <1>2
    <3>2. /\ acts'[n + 1].at \in 1 .. cur'
          /\ code'[n + 1] \in Seq(Other(LeftKinds(toks', acts'[n + 1].at, cur')))
      BY <1>2, <1>3, <1>4, <2>5 DEF L2
    <3>3. \A k \in 1 .. n + 1 :
            /\ acts'[k].at \in 1 .. cur'
            /\ code'[k] \in Seq(Other(LeftKinds(toks', acts'[k].at, cur')))
      BY <2>4, <3>1, <3>2
    <3>. QED  BY <1>3, <1>5, <3>3 DEF StackEnds, LeftTo
  <2>6. CASE StatementAt(toks, ~pushed, 0, c, Len(toks))
    <3>1. StatementAt(toks', ~pushed', depth', code'[n + 1], acts'[n + 1].at)
      BY <1>2, <1>3, <1>4, <2>6
    <3>2. n + 1 > 1 /\ (n + 1) - 1 = n
      BY <1>2
    <3>. QED  BY <1>3, <1>5, <2>4, <3>1, <3>2 DEF StackEnds, LeftTo
  <2>7. CASE Ins.op = "call"
    <3>1. c = Ins.body
      BY <2>7
    <3>. HIDE DEF c
    <3>2. c \in Seq(Other(L2))
      BY <2>2, <2>3, <2>7, <3>1, OtherHead
    <3>. QED  BY <2>5, <3>2
  <2>8. CASE Ins.op = "parseProcStmt"
    <3>. DEFINE free == ~pushed
    <3>1. c = Statement(toks[Len(toks)])
      BY <1>2, <2>8
    <3>. HIDE DEF free, c
    <3>2. \/ StatementAt(toks, free, 0, c, Len(toks))
          \/ \A M : ComplexKinds \subseteq M => c \in Seq(Other(M))
      BY <1>2, <3>1, StatementStarts
    <3>. USE DEF free
    <3>. QED  BY <2>2, <2>5, <2>6, <3>2
  <2>. QED  BY <1>1, <2>7, <2>8
<1>7. CASE StatementAt(toks, ~pushed, depth, code[n], acts[n].at)
  <2>. DEFINE free == ~pushed
              f == acts[n].at
  <2>1. StatementAt(toks, free, depth, Body, f)
    BY <1>2, <1>7
  <2>. HIDE DEF free, f
  <2>2. Head(Body).op \notin {"call", "parseProcStmt"}
    BY <2>1, StatementHead
  <2>. QED  BY <1>1, <2>2 DEF Ins
<1>. QED  BY <1>6, <1>7 DEF StackEnds

LEMMA CallKeepsFollowed ==
  ASSUME Inv, StacksAgree, DepthInUse, Followed, CallFunction \/ ParseProcStmt
  PROVE  Followed'
  BY CallKeepsOpen, CallKeepsEnds DEF Followed

(* A function ends; the outermost one does so after its END.               *)
LEMMA LeaveKeepsOpen ==
  ASSUME Inv, StacksAgree, Running, Leave, BlockOpen,
         Body = <<>> \/ Head(Body).op = "node"
  PROVE  BlockOpen' /\ (Unfinished => Unfinished')
<1>. DEFINE n == Len(acts)
<1>1. /\ n \in 1 .. n /\ n \in Nat /\ Body = code[n] /\ acts # <<>>
      /\ Len(acts') = n - 1 /\ \A k \in 1 .. n - 1 : code'[k] = code[k]
  BY RunningCode, LeaveStacks DEF Running
<1>2. tok' = tok
  BY DEF Leave, Stay, tok, cur
<1>3. acts' = <<>> => Len(acts') = 0
  OBVIOUS
<1>4. CASE n = 1
  <2>1. acts' = <<>>
    <3>1. Len(acts) = 1 /\ acts \in Seq(Locals)
      BY <1>4, StackTypes
    <3>2. acts' = SubSeq(acts, 1, 0)
      BY <3>1 DEF Leave
    <3>. QED  BY <3>1, <3>2
  <2>2. ~Unclosed(code[1])
    BY <1>1, <1>4, UnclosedHead
  <2>. QED  BY <2>1, <2>2 DEF BlockOpen, Unfinished
<1>5. CASE n > 1
  <2>1. 1 \in 1 .. n - 1 /\ Len(acts) # 1 /\ Len(acts') # 0
    BY <1>1, <1>5
  <2>2. Unclosed(code[1])
    BY <1>1, <2>1 DEF BlockOpen
  <2>3. code'[1] = code[1] /\ acts' # <<>>
    BY <1>1, <1>3, <2>1
  <2>. QED  BY <1>2, <2>2, <2>3 DEF BlockOpen, Unfinished
<1>. QED  BY <1>1, <1>4, <1>5

LEMMA LeaveKeepsStack ==
  ASSUME Inv, StacksAgree, Running, Leave, StackEnds
  PROVE  StackEnds'
<1>. DEFINE n == Len(acts)
<1>1. /\ n \in 1 .. n /\ n \in Nat /\ Len(acts') = n - 1
      /\ \A k \in 1 .. n - 1 : acts'[k] = acts[k] /\ code'[k] = code[k]
  BY RunningCode, LeaveStacks
<1>2. LeftTo(n - 1)
  BY <1>1 DEF StackEnds, LeftTo
<1>3. toks' = toks /\ cur' = cur
  BY DEF Leave, Stay, cur
<1>4. \A k \in 1 .. n - 1 :
        /\ acts'[k].at \in 1 .. cur'
        /\ code'[k] \in Seq(Other(LeftKinds(toks', acts'[k].at, cur')))
  BY <1>1, <1>2, <1>3 DEF LeftTo
<1>. QED  BY <1>1, <1>4 DEF StackEnds, LeftTo

LEMMA ReturnKeepsFollowed ==
  ASSUME Inv, StacksAgree, Followed, Return
  PROVE  Followed'
<1>1. /\ Running /\ Leave /\ nodes' = nodes /\ toks' = toks /\ cur' = cur
      /\ Body = <<>>
  BY DEF Return, Leave, Stay, cur
<1>2. AllEnded => AllEnded'
  BY <1>1 DEF AllEnded, EndsAsSaid, NodesOf
<1>3. BlockOpen' /\ (Unfinished => Unfinished')
  BY <1>1, LeaveKeepsOpen DEF Followed
<1>4. StackEnds => StackEnds'
  BY <1>1, LeaveKeepsStack
<1>. QED  BY <1>2, <1>3, <1>4 DEF Followed

(* No simple statement is one of those nothing is said of.                  *)
LEMMA SimpleKinds == SimpleStatements \cap ComplexKinds = {}
  BY DEF SimpleStatements, Statements, ComplexKinds, CompositeKinds

LEMMA ReturnNodeKeepsEnds ==
  ASSUME Inv, StacksAgree, StackEnds, AllEnded, ReturnNode
  PROVE  StackEnds' /\ AllEnded'
<1>. DEFINE n == Len(acts)
            d == [kind |-> Ins.kind, from |-> acts[n].at, to |-> cur,
                  begun |-> acts[n].begun, ended |-> Len(moved),
                  fields |-> acts[n].fields \cup Ins.fields]
<1>1. /\ Running /\ Leave /\ Body # <<>> /\ Ins.op = "node"
      /\ nodes' = Append(nodes, d)
      /\ toks' = toks /\ pushed' = pushed
  BY DEF ReturnNode, Leave, Stay, At
<1>2. /\ n \in 1 .. n /\ n \in Nat /\ Body = code[n] /\ cur' = cur /\ cur \in Nat
      /\ cur = Len(toks)
  BY <1>1, RunningCode, HistoryTypes DEF cur
<1>3. d.kind = Ins.kind /\ d.from = acts[n].at /\ d.to = cur
  OBVIOUS
<1>. HIDE DEF d
<1>4. d.kind \in SimpleStatements => EndsAsSaid(d)
  <2>. DEFINE f == acts[n].at
  <2>1. CASE LeftTo(n)
    <3>1. f \in 1 .. cur /\ Body \in Seq(Other(LeftKinds(toks, f, cur)))
      BY <1>2, <2>1 DEF LeftTo
    <3>2. d.from = f
      BY <1>3
    <3>. HIDE DEF f
    <3>3. Ins \in Other(LeftKinds(toks, f, cur))
      BY <1>1, <3>1, HeadTailProperties DEF Ins
    <3>4. Ins.kind \in LeftKinds(toks, f, cur)
      BY <1>1, <3>3, OtherHead
    <3>5. d.kind \in SimpleStatements => d.kind \in UnseenKinds(toks, d.from, d.to)
      BY <1>3, <3>2, <3>4, SimpleKinds DEF LeftKinds
    <3>. QED  BY <1>2, <1>3, <3>1, <3>2, <3>5 DEF EndsAsSaid
  <2>2. CASE StatementAt(toks, ~pushed, depth, code[n], acts[n].at)
    <3>. DEFINE free == ~pushed
    <3>1. StatementAt(toks, free, depth, Body, f) /\ Head(Body).op = "node"
      BY <1>1, <1>2, <2>2 DEF Ins
    <3>2. d.from = f
      BY <1>3
    <3>. HIDE DEF free, f
    <3>3. f \in 1 .. Len(toks) /\ EndsRight(toks, f, Len(toks))
      BY <3>1, StatementHead
    <3>. QED  BY <1>2, <1>3, <3>2, <3>3 DEF EndsAsSaid
  <2>. QED  BY <2>1, <2>2 DEF StackEnds
<1>5. AllEnded'
  <2>1. nodes \in Seq(Nodes)
    BY DEF Inv, TypeOK, Nodes
  <2>2. \A i \in DOMAIN nodes' :
          nodes'[i] = d \/ \E j \in DOMAIN nodes : nodes'[i] = nodes[j]
    <3>1. nodes \in Seq(Nodes \cup {d}) /\ d \in Nodes \cup {d}
      BY <2>1
    <3>. QED  BY <1>1, <3>1, AppendProperties
  <2>3. \A m : EndsAsSaid(m) => EndsAsSaid(m)'
    BY <1>1, <1>2 DEF EndsAsSaid
  <2>. QED  BY <1>4, <2>2, <2>3 DEF AllEnded, NodesOf, SimpleStatements
<1>. QED  BY <1>1, <1>5, LeaveKeepsStack

LEMMA ReturnNodeKeepsFollowed ==
  ASSUME Inv, StacksAgree, Followed, ReturnNode
  PROVE  Followed'
<1>1. Running /\ Leave /\ Head(Body).op = "node"
  BY DEF ReturnNode, At, Ins
<1>2. BlockOpen' /\ (Unfinished => Unfinished')
  BY <1>1, LeaveKeepsOpen DEF Followed
<1>. QED  BY <1>2, ReturnNodeKeepsEnds DEF Followed

(* Past the outermost block, and when nothing happens.                     *)
LEMMA EmptiedStays ==
  ASSUME Emptied, [Next]_vars
  PROVE  Emptied'
<1>1. ASSUME pc' = pc, Running
      PROVE  Emptied'
  BY <1>1 DEF Emptied, Running
<1>2. CASE Want \/ Got \/ TakeToken \/ AnyIdentifier \/ PutBack \/ Complain
           \/ Collect \/ Branch
  BY <1>1, <1>2 DEF Want, Got, TakeToken, AnyIdentifier, PutBack, Complain,
     Collect, Branch, At, Done, GoOnWith
<1>3. CASE CallFunction \/ ParseProcStmt \/ SetFields \/ ReturnNode \/ Return
  BY <1>1, <1>3 DEF CallFunction, ParseProcStmt, SetFields, ReturnNode, Return,
     At, Call, Leave
<1>4. CASE OptionalSemicolon \/ ExpectEndOfInput
  <2>1. acts = <<>> /\ acts' = acts
    BY <1>4 DEF OptionalSemicolon, ExpectEndOfInput, Emptied
  <2>. QED  BY <2>1 DEF Emptied
<1>5. CASE UNCHANGED vars
  BY <1>5 DEF vars, Emptied
<1>. QED  BY <1>2, <1>3, <1>4, <1>5 DEF Next, Parse, Returned

LEMMA SemicolonKeepsFollowed ==
  ASSUME Inv, Inv', Followed, OptionalSemicolon
  PROVE  Followed'
<1>1. /\ acts = <<>> /\ acts' = <<>> /\ nodes' = nodes
      /\ MoveOn("syntax") \/ Stay
  BY DEF OptionalSemicolon
<1>2. toks \in Seq(Token) /\ toks' \in Seq(Token)
  BY HistoryTypes DEF Inv, TypeOK, StreamType
<1>3. Extends(toks, toks')
  <2>1. "syntax" \in Uses
    BY DEF Uses
  <2>2. \/ Passes(toks, ~pushed, toks', ~pushed')
        \/ Waits(toks, ~pushed, toks', ~pushed')
    BY <1>1, <2>1, MovePasses, StayWaits
  <2>. QED  BY <1>2, <2>2, TurnExtends
<1>4. AllEnded
  BY <1>1 DEF Followed, Unfinished
<1>5. AllEnded'
  BY <1>1, <1>2, <1>3, <1>4, AllStayEnded
<1>6. StackEnds' /\ BlockOpen'
  BY <1>1 DEF StackEnds, LeftTo, BlockOpen
<1>. QED  BY <1>5, <1>6 DEF Followed

LEMMA IdleKeepsFollowed ==
  ASSUME Followed, Stay, UNCHANGED <<code, acts, nodes, depth>>
  PROVE  Followed'
<1>1. /\ toks' = toks /\ pushed' = pushed /\ depth' = depth
      /\ code' = code /\ acts' = acts /\ nodes' = nodes /\ cur' = cur
      /\ tok' = tok
  BY DEF Stay, tok, cur
<1>2. StackEnds => StackEnds'
  BY <1>1 DEF StackEnds, LeftTo
<1>3. AllEnded => AllEnded'
  BY <1>1 DEF AllEnded, EndsAsSaid, NodesOf
<1>4. BlockOpen' /\ (Unfinished => Unfinished')
  BY <1>1 DEF BlockOpen, Unfinished, Followed
<1>. QED  BY <1>2, <1>3, <1>4 DEF Followed

(* Parse starts in parseBlock, and no node has been returned.              *)
LEMMA StartsFollowed ==
  ASSUME Init
  PROVE  EndsSeen
<1>1. /\ code = <<parseBlock>> /\ nodes = <<>> /\ depth = 0 /\ pc = "parseBlock"
      /\ acts = <<[at |-> 1, begun |-> 0, fields |-> {}]>>
      /\ \E t : toks = <<t>>
  BY DEF Init, StreamInit
<1>2. Len(acts) = 1 /\ code[1] = parseBlock /\ acts[1].at = 1 /\ cur = 1
  BY <1>1 DEF cur
<1>3. parseBlock \in Seq(Other(LeftKinds(toks, 1, 1)))
  BY BlocksAreOther DEF BlockBodies, LeftKinds
<1>4. StackEnds
  BY <1>2, <1>3 DEF StackEnds, LeftTo
<1>5. AllEnded
  BY <1>1 DEF AllEnded, NodesOf
<1>6. BlockOpen
  BY <1>2, BlockStarts DEF BlockOpen
<1>. QED  BY <1>1, <1>4, <1>5, <1>6 DEF EndsSeen, DepthInUse, Emptied, Followed

LEMMA NextKeepsFollowed ==
  ASSUME Inv, Inv', IInv, EndsSeen, [Next]_vars
  PROVE  EndsSeen'
<1>0. DepthInUse /\ DepthInUse' /\ Emptied'
  BY DepthStaysInUse, EmptiedStays DEF EndsSeen
<1>1. SUFFICES ASSUME first' = 0
               PROVE  Followed'
  BY <1>0 DEF EndsSeen
<1>2. StacksAgree /\ Followed /\ ~SyntaxError
  BY <1>1, NoErrorYet DEF IInv, EndsSeen
<1>. DEFINE Kept == \A k \in 1 .. Len(acts) : acts'[k].at = acts[k].at
<1>3. \A b2, fields : Turned(b2, fields) /\ Counted(b2) /\ Kept => Followed'
  BY <1>0, <1>2, TurnKeepsFollowed
<1>4. \/ Want \/ Got \/ TakeToken \/ AnyIdentifier \/ PutBack
      \/ Collect \/ Branch \/ SetFields
      => Kept
  BY <1>2, PlacesStay
<1>. HIDE DEF Kept
<1>5. ~Complain
  BY <1>2 DEF Complain
<1>6. Want \/ Got \/ TakeToken \/ AnyIdentifier \/ PutBack => Followed'
  <2>1. SUFFICES ASSUME Want \/ Got \/ TakeToken \/ AnyIdentifier \/ PutBack
                 PROVE  Followed'
    OBVIOUS
  <2>2. Got \/ (depth' = depth /\ Ins.op \notin {"got", "collect", "discard"})
    BY <2>1 DEF Want, TakeToken, AnyIdentifier, PutBack, At
  <2>3. Counted(Tail(Body))
    BY <2>2, SteadyCounts, GotCounts
  <2>. QED  BY <1>1, <1>2, <1>3, <1>4, <2>1, <2>3, TokenTurns
<1>7. Branch \/ SetFields => Followed'
  <2>1. SUFFICES ASSUME Branch \/ SetFields
                 PROVE  Followed'
    OBVIOUS
  <2>2. depth' = depth /\ Ins.op \notin {"got", "collect", "discard"}
    BY <2>1 DEF Branch, SetFields, At
  <2>3. \A b2 : Counted(b2)
    BY <2>2, SteadyCounts
  <2>. QED  BY <1>2, <1>3, <1>4, <2>1, <2>3, BranchTurns, SetFieldsTurns
<1>8. Collect => Followed'
  BY <1>2, <1>3, <1>4, CollectCounts
<1>9. CallFunction \/ ParseProcStmt \/ ReturnNode \/ Return => Followed'
  BY <1>0, <1>2, CallKeepsFollowed, ReturnNodeKeepsFollowed, ReturnKeepsFollowed
<1>10. OptionalSemicolon => Followed'
  BY <1>2, SemicolonKeepsFollowed
<1>11. ExpectEndOfInput \/ UNCHANGED vars => Followed'
  BY <1>2, IdleKeepsFollowed DEF ExpectEndOfInput, vars, Stay
<1>. QED  BY <1>5, <1>6, <1>7, <1>8, <1>9, <1>10, <1>11 DEF Next, Parse, Returned

LEMMA EndsInvariance == Spec => []EndsSeen
<1>1. Init => EndsSeen
  BY StartsFollowed
<1>2. Inv /\ Inv' /\ IInv /\ EndsSeen /\ [Next]_vars => EndsSeen'
  BY NextKeepsFollowed
<1>. QED  BY <1>1, <1>2, Invariance, ProgressInvariance, PTL DEF Spec

(* In every text that Parse accepts, a simple statement ends with a         *)
(* semicolon, and no semicolon before it stands outside the parentheses of   *)
(* the statement: whatever its function collects or skips, it reads neither   *)
(* into the next statement nor less than its own.  The two forms that take a *)
(* token unseen are left out, as in the property.                          *)
THEOREM SemicolonsAreEnds == Spec => []SemicolonEnds
<1>1. Inv /\ EndsSeen => SemicolonEnds
  <2>1. SUFFICES ASSUME Inv, EndsSeen, Accepted, NEW n \in NodesOf(SimpleStatements)
                 PROVE  \/ TakesUnseen(n)
                        \/ /\ toks[n.to - 1] = ";"
                           /\ \A k \in n.from .. n.to - 2 :
                                toks[k] = ";" => OpenBefore(n.from, k) > 0
    BY DEF SemicolonEnds
  <2>2. EndsAsSaid(n)
    <3>1. acts = <<>> /\ first = 0
      BY <2>1 DEF EndsSeen, Emptied, Accepted
    <3>. QED  BY <2>1, <3>1 DEF EndsSeen, Followed, Unfinished, AllEnded
  <2>3. CASE n.kind \in UnseenKinds(toks, n.from, n.to)
    BY <2>3 DEF UnseenKinds, TakesUnseen
  <2>4. CASE EndsRight(toks, n.from, n.to)
    <3>1. n.to \in Nat /\ (n.to - 1) - 1 = n.to - 2
      BY <2>1, SimpleNodeTypes
    <3>2. semi = ";"
      BY DEF semi
    <3>. QED  BY <2>4, <3>1, <3>2 DEF EndsRight, NoneBefore, OpenBefore
  <2>. QED  BY <2>2, <2>3, <2>4 DEF EndsAsSaid
<1>. QED  BY <1>1, Invariance, EndsInvariance, PTL

=============================================================================
