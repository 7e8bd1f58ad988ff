--------------------------- MODULE StatementProofs ---------------------------
(***************************************************************************)
(* Proof that the fields of every EXECUTE statement say what its text says, *)
(* for every family of texts and bound.  parseStmtDynExecute calls no       *)
(* function, so it is followed instruction by instruction, as              *)
(* parseDeclStatement is in module DeclarationProofs.  What it collects     *)
(* ends at a word outside parentheses: collectTokens counts from where it   *)
(* starts, the property from the start of the statement, and the two counts *)
(* agree at every token but EOF.  The second is defined by recursion on the *)
(* tokens, so its laws are proved by induction.                            *)
(***************************************************************************)
EXTENDS DeclarationProofs, WellFoundedInduction

----------------------------------------------------------------------------
(* The code of the functions that return only the nodes of the given kinds. *)
(* Whichever functions are to be followed, these kinds are left to others:  *)

ComplexKinds == CompositeKinds \cup {"DeclVar"}

Steps(kinds) == Plain(kinds) \cup {pushBack} \cup NodeCalls \cup BlockCalls
Other(kinds) == Nested(Nested(Steps(kinds)))

(* All functions but parseStmtDynExecute.                                  *)
NotExecute == FixedKinds \cup {"DeclVar"}

----------------------------------------------------------------------------
(* The code of parseStmtDynExecute, from the outside in.                   *)

queryText == collect({"INTO", "USING", semi})
strictRest == <<set({"strict"}), next>>
strictTest == When({"STRICT"}, strictRest)
targetText == collect({"USING", semi})
valueText == collect({comma} \cup {semi, "INTO"})
valueLoop == While({comma}, <<next, valueText>>)
clauseTest ==
  If({"INTO"}, <<next, set({"into"}), strictTest, targetText>>,
     <<next, valueText, valueLoop>>)
clauseLoop == While({"INTO", "USING"}, <<clauseTest>>)
executed == node("DynExecute")

(* The places of INTO in the statement that starts at f, before place m.    *)
Intos(ts, f, m) ==
  {k \in f .. m - 1 : ts[k] = "INTO" /\ DepthIn(ts, f, k) = 0}

(* The fields say whether the statement has a target before place m, and    *)
(* whether its first one is STRICT.                                        *)
TargetSaid(ts, f, m, fields) ==
  LET intos == Intos(ts, f, m)
  IN  /\ "into" \in fields <=> intos # {}
      /\ "strict" \in fields => \E k \in intos : ts[k + 1] = "STRICT"
      /\ \A k \in intos :
           ts[k + 1] = "STRICT" /\ (\A j \in intos : k <= j)
           => "strict" \in fields

(* An INTO has just been moved past: the fields do not say so yet, or do     *)
(* not say yet that STRICT follows it.                                     *)
TargetSeen(ts, f, fields) ==
  LET n == Len(ts)
      intos == Intos(ts, f, n - 1)
  IN  /\ n > f /\ ts[n - 1] = "INTO" /\ DepthIn(ts, f, n - 1) = 0
      /\ "strict" \in fields => \E k \in intos : ts[k + 1] = "STRICT"
      /\ \A k \in intos :
           ts[k + 1] = "STRICT" /\ (\A j \in intos : k <= j)
           => "strict" \in fields

(* The code b after which the target read so far is said, at the token t.    *)
SaidForm(t, free, b, fields) ==
  \/ b = <<want("EXECUTE"), queryText, clauseLoop, got({semi}), executed>>
  \/ free /\ \/ b = <<queryText, clauseLoop, got({semi}), executed>>
             \/ b = <<clauseLoop, got({semi}), executed>>
             \/ /\ t \in {"INTO", "USING"}
                /\ b = <<clauseTest, clauseLoop, got({semi}), executed>>
             \/ /\ t = "INTO"
                /\ b = <<next, set({"into"}), strictTest, targetText, clauseLoop,
                         got({semi}), executed>>
             \/ /\ t = "STRICT" /\ "into" \in fields
                /\ b = <<next, targetText, clauseLoop, got({semi}), executed>>
             \/ /\ "into" \in fields
                /\ b = <<targetText, clauseLoop, got({semi}), executed>>
             \/ /\ t \in {"USING", comma}
                /\ b = <<next, valueText, valueLoop, clauseLoop, got({semi}),
                         executed>>
             \/ b = <<valueText, valueLoop, clauseLoop, got({semi}), executed>>
             \/ b = <<valueLoop, clauseLoop, got({semi}), executed>>
             \/ b = <<got({semi}), executed>>
             \/ b = <<executed>>

(* The code b right after an INTO.                                         *)
SeenForm(t, b, fields) ==
  \/ b = <<set({"into"}), strictTest, targetText, clauseLoop, got({semi}),
           executed>>
  \/ /\ "into" \in fields
     /\ b = <<strictTest, targetText, clauseLoop, got({semi}), executed>>
  \/ /\ "into" \in fields /\ t = "STRICT"
     /\ b = <<set({"strict"}), next, targetText, clauseLoop, got({semi}),
              executed>>

(* A statement started at f, and d parentheses are open in collectTokens at  *)
(* the last of the tokens ts.                                              *)
Placed(ts, d, f) ==
  /\ f \in 1 .. Len(ts)
  /\ ts[Len(ts)] = EOF \/ d = DepthIn(ts, f, Len(ts))

(* The code b of an activation of parseStmtDynExecute that started at f and *)
(* has set the given fields.                                               *)
ExecuteAt(ts, free, d, b, f, fields) ==
  LET t == ts[Len(ts)]
  IN  /\ Placed(ts, d, f)
      /\ \/ TargetSaid(ts, f, Len(ts), fields) /\ SaidForm(t, free, b, fields)
         \/ TargetSeen(ts, f, fields) /\ free /\ SeenForm(t, b, fields)

----------------------------------------------------------------------------

Elsewhere(m) == \A k \in 1 .. m : code[k] \in Seq(Other(NotExecute))

(* The last activation may be one of parseStmtDynExecute, no other is.      *)
StackFollowed ==
  LET n == Len(acts)
  IN  \/ Elsewhere(n)
      \/ /\ n > 0 /\ Elsewhere(n - 1)
         /\ ExecuteAt(toks, ~pushed, depth, code[n], acts[n].at, acts[n].fields)

(* Parentheses are counted only while tokens are collected.                *)
DepthInUse ==
  depth # 0 => Running /\ Body # <<>> /\ Ins.op \in {"collect", "discard"}

TargetRight(n) ==
  n.from \in 1 .. n.to /\ n.to <= cur
  /\ TargetSaid(toks, n.from, n.to, n.fields)

AllSaid == \A n \in NodesOf({"DynExecute"}) : TargetRight(n)

TargetsRead == DepthInUse /\ (first = 0 => StackFollowed /\ AllSaid)

----------------------------------------------------------------------------
(* Induction on the numbers, of sets: the numbers' order is well-founded.    *)

LEMMA LeastNumber ==
  ASSUME NEW T, T \subseteq Nat, T # {}
  PROVE  \E n \in T : \A m \in T : n <= m
<1>1. ASSUME NEW Below, IsWellFoundedOn(Below, Nat),
             \A m \in Nat, n \in Nat : m < n => <<m, n>> \in Below
      PROVE  \E n \in T : \A m \in T : n <= m
  <2>1. PICK n \in T : \A m \in T : ~ (<<m, n>> \in Below)
    BY <1>1, WFMin, ZenonT(30)
  <2>2. \A m \in T : ~ (m < n)
    BY <2>1, <1>1
  <2>. QED  BY <2>2
<1>. DEFINE Below == OpToRel(<, Nat)
<1>2. \A m \in Nat, n \in Nat : m < n => <<m, n>> \in Below
  BY Zenon DEF OpToRel
<1>3. IsWellFoundedOn(Below, Nat)
  BY NatLessThanWellFounded, Zenon
<1>. HIDE DEF Below
<1>. QED  BY <1>1, <1>2, <1>3, Zenon

LEMMA NumbersFromZero ==
  ASSUME NEW T, T \subseteq Nat, 0 \in T, \A n \in T : n + 1 \in T
  PROVE  T = Nat
<1>. SUFFICES ASSUME Nat \ T # {}
              PROVE  FALSE
  OBVIOUS
<1>1. PICK n \in Nat \ T : \A m \in Nat \ T : n <= m
  BY LeastNumber
<1>2. n - 1 \in T
  BY <1>1
<1>. QED  BY <1>1, <1>2

----------------------------------------------------------------------------
(* The parentheses open in a phrase.                                       *)

(* The function that DepthIn chooses: one counts them from f to k.          *)
Counts(c, ts, f, k) ==
  c = [j \in f .. k |-> IF j = f THEN 0 ELSE After(ts[j - 1], c[j - 1])]

LEMMA AfterIs ==
  ASSUME NEW t, NEW n
  PROVE  /\ t = "(" => After(t, n) = n + 1
         /\ t = ")" /\ n > 0 => After(t, n) = n - 1
         /\ t # "(" /\ ~(t = ")" /\ n > 0) => After(t, n) = n
<1>1. t = "(" => After(t, n) = n + 1
  BY Zenon DEF After
<1>2. t = ")" /\ n > 0 => After(t, n) = n - 1
  BY Zenon DEF After
<1>3. t # "(" /\ ~(t = ")" /\ n > 0) => After(t, n) = n
  BY Zenon DEF After
<1>. QED  BY <1>1, <1>2, <1>3

LEMMA CountsAgree ==
  ASSUME NEW ts, NEW ts2, NEW f \in Nat, NEW k \in Nat, NEW k2 \in Nat,
         k <= k2, NEW c, NEW c2, Counts(c, ts, f, k), Counts(c2, ts2, f, k2),
         \A i \in f .. k - 1 : ts2[i] = ts[i]
  PROVE  \A j \in f .. k : c2[j] = c[j]
<1>. DEFINE T == {n \in Nat : f + n <= k => c2[f + n] = c[f + n]}
<1>1. \A j \in f .. k : c[j] = IF j = f THEN 0 ELSE After(ts[j - 1], c[j - 1])
  BY DEF Counts
<1>2. \A j \in f .. k2 : c2[j] = IF j = f THEN 0 ELSE After(ts2[j - 1], c2[j - 1])
  BY DEF Counts
<1>3. 0 \in T
  BY <1>1, <1>2
<1>4. ASSUME NEW n \in T
      PROVE  n + 1 \in T
  <2>1. SUFFICES ASSUME f + (n + 1) <= k
                 PROVE  c2[f + (n + 1)] = c[f + (n + 1)]
    OBVIOUS
  <2>. DEFINE j == f + (n + 1)
  <2>2. j \in f .. k /\ j \in f .. k2 /\ j # f /\ j - 1 = f + n
    BY <2>1
  <2>3. c2[j - 1] = c[j - 1] /\ ts2[j - 1] = ts[j - 1]
    BY <2>2
  <2>. HIDE DEF j
  <2>4. c2[j] = c[j]
    BY <1>1, <1>2, <2>2, <2>3
  <2>. QED  BY <2>4 DEF j
<1>5. T = Nat
  <2>. HIDE DEF T
  <2>1. T \subseteq Nat
    BY DEF T
  <2>. QED  BY <1>3, <1>4, <2>1, NumbersFromZero
<1>6. ASSUME NEW j \in f .. k
      PROVE  c2[j] = c[j]
  <2>1. j - f \in Nat /\ f + (j - f) = j
    OBVIOUS
  <2>2. j - f \in T
    BY <1>5, <2>1, Zenon
  <2>. QED  BY <2>1, <2>2
<1>. QED  BY <1>6

LEMMA CountsExist ==
  ASSUME NEW ts, NEW f \in Nat, NEW k \in Nat, f <= k
  PROVE  \E c : Counts(c, ts, f, k)
<1>. DEFINE T == {n \in Nat : \E c : Counts(c, ts, f, f + n)}
<1>1. 0 \in T
  <2>1. Counts([j \in f .. f |-> 0], ts, f, f)
    BY DEF Counts
  <2>. QED  BY <2>1
<1>2. ASSUME NEW n \in T
      PROVE  n + 1 \in T
  <2>1. PICK c : Counts(c, ts, f, f + n)
    OBVIOUS
  <2>2. \A j \in f .. f + n :
          c[j] = IF j = f THEN 0 ELSE After(ts[j - 1], c[j - 1])
    BY <2>1 DEF Counts
  <2>. DEFINE m == f + (n + 1)
              c2 == [j \in f .. m |->
                       IF j = m THEN After(ts[m - 1], c[m - 1]) ELSE c[j]]
              r(j) == IF j = f THEN 0 ELSE After(ts[j - 1], c2[j - 1])
  <2>3. m \in Nat /\ m # f /\ f <= m /\ m - 1 = f + n
    OBVIOUS
  <2>4. \A j \in f .. m :
          c2[j] = IF j = m THEN After(ts[m - 1], c[m - 1]) ELSE c[j]
    OBVIOUS
  <2>5. c2 = [j \in f .. m |-> c2[j]]
    OBVIOUS
  <2>. HIDE DEF m, c2
  <2>6. ASSUME NEW j \in f .. m
        PROVE  c2[j] = r(j)
    <3>1. CASE j = f
      BY <2>2, <2>3, <2>4, <3>1
    <3>2. CASE j # f
      <4>1. j - 1 \in f .. m /\ j - 1 # m /\ j - 1 \in f .. f + n
        BY <2>3, <3>2
      <4>2. c2[j - 1] = c[j - 1]
        BY <2>4, <4>1
      <4>3. c2[j] = After(ts[j - 1], c[j - 1])
        <5>1. CASE j = m
          BY <2>4, <5>1
        <5>2. CASE j # m
          BY <2>2, <2>3, <2>4, <3>2, <5>2
        <5>. QED  BY <5>1, <5>2
      <4>. QED  BY <3>2, <4>2, <4>3
    <3>. QED  BY <3>1, <3>2
  <2>7. [j \in f .. m |-> c2[j]] = [j \in f .. m |-> r(j)]
    BY <2>6, Zenon
  <2>8. Counts(c2, ts, f, m)
    BY <2>5, <2>7, Zenon DEF Counts
  <2>. QED  BY <2>8 DEF m
<1>3. T = Nat
  <2>. HIDE DEF T
  <2>1. T \subseteq Nat
    BY DEF T
  <2>. QED  BY <1>1, <1>2, <2>1, NumbersFromZero
<1>4. k - f \in Nat /\ f + (k - f) = k
  OBVIOUS
<1>5. k - f \in T
  BY <1>3, <1>4, Zenon
<1>. QED  BY <1>4, <1>5

LEMMA DepthCounted ==
  ASSUME NEW ts, NEW f \in Nat, NEW k \in Nat, f <= k
  PROVE  \E c : Counts(c, ts, f, k) /\ DepthIn(ts, f, k) = c[k]
<1>. DEFINE c == CHOOSE x : Counts(x, ts, f, k)
<1>1. Counts(c, ts, f, k)
  BY CountsExist
<1>2. DepthIn(ts, f, k) = c[k]
  BY Zenon DEF DepthIn, Counts
<1>. QED  BY <1>1, <1>2

(* How the depth goes on from token to token.                              *)
LEMMA DepthLaws ==
  ASSUME NEW ts, NEW f \in Nat
  PROVE  /\ DepthIn(ts, f, f) = 0
         /\ \A k \in Nat : f <= k =>
              DepthIn(ts, f, k + 1) = After(ts[k], DepthIn(ts, f, k))
<1>1. DepthIn(ts, f, f) = 0
  <2>1. PICK c : Counts(c, ts, f, f) /\ DepthIn(ts, f, f) = c[f]
    BY DepthCounted
  <2>2. c[f] = 0
    BY <2>1 DEF Counts
  <2>. QED  BY <2>1, <2>2
<1>2. ASSUME NEW k \in Nat, f <= k
      PROVE  DepthIn(ts, f, k + 1) = After(ts[k], DepthIn(ts, f, k))
  <2>1. PICK c : Counts(c, ts, f, k) /\ DepthIn(ts, f, k) = c[k]
    BY <1>2, DepthCounted
  <2>2. PICK c2 : Counts(c2, ts, f, k + 1) /\ DepthIn(ts, f, k + 1) = c2[k + 1]
    BY <1>2, DepthCounted
  <2>3. c2[k] = c[k]
    <3>. DEFINE m == k + 1
                s == ts
    <3>1. /\ k \in f .. k /\ m \in Nat /\ k <= m
          /\ \A i \in f .. k - 1 : s[i] = ts[i]
      BY <1>2
    <3>2. Counts(c, ts, f, k) /\ Counts(c2, s, f, m)
      BY <2>1, <2>2
    <3>. HIDE DEF m, s
    <3>3. \A j \in f .. k : c2[j] = c[j]
      BY <3>1, <3>2, CountsAgree
    <3>. QED  BY <3>1, <3>3
  <2>4. c2[k + 1] = After(ts[k], c2[k])
    <3>1. k + 1 \in f .. k + 1 /\ k + 1 # f /\ (k + 1) - 1 = k
      BY <1>2
    <3>. QED  BY <2>2, <3>1 DEF Counts
  <2>. QED  BY <2>1, <2>2, <2>3, <2>4
<1>. QED  BY <1>1, <1>2

(* The depth depends on the tokens before alone.                           *)
LEMMA DepthSame ==
  ASSUME NEW ts, NEW ts2, NEW f \in Nat, NEW k \in Nat, f <= k,
         \A i \in f .. k - 1 : ts2[i] = ts[i]
  PROVE  DepthIn(ts2, f, k) = DepthIn(ts, f, k)
<1>1. PICK c : Counts(c, ts, f, k) /\ DepthIn(ts, f, k) = c[k]
  BY DepthCounted
<1>2. PICK c2 : Counts(c2, ts2, f, k) /\ DepthIn(ts2, f, k) = c2[k]
  BY DepthCounted
<1>3. c2[k] = c[k]
  BY <1>1, <1>2, CountsAgree
<1>. QED  BY <1>1, <1>2, <1>3

----------------------------------------------------------------------------
(* What is said of the target of a statement, as the text goes on.          *)

LEMMA IntosStay ==
  ASSUME NEW ts \in Seq(Token), NEW ts2 \in Seq(Token), Extends(ts, ts2),
         NEW f \in Nat, f > 0, NEW m \in Nat, m <= Len(ts) + 1
  PROVE  Intos(ts2, f, m) = Intos(ts, f, m)
<1>1. Len(ts) \in Nat
  OBVIOUS
<1>2. ASSUME NEW k \in f .. m - 1
      PROVE  ts2[k] = ts[k] /\ DepthIn(ts2, f, k) = DepthIn(ts, f, k)
  <2>1. k \in Nat /\ f <= k /\ k \in 1 .. Len(ts)
    BY <1>1
  <2>2. ts2[k] = ts[k]
    BY <2>1 DEF Extends
  <2>3. \A i \in f .. k - 1 : ts2[i] = ts[i]
    BY <1>1, <2>1 DEF Extends
  <2>4. k \in Nat /\ f <= k
    BY <2>1
  <2>5. DepthIn(ts2, f, k) = DepthIn(ts, f, k)
    BY <2>3, <2>4, DepthSame
  <2>. QED  BY <2>2, <2>5
<1>. QED  BY <1>2 DEF Intos

LEMMA SaidStays ==
  ASSUME NEW ts \in Seq(Token), NEW ts2 \in Seq(Token), Extends(ts, ts2),
         NEW f \in Nat, f > 0, NEW m \in Nat, m <= Len(ts), NEW fields,
         TargetSaid(ts, f, m, fields)
  PROVE  TargetSaid(ts2, f, m, fields)
<1>1. Len(ts) \in Nat
  OBVIOUS
<1>2. Intos(ts2, f, m) = Intos(ts, f, m)
  BY <1>1, IntosStay
<1>3. ASSUME NEW k \in Intos(ts, f, m)
      PROVE  ts2[k + 1] = ts[k + 1]
  <2>1. k \in f .. m - 1
    BY DEF Intos
  <2>2. k + 1 \in 1 .. Len(ts)
    BY <1>1, <2>1
  <2>. QED  BY <2>2 DEF Extends
<1>. QED  BY <1>2, <1>3 DEF TargetSaid

LEMMA IntosNext ==
  ASSUME NEW ts, NEW f \in Nat, NEW m \in Nat, f <= m
  PROVE  /\ Intos(ts, f, m) \subseteq Intos(ts, f, m + 1)
         /\ \A k \in Intos(ts, f, m + 1) : k \in Intos(ts, f, m) \/ k = m
         /\ m \in Intos(ts, f, m + 1) <=> ts[m] = "INTO" /\ DepthIn(ts, f, m) = 0
         /\ \A k \in Intos(ts, f, m) : k < m
<1>1. \A k \in f .. (m + 1) - 1 : k \in f .. m - 1 \/ k = m
  OBVIOUS
<1>2. m \in f .. (m + 1) - 1 /\ \A k \in f .. m - 1 : k \in f .. (m + 1) - 1
  OBVIOUS
<1>3. \A k \in Intos(ts, f, m) : k < m
  BY DEF Intos
<1>. QED  BY <1>1, <1>2, <1>3 DEF Intos

LEMMA SaidNext ==
  ASSUME NEW ts, NEW f \in Nat, NEW m \in Nat, f <= m, NEW fields,
         TargetSaid(ts, f, m, fields),
         ts[m] # "INTO" \/ DepthIn(ts, f, m) # 0 \/ "into" \in fields
  PROVE  TargetSaid(ts, f, m + 1, fields)
<1>. DEFINE I == Intos(ts, f, m)
            J == Intos(ts, f, m + 1)
<1>1. /\ I \subseteq J /\ (\A k \in J : k \in I \/ k = m)
      /\ m \in J <=> ts[m] = "INTO" /\ DepthIn(ts, f, m) = 0
      /\ \A k \in I : k < m
  BY IntosNext
<1>2. /\ "into" \in fields <=> I # {}
      /\ "strict" \in fields => \E k \in I : ts[k + 1] = "STRICT"
      /\ \A k \in I : ts[k + 1] = "STRICT" /\ (\A j \in I : k <= j)
                      => "strict" \in fields
  BY DEF TargetSaid
<1>3. I \subseteq Nat
  BY DEF Intos
<1>. HIDE DEF I, J
<1>4. "into" \in fields <=> J # {}
  BY <1>1, <1>2
<1>5. "strict" \in fields => \E k \in J : ts[k + 1] = "STRICT"
  BY <1>1, <1>2
<1>6. ASSUME NEW k \in J, ts[k + 1] = "STRICT", \A j \in J : k <= j
      PROVE  "strict" \in fields
  <2>1. CASE k \in I
    BY <1>1, <1>2, <1>6, <2>1
  <2>2. CASE k \notin I
    <3>1. k = m /\ I # {}
      BY <1>1, <1>2, <2>2
    <3>2. PICK j \in I : TRUE
      BY <3>1
    <3>3. j < m /\ m <= j /\ j \in Nat
      BY <1>1, <1>3, <1>6, <3>1, <3>2
    <3>. QED  BY <3>3
  <2>. QED  BY <2>1, <2>2
<1>. QED  BY <1>4, <1>5, <1>6 DEF TargetSaid, J

(* The place of the current token, once one has been moved past.            *)
LEMMA PlacedNext ==
  ASSUME NEW ts \in Seq(Token), NEW ts2 \in Seq(Token), NEW d, NEW d2, NEW f,
         Placed(ts, d, f), Longer(ts, ts2), d2 = After(ts[Len(ts)], d),
         ts[Len(ts)] # EOF
  PROVE  Placed(ts2, d2, f) /\ f \in Nat /\ f > 0 /\ Extends(ts, ts2)
<1>1. /\ Len(ts) \in Nat /\ f \in 1 .. Len(ts) /\ d = DepthIn(ts, f, Len(ts))
      /\ Len(ts2) = Len(ts) + 1 /\ \A i \in 1 .. Len(ts) : ts2[i] = ts[i]
  BY DEF Placed, Longer
<1>2. f \in Nat /\ f > 0 /\ f <= Len(ts) /\ f \in 1 .. Len(ts2)
  BY <1>1
<1>3. DepthIn(ts2, f, Len(ts)) = DepthIn(ts, f, Len(ts))
  <2>1. \A i \in f .. Len(ts) - 1 : ts2[i] = ts[i]
    BY <1>1, <1>2
  <2>. QED  BY <1>1, <1>2, <2>1, DepthSame
<1>4. ts2[Len(ts)] = ts[Len(ts)]
  BY <1>1, <1>2
<1>5. DepthIn(ts2, f, Len(ts2)) = After(ts[Len(ts)], d)
  BY <1>1, <1>2, <1>3, <1>4, DepthLaws
<1>6. Extends(ts, ts2)
  BY <1>1 DEF Extends
<1>. QED  BY <1>2, <1>5, <1>6 DEF Placed

(* Past a token that is no INTO outside parentheses, or not the first one,  *)
(* the same is said.                                                       *)
LEMMA Past ==
  ASSUME NEW ts \in Seq(Token), NEW ts2 \in Seq(Token), NEW free \in BOOLEAN,
         NEW free2, NEW d, NEW d2, NEW f, NEW fields,
         Placed(ts, d, f), TargetSaid(ts, f, Len(ts), fields),
         Passes(ts, free, ts2, free2),
         ts[Len(ts)] # EOF => d2 = After(ts[Len(ts)], d),
         ts[Len(ts)] # "INTO" \/ d # 0 \/ "into" \in fields,
         free \/ After(ts[Len(ts)], d) = d
  PROVE  Placed(ts2, d2, f) /\ TargetSaid(ts2, f, Len(ts2), fields) /\ free2
<1>1. free2
  BY DEF Passes
<1>2. CASE ~free \/ ts[Len(ts)] = EOF
  <2>1. ts2 = ts
    BY <1>2 DEF Passes
  <2>2. ts[Len(ts)] = EOF \/ d2 = d
    BY <1>2
  <2>. QED  BY <1>1, <2>1, <2>2 DEF Placed
<1>3. CASE free /\ ts[Len(ts)] # EOF
  <2>1. Longer(ts, ts2)
    BY <1>3 DEF Passes, Longer
  <2>2. Placed(ts2, d2, f) /\ f \in Nat /\ f > 0 /\ Extends(ts, ts2)
    BY <1>3, <2>1, PlacedNext
  <2>. DEFINE n == Len(ts)
  <2>3. /\ n \in Nat /\ Len(ts2) = n + 1 /\ f <= n /\ n \in 1 .. n
        /\ d = DepthIn(ts, f, n)
    BY <1>3, <2>1, <2>2 DEF Longer, Placed
  <2>4. TargetSaid(ts2, f, n, fields)
    BY <2>2, <2>3, SaidStays
  <2>5. ts2[n] = ts[n] /\ DepthIn(ts2, f, n) = DepthIn(ts, f, n)
    <3>1. ts2[n] = ts[n]
      BY <2>2, <2>3 DEF Extends
    <3>2. \A i \in f .. n - 1 : ts2[i] = ts[i]
      BY <2>2, <2>3 DEF Extends
    <3>. QED  BY <2>2, <2>3, <3>1, <3>2, DepthSame
  <2>. HIDE DEF n
  <2>6. TargetSaid(ts2, f, n + 1, fields)
    BY <2>2, <2>3, <2>4, <2>5, SaidNext DEF n
  <2>. QED  BY <1>1, <2>2, <2>3, <2>6
<1>. QED  BY <1>2, <1>3

(* Past an INTO outside parentheses, what follows it is to be looked at.    *)
LEMMA PastInto ==
  ASSUME NEW ts \in Seq(Token), NEW ts2 \in Seq(Token), NEW free2,
         NEW f, NEW fields, Placed(ts, 0, f),
         TargetSaid(ts, f, Len(ts), fields), Passes(ts, TRUE, ts2, free2),
         ts[Len(ts)] = "INTO"
  PROVE  Placed(ts2, 0, f) /\ TargetSeen(ts2, f, fields) /\ free2
<1>1. "INTO" # EOF
  BY DEF EOF
<1>2. free2 /\ Longer(ts, ts2)
  BY <1>1 DEF Passes, Longer
<1>3. After("INTO", 0) = 0
  BY AfterIs
<1>4. Placed(ts2, 0, f) /\ f \in Nat /\ f > 0 /\ Extends(ts, ts2)
  BY <1>1, <1>2, <1>3, PlacedNext
<1>. DEFINE n == Len(ts)
<1>5. /\ n \in Nat /\ Len(ts2) = n + 1 /\ f <= n /\ n \in 1 .. n
      /\ DepthIn(ts, f, n) = 0
  BY <1>1, <1>2, <1>4 DEF Longer, Placed
<1>6. TargetSaid(ts2, f, n, fields)
  BY <1>4, <1>5, SaidStays
<1>7. ts2[n] = "INTO" /\ DepthIn(ts2, f, n) = 0
  <2>1. ts2[n] = ts[n]
    BY <1>4, <1>5 DEF Extends
  <2>2. \A i \in f .. n - 1 : ts2[i] = ts[i]
    BY <1>4, <1>5 DEF Extends
  <2>. QED  BY <1>4, <1>5, <2>1, <2>2, DepthSame
<1>. HIDE DEF n
<1>8. Len(ts2) - 1 = n /\ Len(ts2) > f
  BY <1>4, <1>5
<1>9. TargetSeen(ts2, f, fields)
  BY <1>6, <1>7, <1>8 DEF TargetSeen, TargetSaid
<1>. QED  BY <1>2, <1>4, <1>9

(* Once the fields say so, with or without a STRICT that follows.           *)
LEMMA IntoSaid ==
  ASSUME NEW ts, NEW f \in Nat, Len(ts) \in Nat, NEW fields, NEW fields2,
         TargetSeen(ts, f, fields), "into" \in fields, fields \subseteq fields2,
         ts[Len(ts)] = "STRICT" => "strict" \in fields2,
         ts[Len(ts)] # "STRICT" => fields2 = fields
  PROVE  TargetSaid(ts, f, Len(ts), fields2)
<1>. DEFINE n == Len(ts)
            m == n - 1
            I == Intos(ts, f, m)
            J == Intos(ts, f, n)
<1>1. m \in Nat /\ f <= m /\ m + 1 = n
  BY DEF TargetSeen
<1>2. /\ ts[m] = "INTO" /\ DepthIn(ts, f, m) = 0
      /\ "strict" \in fields => \E k \in I : ts[k + 1] = "STRICT"
      /\ \A k \in I : ts[k + 1] = "STRICT" /\ (\A j \in I : k <= j)
                      => "strict" \in fields
  BY DEF TargetSeen
<1>3. I \subseteq J /\ m \in J /\ \A k \in J : k \in I \/ k = m
  <2>. HIDE DEF n, m
  <2>1. /\ I \subseteq Intos(ts, f, m + 1) /\ m \in Intos(ts, f, m + 1)
        /\ \A k \in Intos(ts, f, m + 1) : k \in I \/ k = m
    BY <1>1, <1>2, IntosNext
  <2>. QED  BY <1>1, <2>1
<1>4. ts[m + 1] = ts[n]
  BY <1>1
<1>. HIDE DEF I, J, m
<1>5. "strict" \in fields2 => \E k \in J : ts[k + 1] = "STRICT"
  BY <1>2, <1>3, <1>4
<1>6. ASSUME NEW k \in J, ts[k + 1] = "STRICT", \A j \in J : k <= j
      PROVE  "strict" \in fields2
  BY <1>2, <1>3, <1>4, <1>6
<1>7. "into" \in fields2 <=> J # {}
  BY <1>3
<1>. QED  BY <1>5, <1>6, <1>7 DEF TargetSaid, J

----------------------------------------------------------------------------
(* The forms of the code of the other functions.                           *)

LEMMA OtherHolds ==
  ASSUME NEW K
  PROVE  /\ Steps(K) \subseteq Other(K) /\ Nested(Steps(K)) \subseteq Other(K)
         /\ Seq(Steps(K)) \subseteq Seq(Other(K))
         /\ Seq(Nested(Steps(K))) \subseteq Seq(Other(K))
         /\ \A kinds : kinds \subseteq K => Plain(kinds) \subseteq Steps(K)
         /\ Plain({}) \subseteq Steps(K)
         /\ ComplexKinds \subseteq K =>
              /\ Plain({"Block"}) \subseteq Steps(K)
              /\ Plain({"DeclVar"}) \subseteq Steps(K)
              /\ Plain(CompositeKinds) \subseteq Steps(K)
<1>1. Steps(K) \subseteq Nested(Steps(K)) /\ Nested(Steps(K)) \subseteq Other(K)
  BY NestedHolds DEF Other
<1>2. Steps(K) \subseteq Other(K)
  BY <1>1
<1>3. /\ Seq(Steps(K)) \subseteq Seq(Other(K))
      /\ Seq(Nested(Steps(K))) \subseteq Seq(Other(K))
  BY <1>1, <1>2, CompoundMonotone
<1>4. ComplexKinds \subseteq K =>
        /\ {"Block"} \subseteq K /\ {"DeclVar"} \subseteq K
        /\ CompositeKinds \subseteq K
  BY DEF ComplexKinds, CompositeKinds
<1>5. \A L : L \subseteq K => Plain(L) \subseteq Plain(K)
  BY DEF Plain
<1>6. \A L : L \subseteq K => Plain(L) \subseteq Steps(K)
  BY <1>5 DEF Steps
<1>. QED  BY <1>1, <1>2, <1>3, <1>4, <1>6

LEMMA OtherParts ==
  ASSUME NEW K, NEW i \in Other(K)
  PROVE  \/ i \in Steps(K)
         \/ /\ i.op = "if" /\ i.then \in Seq(Other(K)) /\ i.else \in Seq(Other(K))
         \/ i.op \in {"while", "until"} /\ i.body \in Seq(Other(K))
<1>1. i \in Nested(Steps(K)) \/ i \in Compound(Other(K))
  BY NestedParts DEF Other
<1>2. Compound(Nested(Steps(K))) \subseteq Compound(Other(K))
  BY OtherHolds, CompoundMonotone
<1>3. i \in Steps(K) \/ i \in Compound(Other(K))
  BY <1>1, <1>2, NestedParts
<1>4. i \in Compound(Other(K)) =>
        \/ /\ i.op = "if" /\ i.then \in Seq(Other(K)) /\ i.else \in Seq(Other(K))
        \/ i.op \in {"while", "until"} /\ i.body \in Seq(Other(K))
  BY DEF Compound
<1>. QED  BY <1>3, <1>4

LEMMA SimpleIsOther ==
  ASSUME NEW K, ComplexKinds \subseteq K
  PROVE  /\ Simple \subseteq Nested(Steps(K))
         /\ Seq(Simple) \subseteq Seq(Nested(Steps(K)))
         /\ Simple \subseteq Other(K) /\ Seq(Simple) \subseteq Seq(Other(K))
<1>1. Simple \subseteq Nested(Steps(K))
  BY OtherHolds, NestedMonotone DEF Simple
<1>. QED  BY <1>1, OtherHolds, CompoundMonotone

(* The tests for NO and SCROLL.                                            *)
LEMMA NoTestsNest ==
  ASSUME NEW X, pushBack \in X, Plain({}) \subseteq X, Simple \subseteq X
  PROVE  NoTests \subseteq Nest(Nest(X))
<1>1. {"SCROLL"} \in SUBSET Token /\ {"NO"} \in SUBSET Token
  BY DEF Token, Unreserved
<1>2. next \in Nest(X)
  BY PlainForms, NestHolds
<1>3. PushBacks \subseteq Seq(X)
  BY DEF PushBacks
<1>4. ScrollTests \subseteq Nest(X)
  BY <1>1, <1>3 DEF ScrollTests, Nest, Compound
<1>5. ASSUME NEW b \in {next} \X ScrollTests
      PROVE  b \in Seq(Nest(X))
  <2>1. \A i \in ScrollTests : <<next, i>> \in Seq(Nest(X))
    BY <1>2, <1>4
  <2>2. PICK i \in ScrollTests : b = <<next, i>>
    BY <1>5
  <2>. QED  BY <2>1, <2>2
<1>6. Seq(Simple) \subseteq Seq(Nest(X))
  BY NestHolds
<1>. QED  BY <1>1, <1>5, <1>6 DEF NoTests, Nest, Compound

LEMMA NoTestsAreOther ==
  ASSUME NEW K, ComplexKinds \subseteq K
  PROVE  /\ NoTests \subseteq Nest(Nest(Nested(Steps(K))))
         /\ want("OPEN") \in Nested(Steps(K)) /\ anyIdentifier \in Nested(Steps(K))
         /\ node("DeclVar") \in Nested(Steps(K))
<1>. DEFINE X == Nested(Steps(K))
<1>1. pushBack \in X /\ Plain({}) \subseteq X /\ Plain({"DeclVar"}) \subseteq X
  BY NestedHolds, OtherHolds DEF Steps
<1>2. Simple \subseteq X
  BY SimpleIsOther
<1>3. "OPEN" \in Token
  BY DEF Token, Unreserved
<1>. HIDE DEF X
<1>4. NoTests \subseteq Nest(Nest(X))
  BY <1>1, <1>2, NoTestsNest
<1>5. want("OPEN") \in X /\ anyIdentifier \in X /\ node("DeclVar") \in X
  BY <1>1, <1>3, PlainForms, KindForms
<1>. QED  BY <1>4, <1>5 DEF X

LEMMA OpenIsOther ==
  ASSUME NEW K, ComplexKinds \subseteq K
  PROVE  OpenBodies \subseteq Seq(Other(K))
<1>. DEFINE X == Nested(Steps(K))
            Y == Nest(Nest(X))
<1>1. NoTests \subseteq Y
  BY NoTestsAreOther
<1>2. want("OPEN") \in Y /\ anyIdentifier \in Y /\ Simple \subseteq Y
  BY NoTestsAreOther, SimpleIsOther, NestHolds
<1>3. Seq(Y) \subseteq Seq(Other(K))
  BY NestedHolds DEF Other
<1>. HIDE DEF X, Y
<1>4. ASSUME NEW b \in OpenBodies
      PROVE  b \in Seq(Y)
  <2>1. PICK n \in NoTests, x \in Simple, y \in Simple :
          b = <<want("OPEN"), anyIdentifier, n, x, y>>
    BY BodyParts
  <2>2. n \in Y /\ x \in Y /\ y \in Y
    BY <1>1, <1>2
  <2>3. <<want("OPEN"), anyIdentifier, n, x, y>> \in Seq(Y)
    BY <1>2, <2>2
  <2>. QED  BY <2>1, <2>3
<1>. QED  BY <1>3, <1>4

(* A declaration.                                                          *)
LEMMA DeclsAreOther ==
  ASSUME NEW K, ComplexKinds \subseteq K
  PROVE  DeclBodies \subseteq Seq(Other(K))
<1>. DEFINE X == Nested(Steps(K))
            Y == Nest(Nest(Nest(X)))
<1>1. NoTests \subseteq Nest(Nest(X)) /\ anyIdentifier \in Y
      /\ node("DeclVar") \in Y
  BY NoTestsAreOther, NestHolds
<1>2. Seq(Y) \subseteq Seq(Other(K))
  BY NestedHolds DEF Other
<1>3. Seq(Simple) \subseteq Seq(Nest(Nest(X)))
  BY SimpleIsOther, NestHolds
<1>4. {"ALIAS"} \in SUBSET Token
  BY DEF Token, Unreserved
<1>5. ASSUME NEW s \in One(NoTests)
      PROVE  s \in Seq(Nest(Nest(X)))
  <2>1. s = <<s[1]>> /\ s[1] \in NoTests
    BY OneHolds
  <2>2. s[1] \in Nest(Nest(X))
    BY <1>1, <2>1
  <2>. HIDE DEF X
  <2>3. <<s[1]>> \in Seq(Nest(Nest(X)))
    BY <2>2
  <2>. QED  BY <2>1, <2>3
<1>6. AliasTests \subseteq Y
  <2>. HIDE DEF X
  <2>. QED  BY <1>3, <1>4, <1>5 DEF AliasTests, Y, Nest, Compound
<1>. HIDE DEF X, Y
<1>7. ASSUME NEW b \in DeclBodies
      PROVE  b \in Seq(Y)
  <2>1. PICK i \in AliasTests : b = <<anyIdentifier, i, node("DeclVar")>>
    BY BodyParts
  <2>2. i \in Y
    BY <1>6
  <2>3. <<anyIdentifier, i, node("DeclVar")>> \in Seq(Y)
    BY <1>1, <2>2
  <2>. QED  BY <2>1, <2>3
<1>. QED  BY <1>2, <1>7

LEMMA BranchesAreOther ==
  ASSUME NEW K
  PROVE  /\ ComplexKinds \subseteq K => BranchBodies \subseteq Seq(Other(K))
         /\ BranchLoops \subseteq Nested(Steps(K))
<1>1. ComplexKinds \subseteq K => BranchBodies \subseteq Seq(Other(K))
  BY SimpleIsOther DEF BranchBodies
<1>2. ASSUME NEW s \in One(BranchCalls)
      PROVE  s \in Seq(Steps(K))
  <2>1. s = <<s[1]>> /\ s[1] \in BranchCalls
    BY OneHolds
  <2>2. s[1] \in Steps(K)
    BY <2>1 DEF Steps, NodeCalls
  <2>3. <<s[1]>> \in Seq(Steps(K))
    BY <2>2
  <2>. QED  BY <2>1, <2>3
<1>3. BranchLoops \subseteq Compound(Steps(K))
  BY <1>2 DEF BranchLoops, Compound
<1>. QED  BY <1>1, <1>3, CompoundHolds

(* The loop of parseDeclSection, from the inside out.                      *)
LEMMA LoopsAreOther ==
  ASSUME NEW K
  PROVE  Loops \subseteq Nested(Steps(K))
<1>1. {"<<"} \in SUBSET Token /\ {"DECLARE"} \in SUBSET Token
  BY DEF Token, Reserved, Symbols
<1>2. \A X, Y : X \subseteq Y => One(X) \subseteq Seq(Y)
  <2>1. SUFFICES ASSUME NEW X, NEW Y, X \subseteq Y, NEW s \in One(X)
                 PROVE  s \in Seq(Y)
    OBVIOUS
  <2>2. s = <<s[1]>> /\ s[1] \in Y
    BY <2>1, OneHolds
  <2>3. <<s[1]>> \in Seq(Y)
    BY <2>2
  <2>. QED  BY <2>2, <2>3
<1>3. NodeCalls \subseteq Steps(K) /\ Plain({}) \subseteq Steps(K)
  BY OtherHolds DEF Steps
<1>4. LabelTests \subseteq Nest(Steps(K))
  <2>1. /\ One(NodeCalls) \subseteq Seq(Steps(K))
        /\ Seq(Plain({})) \subseteq Seq(Steps(K))
    BY <1>2, <1>3, CompoundMonotone
  <2>. QED  BY <1>1, <2>1 DEF LabelTests, Nest, Compound
<1>5. DeclareTests \subseteq Nest(Nest(Steps(K)))
  <2>1. Plain({}) \subseteq Nest(Steps(K))
    BY <1>3, NestHolds
  <2>2. /\ One(LabelTests) \subseteq Seq(Nest(Steps(K)))
        /\ Seq(Plain({})) \subseteq Seq(Nest(Steps(K)))
    BY <1>2, <1>4, <2>1, CompoundMonotone
  <2>. QED  BY <1>1, <2>2 DEF DeclareTests, Nest, Compound
<1>6. One(DeclareTests) \subseteq Seq(Nest(Nest(Steps(K))))
  BY <1>2, <1>5
<1>7. [op : {"until"}, on : {S \in SUBSET Token : EOF \in S},
       body : One(DeclareTests)] \subseteq Nest(Nest(Nest(Steps(K))))
  BY <1>6 DEF Nest, Compound
<1>8. Nest(Nest(Nest(Steps(K)))) \subseteq Nested(Steps(K))
  BY NestedHolds
<1>. QED  BY <1>7, <1>8, BranchesAreOther DEF Loops

LEMMA CodeIsOther ==
  ASSUME NEW K, NEW kinds, kinds \subseteq K
  PROVE  /\ Stems(kinds) \subseteq Other(K) /\ Sections(kinds) \subseteq Other(K)
         /\ Seq(Stems(kinds)) \subseteq Seq(Other(K))
         /\ Seq(Sections(kinds)) \subseteq Seq(Other(K))
<1>1. Plain(kinds) \subseteq Nested(Steps(K))
  BY OtherHolds, NestedHolds
<1>2. /\ Plain(kinds) \cup BranchLoops \subseteq Nested(Steps(K))
      /\ Plain(kinds) \cup Loops \subseteq Nested(Steps(K))
  BY <1>1, BranchesAreOther, LoopsAreOther
<1>3. Stems(kinds) \subseteq Other(K) /\ Sections(kinds) \subseteq Other(K)
  BY <1>2, NestedMonotone DEF Stems, Sections, Other
<1>. QED  BY <1>3, CompoundMonotone

LEMMA BlocksAreOther ==
  ASSUME NEW K, ComplexKinds \subseteq K
  PROVE  BlockBodies \subseteq Seq(Other(K))
<1>1. {"Block"} \subseteq K
  BY DEF CompositeKinds, ComplexKinds
<1>. QED  BY <1>1, CodeIsOther, BlockBodyForms

LEMMA ErrorIsOther ==
  ASSUME NEW K
  PROVE  <<syntaxError, skip>> \in Seq(Other(K))
<1>1. syntaxError \in Steps(K) /\ skip \in Steps(K)
  BY OtherHolds, PlainForms
<1>2. <<syntaxError, skip>> \in Seq(Steps(K))
  BY <1>1
<1>. QED  BY <1>2, OtherHolds

LEMMA StatementsAreOther ==
  ASSUME NEW K, ComplexKinds \subseteq K, NEW t \in Token, t # "EXECUTE",
         t \notin CompositeTokens => FixedKinds \subseteq K
  PROVE  Statement(t) \in Seq(Other(K))
<1>0. semi \in Token
  BY DEF Token, Symbols, semi
<1>1. CASE Stemmed(Statement(t), t, K)
  BY <1>1, CodeIsOther DEF Stemmed
<1>2. CASE Statement(t) = parseStmtOpen
  BY <1>2, OpenForm, OpenIsOther
<1>3. CASE Statement(t) = labelled
  <2>1. BlockCalls \subseteq Steps(K)
    BY DEF Steps
  <2>2. labelled \in Seq(Nested(Steps(K)))
    BY <2>1, OtherHolds, LabelledForm, NestedHolds
  <2>. QED  BY <1>3, <2>2, OtherHolds
<1>4. CASE Statement(t) = <<call(parseBlock), want(semi)>>
  <2>1. call(parseBlock) \in Steps(K)
    BY DEF Steps, BlockCalls, BlockBodies
  <2>2. want(semi) \in Steps(K)
    BY <1>0, OtherHolds, PlainForms
  <2>3. <<call(parseBlock), want(semi)>> \in Seq(Steps(K))
    BY <2>1, <2>2
  <2>. QED  BY <1>4, <2>3, OtherHolds
<1>5. CASE Statement(t) = <<syntaxError, skip>>
  BY <1>5, ErrorIsOther
<1>6. CompositeKinds \subseteq K
  BY DEF ComplexKinds
<1>. QED  BY <1>1, <1>2, <1>3, <1>4, <1>5, <1>6, StatementParts

(* An instruction of such code: what it calls, and the node it returns.     *)
LEMMA OtherHead ==
  ASSUME NEW K, NEW i \in Other(K)
  PROVE  /\ i.op = "call" =>
              \A L : ComplexKinds \subseteq L => i.body \in Seq(Other(L))
         /\ i.op = "node" => i.kind \in K
<1>1. i \in NodeCalls =>
        /\ i.op = "call"
        /\ \A L : ComplexKinds \subseteq L => i.body \in Seq(Other(L))
  BY BranchesAreOther, DeclsAreOther DEF NodeCalls, BranchCalls
<1>2. i \in BlockCalls =>
        /\ i.op = "call"
        /\ \A L : ComplexKinds \subseteq L => i.body \in Seq(Other(L))
  BY BlockCallBodies, BlocksAreOther, Operations
<1>3. i \in Plain(K) => i.op # "call" /\ (i.op = "node" => i.kind \in K)
  BY DEF Plain
<1>4. pushBack.op = "pushBack"
  BY DEF pushBack
<1>. QED  BY <1>1, <1>2, <1>3, <1>4, OtherParts DEF Steps

(* What it leaves is such code.                                            *)
LEMMA OtherTurn ==
  ASSUME NEW K, NEW b \in Seq(Other(K)), b # <<>>, NEW ts, NEW ts2, NEW free,
         NEW free2, NEW b2, NEW fields,
         Turn(b, ts, free, b2, ts2, free2, fields)
  PROVE  b2 \in Seq(Other(K))
<1>. DEFINE i == Head(b)
            r == Tail(b)
<1>1. i \in Other(K) /\ r \in Seq(Other(K))
  BY HeadTailProperties
<1>. HIDE DEF i, r
<1>2. CASE i.op = "if" /\ i.then \in Seq(Other(K)) /\ i.else \in Seq(Other(K))
  <2>1. b2 = i.then \o r \/ b2 = i.else \o r
    <3>1. Head(b).op = "if"
      BY <1>2 DEF i
    <3>2. \/ b2 = Head(b).then \o Tail(b)
          \/ b2 = Head(b).else \o Tail(b)
      BY <3>1 DEF Turn
    <3>. QED  BY <3>2 DEF i, r
  <2>2. i.then \o r \in Seq(Other(K)) /\ i.else \o r \in Seq(Other(K))
    BY <1>1, <1>2
  <2>. QED  BY <2>1, <2>2
<1>3. CASE i.op \in {"while", "until"} /\ i.body \in Seq(Other(K))
  <2>1. b2 = i.body \o b \/ b2 = r
    BY <1>3 DEF Turn, i, r
  <2>2. i.body \o b \in Seq(Other(K))
    BY <1>3
  <2>. QED  BY <1>1, <2>1, <2>2
<1>4. CASE i.op \notin {"if", "while", "until"}
  <2>1. b2 \in {r, b}
    BY <1>4 DEF Turn, i, r
  <2>. QED  BY <1>1, <2>1
<1>5. i \in Steps(K) => i.op \notin {"if", "while", "until"}
  BY Operations DEF Steps
<1>. QED  BY <1>1, <1>2, <1>3, <1>4, <1>5, OtherParts

LEMMA NotExecuteHolds ==
  /\ ComplexKinds \subseteq NotExecute /\ FixedKinds \subseteq NotExecute
  /\ "DynExecute" \notin NotExecute
<1>1. "DynExecute" \notin FixedKinds
  BY DEF FixedKinds
<1>. QED  BY <1>1, CompositeAreOther DEF ComplexKinds, NotExecute

----------------------------------------------------------------------------
(* The code of parseStmtDynExecute, by the names given to its parts.        *)

LEMMA LongTuples ==
  /\ \A a, b, c, d, e, f :
       <<a, b, c>> \o <<d, e, f>> = <<a, b, c, d, e, f>>
  /\ \A a, b, c, d, e, f, g :
       <<a, b, c, d>> \o <<e, f, g>> = <<a, b, c, d, e, f, g>>
<1>1. ASSUME NEW a, NEW b, NEW c, NEW d, NEW e, NEW f
      PROVE  <<a, b, c>> \o <<d, e, f>> = <<a, b, c, d, e, f>>
  <2>. DEFINE S == {a, b, c, d, e, f}
              s == <<a, b, c>>
              t == <<d, e, f>>
              r == <<a, b, c, d, e, f>>
  <2>1. /\ s \in Seq(S) /\ Len(s) = 3
        /\ s[1] = a /\ s[2] = b /\ s[3] = c
    OBVIOUS
  <2>2. /\ t \in Seq(S) /\ Len(t) = 3
        /\ t[1] = d /\ t[2] = e /\ t[3] = f
    OBVIOUS
  <2>3. /\ r \in Seq(S) /\ Len(r) = 6
        /\ r[1] = a /\ r[2] = b /\ r[3] = c /\ r[4] = d /\ r[5] = e /\ r[6] = f
    OBVIOUS
  <2>. HIDE DEF S, s, t, r
  <2>4. ASSUME NEW k \in 1 .. Len(s)
        PROVE  r[k] = s[k]
    <3>1. k \in {1, 2, 3}
      BY <2>1
    <3>. QED  BY <2>1, <2>2, <2>3, <3>1
  <2>5. ASSUME NEW k \in 1 .. Len(t)
        PROVE  r[Len(s) + k] = t[k]
    <3>1. k \in {1, 2, 3}
      BY <2>2
    <3>. QED  BY <2>1, <2>2, <2>3, <3>1
  <2>6. Len(r) = Len(s) + Len(t)
    BY <2>1, <2>2, <2>3
  <2>7. s \o t = r
    BY <2>1, <2>2, <2>3, <2>4, <2>5, <2>6, ConcatForm, Zenon
  <2>. QED  BY <2>7 DEF s, t, r
<1>2. ASSUME NEW a, NEW b, NEW c, NEW d, NEW e, NEW f, NEW g
      PROVE  <<a, b, c, d>> \o <<e, f, g>> = <<a, b, c, d, e, f, g>>
  <2>. DEFINE S == {a, b, c, d, e, f, g}
              s == <<a, b, c, d>>
              t == <<e, f, g>>
              r == <<a, b, c, d, e, f, g>>
  <2>1. /\ s \in Seq(S) /\ Len(s) = 4
        /\ s[1] = a /\ s[2] = b /\ s[3] = c /\ s[4] = d
    OBVIOUS
  <2>2. /\ t \in Seq(S) /\ Len(t) = 3
        /\ t[1] = e /\ t[2] = f /\ t[3] = g
    OBVIOUS
  <2>3. /\ r \in Seq(S) /\ Len(r) = 7
        /\ r[1] = a /\ r[2] = b /\ r[3] = c /\ r[4] = d /\ r[5] = e /\ r[6] = f /\ r[7] = g
    OBVIOUS
  <2>. HIDE DEF S, s, t, r
  <2>4. ASSUME NEW k \in 1 .. Len(s)
        PROVE  r[k] = s[k]
    <3>1. k \in {1, 2, 3, 4}
      BY <2>1
    <3>. QED  BY <2>1, <2>2, <2>3, <3>1
  <2>5. ASSUME NEW k \in 1 .. Len(t)
        PROVE  r[Len(s) + k] = t[k]
    <3>1. k \in {1, 2, 3}
      BY <2>2
    <3>. QED  BY <2>1, <2>2, <2>3, <3>1
  <2>6. Len(r) = Len(s) + Len(t)
    BY <2>1, <2>2, <2>3
  <2>7. s \o t = r
    BY <2>1, <2>2, <2>3, <2>4, <2>5, <2>6, ConcatForm, Zenon
  <2>. QED  BY <2>7 DEF s, t, r
<1>. QED  BY <1>1, <1>2

LEMMA ExecuteCode ==
  parseStmtDynExecute
    = <<want("EXECUTE"), queryText, clauseLoop, got({semi}), executed>>
<1>1. usingParams({semi, "INTO"}) = <<next, valueText, valueLoop>>
  <2>1. <<next>> \o <<valueText>> = <<next, valueText>>
    BY PairForm
  <2>2. Separated(comma, <<valueText>>) = <<valueText>> \o <<valueLoop>>
    BY <2>1, Zenon DEF Separated, valueLoop
  <2>3. <<valueText>> \o <<valueLoop>> = <<valueText, valueLoop>>
    BY PairForm
  <2>4. <<next>> \o <<valueText, valueLoop>> = <<next, valueText, valueLoop>>
    BY Tuples
  <2>5. usingParams({semi, "INTO"}) = <<next>> \o Separated(comma, <<valueText>>)
    BY Zenon DEF usingParams, valueText
  <2>. QED  BY <2>2, <2>3, <2>4, <2>5, Zenon
<1>. QED  BY <1>1, Zenon DEF parseStmtDynExecute, queryText, clauseLoop, clauseTest,
                             strictTest, strictRest, targetText, executed

LEMMA ExecuteParts ==
  /\ executed.op = "node" /\ executed.kind = "DynExecute"
  /\ executed.fields = {}
  /\ want("EXECUTE").op = "want" /\ want("EXECUTE").on = {"EXECUTE"}
  /\ got({semi}).op = "got" /\ got({semi}).on = {semi}
  /\ \A S : /\ collect(S).op = "collect" /\ collect(S).on = S
            /\ collect(S).open = "(" /\ collect(S).close = ")"
  /\ \A S, x : /\ While(S, x).op = "while" /\ While(S, x).on = S
               /\ While(S, x).body = x
  /\ \A F : set(F).op = "set" /\ set(F).fields = F
  /\ next.op = "next"
  BY DEF executed, node, nodeWith, want, got, collect, While, set, next

(* The words of the statement: none is a parenthesis or the end.            *)
LEMMA Words ==
  /\ \A t \in {"EXECUTE", "INTO", "USING", "STRICT", semi, comma} :
       t # EOF /\ After(t, 0) = 0
  /\ \A t \in {"EXECUTE", "USING", "STRICT", semi, comma} : t # "INTO"
<1>1. /\ semi # EOF /\ semi # "(" /\ semi # "INTO"
      /\ comma # EOF /\ comma # "(" /\ comma # "INTO"
  BY Zenon DEF semi, comma, EOF
<1>2. \A t : t # "(" => After(t, 0) = 0
  BY AfterIs
<1>3. \A t \in {"EXECUTE", "INTO", "USING", "STRICT"} : t # EOF /\ t # "("
  BY DEF EOF
<1>. QED  BY <1>1, <1>2, <1>3

----------------------------------------------------------------------------
(* One instruction of it.                                                  *)

(* What happens to the parentheses that collectTokens counts, o before the  *)
(* turn and o2 after: it ends at the end of the text, or at a token it is    *)
(* looking for outside parentheses.  And got moves past what it looks for.   *)
Levelled(b, ts, free, o, b2, ts2, free2, o2) ==
  LET i == Head(b)
      t == ts[Len(ts)]
  IN  IF i.op \notin {"collect", "discard"}
      THEN o2 = o /\ (i.op = "got" /\ t \in i.on => Passes(ts, free, ts2, free2))
      ELSE IF t = EOF \/ (o = 0 /\ t \in i.on)
      THEN o2 = 0 /\ b2 = Tail(b) /\ Waits(ts, free, ts2, free2)
      ELSE /\ b2 = b /\ Passes(ts, free, ts2, free2)
           /\ i.open = "(" /\ i.close = ")" => o2 = After(t, o)

LEMMA TestTurn ==
  ASSUME NEW b, NEW ts, NEW ts2, NEW free, NEW free2, NEW b2, NEW fields,
         Turn(b, ts, free, b2, ts2, free2, fields), NEW S, NEW x, NEW y,
         Head(b) = If(S, x, y)
  PROVE  /\ ts2 = ts /\ free2 = free /\ fields = {}
         /\ ts[Len(ts)] \in S => b2 = x \o Tail(b)
         /\ ts[Len(ts)] \notin S => b2 = y \o Tail(b)
<1>1. /\ Head(b).op = "if" /\ Head(b).on = S
      /\ Head(b).then = x /\ Head(b).else = y
  BY IfParts
<1>. QED  BY <1>1, IfTurn, ZenonT(30)

LEMMA WhileTurn ==
  ASSUME NEW b, NEW ts, NEW ts2, NEW free, NEW free2, NEW b2, NEW fields,
         Turn(b, ts, free, b2, ts2, free2, fields), NEW S, NEW x,
         Head(b) = While(S, x)
  PROVE  /\ ts2 = ts /\ free2 = free /\ fields = {}
         /\ ts[Len(ts)] \in S => b2 = x \o b
         /\ ts[Len(ts)] \notin S => b2 = Tail(b)
<1>1. Head(b).op = "while" /\ Head(b).on = S /\ Head(b).body = x
  BY ExecuteParts
<1>. QED  BY <1>1 DEF Turn, Waits

LEMMA SetTurn ==
  ASSUME NEW b, NEW ts, NEW ts2, NEW free, NEW free2, NEW b2, NEW fields,
         Turn(b, ts, free, b2, ts2, free2, fields), NEW F, Head(b) = set(F)
  PROVE  ts2 = ts /\ free2 = free /\ fields = F /\ b2 = Tail(b)
<1>1. Head(b).op = "set" /\ Head(b).fields = F
  BY ExecuteParts
<1>. QED  BY <1>1 DEF Turn, Waits

LEMMA GotTurn ==
  ASSUME NEW b, NEW ts, NEW ts2, NEW free, NEW free2, NEW b2, NEW fields,
         Turn(b, ts, free, b2, ts2, free2, fields), Head(b) = got({semi})
  PROVE  /\ fields = {} /\ b2 = Tail(b)
         /\ \/ Passes(ts, free, ts2, free2) /\ ts[Len(ts)] = semi
            \/ ts2 = ts /\ free2 = free
<1>1. Head(b).op = "got" /\ Head(b).on = {semi}
  BY ExecuteParts
<1>. QED  BY <1>1 DEF Turn, Waits

LEMMA CollectedTurn ==
  ASSUME NEW b, NEW ts, NEW ts2, NEW free, NEW free2, NEW b2, NEW fields,
         Turn(b, ts, free, b2, ts2, free2, fields), NEW o, NEW o2,
         Levelled(b, ts, free, o, b2, ts2, free2, o2), NEW S, Head(b) = collect(S)
  PROVE  /\ fields = {}
         /\ \/ /\ ts[Len(ts)] = EOF \/ o = 0
               /\ o2 = 0 /\ b2 = Tail(b) /\ ts2 = ts /\ free2 = free
            \/ /\ o # 0 \/ ts[Len(ts)] \notin S
               /\ b2 = b /\ Passes(ts, free, ts2, free2)
               /\ o2 = After(ts[Len(ts)], o)
<1>1. /\ Head(b).op = "collect" /\ Head(b).on = S
      /\ Head(b).open = "(" /\ Head(b).close = ")"
  BY ExecuteParts
<1>2. fields = {}
  BY <1>1 DEF Turn
<1>. QED  BY <1>1, <1>2 DEF Levelled, Waits

(* What is said of the target stays said, or becomes known, as the code of  *)
(* the statement is taken apart.                                           *)
LEMMA SaidTurn ==
  ASSUME NEW ts \in Seq(Token), NEW ts2 \in Seq(Token), NEW free \in BOOLEAN,
         NEW free2 \in BOOLEAN, NEW b, NEW b2, NEW d, NEW d2, NEW f, NEW fs,
         NEW fields, Placed(ts, d, f), TargetSaid(ts, f, Len(ts), fs),
         SaidForm(ts[Len(ts)], free, b, fs),
         Turn(b, ts, free, b2, ts2, free2, fields),
         Levelled(b, ts, free, d, b2, ts2, free2, d2),
         d = 0 \/ Head(b).op \in {"collect", "discard"}
  PROVE  fields = {} /\ ExecuteAt(ts2, free2, d2, b2, f, fs)
<1>. SUFFICES /\ fields = {} /\ Placed(ts2, d2, f)
              /\ \/ /\ TargetSaid(ts2, f, Len(ts2), fs)
                    /\ SaidForm(ts2[Len(ts2)], free2, b2, fs)
                 \/ /\ TargetSeen(ts2, f, fs) /\ free2
                    /\ SeenForm(ts2[Len(ts2)], b2, fs)
  BY DEF ExecuteAt
<1>. DEFINE t == ts[Len(ts)]
            Q == queryText
            C == clauseLoop
            G == got({semi})
            E == executed
            Says == TargetSaid(ts2, f, Len(ts2), fs)
            Goes == /\ fields = {} /\ Placed(ts2, d2, f) /\ Says
                    /\ SaidForm(ts2[Len(ts2)], free2, b2, fs)
<1>0. /\ \A i : Head(<<i>>) = i
      /\ \A i, j : Head(<<i, j>>) = i /\ Tail(<<i, j>>) = <<j>>
      /\ \A i, j, k : Head(<<i, j, k>>) = i /\ Tail(<<i, j, k>>) = <<j, k>>
      /\ \A i, j, k, l : /\ Head(<<i, j, k, l>>) = i
                         /\ Tail(<<i, j, k, l>>) = <<j, k, l>>
      /\ \A i, j, k, l, m : /\ Head(<<i, j, k, l, m>>) = i
                            /\ Tail(<<i, j, k, l, m>>) = <<j, k, l, m>>
      /\ \A i, j, k, l, m, o : /\ Head(<<i, j, k, l, m, o>>) = i
                               /\ Tail(<<i, j, k, l, m, o>>) = <<j, k, l, m, o>>
      /\ \A i, j, k, l, m, o, p :
           /\ Head(<<i, j, k, l, m, o, p>>) = i
           /\ Tail(<<i, j, k, l, m, o, p>>) = <<j, k, l, m, o, p>>
  OBVIOUS
<1>1. Head(b).op \notin {"collect", "discard"} => d = 0 /\ d2 = 0
  BY DEF Levelled
<1>2. ASSUME ts2 = ts, d2 = 0, t = EOF \/ d = 0
      PROVE  Placed(ts2, d2, f) /\ Says /\ ts2[Len(ts2)] = t
  BY <1>2 DEF Placed
<1>3. ASSUME Passes(ts, free, ts2, free2), d = 0, d2 = 0,
             t \in {"EXECUTE", "USING", "STRICT", semi, comma}
      PROVE  Placed(ts2, d2, f) /\ Says /\ free2
  <2>1. d2 = After(t, d) /\ After(t, d) = d /\ t # "INTO"
    BY <1>3, Words
  <2>. QED  BY <1>3, <2>1, Past
<1>4. ASSUME NEW S, Head(b) = collect(S)
      PROVE  /\ fields = {}
             /\ \/ b2 = Tail(b) /\ free2 = free /\ Placed(ts2, d2, f) /\ Says
                \/ /\ b2 = b /\ free2
                   /\ free /\ ("INTO" \in S \/ "into" \in fs)
                      => Placed(ts2, d2, f) /\ Says
  <2>1. /\ fields = {}
        /\ \/ /\ t = EOF \/ d = 0
              /\ d2 = 0 /\ b2 = Tail(b) /\ ts2 = ts /\ free2 = free
           \/ /\ d # 0 \/ t \notin S
              /\ b2 = b /\ Passes(ts, free, ts2, free2)
              /\ d2 = After(t, d)
    BY <1>4, CollectedTurn
  <2>2. CASE Passes(ts, free, ts2, free2) /\ d2 = After(t, d) /\ b2 = b
             /\ (d # 0 \/ t \notin S)
    <3>1. free2
      BY <2>2 DEF Passes
    <3>2. ASSUME "INTO" \in S \/ "into" \in fs, free
          PROVE  Placed(ts2, d2, f) /\ Says
      <4>1. /\ t # "INTO" \/ d # 0 \/ "into" \in fs
            /\ t # EOF => d2 = After(t, d)
            /\ free \/ After(t, d) = d
        BY <2>2, <3>2
      <4>. QED  BY <2>2, <4>1, Past
    <3>. QED  BY <2>1, <2>2, <3>1, <3>2
  <2>. QED  BY <1>2, <2>1, <2>2
<1>. HIDE DEF Says
<1>5. CASE b = <<want("EXECUTE"), Q, C, G, E>>
  <2>1. Head(b) = want("EXECUTE") /\ Tail(b) = <<Q, C, G, E>>
    BY <1>0, <1>5
  <2>2. Head(b).op = "want" /\ Head(b).on = {"EXECUTE"}
    BY <2>1, ExecuteParts
  <2>3. Passes(ts, free, ts2, free2) /\ b2 = Tail(b) /\ fields = {}
        /\ t \in {"EXECUTE"}
    BY <2>2, MoveTurn
  <2>4. Placed(ts2, d2, f) /\ Says /\ free2
    BY <1>1, <1>3, <2>2, <2>3
  <2>5. Goes
    BY <2>1, <2>3, <2>4 DEF SaidForm
  <2>. QED  BY <2>5 DEF Says
<1>6. CASE free /\ b = <<Q, C, G, E>>
  <2>1. Head(b) = collect({"INTO", "USING", semi}) /\ Tail(b) = <<C, G, E>>
    BY <1>0, <1>6 DEF queryText
  <2>2. Goes
    BY <1>4, <1>6, <2>1 DEF SaidForm
  <2>. QED  BY <2>2 DEF Says
<1>7. CASE free /\ b = <<C, G, E>>
  <2>1. Head(b) = While({"INTO", "USING"}, <<clauseTest>>) /\ Tail(b) = <<G, E>>
    BY <1>0, <1>7 DEF clauseLoop
  <2>2. Head(b).op = "while"
    BY <2>1, ExecuteParts
  <2>3. /\ ts2 = ts /\ free2 = free /\ fields = {}
        /\ t \in {"INTO", "USING"} => b2 = <<clauseTest>> \o b
        /\ t \notin {"INTO", "USING"} => b2 = Tail(b)
    <3>. DEFINE S == {"INTO", "USING"}
                x == <<clauseTest>>
    <3>1. Head(b) = While(S, x)
      BY <2>1
    <3>. HIDE DEF S, x
    <3>2. /\ ts2 = ts /\ free2 = free /\ fields = {}
          /\ t \in S => b2 = x \o b
          /\ t \notin S => b2 = Tail(b)
      BY <3>1, WhileTurn
    <3>. QED  BY <3>2 DEF S, x
  <2>4. <<clauseTest>> \o b = <<clauseTest, C, G, E>>
    BY <1>7, Tuples
  <2>5. Placed(ts2, d2, f) /\ Says /\ ts2[Len(ts2)] = t
    BY <1>1, <1>2, <2>2, <2>3
  <2>6. Goes
    BY <1>7, <2>1, <2>3, <2>4, <2>5 DEF SaidForm
  <2>. QED  BY <2>6 DEF Says
<1>8. CASE free /\ t \in {"INTO", "USING"} /\ b = <<clauseTest, C, G, E>>
  <2>. DEFINE x == <<next, set({"into"}), strictTest, targetText>>
              y == <<next, valueText, valueLoop>>
  <2>1. Head(b) = If({"INTO"}, x, y) /\ Tail(b) = <<C, G, E>>
    BY <1>0, <1>8 DEF clauseTest
  <2>2. Head(b).op = "if"
    BY <2>1, IfParts
  <2>3. /\ ts2 = ts /\ free2 = free /\ fields = {}
        /\ t = "INTO" => b2 = x \o Tail(b)
        /\ t # "INTO" => b2 = y \o Tail(b)
    <3>. HIDE DEF x, y
    <3>1. /\ ts2 = ts /\ free2 = free /\ fields = {}
          /\ t \in {"INTO"} => b2 = x \o Tail(b)
          /\ t \notin {"INTO"} => b2 = y \o Tail(b)
      BY <2>1, TestTurn
    <3>. QED  BY <3>1
  <2>4. /\ x \o Tail(b) = <<next, set({"into"}), strictTest, targetText, C, G, E>>
        /\ y \o Tail(b) = <<next, valueText, valueLoop, C, G, E>>
    <3>. DEFINE w == set({"into"})
    <3>1. x = <<next, w, strictTest, targetText>>
      OBVIOUS
    <3>. HIDE DEF w, C, G, E
    <3>2. /\ <<next, w, strictTest, targetText>> \o <<C, G, E>>
               = <<next, w, strictTest, targetText, C, G, E>>
          /\ <<next, valueText, valueLoop>> \o <<C, G, E>>
               = <<next, valueText, valueLoop, C, G, E>>
      BY LongTuples
    <3>. HIDE DEF x, y
    <3>. QED  BY <2>1, <3>1, <3>2, Zenon DEF w, y
  <2>5. Placed(ts2, d2, f) /\ Says /\ ts2[Len(ts2)] = t
    BY <1>1, <1>2, <2>2, <2>3
  <2>. HIDE DEF x, y
  <2>6. Goes
    BY <1>8, <2>3, <2>4, <2>5 DEF SaidForm
  <2>. QED  BY <2>6 DEF Says
<1>9. CASE /\ free /\ t = "INTO"
           /\ b = <<next, set({"into"}), strictTest, targetText, C, G, E>>
  <2>1. /\ Head(b) = next
        /\ Tail(b) = <<set({"into"}), strictTest, targetText, C, G, E>>
    <3>. DEFINE w == set({"into"})
    <3>1. b = <<next, w, strictTest, targetText, C, G, E>>
      BY <1>9
    <3>. HIDE DEF w
    <3>2. Head(b) = next /\ Tail(b) = <<w, strictTest, targetText, C, G, E>>
      BY <1>0, <3>1
    <3>. QED  BY <3>2 DEF w
  <2>2. Head(b).op = "next"
    BY <2>1, ExecuteParts
  <2>3. Passes(ts, free, ts2, free2) /\ b2 = Tail(b) /\ fields = {}
    BY <2>2, MoveTurn
  <2>4. Placed(ts2, d2, f) /\ TargetSeen(ts2, f, fs) /\ free2
    <3>1. d = 0 /\ d2 = 0
      BY <1>1, <2>2
    <3>2. Placed(ts, 0, f) /\ Passes(ts, TRUE, ts2, free2)
      BY <1>9, <2>3, <3>1
    <3>. QED  BY <1>9, <3>1, <3>2, PastInto
  <2>. QED  BY <2>1, <2>3, <2>4 DEF SeenForm
<1>10. CASE /\ free /\ t = "STRICT" /\ "into" \in fs
            /\ b = <<next, targetText, C, G, E>>
  <2>1. Head(b) = next /\ Tail(b) = <<targetText, C, G, E>>
    BY <1>0, <1>10
  <2>2. Head(b).op = "next"
    BY <2>1, ExecuteParts
  <2>3. Passes(ts, free, ts2, free2) /\ b2 = Tail(b) /\ fields = {}
    BY <2>2, MoveTurn
  <2>4. Placed(ts2, d2, f) /\ Says /\ free2
    BY <1>1, <1>3, <1>10, <2>2, <2>3
  <2>5. Goes
    BY <1>10, <2>1, <2>3, <2>4 DEF SaidForm
  <2>. QED  BY <2>5 DEF Says
<1>11. CASE free /\ "into" \in fs /\ b = <<targetText, C, G, E>>
  <2>1. Head(b) = collect({"USING", semi}) /\ Tail(b) = <<C, G, E>>
    BY <1>0, <1>11 DEF targetText
  <2>2. Goes
    BY <1>4, <1>11, <2>1 DEF SaidForm
  <2>. QED  BY <2>2 DEF Says
<1>12. CASE /\ free /\ t \in {"USING", comma}
            /\ b = <<next, valueText, valueLoop, C, G, E>>
  <2>1. Head(b) = next /\ Tail(b) = <<valueText, valueLoop, C, G, E>>
    BY <1>0, <1>12
  <2>2. Head(b).op = "next"
    BY <2>1, ExecuteParts
  <2>3. Passes(ts, free, ts2, free2) /\ b2 = Tail(b) /\ fields = {}
    BY <2>2, MoveTurn
  <2>4. Placed(ts2, d2, f) /\ Says /\ free2
    BY <1>1, <1>3, <1>12, <2>2, <2>3
  <2>5. Goes
    BY <2>1, <2>3, <2>4 DEF SaidForm
  <2>. QED  BY <2>5 DEF Says
<1>13. CASE free /\ b = <<valueText, valueLoop, C, G, E>>
  <2>0. Head(b) = valueText /\ Tail(b) = <<valueLoop, C, G, E>>
    BY <1>0, <1>13
  <2>1. Head(b) = collect({comma} \cup {semi, "INTO"})
    BY <2>0 DEF valueText
  <2>2. Goes
    BY <1>4, <1>13, <2>0, <2>1 DEF SaidForm
  <2>. QED  BY <2>2 DEF Says
<1>14. CASE free /\ b = <<valueLoop, C, G, E>>
  <2>. DEFINE x == <<next, valueText>>
  <2>1. Head(b) = While({comma}, x) /\ Tail(b) = <<C, G, E>>
    BY <1>0, <1>14 DEF valueLoop
  <2>2. Head(b).op = "while"
    BY <2>1, ExecuteParts
  <2>3. /\ ts2 = ts /\ free2 = free /\ fields = {}
        /\ t \in {comma} => b2 = x \o b
        /\ t \notin {comma} => b2 = Tail(b)
    <3>. HIDE DEF x
    <3>. QED  BY <2>1, WhileTurn
  <2>4. x \o b = <<next, valueText, valueLoop, C, G, E>>
    BY <1>14, Tuples
  <2>5. Placed(ts2, d2, f) /\ Says /\ ts2[Len(ts2)] = t
    BY <1>1, <1>2, <2>2, <2>3
  <2>. HIDE DEF x
  <2>6. Goes
    BY <1>14, <2>1, <2>3, <2>4, <2>5 DEF SaidForm
  <2>. QED  BY <2>6 DEF Says
<1>15. CASE free /\ b = <<G, E>>
  <2>1. Head(b) = G /\ Tail(b) = <<E>>
    BY <1>0, <1>15
  <2>2. Head(b).op = "got"
    BY <2>1, ExecuteParts
  <2>3. /\ fields = {} /\ b2 = Tail(b)
        /\ \/ Passes(ts, free, ts2, free2) /\ t = semi
           \/ ts2 = ts /\ free2 = free
    BY <2>1, GotTurn
  <2>4. Placed(ts2, d2, f) /\ Says /\ free2
    BY <1>1, <1>2, <1>3, <1>15, <2>2, <2>3
  <2>5. Goes
    BY <2>1, <2>3, <2>4 DEF SaidForm
  <2>. QED  BY <2>5 DEF Says
<1>16. CASE free /\ b = <<E>>
  <2>1. Head(b).op = "node"
    BY <1>0, <1>16, ExecuteParts
  <2>. QED  BY <2>1, NoTurn
<1>. QED  BY <1>5, <1>6, <1>7, <1>8, <1>9, <1>10, <1>11, <1>12, <1>13, <1>14,
             <1>15, <1>16 DEF SaidForm

LEMMA SeenTurn ==
  ASSUME NEW ts \in Seq(Token), NEW ts2, NEW free \in BOOLEAN,
         NEW free2 \in BOOLEAN, NEW b, NEW b2, NEW d, NEW d2, NEW f, NEW fs,
         NEW fields, Placed(ts, d, f), TargetSeen(ts, f, fs),
         SeenForm(ts[Len(ts)], b, fs),
         Turn(b, ts, free, b2, ts2, free2, fields),
         Levelled(b, ts, free, d, b2, ts2, free2, d2),
         d = 0 \/ Head(b).op \in {"collect", "discard"}
  PROVE  free => ExecuteAt(ts2, free2, d2, b2, f, fs \cup fields)
<1>. DEFINE t == ts[Len(ts)]
            C == clauseLoop
            G == got({semi})
            E == executed
            wi == set({"into"})
            wst == set({"strict"})
<1>0. /\ \A i, j, k, l, m : /\ Head(<<i, j, k, l, m>>) = i
                            /\ Tail(<<i, j, k, l, m>>) = <<j, k, l, m>>
      /\ \A i, j, k, l, m, o : /\ Head(<<i, j, k, l, m, o>>) = i
                               /\ Tail(<<i, j, k, l, m, o>>) = <<j, k, l, m, o>>
  OBVIOUS
<1>1. Head(b).op \notin {"collect", "discard"} => d = 0 /\ d2 = 0
  BY DEF Levelled
<1>2. ASSUME ts2 = ts, d2 = 0, d = 0
      PROVE  Placed(ts2, d2, f)
  BY <1>2 DEF Placed
<1>3. f \in Nat /\ Len(ts) \in Nat
  BY DEF Placed
<1>4. wi.op = "set" /\ wst.op = "set" /\ strictTest.op = "if"
  BY ExecuteParts, IfParts DEF strictTest, When
<1>. HIDE DEF C, G, E, wi, wst
<1>5. CASE b = <<wi, strictTest, targetText, C, G, E>>
  <2>1. Head(b) = wi /\ Tail(b) = <<strictTest, targetText, C, G, E>>
    BY <1>0, <1>5
  <2>2. ts2 = ts /\ free2 = free /\ fields = {"into"} /\ b2 = Tail(b)
    BY <2>1, SetTurn DEF wi
  <2>3. Placed(ts2, d2, f)
    BY <1>1, <1>2, <1>4, <2>1, <2>2
  <2>4. TargetSeen(ts, f, fs \cup {"into"})
    BY DEF TargetSeen
  <2>5. SeenForm(t, b2, fs \cup {"into"})
    BY <2>1, <2>2 DEF SeenForm, C, G, E
  <2>. QED  BY <2>2, <2>3, <2>4, <2>5 DEF ExecuteAt
<1>6. CASE "into" \in fs /\ b = <<strictTest, targetText, C, G, E>>
  <2>1. Head(b) = strictTest /\ Tail(b) = <<targetText, C, G, E>>
    BY <1>0, <1>6
  <2>2. /\ ts2 = ts /\ free2 = free /\ fields = {}
        /\ t = "STRICT" => b2 = strictRest \o Tail(b)
        /\ t # "STRICT" => b2 = <<>> \o Tail(b)
    <3>. DEFINE S == {"STRICT"}
                y == <<>>
    <3>1. Head(b) = If(S, strictRest, y)
      BY <2>1 DEF strictTest, When
    <3>. HIDE DEF S, y
    <3>2. /\ ts2 = ts /\ free2 = free /\ fields = {}
          /\ t \in S => b2 = strictRest \o Tail(b)
          /\ t \notin S => b2 = y \o Tail(b)
      BY <3>1, TestTurn
    <3>. QED  BY <3>2 DEF S, y
  <2>3. Placed(ts2, d2, f)
    BY <1>1, <1>2, <1>4, <2>1, <2>2
  <2>4. CASE t = "STRICT"
    <3>1. b2 = <<wst, next, targetText, C, G, E>>
      <4>1. <<wst, next>> \o <<targetText, C, G, E>>
              = <<wst, next, targetText, C, G, E>>
        BY Tuples
      <4>2. strictRest = <<wst, next>>
        BY DEF strictRest, wst
      <4>. QED  BY <2>1, <2>2, <2>4, <4>1, <4>2, Zenon
    <3>2. SeenForm(t, b2, fs)
      BY <1>6, <2>4, <3>1 DEF SeenForm, C, G, E, wst
    <3>. QED  BY <2>2, <2>3, <3>2 DEF ExecuteAt
  <2>5. CASE t # "STRICT"
    <3>1. b2 = <<targetText, C, G, E>>
      <4>. DEFINE r == <<targetText, C, G, E>>
      <4>1. r \in Seq({targetText, C, G, E})
        OBVIOUS
      <4>. HIDE DEF r
      <4>2. <<>> \o r = r
        BY <4>1
      <4>. QED  BY <2>1, <2>2, <2>5, <4>2, Zenon DEF r
    <3>2. TargetSaid(ts, f, Len(ts), fs)
      BY <1>3, <1>6, <2>5, IntoSaid
    <3>3. free => SaidForm(t, free2, b2, fs)
      BY <1>6, <2>2, <3>1 DEF SaidForm, C, G, E
    <3>. QED  BY <2>2, <2>3, <3>2, <3>3 DEF ExecuteAt
  <2>. QED  BY <2>4, <2>5
<1>7. CASE /\ "into" \in fs /\ t = "STRICT"
           /\ b = <<wst, next, targetText, C, G, E>>
  <2>1. Head(b) = wst /\ Tail(b) = <<next, targetText, C, G, E>>
    BY <1>0, <1>7
  <2>2. ts2 = ts /\ free2 = free /\ fields = {"strict"} /\ b2 = Tail(b)
    BY <2>1, SetTurn DEF wst
  <2>3. Placed(ts2, d2, f)
    BY <1>1, <1>2, <1>4, <2>1, <2>2
  <2>. DEFINE fs2 == fs \cup {"strict"}
  <2>4. TargetSaid(ts, f, Len(ts), fs2)
    <3>1. fs \subseteq fs2 /\ "strict" \in fs2
      OBVIOUS
    <3>. HIDE DEF fs2
    <3>. QED  BY <1>3, <1>7, <3>1, IntoSaid
  <2>5. free => SaidForm(t, free2, b2, fs2)
    BY <1>7, <2>1, <2>2 DEF SaidForm, C, G, E
  <2>. QED  BY <2>2, <2>3, <2>4, <2>5 DEF ExecuteAt
<1>. QED  BY <1>5, <1>6, <1>7 DEF SeenForm, C, G, E, wi, wst

LEMMA ExecuteTurn ==
  ASSUME NEW ts \in Seq(Token), NEW ts2 \in Seq(Token), NEW free \in BOOLEAN,
         NEW free2 \in BOOLEAN, NEW b, NEW b2, NEW d, NEW d2, NEW f, NEW fs,
         NEW fields, ExecuteAt(ts, free, d, b, f, fs),
         Turn(b, ts, free, b2, ts2, free2, fields),
         Levelled(b, ts, free, d, b2, ts2, free2, d2),
         d = 0 \/ Head(b).op \in {"collect", "discard"}
  PROVE  ExecuteAt(ts2, free2, d2, b2, f, fs \cup fields)
<1>. DEFINE t == ts[Len(ts)]
<1>0. Placed(ts, d, f)
  BY DEF ExecuteAt
<1>1. \/ TargetSaid(ts, f, Len(ts), fs) /\ SaidForm(t, free, b, fs)
      \/ TargetSeen(ts, f, fs) /\ free /\ SeenForm(t, b, fs)
  BY DEF ExecuteAt
<1>2. CASE TargetSaid(ts, f, Len(ts), fs) /\ SaidForm(t, free, b, fs)
  <2>1. fields = {} /\ ExecuteAt(ts2, free2, d2, b2, f, fs)
    BY <1>0, <1>2, SaidTurn
  <2>2. fs \cup fields = fs
    BY <2>1
  <2>. QED  BY <2>1, <2>2
<1>3. CASE TargetSeen(ts, f, fs) /\ free /\ SeenForm(t, b, fs)
  <2>1. TargetSeen(ts, f, fs) /\ SeenForm(t, b, fs)
    BY <1>3
  <2>2. free => ExecuteAt(ts2, free2, d2, b2, f, fs \cup fields)
    BY <1>0, <2>1, SeenTurn
  <2>. QED  BY <1>3, <2>2
<1>. QED  BY <1>1, <1>2, <1>3

(* It calls nothing, and the node it returns has been followed to the end.  *)
LEMMA ExecuteHead ==
  ASSUME NEW ts, NEW free, NEW d, NEW b, NEW f, NEW fs,
         ExecuteAt(ts, free, d, b, f, fs)
  PROVE  /\ b # <<>> /\ Head(b).op \notin {"call", "parseProcStmt"}
         /\ Head(b).op = "node" =>
              /\ Head(b) = executed /\ f \in 1 .. Len(ts)
              /\ TargetSaid(ts, f, Len(ts), fs)
<1>. DEFINE t == ts[Len(ts)]
            C == clauseLoop
            G == got({semi})
            E == executed
            w == want("EXECUTE")
            wi == set({"into"})
            wst == set({"strict"})
            Ops == {"want", "collect", "while", "if", "next", "got", "set"}
<1>1. /\ w.op = "want" /\ queryText.op = "collect" /\ C.op = "while"
      /\ targetText.op = "collect" /\ valueText.op = "collect"
      /\ valueLoop.op = "while" /\ clauseTest.op = "if" /\ strictTest.op = "if"
      /\ G.op = "got" /\ E.op = "node" /\ wi.op = "set" /\ wst.op = "set"
      /\ next.op = "next"
  BY ExecuteParts, IfParts DEF queryText, clauseLoop, targetText, valueText,
     valueLoop, clauseTest, strictTest, When
<1>2. f \in 1 .. Len(ts)
  BY DEF ExecuteAt, Placed
<1>. HIDE DEF C, G, E, w, wi, wst
<1>3. ASSUME SaidForm(t, free, b, fs)
      PROVE  b # <<>> /\ (Head(b).op \in Ops \/ b = <<E>>)
  BY <1>1, <1>3 DEF SaidForm, C, G, E, w, wi
<1>4. ASSUME SeenForm(t, b, fs)
      PROVE  b # <<>> /\ Head(b).op \in Ops
  BY <1>1, <1>4 DEF SeenForm, C, G, E, wi, wst
<1>5. Head(<<E>>) = E /\ <<E>> # <<>>
  OBVIOUS
<1>. QED  BY <1>1, <1>2, <1>3, <1>4, <1>5 DEF ExecuteAt, E

----------------------------------------------------------------------------
(* The steps, as long as the text has no error.                            *)

Counted(b2) ==
  Levelled(Body, toks, ~pushed, depth, b2, toks', ~pushed', depth')

LEMMA SteadyCounts ==
  ASSUME Ins.op \notin {"got", "collect", "discard"}, depth' = depth, NEW b2
  PROVE  Counted(b2)
  BY DEF Counted, Levelled, Ins

LEMMA GotCounts ==
  ASSUME Inv, Got, NEW b2
  PROVE  Counted(b2)
<1>1. /\ Ins.op = "got" /\ depth' = depth
      /\ tok \in Ins.on => MoveOn("syntax")
  BY DEF Got, At
<1>2. tok \in Ins.on => Passes(toks, ~pushed, toks', ~pushed')
  BY <1>1, MovePasses DEF Uses
<1>. QED  BY <1>1, <1>2 DEF Counted, Levelled, Ins, tok, cur

LEMMA CollectCounts ==
  ASSUME Inv, StacksAgree, Collect
  PROVE  \E b2 : Turned(b2, {}) /\ Counted(b2)
<1>. DEFINE use == IF Ins.op = "collect" THEN "text" ELSE "lost"
            ends == tok = EOF \/ (depth = 0 /\ tok \in Ins.on)
            o2 == CASE tok = Ins.open               -> depth + 1
                    [] tok = Ins.close /\ depth > 0 -> depth - 1
                    [] OTHER                        -> depth
            waits == Waits(toks, ~pushed, toks', ~pushed')
            past == Passes(toks, ~pushed, toks', ~pushed')
<1>1. Running /\ Body # <<>> /\ Ins.op \in {"collect", "discard"}
  BY DEF Collect, At
<1>2. \/ ends /\ Done /\ Stay /\ depth' = 0
      \/ ~ends /\ MoveOn(use) /\ depth' = o2 /\ UNCHANGED <<pc, code, acts, nodes>>
  BY Zenon DEF Collect
<1>3. Ins.open = "(" /\ Ins.close = ")" => o2 = After(tok, depth)
  <2>1. SUFFICES ASSUME Ins.open = "(", Ins.close = ")"
                 PROVE  o2 = After(tok, depth)
    OBVIOUS
  <2>2. o2 = CASE tok = "("              -> depth + 1
               [] tok = ")" /\ depth > 0 -> depth - 1
               [] OTHER                  -> depth
    BY <2>1, Zenon
  <2>. QED  BY <2>2, Zenon DEF After
<1>. HIDE DEF o2, use
<1>4. CASE ends /\ Done /\ Stay /\ depth' = 0
  <2>1. waits /\ GoOnWith(Tail(Body))
    BY <1>4, StayWaits DEF Done
  <2>2. Turn(Body, toks, ~pushed, Tail(Body), toks', ~pushed', {})
    BY <1>1, <2>1 DEF Turn, Ins
  <2>3. Turned(Tail(Body), {})
    BY <1>1, <2>1, <2>2, GoOnTurns
  <2>. HIDE DEF waits
  <2>4. Counted(Tail(Body))
    BY <1>1, <1>4, <2>1 DEF Counted, Levelled, Ins, tok, cur, waits
  <2>. QED  BY <2>3, <2>4
<1>5. CASE ~ends /\ MoveOn(use) /\ depth' = o2 /\ UNCHANGED <<pc, code, acts, nodes>>
  <2>1. use \in Uses
    BY DEF Uses, use
  <2>2. past
    BY <1>5, <2>1, MovePasses
  <2>3. Turn(Body, toks, ~pushed, Body, toks', ~pushed', {})
    BY <1>1, <2>2 DEF Turn, Ins
  <2>4. Body = code[Len(acts)]
    BY <1>1, RunningCode
  <2>5. Turned(Body, {})
    BY <1>1, <1>5, <2>3, <2>4 DEF Turned
  <2>. HIDE DEF past
  <2>6. Counted(Body)
    BY <1>1, <1>3, <1>5, <2>2 DEF Counted, Levelled, Ins, tok, cur, past
  <2>. QED  BY <2>5, <2>6
<1>. QED  BY <1>2, <1>4, <1>5

LEMMA DepthStaysInUse ==
  ASSUME DepthInUse, [Next]_vars
  PROVE  DepthInUse'
<1>1. CASE Collect
  <2>1. \/ depth' = 0
        \/ /\ UNCHANGED <<pc, code, acts>>
           /\ Running /\ Body # <<>> /\ Ins.op \in {"collect", "discard"}
    BY <1>1, Zenon DEF Collect, At
  <2>. QED  BY <2>1 DEF DepthInUse, Running, Body, Ins
<1>2. ASSUME NEW ops, At(ops), "collect" \notin ops, "discard" \notin ops,
             depth' = depth
      PROVE  DepthInUse'
  BY <1>2 DEF DepthInUse, At
<1>3. CASE Want \/ Got \/ TakeToken \/ AnyIdentifier \/ PutBack \/ Complain
  BY <1>2, <1>3 DEF Want, Got, TakeToken, AnyIdentifier, PutBack, Complain
<1>4. CASE Branch \/ CallFunction \/ ParseProcStmt \/ SetFields \/ ReturnNode
  BY <1>2, <1>4 DEF Branch, CallFunction, ParseProcStmt, SetFields, ReturnNode,
     Call, Leave
<1>5. CASE Return \/ OptionalSemicolon \/ ExpectEndOfInput
  BY <1>5 DEF Return, Leave, OptionalSemicolon, ExpectEndOfInput, DepthInUse,
     Running
<1>6. CASE UNCHANGED vars
  BY <1>6 DEF vars, DepthInUse, Running, Body, Ins
<1>. QED  BY <1>1, <1>3, <1>4, <1>5, <1>6 DEF Next, Parse, Returned

(* What is said of a statement stays said as the text goes on.              *)
LEMMA ExecuteNodeTypes ==
  ASSUME Inv
  PROVE  \A n \in NodesOf({"DynExecute"}) : n.from \in Nat /\ n.to \in Nat
<1>1. nodes \in Seq(Nodes)
  BY DEF Inv, TypeOK, Nodes
<1>2. \A n \in NodesOf({"DynExecute"}) : n \in Nodes
  BY <1>1 DEF NodesOf
<1>. QED  BY <1>2 DEF Nodes

LEMMA RightStays ==
  ASSUME Inv, toks' \in Seq(Token), Extends(toks, toks'), NEW n,
         n.from \in Nat, n.to \in Nat, TargetRight(n)
  PROVE  TargetRight(n)'
<1>1. toks \in Seq(Token) /\ cur = Len(toks) /\ cur' = Len(toks')
  BY HistoryTypes DEF cur
<1>2. Len(toks) \in Nat /\ Len(toks') \in Nat /\ Len(toks) <= Len(toks')
  BY <1>1 DEF Extends
<1>3. /\ n.from \in 1 .. n.to /\ n.to <= Len(toks)
      /\ TargetSaid(toks, n.from, n.to, n.fields)
  BY <1>1 DEF TargetRight
<1>. DEFINE f == n.from
            m == n.to
            fs == n.fields
            t2 == toks'
<1>4. /\ f \in Nat /\ f > 0 /\ m \in Nat /\ m <= Len(toks)
      /\ TargetSaid(toks, f, m, fs) /\ t2 \in Seq(Token) /\ Extends(toks, t2)
  BY <1>3
<1>. HIDE DEF f, m, fs, t2
<1>5. TargetSaid(t2, f, m, fs)
  BY <1>1, <1>4, SaidStays
<1>6. TargetSaid(toks', n.from, n.to, n.fields)
  BY <1>5 DEF f, m, fs, t2
<1>7. n.from \in 1 .. n.to /\ n.to <= cur'
  BY <1>1, <1>2, <1>3
<1>. QED  BY <1>6, <1>7 DEF TargetRight

LEMMA AllStaySaid ==
  ASSUME Inv, toks' \in Seq(Token), Extends(toks, toks'), nodes' = nodes, AllSaid
  PROVE  AllSaid'
<1>1. \A n \in NodesOf({"DynExecute"}) : TargetRight(n)'
  BY ExecuteNodeTypes, RightStays DEF AllSaid
<1>2. NodesOf({"DynExecute"})' = NodesOf({"DynExecute"})
  BY DEF NodesOf
<1>. QED  BY <1>1, <1>2 DEF AllSaid

LEMMA TurnKeepsSaid ==
  ASSUME Inv, Inv', StacksAgree, DepthInUse, StackFollowed, AllSaid, NEW b2,
         NEW fields, Turned(b2, fields), Counted(b2)
  PROVE  StackFollowed' /\ AllSaid'
<1>. DEFINE n == Len(acts)
<1>1. /\ Running /\ Body # <<>>
      /\ Turn(Body, toks, ~pushed, b2, toks', ~pushed', fields)
      /\ nodes' = nodes /\ Len(acts') = n /\ acts'[n].at = acts[n].at
      /\ acts'[n].fields = acts[n].fields \cup fields
      /\ code'[n] = b2 /\ \A k \in 1 .. n - 1 : code'[k] = code[k]
  BY DEF Turned
<1>2. /\ n \in 1 .. n /\ n \in Nat /\ Body = code[n]
      /\ (~pushed) \in BOOLEAN /\ (~pushed') \in BOOLEAN
  BY <1>1, RunningCode
<1>3. toks \in Seq(Token) /\ toks' \in Seq(Token)
  BY HistoryTypes DEF Inv, TypeOK, StreamType
<1>4. AllSaid'
  BY <1>1, <1>3, TurnedExtends, AllStaySaid
<1>5. CASE Elsewhere(n)
  <2>1. Body \in Seq(Other(NotExecute))
    BY <1>2, <1>5 DEF Elsewhere
  <2>2. b2 \in Seq(Other(NotExecute))
    BY <1>1, <2>1, OtherTurn, NotExecuteHolds
  <2>3. \A k \in 1 .. n - 1 : code'[k] \in Seq(Other(NotExecute))
    BY <1>1, <1>2, <1>5 DEF Elsewhere
  <2>4. \A k \in 1 .. n : code'[k] \in Seq(Other(NotExecute))
    BY <1>1, <1>2, <2>2, <2>3
  <2>. QED  BY <1>1, <1>4, <2>4 DEF StackFollowed, Elsewhere
<1>6. CASE /\ n > 0 /\ Elsewhere(n - 1)
           /\ ExecuteAt(toks, ~pushed, depth, code[n], acts[n].at, acts[n].fields)
  <2>. DEFINE free == ~pushed
              free2 == ~pushed'
              t2 == toks'
              d2 == depth'
              f == acts[n].at
              fs == acts[n].fields
  <2>1. /\ free \in BOOLEAN /\ free2 \in BOOLEAN /\ t2 \in Seq(Token)
        /\ ExecuteAt(toks, free, depth, Body, f, fs)
        /\ Turn(Body, toks, free, b2, t2, free2, fields)
        /\ Levelled(Body, toks, free, depth, b2, t2, free2, d2)
        /\ depth = 0 \/ Head(Body).op \in {"collect", "discard"}
    BY <1>1, <1>2, <1>3, <1>6 DEF Counted, DepthInUse, Ins
  <2>. HIDE DEF free, free2, t2, d2, f, fs
  <2>2. ExecuteAt(t2, free2, d2, b2, f, fs \cup fields)
    BY <1>3, <2>1, ExecuteTurn
  <2>3. ExecuteAt(toks', ~pushed', depth', code'[n], acts'[n].at, acts'[n].fields)
    BY <1>1, <2>2 DEF free2, t2, d2, f, fs
  <2>4. \A k \in 1 .. n - 1 : code'[k] \in Seq(Other(NotExecute))
    BY <1>1, <1>6 DEF Elsewhere
  <2>5. StackFollowed'
    BY <1>1, <1>6, <2>3, <2>4 DEF StackFollowed, Elsewhere
  <2>. QED  BY <1>4, <2>5
<1>. QED  BY <1>5, <1>6 DEF StackFollowed

----------------------------------------------------------------------------
(* Calls and returns.                                                      *)

(* EXECUTE is dispatched to parseStmtDynExecute.                            *)
LEMMA ExecuteIsDispatched ==
  Statement("EXECUTE")
    = <<want("EXECUTE"), queryText, clauseLoop, got({semi}), executed>>
  BY KeywordStatements, ExecuteCode

(* A statement that starts at the current token has no target yet.          *)
LEMMA ExecuteStarts ==
  ASSUME NEW ts \in Seq(Token), ts # <<>>, NEW free
  PROVE  ExecuteAt(ts, free, 0, Statement("EXECUTE"), Len(ts), {})
<1>. DEFINE f == Len(ts)
<1>1. f \in Nat /\ f \in 1 .. f
  OBVIOUS
<1>2. DepthIn(ts, f, f) = 0
  BY <1>1, DepthLaws
<1>3. Intos(ts, f, f) = {}
  BY <1>1 DEF Intos
<1>4. TargetSaid(ts, f, f, {})
  BY <1>3 DEF TargetSaid
<1>5. Placed(ts, 0, f)
  BY <1>1, <1>2 DEF Placed
<1>6. SaidForm(ts[f], free, Statement("EXECUTE"), {})
  BY ExecuteIsDispatched DEF SaidForm
<1>. QED  BY <1>4, <1>5, <1>6 DEF ExecuteAt

LEMMA CallKeepsSaid ==
  ASSUME Inv, StacksAgree, DepthInUse, StackFollowed, AllSaid,
         CallFunction \/ ParseProcStmt
  PROVE  StackFollowed' /\ AllSaid'
<1>. DEFINE n == Len(acts)
            c == IF Ins.op = "call" THEN Ins.body ELSE Statement(tok)
<1>1. /\ Running /\ Body # <<>> /\ Ins.op \in {"call", "parseProcStmt"}
      /\ Call(c)
  BY DEF CallFunction, ParseProcStmt, At
<1>2. /\ n \in 1 .. n /\ n \in Nat /\ Body = code[n] /\ tok \in Token
      /\ toks \in Seq(Token) /\ toks # <<>>
  BY <1>1, RunningCode, HistoryTypes DEF tok, cur
<1>3. /\ Len(acts') = n + 1
      /\ acts'[n + 1].at = cur /\ acts'[n + 1].fields = {}
      /\ code'[n + 1] = c /\ code'[n] = Tail(Body)
      /\ \A k \in 1 .. n - 1 : code'[k] = code[k]
  BY <1>1, CallStacks, CallLocals
<1>4. /\ toks' = toks /\ pushed' = pushed /\ nodes' = nodes
      /\ depth' = depth /\ depth = 0
  BY <1>1 DEF Call, Stay, DepthInUse
<1>5. AllSaid'
  BY <1>4 DEF AllSaid, TargetRight, NodesOf, cur
<1>6. CASE Elsewhere(n)
  <2>1. Body \in Seq(Other(NotExecute))
    BY <1>2, <1>6 DEF Elsewhere
  <2>2. Ins \in Other(NotExecute) /\ Tail(Body) \in Seq(Other(NotExecute))
    BY <1>1, <2>1 DEF Ins
  <2>3. \A k \in 1 .. n - 1 : code'[k] \in Seq(Other(NotExecute))
    BY <1>2, <1>3, <1>6 DEF Elsewhere
  <2>4. \A k \in 1 .. n : code'[k] \in Seq(Other(NotExecute))
    <3>1. \A k \in 1 .. n : k \in 1 .. n - 1 \/ k = n
      BY <1>2
    <3>. QED  BY <1>3, <2>2, <2>3, <3>1
  <2>5. CASE c \in Seq(Other(NotExecute))
    <3>1. \A k \in 1 .. n + 1 : k \in 1 .. n \/ k = n + 1
      BY <1>2
    <3>2. \A k \in 1 .. n + 1 : code'[k] \in Seq(Other(NotExecute))
      BY <1>3, <2>4, <2>5, <3>1
    <3>. QED  BY <1>3, <1>5, <3>2 DEF StackFollowed, Elsewhere
  <2>6. CASE c = Statement("EXECUTE")
    <3>. DEFINE free == ~pushed
    <3>1. free \in BOOLEAN
      OBVIOUS
    <3>. HIDE DEF free
    <3>2. ExecuteAt(toks, free, 0, Statement("EXECUTE"), Len(toks), {})
      BY <1>2, ExecuteStarts
    <3>. USE DEF free
    <3>3. ExecuteAt(toks', ~pushed', depth', code'[n + 1], acts'[n + 1].at,
                    acts'[n + 1].fields)
      BY <1>3, <1>4, <2>6, <3>2 DEF cur
    <3>4. n + 1 > 0 /\ (n + 1) - 1 = n
      BY <1>2
    <3>. QED  BY <1>3, <1>5, <2>4, <3>3, <3>4 DEF StackFollowed, Elsewhere
  <2>7. c \in Seq(Other(NotExecute)) \/ c = Statement("EXECUTE")
    BY <1>1, <1>2, <2>2, OtherHead, StatementsAreOther, NotExecuteHolds
  <2>. QED  BY <2>5, <2>6, <2>7
<1>7. CASE ExecuteAt(toks, ~pushed, depth, code[n], acts[n].at, acts[n].fields)
  <2>. DEFINE free == ~pushed
              f == acts[n].at
              fs == acts[n].fields
  <2>1. ExecuteAt(toks, free, depth, Body, f, fs)
    BY <1>2, <1>7
  <2>. HIDE DEF free, f, fs
  <2>2. Head(Body).op \notin {"call", "parseProcStmt"}
    BY <2>1, ExecuteHead
  <2>. QED  BY <1>1, <2>2 DEF Ins
<1>. QED  BY <1>6, <1>7 DEF StackFollowed

(* A function ends: the others are not parseStmtDynExecute.                *)
LEMMA LeaveKeepsFollowed ==
  ASSUME Inv, StacksAgree, Running, Leave, StackFollowed
  PROVE  StackFollowed'
<1>. DEFINE n == Len(acts)
<1>1. /\ n \in 1 .. n /\ n \in Nat
      /\ Len(acts') = n - 1 /\ \A k \in 1 .. n - 1 : code'[k] = code[k]
  BY RunningCode, LeaveStacks
<1>2. \A k \in 1 .. n - 1 : code[k] \in Seq(Other(NotExecute))
  BY <1>1 DEF StackFollowed, Elsewhere
<1>. QED  BY <1>1, <1>2 DEF StackFollowed, Elsewhere

LEMMA ReturnKeepsSaid ==
  ASSUME Inv, StacksAgree, StackFollowed, AllSaid, Return
  PROVE  StackFollowed' /\ AllSaid'
<1>1. Running /\ Leave /\ nodes' = nodes /\ toks' = toks
  BY DEF Return, Leave, Stay
<1>2. AllSaid'
  BY <1>1 DEF AllSaid, TargetRight, NodesOf, cur
<1>. QED  BY <1>1, <1>2, LeaveKeepsFollowed

LEMMA ReturnNodeKeepsSaid ==
  ASSUME Inv, StacksAgree, StackFollowed, AllSaid, ReturnNode
  PROVE  StackFollowed' /\ AllSaid'
<1>. DEFINE n == Len(acts)
            d == [kind |-> Ins.kind, from |-> acts[n].at, to |-> cur,
                  begun |-> acts[n].begun, ended |-> Len(moved),
                  fields |-> acts[n].fields \cup Ins.fields]
<1>1. /\ Running /\ Leave /\ Body # <<>> /\ Ins.op = "node"
      /\ nodes' = Append(nodes, d)
      /\ toks' = toks /\ pushed' = pushed
  BY DEF ReturnNode, Leave, Stay, At
<1>2. /\ n \in 1 .. n /\ n \in Nat /\ Body = code[n] /\ cur' = cur /\ cur \in Nat
      /\ cur = Len(toks)
  BY <1>1, RunningCode, HistoryTypes DEF cur
<1>3. /\ d.kind = Ins.kind /\ d.from = acts[n].at /\ d.to = cur
      /\ d.fields = acts[n].fields \cup Ins.fields
  OBVIOUS
<1>. HIDE DEF d
<1>4. d.kind = "DynExecute" => TargetRight(d)
  <2>1. CASE Elsewhere(n)
    <3>1. Body \in Seq(Other(NotExecute))
      BY <1>2, <2>1 DEF Elsewhere
    <3>2. Ins \in Other(NotExecute)
      BY <1>1, <3>1 DEF Ins
    <3>. QED  BY <1>1, <1>3, <3>2, OtherHead, NotExecuteHolds
  <2>2. CASE ExecuteAt(toks, ~pushed, depth, code[n], acts[n].at, acts[n].fields)
    <3>. DEFINE free == ~pushed
                f == acts[n].at
                fs == acts[n].fields
    <3>1. ExecuteAt(toks, free, depth, Body, f, fs) /\ Head(Body).op = "node"
      BY <1>1, <1>2, <2>2 DEF Ins
    <3>. HIDE DEF free, f, fs
    <3>2. /\ Head(Body) = executed /\ f \in 1 .. Len(toks)
          /\ TargetSaid(toks, f, Len(toks), fs)
      BY <3>1, ExecuteHead
    <3>3. Ins.fields = {}
      BY <3>2, ExecuteParts DEF Ins
    <3>4. d.fields = fs /\ d.from = f /\ d.to = cur
      BY <1>3, <3>3 DEF f, fs
    <3>. QED  BY <1>2, <3>2, <3>4 DEF TargetRight
  <2>. QED  BY <2>1, <2>2 DEF StackFollowed
<1>5. AllSaid'
  <2>1. nodes \in Seq(Nodes)
    BY DEF Inv, TypeOK, Nodes
  <2>2. \A i \in DOMAIN nodes' :
          nodes'[i] = d \/ \E j \in DOMAIN nodes : nodes'[i] = nodes[j]
    <3>1. nodes \in Seq(Nodes \cup {d}) /\ d \in Nodes \cup {d}
      BY <2>1
    <3>. QED  BY <1>1, <3>1, AppendProperties
  <2>3. \A m : TargetRight(m) => TargetRight(m)'
    BY <1>1, <1>2 DEF TargetRight
  <2>. QED  BY <1>4, <2>2, <2>3 DEF AllSaid, NodesOf
<1>6. StackFollowed'
  BY <1>1, LeaveKeepsFollowed
<1>. QED  BY <1>5, <1>6

(* Past the outermost block, and when nothing happens.                     *)
LEMMA SemicolonKeepsSaid ==
  ASSUME Inv, Inv', AllSaid, OptionalSemicolon
  PROVE  StackFollowed' /\ AllSaid'
<1>1. /\ acts' = <<>> /\ nodes' = nodes
      /\ MoveOn("syntax") \/ Stay
  BY DEF OptionalSemicolon
<1>2. toks \in Seq(Token) /\ toks' \in Seq(Token)
  BY HistoryTypes DEF Inv, TypeOK, StreamType
<1>3. Extends(toks, toks')
  <2>1. "syntax" \in Uses
    BY DEF Uses
  <2>2. \/ Passes(toks, ~pushed, toks', ~pushed')
        \/ Waits(toks, ~pushed, toks', ~pushed')
    BY <1>1, <2>1, MovePasses, StayWaits
  <2>. QED  BY <1>2, <2>2, TurnExtends
<1>4. AllSaid'
  BY <1>1, <1>2, <1>3, AllStaySaid
<1>5. StackFollowed'
  BY <1>1 DEF StackFollowed, Elsewhere
<1>. QED  BY <1>4, <1>5

LEMMA IdleKeepsSaid ==
  ASSUME StackFollowed, AllSaid, Stay, UNCHANGED <<code, acts, nodes, depth>>
  PROVE  StackFollowed' /\ AllSaid'
<1>1. /\ toks' = toks /\ pushed' = pushed /\ depth' = depth
      /\ code' = code /\ acts' = acts /\ nodes' = nodes
  BY DEF Stay
<1>2. StackFollowed'
  BY <1>1 DEF StackFollowed, Elsewhere
<1>3. AllSaid'
  BY <1>1 DEF AllSaid, TargetRight, NodesOf, cur
<1>. QED  BY <1>2, <1>3

(* Parse starts in parseBlock, and no node has been returned.              *)
LEMMA StartsSaid ==
  ASSUME Init
  PROVE  TargetsRead
<1>1. /\ code = <<parseBlock>> /\ nodes = <<>> /\ depth = 0
      /\ acts = <<[at |-> 1, begun |-> 0, fields |-> {}]>>
  BY DEF Init
<1>2. Len(acts) = 1 /\ code[1] = parseBlock
  BY <1>1
<1>3. parseBlock \in Seq(Other(NotExecute))
  BY BlocksAreOther, NotExecuteHolds DEF BlockBodies
<1>4. StackFollowed
  BY <1>2, <1>3 DEF StackFollowed, Elsewhere
<1>5. AllSaid
  BY <1>1 DEF AllSaid, NodesOf
<1>. QED  BY <1>1, <1>4, <1>5 DEF TargetsRead, DepthInUse

LEMMA NextKeepsSaid ==
  ASSUME Inv, Inv', IInv, TargetsRead, [Next]_vars
  PROVE  TargetsRead'
<1>0. DepthInUse /\ DepthInUse'
  BY DepthStaysInUse DEF TargetsRead
<1>1. SUFFICES ASSUME first' = 0
               PROVE  StackFollowed' /\ AllSaid'
  BY <1>0 DEF TargetsRead
<1>2. StacksAgree /\ StackFollowed /\ AllSaid /\ ~SyntaxError
  BY <1>1, NoErrorYet DEF IInv, TargetsRead
<1>3. \A b2, fields : Turned(b2, fields) /\ Counted(b2)
                        => StackFollowed' /\ AllSaid'
  BY <1>0, <1>2, TurnKeepsSaid
<1>4. ~Complain
  BY <1>2 DEF Complain
<1>5. Want \/ Got \/ TakeToken \/ AnyIdentifier \/ PutBack
        => StackFollowed' /\ AllSaid'
  <2>1. SUFFICES ASSUME Want \/ Got \/ TakeToken \/ AnyIdentifier \/ PutBack
                 PROVE  StackFollowed' /\ AllSaid'
    OBVIOUS
  <2>2. Got \/ (depth' = depth /\ Ins.op \notin {"got", "collect", "discard"})
    BY <2>1 DEF Want, TakeToken, AnyIdentifier, PutBack, At
  <2>3. Counted(Tail(Body))
    BY <2>2, SteadyCounts, GotCounts
  <2>. QED  BY <1>1, <1>2, <1>3, <2>1, <2>3, TokenTurns
<1>6. Branch \/ SetFields => StackFollowed' /\ AllSaid'
  <2>1. SUFFICES ASSUME Branch \/ SetFields
                 PROVE  StackFollowed' /\ AllSaid'
    OBVIOUS
  <2>2. depth' = depth /\ Ins.op \notin {"got", "collect", "discard"}
    BY <2>1 DEF Branch, SetFields, At
  <2>3. \A b2 : Counted(b2)
    BY <2>2, SteadyCounts
  <2>. QED  BY <1>2, <1>3, <2>1, <2>3, BranchTurns, SetFieldsTurns
<1>7. Collect => StackFollowed' /\ AllSaid'
  BY <1>2, <1>3, CollectCounts
<1>8. CallFunction \/ ParseProcStmt \/ ReturnNode \/ Return
        => StackFollowed' /\ AllSaid'
  BY <1>0, <1>2, CallKeepsSaid, ReturnNodeKeepsSaid, ReturnKeepsSaid
<1>9. OptionalSemicolon => StackFollowed' /\ AllSaid'
  BY <1>2, SemicolonKeepsSaid
<1>10. ExpectEndOfInput \/ UNCHANGED vars => StackFollowed' /\ AllSaid'
  BY <1>2, IdleKeepsSaid DEF ExpectEndOfInput, vars, Stay
<1>. QED  BY <1>4, <1>5, <1>6, <1>7, <1>8, <1>9, <1>10 DEF Next, Parse, Returned

LEMMA TargetsInvariance == Spec => []TargetsRead
<1>1. Init => TargetsRead
  BY StartsSaid
<1>2. Inv /\ Inv' /\ IInv /\ TargetsRead /\ [Next]_vars => TargetsRead'
  BY NextKeepsSaid
<1>. QED  BY <1>1, <1>2, Invariance, ProgressInvariance, PTL DEF Spec

(* In every text that Parse accepts, an EXECUTE has a target exactly when an *)
(* INTO stands outside the parentheses of its text, in whatever order its    *)
(* INTO and USING clauses come, once or several times; it is STRICT only if  *)
(* that word follows one of them, and always if it follows the first.        *)
THEOREM ExecutesAreRead == Spec => []ExecuteFields
<1>1. Inv /\ TargetsRead => ExecuteFields
  <2>1. SUFFICES ASSUME TargetsRead, Accepted, NEW n \in NodesOf({"DynExecute"})
                 PROVE  LET intos == {k \in n.from .. n.to - 1 :
                                        /\ toks[k] = "INTO"
                                        /\ OpenBefore(n.from, k) = 0}
                        IN  /\ "into" \in n.fields <=> intos # {}
                            /\ "strict" \in n.fields =>
                                 \E k \in intos : toks[k + 1] = "STRICT"
                            /\ \A k \in intos :
                                 /\ toks[k + 1] = "STRICT"
                                 /\ \A j \in intos : k <= j
                                 => "strict" \in n.fields
    BY DEF ExecuteFields
  <2>2. TargetSaid(toks, n.from, n.to, n.fields)
    BY <2>1 DEF TargetsRead, Accepted, AllSaid, TargetRight
  <2>. QED  BY <2>2 DEF TargetSaid, Intos, OpenBefore
<1>. QED  BY <1>1, Invariance, TargetsInvariance, PTL

=============================================================================
