------------------------------ MODULE Lexemes ------------------------------
(***************************************************************************)
(* The lexical grammar as a reference to compare the scanner with: which   *)
(* stretches of a text, from byte i to byte j, are a token of which kind,  *)
(* and what lies between tokens.  It looks at a stretch as a whole; it has *)
(* no place, no lookahead and no state.                                    *)
(***************************************************************************)
EXTENDS Scanner, FiniteSets

Size == Len(src)
Has(i, bytes) ==
  i + Len(bytes) - 1 <= Size /\ SubSeq(src, i, i + Len(bytes) - 1) = bytes
All(set, i, j) == \A k \in i .. j : src[k] \in set

(* The bytes of names.  C3 A9 is a letter of two bytes; C2 A9 is a sign;    *)
(* C2 and C3 are letters of another encoding where A9 does not follow.     *)
NameStart(k) ==
  /\ k <= Size
  /\ src[k] \in Letters \cup {"xC2", "xC3"}
  /\ ~Has(k, <<"xC2", "xA9">>)

NameByte(k) ==
  \/ NameStart(k)
  \/ src[k] \in Digits \cup {"$"}
  \/ k > 1 /\ Has(k - 1, <<"xC3", "xA9">>)

Word(i, j) == NameStart(i) /\ \A k \in i .. j : NameByte(k)

Composite(i, j) ==
  LET Part(k, l) == k <= l /\ Word(k, l)
      dots == {k \in i .. j : src[k] = "."}
  IN  /\ dots # {}
      /\ \A k \in {i - 1} \cup dots :
           \E l \in dots \cup {j + 1} :
             /\ k < l /\ Part(k + 1, l - 1)
             /\ \A m \in dots : ~(k < m /\ m < l)

Whole(i, j) == i <= j /\ All(Digits, i, j)

Decimal(i, j) ==
  \E d \in i .. j :
    /\ src[d] = "." /\ All(Digits, i, d - 1) /\ All(Digits, d + 1, j)
    /\ i < j
    /\ ~Has(d, <<".", ".">>)

Scientific(i, j) ==
  \E x \in i + 1 .. j :
    /\ Whole(i, x - 1) \/ Decimal(i, x - 1)
    /\ src[x] \in {"e", "E"}
    /\ \/ All(Digits, x + 1, j)
       \/ x < j /\ src[x + 1] \in {"+", "-"} /\ All(Digits, x + 2, j)

Float(i, j) == Decimal(i, j) \/ Scientific(i, j)

(* Between the quotes, every run of quotes is of even length; after the    *)
(* closing one there is none.                                              *)
Quoted(q, i, j) ==
  /\ i < j /\ src[i] = q /\ src[j] = q /\ ~Has(j + 1, <<q>>)
  /\ \A a, b \in i + 1 .. j - 1 :
       /\ a <= b /\ All({q}, a, b)
       /\ a = i + 1 \/ src[a - 1] # q
       /\ b = j - 1 \/ src[b + 1] # q
       => (b - a) % 2 = 1

(* The delimiter $tag$ from byte i to byte t.                              *)
Delimiter(i, t) ==
  /\ i < t /\ src[i] = "$" /\ src[t] = "$"
  /\ \/ t = i + 1
     \/ Word(i + 1, t - 1) /\ \A k \in i + 1 .. t - 1 : src[k] # "$"

DollarQuoted(i, t, j) ==
  LET delimiter == SubSeq(src, i, t)
      close == j - Len(delimiter) + 1
  IN  /\ Delimiter(i, t)
      /\ t < close /\ Has(close, delimiter)
      /\ \A k \in t + 1 .. close - 1 : ~Has(k, delimiter)

(* A dollar and a name that is not a tag: one token, whose name is lost.   *)
Dangling(i, j) ==
  /\ src[i] = "$" /\ Word(i + 1, j)
  /\ \A k \in i .. j : src[k] = "$" => k = i
  /\ ~\E t \in i .. Size : Delimiter(i, t)

----------------------------------------------------------------------------
(* The tokens a text may have at byte i, each with its last byte.          *)

Stretches(i) ==
  LET js == i .. Size
      Of(kind, S) == {[kind |-> kind, last |-> j] : j \in S}
  IN  Of("name", {j \in js : Word(i, j)})
      \cup Of("CWORD", {j \in js : Composite(i, j)})
      \cup Of("ICONST", {j \in js : Whole(i, j)})
      \cup Of("FCONST", {j \in js : Float(i, j)})
      \cup Of("PARAM", {j \in js : src[i] = "$" /\ Whole(i + 1, j)})
      \cup Of("SCONST", {j \in js : Quoted("'", i, j)})
      \cup Of("IDENT", {j \in js : Quoted("\"", i, j)})
      \cup Of("SCONST", {j \in js : \E t \in js : DollarQuoted(i, t, j)})
      \cup Of("$", {j \in js : Dangling(i, j)})
      \cup Of("OP", {j \in js : src[i] \in OperatorStart /\ All(OpChars, i, j)})
      \cup UNION {Of(pair[3], {j \in {i + 1} : Has(i, <<pair[1], pair[2]>>)}) :
                    pair \in Pairs \cup {<<"-", ">", "OP">>, <<".", ".", "..">>}}

(* Literals that nothing closes.                                           *)
Open(i) ==
  LET Opened(kind, condition) ==
        IF condition THEN {[kind |-> kind, last |-> Size]} ELSE {}
  IN  Opened("SCONST", src[i] = "'") \cup Opened("IDENT", src[i] = "\"")
      \cup Opened("SCONST", \E t \in i .. Size : Delimiter(i, t))

(* The token at byte i: the longest, or else the rest of the text, or else *)
(* one character.                                                          *)
Lexeme(i) ==
  LET stretches == Stretches(i)
      alone == [kind |-> IF src[i] = "!" THEN "OP"
                         ELSE SelfToken(IF Has(i, <<"xC2", "xA9">>) THEN "xA9"
                                        ELSE src[i]),
                last |-> IF Has(i, <<"xC2", "xA9">>) THEN i + 1 ELSE i]
  IN  IF stretches # {}
      THEN {s \in stretches : \A r \in stretches : r.last <= s.last}
      ELSE IF Open(i) # {} THEN Open(i) ELSE {alone}

----------------------------------------------------------------------------
(* Between tokens.                                                         *)

(* The first byte after a block comment that is d deep at byte k.          *)
AfterComment[k \in Nat, d \in Nat] ==
  IF d = 0 \/ k > Size THEN k
  ELSE IF Has(k, <<"/", "*">>) THEN AfterComment[k + 2, d + 1]
  ELSE IF Has(k, <<"*", "/">>) THEN AfterComment[k + 2, d - 1]
  ELSE AfterComment[k + 1, d]

(* The first byte at or after i that is not blank and not in a comment.    *)
AfterBlanks[i \in Nat] ==
  LET ends == {k \in i .. Size : src[k] = "\n"}
  IN  IF i > Size THEN i
      ELSE IF src[i] \in Spaces THEN AfterBlanks[i + 1]
      ELSE IF Has(i, <<"-", "-">>)
      THEN AfterBlanks[IF ends = {} THEN Size + 1
                       ELSE CHOOSE k \in ends : \A l \in ends : k <= l]
      ELSE IF Has(i, <<"/", "*">>) THEN AfterBlanks[AfterComment[i + 2, 1]]
      ELSE i

=============================================================================
