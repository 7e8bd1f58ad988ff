--------------------------- MODULE ScannerProofs ---------------------------
(***************************************************************************)
(* Proofs about module Scanner, for every family of source texts, every    *)
(* table of keywords and every text.                                       *)
(***************************************************************************)
EXTENDS ScannerContract, FiniteSetTheorems, SequenceTheorems, TLAPS

(* A place that nextch may have reached: what is read there is what the     *)
(* text holds, and line and column are those of the byte.                  *)
Place(p) ==
  /\ p \in [offset : 0 .. Len(src), ch : Rune, chw : 0 .. 2, line : Nat, col : Nat]
  /\ p.ch = RuneAt(p.offset) /\ p.chw = WidthAt(p.offset)
  /\ p.line = Newlines(p.offset) /\ InColumn(p.offset, p.col)

(* The points of Next at which a token has been begun, and where it began;  *)
(* between tokens, where the next one cannot begin before.                 *)
InToken == {"ident", "composite", "number", "fraction", "exponent", "string",
            "quoted", "param", "tag", "body", "delimiter", "operator"}

Start == IF pc \in InToken THEN loc.from ELSE at.offset

(* t is recorded at the position of byte o.                                *)
At(t, o) == t.Line = Newlines(o) + 1 /\ t.Col > 0 /\ InColumn(o, t.Col - 1)

Scanned == [Tok : Kind, Lit : Seq(Byte), Line : Nat, Col : Nat,
            from : 0 .. Len(src), to : 0 .. Len(src)]

Locals(p) == [from : 0 .. Len(src), start : 0 .. p.offset, depth : Nat,
              buf : Seq(Byte), left : Nat]

Latest == tokens[Len(tokens)]

(* There is nothing left to scan.                                          *)
Exhausted == at.ch = End /\ pc \in {"idle", "redo"}

----------------------------------------------------------------------------
(* The inductive invariant.                                                *)

(* The token in progress, and those scanned, have their own positions.      *)
Positioned ==
  /\ pc \in InToken => At(this, loc.from) /\ loc.from < at.offset
  /\ \A i \in DOMAIN tokens : At(tokens[i], tokens[i].from)

(* Tokens begin one after the other, and before the one in progress.        *)
Ordered ==
  /\ \A j \in DOMAIN tokens : \A i \in 1 .. j - 1 : tokens[i].from < tokens[j].from
  /\ tokens # <<>> => Latest.from < Start \/ (Latest.Tok = EOF /\ Exhausted)

(* A token is pushed back between calls only, when there is one; and after  *)
(* a literal that is not closed nothing is left.                           *)
Delivered ==
  /\ pc # "idle" => pb = Nothing
  /\ pb # Nothing => tokens # <<>> /\ pb.Tok # "none"
  /\ tokens # <<>> => this.Tok # "none"
  /\ unterminated /\ pc # "panic" => Exhausted /\ tokens # <<>>

Inv == TypeOK /\ Place(at) /\ Positioned /\ Ordered /\ Delivered

(* In a text without control characters, nothing is left after EOF.         *)
Printable ==
  /\ \A k \in DOMAIN src : src[k] \notin Control
  /\ tokens # <<>> /\ Latest.Tok = EOF => Exhausted

----------------------------------------------------------------------------
(* What the steps of Next amount to.                                       *)

Live == pc \notin {"idle", "panic"} /\ ~Exhausted

(* Moving on, at a point where no token has begun or in the same token.     *)
Goes ==
  /\ UNCHANGED <<src, this, pb, unterminated, tokens>>
  /\ Place(at') /\ at.offset <= at'.offset
  /\ pc' \in Points \ {"panic"} /\ loc' \in Locals(at')
  /\ pc' \in InToken <=> pc \in InToken
  /\ pc \in InToken => loc'.from = loc.from
  /\ pb = Nothing
  /\ Live \/ (pc = "idle" /\ pc' = "redo" /\ at' = at)

(* Beginning a token.                                                      *)
Enters ==
  /\ UNCHANGED <<src, pb, unterminated, tokens>>
  /\ pc = "redo" /\ at.ch # End
  /\ Place(at') /\ at.offset < at'.offset
  /\ pc' \in InToken /\ loc' \in Locals(at') /\ loc'.from = at.offset
  /\ this' = Marked

(* Returning a token.                                                      *)
Recorded(t, from, to) ==
  IF t.Tok = EOF /\ tokens # <<>> /\ tokens[Len(tokens)].Tok = EOF
  THEN tokens
  ELSE Append(tokens, [Tok |-> t.Tok, Lit |-> t.Lit, Line |-> t.Line,
                       Col |-> t.Col, from |-> from, to |-> to])

Returns ==
  /\ UNCHANGED <<src, pb>>
  /\ Live
  /\ pc' = "idle" /\ loc' = NoLocals
  /\ Place(at') /\ Start < at'.offset
  /\ this' \in Current /\ this'.Tok # "none" /\ At(this', Start)
  /\ this'.Tok = EOF => \E k \in DOMAIN src : src[k] \in Control
  /\ tokens' = Recorded(this', Start, at'.offset)
  /\ \/ UNCHANGED unterminated
     \/ unterminated' = TRUE /\ at'.ch = End /\ this'.Tok \in {"SCONST", "IDENT"}

(* Reaching the end of the text.                                           *)
Ends ==
  /\ UNCHANGED <<src, at, pb, unterminated>>
  /\ pc = "redo" /\ at.ch = End
  /\ pc' = "idle" /\ loc' = NoLocals
  /\ this' \in Current /\ this'.Tok = EOF /\ At(this', at.offset)
  /\ tokens' = Recorded(this', at.offset, at.offset)

Panics ==
  /\ UNCHANGED <<src, at, this, pb, loc, tokens>>
  /\ pc = "quoted" /\ pc' = "panic" /\ unterminated' = TRUE

----------------------------------------------------------------------------
(* Characters and places.                                                  *)

(* What is read at a place: the end exactly at the end, a line end exactly  *)
(* where there is one, and never a byte beyond the text.                   *)
LEMMA RunesAreRead ==
  ASSUME src \in Seq(Byte), NEW o \in 0 .. Len(src)
  PROVE  /\ RuneAt(o) \in Rune /\ WidthAt(o) \in 0 .. 2
         /\ o + WidthAt(o) \in 0 .. Len(src)
         /\ RuneAt(o) = End <=> o = Len(src)
         /\ WidthAt(o) = 0 <=> o = Len(src)
         /\ o < Len(src) => (RuneAt(o) = "\n" <=> src[o + 1] = "\n")
         /\ RuneAt(o) = "\n" => WidthAt(o) = 1
         /\ WidthAt(o) = 2 => o + 2 <= Len(src) /\ src[o + 1] # "\n" /\ src[o + 2] # "\n"
         /\ RuneAt(o) \in Byte \ {"xA9"} => WidthAt(o) = 1
<1>1. Len(src) \in Nat
  OBVIOUS
<1>2. /\ End \notin Byte /\ "U+00E9" \notin Byte /\ End # "U+00E9"
      /\ "\n" \in Byte \ High /\ {"xC2", "xC3", "xA9"} = High
      /\ High \subseteq Byte
  BY DEF End, Byte, Spaces, Digits, Letters, OpChars, Control, High
<1>3. CASE o = Len(src)
  <2>1. RuneAt(o) = End /\ WidthAt(o) = 0
    BY <1>1, <1>3 DEF RuneAt, WidthAt
  <2>. QED  BY <1>1, <1>2, <1>3, <2>1 DEF Rune
<1>4. CASE o < Len(src)
  <2>1. src[o + 1] \in Byte
    BY <1>1, <1>4
  <2>2. CASE TwoBytes(o)
    <3>1. /\ WidthAt(o) = 2 /\ RuneAt(o) \in {"U+00E9", "xA9"}
          /\ o + 2 <= Len(src) /\ src[o + 1] \in High /\ src[o + 2] \in High
      BY <1>1, <1>2, <1>4, <2>2 DEF TwoBytes, RuneAt, WidthAt
    <3>. QED  BY <1>1, <1>2, <1>4, <3>1 DEF Rune
  <2>3. CASE ~TwoBytes(o)
    <3>1. WidthAt(o) = 1 /\ RuneAt(o) = src[o + 1]
      BY <1>1, <1>4, <2>3 DEF RuneAt, WidthAt
    <3>. QED  BY <1>1, <1>2, <1>4, <2>1, <3>1 DEF Rune
  <2>. QED  BY <2>2, <2>3
<1>. QED  BY <1>1, <1>3, <1>4

(* The line ends before a byte are counted up one byte at a time.          *)
LEMMA NewlinesCount ==
  ASSUME src \in Seq(Byte), NEW o \in Nat
  PROVE  /\ Newlines(o) \in Nat
         /\ Newlines(o + 1) = IF src[o + 1] = "\n" THEN Newlines(o) + 1
                              ELSE Newlines(o)
<1>. DEFINE S(n) == {k \in 1 .. n : src[k] = "\n"}
<1>1. IsFiniteSet(S(o))
  <2>1. IsFiniteSet(1 .. o)
    BY FS_Interval
  <2>. QED  BY <2>1, FS_Subset, S(o) \subseteq 1 .. o
<1>2. Cardinality(S(o)) \in Nat
  BY <1>1, FS_CardinalityType
<1>3. CASE src[o + 1] = "\n"
  <2>1. S(o + 1) = S(o) \cup {o + 1} /\ o + 1 \notin S(o)
    BY <1>3
  <2>2. Cardinality(S(o) \cup {o + 1}) = Cardinality(S(o)) + 1
    BY <1>1, <2>1, FS_AddElement
  <2>. QED  BY <1>2, <1>3, <2>1, <2>2 DEF Newlines
<1>4. CASE src[o + 1] # "\n"
  <2>1. S(o + 1) = S(o)
    BY <1>4
  <2>. QED  BY <1>2, <1>4, <2>1 DEF Newlines
<1>. QED  BY <1>3, <1>4

(* A column grows by each byte and starts again after a line end.          *)
LEMMA ColumnsCount ==
  ASSUME src \in Seq(Byte), NEW o \in Nat, NEW c \in Nat, InColumn(o, c)
  PROVE  IF src[o + 1] = "\n" THEN InColumn(o + 1, 0) ELSE InColumn(o + 1, c + 1)
<1>1. CASE src[o + 1] = "\n"
  <2>1. (o + 1) - 0 = o + 1 /\ (o + 1) - 0 + 1 .. o + 1 = {}
    OBVIOUS
  <2>. QED  BY <1>1, <2>1 DEF InColumn
<1>2. CASE src[o + 1] # "\n"
  <2>1. /\ c <= o /\ (c < o => src[o - c] = "\n")
        /\ \A k \in o - c + 1 .. o : src[k] # "\n"
    BY DEF InColumn
  <2>2. (o + 1) - (c + 1) = o - c
    OBVIOUS
  <2>3. ASSUME NEW k \in o - c + 1 .. o + 1
        PROVE  src[k] # "\n"
    BY <1>2, <2>1, <2>3
  <2>4. InColumn(o + 1, c + 1)
    BY <2>1, <2>2, <2>3 DEF InColumn
  <2>. QED  BY <1>2, <2>4
<1>. QED  BY <1>1, <1>2

(* nextch takes a place to a place, further on unless at the end.          *)
LEMMA NextChIsAPlace ==
  ASSUME src \in Seq(Byte), NEW p, Place(p)
  PROVE  /\ Place(NextCh(p))
         /\ p.offset <= NextCh(p).offset
         /\ p.ch # End => p.offset < NextCh(p).offset
         /\ p.ch = End => NextCh(p) = p
         /\ p.ch \in Byte \ {"xA9"} => NextCh(p).offset = p.offset + 1
         /\ p.ch # "\n" => NextCh(p).line = p.line /\ NextCh(p).col = p.col + p.chw
<1>. DEFINE o == p.offset
            w == p.chw
            q == NextCh(p)
<1>1. /\ Len(src) \in Nat /\ o \in 0 .. Len(src) /\ w \in 0 .. 2
      /\ p.line \in Nat /\ p.col \in Nat
      /\ p.ch = RuneAt(o) /\ w = WidthAt(o)
      /\ p.line = Newlines(o) /\ InColumn(o, p.col)
      /\ p = [offset |-> o, ch |-> p.ch, chw |-> w, line |-> p.line, col |-> p.col]
  BY DEF Place
<1>2. /\ o + w \in 0 .. Len(src)
      /\ p.ch = End <=> o = Len(src)
      /\ w = 0 <=> o = Len(src)
      /\ o < Len(src) => (p.ch = "\n" <=> src[o + 1] = "\n")
      /\ p.ch = "\n" => w = 1
      /\ w = 2 => o + 2 <= Len(src) /\ src[o + 1] # "\n" /\ src[o + 2] # "\n"
      /\ p.ch \in Byte \ {"xA9"} => w = 1
  BY <1>1, RunesAreRead
<1>3. /\ q.offset = o + w /\ q.ch = RuneAt(o + w) /\ q.chw = WidthAt(o + w)
      /\ q.line = IF p.ch = "\n" THEN p.line + 1 ELSE p.line
      /\ q.col = IF p.ch = "\n" THEN 0 ELSE p.col + w
      /\ q = [offset |-> q.offset, ch |-> q.ch, chw |-> q.chw, line |-> q.line,
              col |-> q.col]
  BY DEF NextCh, PlaceAt
<1>4. q \in [offset : 0 .. Len(src), ch : Rune, chw : 0 .. 2, line : Nat, col : Nat]
  <2>1. q.ch \in Rune /\ q.chw \in 0 .. 2
    BY <1>2, <1>3, RunesAreRead
  <2>. QED  BY <1>1, <1>2, <1>3, <2>1
<1>5. q.line = Newlines(q.offset) /\ InColumn(q.offset, q.col)
  <2>1. CASE w = 0
    <3>1. p.ch # "\n"
      BY <1>2, <2>1
    <3>. QED  BY <1>1, <1>3, <2>1, <3>1
  <2>2. CASE w = 1
    <3>1. Newlines(o + 1) = IF src[o + 1] = "\n" THEN Newlines(o) + 1
                            ELSE Newlines(o)
      BY <1>1, NewlinesCount
    <3>2. p.ch = "\n" <=> src[o + 1] = "\n"
      BY <1>1, <1>2, <2>2
    <3>3. InColumn(o + 1, IF p.ch = "\n" THEN 0 ELSE p.col + 1)
      BY <1>1, <3>2, ColumnsCount
    <3>. QED  BY <1>1, <1>3, <2>2, <3>1, <3>2, <3>3
  <2>3. CASE w = 2
    <3>1. o < Len(src) /\ p.ch # "\n" /\ src[o + 1] # "\n" /\ src[o + 2] # "\n"
      BY <1>1, <1>2, <2>3
    <3>2. /\ o + 1 \in Nat /\ (o + 1) + 1 = o + 2
          /\ p.col + 1 \in Nat /\ (p.col + 1) + 1 = p.col + 2
      BY <1>1
    <3>3. Newlines(o + 1) = Newlines(o) /\ InColumn(o + 1, p.col + 1)
      BY <1>1, <3>1, NewlinesCount, ColumnsCount
    <3>4. Newlines(o + 2) = Newlines(o + 1) /\ InColumn(o + 2, p.col + 2)
      BY <3>1, <3>2, <3>3, NewlinesCount, ColumnsCount
    <3>. QED  BY <1>1, <1>3, <2>3, <3>1, <3>3, <3>4
  <2>. QED  BY <1>1, <2>1, <2>2, <2>3
<1>6. Place(q)
  BY <1>3, <1>4, <1>5 DEF Place
<1>7. ASSUME p.ch = End
      PROVE  q = p
  <2>1. w = 0 /\ p.ch # "\n" /\ o + w = o /\ p.col + w = p.col
    BY <1>1, <1>2, <1>7
  <2>2. /\ q.offset = o /\ q.ch = p.ch /\ q.chw = w
        /\ q.line = p.line /\ q.col = p.col
    BY <1>1, <1>3, <2>1
  <2>. QED  BY <1>1, <1>3, <2>2
<1>. QED  BY <1>1, <1>2, <1>3, <1>6, <1>7

----------------------------------------------------------------------------
(* Each of them keeps the invariant.                                       *)

(* The types of a place.                                                   *)
LEMMA PlacesAreTyped ==
  ASSUME NEW p, Place(p)
  PROVE  p \in [offset : 0 .. Len(src), ch : Rune, chw : 0 .. 2, line : Nat, col : Nat]
BY DEF Place

(* The last token of the history is one.                                   *)
LEMMA LatestIsScanned ==
  ASSUME TypeOK, tokens # <<>>
  PROVE  Len(tokens) \in Nat \ {0} /\ Latest \in Scanned /\ Latest.from \in Nat
<1>1. tokens \in Seq(Scanned) /\ Len(src) \in Nat
  BY DEF TypeOK, Scanned
<1>2. Len(tokens) \in Nat \ {0} /\ Latest \in Scanned
  BY <1>1 DEF Latest
<1>. QED  BY <1>1, <1>2 DEF Scanned

(* The position recorded before a token is that of the place.              *)
LEMMA MarkedIsHere ==
  ASSUME TypeOK, Place(at)
  PROVE  /\ Marked \in Current /\ Marked.Tok = this.Tok /\ Marked.Lit = this.Lit
         /\ Marked.Line = at.line + 1 /\ Marked.Col = at.col + 1
         /\ At(Marked, at.offset)
<1>1. this \in Current /\ at.line \in Nat /\ at.col \in Nat
  BY DEF TypeOK
<1>2. /\ Marked.Tok = this.Tok /\ Marked.Lit = this.Lit
      /\ Marked.Line = at.line + 1 /\ Marked.Col = at.col + 1
  BY <1>1 DEF Marked, Current
<1>3. at.line + 1 \in Nat /\ at.col + 1 \in Nat
  BY <1>1
<1>4. Marked \in Current
  BY <1>1, <1>3 DEF Marked, Current
<1>5. (at.col + 1) - 1 = at.col /\ at.line = Newlines(at.offset)
      /\ InColumn(at.offset, at.col)
  BY <1>1 DEF Place
<1>. QED  BY <1>1, <1>2, <1>4, <1>5 DEF At

(* Moving on stays in the same token, or between the same two.             *)
LEMMA GoesKeeps ==
  ASSUME Inv, Goes
  PROVE  Inv'
<1>1. /\ src' = src /\ this' = this /\ pb' = pb /\ unterminated' = unterminated
      /\ tokens' = tokens
  BY DEF Goes
<1>2. Place(at)'
  BY <1>1 DEF Goes, Place, RuneAt, WidthAt, TwoBytes, Newlines, InColumn
<1>3. TypeOK'
  <2>1. at' \in [offset : 0 .. Len(src), ch : Rune, chw : 0 .. 2, line : Nat, col : Nat]
    BY PlacesAreTyped DEF Goes
  <2>2. pc' \in Points /\ loc' \in Locals(at')
    BY DEF Goes
  <2>. QED  BY <1>1, <2>1, <2>2 DEF Inv, TypeOK, Locals
<1>4. Positioned'
  <2>1. pc' \in InToken => At(this, loc'.from) /\ loc'.from < at'.offset
    <3>1. Len(src) \in Nat /\ at.offset \in Nat /\ at'.offset \in Nat
          /\ loc.from \in Nat
      BY PlacesAreTyped DEF Goes, Inv, TypeOK
    <3>. QED  BY <3>1 DEF Goes, Inv, Positioned
  <2>. QED  BY <1>1, <2>1 DEF Inv, Positioned, At, Newlines, InColumn
<1>5. Ordered'
  <2>1. tokens # <<>> => Latest.from < Start' \/ (Latest.Tok = EOF /\ Exhausted')
    <3>1. /\ at.offset \in Nat /\ at'.offset \in Nat /\ loc.from \in Nat
          /\ at.offset <= at'.offset
      BY PlacesAreTyped DEF Goes, Inv, TypeOK
    <3>2. tokens # <<>> => Latest.from \in Nat
      BY LatestIsScanned DEF Inv
    <3>3. CASE Live
      BY <3>1, <3>2, <3>3 DEF Goes, Live, Inv, Ordered, Start
    <3>4. CASE pc = "idle" /\ pc' = "redo" /\ at' = at
      BY <3>1, <3>2, <3>4 DEF Inv, Ordered, Start, Exhausted, InToken
    <3>. QED  BY <3>3, <3>4 DEF Goes
  <2>. QED  BY <1>1, <2>1 DEF Inv, Ordered, Latest
<1>6. Delivered'
  <2>1. CASE Live
    BY <1>1, <2>1 DEF Goes, Live, Inv, Delivered
  <2>2. CASE pc = "idle" /\ pc' = "redo" /\ at' = at
    BY <1>1, <2>2 DEF Goes, Inv, Delivered, Exhausted
  <2>. QED  BY <2>1, <2>2 DEF Goes
<1>. QED  BY <1>2, <1>3, <1>4, <1>5, <1>6 DEF Inv

(* A token begins where the last one may end, at its own position.         *)
LEMMA EntersKeeps ==
  ASSUME Inv, Enters
  PROVE  Inv'
<1>1. /\ src' = src /\ pb' = pb /\ unterminated' = unterminated
      /\ tokens' = tokens /\ this' = Marked
  BY DEF Enters
<1>2. this' \in Current /\ this'.Tok = this.Tok /\ At(this', at.offset)
  BY <1>1, MarkedIsHere DEF Inv
<1>3. Place(at)'
  BY <1>1 DEF Enters, Place, RuneAt, WidthAt, TwoBytes, Newlines, InColumn
<1>4. TypeOK'
  <2>1. at' \in [offset : 0 .. Len(src), ch : Rune, chw : 0 .. 2, line : Nat, col : Nat]
    BY PlacesAreTyped DEF Enters
  <2>2. pc' \in Points /\ loc' \in Locals(at')
    BY DEF Enters, Points, InToken
  <2>. QED  BY <1>1, <1>2, <2>1, <2>2 DEF Inv, TypeOK, Locals
<1>5. Positioned'
  <2>1. loc'.from = at.offset /\ at.offset < at'.offset
    BY DEF Enters
  <2>. QED  BY <1>1, <1>2, <2>1 DEF Inv, Positioned, At, Newlines, InColumn
<1>6. Ordered'
  <2>1. Start' = at.offset /\ Start = at.offset /\ ~Exhausted
    BY DEF Enters, Start, InToken, Exhausted
  <2>. QED  BY <1>1, <2>1 DEF Inv, Ordered, Latest
<1>7. Delivered'
  <2>1. ~Exhausted /\ pc = "redo"
    BY DEF Enters, Exhausted
  <2>. QED  BY <1>1, <1>2, <2>1 DEF Inv, Delivered
<1>. QED  BY <1>3, <1>4, <1>5, <1>6, <1>7 DEF Inv

(* What the history gains with a token: nothing, or a last entry.           *)
LEMMA HistoryGrows ==
  ASSUME Inv, NEW t \in Current, NEW to \in 0 .. Len(src), At(t, Start),
         tokens # <<>> /\ Latest.Tok = EOF /\ Exhausted => t.Tok = EOF
  PROVE  /\ Recorded(t, Start, to) \in Seq(Scanned)
         /\ Recorded(t, Start, to) # <<>>
         /\ \A i \in DOMAIN Recorded(t, Start, to) :
              At(Recorded(t, Start, to)[i], Recorded(t, Start, to)[i].from)
         /\ \A j \in DOMAIN Recorded(t, Start, to) : \A i \in 1 .. j - 1 :
              Recorded(t, Start, to)[i].from < Recorded(t, Start, to)[j].from
         /\ \/ /\ Recorded(t, Start, to) = tokens
               /\ tokens # <<>> /\ Latest.Tok = EOF /\ t.Tok = EOF
            \/ LET new == [Tok |-> t.Tok, Lit |-> t.Lit, Line |-> t.Line,
                           Col |-> t.Col, from |-> Start, to |-> to]
               IN  /\ Recorded(t, Start, to) = Append(tokens, new)
                   /\ new \in Scanned
                   /\ ~(tokens # <<>> /\ Latest.Tok = EOF /\ t.Tok = EOF)
<1>. DEFINE new == [Tok |-> t.Tok, Lit |-> t.Lit, Line |-> t.Line,
                    Col |-> t.Col, from |-> Start, to |-> to]
            hist == Append(tokens, new)
<1>1. tokens \in Seq(Scanned) /\ Start \in 0 .. Len(src)
  <2>1. tokens \in Seq(Scanned)
    BY DEF Inv, TypeOK, Scanned
  <2>2. loc.from \in 0 .. Len(src) /\ at.offset \in 0 .. Len(src)
    BY DEF Inv, TypeOK
  <2>. QED  BY <2>1, <2>2 DEF Start
<1>2. new \in Scanned /\ new.from = Start /\ At(new, new.from)
  BY <1>1 DEF Scanned, Current, At
<1>3. CASE tokens # <<>> /\ Latest.Tok = EOF /\ t.Tok = EOF
  <2>1. Recorded(t, Start, to) = tokens
    BY <1>3 DEF Recorded, Latest
  <2>. QED  BY <1>1, <1>3, <2>1 DEF Inv, Positioned, Ordered
<1>4. CASE ~(tokens # <<>> /\ Latest.Tok = EOF /\ t.Tok = EOF)
  <2>1. Recorded(t, Start, to) = hist
    BY <1>4 DEF Recorded, Latest
  <2>2. /\ hist \in Seq(Scanned) /\ hist # <<>>
        /\ Len(hist) = Len(tokens) + 1 /\ Len(tokens) \in Nat
        /\ DOMAIN tokens = 1 .. Len(tokens) /\ DOMAIN hist = 1 .. Len(tokens) + 1
        /\ \A i \in 1 .. Len(tokens) : hist[i] = tokens[i]
        /\ hist[Len(tokens) + 1] = new
    BY <1>1, <1>2, AppendProperties
  <2>3. \A i \in DOMAIN hist : At(hist[i], hist[i].from)
    <3>1. \A i \in DOMAIN tokens : At(tokens[i], tokens[i].from)
      BY DEF Inv, Positioned
    <3>2. \A i \in DOMAIN hist : i \in DOMAIN tokens \/ i = Len(tokens) + 1
      BY <2>2
    <3>. HIDE DEF hist, new
    <3>. QED  BY <1>2, <2>2, <3>1, <3>2
  <2>4. ASSUME NEW i \in DOMAIN tokens
        PROVE  tokens[i].from < Start
    <3>1. tokens # <<>> /\ Len(tokens) \in DOMAIN tokens
      BY <2>2, <2>4
    <3>2. Latest.from < Start
      BY <1>4, <3>1 DEF Inv, Ordered
    <3>3. i = Len(tokens) \/ i \in 1 .. Len(tokens) - 1
      BY <2>2, <2>4
    <3>4. i = Len(tokens) \/ tokens[i].from < Latest.from
      BY <3>1, <3>3 DEF Inv, Ordered, Latest
    <3>5. tokens[i].from \in Nat /\ Latest.from \in Nat /\ Start \in Nat
      <4>1. tokens[i] \in Scanned /\ Latest \in Scanned /\ Len(src) \in Nat
        BY <1>1, <2>2, <3>1 DEF Inv, TypeOK, Latest
      <4>. QED  BY <1>1, <4>1 DEF Scanned
    <3>. QED  BY <3>2, <3>4, <3>5 DEF Latest
  <2>5. ASSUME NEW j \in DOMAIN hist, NEW i \in 1 .. j - 1
        PROVE  hist[i].from < hist[j].from
    <3>1. i \in DOMAIN tokens /\ hist[i] = tokens[i]
      BY <2>2, <2>5
    <3>2. CASE j = Len(tokens) + 1
      <4>1. hist[j] = new
        BY <2>2, <3>2
      <4>. QED  BY <1>2, <2>4, <3>1, <4>1
    <3>3. CASE j \in DOMAIN tokens
      <4>1. hist[j] = tokens[j]
        BY <2>2, <3>3
      <4>. QED  BY <3>1, <3>3, <4>1 DEF Inv, Ordered
    <3>. QED  BY <2>2, <3>2, <3>3
  <2>. QED  BY <1>2, <1>4, <2>1, <2>2, <2>3, <2>5
<1>. QED  BY <1>3, <1>4

(* What is appended is last.                                               *)
LEMMA NewestIsLast ==
  ASSUME NEW s \in Seq(Scanned), NEW e \in Scanned
  PROVE  Append(s, e)[Len(Append(s, e))] = e
BY AppendProperties

(* A token that returns is later than all before it.                       *)
LEMMA ReturnsKeeps ==
  ASSUME Inv, Returns
  PROVE  Inv'
<1>1. /\ src' = src /\ pb' = pb /\ pc' = "idle" /\ loc' = NoLocals
      /\ this' \in Current /\ this'.Tok # "none" /\ At(this', Start)
      /\ tokens' = Recorded(this', Start, at'.offset)
      /\ Live /\ Place(at') /\ Start < at'.offset
      /\ unterminated' \in {unterminated, TRUE}
      /\ unterminated' # unterminated => at'.ch = End
  BY DEF Returns
<1>2. /\ at' \in [offset : 0 .. Len(src), ch : Rune, chw : 0 .. 2, line : Nat, col : Nat]
      /\ at'.offset \in 0 .. Len(src) /\ Len(src) \in Nat
  BY <1>1, PlacesAreTyped DEF Inv, TypeOK
<1>3. ~Exhausted /\ pc # "idle" /\ pc # "panic"
  BY <1>1 DEF Live
<1>4. /\ tokens' \in Seq(Scanned) /\ tokens' # <<>>
      /\ \A i \in DOMAIN tokens' : At(tokens'[i], tokens'[i].from)
      /\ \A j \in DOMAIN tokens' : \A i \in 1 .. j - 1 :
           tokens'[i].from < tokens'[j].from
  BY <1>1, <1>2, <1>3, HistoryGrows
<1>5. Place(at)'
  BY <1>1 DEF Place, RuneAt, WidthAt, TwoBytes, Newlines, InColumn
<1>6. TypeOK'
  <2>1. NoLocals \in Locals(at')
    <3>1. <<>> \in Seq(Byte)
      OBVIOUS
    <3>. QED  BY <1>2, <3>1 DEF NoLocals, Locals
  <2>. QED  BY <1>1, <1>2, <1>4, <2>1 DEF Inv, TypeOK, Locals, Scanned, Points
<1>7. Positioned'
  BY <1>1, <1>4 DEF Positioned, InToken, At, Newlines, InColumn
<1>8. Ordered'
  <2>1. Start' = at'.offset
    BY <1>1 DEF Start, InToken
  <2>2. Latest'.from < at'.offset
    <3>1. CASE tokens' = tokens /\ tokens # <<>>
      <4>1. Latest.from < Start
        BY <1>3, <3>1 DEF Inv, Ordered
      <4>2. Latest.from \in Nat /\ Start \in Nat /\ at'.offset \in Nat
        BY <1>2, <3>1, LatestIsScanned DEF Inv, TypeOK, Start
      <4>. QED  BY <1>1, <3>1, <4>1, <4>2 DEF Latest
    <3>2. CASE \E e \in Scanned : tokens' = Append(tokens, e) /\ e.from = Start
      <4>1. tokens \in Seq(Scanned)
        BY DEF Inv, TypeOK, Scanned
      <4>. QED  BY <1>1, <3>2, <4>1, NewestIsLast DEF Latest
    <3>. QED  BY <1>1, <1>2, <1>3, <3>1, <3>2, HistoryGrows
  <2>. QED  BY <1>4, <2>1, <2>2 DEF Ordered
<1>9. Delivered'
  <2>1. ~unterminated
    BY <1>3 DEF Inv, Delivered
  <2>2. pb = Nothing
    BY <1>3 DEF Inv, Delivered
  <2>. QED  BY <1>1, <1>4, <2>1, <2>2 DEF Delivered, Exhausted
<1>. QED  BY <1>5, <1>6, <1>7, <1>8, <1>9 DEF Inv

(* The end of the text is later than every token, and comes once.          *)
LEMMA EndsKeeps ==
  ASSUME Inv, Ends
  PROVE  Inv'
<1>1. /\ src' = src /\ at' = at /\ pb' = pb /\ unterminated' = unterminated
      /\ pc = "redo" /\ at.ch = End /\ pc' = "idle" /\ loc' = NoLocals
      /\ this' \in Current /\ this'.Tok = EOF /\ At(this', at.offset)
      /\ tokens' = Recorded(this', at.offset, at.offset)
  BY DEF Ends
<1>2. at.offset \in 0 .. Len(src) /\ Start = at.offset
  BY <1>1 DEF Inv, TypeOK, Start, InToken
<1>3. /\ tokens' \in Seq(Scanned) /\ tokens' # <<>>
      /\ \A i \in DOMAIN tokens' : At(tokens'[i], tokens'[i].from)
      /\ \A j \in DOMAIN tokens' : \A i \in 1 .. j - 1 :
           tokens'[i].from < tokens'[j].from
  BY <1>1, <1>2, HistoryGrows
<1>4. Place(at)'
  BY <1>1 DEF Inv, Place, RuneAt, WidthAt, TwoBytes, Newlines, InColumn
<1>5. TypeOK'
  <2>1. NoLocals \in Locals(at)
    <3>1. <<>> \in Seq(Byte) /\ Len(src) \in Nat
      BY DEF Inv, TypeOK
    <3>. QED  BY <1>2, <3>1 DEF NoLocals, Locals
  <2>. QED  BY <1>1, <1>3, <2>1 DEF Inv, TypeOK, Locals, Scanned, Points
<1>6. Positioned'
  BY <1>1, <1>3 DEF Positioned, InToken, At, Newlines, InColumn
<1>7. Ordered'
  <2>1. Exhausted'
    BY <1>1 DEF Exhausted
  <2>2. Latest'.Tok = EOF
    <3>1. CASE tokens' = tokens /\ Latest.Tok = EOF
      BY <3>1 DEF Latest
    <3>2. CASE \E e \in Scanned : tokens' = Append(tokens, e) /\ e.Tok = EOF
      <4>1. tokens \in Seq(Scanned)
        BY DEF Inv, TypeOK, Scanned
      <4>. QED  BY <3>2, <4>1, NewestIsLast DEF Latest
    <3>. QED  BY <1>1, <1>2, <3>1, <3>2, HistoryGrows
  <2>. QED  BY <1>3, <2>1, <2>2 DEF Ordered
<1>8. Delivered'
  BY <1>1, <1>3 DEF Inv, Delivered, Exhausted, EOF
<1>. QED  BY <1>4, <1>5, <1>6, <1>7, <1>8 DEF Inv

(* A panic leaves what was scanned as it is.                               *)
LEMMA PanicsKeeps ==
  ASSUME Inv, Panics
  PROVE  Inv'
<1>1. /\ src' = src /\ at' = at /\ this' = this /\ pb' = pb /\ loc' = loc
      /\ tokens' = tokens /\ pc = "quoted" /\ pc' = "panic" /\ unterminated' = TRUE
  BY DEF Panics
<1>2. TypeOK' /\ Place(at)'
  BY <1>1 DEF Inv, TypeOK, Points, Place, RuneAt, WidthAt, TwoBytes, Newlines, InColumn
<1>3. Positioned'
  BY <1>1 DEF Inv, Positioned, InToken, At, Newlines, InColumn
<1>4. Ordered'
  <2>1. Start = loc.from /\ Start' = at.offset /\ loc.from < at.offset /\ ~Exhausted
    BY <1>1 DEF Inv, Positioned, Start, InToken, Exhausted
  <2>2. tokens # <<>> => Latest.from \in Nat
    BY LatestIsScanned DEF Inv
  <2>3. loc.from \in Nat /\ at.offset \in Nat
    BY DEF Inv, TypeOK
  <2>. QED  BY <1>1, <2>1, <2>2, <2>3 DEF Inv, Ordered, Latest
<1>5. Delivered'
  BY <1>1 DEF Inv, Delivered
<1>. QED  BY <1>2, <1>3, <1>4, <1>5 DEF Inv

(* The calls of the client.                                                *)
LEMMA ClientKeeps ==
  ASSUME Inv, PushBack \/ Redeliver
  PROVE  Inv'
<1>0. /\ this \in Current /\ pb \in Current /\ Nothing \in Current
      /\ tokens # <<>> => this.Tok # "none"
      /\ pb # Nothing => tokens # <<>> /\ pb.Tok # "none"
  <2>1. <<>> \in Seq(Byte)
    OBVIOUS
  <2>2. Nothing \in Current
    BY <2>1 DEF Nothing, Current, Kind
  <2>. QED  BY <2>2 DEF Inv, TypeOK, Delivered
<1>1. /\ src' = src /\ at' = at /\ pc' = pc /\ loc' = loc /\ tokens' = tokens
      /\ unterminated' = unterminated /\ pc = "idle"
      /\ this' \in Current /\ pb' \in Current
      /\ this'.Tok # "none" /\ tokens # <<>>
      /\ pb' # Nothing => pb'.Tok # "none"
  <2>1. CASE PushBack
    BY <1>0, <2>1 DEF PushBack
  <2>2. CASE Redeliver
    BY <1>0, <2>2 DEF Redeliver
  <2>. QED  BY <2>1, <2>2
<1>2. TypeOK' /\ Place(at)'
  BY <1>1 DEF Inv, TypeOK, Place, RuneAt, WidthAt, TwoBytes, Newlines, InColumn
<1>3. Positioned' /\ Ordered'
  BY <1>1 DEF Inv, Positioned, Ordered, InToken, At, Newlines, InColumn, Latest,
     Start, Exhausted
<1>4. Delivered'
  BY <1>1 DEF Inv, Delivered, Exhausted
<1>. QED  BY <1>2, <1>3, <1>4 DEF Inv

(* The state alone decides.                                                *)
LEMMA StutteringKeeps ==
  ASSUME Inv, UNCHANGED vars
  PROVE  Inv'
<1>1. /\ src' = src /\ at' = at /\ this' = this /\ pb' = pb /\ pc' = pc
      /\ loc' = loc /\ unterminated' = unterminated /\ tokens' = tokens
  BY DEF vars
<1>2. TypeOK' /\ Place(at)'
  BY <1>1 DEF Inv, TypeOK, Place, RuneAt, WidthAt, TwoBytes, Newlines, InColumn
<1>3. Positioned' /\ Ordered' /\ Delivered'
  BY <1>1 DEF Inv, Positioned, Ordered, Delivered, At, Newlines, InColumn, Latest,
     Start, Exhausted
<1>. QED  BY <1>2, <1>3 DEF Inv

----------------------------------------------------------------------------
(* What the operators that the actions share amount to.                    *)

(* A slice that ends within the text is made of its bytes.                 *)
LEMMA SlicesAreBytes ==
  ASSUME src \in Seq(Byte), NEW a \in Nat, NEW b \in 0 .. Len(src)
  PROVE  Slice(a, b) \in Seq(Byte)
<1>1. \A i \in a + 1 .. b : src[i] \in Byte
  OBVIOUS
<1>. QED  BY <1>1, SubSeqProperties DEF Slice

(* Kind and literal do not change the position of a token.                 *)
LEMMA FilledIn ==
  ASSUME NEW t \in Current, NEW kind \in Kind, NEW lit \in Seq(Byte),
         NEW o, At(t, o)
  PROVE  /\ [t EXCEPT !.Tok = kind, !.Lit = lit] \in Current
         /\ [t EXCEPT !.Tok = kind, !.Lit = lit].Tok = kind
         /\ At([t EXCEPT !.Tok = kind, !.Lit = lit], o)
BY DEF Current, At

(* "-" and "/" are recorded from the place behind them.                    *)
LEMMA MarkedAfterIsHere ==
  ASSUME TypeOK, Place(at), at.ch \in {"-", "/"}
  PROVE  MarkedAfter(NextCh(at)) \in Current /\ At(MarkedAfter(NextCh(at)), at.offset)
<1>. DEFINE p == NextCh(at)
<1>1. src \in Seq(Byte) /\ this \in Current /\ at.line \in Nat /\ at.col \in Nat
      /\ at.offset \in 0 .. Len(src)
  BY DEF TypeOK
<1>2. /\ at.ch = RuneAt(at.offset) /\ at.chw = WidthAt(at.offset)
      /\ at.line = Newlines(at.offset) /\ InColumn(at.offset, at.col)
  BY DEF Place
<1>3. at.ch \in Byte \ {"xA9"} /\ at.ch # "\n"
  BY DEF Byte, OpChars
<1>4. at.chw = 1
  BY <1>1, <1>2, <1>3, RunesAreRead
<1>5. p.line = at.line /\ p.col = at.col + 1
  BY <1>1, <1>3, <1>4, NextChIsAPlace
<1>. HIDE DEF p
<1>6. /\ MarkedAfter(p) \in Current
      /\ MarkedAfter(p).Line = at.line + 1 /\ MarkedAfter(p).Col = at.col + 1
  <2>1. at.line + 1 \in Nat /\ at.col + 1 \in Nat
    BY <1>1
  <2>2. MarkedAfter(p) = [this EXCEPT !.Line = at.line + 1, !.Col = at.col + 1]
    BY <1>5 DEF MarkedAfter
  <2>. QED  BY <1>1, <2>1, <2>2 DEF Current
<1>7. (at.col + 1) - 1 = at.col
  BY <1>1
<1>. QED  BY <1>1, <1>2, <1>6, <1>7 DEF At, p

(* Going on elsewhere is moving on.                                        *)
LEMMA GotoGoes ==
  ASSUME Inv, Live, NEW point \in Points \ {"panic"}, NEW p, Place(p),
         at.offset <= p.offset, NEW l \in Locals(p),
         point \in InToken <=> pc \in InToken,
         pc \in InToken => l.from = loc.from,
         Goto(point, p, l)
  PROVE  Goes
BY DEF Goto, Goes, Inv, Delivered, Live

(* A turn of a loop is moving on.                                          *)
LEMMA MoveGoes ==
  ASSUME Inv, Live, Move
  PROVE  Goes
<1>1. src \in Seq(Byte) /\ Len(src) \in Nat /\ at.offset \in 0 .. Len(src)
      /\ pc \in Points /\ loc \in Locals(at) /\ Place(at)
  BY DEF Inv, TypeOK, Locals
<1>2. /\ Place(NextCh(at)) /\ at.offset <= NextCh(at).offset
      /\ NextCh(at).offset \in 0 .. Len(src)
  BY <1>1, NextChIsAPlace, PlacesAreTyped
<1>3. loc \in Locals(NextCh(at))
  BY <1>1, <1>2 DEF Locals
<1>. QED  BY <1>1, <1>2, <1>3 DEF Move, Goes, Inv, Delivered, Live

(* Enter begins a token.                                                   *)
LEMMA EnterEnters ==
  ASSUME Inv, pc = "redo", at.ch # End, NEW point \in InToken, NEW p, Place(p),
         at.offset < p.offset, NEW l \in Locals(p), Enter(point, p, l)
  PROVE  Enters
<1>1. at.offset \in 0 .. Len(src)
  BY DEF Inv, TypeOK
<1>2. /\ [l EXCEPT !.from = at.offset] \in Locals(p)
      /\ [l EXCEPT !.from = at.offset].from = at.offset
  BY <1>1 DEF Locals
<1>. QED  BY <1>2 DEF Enter, Enters

(* Return returns the token it is given.                                   *)
LEMMA ReturnReturns ==
  ASSUME Inv, Live, NEW t \in Current, t.Tok # "none", At(t, Start),
         t.Tok = EOF => \E k \in DOMAIN src : src[k] \in Control,
         NEW p, Place(p), Start < p.offset, Return(t, Start, p),
         \/ UNCHANGED unterminated
         \/ unterminated' = TRUE /\ p.ch = End /\ t.Tok \in {"SCONST", "IDENT"}
  PROVE  Returns
BY DEF Return, Returns, Recorded

(* A token of one step.                                                    *)
LEMMA EmitReturns ==
  ASSUME Inv, pc = "redo", at.ch # End, NEW kind \in Kind \ {"none"},
         kind = EOF => \E k \in DOMAIN src : src[k] \in Control,
         NEW lit \in Seq(Byte), NEW p, Place(p), at.offset < p.offset,
         Emit(kind, lit, p)
  PROVE  Returns
<1>. DEFINE t == [Marked EXCEPT !.Tok = kind, !.Lit = lit]
<1>1. Live /\ Start = at.offset
  BY DEF Live, Exhausted, Start, InToken
<1>2. t \in Current /\ t.Tok = kind /\ At(t, at.offset)
  BY MarkedIsHere, FilledIn DEF Inv
<1>. HIDE DEF t
<1>3. Return(t, Start, p) /\ UNCHANGED unterminated
  BY <1>1 DEF Emit, t
<1>. QED  BY <1>1, <1>2, <1>3, ReturnReturns

(* The end of a token of several steps.                                    *)
LEMMA FinishReturns ==
  ASSUME Inv, pc \in InToken, NEW kind \in Kind \ {"none", EOF},
         NEW lit \in Seq(Byte), NEW p, Place(p), at.offset <= p.offset,
         Finish(kind, lit, p)
  PROVE  Returns
<1>. DEFINE t == [this EXCEPT !.Tok = kind, !.Lit = lit]
<1>1. /\ Live /\ Start = loc.from /\ this \in Current /\ At(this, loc.from)
      /\ loc.from < at.offset
  BY DEF Live, Exhausted, Start, InToken, Inv, TypeOK, Positioned
<1>2. t \in Current /\ t.Tok = kind /\ At(t, loc.from)
  BY <1>1, FilledIn
<1>3. Start < p.offset
  BY <1>1, PlacesAreTyped DEF Inv, TypeOK
<1>. HIDE DEF t
<1>4. Return(t, Start, p) /\ UNCHANGED unterminated
  BY <1>1 DEF Finish, t
<1>. QED  BY <1>1, <1>2, <1>3, <1>4, ReturnReturns

(* A token that the end of the text cuts off.                              *)
LEMMA UnclosedReturns ==
  ASSUME Inv, pc \in InToken, at.ch = End, NEW kind \in {"SCONST", "IDENT"},
         NEW lit \in Seq(Byte), Unclosed(kind, lit)
  PROVE  Returns
<1>. DEFINE t == [this EXCEPT !.Tok = kind, !.Lit = lit]
<1>1. /\ Live /\ Start = loc.from /\ this \in Current /\ At(this, loc.from)
      /\ loc.from < at.offset /\ Place(at)
  BY DEF Live, Exhausted, Start, InToken, Inv, TypeOK, Positioned
<1>2. kind \in Kind /\ kind # "none" /\ kind # EOF
  BY DEF Kind, Token, Names, WordStart, QuotedNames, Symbols, EOF
<1>3. t \in Current /\ t.Tok = kind /\ At(t, loc.from)
  BY <1>1, <1>2, FilledIn
<1>. HIDE DEF t
<1>4. Return(t, Start, at) /\ unterminated' = TRUE
  BY <1>1 DEF Unclosed, t
<1>. QED  BY <1>1, <1>2, <1>3, <1>4, ReturnReturns

----------------------------------------------------------------------------
(* The actions.                                                            *)

(* The place, and the two after it.                                        *)
LEMMA Ahead ==
  ASSUME Inv
  PROVE  /\ src \in Seq(Byte) /\ Len(src) \in Nat /\ at.offset \in 0 .. Len(src)
         /\ Place(at) /\ at.ch \in Rune
         /\ Place(NextCh(at)) /\ NextCh(at).offset \in 0 .. Len(src)
         /\ at.offset <= NextCh(at).offset
         /\ at.ch # End => at.offset < NextCh(at).offset
         /\ at.ch \in Byte \ {"xA9"} => NextCh(at).offset = at.offset + 1
         /\ Place(NextCh(NextCh(at))) /\ NextCh(NextCh(at)).offset \in 0 .. Len(src)
         /\ NextCh(at).offset <= NextCh(NextCh(at)).offset
<1>1. /\ src \in Seq(Byte) /\ Len(src) \in Nat /\ at.offset \in 0 .. Len(src)
      /\ Place(at) /\ at.ch \in Rune
  BY DEF Inv, TypeOK
<1>2. /\ Place(NextCh(at)) /\ at.offset <= NextCh(at).offset
      /\ at.ch # End => at.offset < NextCh(at).offset
      /\ at.ch \in Byte \ {"xA9"} => NextCh(at).offset = at.offset + 1
  BY <1>1, NextChIsAPlace
<1>3. Place(NextCh(NextCh(at))) /\ NextCh(at).offset <= NextCh(NextCh(at)).offset
  BY <1>1, <1>2, NextChIsAPlace
<1>. QED  BY <1>1, <1>2, <1>3, PlacesAreTyped

(* Locals keep their types when the place moves on.                        *)
LEMMA LocalsAhead ==
  ASSUME Inv, NEW p, p.offset \in 0 .. Len(src), at.offset <= p.offset
  PROVE  /\ loc \in Locals(at) /\ loc \in Locals(p) /\ NoLocals \in Locals(p)
         /\ loc.start \in 0 .. at.offset /\ loc.depth \in Nat
         /\ loc.buf \in Seq(Byte) /\ loc.left \in Nat
<1>1. /\ loc \in Locals(at) /\ Len(src) \in Nat /\ at.offset \in 0 .. Len(src)
      /\ <<>> \in Seq(Byte)
  BY DEF Inv, TypeOK, Locals
<1>. QED  BY <1>1 DEF Locals, NoLocals

(* At a token's first character.                                           *)
LEMMA AtFirst ==
  ASSUME pc = "redo", at.ch # End
  PROVE  Live /\ pc \notin InToken /\ Start = at.offset
BY DEF Live, Exhausted, InToken, Start

(* Within a token there is something left to do.                           *)
LEMMA InAToken ==
  ASSUME Inv, pc \in InToken
  PROVE  Live /\ pc \in Points \ {"panic"}
BY DEF Live, Exhausted, InToken, Inv, TypeOK

(* Blanks.                                                                 *)
LEMMA SkipSpaceStep ==
  ASSUME Inv, SkipSpace
  PROVE  Goes
<1>1. pc = "redo" /\ at.ch # End /\ Move
  BY DEF SkipSpace, Spaces, End
<1>. QED  BY <1>1, AtFirst, MoveGoes

(* A minus: a comment, an arrow, or itself.                                *)
LEMMA MinusStep ==
  ASSUME Inv, Minus
  PROVE  Goes \/ Returns
<1>. DEFINE p == NextCh(at)
            t == MarkedAfter(p)
<1>1. /\ pc = "redo" /\ at.ch = "-" /\ at.ch # End
      /\ Live /\ pc \notin InToken /\ Start = at.offset
  BY AtFirst DEF Minus, End
<1>2. t \in Current /\ At(t, at.offset)
  BY <1>1, MarkedAfterIsHere DEF Inv
<1>3. /\ Place(p) /\ Place(NextCh(p)) /\ at.offset < p.offset
      /\ at.offset <= p.offset /\ at.offset < NextCh(p).offset
  BY <1>1, Ahead
<1>4. {"OP", "-"} \subseteq Kind /\ <<"-", ">">> \in Seq(Byte) /\ <<"-">> \in Seq(Byte)
  BY DEF Kind, Token, Symbols, Byte, OpChars
<1>5. CASE p.ch = "-"
  <2>1. Goto("line comment", p, loc)
    BY <1>1, <1>5 DEF Minus
  <2>2. "line comment" \in Points \ {"panic"} /\ "line comment" \notin InToken
    BY DEF Points, InToken
  <2>3. loc \in Locals(p)
    BY <1>3, Ahead, LocalsAhead
  <2>. HIDE DEF p
  <2>. QED  BY <1>1, <1>3, <2>1, <2>2, <2>3, GotoGoes
<1>6. CASE p.ch = ">"
  <2>. DEFINE r == [t EXCEPT !.Tok = "OP", !.Lit = <<"-", ">">>]
  <2>1. Return(r, at.offset, NextCh(p)) /\ UNCHANGED unterminated
    BY <1>1, <1>6 DEF Minus
  <2>2. r \in Current /\ r.Tok = "OP" /\ At(r, at.offset)
    BY <1>2, <1>4, FilledIn
  <2>. HIDE DEF p, t, r
  <2>. QED  BY <1>1, <1>3, <2>1, <2>2, ReturnReturns DEF EOF
<1>7. CASE p.ch \notin {"-", ">"}
  <2>. DEFINE r == [t EXCEPT !.Tok = "-", !.Lit = <<"-">>]
  <2>1. Return(r, at.offset, p) /\ UNCHANGED unterminated
    BY <1>1, <1>7 DEF Minus
  <2>2. r \in Current /\ r.Tok = "-" /\ At(r, at.offset)
    BY <1>2, <1>4, FilledIn
  <2>. HIDE DEF p, t, r
  <2>. QED  BY <1>1, <1>3, <2>1, <2>2, ReturnReturns DEF EOF
<1>. QED  BY <1>5, <1>6, <1>7

(* One character of a comment, or its end.                                 *)
LEMMA LineCommentStep ==
  ASSUME Inv, LineComment
  PROVE  Goes
<1>1. /\ pc = "line comment" /\ Live /\ pc \notin InToken
      /\ "redo" \in Points \ {"panic"} /\ "redo" \notin InToken
  BY DEF LineComment, Live, Exhausted, InToken, Points
<1>2. CASE Move
  BY <1>1, <1>2, MoveGoes
<1>3. CASE Goto("redo", at, loc)
  <2>1. loc \in Locals(at) /\ at.offset <= at.offset /\ Place(at)
    BY Ahead, LocalsAhead
  <2>. QED  BY <1>1, <1>3, <2>1, GotoGoes
<1>. QED  BY <1>2, <1>3 DEF LineComment

(* A slash: a comment, or itself.                                          *)
LEMMA SlashStep ==
  ASSUME Inv, Slash
  PROVE  Goes \/ Returns
<1>. DEFINE p == NextCh(at)
            t == MarkedAfter(p)
<1>1. /\ pc = "redo" /\ at.ch = "/" /\ at.ch # End
      /\ Live /\ pc \notin InToken /\ Start = at.offset
  BY AtFirst DEF Slash, End
<1>2. /\ Place(p) /\ Place(NextCh(p)) /\ at.offset < p.offset
      /\ at.offset < NextCh(p).offset /\ at.offset <= NextCh(p).offset
  BY <1>1, Ahead
<1>3. CASE p.ch = "*"
  <2>. DEFINE l == [loc EXCEPT !.depth = 1]
  <2>1. Goto("block comment", NextCh(p), l)
    BY <1>1, <1>3 DEF Slash
  <2>2. "block comment" \in Points \ {"panic"} /\ "block comment" \notin InToken
    BY DEF Points, InToken
  <2>3. l \in Locals(NextCh(p))
    <3>1. loc \in Locals(NextCh(p))
      BY <1>2, Ahead, LocalsAhead
    <3>. QED  BY <3>1 DEF Locals
  <2>. HIDE DEF p, l
  <2>. QED  BY <1>1, <1>2, <2>1, <2>2, <2>3, GotoGoes
<1>4. CASE p.ch # "*"
  <2>. DEFINE r == [t EXCEPT !.Tok = "/", !.Lit = <<"/">>]
  <2>1. Return(r, at.offset, p) /\ UNCHANGED unterminated
    BY <1>1, <1>4 DEF Slash
  <2>2. t \in Current /\ At(t, at.offset)
    BY <1>1, MarkedAfterIsHere DEF Inv
  <2>3. "/" \in Kind /\ <<"/">> \in Seq(Byte)
    BY DEF Kind, Byte, OpChars
  <2>4. r \in Current /\ r.Tok = "/" /\ At(r, at.offset)
    BY <2>2, <2>3, FilledIn
  <2>. HIDE DEF p, t, r
  <2>. QED  BY <1>1, <1>2, <2>1, <2>4, ReturnReturns DEF EOF
<1>. QED  BY <1>3, <1>4

(* One turn of the loop over a comment.                                    *)
LEMMA BlockCommentStep ==
  ASSUME Inv, BlockComment
  PROVE  Goes
<1>. DEFINE p == NextCh(at)
            q == NextCh(p)
<1>1. /\ pc = "block comment" /\ Live /\ pc \notin InToken
      /\ "redo" \in Points \ {"panic"} /\ "redo" \notin InToken
      /\ pc \in Points \ {"panic"}
  BY DEF BlockComment, Live, Exhausted, InToken, Points
<1>2. /\ Place(q) /\ at.offset <= q.offset /\ q.offset \in 0 .. Len(src)
      /\ at.offset <= at.offset /\ Place(at)
  BY Ahead
<1>3. loc \in Locals(q) /\ NoLocals \in Locals(at) /\ loc.depth \in Nat
  BY <1>2, Ahead, LocalsAhead
<1>4. \A d \in Nat : [loc EXCEPT !.depth = d] \in Locals(q)
  BY <1>3 DEF Locals
<1>5. CASE Goto("redo", at, NoLocals)
  BY <1>1, <1>2, <1>3, <1>5, GotoGoes
<1>6. CASE \E d \in Nat : Goto(pc, q, [loc EXCEPT !.depth = d])
  <2>1. PICK d \in Nat : Goto(pc, q, [loc EXCEPT !.depth = d])
    BY <1>6
  <2>. HIDE DEF q
  <2>. QED  BY <1>1, <1>2, <1>4, <2>1, GotoGoes
<1>7. CASE Move
  BY <1>1, <1>7, MoveGoes
<1>8. loc.depth + 1 \in Nat /\ (loc.depth # 0 => loc.depth - 1 \in Nat)
  BY <1>3
<1>. QED  BY <1>5, <1>6, <1>7, <1>8 DEF BlockComment

(* The end of the text.                                                    *)
LEMMA EndOfInputStep ==
  ASSUME Inv, EndOfInput
  PROVE  Ends
<1>. DEFINE t == [Marked EXCEPT !.Tok = EOF, !.Lit = <<>>]
<1>1. EOF \in Kind /\ <<>> \in Seq(Byte)
  BY DEF Kind, Token
<1>2. t \in Current /\ t.Tok = EOF /\ At(t, at.offset)
  BY <1>1, MarkedIsHere, FilledIn DEF Inv
<1>3. Return(t, at.offset, at) /\ UNCHANGED unterminated /\ pc = "redo" /\ at.ch = End
  BY DEF EndOfInput, Emit
<1>. HIDE DEF t
<1>. QED  BY <1>2, <1>3 DEF Return, Ends, Recorded

(* The kinds that the scan functions return.                               *)
LEMMA ScannedKinds ==
  /\ {"WORD", "CWORD", "ICONST", "FCONST", "PARAM", "SCONST", "IDENT", "OP",
      "$", ".", ".."} \subseteq Kind \ {"none", EOF}
  /\ Reserved \cup Unreserved \subseteq Kind \ {"none", EOF}
<1>1. {"WORD", "CWORD", "ICONST", "FCONST", "PARAM", "SCONST", "IDENT", "OP",
       "$", ".", ".."} \subseteq Kind \ {"none", EOF}
  BY DEF Kind, Token, Names, WordStart, QuotedNames, Symbols, Byte, EOF
<1>2. "none" \notin Reserved \cup Unreserved /\ EOF \notin Reserved \cup Unreserved
  BY DEF Reserved, Unreserved, EOF
<1>. QED  BY <1>1, <1>2 DEF Kind, Token

(* Only the end of the text is the end.                                    *)
LEMMA EndIsNoByte ==
  /\ End \notin Byte /\ End \notin IdentStart /\ End \notin Digits
  /\ End \notin OpChars
BY DEF End, Byte, Spaces, Digits, Letters, OpChars, Control, High, IdentStart

(* The text of the token in progress.                                      *)
LEMMA TextIsBytes ==
  ASSUME Inv
  PROVE  Slice(loc.start, at.offset) \in Seq(Byte)
<1>1. src \in Seq(Byte) /\ loc.start \in Nat /\ at.offset \in 0 .. Len(src)
  BY DEF Inv, TypeOK
<1>. QED  BY <1>1, SlicesAreBytes

(* What is common to the loops of the scan functions: they go on in the    *)
(* token, or return the text from its start.                               *)
LEMMA TokenGoes ==
  ASSUME Inv, pc \in InToken, NEW point \in InToken,
         NEW p \in {at, NextCh(at), NextCh(NextCh(at))}, Goto(point, p, loc)
  PROVE  Goes
<1>1. Place(p) /\ at.offset <= p.offset /\ p.offset \in 0 .. Len(src)
  BY Ahead
<1>2. loc \in Locals(p)
  BY <1>1, LocalsAhead
<1>3. Live /\ point \in Points \ {"panic"}
  BY InAToken DEF InToken, Points
<1>. QED  BY <1>1, <1>2, <1>3, GotoGoes

(* A token whose literal is its text.                                      *)
LEMMA TokenFinishes ==
  ASSUME Inv, pc \in InToken,
         NEW kind \in {"WORD", "CWORD", "ICONST", "FCONST", "PARAM", "OP"},
         Finish(kind, Slice(loc.start, at.offset), at)
  PROVE  Returns
<1>1. Place(at) /\ at.offset <= at.offset /\ kind \in Kind \ {"none", EOF}
  BY Ahead, ScannedKinds
<1>. QED  BY <1>1, TextIsBytes, FinishReturns

(* The locals with which a token begins.                                   *)
LEMMA StartedHere ==
  ASSUME Inv, NEW p, Place(p), NEW s \in 0 .. p.offset
  PROVE  [NoLocals EXCEPT !.start = s] \in Locals(p)
<1>1. <<>> \in Seq(Byte) /\ Len(src) \in Nat
  BY DEF Inv, TypeOK
<1>2. [NoLocals EXCEPT !.start = s]
        = [from |-> 0, start |-> s, depth |-> 0, buf |-> <<>>, left |-> 0]
  BY DEF NoLocals
<1>3. 0 \in 0 .. Len(src)
  BY <1>1
<1>4. [from |-> 0, start |-> s, depth |-> 0, buf |-> <<>>, left |-> 0] \in Locals(p)
  BY <1>1, <1>3 DEF Locals
<1>. QED  BY <1>2, <1>4

(* The actions that only begin a token.                                    *)
LEMMA BeginStep ==
  ASSUME Inv,
         \/ BeginIdent \/ BeginNumber \/ BeginString \/ BeginQuotedIdent
         \/ BeginOperator
  PROVE  Enters
<1>. DEFINE p == NextCh(at)
<1>1. pc = "redo" /\ at.ch # End
  BY EndIsNoByte DEF BeginIdent, BeginNumber, BeginString, BeginQuotedIdent,
     BeginOperator, OperatorStart, End
<1>2. /\ Place(p) /\ at.offset < p.offset /\ at.offset \in 0 .. p.offset
      /\ p.offset \in 0 .. p.offset
  BY <1>1, Ahead
<1>3. /\ NoLocals \in Locals(p)
      /\ [NoLocals EXCEPT !.start = at.offset] \in Locals(p)
      /\ [NoLocals EXCEPT !.start = p.offset] \in Locals(p)
  BY <1>2, StartedHere, LocalsAhead, Ahead
<1>4. {"ident", "number", "string", "quoted", "operator"} \subseteq InToken
  BY DEF InToken
<1>5. \E point \in InToken, l \in Locals(p) : Enter(point, p, l)
  BY <1>3, <1>4 DEF BeginIdent, BeginNumber, BeginString, BeginQuotedIdent,
     BeginOperator
<1>. HIDE DEF p
<1>. QED  BY <1>1, <1>2, <1>5, EnterEnters

(* A name returns as a keyword or as a word.                               *)
LEMMA EndWordReturns ==
  ASSUME Inv, pc = "ident", EndWord(Slice(loc.start, at.offset), at)
  PROVE  Returns
<1>. DEFINE lower == ToLower(Slice(loc.start, at.offset))
            kind == Keywords[lower]
            t == [this EXCEPT !.Tok = kind, !.Lit = lower, !.Cat = Category(kind)]
<1>1. pc \in InToken
  BY DEF InToken
<1>2. CASE lower \in DOMAIN Keywords
  <2>1. Return(t, loc.from, at) /\ UNCHANGED unterminated
    BY <1>2 DEF EndWord
  <2>2. lower \in Seq(Byte) /\ kind \in Kind \ {"none", EOF}
    BY <1>2, ScannerAssumption, ScannedKinds
  <2>3. /\ Live /\ Start = loc.from /\ this \in Current /\ At(this, loc.from)
        /\ loc.from < at.offset /\ Place(at)
    BY <1>1, InAToken DEF Start, Inv, TypeOK, Positioned
  <2>. HIDE DEF lower
  <2>4. t \in Current /\ t.Tok = kind /\ At(t, loc.from)
    BY <2>2, <2>3 DEF Current, At, Category
  <2>. HIDE DEF t, kind
  <2>. QED  BY <2>1, <2>2, <2>3, <2>4, ReturnReturns
<1>3. CASE lower \notin DOMAIN Keywords
  BY <1>1, <1>3, TokenFinishes DEF EndWord
<1>. QED  BY <1>2, <1>3

(* One turn of the loop over a name, or its end.                           *)
LEMMA ScanIdentStep ==
  ASSUME Inv, ScanIdent
  PROVE  Goes \/ Returns
<1>1. pc = "ident" /\ pc \in InToken /\ "composite" \in InToken /\ Live
  BY InAToken DEF ScanIdent, InToken
<1>2. CASE Move
  BY <1>1, <1>2, MoveGoes
<1>3. CASE Goto("composite", NextCh(at), loc)
  BY <1>1, <1>3, TokenGoes
<1>4. CASE EndWord(Slice(loc.start, at.offset), at)
  BY <1>1, <1>4, EndWordReturns
<1>. QED  BY <1>2, <1>3, <1>4 DEF ScanIdent, Restored

(* One turn of the loop over a composite name, or its end.                 *)
LEMMA TryCompositeStep ==
  ASSUME Inv, TryComposite
  PROVE  Goes \/ Returns
<1>1. pc = "composite" /\ pc \in InToken /\ Live
  BY InAToken DEF TryComposite, InToken
<1>2. CASE Move
  BY <1>1, <1>2, MoveGoes
<1>3. CASE Goto(pc, NextCh(at), loc)
  BY <1>1, <1>3, TokenGoes
<1>4. CASE Finish("CWORD", Slice(loc.start, at.offset), at)
  BY <1>1, <1>4, TokenFinishes
<1>. QED  BY <1>2, <1>3, <1>4 DEF TryComposite, Restored

(* The loops over the digits of a number, and over its parts.              *)
LEMMA NumberStep ==
  ASSUME Inv, ScanNumber \/ Fraction \/ ExponentDigits
  PROVE  Goes \/ Returns
<1>1. /\ pc \in InToken /\ Live
      /\ "fraction" \in InToken /\ "exponent" \in InToken
  BY InAToken DEF ScanNumber, Fraction, ExponentDigits, InToken
<1>2. CASE Move
  BY <1>1, <1>2, MoveGoes
<1>3. CASE Exponent
  BY <1>1, <1>3, TokenGoes DEF Exponent
<1>4. CASE Goto("fraction", NextCh(at), loc)
  BY <1>1, <1>4, TokenGoes
<1>5. CASE \E kind \in {"ICONST", "FCONST"} :
             Finish(kind, Slice(loc.start, at.offset), at)
  BY <1>1, <1>5, TokenFinishes
<1>. QED  BY <1>2, <1>3, <1>4, <1>5 DEF ScanNumber, Fraction, ExponentDigits

(* The loops over a parameter and over an operator.                        *)
LEMMA ParamAndOperatorStep ==
  ASSUME Inv, ScanParam \/ ScanOperator
  PROVE  Goes \/ Returns
<1>1. pc \in InToken /\ Live
  BY InAToken DEF ScanParam, ScanOperator, InToken
<1>2. CASE Move
  BY <1>1, <1>2, MoveGoes
<1>3. CASE \E kind \in {"PARAM", "OP"} :
             Finish(kind, Slice(loc.start, at.offset), at)
  BY <1>1, <1>3, TokenFinishes
<1>. QED  BY <1>2, <1>3 DEF ScanParam, ScanOperator

(* A dot: a number, two dots, or itself.                                   *)
LEMMA DotStep ==
  ASSUME Inv, Dot
  PROVE  Enters \/ Returns
<1>. DEFINE p == NextCh(at)
<1>1. pc = "redo" /\ at.ch = "." /\ at.ch # End /\ at.ch \in Byte \ {"xA9"}
  BY DEF Dot, End, Byte
<1>2. /\ Place(p) /\ Place(NextCh(p)) /\ at.offset < p.offset
      /\ at.offset < NextCh(p).offset /\ p.offset - 1 \in 0 .. p.offset
  BY <1>1, Ahead
<1>3. /\ {".", ".."} \subseteq Kind \ {"none", EOF} /\ "fraction" \in InToken
      /\ <<".", ".">> \in Seq(Byte) /\ <<".">> \in Seq(Byte)
  BY ScannedKinds DEF InToken, Byte
<1>4. CASE p.ch \in Digits
  <2>. DEFINE l == [NoLocals EXCEPT !.start = p.offset - 1]
  <2>1. Enter("fraction", p, l)
    BY <1>4 DEF Dot
  <2>2. l \in Locals(p)
    BY <1>2, StartedHere
  <2>. HIDE DEF p, l
  <2>. QED  BY <1>1, <1>2, <1>3, <2>1, <2>2, EnterEnters
<1>5. CASE Emit("..", <<".", ".">>, NextCh(p))
  <2>. HIDE DEF p
  <2>. QED  BY <1>1, <1>2, <1>3, <1>5, EmitReturns
<1>6. CASE Emit(".", <<".">>, p)
  <2>. HIDE DEF p
  <2>. QED  BY <1>1, <1>2, <1>3, <1>6, EmitReturns
<1>. QED  BY <1>4, <1>5, <1>6 DEF Dot

(* A token of two characters, or of the first of them.                     *)
LEMMA PairOrSelfStep ==
  ASSUME Inv, PairOrSelf
  PROVE  Returns
<1>. DEFINE p == NextCh(at)
<1>1. pc = "redo" /\ at.ch \in {":", "<", ">", "=", "!"}
  BY DEF PairOrSelf, PairStart, Pairs
<1>2. at.ch # End /\ at.ch \in Byte
  BY <1>1 DEF End, Byte, OpChars
<1>3. /\ Place(p) /\ Place(NextCh(p)) /\ at.offset < p.offset
      /\ at.offset < NextCh(p).offset
  BY <1>2, Ahead
<1>4. CASE \E pair \in Pairs : /\ pair[1] = at.ch /\ pair[2] = p.ch
                               /\ Emit(pair[3], <<at.ch, p.ch>>, NextCh(p))
  <2>1. PICK pair \in Pairs : /\ pair[1] = at.ch /\ pair[2] = p.ch
                              /\ Emit(pair[3], <<at.ch, p.ch>>, NextCh(p))
    BY <1>4
  <2>2. {"TYPECAST", ":=", "<<", "<=", "<>", ">>", ">=", "=>"}
           \subseteq Kind \ {"none", EOF}
    BY DEF Kind, Token, Symbols, EOF
  <2>3. /\ pair[2] \in {":", "=", "<", ">"}
        /\ pair[3] \in {"TYPECAST", ":=", "<<", "<=", "<>", ">>", ">=", "=>"}
    BY DEF Pairs
  <2>4. {":", "=", "<", ">"} \subseteq Byte
    BY DEF Byte, OpChars
  <2>. HIDE DEF p
  <2>5. <<at.ch, p.ch>> \in Seq(Byte)
    BY <1>2, <2>1, <2>3, <2>4
  <2>. QED  BY <1>1, <1>2, <1>3, <2>1, <2>2, <2>3, <2>5, EmitReturns
<1>5. CASE Emit(IF at.ch = "!" THEN "OP" ELSE at.ch, <<at.ch>>, p)
  <2>1. (IF at.ch = "!" THEN "OP" ELSE at.ch) \in Kind \ {"none", EOF}
    BY <1>1, ScannedKinds, ZenonT(30) DEF Kind, Byte, OpChars, EOF
  <2>2. <<at.ch>> \in Seq(Byte)
    BY <1>2
  <2>. HIDE DEF p
  <2>. QED  BY <1>1, <1>2, <1>3, <1>5, <2>1, <2>2, EmitReturns
<1>. QED  BY <1>4, <1>5 DEF PairOrSelf

(* The bytes that the scan functions put into literals themselves.         *)
LEMMA ShortLiterals ==
  ASSUME NEW a \in Byte, NEW b \in Byte
  PROVE  <<a>> \in Seq(Byte) /\ <<a, b>> \in Seq(Byte)
OBVIOUS

(* The delimiters of dollar quotes.                                        *)
LEMMA DollarIsAByte ==
  <<"$">> \in Seq(Byte) /\ <<"$", "$">> \in Seq(Byte)
<1>1. "$" \in Byte
  BY Zenon DEF Byte
<1>. QED  BY <1>1, ShortLiterals

(* The quotes.                                                             *)
LEMMA QuoteIsAByte ==
  <<"'">> \in Seq(Byte) /\ "\"" \in Byte /\ "\"" # "xA9"
<1>1. "'" \in Byte /\ "\"" \in Byte /\ "\"" # "xA9"
  BY Zenon DEF Byte
<1>. QED  BY <1>1, ShortLiterals, Zenon

(* Locals that change in the middle of a token.                            *)
LEMMA LocalsFilled ==
  ASSUME Inv, NEW p, p.offset \in 0 .. Len(src), at.offset <= p.offset,
         NEW b \in Seq(Byte), NEW n \in Nat
  PROVE  /\ [loc EXCEPT !.buf = b] \in Locals(p)
         /\ [loc EXCEPT !.left = n] \in Locals(p)
         /\ [loc EXCEPT !.buf = b, !.left = n] \in Locals(p)
         /\ [loc EXCEPT !.buf = b].from = loc.from
         /\ [loc EXCEPT !.left = n].from = loc.from
         /\ [loc EXCEPT !.buf = b, !.left = n].from = loc.from
<1>1. loc \in Locals(p)
  BY LocalsAhead
<1>. QED  BY <1>1 DEF Locals

LEMMA LocalsStarted ==
  ASSUME Inv, NEW p, p.offset \in 0 .. Len(src), at.offset <= p.offset,
         NEW s \in 0 .. p.offset, NEW b \in Seq(Byte)
  PROVE  /\ [loc EXCEPT !.start = s, !.buf = b] \in Locals(p)
         /\ [loc EXCEPT !.start = s, !.buf = b].from = loc.from
<1>1. loc \in Locals(p)
  BY LocalsAhead
<1>. QED  BY <1>1 DEF Locals

(* A turn that changes locals, in the same token.                          *)
LEMMA TokenTakes ==
  ASSUME Inv, pc \in InToken, NEW point \in InToken,
         NEW p \in {at, NextCh(at), NextCh(NextCh(at))},
         NEW l \in Locals(p), l.from = loc.from, Goto(point, p, l)
  PROVE  Goes
<1>1. Place(p) /\ at.offset <= p.offset
  BY Ahead
<1>2. Live /\ point \in Points \ {"panic"}
  BY InAToken DEF InToken, Points
<1>. QED  BY <1>1, <1>2, GotoGoes

(* One turn of the loop over a string, or its end.                         *)
LEMMA ScanStringStep ==
  ASSUME Inv, ScanString
  PROVE  Goes \/ Returns
<1>. DEFINE p == NextCh(at)
            Take(bytes, q) == Goto(pc, q, [loc EXCEPT !.buf = @ \o bytes])
<1>1. pc = "string" /\ pc \in InToken
  BY DEF ScanString, InToken
<1>2. /\ src \in Seq(Byte) /\ at.offset \in 0 .. Len(src) /\ Len(src) \in Nat
      /\ loc.buf \in Seq(Byte)
      /\ Place(p) /\ Place(NextCh(p)) /\ at.offset <= p.offset
      /\ p.offset \in 0 .. Len(src) /\ NextCh(p).offset \in 0 .. Len(src)
      /\ at.offset <= NextCh(p).offset
  <2>1. loc.buf \in Seq(Byte)
    BY DEF Inv, TypeOK
  <2>. QED  BY <2>1, Ahead
<1>3. Slice(at.offset, at.offset + at.chw) \in Seq(Byte)
  <2>1. at.chw = WidthAt(at.offset)
    BY DEF Inv, Place
  <2>2. at.offset \in Nat /\ at.offset + at.chw \in 0 .. Len(src)
    BY <1>2, <2>1, RunesAreRead
  <2>. QED  BY <1>2, <2>2, SlicesAreBytes
<1>4. CASE at.ch = End /\ Unclosed("SCONST", loc.buf)
  BY <1>1, <1>2, <1>4, UnclosedReturns
<1>5. ASSUME NEW bytes \in Seq(Byte), NEW q \in {p, NextCh(p)}, Take(bytes, q)
      PROVE  Goes
  <2>. DEFINE b == loc.buf \o bytes
  <2>1. b \in Seq(Byte)
    BY <1>2
  <2>2. /\ [loc EXCEPT !.buf = b] \in Locals(q)
        /\ [loc EXCEPT !.buf = b].from = loc.from
    <3>1. 0 \in 0 .. q.offset
      BY <1>2
    <3>. HIDE DEF b, p
    <3>. QED  BY <1>2, <2>1, <3>1, LocalsFilled
  <2>3. Goto(pc, q, [loc EXCEPT !.buf = b])
    BY <1>5
  <2>. HIDE DEF b
  <2>. QED  BY <1>1, <2>2, <2>3, TokenTakes
<1>6. CASE Finish("SCONST", loc.buf, p)
  <2>. HIDE DEF p
  <2>. QED  BY <1>1, <1>2, <1>6, ScannedKinds, FinishReturns
<1>7. \/ at.ch = End /\ Unclosed("SCONST", loc.buf)
      \/ Take(Slice(at.offset, at.offset + at.chw), p)
      \/ Take(<<"'">>, NextCh(p))
      \/ Finish("SCONST", loc.buf, p)
  BY DEF ScanString
<1>. HIDE DEF p, Take
<1>. QED  BY <1>3, <1>4, <1>5, <1>6, <1>7, QuoteIsAByte, Zenon

(* One turn of the loop over a quoted identifier, its end, or a panic.     *)
LEMMA ScanQuotedIdentStep ==
  ASSUME Inv, ScanQuotedIdent
  PROVE  Goes \/ Returns \/ Panics
<1>. DEFINE p == NextCh(at)
<1>1. pc = "quoted" /\ pc \in InToken /\ Live
  BY InAToken DEF ScanQuotedIdent, InToken
<1>2. /\ src \in Seq(Byte) /\ at.offset \in 0 .. Len(src) /\ Len(src) \in Nat
      /\ loc.start \in Nat /\ Place(p) /\ at.offset <= p.offset
      /\ at.ch \in Byte \ {"xA9"} => p.offset = at.offset + 1
  BY Ahead DEF Inv, TypeOK
<1>3. CASE at.ch = End
  <2>1. CASE loc.start <= at.offset - 1
    <3>1. at.offset - 1 \in 0 .. Len(src)
      BY <1>2, <2>1
    <3>2. Slice(loc.start, at.offset - 1) \in Seq(Byte)
      BY <1>2, <3>1, SlicesAreBytes
    <3>3. Unclosed("IDENT", Slice(loc.start, at.offset - 1))
      BY <1>3, <2>1 DEF ScanQuotedIdent
    <3>. QED  BY <1>1, <1>3, <3>2, <3>3, UnclosedReturns
  <2>2. CASE ~(loc.start <= at.offset - 1)
    BY <1>1, <1>3, <2>2 DEF ScanQuotedIdent, Panics
  <2>. QED  BY <2>1, <2>2
<1>4. CASE Move
  BY <1>1, <1>4, MoveGoes
<1>5. CASE Goto(pc, NextCh(p), loc)
  BY <1>1, <1>5, TokenGoes
<1>6. CASE at.ch = "\"" /\ Finish("IDENT", Slice(loc.start, p.offset - 1), p)
  <2>1. at.ch \in Byte \ {"xA9"}
    BY <1>6, QuoteIsAByte, Zenon
  <2>2. p.offset - 1 = at.offset
    BY <1>2, <2>1
  <2>. HIDE DEF p
  <2>3. Finish("IDENT", Slice(loc.start, at.offset), p)
    BY <1>6, <2>2
  <2>. QED  BY <1>1, <1>2, <2>3, TextIsBytes, ScannedKinds, FinishReturns
<1>. QED  BY <1>3, <1>4, <1>5, <1>6 DEF ScanQuotedIdent

(* A dollar: a parameter, a delimiter, a tag, or itself.                   *)
LEMMA DollarStep ==
  ASSUME Inv, Dollar
  PROVE  Enters \/ Returns
<1>. DEFINE p == NextCh(at)
            body == NextCh(p)
<1>1. pc = "redo" /\ at.ch = "$" /\ at.ch # End
  BY DEF Dollar, End
<1>2. /\ Place(p) /\ Place(body) /\ at.offset < p.offset /\ at.offset < body.offset
      /\ p.offset - 1 \in 0 .. p.offset /\ p.offset \in 0 .. p.offset
      /\ body.offset \in 0 .. body.offset
  BY <1>1, Ahead
<1>3. {"param", "body", "tag"} \subseteq InToken
  BY DEF InToken
<1>4. CASE Enter("param", p, [NoLocals EXCEPT !.start = p.offset - 1])
  <2>1. [NoLocals EXCEPT !.start = p.offset - 1] \in Locals(p)
    BY <1>2, StartedHere
  <2>. HIDE DEF p, body
  <2>. QED  BY <1>1, <1>2, <1>3, <1>4, <2>1, EnterEnters
<1>5. CASE Enter("body", body, [NoLocals EXCEPT !.start = body.offset,
                                                !.buf = <<"$", "$">>])
  <2>. DEFINE l == [NoLocals EXCEPT !.start = body.offset]
  <2>1. l \in Locals(body) /\ <<"$", "$">> \in Seq(Byte)
    BY <1>2, StartedHere DEF Byte
  <2>2. [NoLocals EXCEPT !.start = body.offset, !.buf = <<"$", "$">>]
          = [l EXCEPT !.buf = <<"$", "$">>]
    BY DEF NoLocals
  <2>. HIDE DEF p, body, l
  <2>3. [l EXCEPT !.buf = <<"$", "$">>] \in Locals(body)
    BY <2>1 DEF Locals
  <2>. QED  BY <1>1, <1>2, <1>3, <1>5, <2>2, <2>3, EnterEnters
<1>6. CASE Enter("tag", p, [NoLocals EXCEPT !.start = p.offset])
  <2>1. [NoLocals EXCEPT !.start = p.offset] \in Locals(p)
    BY <1>2, StartedHere
  <2>. HIDE DEF p, body
  <2>. QED  BY <1>1, <1>2, <1>3, <1>6, <2>1, EnterEnters
<1>7. CASE Emit("$", <<"$">>, p)
  <2>1. <<"$">> \in Seq(Byte)
    BY DEF Byte
  <2>. HIDE DEF p, body
  <2>. QED  BY <1>1, <1>2, <1>7, <2>1, ScannedKinds, EmitReturns
<1>8. p.ch \in Digits => p.ch # "$" /\ p.ch \notin IdentStart
  BY DEF Digits, IdentStart, Letters
<1>9. "$" \notin IdentStart
  BY DEF IdentStart, Letters
<1>. QED  BY <1>4, <1>5, <1>6, <1>7, <1>8, <1>9 DEF Dollar

(* One turn of the loop over a tag, or its end.                            *)
LEMMA ScanTagStep ==
  ASSUME Inv, ScanTag
  PROVE  Goes \/ Returns
<1>. DEFINE p == NextCh(at)
            b == <<"$">> \o Slice(loc.start, at.offset) \o <<"$">>
<1>1. pc = "tag" /\ pc \in InToken /\ Live /\ "body" \in InToken
  BY InAToken DEF ScanTag, InToken
<1>2. /\ Place(p) /\ Place(at) /\ at.offset <= p.offset /\ at.offset <= at.offset
      /\ p.offset \in 0 .. Len(src) /\ p.offset \in 0 .. p.offset
      /\ <<"$">> \in Seq(Byte)
  BY Ahead, DollarIsAByte
<1>3. CASE Move
  BY <1>1, <1>3, MoveGoes
<1>4. CASE Finish("$", <<"$">>, at)
  BY <1>1, <1>2, <1>4, ScannedKinds, FinishReturns
<1>5. CASE Goto("body", p, [loc EXCEPT !.start = p.offset, !.buf = b])
  <2>1. b \in Seq(Byte)
    BY <1>2, TextIsBytes
  <2>. HIDE DEF b
  <2>2. /\ [loc EXCEPT !.start = p.offset, !.buf = b] \in Locals(p)
        /\ [loc EXCEPT !.start = p.offset, !.buf = b].from = loc.from
    <3>. HIDE DEF p
    <3>1. /\ p.offset \in 0 .. Len(src) /\ at.offset <= p.offset
          /\ p.offset \in 0 .. p.offset
      BY <1>2
    <3>. DEFINE s == p.offset
    <3>2. s \in 0 .. p.offset
      BY <3>1
    <3>. HIDE DEF s
    <3>3. /\ [loc EXCEPT !.start = s, !.buf = b] \in Locals(p)
          /\ [loc EXCEPT !.start = s, !.buf = b].from = loc.from
      BY <2>1, <3>1, <3>2, LocalsStarted
    <3>. QED  BY <3>3 DEF s
  <2>. QED  BY <1>1, <1>5, <2>2, TokenTakes
<1>. QED  BY <1>3, <1>4, <1>5 DEF ScanTag

(* One turn of the loop over a body, or its end.                           *)
LEMMA ScanBodyStep ==
  ASSUME Inv, ScanBody
  PROVE  Goes \/ Returns
<1>. DEFINE text == Slice(loc.start, at.offset)
            n == Len(loc.buf)
<1>1. pc = "body" /\ pc \in InToken /\ Live /\ "delimiter" \in InToken
  BY InAToken DEF ScanBody, InToken
<1>2. /\ text \in Seq(Byte) /\ n \in Nat /\ at.offset \in 0 .. Len(src)
      /\ at.offset <= at.offset /\ at.offset \in 0 .. at.offset
  BY TextIsBytes DEF Inv, TypeOK
<1>3. CASE at.ch = End
  BY <1>1, <1>2, <1>3, UnclosedReturns DEF ScanBody
<1>4. CASE Goto("delimiter", at, [loc EXCEPT !.buf = text, !.left = n])
  <2>. HIDE DEF text, n
  <2>1. /\ [loc EXCEPT !.buf = text, !.left = n] \in Locals(at)
        /\ [loc EXCEPT !.buf = text, !.left = n].from = loc.from
    BY <1>2, LocalsFilled
  <2>. QED  BY <1>1, <1>4, <2>1, TokenTakes
<1>5. CASE Move
  BY <1>1, <1>5, MoveGoes
<1>. QED  BY <1>3, <1>4, <1>5 DEF ScanBody

(* One character past the body, or the end of the token.                   *)
LEMMA PastDelimiterStep ==
  ASSUME Inv, PastDelimiter
  PROVE  Goes \/ Returns
<1>. DEFINE p == NextCh(at)
            n == loc.left - 1
<1>1. pc = "delimiter" /\ pc \in InToken
  BY DEF PastDelimiter, InToken
<1>2. /\ p.offset \in 0 .. Len(src) /\ at.offset <= p.offset /\ 0 \in 0 .. p.offset
      /\ loc.left \in Nat /\ loc.buf \in Seq(Byte)
      /\ Place(at) /\ at.offset <= at.offset
  BY Ahead DEF Inv, TypeOK
<1>3. CASE loc.left > 0
  <2>1. n \in Nat
    BY <1>2, <1>3
  <2>2. Goto(pc, p, [loc EXCEPT !.left = n])
    BY <1>3 DEF PastDelimiter
  <2>. HIDE DEF n
  <2>3. /\ [loc EXCEPT !.left = n] \in Locals(p)
        /\ [loc EXCEPT !.left = n].from = loc.from
    <3>. HIDE DEF p
    <3>. QED  BY <1>2, <2>1, LocalsFilled
  <2>. QED  BY <1>1, <2>2, <2>3, TokenTakes
<1>4. CASE ~(loc.left > 0)
  <2>1. Finish("SCONST", loc.buf, at)
    BY <1>4 DEF PastDelimiter
  <2>. QED  BY <1>1, <1>2, <2>1, ScannedKinds, FinishReturns
<1>. QED  BY <1>3, <1>4

(* Single characters; one of them has the number of EOF.                   *)
LEMMA SelfStep ==
  ASSUME Inv, Self
  PROVE  Returns
<1>. DEFINE p == NextCh(at)
            kind == SelfToken(at.ch)
            lit == Encoded(at.ch)
<1>1. /\ pc = "redo" /\ at.ch # End /\ Emit(kind, lit, p)
      /\ at.ch \in {"#", ";", "(", ")", "xA9", "x01", "x11"}
  BY DEF Self, End, Control
<1>2. Place(p) /\ at.offset < p.offset
  BY <1>1, Ahead
<1>3. kind \in Kind \ {"none"} /\ (kind = EOF => at.ch = "x01")
  <2>1. {"#", ";", "(", ")", "xA9", EOF, "WORD"} \subseteq Kind \ {"none"}
    BY DEF Kind, Byte, OpChars, High, Token, Names, WordStart, QuotedNames, EOF
  <2>. QED  BY <1>1, <2>1 DEF SelfToken, EOF
<1>4. lit \in Seq(Byte)
  <2>1. {"#", ";", "(", ")", "xC2", "xA9", "x01", "x11"} \subseteq Byte
    BY DEF Byte, OpChars, High, Control
  <2>2. at.ch \in Byte /\ "xC2" \in Byte /\ "xA9" \in Byte
    BY <1>1, <2>1
  <2>3. <<"xC2", "xA9">> \in Seq(Byte) /\ <<at.ch>> \in Seq(Byte)
    BY <2>2, ShortLiterals
  <2>. QED  BY <2>3 DEF Encoded
<1>5. at.ch = "x01" => \E k \in DOMAIN src : src[k] \in Control
  <2>. SUFFICES ASSUME at.ch = "x01"
                PROVE  at.offset + 1 \in DOMAIN src /\ src[at.offset + 1] \in Control
    OBVIOUS
  <2>1. /\ src \in Seq(Byte) /\ Len(src) \in Nat /\ at.offset \in 0 .. Len(src)
        /\ RuneAt(at.offset) = "x01"
    BY Ahead DEF Place
  <2>2. at.offset < Len(src)
    BY <2>1 DEF RuneAt, End
  <2>3. src[at.offset + 1] = "x01"
    BY <2>1, <2>2 DEF RuneAt
  <2>. QED  BY <2>1, <2>2, <2>3 DEF Control
<1>. HIDE DEF p, kind, lit
<1>. QED  BY <1>1, <1>2, <1>3, <1>4, <1>5, EmitReturns

(* A call of Next begins.                                                  *)
LEMMA CallGoes ==
  ASSUME Inv, Call
  PROVE  Goes
<1>1. loc \in Locals(at) /\ Place(at) /\ at.offset <= at.offset
  BY Ahead, LocalsAhead
<1>2. pc = "idle" /\ "redo" \in Points \ {"panic"} /\ pc \notin InToken
      /\ "redo" \notin InToken
  BY DEF Call, Points, InToken
<1>. QED  BY <1>1, <1>2 DEF Call, Goto, Goes

----------------------------------------------------------------------------
(* The invariant.                                                          *)

(* Every step is of one of the forms above, or a call of the client.        *)
LEMMA StepsAreOfAForm ==
  ASSUME Inv, [Next]_vars
  PROVE  \/ Goes \/ Enters \/ Returns \/ Ends \/ Panics
         \/ PushBack \/ Redeliver \/ UNCHANGED vars
<1>1. CASE Call
  BY <1>1, CallGoes
<1>2. CASE SkipSpace \/ LineComment \/ BlockComment
  BY <1>2, SkipSpaceStep, LineCommentStep, BlockCommentStep
<1>3. CASE Minus \/ Slash \/ EndOfInput
  BY <1>3, MinusStep, SlashStep, EndOfInputStep
<1>4. CASE \/ BeginIdent \/ BeginNumber \/ BeginString \/ BeginQuotedIdent
           \/ BeginOperator
  BY <1>4, BeginStep
<1>5. CASE \/ ScanIdent \/ TryComposite \/ ScanNumber \/ Fraction \/ ExponentDigits
           \/ ScanParam \/ ScanOperator
  BY <1>5, ScanIdentStep, TryCompositeStep, NumberStep, ParamAndOperatorStep
<1>6. CASE ScanString \/ ScanQuotedIdent \/ ScanTag \/ ScanBody \/ PastDelimiter
  BY <1>6, ScanStringStep, ScanQuotedIdentStep, ScanTagStep, ScanBodyStep,
     PastDelimiterStep
<1>7. CASE Dot \/ Dollar \/ PairOrSelf \/ Self
  BY <1>7, DotStep, DollarStep, PairOrSelfStep, SelfStep
<1>8. CASE PushBack \/ Redeliver \/ Panicked \/ UNCHANGED vars
  BY <1>8 DEF Panicked
<1>. QED  BY <1>1, <1>2, <1>3, <1>4, <1>5, <1>6, <1>7, <1>8 DEF Next, Scanning

(* The texts of the families are texts.                                    *)
LEMMA TextsAreBytes ==
  ASSUME Init
  PROVE  src \in Seq(Byte)
<1>1. PICK f \in Families : \E n \in 0 .. f.more :
        \E rest \in [1 .. n -> f.alphabet] : src = f.start \o rest
  BY DEF Init
<1>2. f.start \in Seq(Byte) /\ f.alphabet \subseteq Byte /\ f.more \in Nat
  BY <1>1, ScannerAssumption DEF Family
<1>3. PICK n \in 0 .. f.more : \E rest \in [1 .. n -> f.alphabet] :
        src = f.start \o rest
  BY <1>1
<1>4. PICK rest \in [1 .. n -> f.alphabet] : src = f.start \o rest
  BY <1>3
<1>5. rest \in Seq(Byte)
  BY <1>2
<1>. QED  BY <1>2, <1>4, <1>5

(* A new scanner is at line 0 and column 0 of its text.                    *)
LEMMA InitialStates ==
  ASSUME Init
  PROVE  Inv
<1>1. src \in Seq(Byte) /\ Len(src) \in Nat
  BY TextsAreBytes
<1>2. /\ at = PlaceAt(0, 0, 0) /\ this = Nothing /\ pb = Nothing /\ pc = "idle"
      /\ loc = NoLocals /\ unterminated = FALSE /\ tokens = <<>>
  BY DEF Init
<1>3. /\ at.offset = 0 /\ at.ch = RuneAt(0) /\ at.chw = WidthAt(0)
      /\ at.line = 0 /\ at.col = 0
      /\ at = [offset |-> at.offset, ch |-> at.ch, chw |-> at.chw,
               line |-> at.line, col |-> at.col]
  BY <1>2 DEF PlaceAt
<1>4. Newlines(0) = 0 /\ InColumn(0, 0)
  <2>1. {k \in 1 .. 0 : src[k] = "\n"} = {}
    OBVIOUS
  <2>. QED  BY <2>1, FS_EmptySet DEF Newlines, InColumn
<1>5. RuneAt(0) \in Rune /\ WidthAt(0) \in 0 .. 2
  BY <1>1, RunesAreRead
<1>6. Place(at)
  BY <1>1, <1>3, <1>4, <1>5 DEF Place
<1>7. <<>> \in Seq(Byte) /\ "none" \in Kind
  BY DEF Kind
<1>8. Nothing \in Current /\ NoLocals \in Locals(at)
  BY <1>1, <1>3, <1>7 DEF Nothing, Current, NoLocals, Locals
<1>9. TypeOK
  <2>0. <<>> \in Seq(Scanned) /\ "idle" \in Points
    BY DEF Points
  <2>1. tokens \in Seq(Scanned) /\ pc \in Points /\ unterminated \in BOOLEAN
    BY <1>2, <2>0
  <2>2. at \in [offset : 0 .. Len(src), ch : Rune, chw : 0 .. 2, line : Nat, col : Nat]
    BY <1>6, PlacesAreTyped
  <2>. QED  BY <1>1, <1>2, <1>8, <2>1, <2>2 DEF TypeOK, Locals, Scanned
<1>10. Positioned /\ Ordered /\ Delivered
  BY <1>2 DEF Positioned, Ordered, Delivered, InToken
<1>. QED  BY <1>6, <1>9, <1>10 DEF Inv

(* The inductive invariant.                                                *)
LEMMA Invariance == Spec => []Inv
<1>1. Init => Inv
  BY InitialStates
<1>2. Inv /\ [Next]_vars => Inv'
  BY StepsAreOfAForm, GoesKeeps, EntersKeeps, ReturnsKeeps, EndsKeeps, PanicsKeeps,
     ClientKeeps, StutteringKeeps
<1>. QED  BY <1>1, <1>2, PTL DEF Spec

(* The scanner stays within the text, whatever the text: no offset, start   *)
(* of a slice or end of a token is beyond it, and no step leaves a field    *)
(* without its type.                                                       *)
THEOREM TypeCorrect == Spec => []TypeOK
<1>1. Inv => TypeOK
  BY DEF Inv
<1>. QED  BY <1>1, Invariance, PTL

(* The line and column kept by hand are those of the byte the scanner is    *)
(* at, and each token is recorded with those of its first byte.            *)
THEOREM PositionsAreExact == Spec => []PositionsExact
<1>1. Inv => PositionsExact
  BY DEF Inv, Place, Positioned, PositionsExact, At
<1>. QED  BY <1>1, Invariance, PTL

----------------------------------------------------------------------------
(* Positions as numbers.                                                   *)

(* More line ends lie before a later byte, if there are any in between.     *)
LEMMA NewlinesGrow ==
  ASSUME src \in Seq(Byte), NEW a \in Nat, NEW b \in Nat, a <= b
  PROVE  /\ Newlines(a) \in Nat /\ Newlines(b) \in Nat
         /\ Newlines(a) <= Newlines(b)
         /\ (\E k \in a + 1 .. b : src[k] = "\n") => Newlines(a) < Newlines(b)
<1>. DEFINE S(n) == {k \in 1 .. n : src[k] = "\n"}
<1>1. IsFiniteSet(1 .. b) /\ S(b) \in SUBSET (1 .. b) /\ S(a) \in SUBSET S(b)
  BY FS_Interval
<1>2. IsFiniteSet(S(b))
  BY <1>1, FS_Subset
<1>3. /\ Cardinality(S(a)) <= Cardinality(S(b))
      /\ Cardinality(S(b)) = Cardinality(S(a)) => S(b) = S(a)
  BY <1>1, <1>2, FS_Subset
<1>4. Newlines(a) \in Nat /\ Newlines(b) \in Nat
  BY NewlinesCount
<1>5. (\E k \in a + 1 .. b : src[k] = "\n") => S(b) # S(a)
  <2>. SUFFICES ASSUME NEW k \in a + 1 .. b, src[k] = "\n"
                PROVE  k \in S(b) /\ k \notin S(a)
    OBVIOUS
  <2>. QED  OBVIOUS
<1>6. Newlines(a) = Cardinality(S(a)) /\ Newlines(b) = Cardinality(S(b))
  BY DEF Newlines
<1>. HIDE DEF S
<1>. QED  BY <1>3, <1>4, <1>5, <1>6

(* In a text of short lines no column reaches the base.                    *)
LEMMA ColumnsAreShort ==
  ASSUME src \in Seq(Byte), ShortLines, NEW o \in 0 .. Len(src), NEW c \in Nat,
         InColumn(o, c)
  PROVE  c < Base
<1>1. Base \in Nat \ {0} /\ Len(src) \in Nat
  BY BaseAssumption
<1>2. /\ c <= o
      /\ \A k \in o - c + 1 .. o : src[k] # "\n"
  BY DEF InColumn
<1>3. ASSUME c >= Base
      PROVE  FALSE
  <2>. DEFINE first == o - Base + 1
  <2>1. first \in 1 .. Len(src) - Base + 1 /\ first + Base - 1 = o
    BY <1>1, <1>2, <1>3
  <2>2. PICK k \in first .. o : src[k] = "\n"
    <3>. HIDE DEF first
    <3>. QED  BY <2>1 DEF ShortLines
  <2>3. k \in o - c + 1 .. o
    BY <1>1, <1>2, <1>3
  <2>. QED  BY <1>2, <2>2, <2>3
<1>. QED  BY <1>1, <1>3

(* On one line, columns grow with the bytes.                               *)
LEMMA ColumnsGrow ==
  ASSUME src \in Seq(Byte), NEW a \in Nat, NEW b \in Nat, a < b,
         NEW c \in Nat, NEW d \in Nat, InColumn(a, c), InColumn(b, d),
         Newlines(a) = Newlines(b)
  PROVE  c < d
<1>1. /\ c <= a /\ d <= b
      /\ d < b => src[b - d] = "\n"
      /\ \A k \in a - c + 1 .. a : src[k] # "\n"
  BY DEF InColumn
<1>2. \A k \in a + 1 .. b : src[k] # "\n"
  <2>1. a <= b
    OBVIOUS
  <2>2. Newlines(a) \in Nat /\ ~(Newlines(a) < Newlines(b))
    BY <2>1, NewlinesGrow
  <2>. QED  BY <2>1, <2>2, NewlinesGrow
<1>3. ASSUME d <= c
      PROVE  FALSE
  <2>1. d < b /\ src[b - d] = "\n"
    BY <1>1, <1>3
  <2>2. b - d \in a - c + 1 .. a \/ b - d \in a + 1 .. b
    BY <1>1, <1>3
  <2>. QED  BY <1>1, <1>2, <2>1, <2>2
<1>. QED  BY <1>3

(* Lines are a base apart.                                                 *)
LEMMA LinesApart ==
  ASSUME NEW m \in Nat, NEW n \in Nat, m < n
  PROVE  m * Base + Base <= n * Base
<1>1. Base \in Nat /\ n - m - 1 \in Nat /\ n = m + 1 + (n - m - 1)
  BY BaseAssumption
<1>2. \A x \in Nat : (m + 1 + x) * Base = m * Base + Base + x * Base
  BY <1>1
<1>3. \A x \in Nat : x * Base \in Nat
  BY <1>1
<1>4. n * Base = m * Base + Base + (n - m - 1) * Base
  BY <1>1, <1>2
<1>. QED  BY <1>1, <1>3, <1>4

(* Unless a line is too long, no two tokens have the same position, and     *)
(* positions are in the order of the tokens: what Parser.next makes of line *)
(* and column can stand for the token.                                     *)
THEOREM PositionsAreOrdered == Spec => []PositionsOrdered
<1>1. ASSUME Inv, ShortLines, NEW j \in DOMAIN tokens, NEW i \in 1 .. j - 1
      PROVE  Pos(tokens[i].Line, tokens[i].Col) < Pos(tokens[j].Line, tokens[j].Col)
  <2>. DEFINE s == tokens[i]
              t == tokens[j]
              a == s.from
              b == t.from
              c == s.Col - 1
              d == t.Col - 1
  <2>1. src \in Seq(Byte) /\ tokens \in Seq(Scanned) /\ i \in DOMAIN tokens
    BY <1>1 DEF Inv, TypeOK, Scanned
  <2>2. /\ a \in 0 .. Len(src) /\ b \in 0 .. Len(src) /\ Len(src) \in Nat
        /\ s.Line \in Nat /\ t.Line \in Nat /\ s.Col \in Nat /\ t.Col \in Nat
    <3>1. s \in Scanned /\ t \in Scanned
      BY <2>1
    <3>. QED  BY <2>1, <3>1 DEF Scanned
  <2>3. a < b /\ At(s, a) /\ At(t, b)
    BY <1>1, <2>1 DEF Inv, Ordered, Positioned
  <2>. HIDE DEF s, t
  <2>4. /\ s.Line = Newlines(a) + 1 /\ t.Line = Newlines(b) + 1
        /\ InColumn(a, c) /\ InColumn(b, d)
        /\ s.Col > 0 /\ t.Col > 0
    BY <2>3 DEF At
  <2>5. c \in Nat /\ d \in Nat
    BY <2>2, <2>4
  <2>6. Newlines(a) \in Nat /\ Newlines(b) \in Nat /\ Newlines(a) <= Newlines(b)
    <3>1. a \in Nat /\ b \in Nat /\ a <= b
      BY <2>2, <2>3
    <3>. HIDE DEF a, b
    <3>. QED  BY <2>1, <3>1, NewlinesGrow
  <2>7. CASE Newlines(a) = Newlines(b)
    <3>1. c < d
      BY <2>1, <2>2, <2>3, <2>4, <2>5, <2>7, ColumnsGrow, SMTT(30)
    <3>2. s.Line = t.Line /\ s.Col < t.Col
      BY <2>2, <2>4, <2>7, <3>1
    <3>3. s.Line * Base \in Nat
      BY <2>2, BaseAssumption
    <3>. QED  BY <2>2, <3>2, <3>3 DEF Pos, s, t
  <2>8. CASE Newlines(a) < Newlines(b)
    <3>1. c < Base
      BY <1>1, <2>1, <2>2, <2>4, <2>5, ColumnsAreShort
    <3>2. s.Line * Base + Base <= t.Line * Base
      BY <2>2, <2>4, <2>6, <2>8, LinesApart
    <3>3. s.Line * Base \in Nat /\ t.Line * Base \in Nat /\ Base \in Nat
      BY <2>2, BaseAssumption
    <3>4. s.Col <= Base
      BY <2>2, <3>1, <3>3
    <3>5. \A x, y, u, v, w \in Nat : x + w <= y /\ u <= w /\ v > 0 => x + u < y + v
      OBVIOUS
    <3>6. s.Line * Base + s.Col < t.Line * Base + t.Col
      BY <2>2, <2>4, <3>2, <3>3, <3>4, <3>5
    <3>. QED  BY <3>6 DEF Pos, s, t
  <2>. QED  BY <2>6, <2>7, <2>8
<1>2. Inv => PositionsOrdered
  BY <1>1 DEF PositionsOrdered
<1>. QED  BY <1>2, Invariance, PTL

----------------------------------------------------------------------------
(* The stream of tokens.                                                   *)

(* No text of the families holds a control character.                      *)
NoControl ==
  \A f \in Families : /\ \A k \in DOMAIN f.start : f.start[k] \notin Control
                      /\ f.alphabet \cap Control = {}

(* Without control characters in the families there are none in the text.  *)
LEMMA PrintableTexts ==
  ASSUME NoControl, Init
  PROVE  Printable
<1>1. PICK f \in Families : \E n \in 0 .. f.more :
        \E rest \in [1 .. n -> f.alphabet] : src = f.start \o rest
  BY DEF Init
<1>2. /\ f.start \in Seq(Byte) /\ f.alphabet \subseteq Byte /\ f.more \in Nat
      /\ \A k \in DOMAIN f.start : f.start[k] \notin Control
      /\ f.alphabet \cap Control = {}
  BY <1>1, ScannerAssumption DEF Family, NoControl
<1>3. PICK n \in 0 .. f.more : \E rest \in [1 .. n -> f.alphabet] :
        src = f.start \o rest
  BY <1>1
<1>4. PICK rest \in [1 .. n -> f.alphabet] : src = f.start \o rest
  BY <1>3
<1>5. /\ rest \in Seq(Byte) /\ Len(rest) = n /\ n \in Nat
      /\ \A k \in 1 .. n : rest[k] \notin Control
  BY <1>2
<1>6. /\ Len(src) = Len(f.start) + n /\ src \in Seq(Byte) /\ Len(f.start) \in Nat
      /\ DOMAIN src = 1 .. Len(src) /\ DOMAIN f.start = 1 .. Len(f.start)
      /\ \A k \in 1 .. Len(src) :
           src[k] = IF k <= Len(f.start) THEN f.start[k] ELSE rest[k - Len(f.start)]
  <2>1. /\ f.start \o rest \in Seq(Byte)
        /\ Len(f.start \o rest) = Len(f.start) + Len(rest)
        /\ \A k \in 1 .. Len(f.start) + Len(rest) :
             (f.start \o rest)[k] =
               IF k <= Len(f.start) THEN f.start[k] ELSE rest[k - Len(f.start)]
    BY <1>2, <1>5, ConcatProperties
  <2>2. Len(f.start) \in Nat /\ DOMAIN f.start = 1 .. Len(f.start)
    BY <1>2
  <2>3. src \in Seq(Byte) /\ DOMAIN src = 1 .. Len(src)
    BY <1>4, <2>1
  <2>. QED  BY <1>4, <1>5, <2>1, <2>2, <2>3
<1>7. ASSUME NEW k \in DOMAIN src
      PROVE  src[k] \notin Control
  <2>1. CASE k <= Len(f.start)
    BY <1>2, <1>6, <1>7, <2>1
  <2>2. CASE ~(k <= Len(f.start))
    <3>1. k - Len(f.start) \in 1 .. n /\ src[k] = rest[k - Len(f.start)]
      BY <1>5, <1>6, <1>7, <2>2
    <3>. QED  BY <1>5, <3>1
  <2>. QED  BY <2>1, <2>2
<1>8. tokens = <<>>
  BY DEF Init
<1>. QED  BY <1>7, <1>8 DEF Printable

(* An entry of the history is of the token t.                              *)
Alike(e, t) == e.Tok = t.Tok /\ e.Lit = t.Lit

(* A token that a call returns is a last entry of the history, unless it is *)
(* the end of the text once more.                                          *)
LEMMA TokensAreAppended ==
  ASSUME Inv, Printable, Returns \/ Ends
  PROVE  \/ UNCHANGED tokens /\ Ends
         \/ /\ \E e \in Scanned : Alike(e, this') /\ tokens' = Append(tokens, e)
            /\ tokens # <<>> => Latest.Tok # EOF
            /\ Returns => this'.Tok # EOF
<1>1. ASSUME NEW t \in Current, NEW to \in 0 .. Len(src), At(t, Start),
             tokens # <<>> /\ Latest.Tok = EOF /\ Exhausted => t.Tok = EOF
      PROVE  \/ Recorded(t, Start, to) = tokens /\ t.Tok = EOF
             \/ /\ \E e \in Scanned :
                     Alike(e, t) /\ Recorded(t, Start, to) = Append(tokens, e)
                /\ tokens # <<>> => Latest.Tok # EOF \/ t.Tok # EOF
  <2>. DEFINE new == [Tok |-> t.Tok, Lit |-> t.Lit, Line |-> t.Line,
                      Col |-> t.Col, from |-> Start, to |-> to]
  <2>1. \/ Recorded(t, Start, to) = tokens /\ t.Tok = EOF
        \/ /\ Recorded(t, Start, to) = Append(tokens, new) /\ new \in Scanned
           /\ ~(tokens # <<>> /\ Latest.Tok = EOF /\ t.Tok = EOF)
    BY <1>1, HistoryGrows
  <2>2. Alike(new, t)
    BY DEF Alike
  <2>. HIDE DEF new
  <2>. QED  BY <2>1, <2>2
<1>2. CASE Returns
  <2>1. ~Exhausted /\ at'.offset \in 0 .. Len(src)
    BY <1>2, PlacesAreTyped DEF Returns, Live
  <2>2. this'.Tok # EOF /\ (tokens # <<>> => Latest.Tok # EOF)
    BY <1>2, <2>1 DEF Printable, Returns
  <2>3. this' \in Current /\ At(this', Start)
        /\ tokens' = Recorded(this', Start, at'.offset)
    BY <1>2 DEF Returns
  <2>. QED  BY <1>1, <2>1, <2>2, <2>3
<1>3. CASE Ends
  <2>1. at.offset \in 0 .. Len(src) /\ Start = at.offset
    BY <1>3, Ahead DEF Ends, Start, InToken
  <2>2. /\ this' \in Current /\ this'.Tok = EOF /\ At(this', Start)
        /\ tokens' = Recorded(this', Start, at.offset) /\ ~Returns
    BY <1>3, <2>1 DEF Ends, Returns, Live, Exhausted
  <2>. QED  BY <1>1, <1>3, <2>1, <2>2
<1>. QED  BY <1>2, <1>3

(* Without control characters, EOF is the end of the text.                 *)
LEMMA PrintableKept ==
  ASSUME Inv, Printable, [Next]_vars
  PROVE  Printable'
<1>1. CASE Goes
  BY <1>1 DEF Printable, Goes, Live, Exhausted, Latest
<1>2. CASE Enters
  BY <1>2 DEF Printable, Enters, Exhausted, Latest
<1>3. CASE Returns
  <2>1. \E e \in Scanned : e.Tok # EOF /\ tokens' = Append(tokens, e)
    <3>1. ~Ends
      BY <1>3 DEF Returns, Live, Ends, Exhausted
    <3>. QED  BY <1>3, <3>1, TokensAreAppended DEF Alike
  <2>2. Latest'.Tok # EOF
    <3>1. tokens \in Seq(Scanned)
      BY DEF Inv, TypeOK, Scanned
    <3>. QED  BY <2>1, <3>1, NewestIsLast DEF Latest
  <2>. QED  BY <1>3, <2>2 DEF Printable, Returns
<1>4. CASE Ends
  BY <1>4 DEF Printable, Ends, Exhausted
<1>5. CASE Panics
  BY <1>5 DEF Printable, Panics, Exhausted, Latest
<1>6. CASE PushBack \/ Redeliver \/ UNCHANGED vars
  BY <1>6 DEF Printable, PushBack, Redeliver, vars, Exhausted, Latest
<1>. QED  BY <1>1, <1>2, <1>3, <1>4, <1>5, <1>6, StepsAreOfAForm

(* The kinds of the tokens, and of one token more.                         *)
Kinds(s) == [i \in DOMAIN s |-> StreamKind(s[i])]

LEMMA KindsOfTokens ==
  ASSUME NEW s \in Seq(Scanned)
  PROVE  /\ Kinds(s) \in Seq(Token) /\ Len(Kinds(s)) = Len(s)
         /\ Kinds(s) = <<>> <=> s = <<>>
         /\ s # <<>> => (Kinds(s)[Len(s)] = EOF <=> s[Len(s)].Tok = EOF)
         /\ \A e \in Scanned : Kinds(Append(s, e)) = Append(Kinds(s), StreamKind(e))
<1>1. /\ EOF \in Token /\ "OP" \in Token /\ "OP" # EOF
      /\ \A t : StreamKind(t) \in Token /\ (StreamKind(t) = EOF <=> t.Tok = EOF)
  BY DEF Token, Symbols, Names, WordStart, QuotedNames, EOF, StreamKind
<1>2. DOMAIN s = 1 .. Len(s) /\ Len(s) \in Nat
  OBVIOUS
<1>3. Kinds(s) \in [1 .. Len(s) -> Token]
  BY <1>1, <1>2 DEF Kinds
<1>4. Kinds(s) \in Seq(Token) /\ Len(Kinds(s)) = Len(s)
  BY <1>2, <1>3
<1>5. Kinds(s) = <<>> <=> s = <<>>
  BY <1>4
<1>6. s # <<>> => (Kinds(s)[Len(s)] = EOF <=> s[Len(s)].Tok = EOF)
  BY <1>1, <1>2 DEF Kinds
<1>7. ASSUME NEW e \in Scanned
      PROVE  Kinds(Append(s, e)) = Append(Kinds(s), StreamKind(e))
  <2>. DEFINE n == Len(s)
              l == Kinds(Append(s, e))
              r == Append(Kinds(s), StreamKind(e))
  <2>1. /\ Append(s, e) \in Seq(Scanned) /\ DOMAIN Append(s, e) = 1 .. n + 1
        /\ \A i \in 1 .. n : Append(s, e)[i] = s[i]
        /\ Append(s, e)[n + 1] = e
    BY <1>2, AppendProperties
  <2>2. /\ DOMAIN l = 1 .. n + 1
        /\ \A i \in 1 .. n + 1 : l[i] = StreamKind(Append(s, e)[i])
        /\ l = [i \in 1 .. n + 1 |-> l[i]]
    BY <2>1 DEF Kinds
  <2>3. /\ r \in Seq(Token) /\ Len(r) = n + 1 /\ DOMAIN r = 1 .. n + 1
        /\ \A i \in 1 .. n : r[i] = Kinds(s)[i]
        /\ r[n + 1] = StreamKind(e)
    <3>1. ASSUME NEW m \in Seq(Token), NEW x \in Token, Len(m) = n
          PROVE  LET a == Append(m, x)
                 IN  /\ a \in Seq(Token) /\ Len(a) = n + 1
                     /\ DOMAIN a = 1 .. n + 1 /\ a[n + 1] = x
                     /\ \A i \in 1 .. n : a[i] = m[i]
      BY <1>2, <3>1, AppendProperties
    <3>2. StreamKind(e) \in Token
      BY <1>1
    <3>. QED  BY <1>4, <3>1, <3>2, Zenon DEF r
  <2>4. r = [i \in 1 .. n + 1 |-> r[i]]
    <3>. HIDE DEF r
    <3>. QED  BY <2>3
  <2>5. \A i \in 1 .. n : Kinds(s)[i] = StreamKind(s[i])
    BY <1>2 DEF Kinds
  <2>6. \A i \in 1 .. n + 1 : l[i] = r[i]
    <3>1. \A i \in 1 .. n + 1 : i \in 1 .. n \/ i = n + 1
      BY <1>2
    <3>. HIDE DEF l, r
    <3>. QED  BY <2>1, <2>2, <2>3, <2>5, <3>1
  <2>. HIDE DEF l, r
  <2>7. l = r
    BY <2>2, <2>4, <2>6
  <2>. QED  BY <2>7 DEF l, r
<1>. QED  BY <1>4, <1>5, <1>6, <1>7


(* What the parser sees of unterminated.                                    *)
Cut == unterminated /\ pc # "panic"

(* Steps within a call, and a call that panics, are not seen.               *)
LEMMA ScanningIsUnseen ==
  ASSUME Inv, Goes \/ Enters \/ Panics \/ UNCHANGED vars
  PROVE  tokens' = tokens /\ pb' = pb /\ Cut' = Cut
<1>1. CASE Goes
  BY <1>1 DEF Goes, Live, Cut
<1>2. CASE Enters
  BY <1>2 DEF Enters, InToken, Cut
<1>3. CASE Panics
  <2>1. ~unterminated
    BY <1>3 DEF Panics, Inv, Delivered, Exhausted
  <2>. QED  BY <1>3, <2>1 DEF Panics, Cut
<1>4. CASE UNCHANGED vars
  BY <1>4 DEF vars, Cut
<1>. QED  BY <1>1, <1>2, <1>3, <1>4

(* A call that returns leaves no token pushed back; only a literal can be  *)
(* cut off, and after it only the end returns.                             *)
LEMMA ReturnIsSeen ==
  ASSUME Inv, Printable, Returns \/ Ends
  PROVE  /\ pb = Nothing /\ pb' = Nothing
         /\ Cut \in BOOLEAN /\ Cut' \in BOOLEAN
         /\ Cut => tokens # <<>> /\ Ends
         /\ Cut' # Cut => StreamKind(this') \in {"SCONST"} \cup QuotedNames /\ Cut'
         /\ Ends => StreamKind(this') = EOF
<1>1. pb = Nothing /\ pb' = Nothing /\ pc # "panic" /\ pc' # "panic"
  BY DEF Returns, Ends, Live, Inv, Delivered
<1>2. unterminated \in BOOLEAN /\ (unterminated => Exhausted /\ tokens # <<>>)
  BY <1>1 DEF Inv, TypeOK, Delivered
<1>3. Returns => ~Exhausted
  BY DEF Returns, Live
<1>4. \A t : /\ t.Tok \in {"SCONST", "IDENT"} =>
                StreamKind(t) \in {"SCONST"} \cup QuotedNames
             /\ t.Tok = EOF => StreamKind(t) = EOF
  BY DEF StreamKind, Token, QuotedNames, Symbols, EOF
<1>5. CASE Returns
  <2>1. ~unterminated /\ ~Ends
    BY <1>2, <1>3, <1>5 DEF Ends, Exhausted
  <2>2. \/ unterminated' = unterminated
        \/ unterminated' = TRUE /\ this'.Tok \in {"SCONST", "IDENT"}
    BY <1>5 DEF Returns
  <2>. QED  BY <1>1, <1>2, <1>4, <2>1, <2>2 DEF Cut
<1>6. CASE Ends
  <2>1. unterminated' = unterminated /\ this'.Tok = EOF
    BY <1>6 DEF Ends
  <2>. QED  BY <1>1, <1>2, <1>4, <1>6, <2>1 DEF Cut
<1>. QED  BY <1>5, <1>6

(* In texts without control characters, whose numbers Self takes for those  *)
(* of EOF and of a word, the scanner is the stream of tokens on which the   *)
(* parser's model is built: every Next, with or without a token pushed      *)
(* back, is a step of it.                                                  *)
THEOREM ImplementsStream ==
  ASSUME NoControl
  PROVE  Spec => KeepsStream
<1>. DEFINE toks == [i \in DOMAIN tokens |-> StreamKind(tokens[i])]
<1>1. ASSUME Init
      PROVE  Printable /\ Stream!Unread
  <2>1. tokens = <<>> /\ pb = Nothing /\ unterminated = FALSE
    BY <1>1 DEF Init
  <2>2. toks = <<>>
    BY <2>1
  <2>. QED  BY <1>1, <2>1, <2>2, PrintableTexts DEF Stream!Unread
<1>2. ASSUME Inv, Printable, [Next]_vars
      PROVE  [Stream!StreamNext]_(Stream!streamVars)
  <2>1. tokens \in Seq(Scanned) /\ Kinds(tokens) = toks
    BY <1>2 DEF Inv, TypeOK, Scanned, Kinds
  <2>2. (Kinds(tokens))' = toks'
    BY DEF Kinds
  <2>3. AnyText \in {AnyText} /\ Len(AnyText.start) = 0 /\ AnyText.rest = Token \ {EOF}
        /\ EOF \in Token
    BY DEF AnyText, Token
  <2>4. CASE Goes \/ Enters \/ Panics \/ UNCHANGED vars
    <3>1. tokens' = tokens /\ pb' = pb /\ Cut' = Cut
      BY <1>2, <2>4, ScanningIsUnseen
    <3>. QED  BY <3>1 DEF Stream!streamVars, Cut
  <2>5. CASE PushBack
    <3>1. /\ tokens # <<>> /\ tokens' = tokens /\ pb' # Nothing /\ Cut' = Cut
      BY <1>2, <2>5 DEF PushBack, Inv, Delivered, Nothing, Cut
    <3>2. toks # <<>>
      BY <2>1, <3>1, KindsOfTokens
    <3>. QED  BY <3>1, <3>2 DEF Stream!StreamNext, Stream!PushBack, Cut
  <2>6. CASE Redeliver
    <3>1. /\ tokens # <<>> /\ tokens' = tokens /\ pb # Nothing /\ pb' = Nothing
          /\ Cut' = Cut
      BY <1>2, <2>6 DEF Redeliver, Inv, Delivered, Cut
    <3>2. toks # <<>>
      BY <2>1, <3>1, KindsOfTokens
    <3>. QED  BY <3>1, <3>2 DEF Stream!StreamNext, Stream!Advance, Cut
  <2>7. CASE Returns \/ Ends
    <3>. DEFINE k == StreamKind(this')
    <3>1. /\ pb = Nothing /\ pb' = Nothing
          /\ Cut \in BOOLEAN /\ Cut' \in BOOLEAN
          /\ Cut => tokens # <<>> /\ Ends
          /\ Cut' # Cut => k \in {"SCONST"} \cup QuotedNames /\ Cut'
          /\ Ends => k = EOF
      BY <1>2, <2>7, ReturnIsSeen
    <3>2. k \in Token
      BY DEF StreamKind, Token, Names, WordStart, QuotedNames, Symbols
    <3>3. CASE UNCHANGED tokens /\ Ends
      <4>1. Cut' = Cut
        BY <3>1, <3>3 DEF EOF, QuotedNames
      <4>. QED  BY <3>1, <3>3, <4>1 DEF Stream!streamVars, Cut
    <3>4. CASE /\ \E e \in Scanned : Alike(e, this') /\ tokens' = Append(tokens, e)
               /\ tokens # <<>> => Latest.Tok # EOF
      <4>0. \A e : Alike(e, this') => StreamKind(e) = k
        BY DEF Alike, StreamKind
      <4>1. toks' = Append(toks, k)
        BY <2>1, <2>2, <3>4, <4>0, KindsOfTokens
      <4>2. \A n \in Nat : k \in Stream!Upcoming(n + 1, TRUE)
        <5>1. \A n \in Nat : ~(n + 1 <= Len(AnyText.start))
          BY <2>3
        <5>2. k \in AnyText.rest \cup {Stream!EOF}
          BY <2>3, <3>2 DEF EOF, Stream!EOF
        <5>. QED  BY <5>1, <5>2 DEF Stream!Upcoming
      <4>3. CASE tokens = <<>>
        <5>1. toks = <<>> /\ toks' = <<k>> /\ ~Cut
          BY <2>1, <3>1, <4>1, <4>3
        <5>2. k \in Stream!Upcoming(1, TRUE)
          <6>1. 0 + 1 = 1 /\ 0 \in Nat
            OBVIOUS
          <6>. QED  BY <4>2, <6>1
        <5>3. Stream!First
          BY <3>1, <5>1, <5>2 DEF Stream!First, Cut
        <5>. QED  BY <5>3 DEF Stream!StreamNext
      <4>4. CASE tokens # <<>>
        <5>1. /\ toks # <<>> /\ Len(toks) = Len(tokens) /\ Len(toks) \in Nat
              /\ toks[Len(toks)] # EOF
          BY <2>1, <3>4, <4>4, KindsOfTokens DEF Latest
        <5>2. k \in IF Cut THEN {Stream!EOF}
                   ELSE Stream!Upcoming(Stream!cur + 1, TRUE)
          BY <3>1, <4>2, <5>1 DEF Stream!cur, Stream!EOF, EOF
        <5>3. Cut' \in {Cut, Cut \/ k \in {"SCONST"} \cup QuotedNames}
          BY <3>1
        <5>4. Stream!Scan(TRUE)
          BY <4>1, <5>2, <5>3 DEF Stream!Scan, Cut
        <5>5. Stream!Advance(TRUE)
          BY <3>1, <5>1, <5>4 DEF Stream!Advance, Stream!tok, Stream!cur,
             Stream!EOF, EOF
        <5>. QED  BY <5>1, <5>5 DEF Stream!StreamNext
      <4>. QED  BY <4>3, <4>4
    <3>. QED  BY <1>2, <2>7, <3>3, <3>4, TokensAreAppended
  <2>. QED  BY <1>2, <2>4, <2>5, <2>6, <2>7, StepsAreOfAForm
<1>3. Inv /\ Printable /\ [Next]_vars => Printable'
  BY PrintableKept
<1>. QED  BY <1>1, <1>2, <1>3, Invariance, PTL DEF Spec, KeepsStream, Stream!StreamSpec

=============================================================================
