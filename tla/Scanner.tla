------------------------------ MODULE Scanner ------------------------------
(***************************************************************************)
(* The scanner of package scanner, byte by byte.  A call of Next is a      *)
(* sequence of steps, one for each decision or turn of a loop; pc says     *)
(* where in Next the scanner is, and is "idle" between calls.              *)
(*                                                                         *)
(* A byte stands for its class: any two bytes that the scanner treats in   *)
(* the same way have one name here, except where a text must be able to    *)
(* hold two different ones (letters of a keyword or tag).  Bytes above 127 *)
(* are "xC2", "xC3" and "xA9", which make up two characters of two bytes   *)
(* and, elsewhere, are not UTF-8.                                          *)
(***************************************************************************)
EXTENDS Tokens, Integers, Sequences

Spaces == {" ", "\n"}
Digits == {"0", "1"}
Letters == {"a", "b", "e", "E", "f", "F", "i", "I", "n", "o", "_"}
OpChars == {"!", "#", "|", "+", "-", "*", "/", "<", ">", "="}
Control == {"x01", "x11"}
High == {"xC2", "xC3", "xA9"}

Byte == Spaces \cup Digits \cup Letters \cup OpChars \cup Control \cup High
        \cup {".", ":", ";", "(", ")", "'", "\"", "$"}

(* A family of source texts: those that go on after the start with at most *)
(* more bytes of the alphabet.                                             *)
Family == [start : Seq(Byte), alphabet : SUBSET Byte, more : Nat]

CONSTANTS
  Families,      \* the families of source texts
  Keywords       \* plpgsqlKeywords: from words in lower case to tokens

ASSUME ScannerAssumption ==
  /\ Families \subseteq Family
  /\ DOMAIN Keywords \subseteq Seq(Byte)
  /\ \A word \in DOMAIN Keywords : Keywords[word] \in Reserved \cup Unreserved

VARIABLES
  src,           \* the source text
  at,            \* the place in it: offset, ch, chw, line, col
  this,          \* the current token: Tok, Lit, Line, Col, Cat
  pb,            \* the pushed-back token, or Nothing
  pc,            \* where in Next the scanner is
  loc,           \* the locals of Next and of the scan functions
  unterminated,  \* the error handler has been called
  tokens         \* history: the tokens scanned, and the bytes of each

vars == <<src, at, this, pb, pc, loc, unterminated, tokens>>

----------------------------------------------------------------------------
(* Characters.  A byte that is not UTF-8 is the character of that number.  *)

End == "end of text"
Rune == Byte \cup {"U+00E9", End}

TwoBytes(o) ==
  o + 2 <= Len(src) /\ src[o + 1] \in {"xC2", "xC3"} /\ src[o + 2] = "xA9"

(* Seeded bug: the width is that which the first byte announces.           *)
WidthByFirstByte(o) ==
  IF o >= Len(src) THEN 0 ELSE IF src[o + 1] \in {"xC2", "xC3"} THEN 2 ELSE 1

RuneAt(o) ==
  IF o >= Len(src) THEN End
  ELSE IF ~TwoBytes(o) THEN src[o + 1]
  ELSE IF src[o + 1] = "xC3" THEN "U+00E9" ELSE "xA9"

WidthAt(o) == IF o >= Len(src) THEN 0 ELSE IF TwoBytes(o) THEN 2 ELSE 1

(* The bytes of a character: string(rune).                                 *)
Encoded(ch) == IF ch = "xA9" THEN <<"xC2", "xA9">> ELSE <<ch>>

IdentStart == Letters \cup {"U+00E9", "xC2", "xC3"}
IdentCont == IdentStart \cup Digits \cup {"$"}
DollarTagCont == IdentStart \cup Digits

PlaceAt(o, line, col) ==
  [offset |-> o, ch |-> RuneAt(o), chw |-> WidthAt(o), line |-> line, col |-> col]

(* nextch, as a function of the place.                                     *)
NextCh(p) ==
  PlaceAt(p.offset + p.chw,
          IF p.ch = "\n" THEN p.line + 1 ELSE p.line,
          IF p.ch = "\n" THEN 0 ELSE p.col + p.chw)

(* src[from:to] of Go.                                                     *)
Slice(from, to) == SubSeq(src, from + 1, to)

(* Seeded bug: the column is not among them.                               *)
RestoredNotCol(saved, now) == [saved EXCEPT !.col = now.col]

(* What tryComposite puts back when the dot it moved past is not part of   *)
(* the name: five fields saved before.                                     *)
Restored(saved, now) == saved

----------------------------------------------------------------------------
(* Tokens.                                                                 *)

(* strings.ToLower, byte by byte.                                          *)
Capitals == [E |-> "e", F |-> "f", I |-> "i"]
ToLower(word) ==
  [k \in DOMAIN word |->
     IF word[k] \in DOMAIN Capitals THEN Capitals[word[k]] ELSE word[k]]

Category(keyword) == IF keyword \in Reserved THEN "reserved" ELSE "unreserved"

(* Tokens of two characters, without those that begin like a comment.      *)
Pairs ==
  {<<":", ":", "TYPECAST">>, <<":", "=", ":=">>, <<"<", "<", "<<">>,
   <<"<", "=", "<=">>, <<"<", ">", "<>">>, <<">", ">", ">>">>,
   <<">", "=", ">=">>, <<"=", ">", "=>">>, <<"!", "=", "<>">>}
PairStart == {pair[1] : pair \in Pairs}

(* Token(ch).  The number of a control character is that of a named token: *)
(* 1 is EOF, 17 is T_WORD.                                                 *)
SelfToken(ch) ==
  CASE ch = "x01" -> EOF
    [] ch = "x11" -> "WORD"
    [] OTHER      -> ch

Kind == Token \cup Byte \cup {"TYPECAST", "<=", ">=", "<>", "=>", "none"}
Current == [Tok : Kind, Lit : Seq(Byte), Line : Nat, Col : Nat,
            Cat : {"reserved", "unreserved"}]
Nothing == [Tok |-> "none", Lit |-> <<>>, Line |-> 0, Col |-> 0,
            Cat |-> "reserved"]

NoLocals == [from |-> 0, start |-> 0, depth |-> 0, buf |-> <<>>, left |-> 0]

(* Scanner.Init, of a new scanner.                                         *)
Init ==
  /\ \E f \in Families : \E n \in 0 .. f.more :
       \E rest \in [1 .. n -> f.alphabet] : src = f.start \o rest
  /\ at = PlaceAt(0, 0, 0)
  /\ this = Nothing
  /\ pb = Nothing
  /\ pc = "idle"
  /\ loc = NoLocals
  /\ unterminated = FALSE
  /\ tokens = <<>>

----------------------------------------------------------------------------
(* What the steps of Next have in common.                                  *)

(* The position recorded before a token is scanned.                        *)
Marked == [this EXCEPT !.Line = at.line + 1, !.Col = at.col + 1]

(* "-" and "/" are recorded after the character was moved past.            *)
MarkedAfter(p) == [this EXCEPT !.Line = p.line + 1, !.Col = p.col]

(* One turn of a loop.                                                     *)
Move ==
  /\ at' = NextCh(at)
  /\ UNCHANGED <<src, this, pb, pc, loc, unterminated, tokens>>

(* Go on at another point of Next.                                         *)
Goto(point, p, locals) ==
  /\ pc' = point
  /\ at' = p
  /\ loc' = locals
  /\ UNCHANGED <<src, this, pb, unterminated, tokens>>

(* Begin a token that takes more than one step.                            *)
Enter(point, p, locals) ==
  /\ pc' = point
  /\ at' = p
  /\ loc' = [locals EXCEPT !.from = at.offset]
  /\ this' = Marked
  /\ UNCHANGED <<src, pb, unterminated, tokens>>

(* Return token t, which began at byte from, and leave the scanner at p.   *)
(* The end of the text is in the history once.                             *)
Return(t, from, p) ==
  /\ this' = t
  /\ at' = p
  /\ pc' = "idle"
  /\ loc' = NoLocals
  /\ tokens' =
       IF t.Tok = EOF /\ tokens # <<>> /\ tokens[Len(tokens)].Tok = EOF
       THEN tokens
       ELSE Append(tokens, [Tok |-> t.Tok, Lit |-> t.Lit, Line |-> t.Line,
                            Col |-> t.Col, from |-> from, to |-> p.offset])
  /\ UNCHANGED <<src, pb>>

(* A token of one step, and the end of one of several.                     *)
Emit(kind, lit, p) ==
  /\ Return([Marked EXCEPT !.Tok = kind, !.Lit = lit], at.offset, p)
  /\ UNCHANGED unterminated

Finish(kind, lit, p) ==
  /\ Return([this EXCEPT !.Tok = kind, !.Lit = lit], loc.from, p)
  /\ UNCHANGED unterminated

(* A token that the end of the text cuts off.                              *)
Unclosed(kind, lit) ==
  /\ Return([this EXCEPT !.Tok = kind, !.Lit = lit], loc.from, at)
  /\ unterminated' = TRUE

----------------------------------------------------------------------------
(* Calls of the client.                                                    *)

(* After at least one Next, as the parser calls it.                        *)
PushBack ==
  /\ pc = "idle" /\ tokens # <<>>
  /\ pb' = this
  /\ UNCHANGED <<src, at, this, pc, loc, unterminated, tokens>>

(* Next with a token pushed back.                                          *)
Redeliver ==
  /\ pc = "idle" /\ pb # Nothing
  /\ this' = pb
  /\ pb' = Nothing
  /\ UNCHANGED <<src, at, pc, loc, unterminated, tokens>>

Call ==
  /\ pc = "idle" /\ pb = Nothing
  /\ Goto("redo", at, loc)

----------------------------------------------------------------------------
(* Blanks and comments.                                                    *)

SkipSpace ==
  /\ pc = "redo" /\ at.ch \in Spaces
  /\ Move

Minus ==
  /\ pc = "redo" /\ at.ch = "-"
  /\ LET p == NextCh(at)
         t == MarkedAfter(p)
     IN  IF p.ch = "-" THEN Goto("line comment", p, loc)
         ELSE /\ IF p.ch = ">"
                 THEN Return([t EXCEPT !.Tok = "OP", !.Lit = <<"-", ">">>],
                             at.offset, NextCh(p))
                 ELSE Return([t EXCEPT !.Tok = "-", !.Lit = <<"-">>],
                             at.offset, p)
              /\ UNCHANGED unterminated

LineComment ==
  /\ pc = "line comment"
  /\ IF at.ch \notin {End, "\n"} THEN Move ELSE Goto("redo", at, loc)

Slash ==
  /\ pc = "redo" /\ at.ch = "/"
  /\ LET p == NextCh(at)
     IN  IF p.ch = "*"
         THEN Goto("block comment", NextCh(p), [loc EXCEPT !.depth = 1])
         ELSE /\ Return([MarkedAfter(p) EXCEPT !.Tok = "/", !.Lit = <<"/">>],
                        at.offset, p)
              /\ UNCHANGED unterminated

(* Seeded bug: the loop waits for the closing characters only.              *)
BlockCommentToTheEnd ==
  /\ pc = "block comment"
  /\ LET p == NextCh(at)
     IN  IF loc.depth = 0 THEN Goto("redo", at, NoLocals)
         ELSE IF at.ch = "/" /\ p.ch = "*"
         THEN Goto(pc, NextCh(p), [loc EXCEPT !.depth = @ + 1])
         ELSE IF at.ch = "*" /\ p.ch = "/"
         THEN Goto(pc, NextCh(p), [loc EXCEPT !.depth = @ - 1])
         ELSE Move

(* One turn of the loop over a block comment.  A comment that is not closed *)
(* ends with the text, and nobody is told.                                 *)
BlockComment ==
  /\ pc = "block comment"
  /\ LET p == NextCh(at)
     IN  IF loc.depth = 0 \/ at.ch = End THEN Goto("redo", at, NoLocals)
         ELSE IF at.ch = "/" /\ p.ch = "*"
         THEN Goto(pc, NextCh(p), [loc EXCEPT !.depth = @ + 1])
         ELSE IF at.ch = "*" /\ p.ch = "/"
         THEN Goto(pc, NextCh(p), [loc EXCEPT !.depth = @ - 1])
         ELSE Move

EndOfInput ==
  /\ pc = "redo" /\ at.ch = End
  /\ Emit(EOF, <<>>, at)

----------------------------------------------------------------------------
(* Identifiers, keywords and composite names.                              *)

BeginIdent ==
  /\ pc = "redo" /\ at.ch \in IdentStart
  /\ Enter("ident", NextCh(at), [NoLocals EXCEPT !.start = at.offset])

(* LookupKeyword decides between a keyword and a word.                     *)
EndWord(word, p) ==
  LET lower == ToLower(word)
  IN  IF lower \in DOMAIN Keywords
      THEN /\ Return([this EXCEPT !.Tok = Keywords[lower], !.Lit = lower,
                                  !.Cat = Category(Keywords[lower])],
                     loc.from, p)
           /\ UNCHANGED unterminated
      ELSE Finish("WORD", word, p)

ScanIdent ==
  /\ pc = "ident"
  /\ LET p == NextCh(at)
         word == Slice(loc.start, at.offset)
     IN  IF at.ch \in IdentCont THEN Move
         ELSE IF at.ch # "." THEN EndWord(word, at)
         ELSE IF p.ch \in IdentStart THEN Goto("composite", p, loc)
         ELSE EndWord(word, Restored(at, p))

(* The loop of tryComposite.  The parts and the dots between them are the  *)
(* bytes from the start.                                                   *)
TryComposite ==
  /\ pc = "composite"
  /\ LET p == NextCh(at)
         name == Slice(loc.start, at.offset)
     IN  IF at.ch \in IdentCont THEN Move
         ELSE IF at.ch # "." THEN Finish("CWORD", name, at)
         ELSE IF p.ch \in IdentStart THEN Goto(pc, p, loc)
         ELSE Finish("CWORD", name, Restored(at, p))

----------------------------------------------------------------------------
(* Numbers.                                                                *)

BeginNumber ==
  /\ pc = "redo" /\ at.ch \in Digits
  /\ Enter("number", NextCh(at), [NoLocals EXCEPT !.start = at.offset])

(* e or E, with the sign after it.                                         *)
Exponent ==
  LET p == NextCh(at)
  IN  Goto("exponent", IF p.ch \in {"+", "-"} THEN NextCh(p) ELSE p, loc)

(* Seeded bug: the dot is taken without a look at the character after it.  *)
ScanNumberTakesDot ==
  /\ pc = "number"
  /\ LET p == NextCh(at)
     IN  IF at.ch \in Digits THEN Move
         ELSE IF at.ch = "." THEN Goto("fraction", p, loc)
         ELSE IF at.ch \in {"e", "E"} THEN Exponent
         ELSE Finish("ICONST", Slice(loc.start, at.offset), at)

(* A dot belongs to the number unless it is the first of two.              *)
ScanNumber ==
  /\ pc = "number"
  /\ LET p == NextCh(at)
     IN  IF at.ch \in Digits THEN Move
         ELSE IF at.ch = "." /\ p.ch # "." THEN Goto("fraction", p, loc)
         ELSE IF at.ch \in {"e", "E"} THEN Exponent
         ELSE Finish("ICONST", Slice(loc.start, at.offset), at)

(* After the dot, in scanNumber and scanNumberAfterDot.                    *)
Fraction ==
  /\ pc = "fraction"
  /\ IF at.ch \in Digits THEN Move
     ELSE IF at.ch \in {"e", "E"} THEN Exponent
     ELSE Finish("FCONST", Slice(loc.start, at.offset), at)

ExponentDigits ==
  /\ pc = "exponent"
  /\ IF at.ch \in Digits THEN Move
     ELSE Finish("FCONST", Slice(loc.start, at.offset), at)

Dot ==
  /\ pc = "redo" /\ at.ch = "."
  /\ LET p == NextCh(at)
     IN  IF p.ch \in Digits
         THEN Enter("fraction", p, [NoLocals EXCEPT !.start = p.offset - 1])
         ELSE IF p.ch = "." THEN Emit("..", <<".", ".">>, NextCh(p))
         ELSE Emit(".", <<".">>, p)

----------------------------------------------------------------------------
(* Quotes.                                                                 *)

(* Seeded bug: a string ends with its line.                                *)
ScanStringOneLine ==
  /\ pc = "string"
  /\ LET p == NextCh(at)
         Take(bytes, q) == Goto(pc, q, [loc EXCEPT !.buf = @ \o bytes])
     IN  IF at.ch \in {End, "\n"} THEN Unclosed("SCONST", loc.buf)
         ELSE IF at.ch # "'" THEN Take(Slice(at.offset, at.offset + at.chw), p)
         ELSE IF p.ch = "'" THEN Take(<<"'">>, NextCh(p))
         ELSE Finish("SCONST", loc.buf, p)

BeginString ==
  /\ pc = "redo" /\ at.ch = "'"
  /\ Enter("string", NextCh(at), NoLocals)

ScanString ==
  /\ pc = "string"
  /\ LET p == NextCh(at)
         Take(bytes, q) == Goto(pc, q, [loc EXCEPT !.buf = @ \o bytes])
     IN  IF at.ch = End THEN Unclosed("SCONST", loc.buf)
         ELSE IF at.ch # "'" THEN Take(Slice(at.offset, at.offset + at.chw), p)
         ELSE IF p.ch = "'" THEN Take(<<"'">>, NextCh(p))
         ELSE Finish("SCONST", loc.buf, p)

BeginQuotedIdent ==
  /\ pc = "redo" /\ at.ch = "\""
  /\ Enter("quoted", NextCh(at), [NoLocals EXCEPT !.start = NextCh(at).offset])

(* The last byte is cut off whether or not it is a closing quote; when it   *)
(* is the opening one, the bounds of the slice are reversed and Go panics.  *)
ScanQuotedIdent ==
  /\ pc = "quoted"
  /\ LET p == NextCh(at)
     IN  IF at.ch = End
         THEN IF loc.start <= at.offset - 1
              THEN Unclosed("IDENT", Slice(loc.start, at.offset - 1))
              ELSE /\ pc' = "panic"
                   /\ unterminated' = TRUE
                   /\ UNCHANGED <<src, at, this, pb, loc, tokens>>
         ELSE IF at.ch # "\"" THEN Move
         ELSE IF p.ch = "\"" THEN Goto(pc, NextCh(p), loc)
         ELSE Finish("IDENT", Slice(loc.start, p.offset - 1), p)

Panicked == pc = "panic" /\ UNCHANGED vars

----------------------------------------------------------------------------
(* Dollars: parameters and dollar-quoted strings.                          *)

Dollar ==
  /\ pc = "redo" /\ at.ch = "$"
  /\ LET p == NextCh(at)
         body == NextCh(p)
     IN  CASE p.ch \in Digits ->
                Enter("param", p, [NoLocals EXCEPT !.start = p.offset - 1])
           [] p.ch = "$" ->
                Enter("body", body, [NoLocals EXCEPT !.start = body.offset,
                                                     !.buf = <<"$", "$">>])
           [] p.ch \in IdentStart ->
                Enter("tag", p, [NoLocals EXCEPT !.start = p.offset])
           [] OTHER -> Emit("$", <<"$">>, p)

ScanParam ==
  /\ pc = "param"
  /\ IF at.ch \in Digits THEN Move
     ELSE Finish("PARAM", Slice(loc.start, at.offset), at)

(* The tag of a dollar quote.  When no $ follows, the token is the $ before *)
(* it, and the tag is dropped.                                             *)
ScanTag ==
  /\ pc = "tag"
  /\ LET p == NextCh(at)
     IN  IF at.ch \in DollarTagCont THEN Move
         ELSE IF at.ch # "$" THEN Finish("$", <<"$">>, at)
         ELSE Goto("body", p,
                   [loc EXCEPT !.start = p.offset,
                               !.buf = <<"$">> \o Slice(loc.start, at.offset)
                                       \o <<"$">>])

(* The body, up to the delimiter, which is in buf.  At the delimiter, buf   *)
(* becomes the body.                                                       *)
ScanBody ==
  /\ pc = "body"
  /\ IF at.ch = End
     THEN Unclosed("SCONST", Slice(loc.start, at.offset))
     ELSE IF /\ at.ch = "$"
             /\ at.offset + Len(loc.buf) <= Len(src)
             /\ Slice(at.offset, at.offset + Len(loc.buf)) = loc.buf
     THEN Goto("delimiter", at,
               [loc EXCEPT !.buf = Slice(loc.start, at.offset),
                           !.left = Len(loc.buf)])
     ELSE Move

(* Past the delimiter: one character for each of its bytes.                *)
PastDelimiter ==
  /\ pc = "delimiter"
  /\ IF loc.left > 0
     THEN Goto(pc, NextCh(at), [loc EXCEPT !.left = @ - 1])
     ELSE Finish("SCONST", loc.buf, at)

----------------------------------------------------------------------------
(* Operators and single characters.                                        *)

PairOrSelf ==
  /\ pc = "redo" /\ at.ch \in PairStart
  /\ LET p == NextCh(at)
     IN  IF \E pair \in Pairs : pair[1] = at.ch /\ pair[2] = p.ch
         THEN \E pair \in Pairs :
                /\ pair[1] = at.ch /\ pair[2] = p.ch
                /\ Emit(pair[3], <<at.ch, p.ch>>, NextCh(p))
         ELSE Emit(IF at.ch = "!" THEN "OP" ELSE at.ch, <<at.ch>>, p)

(* The operator characters that begin no other token.                      *)
OperatorStart == OpChars \ (PairStart \cup {"-", "/", "#"})

BeginOperator ==
  /\ pc = "redo" /\ at.ch \in OperatorStart
  /\ Enter("operator", NextCh(at), [NoLocals EXCEPT !.start = at.offset])

ScanOperator ==
  /\ pc = "operator"
  /\ IF at.ch \in OpChars THEN Move
     ELSE Finish("OP", Slice(loc.start, at.offset), at)

Self ==
  /\ pc = "redo" /\ at.ch \in {"#", ";", "(", ")", "xA9"} \cup Control
  /\ Emit(SelfToken(at.ch), Encoded(at.ch), NextCh(at))

----------------------------------------------------------------------------

(* A step of a call of Next in progress.                                   *)
Scanning ==
  \/ SkipSpace \/ Minus \/ LineComment \/ Slash \/ BlockComment \/ EndOfInput
  \/ BeginIdent \/ ScanIdent \/ TryComposite
  \/ BeginNumber \/ ScanNumber \/ Fraction \/ ExponentDigits \/ Dot
  \/ BeginString \/ ScanString \/ BeginQuotedIdent \/ ScanQuotedIdent
  \/ Dollar \/ ScanParam \/ ScanTag \/ ScanBody \/ PastDelimiter
  \/ PairOrSelf \/ BeginOperator \/ ScanOperator \/ Self

Next == PushBack \/ Redeliver \/ Call \/ Scanning \/ Panicked

Spec == Init /\ [][Next]_vars

Points == {"idle", "redo", "line comment", "block comment", "ident", "composite",
           "number", "fraction", "exponent", "string", "quoted", "param", "tag",
           "body", "delimiter", "operator", "panic"}

(* The scanner stays within the text, and what it slices out of it too.    *)
TypeOK ==
  /\ src \in Seq(Byte)
  /\ at \in [offset : 0 .. Len(src), ch : Rune, chw : 0 .. 2, line : Nat, col : Nat]
  /\ this \in Current /\ pb \in Current
  /\ pc \in Points
  /\ loc \in [from : 0 .. Len(src), start : 0 .. at.offset, depth : Nat,
              buf : Seq(Byte), left : Nat]
  /\ unterminated \in BOOLEAN
  /\ tokens \in Seq([Tok : Kind, Lit : Seq(Byte), Line : Nat, Col : Nat,
                     from : 0 .. Len(src), to : 0 .. Len(src)])

(* Next runs on its caller's goroutine and waits for nobody.               *)
FairSpec == Spec /\ WF_vars(Scanning)

=============================================================================
