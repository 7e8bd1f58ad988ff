-------------------------- MODULE ScannerContract --------------------------
(***************************************************************************)
(* What the scanner promises the parser: positions, and the stream of      *)
(* tokens that the parser's model is built on.                             *)
(***************************************************************************)
EXTENDS Scanner, FiniteSets

CONSTANTS
  Base,          \* 10000
  Sqlstate       \* the spellings of the word sqlstate

ASSUME BaseAssumption == Base \in Nat \ {0}

(* Seeded bug: the factor is smaller than a line may be long.              *)
PosOverlapping(line, col) == line * (Base - 2) + col

(* The position of a token, as Parser.next computes it.                    *)
Pos(line, col) == line * Base + col

(* How many lines end before byte o of the text, and whether col bytes have *)
(* passed since the last of them did.                                      *)
Newlines(o) == Cardinality({k \in 1 .. o : src[k] = "\n"})

InColumn(o, col) ==
  /\ col <= o
  /\ col < o => src[o - col] = "\n"
  /\ \A k \in o - col + 1 .. o : src[k] # "\n"

(* The scanner keeps line and column by hand, forth over every character,  *)
(* back after a look past a dot, and records them before a token or, for   *)
(* "-" and "/", after it.  They are always those of the byte it is at, and *)
(* those recorded in a token are those of its first byte.                  *)
PositionsExact ==
  /\ at.line = Newlines(at.offset) /\ InColumn(at.offset, at.col)
  /\ \A i \in DOMAIN tokens :
       LET t == tokens[i]
       IN  t.Line = Newlines(t.from) + 1 /\ InColumn(t.from, t.Col - 1)

(* In a text of short lines, a position belongs to one token only, and     *)
(* positions are ordered like the tokens.                                  *)
ShortLines == \A o \in 1 .. Len(src) - Base + 1 :
                \E k \in o .. o + Base - 1 : src[k] = "\n"

PositionsOrdered ==
  ShortLines =>
    \A j \in DOMAIN tokens : \A i \in 1 .. j - 1 :
      Pos(tokens[i].Line, tokens[i].Col) < Pos(tokens[j].Line, tokens[j].Col)

----------------------------------------------------------------------------
(* The stream of tokens.                                                   *)

(* The kind of a token, as far as the parser tells tokens apart.            *)
StreamKind(t) ==
  CASE t.Tok = "IDENT" /\ t.Lit \in Sqlstate -> "IDENT_SQLSTATE"
    [] t.Tok = "IDENT" /\ t.Lit \notin Sqlstate -> "IDENT"
    [] t.Tok \in Token \ {"IDENT"} -> t.Tok
    [] OTHER -> "OP"

AnyText ==
  [start |-> <<>>, rest |-> Token \ {EOF}, tokens |-> 0, operands |-> 0,
   slack |-> 0]

Stream == INSTANCE TokenStream WITH
  Sources      <- {AnyText},
  Broken       <- {"SCONST"} \cup QuotedNames,
  src          <- AnyText,
  toks         <- [i \in DOMAIN tokens |-> StreamKind(tokens[i])],
  pushed       <- pb # Nothing,
  unterminated <- unterminated /\ pc # "panic"

(* The scanner is the stream that the parser's model assumes: a token      *)
(* pushed back is the next one delivered, nothing follows a literal that   *)
(* is not closed, and the end of the text is delivered for ever.           *)
KeepsStream == Stream!StreamSpec

(* Every call of Next returns, whatever the text.                          *)
NextReturns == pc \notin {"idle", "panic"} ~> pc \in {"idle", "panic"}

=============================================================================
