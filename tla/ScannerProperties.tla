------------------------- MODULE ScannerProperties -------------------------
(***************************************************************************)
(* What the scanner should guarantee, beyond its contract.  The properties *)
(* of the second part state what a comment says and the code does not do.  *)
(***************************************************************************)
EXTENDS ScannerContract, Lexemes
LOCAL INSTANCE SequencesExt

Newest == tokens[Len(tokens)]
Before == IF Len(tokens) = 1 THEN 0 ELSE tokens[Len(tokens) - 1].to

(* The text of a literal, as its quotes have it.                           *)
Doubled(lit, q) ==
  FlattenSeq([k \in DOMAIN lit |-> IF lit[k] = q THEN <<q, q>> ELSE <<lit[k]>>])

(* What a token's literal should be, given its bytes.                       *)
Spells(t) ==
  LET text == Slice(t.from, t.to)
      open == t.from + 1
  IN  CASE t.Tok = "SCONST" /\ src[open] = "'" ->
             IF Quoted("'", open, t.to)
             THEN Doubled(t.Lit, "'") = SubSeq(text, 2, Len(text) - 1)
             ELSE Len(t.Lit) < Len(text)
        [] t.Tok = "SCONST" /\ src[open] = "$" ->
             \E k \in open .. t.to :
               /\ Delimiter(open, k)
               /\ t.Lit = IF DollarQuoted(open, k, t.to)
                          THEN Slice(k, t.to - (k - t.from))
                          ELSE Slice(k, t.to)
        [] t.Tok = "IDENT" -> t.Lit = SubSeq(text, 2, Len(text) - 1)
        [] t.Tok = "$" -> t.Lit = <<"$">>
        [] t.Tok \in Reserved \cup Unreserved -> t.Lit = ToLower(text)
        [] t.Tok = "xA9" -> t.Lit = Encoded("xA9")
        [] OTHER -> t.Lit = text

(* Every token is the longest the text has at its place, of the kind and   *)
(* with the literal the grammar gives it; and nothing but blanks and       *)
(* comments is left out between one token and the next.                    *)
TokensAreLexemes ==
  pc = "idle" /\ tokens # <<>> =>
    LET start == AfterBlanks[Before + 1]
        Kinds(kind) == IF kind # "name" THEN {kind}
                       ELSE LET w == ToLower(Slice(Newest.from, Newest.to))
                            IN  IF w \in DOMAIN Keywords THEN {Keywords[w]}
                                ELSE {"WORD"}
    IN  /\ Newest.from = start - 1
        /\ IF start > Len(src) THEN Newest.Tok = EOF /\ Newest.Lit = <<>>
           ELSE /\ \E l \in Lexeme(start) :
                     Newest.to = l.last /\ Newest.Tok \in Kinds(l.kind)
                /\ Spells(Newest)

----------------------------------------------------------------------------
(* What the comments say and the code does not do.                         *)

(* tokens.go: EOF is the "end of input".                                    *)
EofIsTheEnd == this.Tok = EOF => at.ch = End

(* scanner.go: the last byte sliced off an identifier is its "closing      *)
(* quote".                                                                 *)
ClosingQuoteExcluded ==
  pc = "panic" \/ (tokens # <<>> /\ Newest.Tok = "IDENT") =>
    pc # "panic" /\ src[Newest.to] = "\""

(* scanner.go: after the body the scanner advances "past the delimiter",   *)
(* and no further.                                                         *)
StopsPastDelimiter ==
  tokens # <<>> /\ Newest.Tok = "SCONST" /\ src[Newest.from + 1] = "$" =>
    \/ unterminated
    \/ src[Newest.to] = "$"

=============================================================================
