------------------------------ MODULE Captured ------------------------------
(***************************************************************************)
(* What becomes of SQL.  collectTokens reads a fragment - here, a whole    *)
(* text - token by token and keeps it as a string: the literals of the     *)
(* tokens with a space between them, string constants in quotes again if   *)
(* the caller asks for it.  Whoever uses the tree scans that string again, *)
(* and it should be the same SQL.  The second reader is a new scanner of   *)
(* the same kind.                                                          *)
(***************************************************************************)
EXTENDS Scanner
LOCAL INSTANCE SequencesExt

CONSTANT Requote    \* which values of requote to consider

ASSUME RequoteAssumption == Requote \subseteq BOOLEAN

VARIABLES
  requote,     \* the argument of collectTokens
  original     \* the tokens of the fragment once it is collected, else <<>>

capturedVars == <<vars, requote, original>>

Done == pc = "idle" /\ tokens # <<>> /\ Last(tokens).Tok = EOF

(* strings.ReplaceAll(lit, "'", "''").                                     *)
Escaped(lit) ==
  FlattenSeq([k \in DOMAIN lit |->
                IF lit[k] = "'" THEN <<"'", "'">> ELSE <<lit[k]>>])

(* Seeded bug: a quote inside the constant is not doubled.                 *)
PartUnescaped(t) ==
  IF requote /\ t.Tok = "SCONST" THEN <<"'">> \o t.Lit \o <<"'">> ELSE t.Lit

(* A token's contribution to the string.                                   *)
Part(t) ==
  IF requote /\ t.Tok = "SCONST" THEN <<"'">> \o Escaped(t.Lit) \o <<"'">>
  ELSE t.Lit

(* strings.TrimSpace(strings.Join(parts, " ")).                            *)
TrimSpace(s) ==
  LET solid == {k \in DOMAIN s : s[k] \notin Spaces}
  IN  IF solid = {} THEN <<>>
      ELSE SubSeq(s, CHOOSE k \in solid : \A l \in solid : k <= l,
                     CHOOSE k \in solid : \A l \in solid : l <= k)

Joined == TrimSpace(FlattenSeq([k \in 1 .. Len(tokens) - 1 |->
                                  Part(tokens[k]) \o <<" ">>]))

CapturedInit == Init /\ requote \in Requote /\ original = <<>>

(* A turn of the loop of collectTokens: a call of Next.                    *)
Collect ==
  /\ ~Done
  /\ Call \/ Scanning
  /\ UNCHANGED <<requote, original>>

(* At the end of the fragment, the string is the text of a new scanner.    *)
Rescan ==
  /\ Done /\ original = <<>>
  /\ original' = tokens
  /\ src' = Joined
  /\ at' = PlaceAt(0, 0, 0)'
  /\ this' = Nothing
  /\ unterminated' = FALSE
  /\ tokens' = <<>>
  /\ UNCHANGED <<pb, pc, loc, requote>>

Stopped == (pc = "panic" \/ (Done /\ original # <<>>)) /\ UNCHANGED capturedVars

CapturedNext == Collect \/ Rescan \/ Stopped

CapturedSpec == CapturedInit /\ [][CapturedNext]_capturedVars

----------------------------------------------------------------------------

Meaning(s) == [k \in DOMAIN s |-> [Tok |-> s[k].Tok, Lit |-> s[k].Lit]]

Same == Done /\ original # <<>> => Meaning(tokens) = Meaning(original)

(* The collected string holds the tokens of the fragment, with the same    *)
(* literals and no others, wherever its tokens' spelling survives: there   *)
(* is no quoted identifier in it, and no string unless it is quoted again. *)
(* The spaces put between tokens, the doubling of quotes, comments left    *)
(* out and the trimming of the ends together change nothing.               *)
CapturedMeansTheSame ==
  (\A k \in DOMAIN original :
     original[k].Tok # "IDENT" /\ (original[k].Tok = "SCONST" => requote))
  => Same

(* README: "SQL expressions and embedded SQL statements are captured as    *)
(* raw text", for the main SQL parser to parse.                            *)
CapturedIsTheText == Same

=============================================================================
