---------------------------- MODULE TokenStream ----------------------------
(***************************************************************************)
(* The scanner as the parser sees it: a sequence of tokens that grows by   *)
(* one at each Next, a one-token pushback, and EOF delivered for ever once *)
(* reached.  Only the kind of source text is fixed in advance: every Next  *)
(* chooses the token that the text holds at that place, so a behaviour is  *)
(* one source text.                                                        *)
(***************************************************************************)
EXTENDS Tokens, Naturals, Sequences

(* A family of source texts: the tokens they all start with and those they *)
(* may hold after these; and the bounds of the model: how many tokens, how *)
(* many of them operands before the text breaks off, how many tokens after *)
(* a syntax error.                                                         *)
Source ==
  [start : Seq(Token \ {EOF}), rest : SUBSET (Token \ {EOF}),
   tokens : Nat, operands : Nat, slack : Nat]

CONSTANTS
  Sources,       \* the families of source texts
  Broken         \* the tokens that an unterminated literal may produce

ASSUME StreamAssumption ==
  /\ Sources \subseteq Source
  /\ Broken \subseteq {"SCONST"} \cup QuotedNames

VARIABLES
  src,           \* the family of the source text
  toks,          \* the tokens scanned so far, the current one last
  pushed,        \* hasPushback
  unterminated   \* the scanner has called its error handler

streamVars == <<src, toks, pushed, unterminated>>

cur == Len(toks)
tok == toks[cur]

(* The kinds of token the source may hold at place n.                      *)
Upcoming(n, more) ==
  IF n <= Len(src.start) THEN {src.start[n]}
  ELSE (IF more THEN src.rest ELSE {}) \cup {EOF}

StreamType ==
  /\ src \in Sources
  /\ toks \in Seq(Token) /\ toks # <<>>
  /\ pushed \in BOOLEAN
  /\ unterminated \in BOOLEAN

(* Scanner.Init and the first Next (Parser.init).                          *)
StreamInit ==
  /\ src \in Sources
  /\ \E t \in Upcoming(1, TRUE) :
       toks = <<t>> /\ unterminated \in {FALSE, (t \in Broken)}
  /\ pushed = FALSE

(* Scanner.Next proper.  A literal that is not closed runs to the end of   *)
(* the text: the scanner reports it, returns it as a token, and only EOF   *)
(* is left.                                                                *)
Scan(more) ==
  \E t \in IF unterminated THEN {EOF} ELSE Upcoming(cur + 1, more) :
    /\ toks' = Append(toks, t)
    /\ unterminated' \in {unterminated, unterminated \/ t \in Broken}
    /\ UNCHANGED src

(* Seeded bug: the pushback is not cleared.                                *)
AdvanceKeepsPushed(more) ==
  \/ pushed /\ UNCHANGED streamVars
  \/ ~pushed /\ tok = EOF /\ UNCHANGED streamVars
  \/ ~pushed /\ tok # EOF /\ Scan(more) /\ UNCHANGED pushed

(* Scanner.Next: a pushed-back token first, then the text, then EOF.       *)
Advance(more) ==
  \/ /\ pushed
     /\ pushed' = FALSE
     /\ UNCHANGED <<src, toks, unterminated>>
  \/ /\ ~pushed /\ tok = EOF
     /\ UNCHANGED streamVars
  \/ /\ ~pushed /\ tok # EOF
     /\ Scan(more)
     /\ UNCHANGED pushed

(* Scanner.PushBack saves the current token; the token before it is gone.  *)
PushBack ==
  /\ pushed' = TRUE
  /\ UNCHANGED <<src, toks, unterminated>>

(* The stream by itself, from before the first Next, with any client.      *)
Unread ==
  /\ src \in Sources
  /\ toks = <<>>
  /\ pushed = FALSE
  /\ unterminated = FALSE

First ==
  /\ toks = <<>>
  /\ \E t \in Upcoming(1, TRUE) :
       toks' = <<t>> /\ unterminated' \in {FALSE, (t \in Broken)}
  /\ UNCHANGED <<src, pushed>>

StreamNext == First \/ (toks # <<>> /\ (Advance(TRUE) \/ PushBack))

StreamSpec == Unread /\ [][StreamNext]_streamVars

=============================================================================
