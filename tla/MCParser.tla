------------------------------ MODULE MCParser ------------------------------
(***************************************************************************)
(* Alphabets and preambles for model checking the parser, one pair for     *)
(* each family of parse functions.                                         *)
(***************************************************************************)
EXTENDS ParserProperties

Nothing == {}
Unterminable == {"SCONST"} \cup QuotedNames

NoPreamble == <<>>
InBody == <<"BEGIN">>
InFor == <<"BEGIN", "FOR", "WORD", "IN">>
InForEach == <<"BEGIN", "FOREACH", "WORD">>
InSlice == <<"BEGIN", "FOREACH", "WORD", "SLICE", "ICONST">>
InCase == <<"BEGIN", "CASE">>
InDeclaration == <<"DECLARE", "WORD">>
InCursor == <<"DECLARE", "WORD", "CURSOR", "(">>
InHandler == <<"BEGIN", "EXCEPTION", "WHEN">>
InWord == <<"BEGIN", "WORD">>
InGet == <<"BEGIN", "GET">>
InRaise == <<"BEGIN", "RAISE", "USING">>
InOpen == <<"BEGIN", "OPEN", "WORD">>

IfTokens == {"IF", "THEN", "ELSIF", "ELSE", "END", "NULL", ";"}
CaseTokens == {"WHEN", "THEN", "ELSE", "END", "CASE", ";"}
ForTokens == {"EXECUTE", "USING", "..", "BY", ",", "LOOP", "END", ";"}
ForEachTokens == {"SLICE", "ICONST", "IN", "ARRAY", "LOOP", "END", "WORD", ";"}
SliceTokens == {"ICONST", "IN", "ARRAY", "LOOP", "END", ";"}
LoopTokens == {"<<", ">>", "LOOP", "WHILE", "EXIT", "END", ";"}
BlockTokens == {"<<", ">>", "WORD", "DECLARE", "BEGIN", "EXCEPTION", "END", ";"}
HandlerTokens == {"WHEN", "OR", "SQLSTATE", "IDENT_SQLSTATE", "SCONST", "WORD",
                  "THEN", "NULL", "END", ";"}
DeclTokens == {"WORD", "CONSTANT", "NOT", "NULL", "DEFAULT", ":=", "COLLATE",
               ";", "BEGIN", "END"}
CursorTokens == {"ALIAS", "SCROLL", "CURSOR", "FOR", "(", ")", ",", "WORD", ";",
                 "BEGIN", "END"}
NoTokens == {"NO", "SCROLL", "CURSOR", "FOR", "WORD", ";", "BEGIN", "END"}
RaiseTokens == {"RAISE", "NOTICE", "SCONST", ",", "SQLSTATE", "WORD", ";", "END"}
UsingTokens == {"RAISE", "USING", "MESSAGE", "=", ",", ";", "END"}
ExecuteTokens == {"EXECUTE", "USING", "INTO", "STRICT", ",", ";", "END"}
QueryTokens == {"RETURN", "NEXT", "QUERY", "EXECUTE", "USING", ",", ";", "END"}
DiagTokens == {"STACKED", "DIAGNOSTICS", "WORD", "=", ",", ";", "END"}
FetchTokens == {"FETCH", "MOVE", "NEXT", "ALL", "ICONST", "FROM", "WORD",
                "INTO", ";", "END"}
OpenTokens == {"SCROLL", "FOR", "EXECUTE", "USING", "(", ")", ",", ";", "END"}
OpenNoTokens == {"NO", "SCROLL", "FOR", "(", ";", "END"}
ChainTokens == {"COMMIT", "ROLLBACK", "AND", "NO", "CHAIN", "CLOSE", "WORD",
                ";", "END"}
CallTokens == {"CALL", "PERFORM", "ASSERT", "CONTINUE", "WHEN", ",", ";", "END"}
BracketTokens == {"DO", "ASSERT", "(", ")", ",", ";", "END"}
WordTokens == {"WORD", ".", "[", "]", ":=", ";", "END"}
OpenAgainTokens == {"NO", "SCROLL", "OPEN", "WORD", "NULL", ";", "END"}
TypeTokens == {"NO", "SCROLL", "CURSOR", "WORD", ")", ";", "BEGIN", "END"}
RecoveryTokens == {"DECLARE", "BEGIN", "WORD", "(", ")", "<<", "LOOP", "END", ";"}
LiteralTokens == {"SCONST", "IDENT", ";", "END"}
RowsTokens == {"REVERSE", "EXECUTE", "..", "LOOP", "END", ";"}
OptionTokens == {"MESSAGE", ";", "END"}

(* A family of texts without anything after the first error.               *)
Texts(start, rest, tokens, operands) ==
  [start |-> start, rest |-> rest, tokens |-> tokens, operands |-> operands,
   slack |-> 0]

Control ==
  {Texts(InBody, IfTokens, 10, 1),
   Texts(InCase, CaseTokens, 11, 1),
   Texts(InFor, ForTokens, 11, 2),
   Texts(InFor, RowsTokens, 11, 3),
   Texts(InForEach, ForEachTokens, 11, 2),
   Texts(InSlice, SliceTokens, 13, 4),
   Texts(InBody, LoopTokens, 8, 2)}

Declarations ==
  {Texts(NoPreamble, BlockTokens, 7, 2),
   Texts(InHandler, HandlerTokens, 9, 3),
   Texts(InDeclaration, DeclTokens, 7, 3),
   Texts(InCursor, CursorTokens, 8, 4),
   Texts(InDeclaration, NoTokens, 7, 4)}

Commands ==
  {Texts(InBody, RaiseTokens, 7, 3),
   Texts(InBody, UsingTokens, 7, 3),
   Texts(InBody, QueryTokens, 7, 2),
   Texts(InBody, CallTokens, 7, 2),
   Texts(InBody, BracketTokens, 7, 3),
   Texts(InBody, ChainTokens, 7, 2),
   Texts(InWord, WordTokens, 9, 3)}

Cursors ==
  {Texts(InBody, ExecuteTokens, 8, 3),
   Texts(InGet, DiagTokens, 9, 4),
   Texts(InBody, FetchTokens, 7, 3),
   Texts(InOpen, OpenTokens, 8, 3),
   Texts(InOpen, OpenNoTokens, 8, 3)}

(* The texts that show the differences between grammar and comments.        *)
Lax == {Texts(LaxText[d], Nothing, Len(LaxText[d]), 4) : d \in DOMAIN LaxText}

ControlAndCommands == Control \cup Commands \cup Lax

DeclarationsAndCursors == Declarations \cup Cursors

(* Texts that go on after the first error, without and with a pushback.     *)
Wrong ==
  {[start |-> NoPreamble, rest |-> RecoveryTokens, tokens |-> 6,
    operands |-> 3, slack |-> 3],
   [start |-> InOpen, rest |-> OpenAgainTokens, tokens |-> 7,
    operands |-> 4, slack |-> 2],
   [start |-> InDeclaration, rest |-> TypeTokens, tokens |-> 6,
    operands |-> 4, slack |-> 2]}

Literals ==
  {[start |-> InBody, rest |-> LiteralTokens, tokens |-> 5, operands |-> 3,
    slack |-> 2]}
NoScroll == {Texts(InDeclaration, NoTokens, 8, 5)}

Options == {Texts(InRaise, OptionTokens, 6, 4)}

=============================================================================
