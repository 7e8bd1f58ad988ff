------------------------------- MODULE Tokens -------------------------------
(***************************************************************************)
(* The token kinds that pass from the scanner to the parser (package       *)
(* scanner, tokens.go and keywords.go) and the classes the parser tests.   *)
(* A keyword K_X is written "X"; a single-character token is written as    *)
(* that character; T_WORD and T_CWORD are "WORD" and "CWORD"; "OP" stands  *)
(* for every operator token the parser never looks at by itself.           *)
(***************************************************************************)

EOF == "EOF"

(* Two single characters by the names the parse functions call them here.  *)
semi == ";"
comma == ","

(* Keywords that are never identifiers.                                    *)
Reserved ==
  {"ALL", "BEGIN", "BY", "CASE", "DECLARE", "ELSE", "END", "FOR", "FOREACH",
   "FROM", "IF", "IN", "INTO", "LOOP", "NOT", "NULL", "OR", "THEN", "TO",
   "USING", "WHEN", "WHILE"}

(* Keywords that anyIdentifier accepts as identifiers (unreservedSet).      *)
Unreserved ==
  {"ABSOLUTE", "ALIAS", "AND", "ARRAY", "ASSERT", "BACKWARD", "CALL",
   "CHAIN", "CLOSE", "COLLATE", "COLUMN", "COLUMN_NAME", "COMMIT",
   "CONSTANT", "CONSTRAINT", "CONSTRAINT_NAME", "CONTINUE", "CURRENT",
   "CURSOR", "DATATYPE", "DEBUG", "DEFAULT", "DETAIL", "DIAGNOSTICS", "DO",
   "DUMP", "ELSIF", "ERRCODE", "ERROR", "EXCEPTION", "EXECUTE", "EXIT",
   "FETCH", "FIRST", "FORWARD", "GET", "HINT", "IMPORT", "INFO", "INSERT",
   "IS", "LAST", "LOG", "MERGE", "MESSAGE", "MESSAGE_TEXT", "MOVE", "NEXT",
   "NO", "NOTICE", "OPEN", "OPTION", "PERFORM", "PG_CONTEXT",
   "PG_DATATYPE_NAME", "PG_EXCEPTION_CONTEXT", "PG_EXCEPTION_DETAIL",
   "PG_EXCEPTION_HINT", "PG_ROUTINE_OID", "PRINT_STRICT_PARAMS", "PRIOR",
   "QUERY", "RAISE", "RELATIVE", "RETURN", "RETURNED_SQLSTATE", "REVERSE",
   "ROLLBACK", "ROW_COUNT", "ROWTYPE", "SCHEMA", "SCHEMA_NAME", "SCROLL",
   "SLICE", "SQLSTATE", "STACKED", "STRICT", "TABLE", "TABLE_NAME", "TYPE",
   "USE_COLUMN", "USE_VARIABLE", "VARIABLE_CONFLICT", "WARNING"}

(* Names in quotes; parseCondition tells those that read sqlstate from the  *)
(* others by their text.                                                   *)
QuotedNames == {"IDENT", "IDENT_SQLSTATE"}

(* What parseStmtWordStart starts with.                                    *)
WordStart == {"WORD", "CWORD"} \cup QuotedNames

Names == WordStart \cup {"PARAM"}

Symbols ==
  {"SCONST", "ICONST", "FCONST", "OP", ";", ",", ".", "..", "(", ")", "[",
   "]", ":=", "=", "<<", ">>"}

Token == Reserved \cup Unreserved \cup Names \cup Symbols \cup {EOF}

(* What anyIdentifier takes for an identifier.                             *)
Identifiers == Names \cup Unreserved

(* The test repeated wherever a label may follow (END, END LOOP, EXIT,     *)
(* FETCH): T_WORD, IDENT or an unreserved keyword.                         *)
LabelTokens == {"WORD"} \cup QuotedNames \cup Unreserved

=============================================================================
