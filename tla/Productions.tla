----------------------------- MODULE Productions -----------------------------
(***************************************************************************)
(* The parse functions of package parser, one definition per function, in  *)
(* the vocabulary of module Instructions.  readSQLUntilEndToken appears as *)
(* the collection of the text followed by a test of the terminator: the    *)
(* function consumes the terminator and its callers then branch on it,     *)
(* here they branch on it and then consume it.                             *)
(***************************************************************************)
EXTENDS Instructions

Assignment == {":=", "="}

----------------------------------------------------------------------------
(* parse_block.go                                                          *)

(* Everything until BEGIN at depth 0; `)` at depth 0 ends a type too.      *)
readDataType == collect({semi, ":=", "=", "COLLATE", "NOT", "DEFAULT", ")"})
readDataTypeUntilCommaOrParen == collect({comma, ")"})

parseDeclVarRest ==
  <<When({"CONSTANT"}, <<set({"constant"}), next>>),
    readDataType,
    When({"COLLATE"}, <<next, anyIdentifier>>),
    When({"NOT"}, <<next, want("NULL"), set({"notnull"})>>),
    If({semi}, <<next>>,
       <<When({"=", ":=", "DEFAULT"}, <<next, collect({semi})>>),
         want(semi)>>)>>

(* Seeded bug: a cursor has one argument at most.                          *)
parseCursorArgsOne == <<anyIdentifier, collect({comma, ")"})>>

parseCursorArgs ==
  Separated(comma, <<anyIdentifier, readDataTypeUntilCommaOrParen>>)

(* After [NO] SCROLL: the option reaches the node only if CURSOR follows.   *)
cursorOrVar(scrollOpt) ==
  <<If({"CURSOR"},
       <<next, set({"cursor"} \cup scrollOpt),
         When({"("}, <<next>> \o parseCursorArgs \o <<want(")")>>),
         If({"IS"}, <<next>>, <<want("FOR")>>),
         collect({semi}), want(semi)>>,
       parseDeclVarRest)>>

(* Seeded bug: NO and the token after it are both pushed back.              *)
parseDeclStatementPushesTwice ==
  <<anyIdentifier,
    If({"ALIAS"},
       <<next, want("FOR"), set({"alias"}), anyIdentifier, want(semi)>>,
       <<If({"NO"},
            <<next, If({"SCROLL"}, <<next>> \o cursorOrVar({"noscroll"}),
                                   <<pushBack, pushBack>> \o parseDeclVarRest)>>,
            <<If({"SCROLL"}, <<next>> \o cursorOrVar({"scroll"}),
                             cursorOrVar({}))>>)>>),
    node("DeclVar")>>

parseDeclStatement ==
  <<anyIdentifier,
    If({"ALIAS"},
       <<next, want("FOR"), set({"alias"}), anyIdentifier, want(semi)>>,
       <<If({"NO"},
            <<next, If({"SCROLL"}, <<next>> \o cursorOrVar({"noscroll"}),
                                   <<pushBack>> \o parseDeclVarRest)>>,
            <<If({"SCROLL"}, <<next>> \o cursorOrVar({"scroll"}),
                             cursorOrVar({}))>>)>>),
    node("DeclVar")>>

parseDeclSection ==
  Until({"BEGIN", EOF},
    <<If({"DECLARE"}, <<next>>,
         <<If({"<<"}, <<syntaxError, next, anyIdentifier, got({">>"})>>,
                      <<call(parseDeclStatement)>>)>>)>>)


(* SQLSTATE is an unreserved keyword: anyIdentifier takes it as the name,   *)
(* and the test is of the name's text, quoted or not.                      *)
parseCondition ==
  <<If({"SQLSTATE", "IDENT_SQLSTATE"},
       <<anyIdentifier, When({"SCONST"}, <<lit>>)>>, <<anyIdentifier>>)>>

parseExceptionSect ==
  <<want("EXCEPTION"),
    While({"WHEN"},
      <<call(<<next>> \o Separated("OR", parseCondition) \o
             <<want("THEN"), parseProcSect, node("Exception")>>)>>)>>

(* Seeded bug: BEGIN is left to the caller.                                *)
blockRestAfterBegin ==
  <<When({"DECLARE"}, <<next, parseDeclSection>>),
    parseProcSect,
    When({"EXCEPTION"}, parseExceptionSect),
    want("END"),
    When(LabelTokens, <<skip>>)>>

(* From DECLARE or BEGIN to the optional end label.                        *)
blockRest ==
  <<When({"DECLARE"}, <<next, parseDeclSection>>),
    want("BEGIN"),
    parseProcSect,
    When({"EXCEPTION"}, parseExceptionSect),
    want("END"),
    When(LabelTokens, <<skip>>)>>

parseBlock ==
  <<When({"<<"}, <<next, anyIdentifier, want(">>")>>)>> \o blockRest \o
  <<node("Block")>>

----------------------------------------------------------------------------
(* parse_control.go                                                        *)

parseStmtIf ==
  <<want("IF"), collect({"THEN"}), want("THEN"), parseProcSect,
    While({"ELSIF"},
      <<call(<<next, collect({"THEN"}), want("THEN"), parseProcSect,
               node("ElsIf")>>)>>),
    When({"ELSE"}, <<next, parseProcSect>>),
    want("END"), want("IF"), want(semi), node("If")>>

parseStmtCase ==
  <<want("CASE"), collect({"WHEN"}),
    While({"WHEN"},
      <<call(<<next, collect({"THEN"}), want("THEN"), parseProcSect,
               node("CaseWhen")>>)>>),
    When({"ELSE"}, <<next, parseProcSect>>),
    want("END"), want("CASE"), want(semi), node("Case")>>

(* Seeded bug: the label after END LOOP is forgotten.                      *)
parseLoopBodyNoLabel == <<parseProcSect, want("END"), want("LOOP"), want(semi)>>

parseLoopBody ==
  <<parseProcSect, want("END"), want("LOOP"), When(LabelTokens, <<skip>>),
    want(semi)>>

parseStmtLoop == <<want("LOOP")>> \o parseLoopBody \o <<node("Loop")>>

parseStmtWhile ==
  <<want("WHILE"), collect({"LOOP"}), want("LOOP")>> \o parseLoopBody \o
  <<node("While")>>

(* After IN and the optional REVERSE.                                      *)
forRest(reverse) ==
  <<If({"EXECUTE"},
       <<next, collect({"LOOP", "USING"}),
         When({"USING"},
              <<next>> \o Separated(comma, <<discard({comma, "LOOP"})>>)),
         got({"LOOP"})>> \o parseLoopBody \o <<node("ForS")>>,
       <<collect({"..", "LOOP"}),
         If({".."},
            <<next, collect({"LOOP", "BY"}),
              If({"BY"}, <<next, collect({"LOOP"}), want("LOOP")>>,
                         <<got({"LOOP"})>>)>>
              \o parseLoopBody \o <<nodeWith("ForI", reverse)>>,
            <<got({"LOOP"})>> \o parseLoopBody \o <<node("ForS")>>)>>)>>

(* The token REVERSE sets a local variable; an integer loop keeps it in its *)
(* field, the nodes of the other loops have none.                          *)
parseStmtFor ==
  <<want("FOR"), anyIdentifier, want("IN"),
    If({"REVERSE"}, <<skip>> \o forRest({"reverse"}), forRest({}))>>

parseStmtForEach ==
  <<want("FOREACH"), anyIdentifier,
    When({"SLICE"}, <<next, When({"ICONST"}, <<lit>>)>>),
    want("IN"), want("ARRAY"), collect({"LOOP"}), want("LOOP")>>
  \o parseLoopBody \o <<node("ForEachA")>>


parseStmtExit(fields) ==
  <<next, When(LabelTokens, <<lit>>),
    When({"WHEN"}, <<next, collect({semi})>>),
    want(semi), nodeWith("Exit", fields)>>

----------------------------------------------------------------------------
(* parse_misc.go                                                           *)

(* USING a, b, ... up to a token of S.                                     *)
usingParams(S) == <<next>> \o Separated(comma, <<collect({comma} \cup S)>>)

parseStmtReturn ==
  <<want("RETURN"),
    If({"NEXT"}, <<next, collect({semi}), want(semi), node("ReturnNext")>>,
    <<If({"QUERY"},
         <<next,
           If({"EXECUTE"},
              <<next, collect({semi, "USING"}),
                When({"USING"}, usingParams({semi})), got({semi}),
                nodeWith("ReturnQuery", {"dynamic"})>>,
              <<collect({semi}), want(semi), node("ReturnQuery")>>)>>,
         <<collect({semi}), want(semi), node("Return")>>)>>)>>

(* The token after USING is taken as the option's name whatever it is.      *)
parseRaiseOptions ==
  Separated(comma, <<lit, got({"=", ":="}), collect({comma, semi})>>)
  \o <<got({semi})>>

RaiseLevels == {"EXCEPTION", "WARNING", "NOTICE", "INFO", "LOG", "DEBUG"}

raiseFormat ==
  <<lit,
    If({comma},
       <<next,
         Until({"USING", semi, EOF},
               <<collect({comma, semi, "USING"}), got({comma})>>),
         If({"USING"}, <<next>> \o parseRaiseOptions, <<got({semi})>>)>>,
       <<If({"USING"}, <<next>> \o parseRaiseOptions, <<want(semi)>>)>>)>>

raiseCondition ==
  <<If({"SQLSTATE"}, <<next, When({"SCONST"}, <<lit>>)>>,
                     <<When({"WORD"} \cup Unreserved, <<lit>>)>>),
    If({"USING"}, <<next>> \o parseRaiseOptions, <<want(semi)>>)>>

parseStmtRaise ==
  <<want("RAISE"),
    When(RaiseLevels, <<lit>>),
    If({semi}, <<next>>, <<If({"SCONST"}, raiseFormat, raiseCondition)>>),
    node("Raise")>>

parseStmtAssert ==
  <<want("ASSERT"), collect({comma, semi}),
    If({comma}, <<next, collect({semi}), want(semi)>>, <<got({semi})>>),
    node("Assert")>>

(* Seeded bug: INTO is not looked for after USING.                         *)
parseStmtDynExecuteInOrder ==
  <<want("EXECUTE"), collect({"INTO", "USING", semi}),
    When({"INTO"}, <<next, set({"into"}),
                     When({"STRICT"}, <<set({"strict"}), next>>),
                     collect({"USING", semi})>>),
    When({"USING"}, <<next>> \o Separated(comma, <<collect({comma, semi})>>)),
    got({semi}), node("DynExecute")>>

(* INTO and USING in any order, each any number of times.                   *)
parseStmtDynExecute ==
  <<want("EXECUTE"), collect({"INTO", "USING", semi}),
    While({"INTO", "USING"},
      <<If({"INTO"},
           <<next, set({"into"}),
             When({"STRICT"}, <<set({"strict"}), next>>),
             collect({"USING", semi})>>,
           usingParams({semi, "INTO"}))>>),
    got({semi}), node("DynExecute")>>

parseStmtPerform ==
  <<want("PERFORM"), collect({semi}), want(semi), node("Perform")>>

parseStmtCall(fields) ==
  <<next, collect({semi}), want(semi), nodeWith("Call", fields)>>

parseStmtGetDiag ==
  <<want("GET"),
    If({"STACKED"}, <<set({"stacked"}), next>>, <<got({"CURRENT"})>>),
    want("DIAGNOSTICS")>>
  \o Separated(comma, <<anyIdentifier, got({"=", ":="}), lit>>)
  \o <<want(semi), node("GetDiag")>>

(* A bound cursor's OPEN ends with a semicolon only if there is one.        *)
parseStmtOpen ==
  <<want("OPEN"), anyIdentifier,
    If({"NO"},
       <<next, If({"SCROLL"}, <<set({"noscroll"}), next>>, <<pushBack>>)>>,
       <<When({"SCROLL"}, <<set({"scroll"}), next>>)>>),
    If({"FOR"},
       <<next,
         If({"EXECUTE"},
            <<next, set({"dynamic"}), collect({"USING", semi}),
              When({"USING"}, usingParams({semi})), got({semi})>>,
            <<collect({semi}), want(semi)>>)>>,
       <<When({"("}, <<collect({semi})>>), got({semi})>>),
    node("Open")>>

(* Seeded bug: no count after a direction.                                 *)
parseFetchDirectionNoCount ==
  When({"NEXT", "PRIOR", "FIRST", "LAST", "ABSOLUTE", "RELATIVE", "FORWARD",
        "BACKWARD", "ALL", "ICONST"}, <<lit, got({"FROM", "IN"})>>)

parseFetchDirection ==
  If({"NEXT", "PRIOR", "FIRST", "LAST", "ABSOLUTE", "RELATIVE", "FORWARD",
      "BACKWARD"},
     <<lit, When({"ICONST"}, <<lit>>), got({"FROM", "IN"})>>,
     <<When({"ALL", "ICONST"}, <<lit, got({"FROM", "IN"})>>)>>)

parseStmtFetch(fields) ==
  <<next, parseFetchDirection, When(LabelTokens, <<lit>>)>>
  \o (IF "isMove" \in fields THEN <<>>
      ELSE <<When({"INTO"}, <<next, collect({semi})>>)>>)
  \o <<want(semi), nodeWith("Fetch", fields)>>

parseStmtClose == <<want("CLOSE"), anyIdentifier, want(semi), node("Close")>>

parseStmtNull == <<want("NULL"), want(semi), node("Null")>>

(* Seeded bug: AND NO CHAIN is not recognised.                             *)
parseOptTransactionChainNoNo ==
  When({"AND"}, <<next, want("CHAIN"), set({"chain"})>>)

parseOptTransactionChain ==
  When({"AND"},
    <<next, If({"NO"}, <<next, want("CHAIN")>>,
                       <<want("CHAIN"), set({"chain"})>>)>>)

parseStmtCommit ==
  <<want("COMMIT"), parseOptTransactionChain, want(semi), node("Commit")>>

parseStmtRollback ==
  <<want("ROLLBACK"), parseOptTransactionChain, want(semi), node("Rollback")>>

----------------------------------------------------------------------------
(* parse_stmts.go                                                          *)

finishExecSQL == <<collect({semi}), want(semi), node("ExecSQL")>>

parseStmtExecSQL == <<lit>> \o finishExecSQL

parseStmtWordStart ==
  <<lit,
    If({"."}, <<While({"."}, <<next, lit>>)>>,
              <<While({"["}, <<next, subscript, got({"]"})>>)>>),
    If(Assignment, <<next, collect({semi}), want(semi), node("Assign")>>,
                   finishExecSQL)>>

labelled ==
  <<next, anyIdentifier, want(">>"),
    If({"LOOP", "WHILE", "FOR", "FOREACH"}, <<parseProcStmt>>,
       <<If({"DECLARE", "BEGIN"},
            <<call(blockRest \o <<want(semi), node("Block")>>)>>,
            <<syntaxError>>)>>)>>

(* The body of parseProcStmt when the current token is t.                   *)
Statement(t) ==
  CASE t = "<<"       -> labelled
    [] t \in {"DECLARE", "BEGIN"} -> <<call(parseBlock), want(semi)>>
    [] t = "IF"       -> parseStmtIf
    [] t = "CASE"     -> parseStmtCase
    [] t = "LOOP"     -> parseStmtLoop
    [] t = "WHILE"    -> parseStmtWhile
    [] t = "FOR"      -> parseStmtFor
    [] t = "FOREACH"  -> parseStmtForEach
    [] t = "EXIT"     -> parseStmtExit({"isExit"})
    [] t = "CONTINUE" -> parseStmtExit({})
    [] t = "RETURN"   -> parseStmtReturn
    [] t = "RAISE"    -> parseStmtRaise
    [] t = "ASSERT"   -> parseStmtAssert
    [] t = "EXECUTE"  -> parseStmtDynExecute
    [] t = "PERFORM"  -> parseStmtPerform
    [] t = "CALL"     -> parseStmtCall({"isCall"})
    [] t = "DO"       -> parseStmtCall({})
    [] t = "GET"      -> parseStmtGetDiag
    [] t = "OPEN"     -> parseStmtOpen
    [] t = "FETCH"    -> parseStmtFetch({})
    [] t = "MOVE"     -> parseStmtFetch({"isMove"})
    [] t = "CLOSE"    -> parseStmtClose
    [] t = "NULL"     -> parseStmtNull
    [] t = "COMMIT"   -> parseStmtCommit
    [] t = "ROLLBACK" -> parseStmtRollback
    [] t \in WordStart -> parseStmtWordStart
    [] t \in {"INSERT", "IMPORT", "MERGE"} -> parseStmtExecSQL
    [] t \in Unreserved \ {"EXIT", "CONTINUE", "RETURN", "RAISE", "ASSERT",
         "EXECUTE", "PERFORM", "CALL", "DO", "GET", "OPEN", "FETCH", "MOVE",
         "CLOSE", "COMMIT", "ROLLBACK", "INSERT", "IMPORT", "MERGE"}
                      -> parseStmtExecSQL
    [] OTHER          -> <<syntaxError, skip>>

=============================================================================
