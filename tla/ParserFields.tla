---------------------------- MODULE ParserFields ----------------------------
(***************************************************************************)
(* What the nodes of declarations and of EXECUTE say of an accepted text,   *)
(* and where its simple statements end.                                    *)
(***************************************************************************)
EXTENDS ParserProgress

Accepted == pc = "returned" /\ first = 0

(* The token at place k, EOF beyond the end.                               *)
At1(k) == IF k <= cur THEN toks[k] ELSE EOF

(* The fields of a declaration say what its text says: the scroll option    *)
(* belongs to a cursor, ALIAS and CURSOR are recognised at their place only. *)
DeclarationFields ==
  Accepted =>
    \A n \in NodesOf({"DeclVar"}) :
      LET t(k) == At1(n.from + k)
          plain    == t(1) = "CURSOR"
          scroll   == t(1) = "SCROLL" /\ t(2) = "CURSOR"
          noscroll == t(1) = "NO" /\ t(2) = "SCROLL" /\ t(3) = "CURSOR"
      IN  /\ "alias" \in n.fields <=> t(1) = "ALIAS"
          /\ "cursor" \in n.fields <=> plain \/ scroll \/ noscroll
          /\ "scroll" \in n.fields <=> scroll
          /\ "noscroll" \in n.fields <=> noscroll
          /\ "notnull" \in n.fields =>
               \E k \in n.from + 1 .. n.to - 3 :
                 toks[k] = "NOT" /\ toks[k + 1] = "NULL"

(* How many parentheses are open after the token t if n were open before.   *)
After(t, n) ==
  CASE t = "("            -> n + 1
    [] t = ")" /\ n > 0   -> n - 1
    [] OTHER              -> n

(* How many are open before place k of a phrase of the tokens ts that       *)
(* starts at f.                                                            *)
DepthIn(ts, f, k) ==
  LET d[j \in f .. k] == IF j = f THEN 0 ELSE After(ts[j - 1], d[j - 1])
  IN  d[k]

OpenBefore(f, k) == DepthIn(toks, f, k)

(* EXECUTE takes INTO and USING in any order: the fields of the node say    *)
(* whether the statement has a target and whether its first one is STRICT.  *)
ExecuteFields ==
  Accepted =>
    \A n \in NodesOf({"DynExecute"}) :
      LET intos == {k \in n.from .. n.to - 1 :
                      toks[k] = "INTO" /\ OpenBefore(n.from, k) = 0}
      IN  /\ "into" \in n.fields <=> intos # {}
          /\ "strict" \in n.fields =>
               \E k \in intos : toks[k + 1] = "STRICT"
          /\ \A k \in intos :
               toks[k + 1] = "STRICT" /\ (\A j \in intos : k <= j)
               => "strict" \in n.fields

(* A simple statement of an accepted text ends with its first semicolon    *)
(* outside parentheses: no statement is swallowed by the one before it.    *)
(* Set apart are the statements with a token that the parser takes unseen: *)
(* an item of GET DIAGNOSTICS, an option of RAISE, a part of a name; and   *)
(* OPEN, whose semicolon is optional.                                      *)
SimpleStatements == Statements \ {"If", "Case", "Loop", "While", "ForI",
                                  "ForS", "ForEachA", "GetDiag", "Open"}

TakesUnseen(n) ==
  \/ n.kind = "Raise" /\ \E k \in n.from .. n.to - 1 : toks[k] = "USING"
  \/ n.kind \in {"Assign", "ExecSQL"} /\ toks[n.from + 1] \in {".", "["}

SemicolonEnds ==
  Accepted =>
    \A n \in NodesOf(SimpleStatements) :
      TakesUnseen(n) \/
        /\ toks[n.to - 1] = ";"
        /\ \A k \in n.from .. n.to - 2 :
             toks[k] = ";" => OpenBefore(n.from, k) > 0

=============================================================================
