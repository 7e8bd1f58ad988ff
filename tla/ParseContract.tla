---------------------------- MODULE ParseContract ----------------------------
(***************************************************************************)
(* What Parse promises its caller, and nothing of how it is done: while it *)
(* runs it may report errors; the error it returns is the first one it     *)
(* reported, never a later one; and it returns without an error only when  *)
(* it has read the text to its end and reported nothing.                   *)
(***************************************************************************)
EXTENDS Naturals

VARIABLES
  status,        \* "running" or "returned"
  result,        \* the place of the error to return, 0 for nil
  reports,       \* how many syntax errors the error handler was given
  exhausted      \* the end of the text has been reached

contractVars == <<status, result, reports, exhausted>>

Init ==
  /\ status = "running"
  /\ result = 0
  /\ reports = 0
  /\ exhausted \in BOOLEAN

Report ==
  /\ reports' = reports + 1
  /\ IF reports = 0 THEN result' \in Nat \ {0} ELSE result' = result

Step ==
  /\ status = "running"
  /\ exhausted => exhausted'
  /\ Report \/ UNCHANGED <<result, reports>>
  /\ \/ status' = "running"
     \/ status' = "returned" /\ (reports' = 0 => exhausted')

Spec == Init /\ [][Step]_contractVars

=============================================================================
