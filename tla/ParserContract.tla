--------------------------- MODULE ParserContract ---------------------------
EXTENDS Parser

Contract == INSTANCE ParseContract WITH
  status    <- IF pc = "returned" THEN "returned" ELSE "running",
  result    <- first,
  reports   <- errcnt,
  exhausted <- tok = EOF

(* The parser keeps the contract of Parse: errors are latched, every error  *)
(* that is reported is one that is returned, a nil error means that the     *)
(* whole text was read, and nothing happens after the return.               *)
KeepsContract == Contract!Spec

=============================================================================
