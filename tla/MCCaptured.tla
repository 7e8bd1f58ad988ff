----------------------------- MODULE MCCaptured -----------------------------
(***************************************************************************)
(* Families of SQL fragments to collect and to scan again.                 *)
(***************************************************************************)
EXTENDS Captured, TLC

Texts(start, alphabet, n) == [start |-> start, alphabet |-> alphabet, more |-> n]

TwoKeywords == <<"i", "f">> :> "IF" @@ <<"n", "o">> :> "NO"

Fragments ==
  {Texts(<<>>, {"'", "\"", "a", " "}, 6),
   Texts(<<>>, {"$", "a", "'"}, 7),
   Texts(<<>>, {"I", "f", ".", "1", "e", "\n"}, 5),
   Texts(<<>>, {"-", "/", "*", "|", "\n"}, 5),
   Texts(<<>>, {":", "=", "<", ">", "!", " "}, 5),
   Texts(<<>>, {"xC3", "xC2", "xA9", ".", "("}, 4)}

Strings == {Texts(<<"'", "a", "'">>, {"1", "+", " "}, 3)}

Both == {TRUE, FALSE}
Never == {FALSE}

=============================================================================
