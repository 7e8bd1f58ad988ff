----------------------------- MODULE MCScanner -----------------------------
(***************************************************************************)
(* Families of source texts for the scanner: all texts over an alphabet,   *)
(* after a fixed beginning.                                                *)
(***************************************************************************)
EXTENDS ScannerProperties, TLC

Texts(start, alphabet, n) == [start |-> start, alphabet |-> alphabet, more |-> n]

OneSpelling == {<<"a">>}

TwoKeywords == <<"i", "f">> :> "IF" @@ <<"n", "o">> :> "NO"

Comments == Texts(<<>>, {"-", "/", "*", "\n", "a"}, 6)
Nested == Texts(<<"/", "*">>, {"/", "*", "a"}, 7)
NameTexts == Texts(<<>>, {"i", "F", ".", "1", "$"}, 5)
Numbers == Texts(<<>>, {"1", ".", "e", "+", " "}, 6)
Quotes == Texts(<<>>, {"'", "\"", "a", "\n"}, 6)
Dollars == Texts(<<>>, {"$", "a", "1", "'"}, 7)
Tags == Texts(<<"$", "a", "$">>, {"$", "a", "b"}, 5)
Operators == Texts(<<>>, {":", "=", "<", ">", "!", "-", "|"}, 4)
Utf8 == Texts(<<>>, {"xC3", "xC2", "xA9", ".", "\n"}, 5)

AllFamilies ==
  {Comments, Nested, NameTexts, Numbers, Quotes, Dollars, Tags, Operators, Utf8}

ControlBytes == {Texts(<<>>, {"x01", "x11", "a", " "}, 3)}
LoneQuotes == {Texts(<<>>, {"\"", "a"}, 3)}
WideTags ==
  {Texts(<<"$", "xC3", "xA9", "$">>, {"$", "xC3", "xA9"}, 4),
   Texts(<<"$", "xC3", "xA9", "$", "$", "xC3", "xA9", "$">>, {";"}, 1)}

=============================================================================
