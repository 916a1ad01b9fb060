------------------------------ MODULE MCReader -----------------------------
(* Lines for TLC. *)
EXTENDS Reader

\* A delimiter, a here-document of a command that goes on, two on a line; quotes
\* behind a word and alone, a token no line begins with, nothing.
MCLines ==
  {<<"e">>, <<"a", "<<", "e", "&&">>, <<"a", "<<", "e", "<<", "a">>,
   <<"a", " ", "\"">>, <<"\"">>, <<")">>, <<>>}

\* InputSplit is about such lines.
ASSUME MCLinesAssumption == \A l \in MCLines : Readable(l)

\* Two here-documents on a line.
HeredocLines == {<<"a">>, <<"e">>, <<"a", "<<", "e", "<<", "a">>}
=============================================================================
