------------------------------ MODULE MCSession ------------------------------
(* Commands and directories for TLC. *)
EXTENDS Session

x == <<"x">>
MCNames == ("$x" :> x)
MCRank == ("1" :> 1) @@ ("a" :> 2) @@ ("B" :> 3) @@ ("b" :> 4) @@ ("d" :> 5) @@ ("e" :> 6) @@ ("x" :> 7)
MCLetters == {"a", "B", "b", "d", "e", "x", "PWD", "OLDPWD", "HOME"}

\* The root with two directories in it, of which /e may be renamed to.
MCDirectories == <<<<"/">>, <<"/", "d">>>>
MCFilesIn == <<{<<"b">>}, {<<"b">>, <<"B">>, <<"a", "1">>}>>
MCPatternDirs == {<<>>, <<"/">>, <<"d", "/">>, <<"/", "d", "/">>}
MCNewNames == {<<"/", "d">>, <<"/", "e">>, <<>>}
NoArguments == <<>>
MCGarbage == {<<>>, <<"b">>}
MCUsers == (<<"a">> :> <<"/", "d">>)
MCEnvironments ==
  {(HOME :> <<"/", "d">>),
   (PWD :> <<"/", "e">>) @@ (x :> <<"b", " ", "*">>)}

Line(l) == [lines |-> <<l>>, body |-> <<>>]
\* A backslash outside quotes makes the shell ask for another line.
Escaped(l) == {[lines |-> <<l, <<>>>>, body |-> <<>>], [lines |-> <<l, <<" ">>>>, body |-> <<>>]}

Setters ==
  {Line(<<"export", " ", "x", "=", "'", " ", "b", " ", "*", "'">>),
   Line(<<"export", " ", "x", "=", "/", "d", " ", "1", "=", "b", " ", "B", "=", "$?">>),
   Line(<<"export", " ", "x", "=">>),
   Line(<<"unset", " ", "x", " ", "OLDPWD">>)}
Moving ==
  {Line(<<"cd">>), Line(<<"cd", " ", "-">>), Line(<<"cd", " ", "$x">>),
   Line(<<"cd", " ", "/", "/", "d">>), Line(<<"cd", " ", "\"", "\"">>),
   Line(<<"cd", " ", "/">>), Line(<<"pwd">>), Line(<<"pwd", " ", "-", "P">>)}
Wording ==
  {Line(<<"echo", " ", "a", "$x", ".", " ", "\"", "$x", "\"">>),
   Line(<<"echo", " ", "~", "/", "$x", " ", "'", "~", "'", "*">>),
   Line(<<"$x", " ", "d", "/", "*", "$x">>),
   Line(<<"$x", " ", ">", " ", "~", "a", "/", "*", "1">>),
   [lines |-> <<<<">", " ", "$x", " ", "echo", " ", "<<", " ", "e">>>>,
    body |-> <<"a", "$x", "\\", "$x", "\\", "\\", "b", "\\", "\n">>],
   [lines |-> <<<<"echo", " ", "'", "a", "'", "~", "<<", "e">>>>, body |-> <<"\\", "\n">>],
   Line(<<"echo", ">", " ", "~", "a", "/", "*", "1", " ", "*">>)}
   \cup Escaped(<<"echo", " ", "a", "$x", "\\", "*", "\\", "$x">>)
MCCommands ==
  <<Setters \cup Moving, Setters \cup Moving \cup Wording,
    Wording \cup {Line(<<"cd", " ", "-">>), Line(<<"pwd">>)}>>

\* A word of two parts without quotes: the end of the line ends the first one.
MCEscapes == <<{[lines |-> <<<<"echo", " ", "\\", "a">>, <<"b">>>>, body |-> <<>>],
                [lines |-> <<<<"echo", " ", "$x", "\\">>, <<"b">>>>, body |-> <<>>]}>>
=============================================================================
