-------------------------------- MODULE Fields --------------------------------
(***************************************************************************)
(* What a command means, for a reader who knows nothing of tokens, parts   *)
(* and passes: its text is read once, every character remembers where it   *)
(* comes from, and a word becomes fields.  (After the shell's own rule: a   *)
(* word with quotes in it is one field, neither split nor matched.)        *)
(*                                                                         *)
(* The origin of a character: "plain", "literal" (quoted or escaped),      *)
(* "value" (of a variable outside quotes); a dollar symbol is "plain" or   *)
(* "quoted" before it gives way to its value.                              *)
(***************************************************************************)
EXTENDS SequencesExt, FiniteSetsExt, Integers

\* The world a command is read in: values of the dollar symbols, of what a tilde
\* prefix may be, the names in a directory, and the order of names.
CONSTANTS DollarSymbols, ValueOf(_), HomeOf(_), NamesIn(_), Before(_, _)

-----------------------------------------------------------------------------
(* Reading. *)

Char(c, from) == [c |-> c, from |-> from]
Literals(s) == [k \in 1..Len(s) |-> Char(s[k], "literal")]

Start == [words |-> <<>>, op |-> "none", chars |-> <<>>, open |-> FALSE, quoted |-> FALSE,
          quote |-> "none", esc |-> FALSE]

EndWord(r) ==
  IF ~r.open THEN r
  ELSE [Start EXCEPT !.words = Append(r.words, [op |-> r.op, chars |-> r.chars, quoted |-> r.quoted])]
Add(r, chars) == [r EXCEPT !.chars = @ \o chars, !.open = TRUE, !.esc = FALSE]

InsideDouble == DollarSymbols \cup {"$", "\"", "\\", "backquote"}
ReadEscaped(r, c) ==
  IF c = "\n" THEN [r EXCEPT !.esc = FALSE]
  ELSE Add(r, IF r.quote = "\"" /\ c \notin InsideDouble THEN Literals(<<"\\", c>>)
              ELSE Literals(<<c>>))
ReadQuoted(r, c) ==
  IF c = r.quote THEN [r EXCEPT !.quote = "none"]
  ELSE IF r.quote = "\"" /\ c = "\\" THEN [r EXCEPT !.esc = TRUE]
  ELSE Add(r, <<Char(c, IF r.quote = "\"" /\ c \in DollarSymbols THEN "quoted" ELSE "literal")>>)
ReadPlain(r, c) ==
  CASE c \in {"'", "\""} -> [r EXCEPT !.quote = c, !.quoted = TRUE, !.open = TRUE]
    [] c = "\\" -> [r EXCEPT !.esc = TRUE]
    [] c \in {" ", "\n"} -> EndWord(r)
    [] c \in {">", "<<"} -> [EndWord(r) EXCEPT !.op = c]
    [] OTHER -> Add(r, <<Char(c, "plain")>>)
ReadChar(r, c) ==
  IF r.esc THEN ReadEscaped(r, c)
  ELSE IF r.quote # "none" THEN ReadQuoted(r, c)
  ELSE ReadPlain(r, c)

WordsOf(text) == EndWord(FoldLeft(ReadChar, Start, text)).words

-----------------------------------------------------------------------------
(* Expansion of a word. *)

Text(chars) == [k \in 1..Len(chars) |-> chars[k].c]

\* A tilde prefix is what stands before the first slash, none of it quoted.
Tilde(chars) ==
  LET slashes == {k \in 1..Len(chars) : chars[k].c = "/"}
      end == IF slashes = {} THEN Len(chars) ELSE Min(slashes) - 1
      prefix == SubSeq(chars, 1, end)
      home == HomeOf(Text(Tail(prefix)))
  IN IF end > 0 /\ chars[1].c = "~" /\ (\A k \in 1..end : chars[k].from = "plain") /\ home # <<>>
     THEN Literals(home) \o SubSeq(chars, end + 1, Len(chars))
     ELSE chars

Expansion(char) ==
  IF char.c \notin DollarSymbols \/ char.from = "literal" THEN <<char>>
  ELSE LET value == ValueOf(char.c)
           from == IF char.from = "quoted" THEN "literal" ELSE "value"
       IN [k \in 1..Len(value) |-> Char(value[k], from)]
Expanded(chars) == FlattenSeq([k \in 1..Len(chars) |-> Expansion(chars[k])])

Cuts(chars) == {k \in 1..Len(chars) : chars[k].from = "value" /\ chars[k].c \in {" ", "\n"}}
Split(chars) ==
  LET cuts == Cuts(chars) \cup {0, Len(chars) + 1}
      starts == SetToSortSeq({k \in cuts : k <= Len(chars) /\ k + 1 \notin cuts}, <)
  IN [f \in 1..Len(starts) |->
       SubSeq(chars, starts[f] + 1, Min({k \in cuts : k > starts[f]}) - 1)]

\* A star that is not literal stands for any characters.
IsStar(char) == char.c = "*" /\ char.from # "literal"
Matches(chars, name) ==
  LET match[k \in 0..Len(chars), j \in 0..Len(name)] ==
        IF k = 0 THEN j = 0
        ELSE IF IsStar(chars[k]) THEN \E i \in 0..j : match[k - 1, i]
        ELSE j > 0 /\ chars[k].c = name[j] /\ match[k - 1, j - 1]
  IN match[Len(chars), Len(name)]
Paths(chars) ==
  LET slashes == {k \in 1..Len(chars) : chars[k].c = "/"}
      at == IF slashes = {} THEN 0 ELSE Max(slashes)
      dir == Text(SubSeq(chars, 1, at))
      pattern == SubSeq(chars, at + 1, Len(chars))
  IN {dir \o name : name \in {n \in NamesIn(dir) : n[1] # "." /\ Matches(pattern, n)}}
Pathnames(chars) ==
  LET paths == Paths(chars)
  IN IF paths = {} \/ ~\E k \in 1..Len(chars) : IsStar(chars[k]) THEN <<Text(chars)>>
     ELSE SetToSortSeq(paths, Before)

FieldsOf(word) ==
  LET chars == Expanded(Tilde(word.chars))
  IN IF word.quoted THEN <<Text(chars)>>
     ELSE FlattenSeq([f \in 1..Len(Split(chars)) |-> Pathnames(Split(chars)[f])])

-----------------------------------------------------------------------------
(* The command. *)

\* Its arguments, and its redirections with the fields of their words.
ArgumentsOf(text) ==
  LET words == SelectSeq(WordsOf(text), LAMBDA w : w.op = "none")
  IN FlattenSeq([k \in 1..Len(words) |-> FieldsOf(words[k])])
RedirectionsOf(text) == SelectSeq(WordsOf(text), LAMBDA w : w.op # "none")

\* The body of a here-document is read as if between double quotes, in which a
\* double quote is nothing, unless its delimiter is quoted.
Body(word, body) ==
  LET read(r, c) ==
        IF r.esc
        THEN IF c = "\n" THEN [r EXCEPT !.esc = FALSE]
             ELSE Add(r, IF c \in InsideDouble \ {"\""} THEN Literals(<<c>>)
                         ELSE Literals(<<"\\", c>>))
        ELSE IF c = "\\" THEN [r EXCEPT !.esc = TRUE]
        ELSE Add(r, <<Char(c, IF c \in DollarSymbols THEN "quoted" ELSE "literal")>>)
  IN IF word.quoted THEN body ELSE Text(Expanded(FoldLeft(read, Start, body).chars))
=============================================================================
