------------------------------ MODULE FrontEnd -----------------------------
(***************************************************************************)
(* Lexer and checker on whatever a user may type, one symbol after the     *)
(* other and line after line, without the input and output of the reader:  *)
(* main_loop (step_1_reading/read_main.c) without the bodies of            *)
(* here-documents, signals or the end of the input; Reader has those.      *)
(***************************************************************************)
EXTENDS Checker, FiniteSets

CONSTANTS
  Alphabet,   \* the symbols that may be typed
  MaxLen,     \* bound: symbols of a text, pending newlines included
  MaxLines    \* bound: lines of a text

ASSUME AlphabetAssumption == Alphabet \subseteq Symbols \ {"\n"}
ASSUME MaxLenAssumption == MaxLen \in Nat /\ MaxLines \in Nat

VARIABLES
  tty,     \* is the standard input a terminal?
  text,    \* total_input
  lx,      \* the lexer
  starts,  \* the positions at which a line began
  status   \* "typing", or what became of the text: "complete", "refused",
           \* "exited" (the shell itself gave up)

vars == <<tty, text, lx, starts, status>>

Init ==
  /\ tty \in BOOLEAN
  /\ text = <<>> /\ lx = BeginChunk(NewLexer) /\ starts = <<0>> /\ status = "typing"

TypeSymbol(c) ==
  /\ status = "typing" /\ Len(text) < MaxLen
  /\ text' = Append(text, c)
  /\ lx' = Step(lx, c)
  /\ UNCHANGED <<tty, starts, status>>

\* The line as run_lexer leaves it.  readline() takes the newline away, and an
\* empty chunk is not looked at.
Lexed ==
  IF ~tty THEN EndChunk(Step(lx, "\n"), FALSE)
  ELSE IF lx.pos = Top(starts) THEN lx
  ELSE EndChunk(lx, TRUE)
LexedText == IF tty THEN text ELSE Append(text, "\n")

\* The ends of a line, in the order main_loop and manage_pendings try them: an
\* unexpected token, an exit, a complete text, a line that asks for another.
EndOfText(what) ==
  /\ status' = what
  /\ lx' = Lexed /\ text' = LexedText
  /\ UNCHANGED <<tty, starts>>

Refuse == status = "typing" /\ IsBadSyntax(Lexed.toks) /\ EndOfText("refused")
Accepted == status = "typing" /\ ~IsBadSyntax(Lexed.toks)
GiveUp == Accepted /\ GivesUp(Lexed, tty) /\ EndOfText("exited")
Complete == Accepted /\ Lexed.ctxs = <<>> /\ EndOfText("complete")
Continue ==
  /\ Accepted /\ ~GivesUp(Lexed, tty) /\ Lexed.ctxs # <<>>
  /\ Len(starts) < MaxLines
  /\ IF IsNormal(Lexed)
     THEN lx' = BeginChunk(Lexed) /\ text' = LexedText
     ELSE lx' = BeginChunk(PendingNewline(Lexed)) /\ text' = Append(LexedText, "\n")
  /\ starts' = Append(starts, lx'.pos)
  /\ UNCHANGED <<tty, status>>

Next == (\E c \in Alphabet : TypeSymbol(c)) \/ Refuse \/ GiveUp \/ Complete \/ Continue

Spec == Init /\ [][Next]_vars

-----------------------------------------------------------------------------
(* Properties. *)

TypeOK ==
  /\ tty \in BOOLEAN
  /\ text \in Seq(Symbols)
  /\ lx \in Lexers
  /\ starts \in Seq(Nat)
  /\ status \in {"typing", "complete", "refused", "exited"}

\* The lexer has read the whole buffer, however lines were ended and put back.
AtEndOfBuffer == lx.pos = Len(text)

\* A quote is the innermost context exactly while the lexer is inside it, and
\* there is at most one.  The reader relies on it: it decides with the contexts
\* whether to go on reading and with the state of the lexer whether the newline
\* belongs to a word; a complete text that ended inside a quote, or an unfinished
\* one that the contexts do not show, would be run as it is.
Opener(m) == IF m = "\"\\" THEN "\"" ELSE m
QuoteIsInnermost ==
  /\ Opener(lx.mode) \in Quotes => TopIn(lx.ctxs, {Opener(lx.mode)})
  /\ \A k \in 1..Len(lx.ctxs) :
       lx.ctxs[k] \in Quotes => k = Len(lx.ctxs) /\ lx.ctxs[k] = Opener(lx.mode)
CompleteIsNormal == status = "complete" => IsNormal(lx) /\ lx.ctxs = <<>> /\ lx.tmp = <<>>

\* What a reader of the text is inside of after its first k symbols: nothing, a
\* quote, past a backslash (alone, or within double quotes), a comment.
LineStart(k) == \E j \in 1..Len(starts) : starts[j] = k
Inside ==
  LET in[k \in 0..Len(text)] ==
        IF k = 0 THEN ""
        ELSE LET c == text[k]
                 s == IF LineStart(k - 1) /\ in[k - 1] = "#" THEN "" ELSE in[k - 1]
             IN CASE s \in {"'", "#"} -> IF c = (IF s = "#" THEN "\n" ELSE s) THEN "" ELSE s
                  [] s = "\"" -> IF c = s THEN "" ELSE IF c = "\\" THEN "\"\\" ELSE s
                  [] s = "\"\\" -> "\""
                  [] s = "\\" -> ""
                  [] OTHER -> IF c \in Quotes \cup {"\\"} THEN c
                              ELSE IF c = "#" /\ (k = 1 \/ LineStart(k - 1) \/
                                     text[k - 1] \in Blanks \cup Operators \cup Quotes)
                              THEN "#" ELSE ""
  IN in

\* A text is unfinished while a quote or a parenthesis is open, behind a final
\* backslash, and behind an operator that joins two commands.
Count(type) == Cardinality({k \in 1..Len(lx.toks) : lx.toks[k].type = type})
LastSymbol ==
  LET k == {0} \cup {j \in 1..Len(text) : text[j] # "\n"}
  IN CHOOSE m \in k : \A j \in k : j <= m
Unfinished ==
  \/ Inside[LastSymbol] \notin {"", "#"}
  \/ Count("(") > Count(")")
  \/ /\ lx.tmp = <<>>
     /\ \E k \in 1..Len(lx.toks) :
          /\ lx.toks[k].type \in OpContexts
          /\ \A j \in (k + 1)..Len(lx.toks) : lx.toks[j].type = "NEWLINE"
AsksForMore == status = "typing" /\ Len(starts) > 1 /\ lx.pos = Top(starts)

\* The stack of contexts, which is pushed and popped one symbol at a time, tells
\* whether the text is unfinished: the shell asks for a line when it is and
\* never when it is not.
ContextsTell ==
  /\ AsksForMore => Unfinished
  /\ status = "complete" => ~Unfinished

\* No symbol of a word is lost between two lines, two parts or two words, or
\* taken twice.
Covers(k) ==
  {at \in (1..Len(lx.toks)) \X (1..Len(text)) :
     LET parts == lx.toks[at[1]].parts
     IN at[2] <= Len(parts) /\ parts[at[2]].start < k /\ k <= parts[at[2]].end}
NothingLost ==
  status = "complete" => \A k \in 1..Len(text) :
    text[k] \in Plain => Cardinality(Covers(k)) = IF Inside[k] = "#" THEN 0 ELSE 1

\* A part in quotes is what stands between them (08_expansion.tests expects of
\* X='  spaced  '; that the value ends with its blanks).
QuotesAreExact ==
  status = "complete" => \A t \in 1..Len(lx.toks) : \A p \in 1..Len(lx.toks[t].parts) :
    LET part == lx.toks[t].parts[p]
    IN part.type \in Quotes => /\ text[part.start] = part.type
                               /\ text[part.end + 1] = part.type
=============================================================================
