------------------------------- MODULE Lexer -------------------------------
(***************************************************************************)
(* step_3_lexing/tokenize.c, the contexts it keeps (step_2_checking/ctx)   *)
(* and the tokens it emits (m_token).                                      *)
(*                                                                         *)
(* The source scans a buffer with nested loops; Step is one turn of the    *)
(* innermost loop, on one symbol of the input, so that the module that     *)
(* feeds it can stop between two symbols.  A symbol is a character or an   *)
(* operator; ">" stands for every redirection but "<<", "a" and "e" for    *)
(* characters without a meaning of their own.                              *)
(***************************************************************************)
EXTENDS Integers, Sequences

\* (Operators that carry the name of another one and a defect are mutants: with
\* them in its place some property fails, in this module and in the others.)

Quotes == {"'", "\""}
Blanks == {" ", "\n"}
CtrlOps == {"&&", "||", "|", ";"}
Redirs == {">", "<<"}
Parens == {"(", ")"}
Operators == CtrlOps \cup Redirs \cup Parens
Plain == {"a", "e"}
Symbols == Plain \cup Quotes \cup Blanks \cup Operators \cup {"\\", "#"}

\* Contexts, named after what opens them, and what the lexer is inside of:
\*   lex       lex_normal, between two words or parts of a word
\*   word      read_unquoted_body
\*   esc       read_unquoted_body, the state being LEX_ESCAPE
\*   escOut    LEX_ESCAPE after read_unquoted_body has returned
\*   ', ", "\  lex_squote, lex_dquote, and lex_dquote past a backslash
\*   #         consume_comment
Contexts == {"'", "\"", "(", "&&", "||", "|", "\\"}
OpContexts == {"&&", "||", "|"}
Modes == {"lex", "word", "esc", "escOut", "'", "\"", "\"\\", "#"}

PartTypes == {"UQUOTE"} \cup Quotes
Parts == [type : PartTypes, start : Nat, end : Nat]
TokTypes == {"WORD", "BODY", "NEWLINE", "EOF"} \cup Operators

\* lx: mode and contexts, the parts of the word being read (tmp_wp), the tokens,
\* the position in the buffer, and heredoc_count.
NewLexer == [mode |-> "lex", ctxs |-> <<>>, tmp |-> <<>>, toks |-> <<>>,
             pos |-> 0, hd |-> 0]

Token(type, parts) ==
  [type |-> type, parts |-> parts, flag |-> type = "<<", body |-> <<>>]

Tokens == [type : TokTypes, parts : Seq(Parts), flag : BOOLEAN, body : Seq(Seq(Symbols))]
Lexers == [mode : Modes, ctxs : Seq(Contexts), tmp : Seq(Parts), toks : Seq(Tokens),
           pos : Nat, hd : Nat]

\* What properties say of parts: they delimit text before a given position.
Within(parts, end) ==
  \A p \in 1..Len(parts) : parts[p].start <= parts[p].end /\ parts[p].end <= end

\* The state the source calls LEX_NORMAL.
IsNormal(lx) == lx.mode \in {"lex", "word", "#"}

-----------------------------------------------------------------------------
(* Contexts: a stack, of which only the top is ever removed. *)

Top(s) == s[Len(s)]
Pop(s) == SubSeq(s, 1, Len(s) - 1)
TopIn(s, S) == s # <<>> /\ Top(s) \in S
PopIf(s, S) == IF TopIn(s, S) THEN Pop(s) ELSE s

AddContext(lx, c) == [lx EXCEPT !.ctxs = Append(@, c)]
RemOpContext(lx) == [lx EXCEPT !.ctxs = PopIf(@, OpContexts)]
RemSubContext(lx) == [lx EXCEPT !.ctxs = PopIf(@, {"("})]
RemEscContext(lx) == [lx EXCEPT !.ctxs = PopIf(@, {"\\"})]

-----------------------------------------------------------------------------
(* Parts and tokens. *)

In(lx, mode) == [lx EXCEPT !.mode = mode]
Advance(lx) == [lx EXCEPT !.pos = @ + 1]

\* Whatever the last part is, even a quoted one that was closed before.
CloseTmpPartForgotten(lx) == lx
CloseTmpPart(lx) ==
  IF lx.tmp = <<>> THEN lx ELSE [lx EXCEPT !.tmp[Len(lx.tmp)].end = lx.pos]
TempPartCreate(lx, type) ==
  [lx EXCEPT !.tmp = Append(@, [type |-> type, start |-> lx.pos, end |-> lx.pos])]

Emit(lx, type) ==
  [lx EXCEPT !.toks = Append(@, Token(type, <<>>)),
             !.hd = IF type = "<<" THEN @ + 1 ELSE @]
WordEmit(lx) ==
  IF lx.tmp = <<>> THEN lx
  ELSE [lx EXCEPT !.toks = Append(@, Token("WORD", lx.tmp)), !.tmp = <<>>]

-----------------------------------------------------------------------------
(* One symbol. *)

\* emit_control_operator, emit_redirection and emit_struct.
EmitOperatorAddsEvery(lx, c) ==
  AddContext(Advance(Emit(WordEmit(CloseTmpPart(lx)), c)), c)
EmitOperatorClosesOuterFirst(lx, c) ==
  LET before == IF c \in Redirs THEN RemOpContext(lx) ELSE lx
      after == Advance(Emit(WordEmit(CloseTmpPart(before)), c))
  IN IF c \in OpContexts \cup {"("} THEN AddContext(after, c)
     ELSE IF c = ")" THEN RemSubContext(RemOpContext(after))
     ELSE after
EmitOperator(lx, c) ==
  LET before == IF c \in Redirs THEN RemOpContext(lx) ELSE lx
      after == Advance(Emit(WordEmit(CloseTmpPart(before)), c))
  IN IF c \in OpContexts \cup {"("} THEN AddContext(after, c)
     ELSE IF c = ")" THEN RemOpContext(RemSubContext(after))
     ELSE after

EnterQuoteUnseen(lx, c) ==
  TempPartCreate(RemOpContext(In(Advance(lx), c)), c)
EnterQuote(lx, c) ==
  TempPartCreate(AddContext(RemOpContext(In(Advance(lx), c)), c), c)

\* The quote's context is the innermost one when the quote is closed.
LeaveQuoteKeepsContext(lx) ==
  In(Advance(CloseTmpPart(lx)), "lex")
LeaveQuote(lx) ==
  In([Advance(CloseTmpPart(lx)) EXCEPT !.ctxs = Pop(@)], "lex")

InsideQuote(lx, c) ==
  IF lx.mode = "\"\\" THEN In(Advance(lx), "\"")
  ELSE IF c = lx.mode THEN LeaveQuote(lx)
  ELSE In(Advance(lx), IF lx.mode = "\"" /\ c = "\\" THEN "\"\\" ELSE lx.mode)

Separator(lx, c) ==
  LET word == WordEmit(lx)
  IN Advance(IF c = "\n" THEN Emit(word, "NEWLINE") ELSE word)

\* The symbols at which read_unquoted_body goes on.  An escape is not undone by
\* the symbol after it: the state stays LEX_ESCAPE, in which there are no blanks.
StaysInWord(lx, c) ==
  /\ c \notin Operators \cup Quotes
  /\ c \in Blanks => lx.mode = "esc"
WordStep(lx, c) == Advance(IF c = "\\" THEN In(lx, "esc") ELSE lx)

LexNormal(lx, c) ==
  IF c \in Quotes THEN EnterQuote(lx, c)
  ELSE IF c \in Operators THEN EmitOperator(lx, c)
  ELSE IF c \in Blanks THEN Separator(lx, c)
  ELSE IF c = "#" THEN In(Advance(WordEmit(CloseTmpPart(lx))), "#")
  ELSE WordStep(In(RemOpContext(TempPartCreate(lx, "UQUOTE")), "word"), c)

\* lex_escape, which the main loop calls before it goes on.
LexEscape(lx) == In(RemEscContext(lx), "lex")

Step(lx, c) ==
  IF lx.mode \in Quotes \cup {"\"\\"} THEN InsideQuote(lx, c)
  ELSE IF lx.mode = "#" /\ c # "\n" THEN Advance(lx)
  ELSE IF lx.mode \in {"word", "esc"} THEN
    IF StaysInWord(lx, c) THEN WordStep(lx, c)
    ELSE IF c \in Operators
         THEN In(EmitOperator(lx, c), IF lx.mode = "esc" THEN "escOut" ELSE "lex")
    ELSE LexNormal(In(IF lx.mode = "esc" THEN RemEscContext(CloseTmpPart(lx))
                                         ELSE CloseTmpPart(lx), "lex"), c)
  ELSE LexNormal(IF lx.mode = "escOut" THEN LexEscape(lx) ELSE In(lx, "lex"), c)

\* run_lexer begins with a chunk, and after its last symbol.  An empty chunk
\* leaves everything but heredoc_count as it was.
BeginChunk(lx) == [lx EXCEPT !.hd = 0]

EndChunk(lx, tty) ==
  LET closed == IF lx.mode \in {"word", "esc"} THEN CloseTmpPart(lx) ELSE lx
      word == In(WordEmit(closed), "lex")
      newline == IF tty THEN Emit(word, "NEWLINE") ELSE word
  IN IF lx.mode \in {"esc", "escOut"} THEN In(AddContext(closed, "\\"), "escOut")
     ELSE IF lx.mode = "\"\\" THEN In(lx, "\"")
     ELSE IF lx.mode \in Quotes THEN lx
     ELSE IF newline.ctxs = <<>> THEN Emit(newline, "EOF") ELSE newline

\* manage_pendings: the newline of a line that ended inside a quote or after a
\* backslash is put back, behind the lexer's position.
PendingNewlineStays(lx) == lx
PendingNewline(lx) == Advance(lx)

\* Before that, not at a terminal: an open quote must have a word before it, or
\* the shell itself exits.
GivesUp(lx, tty) ==
  /\ ~IsNormal(lx) /\ ~tty
  /\ lx.toks # <<>> => Top(lx.toks).type \in {"EOF", "NEWLINE"}

\* lexer_soft_reset: everything but the tokens.
SoftReset(lx) == [NewLexer EXCEPT !.toks = lx.toks]
=============================================================================
