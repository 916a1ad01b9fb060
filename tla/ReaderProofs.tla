---------------------------- MODULE ReaderProofs ---------------------------
(***************************************************************************)
(* Reader, for every set of lines, any number of them and of signals.      *)
(*                                                                         *)
(* Signals and buffer are proved apart.  InterruptCancels looks at the     *)
(* moment the tokens are parsed; what makes it hold is where a signal can  *)
(* be pending before (SignalInv).  BufferIsRead needs to know that the     *)
(* lexer is well-formed in between (LexerProofs) and that there is a       *)
(* delimiter behind the here-document that is read (BufferInv).            *)
(*                                                                         *)
(* InputSplit compares the two ends of the reading: the lines as they came *)
(* (Split) and the buffer and tokens they have become.  SplitInv says, for *)
(* every place the shell can be at, how far the second are behind the      *)
(* first: in the middle of a line (Lexed), before the bodies (Waited) and  *)
(* in one of them (Bodied).                                                *)
(***************************************************************************)
EXTENDS Reader, LexerProofs, FiniteSetTheorems

\* A pending interruption is seen before anything else happens: only a terminal
\* can have one, while it waits for a line or after the end of the input.
PendingIsSeen ==
  struck => tty /\ pc \in {"line", "bodyline", "ended"} /\ (pc = "ended" \/ flag = 1)

\* A script is not interrupted while it reads.
ScriptIgnores == Waiting /\ ~tty => handler = "ignore"

SignalInv ==
  /\ tty \in BOOLEAN /\ struck \in BOOLEAN
  /\ PendingIsSeen /\ ScriptIgnores /\ OnlyInterruptCancels

\* SignalInv holds at first, and every step of the shell and every signal keeps it.
LEMMA SignalInit == Init => SignalInv
BY DEF Init, SignalInv, PendingIsSeen, ScriptIgnores, OnlyInterruptCancels, Waiting

LEMMA SignalStep == SignalInv /\ [Next]_vars => SignalInv'
<1>. SUFFICES ASSUME SignalInv, [Next]_vars PROVE SignalInv'
  OBVIOUS
<1>. USE DEF SignalInv, PendingIsSeen, ScriptIgnores, OnlyInterruptCancels, Waiting
<1>1. CASE InitRead
  BY <1>1 DEF InitRead, signals
<1>2. CASE Prompt
  BY <1>2 DEF Prompt
<1>3. ASSUME NEW l \in Lines, NEW last \in BOOLEAN, ReadLine(l, last) PROVE SignalInv'
  BY <1>3 DEF ReadLine, signals
<1>4. ASSUME NEW last \in BOOLEAN, CancelLine(last) PROVE SignalInv'
  BY <1>4 DEF CancelLine
<1>5. ASSUME NEW l \in Lines, NEW last \in BOOLEAN, ReadBodyLine(l, last)
      PROVE  SignalInv'
  BY <1>5 DEF ReadBodyLine, signals
<1>6. ASSUME NEW l \in Lines, NEW last \in BOOLEAN, EndBody(l, last) PROVE SignalInv'
  <2>1. CASE KeepBody /\ flag = 0
    BY <1>6, <2>1 DEF EndBody, KeepBody
  <2>2. CASE DropCommand
    BY <1>6, <2>2 DEF EndBody, DropCommand
  <2>. QED BY <1>6, <2>1, <2>2 DEF EndBody
<1>7. CASE ReadEof
  BY <1>7 DEF ReadEof, signals
<1>8. CASE EofInBody
  <2>1. CASE KeepBody /\ ~tty
    BY <1>8, <2>1 DEF EofInBody, KeepBody
  <2>2. CASE DropCommand
    BY <1>8, <2>2 DEF EofInBody, DropCommand
  <2>. QED BY <1>8, <2>1, <2>2 DEF EofInBody
<1>9. CASE LexSymbol \/ LexEnd \/ Refuse \/ GiveUp \/ Accept \/ NoPending
  BY <1>9 DEF LexSymbol, LexEnd, Refuse, GiveUp, Accept, NoPending, signals
<1>10. ASSUME NEW k \in 1..Len(lx.toks), BeginBody(k) PROVE SignalInv'
  BY <1>10 DEF BeginBody, signals
<1>11. CASE Arm \/ Armed
  BY <1>11 DEF Arm, Armed
<1>12. CASE ExecuteNothing
  BY <1>12 DEF ExecuteNothing, signals
<1>13. ASSUME NEW c \in ExecCodes, Execute(c) \/ ExecuteExit(c) PROVE SignalInv'
  BY <1>13 DEF Execute, ExecuteExit, signals
<1>14. CASE Interrupt
  BY <1>14 DEF Interrupt, Ended
<1>15. CASE UNCHANGED vars
  BY <1>15 DEF vars, signals
<1>. QED BY <1>1, <1>2, <1>3, <1>4, <1>5, <1>6, <1>7, <1>8, <1>9, <1>10, <1>11, <1>12,
          <1>13, <1>14, <1>15 DEF Next, Reads, Shell

\* A command that was interrupted while the shell waited for one of its lines is
\* not run (main_sigint, exit_from_heredoc).
THEOREM InterruptedIsNotRun == Spec => []InterruptCancels
<1>1. SignalInv => InterruptCancels
  BY DEF SignalInv, PendingIsSeen, InterruptCancels
<1>. QED BY SignalInit, SignalStep, <1>1, PTL DEF Spec

\* The flag that makes main_sigint forget a line at a terminal is that of a signal
\* which came during this line (init_signals).
THEOREM OnlyTheInterruptedIsForgotten == Spec => []OnlyInterruptCancels
<1>1. SignalInv => OnlyInterruptCancels
  BY DEF SignalInv
<1>. QED BY SignalInit, SignalStep, <1>1, PTL DEF Spec

-----------------------------------------------------------------------------
(* The buffer, the lexer and the here-document that is read. *)

\* Where the position is, between the steps that move it.
PositionOK ==
  /\ pc \in {"prompt", "line", "check", "heredocs", "arm", "armed", "bodyline"} =>
       lx.pos = Len(total)
  /\ pc = "lex" => lx.pos <= Len(total)

\* After SoftReset the tokens are ahead of the position.
LexerOK == pc \notin {"parse", "init", "ended", "crashed"} => Good(lx)
WordsEnd == \A t \in 1..Len(lx.toks) : Within(lx.toks[t].parts, Len(total))

\* A redirection whose body is read has its delimiter behind it.
HasDelimiter == pc \in {"arm", "armed", "bodyline"} => doc \in 1..(Len(lx.toks) - 1)

BufferInv ==
  TypeOK /\ PositionOK /\ LexerOK /\ WordsEnd /\ HasDelimiter

\* A line holds symbols.
LEMMA LinesType == \A l \in Lines : l \in Seq(Symbols)
<1>1. Symbols \ {"\n", "\\"} \subseteq Symbols
  OBVIOUS
<1>. QED BY <1>1, LinesAssumption, SeqMonotonic

\* The codes the shell sets are exit codes, and mark the flag or leave it.
LEMMA CodesType ==
  ASSUME flag \in {0, 1, 130, 131}, NEW c \in ExecCodes
  PROVE  c \in 0..255 /\ MarkOf(c) \in {0, 1, 130, 131}
BY ExecCodesAssumption DEF MarkOf

\* A token list that changes where no part is.
LEMMA FlagGood ==
  ASSUME NEW x \in Lexers, NEW k \in 1..Len(x.toks)
  PROVE  LET new == [x EXCEPT !.toks[k].flag = FALSE]
         IN /\ new \in Lexers /\ new.pos = x.pos /\ new.tmp = x.tmp
            /\ Len(new.toks) = Len(x.toks)
            /\ \A j \in 1..Len(x.toks) : new.toks[j].parts = x.toks[j].parts
<1>. DEFINE t == [x.toks[k] EXCEPT !.flag = FALSE]
            toks == [x.toks EXCEPT ![k] = t]
            new == [x EXCEPT !.toks = toks]
<1>1. x.toks \in Seq(Tokens) /\ x.toks[k] \in Tokens
  BY LexersDef
<1>2. t \in Tokens /\ t.parts = x.toks[k].parts
  BY <1>1 DEF Tokens
<1>. HIDE DEF t
<1>3. /\ toks \in Seq(Tokens) /\ Len(toks) = Len(x.toks)
      /\ \A j \in 1..Len(x.toks) : toks[j] = IF j = k THEN t ELSE x.toks[j]
  BY <1>1, <1>2, ExceptSeq
<1>. HIDE DEF toks
<1>4. new \in Lexers /\ new.pos = x.pos /\ new.tmp = x.tmp /\ new.toks = toks
  BY <1>3 DEF Lexers
<1>5. [x EXCEPT !.toks[k].flag = FALSE] = new
  BY DEF new, toks, t
<1>. HIDE DEF new
<1>. QED BY <1>2, <1>3, <1>4, <1>5

\* The tokens whose parts are behind a position, and lists of them.
TokensAt(n) == {t \in Tokens : Within(t.parts, n)}
LEMMA TokenLists ==
  ASSUME NEW n \in Nat, NEW toks
  PROVE  toks \in Seq(TokensAt(n)) <=>
           toks \in Seq(Tokens) /\ \A t \in 1..Len(toks) : Within(toks[t].parts, n)
<1>1. ASSUME toks \in Seq(TokensAt(n))
      PROVE  toks \in Seq(Tokens) /\ \A t \in 1..Len(toks) : Within(toks[t].parts, n)
  <2>1. TokensAt(n) \subseteq Tokens
    BY DEF TokensAt
  <2>2. \A t \in 1..Len(toks) : toks[t] \in TokensAt(n)
    BY <1>1, ElementOfSeq
  <2>3. toks \in Seq(Tokens)
    BY <1>1, <2>1, SeqMonotonic
  <2>. QED BY <2>2, <2>3 DEF TokensAt
<1>2. ASSUME toks \in Seq(Tokens), \A t \in 1..Len(toks) : Within(toks[t].parts, n)
      PROVE  toks \in Seq(TokensAt(n))
  <2>1. \A t \in 1..Len(toks) : toks[t] \in TokensAt(n)
    BY <1>2, ElementOfSeq DEF TokensAt
  <2>2. Len(toks) \in Nat /\ toks \in [1..Len(toks) -> Tokens]
    BY <1>2, LenProperties
  <2>3. toks \in [1..Len(toks) -> TokensAt(n)]
    BY <2>1, <2>2
  <2>. QED BY <2>2, <2>3, SeqDef
<1>. QED BY <1>1, <1>2

\* The body goes in between the tokens; nothing else of the list changes.
LEMMA InsertBodyList ==
  ASSUME NEW S, NEW toks \in Seq(S), doc \in 1..(Len(toks) - 1),
         NEW b \in S, b = [Token("BODY", <<>>) EXCEPT !.body = body]
  PROVE  InsertBody(toks) \in Seq(S)
<1>. DEFINE front == SubSeq(toks, 1, doc + 1)
            back == SubSeq(toks, doc + 2, Len(toks))
<1>1. Len(toks) \in Nat /\ doc + 1 \in Int /\ doc + 2 \in Int /\ Len(toks) \in Int
  BY LenProperties
<1>2. \A i \in 1..(doc + 1) : toks[i] \in S
  BY <1>1, ElementOfSeq
<1>3. \A i \in (doc + 2)..Len(toks) : toks[i] \in S
  BY <1>1, ElementOfSeq
<1>4. front \in Seq(S)
  BY <1>1, <1>2, SubSeqProperties
<1>5. back \in Seq(S)
  BY <1>1, <1>3, SubSeqProperties
<1>6. <<b>> \in Seq(S)
  OBVIOUS
<1>7. InsertBody(toks) = (front \o <<b>>) \o back
  BY DEF InsertBody
<1>. HIDE DEF front, back
<1>8. front \o <<b>> \in Seq(S)
  BY <1>4, <1>6, ConcatProperties
<1>. QED BY <1>5, <1>7, <1>8, ConcatProperties

\* KeepBody's lexer.
LEMMA InsertBodyGood ==
  ASSUME BufferInv, pc = "bodyline"
  PROVE  LET new == [lx EXCEPT !.toks = InsertBody(lx.toks)]
         IN /\ Good(new) /\ new.pos = lx.pos
            /\ \A t \in 1..Len(new.toks) : Within(new.toks[t].parts, Len(total))
<1>. DEFINE b == [Token("BODY", <<>>) EXCEPT !.body = body]
            toks == InsertBody(lx.toks)
            new == [lx EXCEPT !.toks = toks]
<1>1. /\ lx \in Lexers /\ Good(lx) /\ doc \in 1..(Len(lx.toks) - 1)
      /\ lx.pos = Len(total) /\ body \in Seq(Seq(Symbols))
  BY DEF BufferInv, TypeOK, LexerOK, PositionOK, HasDelimiter
<1>2. lx.pos \in Nat /\ lx.toks \in Seq(Tokens) /\ lx.tmp \in Seq(Parts)
  BY <1>1, LexersDef
<1>3. b \in Tokens /\ b.parts = <<>>
  <2>1. Token("BODY", <<>>) \in Tokens /\ Token("BODY", <<>>).parts = <<>>
    BY TokenType, EmptySeq, "BODY" \in TokTypes DEF TokTypes
  <2>. QED BY <1>1, <2>1 DEF Tokens
<1>. HIDE DEF b
<1>4. b \in TokensAt(lx.pos)
  <2>1. Within(<<>>, lx.pos)
    BY DEF Within
  <2>. QED BY <1>3, <2>1 DEF TokensAt
<1>5. lx.toks \in Seq(TokensAt(lx.pos))
  BY <1>1, <1>2, TokenLists DEF Good, Behind
<1>6. toks \in Seq(TokensAt(lx.pos))
  BY <1>1, <1>4, <1>5, InsertBodyList DEF b
<1>7. toks \in Seq(Tokens) /\ \A t \in 1..Len(toks) : Within(toks[t].parts, lx.pos)
  BY <1>2, <1>6, TokenLists
<1>. HIDE DEF toks
<1>8. new \in Lexers /\ new.pos = lx.pos /\ new.tmp = lx.tmp /\ new.toks = toks
  BY <1>1, <1>7 DEF Lexers
<1>9. Good(new)
  BY <1>1, <1>7, <1>8 DEF Good, Behind
<1>10. [lx EXCEPT !.toks = InsertBody(lx.toks)] = new
  BY DEF toks
<1>. HIDE DEF new
<1>. QED BY <1>1, <1>7, <1>8, <1>9, <1>10

\* The rest of TypeOK, which the lexer and the buffer have no part in: where the
\* shell is and what it counts, its codes, and the lines it has read.
TypePlace ==
  /\ tty \in BOOLEAN /\ eof \in BOOLEAN /\ struck \in BOOLEAN
  /\ pc \in PCs /\ got \in {"line", "eof"}
  /\ reads \in 0..MaxReads /\ sigs \in 0..MaxSigs
TypeCodes ==
  /\ flag \in {0, 1, 130, 131}
  /\ handler \in {"standard", "heredoc", "ignore"}
  /\ code \in 0..255
TypeLines == since \in Seq(Seq(Symbols)) /\ body \in Seq(Seq(Symbols)) /\ doc \in Nat

\* What the steps do to the lexer and to the buffer.
Typed == lx \in Lexers /\ total \in Seq(Symbols)
BufferParts == Typed /\ PositionOK /\ LexerOK /\ WordsEnd /\ HasDelimiter

LEMMA BufferSplit == BufferInv <=> TypePlace /\ TypeCodes /\ TypeLines /\ BufferParts
BY DEF BufferInv, TypePlace, TypeCodes, TypeLines, BufferParts, Typed, TypeOK

\* A history of lines with one more.
LEMMA SinceType ==
  ASSUME NEW s \in Seq(Seq(Symbols)), NEW l \in Lines
  PROVE  Append(s, l) \in Seq(Seq(Symbols))
BY LinesType, AppendProperties

LEMMA PlaceStep ==
  ASSUME TypePlace, [Next]_vars
  PROVE  TypePlace'
<1>. USE DEF TypePlace, PCs
<1>1. CASE InitRead
  BY <1>1 DEF InitRead, signals
<1>2. CASE Prompt
  BY <1>2 DEF Prompt, input
<1>3. ASSUME NEW l \in Lines, NEW last \in BOOLEAN, ReadLine(l, last) PROVE TypePlace'
  BY <1>3, BoundsAssumption DEF ReadLine, Receives, signals
<1>4. ASSUME NEW last \in BOOLEAN, CancelLine(last) PROVE TypePlace'
  <2>1. reads' \in 0..MaxReads /\ eof' \in BOOLEAN /\ got' = "line" /\ sigs' = sigs
    BY <1>4, BoundsAssumption DEF CancelLine, Receives
  <2>2. pc' \in PCs /\ struck' = FALSE /\ tty' = tty
    BY <1>4 DEF CancelLine
  <2>. QED BY <2>1, <2>2
<1>5. ASSUME NEW l \in Lines, NEW last \in BOOLEAN, ReadBodyLine(l, last)
      PROVE  TypePlace'
  BY <1>5, BoundsAssumption DEF ReadBodyLine, Receives, signals
<1>6. ASSUME NEW l \in Lines, NEW last \in BOOLEAN, EndBody(l, last) PROVE TypePlace'
  <2>1. reads' \in 0..MaxReads /\ eof' \in BOOLEAN /\ got' = "line" /\ sigs' = sigs
        /\ tty' = tty
    BY <1>6, BoundsAssumption DEF EndBody, Receives
  <2>2. pc' \in PCs /\ struck' \in BOOLEAN
    BY <1>6 DEF EndBody, KeepBody, DropCommand
  <2>. QED BY <2>1, <2>2
<1>7. CASE ReadEof
  BY <1>7 DEF ReadEof, ReceivesEof, signals
<1>8. CASE EofInBody
  <2>1. reads' = reads /\ eof' \in BOOLEAN /\ got' = "eof" /\ sigs' = sigs /\ tty' = tty
    BY <1>8 DEF EofInBody, ReceivesEof
  <2>2. pc' \in PCs /\ struck' \in BOOLEAN
    BY <1>8 DEF EofInBody, KeepBody, DropCommand
  <2>. QED BY <2>1, <2>2
<1>9. CASE LexSymbol \/ LexEnd
  BY <1>9 DEF LexSymbol, LexEnd, signals, input
<1>10. CASE Refuse \/ GiveUp
  BY <1>10 DEF Refuse, GiveUp, signals, input
<1>11. CASE Accept
  BY <1>11 DEF Accept, signals, input
<1>12. CASE NoPending
  BY <1>12 DEF NoPending, signals, input
<1>13. ASSUME NEW k \in 1..Len(lx.toks), BeginBody(k) PROVE TypePlace'
  BY <1>13 DEF BeginBody, signals, input
<1>14. CASE Arm
  BY <1>14 DEF Arm, input
<1>15. CASE Armed
  BY <1>15 DEF Armed, input
<1>16. CASE ExecuteNothing
  BY <1>16 DEF ExecuteNothing, signals, input
<1>17. ASSUME NEW c \in ExecCodes, Execute(c) PROVE TypePlace'
  BY <1>17 DEF Execute, input
<1>18. ASSUME NEW c \in ExecCodes, ExecuteExit(c) PROVE TypePlace'
  BY <1>18 DEF ExecuteExit, signals, input
<1>19. CASE Interrupt
  BY <1>19, BoundsAssumption DEF Interrupt, Waiting, input
<1>20. CASE UNCHANGED vars
  BY <1>20 DEF vars, signals, input
<1>. QED BY <1>1, <1>2, <1>3, <1>4, <1>5, <1>6, <1>7, <1>8, <1>9, <1>10, <1>11, <1>12,
          <1>13, <1>14, <1>15, <1>16, <1>17, <1>18, <1>19, <1>20 DEF Next, Reads, Shell

LEMMA CodesStep ==
  ASSUME TypeCodes, [Next]_vars
  PROVE  TypeCodes'
<1>. USE DEF TypeCodes
<1>1. CASE InitRead \/ Prompt \/ Arm \/ Armed \/ ExecuteNothing \/ Interrupt
           \/ UNCHANGED vars
  <2>1. /\ flag' \in {flag, 0, 1} /\ code' = code
        /\ handler' \in {handler, "standard", "heredoc", "ignore"}
    BY <1>1 DEF InitRead, Prompt, Arm, Armed, ExecuteNothing, Interrupt, vars, signals
  <2>. QED BY <2>1
<1>2. ASSUME NEW l \in Lines, NEW last \in BOOLEAN,
             ReadLine(l, last) \/ ReadBodyLine(l, last)
      PROVE  TypeCodes'
  <2>1. UNCHANGED <<flag, handler, code>>
    BY <1>2 DEF ReadLine, ReadBodyLine, signals
  <2>. QED BY <2>1
<1>3. ASSUME NEW last \in BOOLEAN, CancelLine(last) PROVE TypeCodes'
  <2>1. handler' = handler /\ code' \in {code, 0, 130} /\ flag' \in {flag, 0}
    BY <1>3 DEF CancelLine
  <2>. QED BY <2>1
<1>4. ASSUME NEW l \in Lines, NEW last \in BOOLEAN, EndBody(l, last) PROVE TypeCodes'
  BY <1>4 DEF EndBody, KeepBody, DropCommand
<1>5. CASE ReadEof
  BY <1>5 DEF ReadEof, signals
<1>6. CASE EofInBody
  <2>1. handler' = handler /\ code' \in {code, 0, 130} /\ flag' \in {flag, 0}
    BY <1>6 DEF EofInBody, KeepBody, DropCommand
  <2>. QED BY <2>1
<1>7. CASE LexSymbol \/ LexEnd \/ Refuse \/ GiveUp \/ Accept \/ NoPending
  <2>1. CASE Refuse \/ GiveUp
    BY <2>1 DEF Refuse, GiveUp, signals
  <2>2. CASE LexSymbol \/ LexEnd \/ NoPending
    <3>1. UNCHANGED <<flag, handler, code>>
      BY <2>2 DEF LexSymbol, LexEnd, NoPending, signals
    <3>. QED BY <3>1
  <2>3. CASE Accept
    BY <2>3 DEF Accept, signals
  <2>. QED BY <1>7, <2>1, <2>2, <2>3
<1>8. ASSUME NEW k \in 1..Len(lx.toks), BeginBody(k) PROVE TypeCodes'
  BY <1>8 DEF BeginBody, signals
<1>9. ASSUME NEW c \in ExecCodes, Execute(c) PROVE TypeCodes'
  BY <1>9, CodesType DEF Execute
<1>10. ASSUME NEW c \in ExecCodes, ExecuteExit(c) PROVE TypeCodes'
  BY <1>10, CodesType DEF ExecuteExit, signals
<1>. QED BY <1>1, <1>2, <1>3, <1>4, <1>5, <1>6, <1>7, <1>8, <1>9, <1>10
         DEF Next, Reads, Shell

LEMMA LinesStep ==
  ASSUME TypeLines, [Next]_vars
  PROVE  TypeLines'
<1>. USE DEF TypeLines
<1>1. CASE InitRead \/ Prompt \/ Arm \/ Armed \/ ExecuteNothing \/ Interrupt
           \/ UNCHANGED vars
  BY <1>1, EmptySeq
  DEF InitRead, Prompt, Arm, Armed, ExecuteNothing, Interrupt, vars, input, heredoc
<1>2. ASSUME NEW l \in Lines, NEW last \in BOOLEAN, ReadLine(l, last) PROVE TypeLines'
  BY <1>2, SinceType DEF ReadLine, heredoc
<1>3. ASSUME NEW l \in Lines, NEW last \in BOOLEAN, ReadBodyLine(l, last)
      PROVE  TypeLines'
  BY <1>3, SinceType DEF ReadBodyLine
<1>4. ASSUME NEW last \in BOOLEAN, CancelLine(last) PROVE TypeLines'
  BY <1>4, EmptySeq DEF CancelLine, heredoc
<1>5. ASSUME NEW l \in Lines, NEW last \in BOOLEAN, EndBody(l, last) PROVE TypeLines'
  BY <1>5, SinceType DEF EndBody, KeepBody, DropCommand, heredoc
<1>6. CASE ReadEof
  BY <1>6 DEF ReadEof, ReceivesEof, heredoc
<1>7. CASE EofInBody
  BY <1>7 DEF EofInBody, ReceivesEof, KeepBody, DropCommand, heredoc
<1>8. CASE LexSymbol \/ LexEnd \/ Refuse \/ GiveUp \/ Accept \/ NoPending
  BY <1>8 DEF LexSymbol, LexEnd, Refuse, GiveUp, Accept, NoPending, input, heredoc
<1>9. ASSUME NEW k \in 1..Len(lx.toks), BeginBody(k) PROVE TypeLines'
  BY <1>9, EmptySeq DEF BeginBody, input
<1>10. ASSUME NEW c \in ExecCodes, Execute(c) \/ ExecuteExit(c) PROVE TypeLines'
  BY <1>10 DEF Execute, ExecuteExit, input, heredoc
<1>. QED BY <1>1, <1>2, <1>3, <1>4, <1>5, <1>6, <1>7, <1>8, <1>9, <1>10
         DEF Next, Reads, Shell

\* An action that leaves the lexer and the buffer alone needs to say only where it
\* goes.
LEMMA SameBuffer ==
  ASSUME BufferParts, UNCHANGED <<total, lx, doc>>,
         pc' = "lex" => lx.pos <= Len(total),
         pc' \in {"prompt", "line", "check", "heredocs", "arm", "armed", "bodyline"} =>
           lx.pos = Len(total),
         pc' \notin {"parse", "init", "ended", "crashed"} => Good(lx),
         pc' \in {"arm", "armed", "bodyline"} => doc \in 1..(Len(lx.toks) - 1)
  PROVE  BufferParts'
BY DEF BufferParts, Typed, PositionOK, LexerOK, WordsEnd, HasDelimiter

\* One that forgets them, likewise.
LEMMA EmptyBuffer ==
  ASSUME total' = <<>>, lx' = NewLexer, pc' \in {"init", "prompt"}
  PROVE  BufferParts'
<1>1. /\ Good(lx') /\ lx'.pos = 0 /\ lx'.toks = <<>> /\ lx' \in Lexers
  BY NewLexerGood DEF Good
<1>2. total' \in Seq(Symbols) /\ Len(total') = 0
  BY EmptySeq
<1>3. PositionOK' /\ LexerOK' /\ WordsEnd' /\ HasDelimiter'
  BY <1>1, <1>2 DEF PositionOK, LexerOK, WordsEnd, HasDelimiter
<1>. QED BY <1>1, <1>2, <1>3 DEF BufferParts, Typed

\* One that puts a well-formed lexer at the position of the buffer's end.
LEMMA NextBuffer ==
  ASSUME total' \in Seq(Symbols), Good(lx'), lx'.pos <= Len(total'),
         pc' # "lex" => lx'.pos = Len(total'),
         pc' \in {"arm", "armed", "bodyline"} => doc' \in 1..(Len(lx'.toks) - 1)
  PROVE  BufferParts'
<1>1. lx' \in Lexers /\ Behind(lx'.tmp, lx'.toks, lx'.pos)
  BY DEF Good
<1>2. lx'.tmp \in Seq(Parts) /\ lx'.toks \in Seq(Tokens) /\ lx'.pos \in Nat
  BY <1>1, LexersDef
<1>3. Len(total') \in Nat
  OBVIOUS
<1>4. Behind(lx'.tmp, lx'.toks, Len(total'))
  BY <1>1, <1>2, <1>3, BehindLater
<1>5. PositionOK' /\ LexerOK' /\ WordsEnd' /\ HasDelimiter'
  BY <1>4 DEF PositionOK, LexerOK, WordsEnd, HasDelimiter, Behind
<1>. QED BY <1>1, <1>5 DEF BufferParts, Typed

\* What the parts of the invariant say together, for an action to use.
LEMMA BufferFacts ==
  ASSUME BufferInv
  PROVE  /\ lx \in Lexers /\ total \in Seq(Symbols) /\ Len(total) \in Nat
         /\ lx.pos \in Nat /\ tty \in BOOLEAN /\ pc \in PCs
         /\ pc \notin {"parse", "init", "ended", "crashed"} => Good(lx)
         /\ pc \in {"prompt", "line", "check", "heredocs", "arm", "armed", "bodyline"} =>
              lx.pos = Len(total)
         /\ pc = "lex" => lx.pos <= Len(total)
         /\ pc \in {"arm", "armed", "bodyline"} => doc \in 1..(Len(lx.toks) - 1)
BY LexersDef, LenProperties
DEF BufferInv, TypeOK, PositionOK, LexerOK, WordsEnd, HasDelimiter

LEMMA KeepStep ==
  ASSUME BufferInv, pc = "bodyline", KeepBody
  PROVE  BufferParts'
<1>1. /\ lx' = [lx EXCEPT !.toks = InsertBody(lx.toks)]
      /\ pc' = "heredocs" /\ total' = total
  BY DEF KeepBody
<1>2. Good(lx') /\ lx'.pos = lx.pos
  BY <1>1, InsertBodyGood
<1>3. total' \in Seq(Symbols) /\ lx.pos = Len(total) /\ lx.pos \in Nat
  BY <1>1, BufferFacts
<1>. QED BY <1>1, <1>2, <1>3, NextBuffer

LEMMA DropStep ==
  ASSUME DropCommand
  PROVE  BufferParts'
BY EmptyBuffer DEF DropCommand

LEMMA BufferStep ==
  ASSUME BufferInv, [Next]_vars
  PROVE  BufferParts'
<1>0. BufferParts
  BY BufferSplit
<1>1. CASE InitRead
  BY <1>1, EmptyBuffer DEF InitRead
<1>2. CASE Prompt
  BY <1>0, <1>2, BufferFacts, SameBuffer DEF Prompt, heredoc
<1>3. ASSUME NEW l \in Lines, NEW last \in BOOLEAN, ReadLine(l, last)
      PROVE  BufferParts'
  <2>. DEFINE chunk == IF tty \/ last THEN l ELSE Append(l, "\n")
  <2>1. chunk \in Seq(Symbols)
    BY LinesType, AppendProperties DEF Symbols, Blanks
  <2>2. /\ total' = total \o chunk
        /\ pc' = IF chunk = <<>> THEN "check" ELSE "lex"
        /\ lx' = BeginChunk(lx) /\ pc = "line"
    BY <1>3 DEF ReadLine
  <2>. HIDE DEF chunk
  <2>3. /\ Good(lx) /\ lx.pos = Len(total) /\ total \in Seq(Symbols) /\ Len(total) \in Nat
    BY <2>2, BufferFacts
  <2>4. GoodAt(lx', lx, 0)
    BY <2>2, <2>3, BeginChunkGood
  <2>5. Good(lx') /\ lx'.pos = Len(total)
    BY <2>3, <2>4 DEF GoodAt
  <2>6. /\ total' \in Seq(Symbols) /\ Len(total') = Len(total) + Len(chunk)
        /\ Len(chunk) \in Nat /\ (chunk = <<>> => Len(chunk) = 0)
    BY <2>1, <2>2, <2>3, ConcatProperties, LenProperties, EmptySeq
  <2>. QED BY <2>2, <2>3, <2>5, <2>6, NextBuffer
<1>4. ASSUME NEW last \in BOOLEAN, CancelLine(last) PROVE BufferParts'
  <2>1. CASE tty
    BY <1>4, <2>1, EmptyBuffer DEF CancelLine
  <2>2. CASE ~tty
    BY <1>0, <1>4, <2>2, SameBuffer DEF CancelLine, heredoc
  <2>. QED BY <2>1, <2>2
<1>5. ASSUME NEW l \in Lines, NEW last \in BOOLEAN, ReadBodyLine(l, last)
      PROVE  BufferParts'
  BY <1>0, <1>5, BufferFacts, SameBuffer DEF ReadBodyLine
<1>6. ASSUME NEW l \in Lines, NEW last \in BOOLEAN, EndBody(l, last) PROVE BufferParts'
  BY <1>6, KeepStep, DropStep DEF EndBody
<1>7. CASE ReadEof
  BY <1>0, <1>7, SameBuffer DEF ReadEof, heredoc
<1>8. CASE EofInBody
  BY <1>8, KeepStep, DropStep DEF EofInBody
<1>9. CASE LexSymbol
  <2>1. /\ lx' = Step(lx, total[lx.pos + 1]) /\ total' = total /\ pc = "lex" /\ pc' = pc
        /\ lx.pos < Len(total)
    BY <1>9 DEF LexSymbol
  <2>2. Good(lx) /\ total \in Seq(Symbols) /\ Len(total) \in Nat /\ lx.pos \in Nat
    BY <2>1, BufferFacts
  <2>3. total[lx.pos + 1] \in Symbols
    BY <2>1, <2>2, ElementOfSeq
  <2>4. GoodAt(lx', lx, 1)
    BY <2>1, <2>2, <2>3, StepGood
  <2>5. Good(lx') /\ lx'.pos = lx.pos + 1
    BY <2>4 DEF GoodAt
  <2>. QED BY <2>1, <2>2, <2>5, NextBuffer
<1>10. CASE LexEnd
  <2>1. /\ lx' = EndChunk(lx, tty) /\ total' = total /\ pc = "lex" /\ pc' = "check"
        /\ lx.pos = Len(total)
    BY <1>10 DEF LexEnd
  <2>2. /\ Good(lx) /\ total \in Seq(Symbols) /\ Len(total) \in Nat /\ lx.pos \in Nat
        /\ tty \in BOOLEAN
    BY <2>1, BufferFacts
  <2>3. GoodAt(lx', lx, 0)
    BY <2>1, <2>2, EndChunkGood
  <2>4. Good(lx') /\ lx'.pos = lx.pos
    BY <2>2, <2>3 DEF GoodAt
  <2>. QED BY <2>1, <2>2, <2>4, NextBuffer
<1>11. CASE Refuse
  BY <1>11, EmptyBuffer DEF Refuse
<1>12. CASE GiveUp
  BY <1>0, <1>12, SameBuffer DEF GiveUp, heredoc
<1>13. CASE Accept
  <2>1. /\ Good(lx) /\ total \in Seq(Symbols) /\ Len(total) \in Nat /\ lx.pos = Len(total)
        /\ pc = "check" /\ pc' = "heredocs" /\ doc' = doc
    BY <1>13, BufferFacts DEF Accept, heredoc
  <2>2. CASE IsNormal(lx)
    BY <1>0, <1>13, <2>1, <2>2, SameBuffer DEF Accept
  <2>3. CASE ~IsNormal(lx)
    <3>1. lx' = Advance(lx) /\ total' = Append(total, "\n")
      BY <1>13, <2>3 DEF Accept, PendingNewline
    <3>2. GoodAt(lx', lx, 1)
      BY <2>1, <3>1, AdvanceGood
    <3>3. Good(lx') /\ lx'.pos = Len(total) + 1
      BY <2>1, <3>2 DEF GoodAt
    <3>4. "\n" \in Symbols
      BY DEF Symbols, Blanks
    <3>5. total' \in Seq(Symbols) /\ Len(total') = Len(total) + 1
      BY <2>1, <3>1, <3>4, AppendProperties
    <3>. QED BY <2>1, <3>3, <3>5, NextBuffer
  <2>. QED BY <2>2, <2>3
<1>14. ASSUME NEW k \in 1..Len(lx.toks), BeginBody(k) PROVE BufferParts'
  <2>1. /\ lx' = [lx EXCEPT !.toks[k].flag = FALSE] /\ total' = total /\ doc' = k
        /\ pc' = IF k = Len(lx.toks) THEN "crashed" ELSE "arm"
        /\ pc = "heredocs"
    BY <1>14 DEF BeginBody
  <2>2. /\ lx \in Lexers /\ total \in Seq(Symbols) /\ Len(total) \in Nat
        /\ lx.pos = Len(total) /\ lx.pos \in Nat /\ Good(lx) /\ Len(lx.toks) \in Nat
    BY <2>1, BufferFacts, LexersDef, LenProperties
  <2>3. /\ lx' \in Lexers /\ lx'.pos = lx.pos /\ lx'.tmp = lx.tmp
        /\ Len(lx'.toks) = Len(lx.toks)
        /\ \A j \in 1..Len(lx.toks) : lx'.toks[j].parts = lx.toks[j].parts
    BY <2>1, <2>2, FlagGood
  <2>4. Good(lx')
    BY <2>2, <2>3 DEF Good, Behind
  <2>5. pc' \in {"arm", "armed", "bodyline"} => k \in 1..(Len(lx.toks) - 1)
    BY <2>1, <2>2
  <2>. QED BY <2>1, <2>2, <2>3, <2>4, <2>5, NextBuffer
<1>15. CASE Arm
  BY <1>0, <1>15, BufferFacts, SameBuffer DEF Arm, heredoc
<1>16. CASE Armed
  BY <1>0, <1>16, BufferFacts, SameBuffer DEF Armed, heredoc
<1>17. CASE NoPending
  <2>1. CASE lx.ctxs # <<>>
    BY <1>0, <1>17, <2>1, BufferFacts, SameBuffer DEF NoPending, heredoc
  <2>2. CASE lx.ctxs = <<>>
    <3>1. lx' = SoftReset(lx) /\ total' = total /\ pc' = "parse"
      BY <1>17, <2>2 DEF NoPending
    <3>2. lx \in Lexers /\ lx.toks \in Seq(Tokens)
      BY BufferFacts, LexersDef
    <3>3. lx' \in Lexers /\ lx'.toks = lx.toks
      BY <3>1, <3>2, SoftResetType
    <3>. QED BY <1>0, <3>1, <3>3
         DEF BufferParts, Typed, PositionOK, LexerOK, WordsEnd, HasDelimiter
  <2>. QED BY <2>1, <2>2
<1>18. CASE ExecuteNothing
  BY <1>0, <1>18, SameBuffer DEF ExecuteNothing, heredoc
<1>19. ASSUME NEW c \in ExecCodes, Execute(c) \/ ExecuteExit(c) PROVE BufferParts'
  BY <1>0, <1>19, SameBuffer DEF Execute, ExecuteExit, heredoc
<1>20. CASE Interrupt
  BY <1>0, <1>20, BufferFacts, SameBuffer DEF Interrupt, heredoc
<1>21. CASE UNCHANGED vars
  BY <1>0, <1>21, BufferFacts, SameBuffer DEF vars, heredoc
<1>. QED BY <1>1, <1>2, <1>3, <1>4, <1>5, <1>6, <1>7, <1>8, <1>9, <1>10, <1>11, <1>12,
          <1>13, <1>14, <1>15, <1>16, <1>17, <1>18, <1>19, <1>20, <1>21
     DEF Next, Reads, Shell

LEMMA BufferInit == Init => BufferInv
<1>. SUFFICES ASSUME Init PROVE BufferInv
  OBVIOUS
<1>1. TypePlace /\ TypeCodes
  <2>1. pc \in PCs /\ 0 \in 0..MaxReads /\ 0 \in 0..MaxSigs /\ 0 \in 0..255
    BY BoundsAssumption DEF Init, PCs
  <2>. QED BY <2>1 DEF Init, TypePlace, TypeCodes
<1>2. TypeLines
  BY EmptySeq DEF Init, TypeLines
<1>3. lx \in Lexers /\ lx.toks = <<>>
  BY NewLexerGood DEF Init, Good
<1>4. BufferParts
  BY <1>3, EmptySeq
  DEF Init, BufferParts, Typed, PositionOK, LexerOK, WordsEnd, HasDelimiter
<1>. QED BY <1>1, <1>2, <1>4, BufferSplit

LEMMA BufferIsInductive == Spec => []BufferInv
<1>1. BufferInv /\ [Next]_vars => BufferInv'
  <2>. SUFFICES ASSUME BufferInv, [Next]_vars PROVE BufferInv'
    OBVIOUS
  <2>1. TypePlace' /\ TypeCodes' /\ TypeLines'
    BY BufferSplit, PlaceStep, CodesStep, LinesStep
  <2>2. BufferParts'
    BY BufferStep
  <2>3. (TypePlace /\ TypeCodes /\ TypeLines /\ BufferParts)' => BufferInv'
    BY DEF BufferInv, TypePlace, TypeCodes, TypeLines, BufferParts, Typed, TypeOK
  <2>. QED BY <2>1, <2>2, <2>3
<1>. QED BY BufferInit, <1>1, PTL DEF Spec

\* Every variable keeps its type; of the lexer's record this is the well-formedness
\* of its contexts, parts and tokens after any text.
THEOREM TypeCorrect == Spec => []TypeOK
<1>1. BufferInv => TypeOK
  BY DEF BufferInv
<1>. QED BY BufferIsInductive, <1>1, PTL

\* Position and buffer agree whenever the shell reads, over lines, continuations,
\* interruptions and here-documents, and no word reaches past the buffer
\* (manage_pendings, main_sigint, run_lexer).
THEOREM WordsAreInTheBuffer == Spec => []BufferIsRead
<1>1. BufferInv => BufferIsRead
  BY DEF BufferInv, PositionOK, WordsEnd, BufferIsRead
<1>. QED BY BufferIsInductive, <1>1, PTL

-----------------------------------------------------------------------------
(* Recursive functions over 0..n. *)

\* There is one for each way to make the next value of the one before.
Iterates(f, n, S, first, g) ==
  /\ f \in [0..n -> S] /\ f[0] = first
  /\ \A k \in 1..n : f[k] = g[k][f[k - 1]]

LEMMA Recursion ==
  ASSUME NEW n \in Nat, NEW S, NEW first \in S, NEW g, g \in [1..n -> [S -> S]]
  PROVE  \E f : Iterates(f, n, S, first, g)
<1>. DEFINE Goes(f, m) == f[0] = first /\ \A k \in 1..m : f[k] = g[k][f[k - 1]]
            T == {m \in Nat : m <= n => \E f \in [0..m -> S] : Goes(f, m)}
<1>1. 0 \in T
  <2>. DEFINE f == [k \in 0..0 |-> first]
  <2>1. f \in [0..0 -> S] /\ f[0] = first
    OBVIOUS
  <2>. HIDE DEF f
  <2>2. Goes(f, 0)
    BY <2>1
  <2>. QED BY <2>1, <2>2
<1>2. ASSUME NEW m \in Nat, m \in T PROVE m + 1 \in T
  <2>. SUFFICES ASSUME m + 1 <= n PROVE \E f \in [0..(m + 1) -> S] : Goes(f, m + 1)
    OBVIOUS
  <2>1. PICK f \in [0..m -> S] : Goes(f, m)
    BY <1>2
  <2>2. PICK v : v = g[m + 1][f[m]]
    OBVIOUS
  <2>3. v \in S
    <3>1. f[m] \in S /\ m + 1 \in 1..n
      BY <2>1
    <3>2. g[m + 1] \in [S -> S]
      BY <3>1
    <3>. QED BY <2>2, <3>1, <3>2
  <2>. DEFINE new == [k \in 0..(m + 1) |-> IF k = m + 1 THEN v ELSE f[k]]
  <2>4. new \in [0..(m + 1) -> S]
    BY <2>1, <2>3
  <2>5. \A k \in 0..(m + 1) : new[k] = IF k = m + 1 THEN v ELSE f[k]
    OBVIOUS
  <2>. HIDE DEF new
  <2>6. new[0] = first
    BY <2>1, <2>5
  <2>7. ASSUME NEW k \in 1..(m + 1) PROVE new[k] = g[k][new[k - 1]]
    <3>1. new[k - 1] = f[k - 1] /\ k - 1 \in 0..m
      BY <2>5
    <3>2. CASE k = m + 1
      BY <2>2, <2>5, <3>1, <3>2
    <3>3. CASE k # m + 1
      <4>1. k \in 1..m /\ new[k] = f[k]
        BY <2>5, <3>3
      <4>. QED BY <2>1, <3>1, <4>1
    <3>. QED BY <3>2, <3>3
  <2>. QED BY <2>4, <2>6, <2>7
<1>. HIDE DEF T
<1>3. n \in T
  BY <1>1, <1>2, NatSetInduction
<1>. QED BY <1>3 DEF T, Iterates

\* What holds of the values it begins with and of each one if of the one before.
LEMMA RecursionType ==
  ASSUME NEW n \in Nat, NEW S, NEW f, f[0] \in S, \A k \in 1..n : f[k - 1] \in S => f[k] \in S
  PROVE  \A k \in 0..n : f[k] \in S
<1>. DEFINE T == {m \in Nat : m <= n => f[m] \in S}
<1>1. 0 \in T
  OBVIOUS
<1>2. ASSUME NEW m \in Nat, m \in T PROVE m + 1 \in T
  <2>. SUFFICES ASSUME m + 1 <= n PROVE f[m + 1] \in S
    OBVIOUS
  <2>1. m + 1 \in 1..n /\ (m + 1) - 1 = m /\ f[m] \in S
    BY <1>2
  <2>. QED BY <2>1
<1>. HIDE DEF T
<1>3. \A m \in Nat : m \in T
  BY <1>1, <1>2, NatSetInduction
<1>. QED BY <1>3 DEF T

\* Two that make it alike.
MadeAlike(f, g, n) ==
  f[0] = g[0] /\ \A k \in 1..n : f[k - 1] = g[k - 1] => f[k] = g[k]

LEMMA RecursionSame ==
  ASSUME NEW n \in Nat, NEW f, NEW g, MadeAlike(f, g, n)
  PROVE  \A k \in 0..n : f[k] = g[k]
<1>. USE DEF MadeAlike
<1>. DEFINE T == {m \in Nat : m <= n => f[m] = g[m]}
<1>1. 0 \in T
  OBVIOUS
<1>2. ASSUME NEW m \in Nat, m \in T PROVE m + 1 \in T
  <2>. SUFFICES ASSUME m + 1 <= n PROVE f[m + 1] = g[m + 1]
    OBVIOUS
  <2>1. m + 1 \in 1..n /\ (m + 1) - 1 = m /\ f[m] = g[m]
    BY <1>2
  <2>. QED BY <2>1
<1>. HIDE DEF T
<1>3. \A m \in Nat : m \in T
  BY <1>1, <1>2, NatSetInduction
<1>. QED BY <1>3 DEF T

-----------------------------------------------------------------------------
(* The bodies among tokens. *)

\* What a here-document holds, and what delimiters wait: lists of lines.
Texts == Seq(Seq(Symbols))

\* The functions Bodies goes by.
BodiesGo(f, toks) ==
  /\ f[0] = <<>>
  /\ \A k \in 1..Len(toks) :
       f[k] = IF toks[k].type = "BODY" THEN Append(f[k - 1], toks[k].body) ELSE f[k - 1]

LEMMA BodiesAre ==
  ASSUME NEW toks \in Seq(Tokens)
  PROVE  \E f : /\ BodiesGo(f, toks) /\ Bodies(toks) = f[Len(toks)]
                /\ \A k \in 0..Len(toks) : f[k] \in Seq(Texts)
<1>1. PICK n \in Nat : n = Len(toks)
  OBVIOUS
<1>2. PICK S : S = Seq(Texts)
  OBVIOUS
<1>. DEFINE F(h) == [k \in 0..n |->
                       IF k = 0 THEN <<>>
                       ELSE IF toks[k].type = "BODY" THEN Append(h[k - 1], toks[k].body)
                       ELSE h[k - 1]]
            go == CHOOSE h : h = F(h)
<1>3. Bodies(toks) = go[n]
  BY <1>1 DEF Bodies
<1>4. <<>> \in S /\ \A v \in S, k \in 1..n : Append(v, toks[k].body) \in S
  <2>1. \A k \in 1..n : toks[k].body \in Texts
    BY <1>1, TokensDef DEF Tokens, Texts
  <2>. QED BY <1>2, <2>1
<1>5. PICK g \in [1..n -> [S -> S]] :
        \A v \in S, k \in 1..n :
          g[k][v] = IF toks[k].type = "BODY" THEN Append(v, toks[k].body) ELSE v
  <2>. DEFINE g == [k \in 1..n |-> [v \in S |->
                      IF toks[k].type = "BODY" THEN Append(v, toks[k].body) ELSE v]]
  <2>1. /\ g \in [1..n -> [S -> S]]
        /\ \A v \in S, k \in 1..n :
             g[k][v] = IF toks[k].type = "BODY" THEN Append(v, toks[k].body) ELSE v
    BY <1>4
  <2>. HIDE DEF g
  <2>. QED BY <2>1
<1>6. PICK f : Iterates(f, n, S, <<>>, g)
  BY <1>4, Recursion
<1>7. f = F(f)
  <2>1. ASSUME NEW k \in 1..n PROVE f[k] = F(f)[k]
    <3>1. k - 1 \in 0..n /\ k \in 0..n /\ k # 0
      OBVIOUS
    <3>2. f[k - 1] \in S /\ f[k] = g[k][f[k - 1]]
      BY <1>6, <3>1 DEF Iterates
    <3>. QED BY <1>5, <3>1, <3>2
  <2>2. f[0] = F(f)[0]
    BY <1>6 DEF Iterates
  <2>3. ASSUME NEW k \in 0..n PROVE f[k] = F(f)[k]
    <3>1. k = 0 \/ k \in 1..n
      OBVIOUS
    <3>. HIDE DEF F
    <3>. QED BY <2>1, <2>2, <3>1
  <2>4. f = [k \in 0..n |-> f[k]] /\ F(f) = [k \in 0..n |-> F(f)[k]]
    BY <1>6 DEF Iterates
  <2>. HIDE DEF F
  <2>. QED BY <2>3, <2>4
<1>8. go = F(go)
  <2>. HIDE DEF F
  <2>. QED BY <1>7
<1>. HIDE DEF go
<1>9. BodiesGo(go, toks)
  <2>1. \A k \in 0..n : F(go)[k] = IF k = 0 THEN <<>>
                       ELSE IF toks[k].type = "BODY" THEN Append(go[k - 1], toks[k].body)
                       ELSE go[k - 1]
    OBVIOUS
  <2>. HIDE DEF F
  <2>2. 0 \in 0..n /\ \A k \in 1..n : k \in 0..n /\ k # 0
    OBVIOUS
  <2>. QED BY <1>1, <1>8, <2>1, <2>2 DEF BodiesGo
<1>10. \A k \in 0..n : go[k] \in S
  <2>1. go[0] \in S /\ \A k \in 1..n : go[k - 1] \in S => go[k] \in S
    BY <1>1, <1>4, <1>9 DEF BodiesGo
  <2>. QED BY <2>1, RecursionType
<1>. QED BY <1>1, <1>2, <1>3, <1>9, <1>10

\* No tokens, one token more, and a list whose end holds no bodies.
LEMMA BodiesEmpty == Bodies(<<>>) = <<>>
<1>1. PICK f : BodiesGo(f, <<>>) /\ Bodies(<<>>) = f[0]
  BY BodiesAre, EmptySeq
<1>. QED BY <1>1 DEF BodiesGo

\* Bodies are lists of lines.
LEMMA BodiesType ==
  ASSUME NEW toks \in Seq(Tokens)
  PROVE  Bodies(toks) \in Seq(Texts)
BY BodiesAre, LenProperties

\* Tokens behind the last body do not matter.
LEMMA BodiesPrefix ==
  ASSUME NEW toks \in Seq(Tokens), NEW more \in Seq(Tokens), Len(toks) <= Len(more),
         \A k \in 1..Len(toks) : more[k].type = toks[k].type /\ more[k].body = toks[k].body,
         \A k \in (Len(toks) + 1)..Len(more) : more[k].type # "BODY"
  PROVE  Bodies(more) = Bodies(toks)
<1>1. PICK f : BodiesGo(f, toks) /\ Bodies(toks) = f[Len(toks)]
  BY BodiesAre
<1>2. PICK g : BodiesGo(g, more) /\ Bodies(more) = g[Len(more)]
  BY BodiesAre
<1>3. PICK n \in Nat : n = Len(toks)
  OBVIOUS
<1>4. PICK m \in Nat : m = Len(more)
  OBVIOUS
<1>5. PICK h : \A k \in 0..m : h[k] = IF k <= n THEN f[k] ELSE f[n]
  <2>. DEFINE h == [k \in 0..m |-> IF k <= n THEN f[k] ELSE f[n]]
  <2>1. \A k \in 0..m : h[k] = IF k <= n THEN f[k] ELSE f[n]
    OBVIOUS
  <2>. HIDE DEF h
  <2>. QED BY <2>1
<1>6. h[0] = g[0]
  BY <1>1, <1>2, <1>5 DEF BodiesGo
<1>7. ASSUME NEW k \in 1..m, h[k - 1] = g[k - 1] PROVE h[k] = g[k]
  <2>0. k - 1 \in 0..m /\ k \in 0..m
    OBVIOUS
  <2>1. g[k] = IF more[k].type = "BODY" THEN Append(g[k - 1], more[k].body) ELSE g[k - 1]
    BY <1>2, <1>4 DEF BodiesGo
  <2>2. CASE k <= n
    <3>1. f[k] = IF toks[k].type = "BODY" THEN Append(f[k - 1], toks[k].body) ELSE f[k - 1]
      BY <1>1, <1>3, <2>2 DEF BodiesGo
    <3>2. h[k] = f[k] /\ h[k - 1] = f[k - 1]
      BY <1>5, <2>0, <2>2
    <3>3. more[k].type = toks[k].type /\ more[k].body = toks[k].body
      BY <1>3, <2>2
    <3>. QED BY <1>7, <2>1, <3>1, <3>2, <3>3
  <2>3. CASE k > n
    <3>1. h[k] = f[n] /\ h[k - 1] = f[n]
      BY <1>5, <2>0, <2>3
    <3>2. more[k].type # "BODY"
      BY <1>3, <1>4, <2>3
    <3>. QED BY <1>7, <2>1, <3>1, <3>2
  <2>. QED BY <2>2, <2>3
<1>8. \A k \in 0..m : h[k] = g[k]
  <2>1. \A k \in 1..m : h[k - 1] = g[k - 1] => h[k] = g[k]
    BY <1>7
  <2>2. MadeAlike(h, g, m)
    BY <1>6, <2>1 DEF MadeAlike
  <2>. QED BY <2>2, RecursionSame
<1>9. h[m] = f[n]
  BY <1>3, <1>4, <1>5
<1>. QED BY <1>1, <1>2, <1>3, <1>4, <1>8, <1>9

\* A list that ends with a body.
LEMMA BodiesMore ==
  ASSUME NEW toks \in Seq(Tokens), NEW t \in Tokens, t.type = "BODY"
  PROVE  Bodies(Append(toks, t)) = Append(Bodies(toks), t.body)
<1>1. PICK f : BodiesGo(f, toks) /\ Bodies(toks) = f[Len(toks)]
  BY BodiesAre
<1>2. PICK more : more = Append(toks, t)
  OBVIOUS
<1>3. PICK n \in Nat : n = Len(toks)
  OBVIOUS
<1>4. more \in Seq(Tokens) /\ Len(more) = n + 1 /\ more[n + 1] = t
      /\ \A k \in 1..n : more[k] = toks[k]
  BY <1>2, <1>3, AppendProperties
<1>5. PICK g : BodiesGo(g, more) /\ Bodies(more) = g[n + 1]
  BY <1>4, BodiesAre
<1>6. \A k \in 0..n : f[k] = g[k]
  <2>1. f[0] = g[0]
    BY <1>1, <1>5 DEF BodiesGo
  <2>2. ASSUME NEW k \in 1..n, f[k - 1] = g[k - 1] PROVE f[k] = g[k]
    <3>1. k \in 1..(n + 1) /\ more[k] = toks[k]
      BY <1>4
    <3>. QED BY <1>1, <1>3, <1>4, <1>5, <2>2, <3>1 DEF BodiesGo
  <2>3. MadeAlike(f, g, n)
    BY <2>1, <2>2 DEF MadeAlike
  <2>. QED BY <2>3, RecursionSame
<1>7. g[n + 1] = Append(g[n], t.body)
  <2>1. n + 1 \in 1..(n + 1) /\ (n + 1) - 1 = n
    OBVIOUS
  <2>. QED BY <1>4, <1>5, <2>1 DEF BodiesGo
<1>. QED BY <1>1, <1>2, <1>3, <1>5, <1>6, <1>7

-----------------------------------------------------------------------------
(* The buffer without newlines.                                              *)

\* The functions Unbroken goes by.
UnbrokenGo(f, text) ==
  /\ f[0] = <<>>
  /\ \A k \in 1..Len(text) : f[k] = (IF text[k] = "\n" THEN f[k - 1] ELSE Append(f[k - 1], text[k]))

LEMMA UnbrokenAre ==
  ASSUME NEW text \in Seq(Symbols)
  PROVE  \E f : /\ UnbrokenGo(f, text) /\ Unbroken(text) = f[Len(text)]
                /\ \A k \in 0..Len(text) : f[k] \in Seq(Symbols)
<1>1. PICK n \in Nat : n = Len(text)
  OBVIOUS
<1>2. PICK S : S = Seq(Symbols)
  OBVIOUS
<1>. DEFINE F(h) == [k \in 0..n |-> IF k = 0 THEN <<>> ELSE (IF text[k] = "\n" THEN h[k - 1]
          ELSE Append(h[k - 1], text[k]))]
            go == CHOOSE h : h = F(h)
<1>3. Unbroken(text) = go[n]
  BY <1>1 DEF Unbroken
<1>4. <<>> \in S /\ \A v \in S, k \in 1..n : (IF text[k] = "\n" THEN v ELSE Append(v, text[k])) \in S
  <2>1. \A k \in 1..n : text[k] \in Symbols
    BY <1>1
  <2>. QED BY <1>2, <2>1
<1>5. PICK g \in [1..n -> [S -> S]] : \A v \in S, k \in 1..n : g[k][v] = (IF text[k] = "\n"
          THEN v ELSE Append(v, text[k]))
  <2>. DEFINE g == [k \in 1..n |-> [v \in S |-> (IF text[k] = "\n" THEN v ELSE Append(v, text[k]))]]
  <2>1. /\ g \in [1..n -> [S -> S]]
        /\ \A v \in S, k \in 1..n : g[k][v] = (IF text[k] = "\n" THEN v ELSE Append(v, text[k]))
    BY <1>4
  <2>. HIDE DEF g
  <2>. QED BY <2>1
<1>6. PICK f : Iterates(f, n, S, <<>>, g)
  BY <1>4, Recursion
<1>7. f = F(f)
  <2>1. ASSUME NEW k \in 1..n PROVE f[k] = F(f)[k]
    <3>1. k - 1 \in 0..n /\ k \in 0..n /\ k # 0
      OBVIOUS
    <3>2. f[k - 1] \in S /\ f[k] = g[k][f[k - 1]]
      BY <1>6, <3>1 DEF Iterates
    <3>. QED BY <1>5, <3>1, <3>2
  <2>2. f[0] = F(f)[0]
    BY <1>6 DEF Iterates
  <2>3. ASSUME NEW k \in 0..n PROVE f[k] = F(f)[k]
    <3>1. k = 0 \/ k \in 1..n
      OBVIOUS
    <3>. HIDE DEF F
    <3>. QED BY <2>1, <2>2, <3>1
  <2>4. f = [k \in 0..n |-> f[k]] /\ F(f) = [k \in 0..n |-> F(f)[k]]
    BY <1>6 DEF Iterates
  <2>. HIDE DEF F
  <2>. QED BY <2>3, <2>4
<1>8. go = F(go)
  <2>. HIDE DEF F
  <2>. QED BY <1>7
<1>. HIDE DEF go
<1>9. UnbrokenGo(go, text)
  <2>1. \A k \in 0..n : F(go)[k] = IF k = 0 THEN <<>> ELSE (IF text[k] = "\n" THEN go[k - 1]
            ELSE Append(go[k - 1], text[k]))
    OBVIOUS
  <2>. HIDE DEF F
  <2>2. 0 \in 0..n /\ \A k \in 1..n : k \in 0..n /\ k # 0
    OBVIOUS
  <2>. QED BY <1>1, <1>8, <2>1, <2>2 DEF UnbrokenGo
<1>10. \A k \in 0..n : go[k] \in S
  <2>1. go[0] \in S /\ \A k \in 1..n : go[k - 1] \in S => go[k] \in S
    BY <1>1, <1>4, <1>9 DEF UnbrokenGo
  <2>. QED BY <2>1, RecursionType
<1>. QED BY <1>1, <1>2, <1>3, <1>9, <1>10

\* No text, one symbol more, and a line.
LEMMA UnbrokenIs ==
  /\ Unbroken(<<>>) = <<>>
  /\ \A text \in Seq(Symbols) : Unbroken(text) \in Seq(Symbols)
<1>1. <<>> \in Seq(Symbols) /\ Len(<<>>) = 0
  OBVIOUS
<1>2. Unbroken(<<>>) = <<>>
  BY <1>1, UnbrokenAre DEF UnbrokenGo
<1>. QED BY <1>2, UnbrokenAre, LenProperties

\* A newline more is not seen; another symbol is.
LEMMA UnbrokenMore ==
  ASSUME NEW text \in Seq(Symbols), NEW c \in Symbols
  PROVE  Unbroken(Append(text, c)) = IF c = "\n" THEN Unbroken(text) ELSE Append(Unbroken(text), c)
<1>1. PICK f : UnbrokenGo(f, text) /\ Unbroken(text) = f[Len(text)]
  BY UnbrokenAre
<1>2. PICK more : more = Append(text, c)
  OBVIOUS
<1>3. PICK n \in Nat : n = Len(text)
  OBVIOUS
<1>4. more \in Seq(Symbols) /\ Len(more) = n + 1 /\ more[n + 1] = c
      /\ \A k \in 1..n : more[k] = text[k]
  BY <1>2, <1>3, AppendProperties
<1>5. PICK g : UnbrokenGo(g, more) /\ Unbroken(more) = g[n + 1]
  BY <1>4, UnbrokenAre
<1>6. \A k \in 0..n : f[k] = g[k]
  <2>1. f[0] = g[0]
    BY <1>1, <1>5 DEF UnbrokenGo
  <2>2. ASSUME NEW k \in 1..n, f[k - 1] = g[k - 1] PROVE f[k] = g[k]
    <3>1. k \in 1..(n + 1) /\ more[k] = text[k]
      BY <1>4
    <3>. QED BY <1>1, <1>3, <1>4, <1>5, <2>2, <3>1 DEF UnbrokenGo
  <2>3. MadeAlike(f, g, n)
    BY <2>1, <2>2 DEF MadeAlike
  <2>. QED BY <2>3, RecursionSame
<1>7. g[n + 1] = IF c = "\n" THEN g[n] ELSE Append(g[n], c)
  <2>1. n + 1 \in 1..(n + 1) /\ (n + 1) - 1 = n
    OBVIOUS
  <2>. QED BY <1>4, <1>5, <2>1 DEF UnbrokenGo
<1>. QED BY <1>1, <1>2, <1>3, <1>5, <1>6, <1>7

\* A line without newlines goes behind.
LEMMA UnbrokenLine ==
  ASSUME NEW text \in Seq(Symbols), NEW l \in Seq(Symbols), \A k \in 1..Len(l) : l[k] # "\n"
  PROVE  Unbroken(text \o l) = Unbroken(text) \o l
<1>1. PICK n \in Nat : n = Len(l)
  OBVIOUS
<1>. DEFINE Upto(m) == SubSeq(l, 1, m)
            T == {m \in Nat : m <= n => Unbroken(text \o Upto(m)) = Unbroken(text) \o Upto(m)}
<1>2. Unbroken(text) \in Seq(Symbols)
  BY UnbrokenIs
<1>3. 0 \in T
  <2>1. Upto(0) = <<>>
    OBVIOUS
  <2>2. text \o <<>> = text /\ Unbroken(text) \o <<>> = Unbroken(text)
    BY <1>2, ConcatEmptySeq
  <2>. HIDE DEF Upto
  <2>. QED BY <2>1, <2>2
<1>4. ASSUME NEW m \in Nat, m \in T PROVE m + 1 \in T
  <2>. SUFFICES ASSUME m + 1 <= n
                PROVE  Unbroken(text \o Upto(m + 1)) = Unbroken(text) \o Upto(m + 1)
    OBVIOUS
  <2>1. PICK s \in Seq(Symbols) : s = Upto(m)
    <3>1. \A i \in 1..m : l[i] \in Symbols
      BY <1>1
    <3>2. SubSeq(l, 1, m) \in Seq(Symbols)
      BY <3>1, SubSeqProperties
    <3>. QED BY <3>2
  <2>2. PICK c \in Symbols : c = l[m + 1]
    BY <1>1
  <2>3. Upto(m + 1) = Append(s, c)
    BY <1>1, <2>1, <2>2
  <2>4. Unbroken(text \o s) = Unbroken(text) \o s
    BY <1>4, <2>1
  <2>5. c # "\n"
    BY <1>1, <2>2
  <2>. HIDE DEF Upto
  <2>6. text \o s \in Seq(Symbols) /\ text \o Append(s, c) = Append(text \o s, c)
    OBVIOUS
  <2>7. Unbroken(text) \o Append(s, c) = Append(Unbroken(text) \o s, c)
    BY <1>2
  <2>. QED BY <2>3, <2>4, <2>5, <2>6, <2>7, UnbrokenMore
<1>5. Upto(n) = l
  BY <1>1
<1>. HIDE DEF T
<1>6. n \in T
  BY <1>3, <1>4, NatSetInduction
<1>7. Unbroken(text \o Upto(n)) = Unbroken(text) \o Upto(n)
  BY <1>6 DEF T
<1>. HIDE DEF Upto
<1>. QED BY <1>5, <1>7

-----------------------------------------------------------------------------
(* Lines: quotes, words, and the delimiters they ask for.                    *)

\* The least of some numbers.
LEMMA Least ==
  ASSUME NEW T, T \subseteq Nat, T # {}
  PROVE  \E m \in T : \A k \in T : m <= k
<1>. DEFINE less == OpToRel(<, Nat)
<1>1. IsWellFoundedOn(less, Nat)
  BY NatLessThanWellFounded
<1>. HIDE DEF less
<1>2. PICK m \in T : \A k \in T : <<k, m>> \notin less
  BY <1>1, WFMin
<1>. USE DEF less
<1>3. \A k \in T : ~(k < m)
  <2>. TAKE k \in T
  <2>1. k \in Nat /\ m \in Nat /\ <<k, m>> \notin less
    BY <1>2
  <2>. QED BY <2>1 DEF OpToRel
<1>. HIDE DEF less
<1>. QED BY <1>3

\* The only quote of the lines.
LEMMA DoubleQuoteIs ==
  /\ DoubleQuote \in Quotes /\ DoubleQuote \in Modes /\ DoubleQuote \in Symbols
  /\ DoubleQuote \notin Plain /\ DoubleQuote \notin Blanks /\ DoubleQuote \notin Operators
  /\ DoubleQuote # "lex" /\ DoubleQuote # "word" /\ DoubleQuote # "\n" /\ DoubleQuote # "\\"
  /\ DoubleQuote # " " /\ DoubleQuote # "<<"
BY DEF DoubleQuote, Quotes, Modes, Symbols, Plain, Blanks, Operators, CtrlOps, Redirs, Parens

\* Quotes come in pairs.
LEMMA QuotedNone == ~Quoted(<<>>)
<1>1. {k \in 1..Len(<<>>) : <<>>[k] = DoubleQuote} = {}
  OBVIOUS
<1>. QED BY <1>1, FS_EmptySet DEF Quoted, DoubleQuote

\* A quote opens or closes; nothing else does.
LEMMA QuotedMore ==
  ASSUME NEW s \in Seq(Symbols), NEW c \in Symbols
  PROVE  Quoted(Append(s, c)) <=> (IF c = DoubleQuote THEN ~Quoted(s) ELSE Quoted(s))
<1>. DEFINE A(t) == {k \in 1..Len(t) : t[k] = DoubleQuote}
<1>1. PICK n \in Nat : n = Len(s)
  OBVIOUS
<1>2. PICK more : more = Append(s, c)
  OBVIOUS
<1>3. Len(more) = n + 1 /\ more[n + 1] = c /\ \A k \in 1..n : more[k] = s[k]
  BY <1>1, <1>2, AppendProperties
<1>4. PICK old : old = A(s)
  OBVIOUS
<1>5. PICK new : new = A(more)
  OBVIOUS
<1>6. \A k : k \in old <=> k \in 1..n /\ s[k] = DoubleQuote
  BY <1>1, <1>4
<1>7. \A k : k \in new <=> k \in 1..(n + 1) /\ more[k] = DoubleQuote
  BY <1>3, <1>5
<1>8. Quoted(s) <=> Cardinality(old) % 2 = 1
  BY <1>4 DEF Quoted, DoubleQuote
<1>9. Quoted(more) <=> Cardinality(new) % 2 = 1
  BY <1>5 DEF Quoted, DoubleQuote
<1>. HIDE DEF A
<1>10. IsFiniteSet(old) /\ n + 1 \notin old
  <2>1. IsFiniteSet(1..n)
    BY FS_Interval
  <2>2. old \subseteq 1..n
    BY <1>6
  <2>3. IsFiniteSet(old)
    BY <2>1, <2>2, FS_Subset
  <2>4. n + 1 \notin 1..n
    OBVIOUS
  <2>. QED BY <1>6, <2>3, <2>4
<1>11. Cardinality(old) \in Nat
  BY <1>10, FS_CardinalityType
<1>12. CASE c = DoubleQuote
  <2>1. ASSUME NEW k PROVE k \in new <=> k \in old \cup {n + 1}
    <3>1. k \in 1..(n + 1) <=> k \in 1..n \/ k = n + 1
      OBVIOUS
    <3>. QED BY <1>3, <1>6, <1>7, <1>12, <3>1
  <2>2. new = old \cup {n + 1}
    BY <2>1
  <2>3. Cardinality(new) = Cardinality(old) + 1
    BY <1>10, <2>2, FS_AddElement
  <2>4. (Cardinality(old) + 1) % 2 = 1 <=> ~(Cardinality(old) % 2 = 1)
    BY <1>11
  <2>. QED BY <1>2, <1>8, <1>9, <1>12, <2>3, <2>4
<1>13. CASE c # DoubleQuote
  <2>1. ASSUME NEW k PROVE k \in new <=> k \in old
    <3>1. k \in 1..(n + 1) <=> k \in 1..n \/ k = n + 1
      OBVIOUS
    <3>. QED BY <1>3, <1>6, <1>7, <1>13, <3>1
  <2>2. new = old
    BY <2>1
  <2>. QED BY <1>2, <1>8, <1>9, <1>13, <2>2
<1>. QED BY <1>12, <1>13

\* Where the word behind a position ends.
WordEnds(l, k, e) ==
  /\ e \in k..Len(l) /\ \A j \in (k + 1)..e : l[j] \in Plain
  /\ e < Len(l) => l[e + 1] \notin Plain

\* There is an end, and the word is what is before it.
LEMMA WordEnd ==
  ASSUME NEW l \in Seq(Symbols), NEW k \in 0..Len(l)
  PROVE  \E e : WordEnds(l, k, e)
<1>. DEFINE T == {e \in k..Len(l) : e = Len(l) \/ l[e + 1] \notin Plain}
<1>1. Len(l) \in T /\ T \subseteq Nat
  OBVIOUS
<1>2. PICK e \in T : \A f \in T : e <= f
  BY <1>1, Least
<1>3. ASSUME NEW j \in (k + 1)..e PROVE l[j] \in Plain
  <2>1. j - 1 \in k..Len(l) /\ j - 1 < e /\ (j - 1) + 1 = j
    BY <1>2
  <2>2. j - 1 \notin T
    <3>. SUFFICES ASSUME j - 1 \in T PROVE FALSE
      OBVIOUS
    <3>1. e <= j - 1
      BY <1>2
    <3>2. e \in Nat /\ j - 1 \in Int
      BY <1>1, <1>2
    <3>. QED BY <2>1, <3>1, <3>2
  <2>. QED BY <2>1, <2>2
<1>4. WordEnds(l, k, e)
  BY <1>2, <1>3 DEF WordEnds
<1>. QED BY <1>4

LEMMA WordAtIs ==
  ASSUME NEW l \in Seq(Symbols), NEW k \in 0..Len(l), NEW e, WordEnds(l, k, e)
  PROVE  WordAt(l, k) = SubSeq(l, k + 1, e)
<1>. DEFINE ends == {f \in k..Len(l) : \A j \in (k + 1)..f : l[j] \in Plain}
<1>1. e \in ends /\ e \in Nat
  BY DEF WordEnds
<1>2. ASSUME NEW f \in ends PROVE f <= e
  <2>1. CASE f > e
    <3>1. e + 1 \in (k + 1)..f /\ e < Len(l)
      BY <1>1, <2>1
    <3>2. l[e + 1] \in Plain
      BY <3>1
    <3>. QED BY <3>1, <3>2 DEF WordEnds
  <2>. QED BY <1>1, <2>1
<1>3. \A g \in ends : (\A f \in ends : f <= g) => g = e
  BY <1>1, <1>2
<1>4. WordAt(l, k) = SubSeq(l, k + 1, CHOOSE g \in ends : \A f \in ends : f <= g)
  BY DEF WordAt
<1>. HIDE DEF ends
<1>5. (CHOOSE g \in ends : \A f \in ends : f <= g) = e
  BY <1>1, <1>2, <1>3
<1>. QED BY <1>4, <1>5

\* A word of a line is text.
LEMMA WordAtType ==
  ASSUME NEW l \in Seq(Symbols), NEW k \in 0..Len(l)
  PROVE  WordAt(l, k) \in Seq(Symbols)
<1>1. PICK e : WordEnds(l, k, e)
  BY WordEnd
<1>2. e \in Int /\ k + 1 \in Int /\ \A i \in (k + 1)..e : l[i] \in Symbols
  BY <1>1 DEF WordEnds
<1>3. SubSeq(l, k + 1, e) \in Seq(Symbols)
  BY <1>2, SubSeqProperties
<1>. QED BY <1>1, <1>3, WordAtIs

\* It begins with the next symbol, if that is part of a word.
LEMMA WordAtNext ==
  ASSUME NEW l \in Seq(Symbols), NEW k \in 0..Len(l)
  PROVE  WordAt(l, k) = IF k < Len(l) /\ l[k + 1] \in Plain
                        THEN <<l[k + 1]>> \o WordAt(l, k + 1) ELSE <<>>
<1>1. PICK e : WordEnds(l, k, e)
  BY WordEnd
<1>2. WordAt(l, k) = SubSeq(l, k + 1, e) /\ e \in k..Len(l)
  BY <1>1, WordAtIs DEF WordEnds
<1>3. CASE k < Len(l) /\ l[k + 1] \in Plain
  <2>1. e # k
    BY <1>1, <1>3 DEF WordEnds
  <2>2. k + 1 \in 0..Len(l) /\ e \in (k + 1)..Len(l) /\ k + 1 \in 1..Len(l)
    BY <1>2, <1>3, <2>1
  <2>3. WordEnds(l, k + 1, e)
    BY <1>1, <2>2 DEF WordEnds
  <2>4. WordAt(l, k + 1) = SubSeq(l, (k + 1) + 1, e)
    BY <2>2, <2>3, WordAtIs
  <2>5. SubSeq(l, k + 1, e) = <<l[k + 1]>> \o SubSeq(l, (k + 1) + 1, e)
    BY <2>2, SubSeqRecursiveFirst
  <2>. QED BY <1>2, <1>3, <2>4, <2>5
<1>4. CASE ~(k < Len(l) /\ l[k + 1] \in Plain)
  <2>1. e = k
    <3>1. CASE e > k
      <4>1. k + 1 \in (k + 1)..e
        BY <1>2, <3>1
      <4>2. l[k + 1] \in Plain /\ k < Len(l)
        BY <1>1, <1>2, <3>1, <4>1 DEF WordEnds
      <4>. QED BY <1>4, <4>2
    <3>. QED BY <1>2, <3>1
  <2>2. SubSeq(l, k + 1, k) = <<>>
    BY SubSeqEmpty
  <2>. QED BY <1>2, <1>4, <2>1, <2>2
<1>. QED BY <1>3, <1>4

\* A redirection outside of quotes asks for a here-document.
Asks(before, l, k) == l[k] = "<<" /\ ~Quoted(before \o SubSeq(l, 1, k))

\* The functions Asked goes by.
AskedGo(f, before, l, n) ==
  /\ f[0] = <<>>
  /\ \A k \in 1..n : f[k] = (IF Asks(before, l, k) THEN Append(f[k - 1], WordAt(l, k)) ELSE f[k - 1])

LEMMA AskedAre ==
  ASSUME NEW before, NEW l \in Seq(Symbols), NEW n \in 0..Len(l)
  PROVE  \E f : /\ AskedGo(f, before, l, n) /\ Asked(before, l, n) = f[n]
                /\ \A k \in 0..n : f[k] \in Texts
<1>1. n \in Nat
  OBVIOUS
<1>2. PICK S : S = Texts
  OBVIOUS
<1>. DEFINE F(h) == [k \in 0..n |-> IF k = 0 THEN <<>>
          ELSE (IF Asks(before, l, k) THEN Append(h[k - 1], WordAt(l, k)) ELSE h[k - 1])]
            go == CHOOSE h : h = F(h)
<1>3. Asked(before, l, n) = go[n]
  BY <1>1 DEF Asked, Asks
<1>4. <<>> \in S /\ \A v \in S, k \in 1..n : (IF Asks(before, l, k)
          THEN Append(v, WordAt(l, k)) ELSE v) \in S
  <2>1. \A k \in 1..n : WordAt(l, k) \in Seq(Symbols)
    BY <1>1, WordAtType
  <2>. QED BY <1>2, <2>1 DEF Texts
<1>5. PICK g \in [1..n -> [S -> S]] : \A v \in S, k \in 1..n :
          g[k][v] = (IF Asks(before, l, k) THEN Append(v, WordAt(l, k)) ELSE v)
  <2>. DEFINE g == [k \in 1..n |-> [v \in S |-> (IF Asks(before, l, k)
            THEN Append(v, WordAt(l, k)) ELSE v)]]
  <2>1. /\ g \in [1..n -> [S -> S]]
        /\ \A v \in S, k \in 1..n : g[k][v] = (IF Asks(before, l, k) THEN Append(v, WordAt(l, k)) ELSE v)
    BY <1>4
  <2>. HIDE DEF g
  <2>. QED BY <2>1
<1>6. PICK f : Iterates(f, n, S, <<>>, g)
  BY <1>4, Recursion
<1>7. f = F(f)
  <2>1. ASSUME NEW k \in 1..n PROVE f[k] = F(f)[k]
    <3>1. k - 1 \in 0..n /\ k \in 0..n /\ k # 0
      OBVIOUS
    <3>2. f[k - 1] \in S /\ f[k] = g[k][f[k - 1]]
      BY <1>6, <3>1 DEF Iterates
    <3>. QED BY <1>5, <3>1, <3>2
  <2>2. f[0] = F(f)[0]
    BY <1>6 DEF Iterates
  <2>3. ASSUME NEW k \in 0..n PROVE f[k] = F(f)[k]
    <3>1. k = 0 \/ k \in 1..n
      OBVIOUS
    <3>. HIDE DEF F
    <3>. QED BY <2>1, <2>2, <3>1
  <2>4. f = [k \in 0..n |-> f[k]] /\ F(f) = [k \in 0..n |-> F(f)[k]]
    BY <1>6 DEF Iterates
  <2>. HIDE DEF F
  <2>. QED BY <2>3, <2>4
<1>8. go = F(go)
  <2>. HIDE DEF F
  <2>. QED BY <1>7
<1>. HIDE DEF go
<1>9. AskedGo(go, before, l, n)
  <2>1. \A k \in 0..n : F(go)[k] = IF k = 0 THEN <<>>
            ELSE (IF Asks(before, l, k) THEN Append(go[k - 1], WordAt(l, k)) ELSE go[k - 1])
    OBVIOUS
  <2>. HIDE DEF F
  <2>2. 0 \in 0..n /\ \A k \in 1..n : k \in 0..n /\ k # 0
    OBVIOUS
  <2>. QED BY <1>1, <1>8, <2>1, <2>2 DEF AskedGo
<1>10. \A k \in 0..n : go[k] \in S
  <2>1. go[0] \in S /\ \A k \in 1..n : go[k - 1] \in S => go[k] \in S
    BY <1>1, <1>4, <1>9 DEF AskedGo
  <2>2. PICK m \in Nat : m = n
    BY <1>1
  <2>3. \A k \in 0..m : go[k] \in S
    BY <2>1, <2>2, RecursionType
  <2>. QED BY <2>2, <2>3
<1>. QED BY <1>1, <1>2, <1>3, <1>9, <1>10

\* None, and one symbol more.
LEMMA AskedIs ==
  ASSUME NEW before, NEW l \in Seq(Symbols)
  PROVE  /\ Asked(before, l, 0) = <<>>
         /\ \A n \in 0..Len(l) : Asked(before, l, n) \in Texts
<1>1. PICK z \in 0..Len(l) : z = 0
  OBVIOUS
<1>2. Asked(before, l, 0) = <<>>
  <2>1. PICK f : AskedGo(f, before, l, z) /\ Asked(before, l, z) = f[z]
    BY AskedAre
  <2>. QED BY <1>1, <2>1 DEF AskedGo
<1>3. ASSUME NEW n \in 0..Len(l) PROVE Asked(before, l, n) \in Texts
  <2>1. n \in 0..n
    OBVIOUS
  <2>. QED BY <2>1, AskedAre
<1>. QED BY <1>2, <1>3

\* A symbol more asks for a here-document or does not.
LEMMA AskedMore ==
  ASSUME NEW before, NEW l \in Seq(Symbols), NEW n \in Nat, n < Len(l)
  PROVE  Asked(before, l, n + 1) =
           IF Asks(before, l, n + 1) THEN Append(Asked(before, l, n), WordAt(l, n + 1))
           ELSE Asked(before, l, n)
<1>1. n \in 0..Len(l) /\ n + 1 \in 0..Len(l)
  OBVIOUS
<1>2. PICK f : AskedGo(f, before, l, n) /\ Asked(before, l, n) = f[n]
  BY <1>1, AskedAre
<1>3. PICK g : AskedGo(g, before, l, n + 1) /\ Asked(before, l, n + 1) = g[n + 1]
  BY <1>1, AskedAre
<1>4. \A k \in 0..n : f[k] = g[k]
  <2>1. f[0] = g[0]
    BY <1>2, <1>3 DEF AskedGo
  <2>2. ASSUME NEW k \in 1..n, f[k - 1] = g[k - 1] PROVE f[k] = g[k]
    <3>1. k \in 1..(n + 1)
      OBVIOUS
    <3>. QED BY <1>2, <1>3, <2>2, <3>1 DEF AskedGo
  <2>3. MadeAlike(f, g, n)
    BY <2>1, <2>2 DEF MadeAlike
  <2>. QED BY <2>3, RecursionSame
<1>5. g[n + 1] = IF Asks(before, l, n + 1) THEN Append(g[n], WordAt(l, n + 1)) ELSE g[n]
  <2>1. n + 1 \in 1..(n + 1) /\ (n + 1) - 1 = n
    OBVIOUS
  <2>. QED BY <1>3, <2>1 DEF AskedGo
<1>. QED BY <1>2, <1>3, <1>4, <1>5

-----------------------------------------------------------------------------
(* The lines, as they are split.                                             *)

\* What they are split into.
Splits == [command : Seq(Symbols), wanted : Texts, bodies : Seq(Texts)]
Nothing == [command |-> <<>>, wanted |-> <<>>, bodies |-> <<>>]

\* A line adds to the command, or ends a body or is one of its lines.
LEMMA EmptiesType ==
  ASSUME NEW n \in Nat
  PROVE  /\ Empties(n) \in Seq(Texts) /\ Len(Empties(n)) = n
         /\ \A k \in 1..n : Empties(n)[k] = <<>>
<1>1. <<>> \in Texts
  BY DEF Texts
<1>. QED BY <1>1 DEF Empties

\* A line more leaves a split.
LEMMA SplitLineType ==
  ASSUME NEW r \in Splits, NEW l \in Seq(Symbols)
  PROVE  SplitLine(r, l) \in Splits
<1>. DEFINE open == Len(r.bodies) - Len(r.wanted) + 1
            asks == Asked(r.command, l, Len(l))
<1>1. /\ r = [command |-> r.command, wanted |-> r.wanted, bodies |-> r.bodies]
      /\ r.command \in Seq(Symbols) /\ r.wanted \in Texts /\ r.bodies \in Seq(Texts)
  BY DEF Splits
<1>2. CASE r.wanted = <<>>
  <2>1. asks \in Texts
    <3>1. Len(l) \in 0..Len(l)
      OBVIOUS
    <3>. QED BY <3>1, AskedIs
  <2>. HIDE DEF asks
  <2>2. Empties(Len(asks)) \in Seq(Texts)
    BY <2>1, EmptiesType DEF Texts
  <2>3. r.command \o l \in Seq(Symbols) /\ r.bodies \o Empties(Len(asks)) \in Seq(Texts)
    BY <1>1, <2>2
  <2>4. SplitLine(r, l) = [command |-> r.command \o l, wanted |-> asks,
                           bodies |-> r.bodies \o Empties(Len(asks))]
    BY <1>2 DEF SplitLine, asks
  <2>. QED BY <2>1, <2>3, <2>4 DEF Splits
<1>3. CASE r.wanted # <<>> /\ l = Head(r.wanted)
  <2>1. Tail(r.wanted) \in Texts
    BY <1>1, <1>3 DEF Texts
  <2>2. SplitLine(r, l) = [r EXCEPT !.wanted = Tail(r.wanted)]
    BY <1>3 DEF SplitLine
  <2>. QED BY <1>1, <2>1, <2>2 DEF Splits
<1>4. CASE r.wanted # <<>> /\ l # Head(r.wanted)
  <2>1. SplitLine(r, l) = [r EXCEPT !.bodies = [r.bodies EXCEPT ![open] = Append(r.bodies[open], l)]]
    BY <1>4 DEF SplitLine
  <2>2. [r.bodies EXCEPT ![open] = Append(r.bodies[open], l)] \in Seq(Texts)
    <3>1. CASE open \in 1..Len(r.bodies)
      <4>1. r.bodies[open] \in Texts
        BY <1>1, <3>1
      <4>2. Append(r.bodies[open], l) \in Texts
        <5>1. PICK old \in Texts : old = r.bodies[open]
          BY <4>1
        <5>2. Append(old, l) \in Texts
          BY DEF Texts
        <5>. QED BY <5>1, <5>2
      <4>. QED BY <1>1, <3>1, <4>2
    <3>2. CASE open \notin 1..Len(r.bodies)
      <4>1. DOMAIN r.bodies = 1..Len(r.bodies)
        BY <1>1
      <4>2. [r.bodies EXCEPT ![open] = Append(r.bodies[open], l)] = r.bodies
        BY <1>1, <3>2, <4>1
      <4>. QED BY <1>1, <4>2
    <3>. QED BY <3>1, <3>2
  <2>. QED BY <1>1, <2>1, <2>2 DEF Splits
<1>. QED BY <1>2, <1>3, <1>4

\* The functions Split goes by.
SplitGo(f, lines) ==
  /\ f[0] = Nothing
  /\ \A k \in 1..Len(lines) : f[k] = (SplitLine(f[k - 1], lines[k]))

LEMMA SplitAre ==
  ASSUME NEW lines \in Texts
  PROVE  \E f : /\ SplitGo(f, lines) /\ Split(lines) = f[Len(lines)]
                /\ \A k \in 0..Len(lines) : f[k] \in Splits
<1>1. PICK n \in Nat : n = Len(lines)
  BY DEF Texts
<1>2. PICK S : S = Splits
  OBVIOUS
<1>. DEFINE F(h) == [k \in 0..n |-> IF k = 0 THEN Nothing ELSE (SplitLine(h[k - 1], lines[k]))]
            go == CHOOSE h : h = F(h)
<1>3. Split(lines) = go[n]
  BY <1>1 DEF Split, Nothing
<1>4. Nothing \in S /\ \A v \in S, k \in 1..n : (SplitLine(v, lines[k])) \in S
  <2>1. \A k \in 1..n : lines[k] \in Seq(Symbols)
    BY <1>1 DEF Texts
  <2>2. Nothing \in Splits
    BY DEF Nothing, Splits, Texts
  <2>. QED BY <1>2, <2>1, <2>2, SplitLineType
<1>5. PICK g \in [1..n -> [S -> S]] : \A v \in S, k \in 1..n : g[k][v] = (SplitLine(v, lines[k]))
  <2>. DEFINE g == [k \in 1..n |-> [v \in S |-> (SplitLine(v, lines[k]))]]
  <2>1. /\ g \in [1..n -> [S -> S]]
        /\ \A v \in S, k \in 1..n : g[k][v] = (SplitLine(v, lines[k]))
    BY <1>4
  <2>. HIDE DEF g
  <2>. QED BY <2>1
<1>6. PICK f : Iterates(f, n, S, Nothing, g)
  BY <1>4, Recursion
<1>7. f = F(f)
  <2>1. ASSUME NEW k \in 1..n PROVE f[k] = F(f)[k]
    <3>1. k - 1 \in 0..n /\ k \in 0..n /\ k # 0
      OBVIOUS
    <3>2. f[k - 1] \in S /\ f[k] = g[k][f[k - 1]]
      BY <1>6, <3>1 DEF Iterates
    <3>. QED BY <1>5, <3>1, <3>2
  <2>2. f[0] = F(f)[0]
    BY <1>6 DEF Iterates
  <2>3. ASSUME NEW k \in 0..n PROVE f[k] = F(f)[k]
    <3>1. k = 0 \/ k \in 1..n
      OBVIOUS
    <3>. HIDE DEF F
    <3>. QED BY <2>1, <2>2, <3>1
  <2>4. f = [k \in 0..n |-> f[k]] /\ F(f) = [k \in 0..n |-> F(f)[k]]
    BY <1>6 DEF Iterates
  <2>. HIDE DEF F
  <2>. QED BY <2>3, <2>4
<1>8. go = F(go)
  <2>. HIDE DEF F
  <2>. QED BY <1>7
<1>. HIDE DEF go
<1>9. SplitGo(go, lines)
  <2>1. \A k \in 0..n : F(go)[k] = IF k = 0 THEN Nothing ELSE (SplitLine(go[k - 1], lines[k]))
    OBVIOUS
  <2>. HIDE DEF F
  <2>2. 0 \in 0..n /\ \A k \in 1..n : k \in 0..n /\ k # 0
    OBVIOUS
  <2>. QED BY <1>1, <1>8, <2>1, <2>2 DEF SplitGo
<1>10. \A k \in 0..n : go[k] \in S
  <2>1. go[0] \in S /\ \A k \in 1..n : go[k - 1] \in S => go[k] \in S
    BY <1>1, <1>4, <1>9 DEF SplitGo
  <2>2. PICK m \in Nat : m = n
    BY <1>1
  <2>3. \A k \in 0..m : go[k] \in S
    BY <2>1, <2>2, RecursionType
  <2>. QED BY <2>2, <2>3
<1>. QED BY <1>1, <1>2, <1>3, <1>9, <1>10

\* No lines, and one more.
LEMMA SplitIs ==
  /\ Split(<<>>) = Nothing
  /\ \A lines \in Texts : Split(lines) \in Splits
<1>1. PICK none \in Texts : none = <<>> /\ Len(none) = 0
  <2>1. <<>> \in Texts /\ Len(<<>>) = 0
    BY DEF Texts
  <2>. QED BY <2>1
<1>2. Split(<<>>) = Nothing
  <2>1. PICK f : SplitGo(f, none) /\ Split(none) = f[0]
    BY <1>1, SplitAre
  <2>. QED BY <1>1, <2>1 DEF SplitGo
<1>3. ASSUME NEW lines \in Texts PROVE Split(lines) \in Splits
  <2>1. Len(lines) \in 0..Len(lines)
    BY DEF Texts
  <2>. QED BY <2>1, SplitAre
<1>. QED BY <1>2, <1>3

\* A line more is one more step of SplitLine.
LEMMA SplitMore ==
  ASSUME NEW lines \in Texts, NEW l \in Seq(Symbols)
  PROVE  Split(Append(lines, l)) = SplitLine(Split(lines), l)
<1>1. PICK f : SplitGo(f, lines) /\ Split(lines) = f[Len(lines)]
  BY SplitAre
<1>2. PICK more : more = Append(lines, l)
  OBVIOUS
<1>3. PICK n \in Nat : n = Len(lines)
  BY DEF Texts
<1>4. more \in Texts /\ Len(more) = n + 1 /\ more[n + 1] = l
      /\ \A k \in 1..n : more[k] = lines[k]
  BY <1>2, <1>3, AppendProperties DEF Texts
<1>5. PICK g : SplitGo(g, more) /\ Split(more) = g[n + 1]
  BY <1>4, SplitAre
<1>6. \A k \in 0..n : f[k] = g[k]
  <2>1. f[0] = g[0]
    BY <1>1, <1>5 DEF SplitGo
  <2>2. ASSUME NEW k \in 1..n, f[k - 1] = g[k - 1] PROVE f[k] = g[k]
    <3>1. k \in 1..(n + 1) /\ more[k] = lines[k]
      BY <1>4
    <3>. QED BY <1>1, <1>3, <1>4, <1>5, <2>2, <3>1 DEF SplitGo
  <2>3. MadeAlike(f, g, n)
    BY <2>1, <2>2 DEF MadeAlike
  <2>. QED BY <2>3, RecursionSame
<1>7. g[n + 1] = SplitLine(g[n], l)
  <2>1. n + 1 \in 1..(n + 1) /\ (n + 1) - 1 = n
    OBVIOUS
  <2>. QED BY <1>4, <1>5, <2>1 DEF SplitGo
<1>. QED BY <1>1, <1>2, <1>3, <1>5, <1>6, <1>7

-----------------------------------------------------------------------------
(* One symbol, between words, in a word or in a double quote.                *)

\* The redirections a chunk holds are counted when they are emitted.
LEMMA CountKept ==
  ASSUME NEW x, Good(x)
  PROVE  /\ \A m \in Modes : In(x, m).hd = x.hd
         /\ Advance(x).hd = x.hd /\ RemOpContext(x).hd = x.hd
         /\ RemSubContext(x).hd = x.hd /\ LeaveQuote(x).hd = x.hd
         /\ \A c \in Contexts : AddContext(x, c).hd = x.hd
         /\ CloseTmpPart(x).hd = x.hd /\ WordEmit(x).hd = x.hd
         /\ \A t \in PartTypes : TempPartCreate(x, t).hd = x.hd
         /\ \A t \in TokTypes : Emit(x, t).hd = IF t = "<<" THEN x.hd + 1 ELSE x.hd
<1>1. x \in Lexers
  BY DEF Good
<1>2. \A y \in Lexers : /\ \A v : [y EXCEPT !.mode = v].hd = y.hd
                        /\ \A v : [y EXCEPT !.pos = v].hd = y.hd
                        /\ \A v : [y EXCEPT !.ctxs = v].hd = y.hd
                        /\ \A v : [y EXCEPT !.tmp = v].hd = y.hd
                        /\ \A v, w : [y EXCEPT !.toks = v, !.tmp = w].hd = y.hd
                        /\ \A v, w : [y EXCEPT !.toks = v, !.hd = w].hd = w
  BY DEF Lexers
<1>3. \A m \in Modes : In(x, m).hd = x.hd
  BY <1>1, <1>2 DEF In
<1>4. Advance(x).hd = x.hd
  BY <1>1, <1>2 DEF Advance
<1>5. RemOpContext(x).hd = x.hd
  BY <1>1, <1>2 DEF RemOpContext
<1>6. RemSubContext(x).hd = x.hd
  BY <1>1, <1>2 DEF RemSubContext
<1>7. \A c \in Contexts : AddContext(x, c).hd = x.hd
  BY <1>1, <1>2 DEF AddContext
<1>8. CloseTmpPart(x).hd = x.hd
  BY <1>1, <1>2 DEF CloseTmpPart
<1>9. WordEmit(x).hd = x.hd
  BY <1>1, <1>2 DEF WordEmit
<1>10. \A t \in PartTypes : TempPartCreate(x, t).hd = x.hd
  BY <1>1, <1>2 DEF TempPartCreate
<1>11. \A t \in TokTypes : Emit(x, t).hd = IF t = "<<" THEN x.hd + 1 ELSE x.hd
  BY <1>1, <1>2 DEF Emit
<1>12. LeaveQuote(x).hd = x.hd
  <2>1. PICK closed : closed = CloseTmpPart(x)
    OBVIOUS
  <2>2. closed \in Lexers
    BY <2>1, CloseTmpPartGood DEF GoodAt, Good
  <2>3. PICK adv : adv = Advance(closed)
    OBVIOUS
  <2>4. adv \in Lexers /\ adv.hd = closed.hd
    BY <1>2, <2>1, <2>2, <2>3, CloseTmpPartGood, AdvanceGood DEF GoodAt, Good, Advance
  <2>5. LeaveQuote(x) = [[adv EXCEPT !.ctxs = Pop(adv.ctxs)] EXCEPT !.mode = "lex"]
    BY <2>1, <2>3 DEF LeaveQuote, In
  <2>6. [adv EXCEPT !.ctxs = Pop(adv.ctxs)] \in Lexers
    BY <2>4, SetCtxs, PopType, LexersDef
  <2>. QED BY <1>2, <1>8, <2>1, <2>4, <2>5, <2>6
<1>. QED BY <1>3, <1>4, <1>5, <1>6, <1>7, <1>8, <1>9, <1>10, <1>11, <1>12

\* Only a redirection to a here-document is counted.
LEMMA OperatorCount ==
  ASSUME NEW x, Good(x), NEW c \in Operators
  PROVE  EmitOperator(x, c).hd = IF c = "<<" THEN x.hd + 1 ELSE x.hd
<1>1. PICK before : before = IF c \in Redirs THEN RemOpContext(x) ELSE x
  OBVIOUS
<1>2. Good(before) /\ before.hd = x.hd
  BY <1>1, CountKept, AtContexts DEF At
<1>3. PICK closed : closed = CloseTmpPart(before)
  OBVIOUS
<1>4. Good(closed) /\ closed.hd = x.hd
  BY <1>2, <1>3, CountKept, AtClose DEF At
<1>5. PICK word : word = WordEmit(closed)
  OBVIOUS
<1>6. Good(word) /\ word.hd = x.hd
  BY <1>4, <1>5, CountKept, AtWord DEF At
<1>7. PICK emitted : emitted = Emit(word, c)
  OBVIOUS
<1>8. c \in TokTypes
  BY DEF TokTypes
<1>9. Good(emitted) /\ emitted.hd = IF c = "<<" THEN x.hd + 1 ELSE x.hd
  BY <1>6, <1>7, <1>8, CountKept, AtEmit DEF At
<1>10. PICK after : after = Advance(emitted)
  OBVIOUS
<1>11. Good(after) /\ after.hd = emitted.hd
  BY <1>9, <1>10, CountKept, AtAdvance DEF At
<1>12. EmitOperator(x, c) = IF c \in OpContexts \cup {"("} THEN AddContext(after, c)
                            ELSE IF c = ")" THEN RemOpContext(RemSubContext(after))
                            ELSE after
  BY <1>1, <1>3, <1>5, <1>7, <1>10 DEF EmitOperator
<1>13. OpContexts \cup {"("} \subseteq Contexts
  BY DEF OpContexts, Contexts
<1>14. Good(RemSubContext(after)) /\ RemOpContext(RemSubContext(after)).hd = after.hd
  <2>1. Good(RemSubContext(after)) /\ RemSubContext(after).hd = after.hd
    BY <1>11, CountKept, AtContexts DEF At
  <2>. QED BY <2>1, CountKept
<1>15. \A s \in Contexts : AddContext(after, s).hd = after.hd
  BY <1>11, CountKept
<1>. QED BY <1>9, <1>11, <1>12, <1>13, <1>14, <1>15

\* What a step leaves: the mode, the tokens, the word being read and the count.
Leaves(y, mode, toks, tmp, hd) == y.mode = mode /\ y.toks = toks /\ y.tmp = tmp /\ y.hd = hd

\* In a double quote only the closing quote changes anything.
LEMMA StepQuoted ==
  ASSUME NEW x, Good(x), x.mode = DoubleQuote, NEW c \in Symbols, c # "\\"
  PROVE  \E tmp : Leaves(Step(x, c), IF c = DoubleQuote THEN "lex" ELSE DoubleQuote,
                          x.toks, tmp, x.hd)
<1>1. Step(x, c) = InsideQuote(x, c)
  BY DEF Step, Quotes, DoubleQuote
<1>2. CASE c = DoubleQuote
  <2>1. Step(x, c) = LeaveQuote(x)
    BY <1>1, <1>2 DEF InsideQuote, DoubleQuote
  <2>. QED BY <1>2, <2>1, AtLeaveQuote, CountKept DEF At, Leaves
<1>3. CASE c # DoubleQuote
  <2>1. Step(x, c) = In(Advance(x), DoubleQuote)
    BY <1>1, <1>3 DEF InsideQuote, DoubleQuote
  <2>2. At(Advance(x), x.mode, x.toks, x.tmp, x.pos + 1) /\ Advance(x).hd = x.hd
    BY AtAdvance, CountKept
  <2>3. DoubleQuote \in Modes
    BY DoubleQuoteIs
  <2>4. PICK adv : adv = Advance(x)
    OBVIOUS
  <2>5. Good(adv) /\ adv.toks = x.toks /\ adv.hd = x.hd
    BY <2>2, <2>4 DEF At
  <2>6. Leaves(In(adv, DoubleQuote), DoubleQuote, x.toks, adv.tmp, x.hd)
    BY <2>3, <2>5, AtIn, CountKept DEF At, Leaves
  <2>. QED BY <1>3, <2>1, <2>4, <2>6
<1>. QED BY <1>2, <1>3

\* Outside of quotes, the part that is read is closed before anything but a letter.
Before(x) == In(IF x.mode = "word" THEN CloseTmpPart(x) ELSE x, "lex")
Parted(x) == IF x.mode = "word" THEN EndAt(x.tmp, x.pos) ELSE x.tmp
LEMMA BeforeAt ==
  ASSUME NEW x, Good(x), x.mode \in {"lex", "word"}
  PROVE  At(Before(x), "lex", x.toks, Parted(x), x.pos) /\ Before(x).hd = x.hd
<1>1. "lex" \in Modes
  BY DEF Modes
<1>2. PICK closed : closed = IF x.mode = "word" THEN CloseTmpPart(x) ELSE x
  OBVIOUS
<1>3. At(closed, x.mode, x.toks, Parted(x), x.pos) /\ closed.hd = x.hd
  BY <1>2, AtClose, CountKept DEF At, Parted
<1>4. Before(x) = In(closed, "lex")
  BY <1>2 DEF Before
<1>. QED BY <1>1, <1>3, <1>4, AtIn, CountKept DEF At

\* The four kinds of symbol, where no quote is open: StepOutside.
LEMMA OutsideQuote ==
  ASSUME NEW x, x.mode \in {"lex", "word"}, NEW c \in Quotes
  PROVE  Step(x, c) = EnterQuote(Before(x), c)
BY DEF Step, StaysInWord, Before, LexNormal, Quotes, Operators, CtrlOps, Redirs, Parens

LEMMA OutsideBlank ==
  ASSUME NEW x, x.mode \in {"lex", "word"}, NEW c \in Blanks
  PROVE  Step(x, c) = Separator(Before(x), c)
BY DEF Step, StaysInWord, Before, LexNormal, Quotes, Blanks, Operators, CtrlOps, Redirs, Parens

LEMMA OutsideOperator ==
  ASSUME NEW x, x.mode \in {"lex", "word"}, NEW c \in Operators
  PROVE  Step(x, c) = IF x.mode = "lex" THEN EmitOperator(Before(x), c)
                      ELSE In(EmitOperator(x, c), "lex")
<1>. USE DEF Quotes, Blanks, Operators, CtrlOps, Redirs, Parens
<1>1. CASE x.mode = "lex"
  BY <1>1 DEF Step, Before, LexNormal
<1>2. CASE x.mode = "word"
  BY <1>2 DEF Step, StaysInWord
<1>. QED BY <1>1, <1>2

LEMMA OutsideLetter ==
  ASSUME NEW x, x.mode \in {"lex", "word"}, NEW c \in Plain
  PROVE  Step(x, c) =
           Advance(IF x.mode = "word" THEN x
                   ELSE In(RemOpContext(TempPartCreate(Before(x), "UQUOTE")), "word"))
<1>. USE DEF Quotes, Blanks, Operators, CtrlOps, Redirs, Parens, Plain
<1>1. CASE x.mode = "lex"
  BY <1>1 DEF Step, Before, LexNormal, WordStep
<1>2. CASE x.mode = "word"
  BY <1>2 DEF Step, StaysInWord, WordStep
<1>. QED BY <1>1, <1>2

\* What the step leaves, for each of them.
LEMMA StepLetter ==
  ASSUME NEW x, Good(x), x.mode \in {"lex", "word"}, NEW c \in Plain
  PROVE  Leaves(Step(x, c), "word", x.toks,
                IF x.mode = "word" THEN x.tmp
                ELSE Append(x.tmp, [type |-> "UQUOTE", start |-> x.pos, end |-> x.pos]),
                x.hd)
<1>1. c \in Symbols
  BY DEF Symbols
<1>2. CASE x.mode = "word"
  <2>1. Step(x, c) = Advance(x)
    BY <1>2, OutsideLetter
  <2>. QED BY <1>2, <2>1, AtAdvance, CountKept DEF At, Leaves
<1>3. CASE x.mode = "lex"
  <2>1. PICK b : b = Before(x)
    OBVIOUS
  <2>2. PICK tmp : tmp = Append(x.tmp, [type |-> "UQUOTE", start |-> x.pos, end |-> x.pos])
    OBVIOUS
  <2>3. At(b, "lex", x.toks, x.tmp, x.pos) /\ b.hd = x.hd
    BY <1>3, <2>1, BeforeAt DEF Parted
  <2>4. "UQUOTE" \in PartTypes /\ "word" \in Modes
    BY DEF PartTypes, Modes
  <2>5. PICK created : created = TempPartCreate(b, "UQUOTE")
    OBVIOUS
  <2>6. At(created, "lex", x.toks, tmp, x.pos) /\ created.hd = x.hd
    BY <2>2, <2>3, <2>4, <2>5, AtCreate, CountKept DEF At
  <2>7. PICK rem : rem = RemOpContext(created)
    OBVIOUS
  <2>8. At(rem, "lex", x.toks, tmp, x.pos) /\ rem.hd = x.hd
    BY <2>6, <2>7, AtContexts, CountKept DEF At
  <2>9. PICK in : in = In(rem, "word")
    OBVIOUS
  <2>10. At(in, "word", x.toks, tmp, x.pos) /\ in.hd = x.hd
    BY <2>4, <2>8, <2>9, AtIn, CountKept DEF At
  <2>11. Step(x, c) = Advance(in)
    BY <1>3, <2>1, <2>5, <2>7, <2>9, OutsideLetter
  <2>. QED BY <1>3, <2>2, <2>10, <2>11, AtAdvance, CountKept DEF At, Leaves
<1>. QED BY <1>2, <1>3

LEMMA StepQuote ==
  ASSUME NEW x, Good(x), x.mode \in {"lex", "word"}, NEW c \in Quotes
  PROVE  \E tmp : Leaves(Step(x, c), c, x.toks, tmp, x.hd)
<1>1. c \in Symbols /\ c \in Modes /\ c \in Contexts
      /\ c \in PartTypes
  BY DEF Symbols, Modes, Contexts, PartTypes, Quotes
<1>2. PICK b : b = Before(x)
  OBVIOUS
<1>3. At(b, "lex", x.toks, Parted(x), x.pos) /\ b.hd = x.hd
  BY <1>2, BeforeAt
<1>4. Step(x, c) = EnterQuote(b, c)
  BY <1>1, <1>2, OutsideQuote
<1>5. EnterQuote(b, c).hd = x.hd
  <2>1. Good(Advance(b)) /\ Advance(b).hd = x.hd
    BY <1>3, AtAdvance, CountKept DEF At
  <2>2. Good(In(Advance(b), c)) /\ In(Advance(b), c).hd = x.hd
    BY <1>1, <2>1, AtIn, CountKept DEF At
  <2>3. PICK in : in = In(Advance(b), c)
    OBVIOUS
  <2>4. Good(RemOpContext(in)) /\ RemOpContext(in).hd = x.hd
    BY <2>2, <2>3, AtContexts, CountKept DEF At
  <2>5. PICK add : add = AddContext(RemOpContext(in), c)
    OBVIOUS
  <2>6. Good(add) /\ add.hd = x.hd
    BY <1>1, <2>4, <2>5, AtContexts, CountKept DEF At
  <2>7. TempPartCreate(add, c).hd = x.hd
    BY <1>1, <2>6, CountKept
  <2>. QED BY <2>3, <2>5, <2>7 DEF EnterQuote
<1>6. PICK y : y = EnterQuote(b, c)
  OBVIOUS
<1>7. Leaves(y, c, x.toks, y.tmp, x.hd)
  BY <1>3, <1>5, <1>6, AtEnterQuote DEF At, Leaves
<1>. QED BY <1>4, <1>6, <1>7

LEMMA StepBlank ==
  ASSUME NEW x, Good(x), x.mode \in {"lex", "word"}, NEW c \in Blanks
  PROVE  LET words == Worded(x.toks, Parted(x))
         IN Leaves(Step(x, c), "lex",
                   IF c = "\n" THEN Append(words, Token("NEWLINE", <<>>)) ELSE words,
                   <<>>, x.hd)
<1>1. c \in Symbols /\ c \notin Quotes /\ c \notin Operators
  BY DEF Symbols, Blanks, Quotes, Operators, CtrlOps, Redirs, Parens
<1>2. PICK b : b = Before(x)
  OBVIOUS
<1>3. At(b, "lex", x.toks, Parted(x), x.pos) /\ b.hd = x.hd
  BY <1>2, BeforeAt
<1>4. PICK words : words = Worded(x.toks, Parted(x))
  OBVIOUS
<1>5. PICK word : word = WordEmit(b)
  OBVIOUS
<1>6. At(word, "lex", words, <<>>, x.pos) /\ word.hd = x.hd
  BY <1>3, <1>4, <1>5, AtWord, CountKept DEF At
<1>7. Step(x, c) = Advance(IF c = "\n" THEN Emit(word, "NEWLINE") ELSE word)
  BY <1>2, <1>5, OutsideBlank DEF Separator
<1>8. CASE c = "\n"
  <2>1. "NEWLINE" \in TokTypes /\ "NEWLINE" # "<<"
    BY DEF TokTypes
  <2>2. PICK e : e = Emit(word, "NEWLINE")
    OBVIOUS
  <2>3. At(e, "lex", Append(words, Token("NEWLINE", <<>>)), <<>>, x.pos) /\ e.hd = x.hd
    BY <1>6, <2>1, <2>2, AtEmit, CountKept DEF At
  <2>4. Step(x, c) = Advance(e)
    BY <1>7, <1>8, <2>2
  <2>. QED BY <1>4, <1>8, <2>3, <2>4, AtAdvance, CountKept DEF At, Leaves
<1>9. CASE c # "\n"
  <2>1. Step(x, c) = Advance(word)
    BY <1>7, <1>9
  <2>. QED BY <1>4, <1>6, <1>9, <2>1, AtAdvance, CountKept DEF At, Leaves
<1>. QED BY <1>8, <1>9

LEMMA StepOperator ==
  ASSUME NEW x, Good(x), x.mode \in {"lex", "word"}, NEW c \in Operators
  PROVE  Leaves(Step(x, c), "lex",
                Append(Worded(x.toks, EndAt(x.tmp, x.pos)), Token(c, <<>>)), <<>>,
                IF c = "<<" THEN x.hd + 1 ELSE x.hd)
<1>1. c \in Symbols /\ "lex" \in Modes
  BY DEF Symbols, Modes
<1>2. CASE x.mode = "lex"
  <2>1. PICK b : b = Before(x)
    OBVIOUS
  <2>2. At(b, "lex", x.toks, x.tmp, x.pos) /\ b.hd = x.hd
    BY <1>2, <2>1, BeforeAt DEF Parted
  <2>3. Step(x, c) = EmitOperator(b, c)
    BY <1>2, <2>1, OutsideOperator
  <2>. QED BY <2>2, <2>3, AtOperator, OperatorCount DEF At, Leaves
<1>3. CASE x.mode = "word"
  <2>1. PICK e : e = EmitOperator(x, c)
    OBVIOUS
  <2>2. /\ At(e, "word", Append(Worded(x.toks, EndAt(x.tmp, x.pos)), Token(c, <<>>)), <<>>, x.pos + 1)
        /\ e.hd = IF c = "<<" THEN x.hd + 1 ELSE x.hd
    BY <1>3, <2>1, AtOperator, OperatorCount
  <2>3. Step(x, c) = In(e, "lex")
    BY <1>3, <2>1, OutsideOperator
  <2>. QED BY <1>1, <2>2, <2>3, AtIn, CountKept DEF At, Leaves
<1>. QED BY <1>2, <1>3

-----------------------------------------------------------------------------
(* The here-documents that wait.                                             *)

\* The redirections that wait for their bodies, in order, all behind the bodies
\* that are there; and what they wait for, the words behind them.
Says(tok, w, tx) ==
  /\ tok.type = "WORD" /\ ~tok.flag /\ Len(tok.parts) = 1
  /\ tok.parts[1].end <= Len(tx)
  /\ SubSeq(tx, tok.parts[1].start + 1, tok.parts[1].end) = w
WantsAt(at, toks, tx, ws) ==
  /\ at \in [1..Len(ws) -> 1..Len(toks)]
  /\ \A i \in 1..Len(ws) :
       toks[at[i]].flag /\ at[i] < Len(toks) /\ Says(toks[at[i] + 1], ws[i], tx)
  /\ \A i, j \in 1..Len(ws) : i < j => at[i] < at[j]
  /\ \A k \in 1..Len(toks) : toks[k].flag => \E i \in 1..Len(ws) : at[i] = k
  /\ \A k \in 1..Len(toks) : toks[k].type = "BODY" => \A i \in 1..Len(ws) : k < at[i]
Wants(toks, tx, ws) == \E at : WantsAt(at, toks, tx, ws)

\* Inside a line the last delimiter may still be read: n of its symbols are.
Reading(x, tx, l, n, w) ==
  /\ Unquoted(l, n)
  /\ \/ x.mode = "lex" /\ x.tmp = <<>> /\ n < Len(l) /\ l[n + 1] \in Plain /\ w = WordAt(l, n)
     \/ /\ x.mode = "word" /\ Len(x.tmp) = 1
        /\ w = SubSeq(tx, x.tmp[1].start + 1, x.pos) \o WordAt(l, n)
Awaits(x, tx, l, n, ws) ==
  \/ Wants(x.toks, tx, ws)
  \/ /\ x.toks # <<>> /\ ws # <<>>
     /\ LET last == x.toks[Len(x.toks)]
        IN last.flag /\ last.type # "BODY"
     /\ Wants(SubSeq(x.toks, 1, Len(x.toks) - 1), tx, SubSeq(ws, 1, Len(ws) - 1))
     /\ Reading(x, tx, l, n, ws[Len(ws)])

Unasked(toks) == \A k \in 1..Len(toks) : ~toks[k].flag
HasBodies(toks, bodies, m) == bodies = Bodies(toks) \o Empties(m)

\* Nothing waits where no redirection is marked, and only there.
LEMMA WantsNone ==
  ASSUME NEW toks, NEW tx, Unasked(toks)
  PROVE  Wants(toks, tx, <<>>) /\ \A ws \in Texts : Wants(toks, tx, ws) => ws = <<>>
<1>1. Wants(toks, tx, <<>>)
  <2>1. PICK at : at = [i \in 1..0 |-> 1]
    OBVIOUS
  <2>2. WantsAt(at, toks, tx, <<>>)
    BY <2>1 DEF WantsAt, Unasked
  <2>. QED BY <2>2 DEF Wants
<1>2. ASSUME NEW ws \in Texts, Wants(toks, tx, ws), ws # <<>> PROVE FALSE
  <2>1. PICK at : WantsAt(at, toks, tx, ws)
    BY <1>2 DEF Wants
  <2>2. 1 \in 1..Len(ws)
    BY <1>2 DEF Texts
  <2>3. at[1] \in 1..Len(toks) /\ toks[at[1]].flag
    BY <2>1, <2>2 DEF WantsAt
  <2>. QED BY <2>3 DEF Unasked
<1>. QED BY <1>1, <1>2

\* A token more that is neither a redirection nor a body.
LEMMA WantsMore ==
  ASSUME NEW toks \in Seq(Tokens), NEW tx, NEW ws \in Texts, Wants(toks, tx, ws),
         NEW t \in Tokens, ~t.flag, t.type # "BODY"
  PROVE  Wants(Append(toks, t), tx, ws)
<1>1. PICK at : WantsAt(at, toks, tx, ws)
  BY DEF Wants
<1>2. PICK more : more = Append(toks, t)
  OBVIOUS
<1>3. PICK n \in Nat : n = Len(toks)
  OBVIOUS
<1>4. Len(more) = n + 1 /\ more[n + 1] = t /\ \A k \in 1..n : more[k] = toks[k]
  BY <1>2, <1>3, AppendProperties
<1>5. PICK m \in Nat : m = Len(ws)
  BY DEF Texts
<1>6. at \in [1..m -> 1..n] /\ \A i \in 1..m : at[i] \in 1..n
  BY <1>1, <1>3, <1>5 DEF WantsAt
<1>7. at \in [1..m -> 1..(n + 1)]
  BY <1>6
<1>8. ASSUME NEW i \in 1..m
      PROVE more[at[i]].flag /\ at[i] < n + 1 /\ Says(more[at[i] + 1], ws[i], tx)
  <2>1. toks[at[i]].flag /\ at[i] < n /\ Says(toks[at[i] + 1], ws[i], tx)
    BY <1>1, <1>3, <1>5 DEF WantsAt
  <2>2. at[i] \in 1..n /\ at[i] + 1 \in 1..n
    BY <1>6, <2>1
  <2>. QED BY <1>4, <2>1, <2>2
<1>9. \A i, j \in 1..m : i < j => at[i] < at[j]
  BY <1>1, <1>5 DEF WantsAt
<1>10. ASSUME NEW k \in 1..(n + 1), more[k].flag PROVE \E i \in 1..m : at[i] = k
  <2>1. k \in 1..n
    BY <1>4, <1>10
  <2>2. toks[k].flag
    BY <1>4, <1>10, <2>1
  <2>. QED BY <1>1, <1>3, <1>5, <2>1, <2>2 DEF WantsAt
<1>11. ASSUME NEW k \in 1..(n + 1), more[k].type = "BODY", NEW i \in 1..m PROVE k < at[i]
  <2>1. k \in 1..n
    BY <1>4, <1>11
  <2>2. toks[k].type = "BODY"
    BY <1>4, <1>11, <2>1
  <2>. QED BY <1>1, <1>3, <1>5, <2>1, <2>2 DEF WantsAt
<1>12. WantsAt(at, more, tx, ws)
  BY <1>4, <1>5, <1>7, <1>8, <1>9, <1>10, <1>11 DEF WantsAt
<1>. QED BY <1>2, <1>12 DEF Wants

\* A redirection with its delimiter.
LEMMA WantsAnother ==
  ASSUME NEW toks \in Seq(Tokens), NEW tx, NEW ws \in Texts, Wants(toks, tx, ws),
         NEW t \in Tokens, t.flag, t.type # "BODY",
         NEW u \in Tokens, NEW w \in Seq(Symbols), Says(u, w, tx)
  PROVE  Wants(Append(Append(toks, t), u), tx, Append(ws, w))
<1>1. PICK at : WantsAt(at, toks, tx, ws)
  BY DEF Wants
<1>2. PICK more : more = Append(Append(toks, t), u)
  OBVIOUS
<1>3. PICK n \in Nat : n = Len(toks)
  OBVIOUS
<1>4. Len(more) = n + 2 /\ more[n + 1] = t /\ more[n + 2] = u
      /\ \A k \in 1..n : more[k] = toks[k]
  BY <1>2, <1>3
<1>5. PICK m \in Nat : m = Len(ws)
  BY DEF Texts
<1>6. at \in [1..m -> 1..n] /\ \A i \in 1..m : at[i] \in 1..n
  BY <1>1, <1>3, <1>5 DEF WantsAt
<1>7. PICK wants : wants = Append(ws, w)
  OBVIOUS
<1>8. Len(wants) = m + 1 /\ wants[m + 1] = w /\ \A i \in 1..m : wants[i] = ws[i]
  BY <1>5, <1>7 DEF Texts
<1>9. PICK to \in [1..(m + 1) -> 1..(n + 2)] :
        to[m + 1] = n + 1 /\ \A i \in 1..m : to[i] = at[i]
  <2>. DEFINE to == [i \in 1..(m + 1) |-> IF i = m + 1 THEN n + 1 ELSE at[i]]
  <2>1. to \in [1..(m + 1) -> 1..(n + 2)]
    BY <1>6
  <2>2. to[m + 1] = n + 1 /\ \A i \in 1..m : to[i] = at[i]
    OBVIOUS
  <2>. HIDE DEF to
  <2>. QED BY <2>1, <2>2
<1>10. \A i \in 1..(m + 1) : i = m + 1 \/ i \in 1..m
  OBVIOUS
<1>a. u.type = "WORD" /\ ~u.flag
  BY DEF Says
<1>11. ASSUME NEW i \in 1..(m + 1)
       PROVE more[to[i]].flag /\ to[i] < n + 2 /\ Says(more[to[i] + 1], wants[i], tx)
  <2>1. CASE i = m + 1
    <3>1. to[i] = n + 1 /\ (n + 1) + 1 = n + 2
      BY <1>9, <2>1
    <3>. QED BY <1>4, <1>8, <2>1, <3>1
  <2>2. CASE i \in 1..m
    <3>1. toks[at[i]].flag /\ at[i] < n /\ Says(toks[at[i] + 1], ws[i], tx)
      BY <1>1, <1>3, <1>5, <2>2 DEF WantsAt
    <3>a. at[i] \in 1..n /\ to[i] = at[i] /\ wants[i] = ws[i]
      BY <1>6, <1>8, <1>9, <2>2
    <3>b. PICK p \in 1..n : p = at[i] /\ p < n
      BY <3>1, <3>a
    <3>c. p + 1 \in 1..n
      BY <3>b
    <3>2. at[i] \in 1..n /\ at[i] + 1 \in 1..n /\ to[i] = at[i] /\ wants[i] = ws[i]
      BY <3>a, <3>b, <3>c
    <3>3. more[at[i] + 1] = toks[at[i] + 1] /\ more[at[i]] = toks[at[i]]
      BY <1>4, <3>2
    <3>. QED BY <3>1, <3>2, <3>3
  <2>. QED BY <1>10, <2>1, <2>2
<1>12. ASSUME NEW i \in 1..(m + 1), NEW j \in 1..(m + 1), i < j PROVE to[i] < to[j]
  <2>1. i \in 1..m
    BY <1>12
  <2>2. to[i] = at[i] /\ at[i] \in 1..n
    BY <1>6, <1>9, <2>1
  <2>3. CASE j = m + 1
    BY <1>9, <2>2, <2>3
  <2>4. CASE j \in 1..m
    <3>1. at[i] < at[j]
      BY <1>1, <1>5, <1>12, <2>1, <2>4 DEF WantsAt
    <3>. QED BY <1>9, <2>1, <2>4, <3>1
  <2>. QED BY <1>10, <2>3, <2>4
<1>13. ASSUME NEW k \in 1..(n + 2), more[k].flag PROVE \E i \in 1..(m + 1) : to[i] = k
  <2>1. CASE k = n + 1
    <3>1. m + 1 \in 1..(m + 1)
      OBVIOUS
    <3>. QED BY <1>9, <2>1, <3>1
  <2>2. CASE k \in 1..n
    <3>1. toks[k].flag
      BY <1>4, <1>13, <2>2
    <3>2. PICK i \in 1..m : at[i] = k
      BY <1>1, <1>3, <1>5, <2>2, <3>1 DEF WantsAt
    <3>3. i \in 1..(m + 1) /\ to[i] = k
      BY <1>9, <3>2
    <3>. QED BY <3>3
  <2>3. k # n + 2
    BY <1>4, <1>13, <1>a
  <2>. QED BY <2>1, <2>2, <2>3
<1>14. ASSUME NEW k \in 1..(n + 2), more[k].type = "BODY", NEW i \in 1..(m + 1)
       PROVE  k < to[i]
  <2>1. k # n + 2
    BY <1>4, <1>14, <1>a
  <2>2. k # n + 1
    BY <1>4, <1>14
  <2>3. k \in 1..n
    BY <2>1, <2>2
  <2>4. CASE i = m + 1
    BY <1>9, <2>3, <2>4
  <2>5. CASE i \in 1..m
    <3>1. toks[k].type = "BODY"
      BY <1>4, <1>14, <2>3
    <3>2. k < at[i]
      BY <1>1, <1>3, <1>5, <2>3, <2>5, <3>1 DEF WantsAt
    <3>. QED BY <1>9, <2>5, <3>2
  <2>. QED BY <1>10, <2>4, <2>5
<1>15. WantsAt(to, more, tx, wants)
  BY <1>4, <1>8, <1>9, <1>11, <1>12, <1>13, <1>14 DEF WantsAt
<1>. QED BY <1>2, <1>7, <1>15 DEF Wants

\* A longer buffer.
LEMMA SaysLater ==
  ASSUME NEW t \in Tokens, NEW w, NEW tx \in Seq(Symbols), NEW c \in Symbols,
         Says(t, w, tx)
  PROVE  Says(t, w, Append(tx, c))
<1>1. t.parts \in Seq(Parts) /\ Len(t.parts) = 1
  BY DEF Tokens, Says
<1>2. t.parts[1].start \in Nat /\ t.parts[1].end \in Nat
  BY <1>1, PartsDef
<1>3. PICK s \in Nat, e \in Nat : s = t.parts[1].start /\ e = t.parts[1].end
  BY <1>2
<1>4. e <= Len(tx) /\ SubSeq(tx, s + 1, e) = w
  BY <1>3 DEF Says
<1>5. SubSeq(Append(tx, c), s + 1, e) = SubSeq(tx, s + 1, e)
  BY <1>4
<1>6. e <= Len(Append(tx, c))
  BY <1>4
<1>. QED BY <1>3, <1>4, <1>5, <1>6 DEF Says

LEMMA WantsLater ==
  ASSUME NEW toks \in Seq(Tokens), NEW tx \in Seq(Symbols), NEW c \in Symbols,
         NEW ws \in Texts, Wants(toks, tx, ws)
  PROVE  Wants(toks, Append(tx, c), ws)
<1>1. PICK at : WantsAt(at, toks, tx, ws)
  BY DEF Wants
<1>2. ASSUME NEW i \in 1..Len(ws) PROVE Says(toks[at[i] + 1], ws[i], Append(tx, c))
  <2>1. at[i] + 1 \in 1..Len(toks) /\ Says(toks[at[i] + 1], ws[i], tx)
    BY <1>1 DEF WantsAt
  <2>2. toks[at[i] + 1] \in Tokens
    BY <2>1
  <2>. QED BY <2>1, <2>2, SaysLater
<1>3. WantsAt(at, toks, Append(tx, c), ws)
  BY <1>1, <1>2 DEF WantsAt
<1>. QED BY <1>3 DEF Wants

-----------------------------------------------------------------------------
(* A line, symbol by symbol.                                                 *)

\* A list with one element more, and one taken apart before its last.
LEMMA FrontOfAppend ==
  ASSUME NEW S, NEW s \in Seq(S), NEW e \in S
  PROVE  LET more == Append(s, e)
         IN /\ SubSeq(more, 1, Len(more) - 1) = s /\ more[Len(more)] = e /\ more # <<>>
            /\ Len(more) = Len(s) + 1
OBVIOUS

LEMMA AppendToFront ==
  ASSUME NEW S, NEW s \in Seq(S), s # <<>>
  PROVE  LET front == SubSeq(s, 1, Len(s) - 1)
         IN front \in Seq(S) /\ s[Len(s)] \in S /\ Append(front, s[Len(s)]) = s
<1>1. PICK n \in Nat : Len(s) = n + 1
  <2>1. Len(s) \in Nat /\ Len(s) # 0
    OBVIOUS
  <2>2. Len(s) - 1 \in Nat /\ Len(s) = (Len(s) - 1) + 1
    BY <2>1
  <2>. QED BY <2>2
<1>2. \A i \in 1..n : s[i] \in S
  BY <1>1
<1>3. SubSeq(s, 1, n) \in Seq(S) /\ Len(SubSeq(s, 1, n)) = n
  BY <1>1, <1>2, SubSeqProperties
<1>4. Append(SubSeq(s, 1, n), s[n + 1]) = s
  BY <1>1, <1>3
<1>. QED BY <1>1, <1>3, <1>4

\* A token more that is no body.
LEMMA BodiesSame ==
  ASSUME NEW toks \in Seq(Tokens), NEW t \in Tokens, t.type # "BODY"
  PROVE  Append(toks, t) \in Seq(Tokens) /\ Bodies(Append(toks, t)) = Bodies(toks)
<1>1. PICK more \in Seq(Tokens) : more = Append(toks, t)
  BY AppendProperties
<1>2. PICK n \in Nat : n = Len(toks)
  OBVIOUS
<1>3. Len(more) = n + 1 /\ more[n + 1] = t /\ \A k \in 1..n : more[k] = toks[k]
  BY <1>1, <1>2, AppendProperties
<1>4. \A k \in (n + 1)..(n + 1) : more[k].type # "BODY"
  BY <1>3
<1>5. n <= n + 1
  OBVIOUS
<1>6. Bodies(more) = Bodies(toks)
  BY <1>2, <1>3, <1>4, <1>5, BodiesPrefix
<1>. QED BY <1>1, <1>6

\* The tokens with the word that ends, if there is one.
LEMMA WordedBodies ==
  ASSUME NEW toks \in Seq(Tokens), NEW parts \in Seq(Parts)
  PROVE  Worded(toks, parts) \in Seq(Tokens) /\ Bodies(Worded(toks, parts)) = Bodies(toks)
<1>1. PICK t \in Tokens : t = Token("WORD", parts)
  BY TokenType, "WORD" \in TokTypes DEF TokTypes
<1>2. t.type = "WORD"
  BY <1>1 DEF Token
<1>3. Worded(toks, parts) = IF parts = <<>> THEN toks ELSE Append(toks, t)
  BY <1>1 DEF Worded
<1>. QED BY <1>2, <1>3, BodiesSame

\* A piece of a text is text.
LEMMA PieceType ==
  ASSUME NEW S, NEW tx \in Seq(S), NEW s \in Nat, NEW e \in Nat, e <= Len(tx)
  PROVE  SubSeq(tx, s + 1, e) \in Seq(S)
<1>1. \A i \in (s + 1)..e : i \in 1..Len(tx)
  OBVIOUS
<1>2. \A i \in (s + 1)..e : tx[i] \in S
  BY <1>1
<1>. QED BY <1>2, SubSeqProperties

\* There is an end, and the word is what is before it.
LEMMA WordEnded ==
  ASSUME NEW x, Good(x), x.mode \in {"lex", "word"}, x.mode = "word" => x.tmp # <<>>,
         NEW tx \in Seq(Symbols), x.pos <= Len(tx), NEW l \in Seq(Symbols),
         NEW n \in 0..Len(l), n < Len(l) => l[n + 1] \notin Plain \cup {DoubleQuote},
         NEW ws \in Texts, Awaits(x, tx, l, n, ws),
         NEW parts, parts = Parted(x) \/ parts = EndAt(x.tmp, x.pos)
  PROVE  /\ parts \in Seq(Parts)
         /\ Wants(Worded(x.toks, parts), tx, ws)
<1>1. x.toks \in Seq(Tokens) /\ x.tmp \in Seq(Parts) /\ x.pos \in Nat
  BY LexersDef DEF Good
<1>a. PICK tmp \in Seq(Parts), pos \in Nat : tmp = x.tmp /\ pos = x.pos
  BY <1>1
<1>b. PICK ended : ended = EndAt(tmp, pos)
  OBVIOUS
<1>c. /\ ended \in Seq(Parts) /\ Len(ended) = Len(tmp)
      /\ \A p \in 1..Len(tmp) : /\ ended[p].start = tmp[p].start
                                /\ p = Len(tmp) => ended[p].end = pos
  BY <1>b, EndAtParts
<1>2. parts \in Seq(Parts)
  BY <1>1, <1>a, <1>b, <1>c DEF Parted
<1>3. PICK t \in Tokens : t = Token("WORD", parts)
  BY <1>2, TokenType, "WORD" \in TokTypes DEF TokTypes
<1>4. t.type = "WORD" /\ ~t.flag /\ t.parts = parts
  BY <1>3 DEF Token
<1>5. Worded(x.toks, parts) = IF parts = <<>> THEN x.toks ELSE Append(x.toks, t)
  BY <1>3 DEF Worded
<1>6. CASE Wants(x.toks, tx, ws)
  <2>1. Wants(Append(x.toks, t), tx, ws)
    BY <1>1, <1>4, <1>6, WantsMore
  <2>. QED BY <1>2, <1>5, <1>6, <2>1
<1>7. CASE ~Wants(x.toks, tx, ws)
  <2>1. PICK front \in Seq(Tokens), last \in Tokens :
          /\ x.toks = Append(front, last) /\ front = SubSeq(x.toks, 1, Len(x.toks) - 1)
          /\ last = x.toks[Len(x.toks)]
    BY <1>1, <1>7, AppendToFront DEF Awaits
  <2>2. PICK some \in Texts, w \in Seq(Symbols) :
          /\ ws = Append(some, w) /\ some = SubSeq(ws, 1, Len(ws) - 1) /\ w = ws[Len(ws)]
    BY <1>7, AppendToFront DEF Awaits, Texts
  <2>3. /\ last.flag /\ last.type # "BODY" /\ Wants(front, tx, some)
        /\ Reading(x, tx, l, n, w)
    BY <1>7, <2>1, <2>2 DEF Awaits
  <2>4. x.mode = "word" /\ Len(x.tmp) = 1
        /\ w = SubSeq(tx, x.tmp[1].start + 1, x.pos) \o WordAt(l, n)
    BY <2>3 DEF Reading
  <2>5. WordAt(l, n) = <<>>
    BY WordAtNext
  <2>6. PICK first \in Nat : first = x.tmp[1].start
    <3>1. tmp[1].start \in Nat
      BY <1>a, <2>4, PartsDef
    <3>. QED BY <1>a, <3>1
  <2>7. SubSeq(tx, first + 1, pos) \in Seq(Symbols)
    BY <1>a, PieceType
  <2>8. w = SubSeq(tx, first + 1, pos)
    BY <1>a, <2>4, <2>5, <2>6, <2>7, ConcatEmptySeq
  <2>9. parts = ended
    BY <1>a, <1>b, <2>4 DEF Parted
  <2>10. Len(parts) = 1 /\ parts[1].start = first /\ parts[1].end = pos
    BY <1>a, <1>c, <2>4, <2>6, <2>9
  <2>11. Says(t, w, tx)
    BY <1>4, <1>a, <2>8, <2>10 DEF Says
  <2>12. Wants(Append(Append(front, last), t), tx, Append(some, w))
    BY <2>3, <2>11, WantsAnother
  <2>13. parts # <<>>
    <3>1. Len(<<>>) # 1
      OBVIOUS
    <3>. QED BY <2>10, <3>1
  <2>. QED BY <1>2, <1>5, <2>1, <2>2, <2>12, <2>13
<1>. QED BY <1>6, <1>7

\* A piece with one symbol more, one symbol alone, and a symbol between two pieces.
LEMMA PieceMore ==
  ASSUME NEW S, NEW tx \in Seq(S), NEW s \in Nat, NEW e \in Nat, s <= e, e < Len(tx)
  PROVE  SubSeq(tx, s + 1, e + 1) = Append(SubSeq(tx, s + 1, e), tx[e + 1])
OBVIOUS

LEMMA PieceOne ==
  ASSUME NEW S, NEW tx \in Seq(S), NEW p \in Nat, p < Len(tx)
  PROVE  SubSeq(tx, p + 1, p + 1) = <<tx[p + 1]>>
<1>1. SubSeq(tx, p + 1, p + 1) = Append(SubSeq(tx, p + 1, p), tx[p + 1])
  BY PieceMore
<1>2. SubSeq(tx, p + 1, p) = <<>>
  BY SubSeqEmpty
<1>3. Append(<<>>, tx[p + 1]) = <<tx[p + 1]>>
  OBVIOUS
<1>. QED BY <1>1, <1>2, <1>3

LEMMA PieceJoins ==
  ASSUME NEW a \in Seq(Symbols), NEW c \in Symbols, NEW b \in Seq(Symbols),
         NEW one, one = <<c>>
  PROVE  a \o (one \o b) = Append(a, c) \o b
OBVIOUS

\* What the next symbol asks for.
LEMMA AskedNext ==
  ASSUME NEW before \in Seq(Symbols), NEW l \in Seq(Symbols), NEW n \in Nat, n < Len(l),
         NEW s, s = before \o SubSeq(l, 1, n)
  PROVE  /\ Quoted(before \o SubSeq(l, 1, n + 1)) <=>
              IF l[n + 1] = DoubleQuote THEN ~Quoted(s) ELSE Quoted(s)
         /\ Asked(before, l, n) \in Texts
         /\ Asked(before, l, n + 1) =
              IF l[n + 1] = "<<" /\ ~Quoted(s) THEN Append(Asked(before, l, n), WordAt(l, n + 1))
              ELSE Asked(before, l, n)
<1>1. PICK c \in Symbols : c = l[n + 1]
  OBVIOUS
<1>2. SubSeq(l, 1, n) \in Seq(Symbols) /\ SubSeq(l, 1, n + 1) = Append(SubSeq(l, 1, n), c)
  <2>1. SubSeq(l, 0 + 1, n) \in Seq(Symbols)
    BY PieceType
  <2>2. SubSeq(l, 1, n + 1) = Append(SubSeq(l, 1, n), c)
    BY <1>1
  <2>. QED BY <2>1, <2>2
<1>3. PICK piece \in Seq(Symbols) : piece = SubSeq(l, 1, n)
  BY <1>2
<1>4. s \in Seq(Symbols) /\ before \o SubSeq(l, 1, n + 1) = Append(s, c)
  BY <1>2, <1>3
<1>5. Quoted(Append(s, c)) <=> IF c = DoubleQuote THEN ~Quoted(s) ELSE Quoted(s)
  BY <1>4, QuotedMore
<1>6. Asks(before, l, n + 1) <=> c = "<<" /\ ~Quoted(s)
  BY <1>1, <1>4, <1>5, DoubleQuoteIs DEF Asks
<1>7. Asked(before, l, n) \in Texts
  <2>1. n \in 0..Len(l)
    OBVIOUS
  <2>. QED BY <2>1, AskedIs
<1>. QED BY <1>1, <1>4, <1>5, <1>6, <1>7, AskedMore

\* No redirection is marked by a word, or by a token that marks none.
LEMMA UnaskedMore ==
  ASSUME NEW toks \in Seq(Tokens), Unasked(toks), NEW t \in Tokens, ~t.flag
  PROVE  Unasked(Append(toks, t))
<1>1. PICK more : more = Append(toks, t)
  OBVIOUS
<1>2. PICK n \in Nat : n = Len(toks)
  OBVIOUS
<1>3. Len(more) = n + 1 /\ more[n + 1] = t /\ \A k \in 1..n : more[k] = toks[k]
  BY <1>1, <1>2, AppendProperties
<1>4. \A k \in 1..(n + 1) : k \in 1..n \/ k = n + 1
  OBVIOUS
<1>. QED BY <1>1, <1>2, <1>3, <1>4 DEF Unasked

LEMMA UnaskedWorded ==
  ASSUME NEW toks \in Seq(Tokens), Unasked(toks), NEW parts \in Seq(Parts)
  PROVE  Unasked(Worded(toks, parts))
<1>1. PICK t \in Tokens : t = Token("WORD", parts)
  BY TokenType, "WORD" \in TokTypes DEF TokTypes
<1>2. ~t.flag
  BY <1>1 DEF Token
<1>3. Worded(toks, parts) = IF parts = <<>> THEN toks ELSE Append(toks, t)
  BY <1>1 DEF Worded
<1>. QED BY <1>2, <1>3, UnaskedMore

\* What holds inside of a line.
InLine(x, tx, l, n, before) ==
  /\ Good(x) /\ x.mode \in {"lex", "word", DoubleQuote} /\ (x.mode = "word" => x.tmp # <<>>)
  /\ x.mode = DoubleQuote <=> Quoted(before \o SubSeq(l, 1, n))
  /\ Awaits(x, tx, l, n, Asked(before, l, n))

\* A redirection that waits is among those the chunk has counted.
Counted(x) == Unasked(x.toks) \/ x.hd > 0

\* No body comes or goes, and no redirection goes uncounted.
Keeps(x, y) == Bodies(y.toks) = Bodies(x.toks) /\ (Counted(x) => Counted(y))

\* Between two quotes.
LEMMA InQuotes ==
  ASSUME NEW x, NEW tx \in Seq(Symbols), NEW before \in Seq(Symbols), NEW l \in Seq(Symbols),
         NEW n \in Nat, n < Len(l), InLine(x, tx, l, n, before), x.mode = DoubleQuote,
         l[n + 1] # "\\"
  PROVE  LET y == Step(x, l[n + 1]) IN InLine(y, tx, l, n + 1, before) /\ Keeps(x, y)
<1>1. PICK c \in Symbols : c = l[n + 1]
  OBVIOUS
<1>2. PICK s : s = before \o SubSeq(l, 1, n)
  OBVIOUS
<1>3. PICK y : y = Step(x, c)
  OBVIOUS
<1>4. Good(x) /\ Quoted(s)
  BY <1>2 DEF InLine
<1>5. Good(y)
  BY <1>3, <1>4, StepGood DEF GoodAt
<1>6. PICK tmp : Leaves(y, IF c = DoubleQuote THEN "lex" ELSE DoubleQuote, x.toks, tmp, x.hd)
  BY <1>1, <1>3, <1>4, StepQuoted
<1>7. PICK ws : ws = Asked(before, l, n)
  OBVIOUS
<1>8. Asked(before, l, n + 1) = ws
      /\ (Quoted(before \o SubSeq(l, 1, n + 1)) <=> c # DoubleQuote)
  BY <1>1, <1>2, <1>4, <1>7, AskedNext
<1>9. Wants(x.toks, tx, ws)
  <2>1. Awaits(x, tx, l, n, ws)
    BY <1>7 DEF InLine
  <2>2. \A w : ~Reading(x, tx, l, n, w)
    BY DoubleQuoteIs DEF Reading
  <2>. QED BY <2>1, <2>2 DEF Awaits
<1>10. Awaits(y, tx, l, n + 1, ws)
  BY <1>6, <1>9 DEF Awaits, Leaves
<1>11. y.mode \in {"lex", "word", DoubleQuote} /\ y.mode # "word"
       /\ (y.mode = DoubleQuote <=> c # DoubleQuote)
  BY <1>6, DoubleQuoteIs DEF Leaves
<1>12. InLine(y, tx, l, n + 1, before)
  BY <1>5, <1>8, <1>10, <1>11 DEF InLine
<1>13. Keeps(x, y)
  BY <1>6 DEF Keeps, Counted, Leaves
<1>. QED BY <1>1, <1>3, <1>12, <1>13

\* A letter of a word, which may be the delimiter that is read.
LEMMA ReadingLetter ==
  ASSUME NEW x, Good(x), NEW tx \in Seq(Symbols), x.pos < Len(tx),
         NEW l \in Seq(Symbols), NEW n \in Nat, n < Len(l), l[n + 1] \in Plain,
         tx[x.pos + 1] = l[n + 1], x.mode \in {"lex", "word"},
         NEW w, Reading(x, tx, l, n, w)
  PROVE  Reading(Step(x, l[n + 1]), tx, l, n + 1, w)
<1>1. PICK c \in Plain : c = l[n + 1]
  OBVIOUS
<1>2. PICK y : y = Step(x, c)
  OBVIOUS
<1>3. PICK pos \in Nat, tmp \in Seq(Parts) : pos = x.pos /\ tmp = x.tmp
  BY LexersDef DEF Good
<1>4. Leaves(y, "word", x.toks,
             IF x.mode = "word" THEN tmp
             ELSE Append(tmp, [type |-> "UQUOTE", start |-> pos, end |-> pos]), x.hd)
  BY <1>2, <1>3, StepLetter
<1>5. y.pos = pos + 1
  <2>1. c \in Symbols
    BY DEF Symbols
  <2>. QED BY <1>2, <1>3, <2>1, StepGood DEF GoodAt
<1>6. Unquoted(l, n + 1)
  <2>1. SUFFICES ASSUME NEW e \in (n + 1)..(Len(l) - 1),
                        \A j \in ((n + 1) + 1)..e : l[j] \in Plain
                 PROVE  l[e + 1] # DoubleQuote
    BY DEF Unquoted
  <2>2. e \in n..(Len(l) - 1)
    OBVIOUS
  <2>3. ASSUME NEW j \in (n + 1)..e PROVE l[j] \in Plain
    <3>1. j = n + 1 \/ j \in ((n + 1) + 1)..e
      OBVIOUS
    <3>. QED BY <2>1, <3>1
  <2>. QED BY <2>2, <2>3 DEF Reading, Unquoted
<1>7. WordAt(l, n) = <<c>> \o WordAt(l, n + 1) /\ WordAt(l, n + 1) \in Seq(Symbols)
  BY <1>1, WordAtNext, WordAtType
<1>8. c \in Symbols /\ tx[pos + 1] = c /\ pos < Len(tx)
  BY <1>1, <1>3
<1>9. CASE x.mode = "lex"
  <2>1. tmp = <<>> /\ w = WordAt(l, n)
    BY <1>3, <1>9 DEF Reading
  <2>2. PICK p : p = [type |-> "UQUOTE", start |-> pos, end |-> pos]
    OBVIOUS
  <2>3. p.start = pos
    BY <2>2
  <2>4. y.tmp = <<p>>
    BY <1>4, <1>9, <2>1, <2>2 DEF Leaves
  <2>5. Len(y.tmp) = 1 /\ y.tmp[1].start = pos
    BY <2>3, <2>4
  <2>6. SubSeq(tx, pos + 1, pos + 1) = <<c>>
    BY <1>8, PieceOne
  <2>. QED BY <1>1, <1>2, <1>4, <1>5, <1>6, <1>7, <2>1, <2>5, <2>6 DEF Reading, Leaves
<1>10. CASE x.mode = "word"
  <2>1. Len(tmp) = 1 /\ w = SubSeq(tx, tmp[1].start + 1, pos) \o WordAt(l, n)
    BY <1>3, <1>10 DEF Reading
  <2>2. y.tmp = tmp
    BY <1>4, <1>10 DEF Leaves
  <2>3. PICK first \in Nat : first = tmp[1].start
    <3>1. 1 \in 1..Len(tmp)
      BY <2>1
    <3>2. tmp[1].start \in Nat
      BY <3>1, PartsDef, SMTT(30)
    <3>. QED BY <3>2
  <2>4. first <= pos
    <3>1. Within(tmp, pos)
      BY <1>3 DEF Good, Behind
    <3>2. tmp[1].start <= tmp[1].end /\ tmp[1].end <= pos /\ tmp[1].end \in Nat
      <4>1. 1 \in 1..Len(tmp)
        BY <2>1
      <4>2. tmp[1].start <= tmp[1].end /\ tmp[1].end <= pos
        BY <3>1, <4>1 DEF Within
      <4>3. tmp[1].end \in Nat
        BY <4>1, PartsDef
      <4>. QED BY <4>2, <4>3
    <3>. QED BY <2>3, <3>2
  <2>5. PICK piece \in Seq(Symbols) : piece = SubSeq(tx, first + 1, pos)
    <3>1. pos <= Len(tx)
      BY <1>8
    <3>2. SubSeq(tx, first + 1, pos) \in Seq(Symbols)
      BY <3>1, PieceType
    <3>. QED BY <3>2
  <2>6. SubSeq(tx, first + 1, pos + 1) = Append(piece, c)
    BY <1>8, <2>4, <2>5, PieceMore
  <2>7. PICK rest \in Seq(Symbols) : rest = WordAt(l, n + 1)
    BY <1>7
  <2>8. PICK one : one = <<c>>
    OBVIOUS
  <2>9. piece \o (one \o rest) = Append(piece, c) \o rest
    <3>1. PICK d \in Symbols : d = c
      BY <1>8
    <3>2. one = <<d>>
      BY <2>8, <3>1
    <3>3. piece \o (one \o rest) = Append(piece, d) \o rest
      BY <3>2, PieceJoins, SMTT(30)
    <3>. QED BY <3>1, <3>3
  <2>10. w = SubSeq(tx, first + 1, pos + 1) \o WordAt(l, n + 1)
    BY <1>7, <2>1, <2>3, <2>5, <2>6, <2>7, <2>8, <2>9
  <2>. QED BY <1>1, <1>2, <1>4, <1>5, <1>6, <2>1, <2>2, <2>3, <2>10 DEF Reading, Leaves
<1>. QED BY <1>9, <1>10

\* A letter, a quote.
LEMMA InLetter ==
  ASSUME NEW x, NEW tx \in Seq(Symbols), x.pos < Len(tx), NEW before \in Seq(Symbols),
         NEW l \in Seq(Symbols), NEW n \in Nat, n < Len(l), InLine(x, tx, l, n, before),
         x.mode # DoubleQuote, tx[x.pos + 1] = l[n + 1], l[n + 1] \in Plain
  PROVE  LET y == Step(x, l[n + 1]) IN InLine(y, tx, l, n + 1, before) /\ Keeps(x, y)
<1>1. PICK c \in Symbols : c = l[n + 1]
  OBVIOUS
<1>2. PICK s : s = before \o SubSeq(l, 1, n)
  OBVIOUS
<1>3. PICK y : y = Step(x, c)
  OBVIOUS
<1>4. Good(x) /\ ~Quoted(s) /\ x.mode \in {"lex", "word"} /\ (x.mode = "word" => x.tmp # <<>>)
  BY <1>2 DEF InLine
<1>5. Good(y)
  BY <1>3, <1>4, StepGood DEF GoodAt
<1>6. PICK p : p = [type |-> "UQUOTE", start |-> x.pos, end |-> x.pos]
  OBVIOUS
<1>7. Leaves(y, "word", x.toks, IF x.mode = "word" THEN x.tmp ELSE Append(x.tmp, p), x.hd)
  <2>1. c \in Plain
    BY <1>1
  <2>. QED BY <1>3, <1>4, <1>6, <2>1, StepLetter
<1>8. PICK ws : ws = Asked(before, l, n)
  OBVIOUS
<1>9. c # DoubleQuote /\ c # "<<"
  BY <1>1, DoubleQuoteIs DEF Plain
<1>10. Asked(before, l, n + 1) = ws /\ ~Quoted(before \o SubSeq(l, 1, n + 1))
  BY <1>1, <1>2, <1>4, <1>8, <1>9, AskedNext
<1>11. Awaits(x, tx, l, n, ws)
  BY <1>8 DEF InLine
<1>12. Awaits(y, tx, l, n + 1, ws)
  <2>1. \A w : Reading(x, tx, l, n, w) => Reading(y, tx, l, n + 1, w)
    <3>. TAKE w
    <3>. HAVE Reading(x, tx, l, n, w)
    <3>1. Reading(Step(x, l[n + 1]), tx, l, n + 1, w)
      BY <1>4, ReadingLetter
    <3>. QED BY <1>1, <1>3, <3>1
  <2>2. y.toks = x.toks
    BY <1>7 DEF Leaves
  <2>. QED BY <1>11, <2>1, <2>2 DEF Awaits
<1>13. y.mode = "word" /\ y.mode # DoubleQuote /\ y.tmp # <<>>
  <2>1. x.tmp \in Seq(Parts)
    BY <1>4, LexersDef DEF Good
  <2>2. p \in Parts
    <3>1. x.pos \in Nat /\ "UQUOTE" \in PartTypes
      BY <1>4, LexersDef DEF Good, PartTypes
    <3>. QED BY <1>6, <3>1 DEF Parts
  <2>3. Append(x.tmp, p) # <<>>
    BY <2>1, <2>2, FrontOfAppend
  <2>. QED BY <1>4, <1>7, <2>3, DoubleQuoteIs DEF Leaves
<1>14. InLine(y, tx, l, n + 1, before)
  BY <1>5, <1>10, <1>12, <1>13 DEF InLine
<1>15. Keeps(x, y)
  BY <1>7 DEF Keeps, Counted, Leaves
<1>. QED BY <1>1, <1>3, <1>14, <1>15

LEMMA InQuote ==
  ASSUME NEW x, NEW tx \in Seq(Symbols), NEW before \in Seq(Symbols),
         NEW l \in Seq(Symbols), NEW n \in Nat, n < Len(l), InLine(x, tx, l, n, before),
         x.mode # DoubleQuote, l[n + 1] = DoubleQuote
  PROVE  LET y == Step(x, l[n + 1]) IN InLine(y, tx, l, n + 1, before) /\ Keeps(x, y)
<1>1. PICK c \in Symbols : c = l[n + 1]
  OBVIOUS
<1>2. PICK s : s = before \o SubSeq(l, 1, n)
  OBVIOUS
<1>3. PICK y : y = Step(x, c)
  OBVIOUS
<1>4. Good(x) /\ ~Quoted(s) /\ x.mode \in {"lex", "word"}
  BY <1>2 DEF InLine
<1>5. Good(y)
  BY <1>3, <1>4, StepGood DEF GoodAt
<1>6. c \in Quotes /\ c = DoubleQuote /\ c # "<<" /\ c \notin Plain
  BY <1>1, DoubleQuoteIs
<1>7. PICK tmp : Leaves(y, c, x.toks, tmp, x.hd)
  BY <1>3, <1>4, <1>6, StepQuote
<1>8. PICK ws : ws = Asked(before, l, n)
  OBVIOUS
<1>10. Asked(before, l, n + 1) = ws /\ Quoted(before \o SubSeq(l, 1, n + 1))
  BY <1>1, <1>2, <1>4, <1>6, <1>8, AskedNext
<1>11. Wants(x.toks, tx, ws)
  <2>1. Awaits(x, tx, l, n, ws)
    BY <1>8 DEF InLine
  <2>2. \A w : ~Reading(x, tx, l, n, w)
    <3>1. SUFFICES ASSUME NEW w, Reading(x, tx, l, n, w) PROVE FALSE
      OBVIOUS
    <3>2. Unquoted(l, n)
      BY <3>1 DEF Reading
    <3>3. n \in n..(Len(l) - 1) /\ \A j \in (n + 1)..n : l[j] \in Plain
      OBVIOUS
    <3>4. l[n + 1] # DoubleQuote
      BY <3>2, <3>3 DEF Unquoted
    <3>. QED BY <3>4
  <2>. QED BY <2>1, <2>2 DEF Awaits
<1>12. Awaits(y, tx, l, n + 1, ws)
  BY <1>7, <1>11 DEF Awaits, Leaves
<1>13. y.mode = DoubleQuote /\ y.mode # "word"
  BY <1>6, <1>7, DoubleQuoteIs DEF Leaves
<1>14. InLine(y, tx, l, n + 1, before)
  BY <1>5, <1>10, <1>12, <1>13 DEF InLine
<1>15. Keeps(x, y)
  BY <1>7 DEF Keeps, Counted, Leaves
<1>. QED BY <1>1, <1>3, <1>14, <1>15

\* A blank or a newline ends the word.
LEMMA BlankEnds ==
  ASSUME NEW x, Good(x), x.mode \in {"lex", "word"}, x.mode = "word" => x.tmp # <<>>,
         NEW tx \in Seq(Symbols), x.pos <= Len(tx), NEW l \in Seq(Symbols),
         NEW n \in 0..Len(l), n < Len(l) => l[n + 1] \notin Plain \cup {DoubleQuote},
         NEW ws \in Texts, Awaits(x, tx, l, n, ws), NEW c \in Blanks
  PROVE  LET y == Step(x, c)
         IN y.mode = "lex" /\ Wants(y.toks, tx, ws) /\ Keeps(x, y)
<1>1. PICK parts : parts = Parted(x)
  OBVIOUS
<1>2. parts \in Seq(Parts) /\ Wants(Worded(x.toks, parts), tx, ws)
  BY <1>1, WordEnded
<1>3. PICK y : y = Step(x, c)
  OBVIOUS
<1>4. PICK words : words = Worded(x.toks, parts)
  OBVIOUS
<1>5. x.toks \in Seq(Tokens)
  BY LexersDef DEF Good
<1>6. words \in Seq(Tokens) /\ Bodies(words) = Bodies(x.toks)
      /\ (Unasked(x.toks) => Unasked(words))
  BY <1>2, <1>4, <1>5, WordedBodies, UnaskedWorded
<1>7. PICK t \in Tokens : t = Token("NEWLINE", <<>>)
  <2>1. "NEWLINE" \in TokTypes /\ <<>> \in Seq(Parts)
    BY DEF TokTypes
  <2>. QED BY <2>1, TokenType
<1>8. ~t.flag /\ t.type = "NEWLINE"
  BY <1>7 DEF Token
<1>9. Leaves(y, "lex", IF c = "\n" THEN Append(words, t) ELSE words, <<>>, x.hd)
  BY <1>1, <1>3, <1>4, <1>7, StepBlank
<1>10. Wants(words, tx, ws)
  BY <1>2, <1>4
<1>11. Wants(Append(words, t), tx, ws) /\ Bodies(Append(words, t)) = Bodies(words)
       /\ (Unasked(words) => Unasked(Append(words, t)))
  BY <1>6, <1>8, <1>10, WantsMore, BodiesSame, UnaskedMore
<1>12. y.mode = "lex" /\ Wants(y.toks, tx, ws)
  BY <1>9, <1>10, <1>11 DEF Leaves
<1>13. Keeps(x, y)
  BY <1>6, <1>9, <1>11 DEF Keeps, Counted, Leaves
<1>. QED BY <1>3, <1>12, <1>13

\* A blank is a symbol of its own kind.
LEMMA BlanksAre ==
  \A c \in Blanks : c # "<<" /\ c \notin Plain /\ c # DoubleQuote /\ c \in Symbols
<1>1. DoubleQuote \notin Blanks
  BY DoubleQuoteIs
<1>. QED BY <1>1 DEF Blanks, Plain, Symbols

\* A blank, an operator.
LEMMA InBlank ==
  ASSUME NEW x, NEW tx \in Seq(Symbols), x.pos <= Len(tx), NEW before \in Seq(Symbols),
         NEW l \in Seq(Symbols), NEW n \in Nat, n < Len(l), InLine(x, tx, l, n, before),
         x.mode # DoubleQuote, l[n + 1] \in Blanks
  PROVE  LET y == Step(x, l[n + 1]) IN InLine(y, tx, l, n + 1, before) /\ Keeps(x, y)
<1>1. PICK c \in Blanks : c = l[n + 1]
  OBVIOUS
<1>2. PICK s : s = before \o SubSeq(l, 1, n)
  OBVIOUS
<1>3. PICK y : y = Step(x, c)
  OBVIOUS
<1>4. Good(x) /\ ~Quoted(s) /\ x.mode \in {"lex", "word"} /\ (x.mode = "word" => x.tmp # <<>>)
  BY <1>2 DEF InLine
<1>5. Good(y)
  <2>1. c \in Symbols
    BY <1>1
  <2>. QED BY <1>3, <1>4, <2>1, StepGood DEF GoodAt
<1>6. c # "<<" /\ c \notin Plain /\ c # DoubleQuote
  BY BlanksAre
<1>7. PICK ws : ws = Asked(before, l, n)
  OBVIOUS
<1>8. ws \in Texts /\ Asked(before, l, n + 1) = ws /\ ~Quoted(before \o SubSeq(l, 1, n + 1))
  BY <1>1, <1>2, <1>4, <1>6, <1>7, AskedNext
<1>9. n \in 0..Len(l) /\ l[n + 1] \notin Plain \cup {DoubleQuote} /\ Awaits(x, tx, l, n, ws)
  <2>1. n \in 0..Len(l)
    OBVIOUS
  <2>2. l[n + 1] \notin Plain \cup {DoubleQuote}
    BY <1>1, <1>6
  <2>3. Awaits(x, tx, l, n, ws)
    BY <1>7 DEF InLine
  <2>. QED BY <2>1, <2>2, <2>3
<1>10. y.mode = "lex" /\ Wants(y.toks, tx, ws) /\ Keeps(x, y)
  BY <1>3, <1>4, <1>6, <1>8, <1>9, BlankEnds
<1>11. Awaits(y, tx, l, n + 1, ws)
  BY <1>10 DEF Awaits
<1>12. InLine(y, tx, l, n + 1, before)
  BY <1>5, <1>8, <1>10, <1>11, DoubleQuoteIs DEF InLine
<1>. QED BY <1>1, <1>3, <1>10, <1>12

LEMMA InOperator ==
  ASSUME NEW x, NEW tx \in Seq(Symbols), x.pos <= Len(tx), NEW before \in Seq(Symbols),
         NEW l \in Seq(Symbols), Readable(l), NEW n \in Nat, n < Len(l),
         InLine(x, tx, l, n, before), x.mode # DoubleQuote, l[n + 1] \in Operators
  PROVE  LET y == Step(x, l[n + 1]) IN InLine(y, tx, l, n + 1, before) /\ Keeps(x, y)
<1>1. PICK c \in Operators : c = l[n + 1]
  OBVIOUS
<1>2. PICK s : s = before \o SubSeq(l, 1, n)
  OBVIOUS
<1>3. PICK y : y = Step(x, c)
  OBVIOUS
<1>4. Good(x) /\ ~Quoted(s) /\ x.mode \in {"lex", "word"} /\ (x.mode = "word" => x.tmp # <<>>)
  BY <1>2 DEF InLine
<1>5. Good(y)
  <2>1. c \in Symbols
    BY <1>1
  <2>. QED BY <1>3, <1>4, <2>1, StepGood DEF GoodAt
<1>6. c \notin Plain /\ c # DoubleQuote /\ c # "WORD"
  BY DoubleQuoteIs DEF Operators, Plain, CtrlOps, Redirs, Parens
<1>7. PICK ws \in Texts : ws = Asked(before, l, n)
  BY AskedNext
<1>8. /\ ~Quoted(before \o SubSeq(l, 1, n + 1))
      /\ Asked(before, l, n + 1) = IF c = "<<" THEN Append(ws, WordAt(l, n + 1)) ELSE ws
  BY <1>1, <1>2, <1>4, <1>6, <1>7, AskedNext
<1>9. n \in 0..Len(l) /\ l[n + 1] \notin Plain \cup {DoubleQuote} /\ Awaits(x, tx, l, n, ws)
  BY <1>1, <1>6, <1>7 DEF InLine
<1>10. PICK parts : parts = EndAt(x.tmp, x.pos)
  OBVIOUS
<1>11. PICK words : words = Worded(x.toks, parts)
  OBVIOUS
<1>12. parts \in Seq(Parts) /\ Wants(words, tx, ws)
  BY <1>4, <1>9, <1>10, <1>11, WordEnded
<1>13. x.toks \in Seq(Tokens)
  BY <1>4, LexersDef DEF Good
<1>14. words \in Seq(Tokens) /\ Bodies(words) = Bodies(x.toks)
       /\ (Unasked(x.toks) => Unasked(words))
  BY <1>11, <1>12, <1>13, WordedBodies, UnaskedWorded
<1>15. PICK t \in Tokens : t = Token(c, <<>>)
  <2>1. c \in TokTypes /\ <<>> \in Seq(Parts)
    BY DEF TokTypes
  <2>. QED BY <2>1, TokenType
<1>16. (t.flag <=> c = "<<") /\ t.type # "BODY"
  BY <1>15 DEF Token, Operators, CtrlOps, Redirs, Parens
<1>17. Leaves(y, "lex", Append(words, t), <<>>, IF c = "<<" THEN x.hd + 1 ELSE x.hd)
  BY <1>3, <1>4, <1>10, <1>11, <1>15, StepOperator
<1>18. y.toks = Append(words, t) /\ y.mode = "lex" /\ y.tmp = <<>>
       /\ y.mode # "word" /\ y.mode # DoubleQuote
  BY <1>17, DoubleQuoteIs DEF Leaves
<1>19. Keeps(x, y)
  <2>1. Bodies(y.toks) = Bodies(x.toks)
    BY <1>14, <1>16, <1>18, BodiesSame
  <2>2. x.hd \in Nat /\ y.hd = IF c = "<<" THEN x.hd + 1 ELSE x.hd
    BY <1>4, <1>17, LexersDef DEF Good, Leaves
  <2>3. CASE c = "<<"
    BY <2>1, <2>2, <2>3 DEF Keeps, Counted
  <2>4. CASE c # "<<"
    <3>1. Unasked(x.toks) => Unasked(y.toks)
      BY <1>14, <1>16, <1>18, <2>4, UnaskedMore
    <3>. QED BY <2>1, <2>2, <2>4, <3>1 DEF Keeps, Counted
  <2>. QED BY <2>3, <2>4
<1>20. Awaits(y, tx, l, n + 1, Asked(before, l, n + 1))
  <2>1. CASE c # "<<"
    <3>1. Wants(Append(words, t), tx, ws)
      BY <1>12, <1>14, <1>16, <2>1, WantsMore
    <3>. QED BY <1>8, <1>18, <2>1, <3>1 DEF Awaits
  <2>2. CASE c = "<<"
    <3>1. PICK w \in Seq(Symbols) : w = WordAt(l, n + 1)
      <4>1. n + 1 \in 0..Len(l)
        OBVIOUS
      <4>. QED BY <4>1, WordAtType
    <3>2. PICK more : more = Append(ws, w)
      OBVIOUS
    <3>3. SubSeq(more, 1, Len(more) - 1) = ws /\ more[Len(more)] = w /\ more # <<>>
      <4>1. ws \in Seq(Seq(Symbols)) /\ w \in Seq(Symbols)
        BY DEF Texts
      <4>. QED BY <3>2, <4>1, FrontOfAppend, SMTT(30)
    <3>4. /\ SubSeq(y.toks, 1, Len(y.toks) - 1) = words /\ y.toks[Len(y.toks)] = t
          /\ y.toks # <<>>
      BY <1>14, <1>18, FrontOfAppend
    <3>5. n + 1 \in 1..Len(l) /\ l[n + 1] = "<<"
      BY <1>1, <2>2
    <3>6. n + 1 < Len(l) /\ l[(n + 1) + 1] \in Plain /\ Unquoted(l, n + 1)
      BY <3>5 DEF Readable
    <3>7. Reading(y, tx, l, n + 1, w)
      BY <1>18, <3>1, <3>6 DEF Reading
    <3>8. Awaits(y, tx, l, n + 1, more)
      BY <1>12, <1>16, <2>2, <3>3, <3>4, <3>7 DEF Awaits
    <3>. QED BY <1>8, <2>2, <3>1, <3>2, <3>8
  <2>. QED BY <2>1, <2>2
<1>21. InLine(y, tx, l, n + 1, before)
  BY <1>5, <1>8, <1>18, <1>20 DEF InLine
<1>. QED BY <1>1, <1>3, <1>19, <1>21

\* Every symbol of a line.
LEMMA InLineStep ==
  ASSUME NEW x, NEW tx \in Seq(Symbols), x.pos < Len(tx), NEW before \in Seq(Symbols),
         NEW l \in Seq(Symbols), Readable(l), NEW n \in Nat, n < Len(l),
         InLine(x, tx, l, n, before), tx[x.pos + 1] = l[n + 1]
  PROVE  LET y == Step(x, l[n + 1]) IN InLine(y, tx, l, n + 1, before) /\ Keeps(x, y)
<1>1. x.pos \in Nat /\ x.pos <= Len(tx)
  <2>1. x.pos \in Nat
    BY LexersDef DEF InLine, Good
  <2>. QED BY <2>1
<1>2. n + 1 \in 1..Len(l)
  OBVIOUS
<1>3. l[n + 1] \in Letters
  BY <1>2 DEF Readable
<1>4. l[n + 1] \in Plain \/ l[n + 1] = DoubleQuote \/ l[n + 1] = " " \/ l[n + 1] \in Operators
  BY <1>3 DEF Letters
<1>5. l[n + 1] # "\\"
  BY <1>4, DoubleQuoteIs DEF Plain, Operators, CtrlOps, Redirs, Parens
<1>6. CASE x.mode = DoubleQuote
  BY <1>5, <1>6, InQuotes
<1>7. CASE x.mode # DoubleQuote /\ l[n + 1] \in Plain
  BY <1>7, InLetter
<1>8. CASE x.mode # DoubleQuote /\ l[n + 1] = DoubleQuote
  BY <1>8, InQuote
<1>9. CASE x.mode # DoubleQuote /\ l[n + 1] = " "
  <2>1. l[n + 1] \in Blanks
    BY <1>9 DEF Blanks
  <2>. QED BY <1>1, <1>9, <2>1, InBlank
<1>10. CASE x.mode # DoubleQuote /\ l[n + 1] \in Operators
  BY <1>1, <1>10, InOperator
<1>. QED BY <1>4, <1>6, <1>7, <1>8, <1>9, <1>10

\* The end of a line: a newline, or the end of the chunk.
LEMMA WholeLine ==
  ASSUME NEW S, NEW l \in Seq(S)
  PROVE  SubSeq(l, 1, Len(l)) = l
OBVIOUS

\* The newline of the line.
LEMMA AtNewline ==
  ASSUME NEW x, NEW tx \in Seq(Symbols), x.pos <= Len(tx), NEW before \in Seq(Symbols),
         NEW l \in Seq(Symbols), InLine(x, tx, l, Len(l), before), NEW c \in Blanks
  PROVE  LET y == Step(x, c)
         IN /\ y.mode \in {"lex", DoubleQuote} /\ (y.mode = DoubleQuote <=> Quoted(before \o l))
            /\ Wants(y.toks, tx, Asked(before, l, Len(l))) /\ Keeps(x, y)
<1>1. PICK n \in Nat : n = Len(l)
  OBVIOUS
<1>2. SubSeq(l, 1, n) = l /\ n \in 0..Len(l) /\ ~(n < Len(l))
  BY <1>1, WholeLine
<1>3. PICK ws \in Texts : ws = Asked(before, l, n)
  BY <1>2, AskedIs
<1>4. /\ Good(x) /\ x.mode \in {"lex", "word", DoubleQuote} /\ (x.mode = "word" => x.tmp # <<>>)
      /\ (x.mode = DoubleQuote <=> Quoted(before \o l)) /\ Awaits(x, tx, l, n, ws)
  BY <1>1, <1>2, <1>3 DEF InLine
<1>5. PICK y : y = Step(x, c)
  OBVIOUS
<1>6. CASE x.mode = DoubleQuote
  <2>1. c \in Symbols /\ c # DoubleQuote /\ c # "\\"
    BY BlanksAre DEF Blanks
  <2>2. PICK tmp : Leaves(y, IF c = DoubleQuote THEN "lex" ELSE DoubleQuote, x.toks, tmp, x.hd)
    BY <1>4, <1>5, <1>6, <2>1, StepQuoted
  <2>3. \A w : ~Reading(x, tx, l, n, w)
    BY <1>6, DoubleQuoteIs DEF Reading
  <2>4. Wants(x.toks, tx, ws)
    BY <1>4, <2>3 DEF Awaits
  <2>5. y.mode = DoubleQuote /\ y.toks = x.toks /\ y.hd = x.hd
    BY <2>1, <2>2 DEF Leaves
  <2>6. Keeps(x, y)
    BY <2>5 DEF Keeps, Counted
  <2>. QED BY <1>1, <1>3, <1>4, <1>5, <1>6, <2>4, <2>5, <2>6
<1>7. CASE x.mode # DoubleQuote
  <2>1. y.mode = "lex" /\ Wants(y.toks, tx, ws) /\ Keeps(x, y)
    BY <1>2, <1>4, <1>5, <1>7, BlankEnds
  <2>. QED BY <1>1, <1>3, <1>4, <1>5, <1>7, <2>1, DoubleQuoteIs
<1>. QED BY <1>6, <1>7

\* The tokens that end a chunk.
Ending(x, term) ==
  LET word == In(WordEmit(IF x.mode = "word" THEN CloseTmpPart(x) ELSE x), "lex")
      newline == IF term THEN Emit(word, "NEWLINE") ELSE word
  IN IF newline.ctxs = <<>> THEN Emit(newline, "EOF") ELSE newline

\* What run_lexer does at the end of the chunk, in parts.
LEMMA EndChunkIs ==
  ASSUME NEW x, NEW term
  PROVE  /\ x.mode \in {"lex", "word"} => EndChunk(x, term) = Ending(x, term)
         /\ x.mode = DoubleQuote => EndChunk(x, term) = x
<1>1. ASSUME x.mode \in {"lex", "word"} PROVE EndChunk(x, term) = Ending(x, term)
  BY <1>1 DEF EndChunk, Ending, Quotes
<1>2. ASSUME x.mode = DoubleQuote PROVE EndChunk(x, term) = x
  BY <1>2 DEF EndChunk, Quotes, DoubleQuote
<1>. QED BY <1>1, <1>2

\* A token without a mark, emitted behind those that are there.
LEMMA EmitKeeps ==
  ASSUME NEW x, Good(x), NEW tx, NEW ws \in Texts, Wants(x.toks, tx, ws),
         NEW type \in {"NEWLINE", "EOF"}
  PROVE  LET y == Emit(x, type)
         IN Good(y) /\ y.mode = x.mode /\ Wants(y.toks, tx, ws) /\ Keeps(x, y)
<1>1. type \in TokTypes /\ type # "<<" /\ type # "BODY"
  BY DEF TokTypes
<1>2. PICK t \in Tokens : t = Token(type, <<>>)
  <2>1. <<>> \in Seq(Parts)
    OBVIOUS
  <2>. QED BY <1>1, <2>1, TokenType
<1>3. ~t.flag /\ t.type # "BODY"
  BY <1>1, <1>2 DEF Token
<1>4. PICK y : y = Emit(x, type)
  OBVIOUS
<1>5. Good(y) /\ y.mode = x.mode /\ y.toks = Append(x.toks, t) /\ y.hd = x.hd
  BY <1>1, <1>2, <1>4, AtEmit, CountKept DEF At
<1>6. x.toks \in Seq(Tokens)
  BY LexersDef DEF Good
<1>7. Wants(y.toks, tx, ws)
  BY <1>3, <1>5, <1>6, WantsMore
<1>8. Keeps(x, y)
  BY <1>3, <1>5, <1>6, BodiesSame, UnaskedMore DEF Keeps, Counted
<1>. QED BY <1>4, <1>5, <1>7, <1>8

\* Keeps, one after the other.
LEMMA KeepsOn ==
  ASSUME NEW x, NEW y, NEW z, Keeps(x, y), Keeps(y, z)
  PROVE  Keeps(x, z)
BY DEF Keeps

\* At the end of a chunk all delimiters are there.
LEMMA ChunkEnds ==
  ASSUME NEW x, Good(x), x.mode \in {"lex", "word", DoubleQuote}, x.mode = "word" => x.tmp # <<>>,
         NEW tx \in Seq(Symbols), x.pos <= Len(tx), NEW l \in Seq(Symbols),
         NEW ws \in Texts, Awaits(x, tx, l, Len(l), ws), NEW term \in BOOLEAN
  PROVE  LET y == EndChunk(x, term)
         IN /\ y.mode \in {"lex", DoubleQuote} /\ (y.mode = DoubleQuote <=> x.mode = DoubleQuote)
            /\ Wants(y.toks, tx, ws) /\ Keeps(x, y)
<1>1. CASE x.mode = DoubleQuote
  <2>1. \A w : ~Reading(x, tx, l, Len(l), w)
    BY <1>1, DoubleQuoteIs DEF Reading
  <2>2. Wants(x.toks, tx, ws)
    BY <2>1 DEF Awaits
  <2>3. EndChunk(x, term) = x
    BY <1>1, EndChunkIs
  <2>4. Keeps(x, x)
    BY DEF Keeps
  <2>. QED BY <1>1, <2>2, <2>3, <2>4
<1>2. CASE x.mode # DoubleQuote
  <2>1. PICK n \in 0..Len(l) : n = Len(l)
    OBVIOUS
  <2>2. PICK b : b = IF x.mode = "word" THEN CloseTmpPart(x) ELSE x
    OBVIOUS
  <2>3. Good(b) /\ b.toks = x.toks /\ b.tmp = Parted(x) /\ b.hd = x.hd
    BY <2>2, AtClose, CountKept DEF At, Parted
  <2>4. PICK parts \in Seq(Parts) : parts = Parted(x) /\ Wants(Worded(x.toks, parts), tx, ws)
    <3>1. Awaits(x, tx, l, n, ws) /\ ~(n < Len(l))
      BY <2>1
    <3>2. PICK parts : parts = Parted(x)
      OBVIOUS
    <3>3. parts \in Seq(Parts) /\ Wants(Worded(x.toks, parts), tx, ws)
      BY <1>2, <3>1, <3>2, WordEnded
    <3>. QED BY <3>2, <3>3
  <2>5. PICK words : words = Worded(x.toks, parts)
    OBVIOUS
  <2>6. PICK emitted : emitted = WordEmit(b)
    OBVIOUS
  <2>7. Good(emitted) /\ emitted.toks = words /\ emitted.hd = x.hd
    BY <2>3, <2>4, <2>5, <2>6, AtWord, CountKept DEF At
  <2>8. PICK word : word = In(emitted, "lex")
    OBVIOUS
  <2>9. Good(word) /\ word.mode = "lex" /\ word.toks = words /\ word.hd = x.hd
    <3>1. "lex" \in Modes
      BY DEF Modes
    <3>. QED BY <2>7, <2>8, <3>1, AtIn, CountKept DEF At
  <2>10. Wants(word.toks, tx, ws)
    BY <2>4, <2>5, <2>9
  <2>11. Keeps(x, word)
    <3>1. x.toks \in Seq(Tokens)
      BY LexersDef DEF Good
    <3>. QED BY <2>5, <2>9, <3>1, WordedBodies, UnaskedWorded DEF Keeps, Counted
  <2>12. PICK newline : newline = IF term THEN Emit(word, "NEWLINE") ELSE word
    OBVIOUS
  <2>13. Good(newline) /\ newline.mode = "lex" /\ Wants(newline.toks, tx, ws) /\ Keeps(x, newline)
    <3>1. CASE term
      BY <2>9, <2>10, <2>11, <2>12, <3>1, EmitKeeps, KeepsOn
    <3>2. CASE ~term
      BY <2>9, <2>10, <2>11, <2>12, <3>2
    <3>. QED BY <3>1, <3>2
  <2>14. PICK y : y = IF newline.ctxs = <<>> THEN Emit(newline, "EOF") ELSE newline
    OBVIOUS
  <2>15. y.mode = "lex" /\ Wants(y.toks, tx, ws) /\ Keeps(x, y)
    <3>1. CASE newline.ctxs = <<>>
      BY <2>13, <2>14, <3>1, EmitKeeps, KeepsOn
    <3>2. CASE newline.ctxs # <<>>
      BY <2>13, <2>14, <3>2
    <3>. QED BY <3>1, <3>2
  <2>16. EndChunk(x, term) = y
    <3>1. EndChunk(x, term) = Ending(x, term)
      BY <1>2, EndChunkIs
    <3>. QED BY <2>2, <2>6, <2>8, <2>12, <2>14, <3>1 DEF Ending
  <2>. QED BY <1>2, <2>15, <2>16, DoubleQuoteIs
<1>. QED BY <1>1, <1>2

-----------------------------------------------------------------------------
(* The body of a here-document.                                              *)

\* A delimiter of one part is what the part delimits.
LEMMA OnePiece ==
  ASSUME NEW t \in Tokens, NEW w \in Seq(Symbols), Says(t, w, total)
  PROVE  TextOf(t.parts) = w
<1>1. PICK parts : parts = t.parts
  OBVIOUS
<1>2. Len(parts) = 1 /\ SubSeq(total, parts[1].start + 1, parts[1].end) = w
  BY <1>1 DEF Says
<1>. DEFINE F(h) == [k \in 0..1 |-> IF k = 0 THEN <<>>
                                    ELSE h[k - 1] \o SubSeq(total, parts[k].start + 1, parts[k].end)]
            go == CHOOSE h : h = F(h)
            f == [k \in 0..1 |-> IF k = 0 THEN <<>> ELSE w]
<1>3. TextOf(parts) = go[1]
  BY <1>2 DEF TextOf
<1>4. f = F(f)
  <2>1. f[0] = <<>> /\ f[1] = w /\ f = [k \in 0..1 |-> f[k]]
    OBVIOUS
  <2>2. <<>> \o w = w
    BY ConcatEmptySeq
  <2>3. \A k \in 0..1 : F(f)[k] = IF k = 0 THEN <<>>
                                  ELSE f[k - 1] \o SubSeq(total, parts[k].start + 1, parts[k].end)
    OBVIOUS
  <2>. HIDE DEF f
  <2>4. F(f) = [k \in 0..1 |-> F(f)[k]]
    OBVIOUS
  <2>. HIDE DEF F
  <2>5. F(f)[0] = f[0] /\ F(f)[1] = f[1]
    <3>1. F(f)[0] = <<>>
      BY <2>3
    <3>2. F(f)[1] = f[1 - 1] \o SubSeq(total, parts[1].start + 1, parts[1].end)
      <4>1. 1 \in 0..1 /\ 1 # 0
        OBVIOUS
      <4>. QED BY <2>3, <4>1, Zenon
    <3>3. 1 - 1 = 0
      OBVIOUS
    <3>4. F(f)[1] = <<>> \o w
      BY <1>2, <2>1, <3>2, <3>3
    <3>. QED BY <2>1, <2>2, <3>1, <3>4
  <2>6. \A k \in 0..1 : k = 0 \/ k = 1
    OBVIOUS
  <2>7. \A k \in 0..1 : F(f)[k] = f[k]
    BY <2>5, <2>6
  <2>. QED BY <2>1, <2>4, <2>7
<1>. HIDE DEF f
<1>5. go = F(go)
  <2>. HIDE DEF F
  <2>. QED BY <1>4
<1>. HIDE DEF go
<1>6. go[0] = <<>> /\ go[1] = go[0] \o w
  <2>1. \A k \in 0..1 : F(go)[k] = IF k = 0 THEN <<>>
                                   ELSE go[k - 1] \o SubSeq(total, parts[k].start + 1, parts[k].end)
    OBVIOUS
  <2>. HIDE DEF F
  <2>2. go[0] = <<>>
    BY <1>5, <2>1
  <2>3. go[1] = go[1 - 1] \o SubSeq(total, parts[1].start + 1, parts[1].end)
    <3>1. 1 \in 0..1 /\ 1 # 0
      OBVIOUS
    <3>. QED BY <1>5, <2>1, <3>1, Zenon
  <2>4. 1 - 1 = 0
    OBVIOUS
  <2>. QED BY <1>2, <2>2, <2>3, <2>4
<1>7. <<>> \o w = w
  BY ConcatEmptySeq
<1>. QED BY <1>1, <1>3, <1>6, <1>7

\* The first redirection that is marked is the one that waits for the first body.
LEMMA BodyBegins ==
  ASSUME NEW toks \in Seq(Tokens), NEW tx, NEW ws \in Texts, Wants(toks, tx, ws),
         NEW k \in 1..Len(toks), toks[k].flag, \A j \in 1..(k - 1) : ~toks[j].flag,
         NEW more \in Seq(Tokens), Len(more) = Len(toks), more[k] = [toks[k] EXCEPT !.flag = FALSE],
         \A j \in 1..Len(toks) : j # k => more[j] = toks[j]
  PROVE  \E w \in Seq(Symbols), rest \in Texts :
           /\ ws = <<w>> \o rest /\ k < Len(toks) /\ Says(more[k + 1], w, tx)
           /\ Wants(more, tx, rest) /\ Bodies(more) = Bodies(toks)
           /\ \A j \in k..Len(more) : more[j].type # "BODY"
           /\ \A j \in 1..Len(more) : more[j].flag => j > k + 1
<1>1. PICK at : WantsAt(at, toks, tx, ws)
  BY DEF Wants
<1>2. PICK n \in Nat, m \in Nat : n = Len(toks) /\ m = Len(ws)
  <2>1. Len(toks) \in Nat /\ Len(ws) \in Nat
    BY LenProperties DEF Texts
  <2>. QED BY <2>1
<1>3. at \in [1..m -> 1..n] /\ \A i \in 1..m : at[i] \in 1..n
  BY <1>1, <1>2 DEF WantsAt
<1>4. k \in 1..n
  BY <1>2
<1>5. \A i, j \in 1..m : i < j => at[i] < at[j]
  BY <1>1, <1>2 DEF WantsAt
<1>6. \A i \in 1..m : toks[at[i]].flag /\ at[i] < n /\ Says(toks[at[i] + 1], ws[i], tx)
  BY <1>1, <1>2 DEF WantsAt
<1>7. PICK i0 \in 1..m : at[i0] = k
  BY <1>1, <1>2, <1>4 DEF WantsAt
<1>8. 1 \in 1..m /\ at[1] = k
  <2>1. 1 \in 1..m
    OBVIOUS
  <2>2. CASE i0 = 1
    BY <1>7, <2>1, <2>2
  <2>3. CASE i0 # 1
    <3>1. 1 < i0 /\ at[1] < k
      BY <1>5, <1>7, <2>1, <2>3
    <3>2. at[1] \in 1..(k - 1)
      BY <1>3, <2>1, <3>1
    <3>. QED BY <1>6, <2>1, <3>2
  <2>. QED BY <2>2, <2>3
<1>9. PICK w \in Seq(Symbols) : w = ws[1]
  BY <1>2, <1>8 DEF Texts
<1>10. PICK rest \in Texts : rest = Tail(ws)
  <2>1. ws # <<>>
    BY <1>2, <1>8 DEF Texts
  <2>. QED BY <2>1, HeadTailProperties DEF Texts
<1>11. Len(rest) = m - 1 /\ \A i \in 1..(m - 1) : rest[i] = ws[i + 1]
  BY <1>2, <1>8, <1>10 DEF Texts
<1>12. ws = <<w>> \o rest
  BY <1>2, <1>8, <1>9, <1>10 DEF Texts
<1>13. k < n /\ Says(toks[k + 1], w, tx)
  BY <1>6, <1>8, <1>9
<1>14. k + 1 \in 1..n /\ k + 1 # k
  BY <1>4, <1>13
<1>15. more[k + 1] = toks[k + 1]
  BY <1>2, <1>14
<1>16. more[k].type = toks[k].type /\ more[k].body = toks[k].body /\ ~more[k].flag
  BY <1>4 DEF Tokens
<1>17. ASSUME NEW j \in 1..n
       PROVE  more[j].type = toks[j].type /\ more[j].body = toks[j].body
              /\ (more[j].flag => toks[j].flag /\ j # k)
  BY <1>2, <1>16
<1>18. Bodies(more) = Bodies(toks)
  <2>1. \A j \in 1..n : more[j].type = toks[j].type /\ more[j].body = toks[j].body
    BY <1>17
  <2>2. \A j \in (n + 1)..n : more[j].type # "BODY"
    OBVIOUS
  <2>3. n <= n
    OBVIOUS
  <2>. QED BY <1>2, <2>1, <2>2, <2>3, BodiesPrefix
<1>19. ASSUME NEW j \in k..n PROVE more[j].type # "BODY"
  <2>1. j \in 1..n
    BY <1>4
  <2>2. toks[j].type # "BODY"
    <3>1. SUFFICES ASSUME toks[j].type = "BODY" PROVE FALSE
      OBVIOUS
    <3>2. j < at[1]
      BY <1>1, <1>2, <1>8, <2>1, <3>1 DEF WantsAt
    <3>. QED BY <1>4, <1>8, <2>1, <3>2
  <2>. QED BY <1>17, <2>1, <2>2
<1>20. ASSUME NEW j \in 1..n, more[j].flag PROVE j > k + 1
  <2>1. toks[j].flag /\ j # k
    BY <1>17, <1>20
  <2>2. j \notin 1..(k - 1)
    BY <2>1
  <2>3. j # k + 1
    BY <1>13, <2>1 DEF Says
  <2>. QED BY <1>4, <2>1, <2>2, <2>3
<1>21. PICK to \in [1..(m - 1) -> 1..n] : \A i \in 1..(m - 1) : to[i] = at[i + 1]
  <2>. DEFINE to == [i \in 1..(m - 1) |-> at[i + 1]]
  <2>1. to \in [1..(m - 1) -> 1..n]
    BY <1>3
  <2>2. \A i \in 1..(m - 1) : to[i] = at[i + 1]
    OBVIOUS
  <2>. HIDE DEF to
  <2>. QED BY <2>1, <2>2
<1>22. ASSUME NEW i \in 1..(m - 1)
       PROVE  /\ i + 1 \in 1..m /\ to[i] = at[i + 1] /\ at[i + 1] \in 1..n /\ at[i + 1] > k
              /\ rest[i] = ws[i + 1]
  <2>1. i + 1 \in 1..m /\ 1 < i + 1
    OBVIOUS
  <2>. QED BY <1>3, <1>5, <1>8, <1>11, <1>21, <2>1
<1>23. ASSUME NEW i \in 1..(m - 1)
       PROVE  more[to[i]].flag /\ to[i] < n /\ Says(more[to[i] + 1], rest[i], tx)
  <2>1. PICK p \in 1..n : p = to[i]
    BY <1>22
  <2>2. toks[p].flag /\ p < n /\ Says(toks[p + 1], rest[i], tx) /\ p > k
    BY <1>6, <1>22, <2>1
  <2>3. more[p] = toks[p] /\ p + 1 \in 1..n /\ p + 1 # k /\ p # k
    BY <1>2, <1>4, <2>2
  <2>4. more[p + 1] = toks[p + 1]
    BY <1>2, <2>3
  <2>. QED BY <2>1, <2>2, <2>3, <2>4
<1>24. ASSUME NEW i \in 1..(m - 1), NEW j \in 1..(m - 1), i < j PROVE to[i] < to[j]
  <2>1. i + 1 < j + 1
    BY <1>24
  <2>. QED BY <1>5, <1>22, <2>1
<1>25. ASSUME NEW j \in 1..n, more[j].flag PROVE \E i \in 1..(m - 1) : to[i] = j
  <2>1. toks[j].flag /\ j # k
    BY <1>17, <1>25
  <2>2. PICK i \in 1..m : at[i] = j
    BY <1>1, <1>2, <2>1 DEF WantsAt
  <2>3. i # 1
    BY <1>8, <2>1, <2>2
  <2>4. i - 1 \in 1..(m - 1) /\ (i - 1) + 1 = i
    BY <2>3
  <2>5. to[i - 1] = j
    BY <1>21, <2>2, <2>4
  <2>. QED BY <2>4, <2>5
<1>26. ASSUME NEW j \in 1..n, more[j].type = "BODY", NEW i \in 1..(m - 1) PROVE j < to[i]
  <2>1. toks[j].type = "BODY"
    BY <1>17, <1>26
  <2>. QED BY <1>1, <1>2, <1>22, <2>1 DEF WantsAt
<1>27. WantsAt(to, more, tx, rest)
  BY <1>2, <1>11, <1>21, <1>23, <1>24, <1>25, <1>26 DEF WantsAt
<1>28. Wants(more, tx, rest)
  BY <1>27 DEF Wants
<1>29. Says(more[k + 1], w, tx) /\ k < Len(toks)
  BY <1>2, <1>13, <1>15
<1>30. \A j \in k..Len(more) : more[j].type # "BODY"
  BY <1>2, <1>19
<1>31. \A j \in 1..Len(more) : more[j].flag => j > k + 1
  BY <1>2, <1>20
<1>. QED BY <1>12, <1>18, <1>28, <1>29, <1>30, <1>31

\* A token put in behind the d-th one.
Inserted(more, toks, d, b) ==
  /\ Len(more) = Len(toks) + 1 /\ more[d + 1] = b
  /\ \A j \in 1..d : more[j] = toks[j]
  /\ \A j \in (d + 1)..Len(toks) : more[j + 1] = toks[j]

\* A part of a list.
SliceOf(t, s, a, e) ==
  /\ t = SubSeq(s, a + 1, e) /\ Len(t) = e - a
  /\ \A j \in 1..(e - a) : t[j] = s[a + j]

LEMMA Slice ==
  ASSUME NEW S, NEW s \in Seq(S), NEW a \in Nat, NEW e \in Nat, a <= e, e <= Len(s)
  PROVE  \E t \in Seq(S) : SliceOf(t, s, a, e)
<1>1. SubSeq(s, a + 1, e) \in Seq(S)
  BY PieceType
<1>2. Len(SubSeq(s, a + 1, e)) = e - a
  OBVIOUS
<1>3. \A j \in 1..(e - a) : SubSeq(s, a + 1, e)[j] = s[a + j]
  OBVIOUS
<1>. QED BY <1>1, <1>2, <1>3 DEF SliceOf

\* One element between two lists.
JoinedAs(more, S, front, b, back) ==
  /\ more = front \o <<b>> \o back
  /\ more \in Seq(S) /\ Len(more) = Len(front) + 1 + Len(back)
  /\ more[Len(front) + 1] = b
  /\ \A j \in 1..Len(front) : more[j] = front[j]
  /\ \A j \in 1..Len(back) : more[(Len(front) + 1) + j] = back[j]

LEMMA Joined ==
  ASSUME NEW S, NEW front \in Seq(S), NEW b \in S, NEW back \in Seq(S)
  PROVE  \E more : JoinedAs(more, S, front, b, back)
<1>1. PICK mid : mid = Append(front, b)
  OBVIOUS
<1>2. PICK n \in Nat, m \in Nat : n = Len(front) /\ m = Len(back)
  <2>1. Len(front) \in Nat /\ Len(back) \in Nat
    OBVIOUS
  <2>. QED BY <2>1
<1>3. mid \in Seq(S) /\ Len(mid) = n + 1 /\ mid[n + 1] = b /\ \A j \in 1..n : mid[j] = front[j]
  BY <1>1, <1>2
<1>4. front \o <<b>> = mid
  BY <1>1
<1>5. PICK more : more = mid \o back
  OBVIOUS
<1>a. /\ mid \o back \in Seq(S) /\ Len(mid \o back) = Len(mid) + Len(back)
      /\ \A i \in 1..(Len(mid) + Len(back)) :
           (mid \o back)[i] = IF i <= Len(mid) THEN mid[i] ELSE back[i - Len(mid)]
  BY <1>3, ConcatProperties
<1>b. /\ more \in Seq(S) /\ Len(more) = Len(mid) + m
      /\ \A i \in 1..((n + 1) + m) : more[i] = IF i <= n + 1 THEN mid[i] ELSE back[i - (n + 1)]
  BY ONLY <1>a, <1>2, <1>3, <1>5
<1>6. more \in Seq(S) /\ Len(more) = n + 1 + m
  BY <1>3, <1>b
<1>7. \A j \in 1..(n + 1) : more[j] = mid[j]
  BY <1>2, <1>3, <1>5, ConcatProperties
<1>8. ASSUME NEW j \in 1..m PROVE more[(n + 1) + j] = back[j]
  <2>1. PICK i \in 1..((n + 1) + m) : i = (n + 1) + j /\ ~(i <= n + 1) /\ i - (n + 1) = j
    <3>1. /\ (n + 1) + j \in 1..((n + 1) + m) /\ ~((n + 1) + j <= n + 1)
          /\ ((n + 1) + j) - (n + 1) = j
      OBVIOUS
    <3>. QED BY <3>1
  <2>2. more[i] = back[i - (n + 1)]
    BY <1>b, <2>1
  <2>. QED BY <2>1, <2>2
<1>9. more[n + 1] = b /\ \A j \in 1..n : more[j] = front[j]
  BY <1>3, <1>7
<1>10. JoinedAs(more, S, front, b, back)
  BY <1>1, <1>2, <1>4, <1>5, <1>6, <1>8, <1>9 DEF JoinedAs
<1>. QED BY <1>10

\* InsertBody puts a token in.
LEMMA InsertedIs ==
  ASSUME NEW S, NEW toks \in Seq(S), NEW d \in 1..Len(toks), NEW b \in S
  PROVE  LET more == SubSeq(toks, 1, d) \o <<b>> \o SubSeq(toks, d + 1, Len(toks))
         IN more \in Seq(S) /\ Inserted(more, toks, d, b)
<1>1. PICK n \in Nat : n = Len(toks)
  OBVIOUS
<1>a. d \in Nat /\ 0 <= d /\ d <= n /\ n <= Len(toks) /\ d <= Len(toks)
  BY <1>1
<1>2. PICK front \in Seq(S) : SliceOf(front, toks, 0, d)
  BY <1>1, <1>a, Slice
<1>3. PICK back \in Seq(S) : SliceOf(back, toks, d, n)
  BY <1>1, <1>a, Slice
<1>b. /\ front = SubSeq(toks, 1, d) /\ Len(front) = d
      /\ \A j \in 1..d : front[j] = toks[j]
  <2>1. 0 + 1 = 1 /\ d - 0 = d /\ \A j \in 1..d : 0 + j = j
    BY <1>a
  <2>. QED BY <1>2, <2>1 DEF SliceOf
<1>c. /\ back = SubSeq(toks, d + 1, n) /\ Len(back) = n - d
      /\ \A j \in 1..(n - d) : back[j] = toks[d + j]
  BY <1>3 DEF SliceOf
<1>4. PICK more : JoinedAs(more, S, front, b, back)
  BY Joined
<1>5. /\ more = front \o <<b>> \o back
      /\ more \in Seq(S) /\ Len(more) = Len(front) + 1 + Len(back)
      /\ more[Len(front) + 1] = b
      /\ \A j \in 1..Len(front) : more[j] = front[j]
      /\ \A j \in 1..Len(back) : more[(Len(front) + 1) + j] = back[j]
  BY <1>4 DEF JoinedAs
<1>7. Len(more) = n + 1 /\ more[d + 1] = b /\ \A j \in 1..d : more[j] = toks[j]
  <2>1. d + 1 + (n - d) = n + 1
    BY <1>a
  <2>. QED BY <1>b, <1>c, <1>5, <2>1
<1>8. ASSUME NEW j \in (d + 1)..n PROVE more[j + 1] = toks[j]
  <2>1. PICK i \in 1..(n - d) : i = j - d
    BY <1>a
  <2>2. (d + 1) + i = j + 1 /\ d + i = j
    BY <1>a, <2>1
  <2>3. more[(d + 1) + i] = back[i] /\ back[i] = toks[d + i]
    BY <1>b, <1>c, <1>5
  <2>. QED BY <2>2, <2>3
<1>9. Inserted(more, toks, d, b)
  BY <1>1, <1>7, <1>8 DEF Inserted
<1>. QED BY <1>1, <1>b, <1>c, <1>5, <1>9

\* A body goes in behind its delimiter, before all that still wait.
LEMMA BodyGoesIn ==
  ASSUME NEW toks \in Seq(Tokens), NEW tx, NEW ws \in Texts, Wants(toks, tx, ws),
         NEW d \in 1..Len(toks), NEW b \in Tokens, b.type = "BODY", ~b.flag,
         \A j \in (d + 1)..Len(toks) : toks[j].type # "BODY",
         \A j \in 1..Len(toks) : toks[j].flag => j > d,
         NEW more \in Seq(Tokens), Inserted(more, toks, d, b)
  PROVE  /\ Wants(more, tx, ws)
         /\ \A j \in (d + 2)..Len(more) : more[j].type # "BODY"
         /\ Unasked(toks) => Unasked(more)
<1>1. PICK at : WantsAt(at, toks, tx, ws)
  BY DEF Wants
<1>2. PICK n \in Nat, m \in Nat : n = Len(toks) /\ m = Len(ws)
  <2>1. Len(toks) \in Nat /\ Len(ws) \in Nat
    BY LenProperties DEF Texts
  <2>. QED BY <2>1
<1>3. d \in 1..n /\ Len(more) = n + 1 /\ more[d + 1] = b
      /\ (\A j \in 1..d : more[j] = toks[j]) /\ (\A j \in (d + 1)..n : more[j + 1] = toks[j])
  BY <1>2 DEF Inserted
<1>4. at \in [1..m -> 1..n] /\ \A i \in 1..m : at[i] \in 1..n
  BY <1>1, <1>2 DEF WantsAt
<1>5. \A i \in 1..m : toks[at[i]].flag /\ at[i] < n /\ Says(toks[at[i] + 1], ws[i], tx)
  BY <1>1, <1>2 DEF WantsAt
<1>6. ASSUME NEW i \in 1..m PROVE at[i] \in (d + 1)..n
  BY <1>2, <1>4, <1>5
<1>7. PICK to \in [1..m -> 1..(n + 1)] : \A i \in 1..m : to[i] = at[i] + 1
  <2>. DEFINE to == [i \in 1..m |-> at[i] + 1]
  <2>1. to \in [1..m -> 1..(n + 1)]
    BY <1>4
  <2>2. \A i \in 1..m : to[i] = at[i] + 1
    OBVIOUS
  <2>. HIDE DEF to
  <2>. QED BY <2>1, <2>2
<1>8. ASSUME NEW i \in 1..m
      PROVE  more[to[i]].flag /\ to[i] < n + 1 /\ Says(more[to[i] + 1], ws[i], tx)
  <2>1. PICK p \in (d + 1)..n : p = at[i]
    BY <1>6
  <2>2. toks[p].flag /\ p < n /\ Says(toks[p + 1], ws[i], tx) /\ to[i] = p + 1
    BY <1>5, <1>7, <2>1
  <2>3. p + 1 \in (d + 1)..n
    BY <1>3, <2>2
  <2>4. more[p + 1] = toks[p] /\ more[(p + 1) + 1] = toks[p + 1]
    BY <1>3, <2>1, <2>3
  <2>. QED BY <2>1, <2>2, <2>4
<1>9. ASSUME NEW i \in 1..m, NEW j \in 1..m, i < j PROVE to[i] < to[j]
  BY <1>1, <1>2, <1>4, <1>7, <1>9 DEF WantsAt
<1>10. ASSUME NEW k \in 1..(n + 1) PROVE k \in 1..d \/ k = d + 1 \/ k - 1 \in (d + 1)..n
  BY <1>3
<1>11. ASSUME NEW k \in 1..(n + 1), more[k].flag
       PROVE  k - 1 \in (d + 1)..n /\ toks[k - 1].flag
  <2>1. k \notin 1..d
    <3>1. SUFFICES ASSUME k \in 1..d PROVE FALSE
      OBVIOUS
    <3>2. k \in 1..n /\ toks[k].flag
      BY <1>3, <1>11, <3>1
    <3>. QED BY <1>2, <3>1, <3>2
  <2>2. k # d + 1
    BY <1>3, <1>11
  <2>3. k - 1 \in (d + 1)..n /\ (k - 1) + 1 = k
    BY <1>10, <2>1, <2>2
  <2>4. more[(k - 1) + 1] = toks[k - 1]
    BY <1>3, <2>3
  <2>. QED BY <1>11, <2>3, <2>4
<1>12. ASSUME NEW k \in 1..(n + 1), more[k].flag PROVE \E i \in 1..m : to[i] = k
  <2>1. k - 1 \in 1..n /\ toks[k - 1].flag
    BY <1>3, <1>11, <1>12
  <2>2. PICK i \in 1..m : at[i] = k - 1
    BY <1>1, <1>2, <2>1 DEF WantsAt
  <2>3. to[i] = k
    BY <1>7, <2>2
  <2>. QED BY <2>3
<1>13. ASSUME NEW j \in (d + 2)..(n + 1) PROVE more[j].type # "BODY"
  <2>1. j - 1 \in (d + 1)..n /\ (j - 1) + 1 = j
    BY <1>3
  <2>2. more[(j - 1) + 1] = toks[j - 1]
    BY <1>3, <2>1
  <2>. QED BY <1>2, <2>1, <2>2
<1>14. ASSUME NEW k \in 1..(n + 1), more[k].type = "BODY", NEW i \in 1..m PROVE k < to[i]
  <2>1. k \notin (d + 2)..(n + 1)
    BY <1>13, <1>14
  <2>2. k <= d + 1
    BY <1>3, <2>1
  <2>3. at[i] \in (d + 1)..n /\ to[i] = at[i] + 1
    BY <1>6, <1>7
  <2>. QED BY <1>3, <2>2, <2>3
<1>15. WantsAt(to, more, tx, ws)
  BY <1>2, <1>3, <1>7, <1>8, <1>9, <1>12, <1>14 DEF WantsAt
<1>16. Unasked(toks) => Unasked(more)
  <2>1. SUFFICES ASSUME Unasked(toks), NEW k \in 1..Len(more), more[k].flag PROVE FALSE
    BY DEF Unasked
  <2>2. k - 1 \in 1..n /\ toks[k - 1].flag
    BY <1>3, <1>11, <2>1
  <2>. QED BY <1>2, <2>1, <2>2 DEF Unasked
<1>17. \A j \in (d + 2)..Len(more) : more[j].type # "BODY"
  BY <1>3, <1>13
<1>. QED BY <1>15, <1>16, <1>17 DEF Wants

\* It is the last body.
LEMMA BodyIsLast ==
  ASSUME NEW toks \in Seq(Tokens), NEW d \in 1..Len(toks), NEW b \in Tokens, b.type = "BODY",
         \A j \in (d + 1)..Len(toks) : toks[j].type # "BODY",
         NEW more \in Seq(Tokens), Inserted(more, toks, d, b)
  PROVE  Bodies(more) = Append(Bodies(toks), b.body)
<1>1. PICK n \in Nat : n = Len(toks)
  OBVIOUS
<1>2. d \in 1..n /\ Len(more) = n + 1 /\ more[d + 1] = b
      /\ (\A j \in 1..d : more[j] = toks[j]) /\ (\A j \in (d + 1)..n : more[j + 1] = toks[j])
  BY <1>1 DEF Inserted
<1>3. PICK front \in Seq(Tokens) : Len(front) = d /\ \A j \in 1..d : front[j] = toks[j]
  <2>1. \A j \in 1..d : toks[j] \in Tokens
    OBVIOUS
  <2>2. SubSeq(toks, 1, d) \in Seq(Tokens)
    BY <2>1, SubSeqProperties
  <2>3. Len(SubSeq(toks, 1, d)) = d /\ \A j \in 1..d : SubSeq(toks, 1, d)[j] = toks[j]
    OBVIOUS
  <2>. QED BY <2>2, <2>3
<1>4. Bodies(toks) = Bodies(front)
  <2>1. d <= n /\ \A j \in (d + 1)..n : toks[j].type # "BODY"
    BY <1>1, <1>2
  <2>. QED BY <1>1, <1>3, <2>1, BodiesPrefix
<1>5. PICK mid \in Seq(Tokens) : mid = Append(front, b)
  <2>1. Append(front, b) \in Seq(Tokens)
    BY AppendProperties
  <2>. QED BY <2>1
<1>6. Len(mid) = d + 1 /\ mid[d + 1] = b /\ \A j \in 1..d : mid[j] = toks[j]
  BY <1>3, <1>5
<1>7. Bodies(mid) = Append(Bodies(front), b.body)
  BY <1>5, BodiesMore
<1>8. Bodies(more) = Bodies(mid)
  <2>1. ASSUME NEW j \in 1..(d + 1) PROVE more[j] = mid[j]
    <3>1. j = d + 1 \/ j \in 1..d
      OBVIOUS
    <3>. QED BY <1>2, <1>6, <3>1
  <2>2. ASSUME NEW j \in ((d + 1) + 1)..(n + 1) PROVE more[j].type # "BODY"
    <3>1. j - 1 \in (d + 1)..n /\ (j - 1) + 1 = j
      BY <1>2
    <3>2. more[(j - 1) + 1] = toks[j - 1]
      BY <1>2, <3>1
    <3>. QED BY <1>1, <3>1, <3>2
  <2>3. d + 1 <= n + 1
    BY <1>2
  <2>. QED BY <1>2, <1>6, <2>1, <2>2, <2>3, BodiesPrefix
<1>. QED BY <1>4, <1>7, <1>8

-----------------------------------------------------------------------------
(* What a line does to the command and the bodies it is split into.          *)

\* The parts of a split.
LEMMA SplitsAre ==
  ASSUME NEW s \in Splits
  PROVE  /\ s = [command |-> s.command, wanted |-> s.wanted, bodies |-> s.bodies]
         /\ s.command \in Seq(Symbols) /\ s.wanted \in Texts /\ s.bodies \in Seq(Texts)
BY DEF Splits

\* No bodies to come.
LEMMA NoEmpties ==
  ASSUME NEW b \in Seq(Texts)
  PROVE  b \o Empties(0) = b
<1>1. PICK e \in Seq(Texts) : e = Empties(0) /\ Len(e) = 0
  <2>1. 0 \in Nat
    OBVIOUS
  <2>. QED BY <2>1, EmptiesType
<1>2. e = <<>>
  BY <1>1, EmptySeq
<1>. QED BY <1>1, <1>2, ConcatEmptySeq

\* Two lists, one behind the other.
JoinOf(t, a, n, b, m) ==
  /\ t = a \o b /\ Len(t) = n + m
  /\ \A k \in 1..n : t[k] = a[k]
  /\ \A k \in 1..m : t[n + k] = b[k]

LEMMA JoinIs ==
  ASSUME NEW S, NEW a \in Seq(S), NEW b \in Seq(S), NEW n \in Nat, NEW m \in Nat,
         n = Len(a), m = Len(b)
  PROVE  \E t \in Seq(S) : JoinOf(t, a, n, b, m)
<1>1. /\ a \o b \in Seq(S) /\ Len(a \o b) = Len(a) + Len(b)
      /\ \A i \in 1..(Len(a) + Len(b)) : (a \o b)[i] = IF i <= Len(a) THEN a[i] ELSE b[i - Len(a)]
  BY ConcatProperties
<1>2. PICK t \in Seq(S) : t = a \o b
  BY <1>1
<1>3. Len(t) = n + m /\ \A i \in 1..(n + m) : t[i] = IF i <= n THEN a[i] ELSE b[i - n]
  BY <1>1, <1>2
<1>4. ASSUME NEW k \in 1..n PROVE t[k] = a[k]
  <2>1. k \in 1..(n + m) /\ k <= n
    OBVIOUS
  <2>. QED BY <1>3, <2>1
<1>5. ASSUME NEW k \in 1..m PROVE t[n + k] = b[k]
  <2>1. n + k \in 1..(n + m) /\ ~(n + k <= n) /\ (n + k) - n = k
    OBVIOUS
  <2>2. t[n + k] = b[(n + k) - n]
    BY <1>3, <2>1
  <2>. QED BY <2>1, <2>2
<1>6. JoinOf(t, a, n, b, m)
  BY <1>2, <1>3, <1>4, <1>5 DEF JoinOf
<1>. QED BY <1>6

\* A list of n + m elements is made of its first n and its last m.
Alike(s, t, n, m) ==
  /\ Len(s) = n + m /\ Len(t) = n + m
  /\ \A k \in 1..n : s[k] = t[k]
  /\ \A k \in 1..m : s[n + k] = t[n + k]

LEMMA JoinSame ==
  ASSUME NEW S, NEW s \in Seq(S), NEW t \in Seq(S), NEW n \in Nat, NEW m \in Nat,
         Alike(s, t, n, m)
  PROVE  s = t
<1>. USE DEF Alike
<1>1. ASSUME NEW k \in 1..(n + m) PROVE s[k] = t[k]
  <2>1. CASE k \in 1..n
    BY <2>1
  <2>2. CASE k \notin 1..n
    <3>1. PICK i \in 1..m : i = k - n
      BY <2>2
    <3>2. n + i = k
      BY <3>1
    <3>. QED BY <3>2
  <2>. QED BY <2>1, <2>2
<1>. QED BY <1>1, SeqEqual

\* A body that is begun is the first of those to come.
LEMMA EmptiesMore ==
  ASSUME NEW b \in Seq(Texts), NEW m \in Nat
  PROVE  b \o Empties(m + 1) = Append(b, <<>>) \o Empties(m)
<1>1. PICK more \in Seq(Texts) : /\ more = Empties(m + 1) /\ Len(more) = m + 1
                                 /\ \A k \in 1..(m + 1) : more[k] = <<>>
  <2>1. m + 1 \in Nat
    OBVIOUS
  <2>. QED BY <2>1, EmptiesType
<1>2. PICK less \in Seq(Texts) : /\ less = Empties(m) /\ Len(less) = m
                                 /\ \A k \in 1..m : less[k] = <<>>
  BY EmptiesType
<1>3. PICK none \in Texts : none = <<>>
  BY EmptySeq DEF Texts
<1>4. PICK one \in Seq(Texts) : one = <<none>> /\ Len(one) = 1 /\ one[1] = none
  <2>1. <<none>> \in Seq(Texts) /\ Len(<<none>>) = 1 /\ <<none>>[1] = none
    OBVIOUS
  <2>. QED BY <2>1
<1>5. PICK t \in Seq(Texts) : JoinOf(t, one, 1, less, m)
  <2>1. 1 \in Nat
    OBVIOUS
  <2>. QED BY <1>2, <1>4, <2>1, JoinIs
<1>6. more = t
  <2>1. Len(t) = 1 + m /\ Len(more) = 1 + m
    BY <1>1, <1>5 DEF JoinOf
  <2>2. \A k \in 1..1 : more[k] = t[k]
    <3>1. 1 \in 1..1 /\ \A k \in 1..1 : k = 1
      OBVIOUS
    <3>2. t[1] = none
      BY <1>4, <1>5, <3>1 DEF JoinOf
    <3>3. 1 \in 1..(m + 1)
      OBVIOUS
    <3>. QED BY <1>1, <1>3, <3>1, <3>2, <3>3
  <2>3. ASSUME NEW k \in 1..m PROVE more[1 + k] = t[1 + k]
    <3>1. 1 + k \in 1..(m + 1)
      OBVIOUS
    <3>2. t[1 + k] = <<>>
      BY <1>2, <1>5 DEF JoinOf
    <3>. QED BY <1>1, <3>1, <3>2
  <2>4. 1 \in Nat /\ Alike(more, t, 1, m)
    BY <2>1, <2>2, <2>3 DEF Alike
  <2>. QED BY <2>4, JoinSame
<1>7. more = one \o less
  BY <1>5, <1>6 DEF JoinOf
<1>8. Append(b, none) = b \o one
  BY <1>4, AppendIsConcat
<1>9. (b \o one) \o less = b \o (one \o less)
  BY ConcatAssociative, SMTT(40)
<1>10. b \o more = Append(b, none) \o less
  BY <1>7, <1>8, <1>9, Zenon
<1>. QED BY <1>1, <1>2, <1>3, <1>10, Zenon

\* Nothing waits: the line goes on with the command.
LEMMA LineOfCommand ==
  ASSUME NEW s \in Splits, s.wanted = <<>>, NEW l \in Seq(Symbols)
  PROVE  LET new == SplitLine(s, l)
             asks == Asked(s.command, l, Len(l))
         IN /\ asks \in Texts /\ new.command = s.command \o l /\ new.wanted = asks
            /\ new.bodies = s.bodies \o Empties(Len(asks))
<1>1. PICK asks : asks = Asked(s.command, l, Len(l))
  OBVIOUS
<1>2. asks \in Texts
  <2>1. Len(l) \in 0..Len(l)
    OBVIOUS
  <2>. QED BY <1>1, <2>1, AskedIs
<1>3. SplitLine(s, l) = [command |-> s.command \o l, wanted |-> asks,
                         bodies |-> s.bodies \o Empties(Len(asks))]
  BY <1>1 DEF SplitLine
<1>4. PICK new : new = SplitLine(s, l)
  OBVIOUS
<1>5. /\ new.command = s.command \o l /\ new.wanted = asks
      /\ new.bodies = s.bodies \o Empties(Len(asks))
  BY <1>3, <1>4
<1>. QED BY <1>1, <1>2, <1>4, <1>5

\* A delimiter is waited for: the line is it or is one of the body.
Pends(s, w, ws, done, b) ==
  s.wanted = <<w>> \o ws /\ s.bodies = Append(done, b) \o Empties(Len(ws))

\* What is wanted behind it.
LEMMA PendsTail ==
  ASSUME NEW s, NEW w \in Seq(Symbols), NEW ws \in Texts, NEW done, NEW b, Pends(s, w, ws, done, b)
  PROVE  Tail(s.wanted) = ws
<1>1. PICK v \in Texts : v = <<w>> \o ws /\ Tail(v) = ws
  <2>1. <<w>> \o ws \in Texts /\ Tail(<<w>> \o ws) = ws
    BY DEF Texts
  <2>. QED BY <2>1
<1>2. s.wanted = v
  BY <1>1 DEF Pends
<1>. QED BY <1>1, <1>2

LEMMA LineOfBody ==
  ASSUME NEW s \in Splits, NEW w \in Seq(Symbols), NEW ws \in Texts, NEW done \in Seq(Texts),
         NEW b \in Texts, Pends(s, w, ws, done, b), NEW l \in Seq(Symbols),
         NEW new, new = SplitLine(s, l)
  PROVE  /\ new.command = s.command
         /\ l = w => new.wanted = ws /\ new.bodies = s.bodies
         /\ l # w => Pends(new, w, ws, done, Append(b, l))
<1>0. s.wanted = <<w>> \o ws /\ s.bodies = Append(done, b) \o Empties(Len(ws))
  BY DEF Pends
<1>1. /\ s = [command |-> s.command, wanted |-> s.wanted, bodies |-> s.bodies]
      /\ s.command \in Seq(Symbols) /\ s.wanted \in Texts /\ s.bodies \in Seq(Texts)
  BY SplitsAre
<1>2. PICK wants \in Texts : wants = s.wanted /\ wants = <<w>> \o ws
  BY <1>0, <1>1
<1>3. wants # <<>> /\ Head(wants) = w /\ Tail(wants) = ws /\ Len(wants) = Len(ws) + 1
  BY <1>2 DEF Texts
<1>5. ASSUME l = w
      PROVE  new.command = s.command /\ new.wanted = ws /\ new.bodies = s.bodies
  <2>1. new = [s EXCEPT !.wanted = Tail(wants)]
    BY <1>2, <1>3, <1>5 DEF SplitLine
  <2>. QED BY <1>1, <1>3, <2>1
<1>6. ASSUME l # w
      PROVE  /\ new.command = s.command /\ new.wanted = s.wanted
             /\ new.bodies = Append(done, Append(b, l)) \o Empties(Len(ws))
  <2>1. PICK bodies \in Seq(Texts) : bodies = s.bodies
    BY <1>1
  <2>2. PICK open : open = Len(bodies) - Len(wants) + 1
    OBVIOUS
  <2>3. PICK m \in Nat, n \in Nat : m = Len(ws) /\ n = Len(done)
    <3>1. Len(ws) \in Nat /\ Len(done) \in Nat
      BY LenProperties DEF Texts
    <3>. QED BY <3>1
  <2>4. PICK back \in Seq(Texts) : back = Empties(m) /\ Len(back) = m
    BY EmptiesType
  <2>5. PICK mid \in Seq(Texts) : mid = Append(done, b)
    <3>1. Append(done, b) \in Seq(Texts)
      BY AppendProperties
    <3>. QED BY <3>1
  <2>6. PICK one \in Texts : one = Append(b, l)
    <3>1. Append(b, l) \in Texts
      BY AppendProperties DEF Texts
    <3>. QED BY <3>1
  <2>7. PICK mid2 \in Seq(Texts) : mid2 = Append(done, one)
    <3>1. Append(done, one) \in Seq(Texts)
      BY AppendProperties
    <3>. QED BY <3>1
  <2>8. Len(mid) = n + 1 /\ mid[n + 1] = b /\ \A k \in 1..n : mid[k] = done[k]
    BY <2>3, <2>5
  <2>9. Len(mid2) = n + 1 /\ mid2[n + 1] = one /\ \A k \in 1..n : mid2[k] = done[k]
    BY <2>3, <2>7
  <2>10. JoinOf(bodies, mid, n + 1, back, m)
    <3>1. PICK t \in Seq(Texts) : JoinOf(t, mid, n + 1, back, m)
      <4>1. n + 1 \in Nat
        OBVIOUS
      <4>. QED BY <2>4, <2>8, <4>1, JoinIs
    <3>2. t = bodies
      BY <1>0, <2>1, <2>3, <2>4, <2>5, <3>1 DEF JoinOf
    <3>. QED BY <3>1, <3>2
  <2>11. PICK right \in Seq(Texts) : JoinOf(right, mid2, n + 1, back, m)
    <3>1. n + 1 \in Nat
      OBVIOUS
    <3>. QED BY <2>4, <2>9, <3>1, JoinIs
  <2>12. Len(bodies) = (n + 1) + m
    BY <2>10 DEF JoinOf
  <2>13. n + 1 \in 1..Len(bodies) /\ n + 1 \in 1..(n + 1)
    BY <2>12
  <2>14. open = n + 1
    BY <1>3, <2>2, <2>3, <2>12
  <2>15. bodies[open] = b
    BY <2>8, <2>10, <2>13, <2>14 DEF JoinOf
  <2>16. PICK left \in Seq(Texts) :
           /\ left = [bodies EXCEPT ![open] = one] /\ Len(left) = Len(bodies)
           /\ \A k \in 1..Len(bodies) : left[k] = IF k = n + 1 THEN one ELSE bodies[k]
    <3>1. PICK at \in 1..Len(bodies) : at = open
      BY <2>13, <2>14
    <3>2. /\ [bodies EXCEPT ![at] = one] \in Seq(Texts)
          /\ Len([bodies EXCEPT ![at] = one]) = Len(bodies)
          /\ \A k \in 1..Len(bodies) : [bodies EXCEPT ![at] = one][k] = IF k = at THEN one ELSE bodies[k]
      BY ExceptSeq
    <3>. QED BY <2>14, <3>1, <3>2
  <2>17. ASSUME NEW k \in 1..(n + 1) PROVE left[k] = right[k]
    <3>1. k \in 1..Len(bodies)
      BY <2>12
    <3>2. right[k] = mid2[k] /\ bodies[k] = mid[k]
      BY <2>10, <2>11 DEF JoinOf
    <3>3. k = n + 1 \/ k \in 1..n
      OBVIOUS
    <3>4. mid2[k] = IF k = n + 1 THEN one ELSE mid[k]
      BY <2>8, <2>9, <3>3
    <3>. QED BY <2>16, <3>1, <3>2, <3>4
  <2>18. ASSUME NEW k \in 1..m PROVE left[(n + 1) + k] = right[(n + 1) + k]
    <3>1. (n + 1) + k \in 1..Len(bodies) /\ (n + 1) + k # n + 1
      BY <2>12
    <3>2. right[(n + 1) + k] = back[k] /\ bodies[(n + 1) + k] = back[k]
      BY <2>10, <2>11 DEF JoinOf
    <3>. QED BY <2>16, <3>1, <3>2
  <2>19. left = right
    <3>1. Len(left) = (n + 1) + m /\ Len(right) = (n + 1) + m /\ n + 1 \in Nat
      BY <2>11, <2>12, <2>16 DEF JoinOf
    <3>2. Alike(left, right, n + 1, m)
      BY <2>17, <2>18, <3>1 DEF Alike
    <3>. QED BY <3>1, <3>2, JoinSame
  <2>20. new = [s EXCEPT !.bodies = [bodies EXCEPT ![open] = Append(bodies[open], l)]]
    BY <1>2, <1>3, <1>6, <2>1, <2>2 DEF SplitLine
  <2>21. new = [s EXCEPT !.bodies = left]
    BY <2>6, <2>15, <2>16, <2>20
  <2>22. new.command = s.command /\ new.wanted = s.wanted /\ new.bodies = left
    BY <1>1, <2>21
  <2>23. right = Append(done, Append(b, l)) \o Empties(Len(ws))
    BY <2>3, <2>4, <2>6, <2>7, <2>11 DEF JoinOf
  <2>. QED BY <2>19, <2>22, <2>23
<1>7. ASSUME l # w PROVE Pends(new, w, ws, done, Append(b, l))
  BY <1>0, <1>6, <1>7 DEF Pends
<1>. QED BY <1>5, <1>6, <1>7

-----------------------------------------------------------------------------
(* What holds while a line is lexed, and around it.                          *)

\* The lexer is behind the n-th symbol of the line l, or behind its newline.
Inside(x, tx, s, base, l, before, n) ==
  /\ x.pos = base + n
  /\ s.command = before \o l /\ s.wanted = Asked(before, l, Len(l))
  /\ \A k \in 1..Len(l) : tx[base + k] = l[k]
  /\ \/ Len(tx) = base + Len(l)
     \/ Len(tx) = base + Len(l) + 1 /\ tx[Len(tx)] = "\n"
  /\ HasBodies(x.toks, s.bodies, Len(s.wanted))
  /\ n <= Len(l) => InLine(x, tx, l, n, before)
  /\ n > Len(l) => /\ x.mode \in {"lex", DoubleQuote}
                   /\ x.mode = DoubleQuote <=> Quoted(before \o l)
                   /\ Wants(x.toks, tx, s.wanted)
Lexed(x, tx, s) ==
  \E base \in Nat, l \in Lines, before \in Seq(Symbols), n \in Nat :
    Inside(x, tx, s, base, l, before, n)

\* Between two lines the lexer is in a double quote if the command is.
Calm(x, s) ==
  x.mode \in {"lex", DoubleQuote} /\ (x.mode = DoubleQuote <=> Quoted(s.command))
Checked(x, tx, s) ==
  Wants(x.toks, tx, s.wanted) /\ HasBodies(x.toks, s.bodies, Len(s.wanted))

\* HasBodies looks at the bodies only.
LEMMA KeepsBodies ==
  ASSUME NEW x, NEW y, Keeps(x, y), NEW b, NEW n, HasBodies(x.toks, b, n)
  PROVE  HasBodies(y.toks, b, n)
BY DEF Keeps, HasBodies

\* A symbol, and the end of the chunk.
LEMMA LexedNext ==
  ASSUME \A l \in Lines : Readable(l),
         NEW x, Good(x), NEW tx \in Seq(Symbols), x.pos < Len(tx), NEW s, Lexed(x, tx, s)
  PROVE  LET y == Step(x, tx[x.pos + 1])
         IN Lexed(y, tx, s) /\ (Counted(x) => Counted(y))
<1>1. PICK base \in Nat, l \in Lines, before \in Seq(Symbols), n \in Nat :
        Inside(x, tx, s, base, l, before, n)
  BY DEF Lexed
<1>2. l \in Seq(Symbols) /\ Readable(l)
  BY LinesType
<1>3. PICK m \in Nat, e \in Nat : m = Len(l) /\ e = Len(tx)
  <2>1. Len(l) \in Nat /\ Len(tx) \in Nat
    BY <1>2
  <2>. QED BY <2>1
<1>4. PICK pos \in Nat : pos = x.pos /\ pos = base + n /\ pos < e
  BY <1>1, <1>3 DEF Inside
<1>5. PICK c \in Symbols : c = tx[pos + 1]
  <2>1. pos + 1 \in 1..Len(tx)
    BY <1>3, <1>4
  <2>2. tx[pos + 1] \in Symbols
    BY <2>1
  <2>. QED BY <2>2
<1>6. PICK y : y = Step(x, c)
  OBVIOUS
<1>7. y.pos = base + (n + 1) /\ n + 1 \in Nat
  <2>1. GoodAt(y, x, 1)
    BY <1>6, StepGood
  <2>2. y.pos = pos + 1
    BY <1>4, <2>1 DEF GoodAt
  <2>. QED BY <1>4, <2>2
<1>8. /\ s.command = before \o l /\ s.wanted = Asked(before, l, m)
      /\ \A k \in 1..m : tx[base + k] = l[k]
      /\ (e = base + m \/ (e = base + m + 1 /\ tx[e] = "\n"))
      /\ HasBodies(x.toks, s.bodies, Len(s.wanted))
  BY <1>1, <1>3 DEF Inside
<1>9. (n <= m => InLine(x, tx, l, n, before))
  BY <1>1, <1>3 DEF Inside
<1>10. CASE n < m
  <2>1. n + 1 \in 1..m /\ base + (n + 1) = pos + 1 /\ n + 1 <= m /\ ~(n + 1 > m) /\ n <= m
    BY <1>4, <1>10
  <2>2. tx[base + (n + 1)] = l[n + 1]
    BY <1>8, <2>1
  <2>3. c = l[n + 1] /\ tx[x.pos + 1] = l[n + 1]
    BY <1>4, <1>5, <2>1, <2>2
  <2>4. InLine(Step(x, l[n + 1]), tx, l, n + 1, before) /\ Keeps(x, Step(x, l[n + 1]))
    BY <1>2, <1>3, <1>9, <1>10, <2>1, <2>3, InLineStep
  <2>5. InLine(y, tx, l, n + 1, before) /\ Keeps(x, y)
    BY <1>6, <2>3, <2>4
  <2>6. HasBodies(y.toks, s.bodies, Len(s.wanted))
    BY <1>8, <2>5, KeepsBodies
  <2>7. Inside(y, tx, s, base, l, before, n + 1)
    BY <1>3, <1>7, <1>8, <2>1, <2>5, <2>6 DEF Inside
  <2>. QED BY <1>4, <1>5, <1>6, <1>7, <2>5, <2>7 DEF Lexed, Keeps
<1>11. CASE n = m
  <2>1. e = base + m + 1 /\ tx[e] = "\n" /\ e = pos + 1
    BY <1>4, <1>8, <1>11
  <2>2. c \in Blanks
    BY <1>5, <2>1 DEF Blanks
  <2>3. InLine(x, tx, l, Len(l), before)
    BY <1>3, <1>9, <1>11
  <2>4. x.pos <= Len(tx)
    BY <1>3, <1>4
  <2>5. /\ y.mode \in {"lex", DoubleQuote} /\ (y.mode = DoubleQuote <=> Quoted(before \o l))
        /\ Wants(y.toks, tx, Asked(before, l, Len(l))) /\ Keeps(x, y)
    BY <1>2, <1>6, <2>2, <2>3, <2>4, AtNewline
  <2>6. HasBodies(y.toks, s.bodies, Len(s.wanted))
    BY <1>8, <2>5, KeepsBodies
  <2>7. ~(n + 1 <= m)
    BY <1>11
  <2>8. Inside(y, tx, s, base, l, before, n + 1)
    BY <1>3, <1>7, <1>8, <2>5, <2>6, <2>7 DEF Inside
  <2>. QED BY <1>4, <1>5, <1>6, <1>7, <2>5, <2>8 DEF Lexed, Keeps
<1>12. CASE n > m
  BY <1>4, <1>8, <1>12
<1>. QED BY <1>10, <1>11, <1>12

LEMMA LexedEnds ==
  ASSUME NEW x, Good(x), NEW tx \in Seq(Symbols), x.pos = Len(tx), NEW s, Lexed(x, tx, s),
         NEW term \in BOOLEAN
  PROVE  LET y == EndChunk(x, term)
         IN Calm(y, s) /\ Checked(y, tx, s) /\ (Counted(x) => Counted(y))
<1>1. PICK base \in Nat, l \in Lines, before \in Seq(Symbols), n \in Nat :
        Inside(x, tx, s, base, l, before, n)
  BY DEF Lexed
<1>2. l \in Seq(Symbols)
  BY LinesType
<1>3. PICK m \in Nat, e \in Nat : m = Len(l) /\ e = Len(tx)
  <2>1. Len(l) \in Nat /\ Len(tx) \in Nat
    BY <1>2
  <2>. QED BY <2>1
<1>4. e = base + n /\ x.pos <= Len(tx)
  <2>1. x.pos = base + n
    BY <1>1 DEF Inside
  <2>2. x.pos = e /\ e <= Len(tx)
    BY <1>3
  <2>. QED BY <2>1, <2>2
<1>5. /\ s.command = before \o l /\ s.wanted = Asked(before, l, m)
      /\ (e = base + m \/ e = base + m + 1)
      /\ HasBodies(x.toks, s.bodies, Len(s.wanted))
  BY <1>1, <1>3 DEF Inside
<1>6. PICK ws \in Texts : ws = s.wanted
  <2>1. m \in 0..Len(l)
    BY <1>3
  <2>. QED BY <1>2, <1>5, <2>1, AskedIs
<1>7. PICK y : y = EndChunk(x, term)
  OBVIOUS
<1>8. /\ x.mode \in {"lex", "word", DoubleQuote} /\ (x.mode = "word" => x.tmp # <<>>)
      /\ Awaits(x, tx, l, Len(l), ws) /\ (x.mode = DoubleQuote <=> Quoted(before \o l))
  <2>1. CASE n <= m
    <3>1. n = m
      BY <1>4, <1>5, <2>1
    <3>2. InLine(x, tx, l, Len(l), before)
      BY <1>1, <1>3, <3>1 DEF Inside
    <3>3. SubSeq(l, 1, Len(l)) = l
      BY <1>2, WholeLine
    <3>. QED BY <1>3, <1>5, <1>6, <3>2, <3>3 DEF InLine
  <2>2. CASE n > m
    <3>1. /\ x.mode \in {"lex", DoubleQuote} /\ (x.mode = DoubleQuote <=> Quoted(before \o l))
          /\ Wants(x.toks, tx, ws)
      BY <1>1, <1>3, <1>6, <2>2 DEF Inside
    <3>. QED BY <3>1, DoubleQuoteIs DEF Awaits
  <2>. QED BY <2>1, <2>2
<1>9. /\ y.mode \in {"lex", DoubleQuote} /\ (y.mode = DoubleQuote <=> x.mode = DoubleQuote)
      /\ Wants(y.toks, tx, ws) /\ Keeps(x, y)
  BY <1>2, <1>4, <1>7, <1>8, ChunkEnds
<1>10. HasBodies(y.toks, s.bodies, Len(s.wanted))
  BY <1>5, <1>9, KeepsBodies
<1>11. Calm(y, s)
  BY <1>5, <1>8, <1>9 DEF Calm
<1>12. Checked(y, tx, s)
  BY <1>6, <1>9, <1>10 DEF Checked
<1>. QED BY <1>7, <1>9, <1>11, <1>12 DEF Keeps

\* Nothing is asked for before the line.
LEMMA AskedNone ==
  ASSUME NEW before, NEW l \in Seq(Symbols)
  PROVE  Asked(before, l, 0) = <<>>
BY AskedIs

\* A chunk: a line, with its newline or without.
LEMMA LexedBegins ==
  ASSUME NEW x, Good(x), NEW tx \in Seq(Symbols), x.pos = Len(tx),
         NEW s \in Splits, s.wanted = <<>>, Calm(x, s), Unasked(x.toks), Bodies(x.toks) = s.bodies,
         NEW l \in Lines, NEW chunk, chunk = l \/ chunk = Append(l, "\n")
  PROVE  LET y == BeginChunk(x)
             new == SplitLine(s, l)
         IN /\ Lexed(y, tx \o chunk, new) /\ Counted(y)
            /\ chunk = <<>> => Calm(y, new) /\ Checked(y, tx, new)
<1>1. l \in Seq(Symbols)
  BY LinesType
<1>2. PICK base \in Nat, m \in Nat : base = Len(tx) /\ m = Len(l)
  <2>1. Len(tx) \in Nat /\ Len(l) \in Nat
    BY <1>1
  <2>. QED BY <2>1
<1>3. PICK before \in Seq(Symbols) : before = s.command
  BY SplitsAre
<1>a. PICK new : new = SplitLine(s, l)
  OBVIOUS
<1>4. PICK asks \in Texts :
        /\ asks = Asked(before, l, m)
        /\ new.command = before \o l /\ new.wanted = asks
        /\ new.bodies = s.bodies \o Empties(Len(asks))
  BY <1>1, <1>2, <1>3, <1>a, LineOfCommand
<1>5. PICK y : y = BeginChunk(x)
  OBVIOUS
<1>6. Good(y) /\ y.mode = x.mode /\ y.toks = x.toks /\ y.pos = base
  <2>1. x \in Lexers
    BY DEF Good
  <2>2. \A v : [x EXCEPT !.hd = v].mode = x.mode /\ [x EXCEPT !.hd = v].toks = x.toks
    BY <2>1 DEF Lexers
  <2>3. GoodAt(y, x, 0)
    BY <1>5, BeginChunkGood
  <2>4. y.pos = base
    BY <1>2, <2>3 DEF GoodAt
  <2>. QED BY <1>5, <2>2, <2>3, <2>4 DEF BeginChunk, GoodAt
<1>7. Counted(y)
  BY <1>6 DEF Counted
<1>8. y.mode \in {"lex", DoubleQuote} /\ (y.mode = DoubleQuote <=> Quoted(before))
  BY <1>3, <1>6 DEF Calm
<1>9. PICK more \in Seq(Symbols) : more = tx \o chunk /\ Len(more) \in Nat
  <2>1. "\n" \in Symbols
    BY DEF Symbols, Blanks
  <2>2. Append(l, "\n") \in Seq(Symbols)
    BY <1>1, <2>1, AppendProperties
  <2>3. tx \o chunk \in Seq(Symbols)
    BY <1>1, <2>2, ConcatProperties
  <2>. QED BY <2>3, LenProperties
<1>10. /\ \A k \in 1..m : more[base + k] = l[k]
       /\ \/ Len(more) = base + m
          \/ Len(more) = base + m + 1 /\ more[Len(more)] = "\n"
  <2>1. CASE chunk = l
    <3>1. PICK t \in Seq(Symbols) : JoinOf(t, tx, base, l, m)
      BY <1>1, <1>2, JoinIs
    <3>. QED BY <1>9, <2>1, <3>1 DEF JoinOf
  <2>2. CASE chunk = Append(l, "\n")
    <3>1. PICK nl \in Symbols : nl = "\n"
      BY DEF Symbols, Blanks
    <3>2. PICK long \in Seq(Symbols) : /\ long = Append(l, nl) /\ Len(long) = m + 1 /\ long[m + 1] = nl
                                       /\ \A k \in 1..m : long[k] = l[k]
      <4>1. /\ Append(l, nl) \in Seq(Symbols) /\ Len(Append(l, nl)) = m + 1
            /\ Append(l, nl)[m + 1] = nl /\ \A k \in 1..m : Append(l, nl)[k] = l[k]
        BY <1>1, <1>2, AppendProperties
      <4>. QED BY <4>1
    <3>3. PICK t \in Seq(Symbols) : JoinOf(t, tx, base, long, m + 1)
      <4>1. m + 1 \in Nat
        OBVIOUS
      <4>. QED BY <1>2, <3>2, <4>1, JoinIs
    <3>4. t = more
      BY <1>9, <2>2, <3>1, <3>2, <3>3 DEF JoinOf
    <3>5. Len(t) = base + (m + 1) /\ \A k \in 1..(m + 1) : t[base + k] = long[k]
      BY <3>3 DEF JoinOf
    <3>6. m + 1 \in 1..(m + 1) /\ base + (m + 1) = base + m + 1
          /\ \A k \in 1..m : k \in 1..(m + 1)
      OBVIOUS
    <3>7. t[base + (m + 1)] = nl /\ \A k \in 1..m : t[base + k] = l[k]
      BY <3>2, <3>5, <3>6
    <3>. QED BY <3>1, <3>4, <3>5, <3>6, <3>7
  <2>. QED BY <2>1, <2>2
<1>11. HasBodies(y.toks, new.bodies, Len(new.wanted))
  BY <1>4, <1>6 DEF HasBodies
<1>12. PICK none \in Texts : none = <<>>
  BY EmptySeq DEF Texts
<1>13. \A t : Wants(y.toks, t, none)
  BY <1>6, <1>12, WantsNone
<1>14. InLine(y, more, l, 0, before)
  <2>1. before \o SubSeq(l, 1, 0) = before
    BY ConcatEmptySeq, SubSeqEmpty
  <2>2. Asked(before, l, 0) = none
    BY <1>1, <1>12, AskedNone
  <2>3. Awaits(y, more, l, 0, none)
    BY <1>13 DEF Awaits
  <2>4. y.mode # "word"
    BY <1>8, DoubleQuoteIs
  <2>. QED BY <1>6, <1>8, <2>1, <2>2, <2>3, <2>4 DEF InLine
<1>15. Inside(y, more, new, base, l, before, 0)
  <2>1. y.pos = base + 0 /\ 0 <= m /\ ~(0 > m)
    BY <1>6
  <2>. QED BY <1>2, <1>4, <1>10, <1>11, <1>14, <2>1 DEF Inside
<1>16. Lexed(y, more, new)
  <2>1. 0 \in Nat
    OBVIOUS
  <2>. QED BY <1>15, <2>1 DEF Lexed
<1>17. ASSUME chunk = <<>> PROVE Calm(y, new) /\ Checked(y, tx, new)
  <2>1. l = <<>> /\ m = 0
    <3>1. PICK nl \in Symbols : nl = "\n"
      BY DEF Symbols, Blanks
    <3>2. Append(l, nl) # <<>>
      BY <1>1, FrontOfAppend
    <3>3. l = <<>>
      BY <1>17, <3>1, <3>2
    <3>. QED BY <1>2, <3>3, EmptySeq
  <2>2. before \o l = before
    BY <2>1, ConcatEmptySeq
  <2>3. asks = none
    BY <1>1, <1>4, <1>12, <2>1, AskedNone
  <2>. QED BY <1>4, <1>8, <1>11, <1>13, <2>2, <2>3 DEF Calm, Checked
<1>. QED BY <1>a, <1>5, <1>7, <1>9, <1>16, <1>17

-----------------------------------------------------------------------------
(* InputSplit, step by step.                                                 *)

\* While the shell looks for the redirections that wait: behind the end of the
\* input, some that the lines ask for may have had their turn.
Waited(x, tx, s, e) ==
  \E ws \in Texts :
    (ws = s.wanted \/ e) /\ Wants(x.toks, tx, ws) /\ HasBodies(x.toks, s.bodies, Len(ws))

\* While the body b of the d-th token is read: it is the next that is wanted, and
\* goes in behind all the bodies and before all that wait.
Bodied(x, tx, s, d, b) ==
  \E w \in Seq(Symbols), ws \in Texts :
    /\ s.wanted = <<w>> \o ws /\ Wants(x.toks, tx, ws)
    /\ s.bodies = Append(Bodies(x.toks), b) \o Empties(Len(ws))
    /\ Says(x.toks[d + 1], w, tx)
    /\ \A k \in d..Len(x.toks) : x.toks[k].type # "BODY"
    /\ \A k \in 1..Len(x.toks) : x.toks[k].flag => k > d + 1

\* What the shell has, at p, of the lines whose split is s: their command in the
\* buffer, their bodies among the tokens, and the marks of those that wait.
Away == {"init", "ended", "crashed"}
Heredocs == {"arm", "armed", "bodyline"}
Between == {"prompt", "line", "check", "heredocs"} \cup Heredocs
Fits(p, x, tx, s, e, d, b) ==
  /\ p \notin Away => Unbroken(tx) = s.command
  /\ p \in Between => Calm(x, s)
  /\ p \in Between \cup {"lex"} => Counted(x)
  /\ p \in {"prompt", "line", "parse"} =>
       (s.wanted = <<>> \/ e) /\ Unasked(x.toks) /\ Bodies(x.toks) = s.bodies
  /\ p = "lex" => Lexed(x, tx, s)
  /\ p = "check" => Checked(x, tx, s)
  /\ p = "heredocs" => Waited(x, tx, s, e)
  /\ p \in Heredocs => (e /\ b = <<>>) \/ Bodied(x, tx, s, d, b)
SplitInv == Fits(pc, lx, total, Split(since), eof, doc, body)

\* Away from the lines there is nothing to keep.
LEMMA FitsAway ==
  ASSUME NEW p \in Away, NEW x, NEW tx, NEW s, NEW e, NEW d, NEW b
  PROVE  Fits(p, x, tx, s, e, d, b)
BY DEF Fits, Away, Between, Heredocs

\* From one place to another of the same kind.
LEMMA FitsOn ==
  ASSUME NEW p, NEW q, p = q \/ (p = "prompt" /\ q = "line") \/ (p \in Heredocs /\ q \in Heredocs),
         NEW x, NEW tx, NEW s, NEW e, NEW d, NEW b, Fits(p, x, tx, s, e, d, b)
  PROVE  Fits(q, x, tx, s, e, d, b)
BY DEF Fits, Away, Between, Heredocs

\* Nothing is read yet.
LEMMA FitsEmpty ==
  ASSUME NEW e, NEW d, NEW b
  PROVE  Fits("prompt", NewLexer, <<>>, Split(<<>>), e, d, b)
<1>1. PICK s : s = Split(<<>>)
  OBVIOUS
<1>2. s.command = <<>> /\ s.wanted = <<>> /\ s.bodies = <<>>
  BY <1>1, SplitIs DEF Nothing
<1>3. PICK x : x = NewLexer
  OBVIOUS
<1>4. x.mode = "lex" /\ x.toks = <<>>
  BY <1>3 DEF NewLexer
<1>5. Calm(x, s)
  <2>1. x.mode # DoubleQuote
    BY <1>4, DoubleQuoteIs
  <2>. QED BY <1>2, <1>4, <2>1, QuotedNone DEF Calm
<1>6. Unasked(x.toks) /\ Counted(x)
  BY <1>4 DEF Unasked, Counted
<1>7. Bodies(x.toks) = s.bodies
  BY <1>2, <1>4, BodiesEmpty
<1>8. Unbroken(<<>>) = s.command
  BY <1>2, UnbrokenIs
<1>9. Fits("prompt", x, <<>>, s, e, d, b)
  BY <1>2, <1>5, <1>6, <1>7, <1>8 DEF Fits, Heredocs
<1>. QED BY <1>1, <1>3, <1>9

\* A line is read, and the lexer begins on it.
LEMMA FitsLine ==
  ASSUME NEW x, Good(x), NEW tx \in Seq(Symbols), x.pos = Len(tx), NEW s \in Splits,
         NEW d, NEW b, Fits("line", x, tx, s, FALSE, d, b),
         NEW l \in Lines, NEW chunk, chunk = l \/ chunk = Append(l, "\n"), NEW e
  PROVE  Fits(IF chunk = <<>> THEN "check" ELSE "lex", BeginChunk(x), tx \o chunk,
              SplitLine(s, l), e, d, b)
<1>1. /\ Unbroken(tx) = s.command /\ Calm(x, s) /\ s.wanted = <<>>
      /\ Unasked(x.toks) /\ Bodies(x.toks) = s.bodies
  BY DEF Fits, Away, Between
<1>2. l \in Seq(Symbols)
  BY LinesType
<1>3. PICK new : new = SplitLine(s, l)
  OBVIOUS
<1>4. PICK y : y = BeginChunk(x)
  OBVIOUS
<1>5. PICK more : more = tx \o chunk
  OBVIOUS
<1>6. /\ Lexed(y, more, new) /\ Counted(y)
      /\ chunk = <<>> => Calm(y, new) /\ Checked(y, tx, new)
  BY <1>1, <1>3, <1>4, <1>5, LexedBegins
<1>7. new.command = s.command \o l
  BY <1>1, <1>2, <1>3, LineOfCommand
<1>8. \A k \in 1..Len(l) : l[k] # "\n"
  <2>1. l \in Seq(Symbols \ {"\n", "\\"})
    BY LinesAssumption
  <2>2. \A k \in 1..Len(l) : l[k] \in Symbols \ {"\n", "\\"}
    BY <2>1, ElementOfSeq
  <2>. QED BY <2>2
<1>9. Unbroken(tx \o l) = new.command
  BY <1>1, <1>2, <1>7, <1>8, UnbrokenLine
<1>10. Unbroken(more) = new.command
  <2>1. CASE chunk = l
    BY <1>5, <1>9, <2>1
  <2>2. CASE chunk = Append(l, "\n")
    <3>1. PICK nl \in Symbols : nl = "\n"
      BY DEF Symbols, Blanks
    <3>2. PICK text \in Seq(Symbols) : text = tx \o l
      BY <1>2, ConcatProperties
    <3>3. more = Append(text, nl)
      <4>1. tx \o Append(l, nl) = Append(tx \o l, nl)
        BY <1>2
      <4>. QED BY <1>5, <2>2, <3>1, <3>2, <4>1
    <3>4. Unbroken(Append(text, nl)) = Unbroken(text)
      BY <3>1, UnbrokenMore
    <3>. QED BY <1>9, <3>2, <3>3, <3>4
  <2>. QED BY <2>1, <2>2
<1>11. CASE chunk = <<>>
  <2>1. more = tx
    BY <1>5, <1>11, ConcatEmptySeq
  <2>2. Checked(y, more, new) /\ Calm(y, new)
    BY <1>6, <1>11, <2>1
  <2>3. Fits("check", y, more, new, e, d, b)
    BY <1>6, <1>10, <2>2 DEF Fits, Heredocs
  <2>. QED BY <1>3, <1>4, <1>5, <1>11, <2>3
<1>12. CASE chunk # <<>>
  <2>1. Fits("lex", y, more, new, e, d, b)
    BY <1>6, <1>10 DEF Fits, Heredocs, Between
  <2>. QED BY <1>3, <1>4, <1>5, <1>12, <2>1
<1>. QED BY <1>11, <1>12

\* It is lexed.
LEMMA FitsSymbol ==
  ASSUME \A l \in Lines : Readable(l),
         NEW x, Good(x), NEW tx \in Seq(Symbols), x.pos < Len(tx), NEW s, NEW e, NEW d, NEW b,
         Fits("lex", x, tx, s, e, d, b)
  PROVE  Fits("lex", Step(x, tx[x.pos + 1]), tx, s, e, d, b)
<1>1. Lexed(x, tx, s) /\ Counted(x) /\ Unbroken(tx) = s.command
  BY DEF Fits, Away
<1>2. PICK y : y = Step(x, tx[x.pos + 1])
  OBVIOUS
<1>3. Lexed(y, tx, s) /\ Counted(y)
  BY <1>1, <1>2, LexedNext
<1>4. Fits("lex", y, tx, s, e, d, b)
  BY <1>1, <1>3 DEF Fits, Heredocs, Between
<1>. QED BY <1>2, <1>4

LEMMA FitsLexed ==
  ASSUME NEW x, Good(x), NEW tx \in Seq(Symbols), x.pos = Len(tx), NEW s, NEW e, NEW d, NEW b,
         Fits("lex", x, tx, s, e, d, b), NEW term \in BOOLEAN
  PROVE  Fits("check", EndChunk(x, term), tx, s, e, d, b)
<1>1. Lexed(x, tx, s) /\ Counted(x) /\ Unbroken(tx) = s.command
  BY DEF Fits, Away
<1>2. PICK y : y = EndChunk(x, term)
  OBVIOUS
<1>3. Calm(y, s) /\ Checked(y, tx, s) /\ Counted(y)
  BY <1>1, <1>2, LexedEnds
<1>4. Fits("check", y, tx, s, e, d, b)
  BY <1>1, <1>3 DEF Fits, Heredocs
<1>. QED BY <1>2, <1>4

\* It is accepted, perhaps with a newline behind it.
LEMMA FitsAccepted ==
  ASSUME NEW x \in Lexers, NEW tx \in Seq(Symbols), NEW s \in Splits, NEW e, NEW d, NEW b,
         Fits("check", x, tx, s, e, d, b)
  PROVE  /\ Fits("heredocs", x, tx, s, e, d, b)
         /\ Fits("heredocs", Advance(x), Append(tx, "\n"), s, e, d, b)
<1>1. Checked(x, tx, s) /\ Calm(x, s) /\ Counted(x) /\ Unbroken(tx) = s.command
  BY DEF Fits, Away, Between
<1>2. PICK ws \in Texts : ws = s.wanted
  BY SplitsAre
<1>3. Wants(x.toks, tx, ws) /\ HasBodies(x.toks, s.bodies, Len(ws))
  BY <1>1, <1>2 DEF Checked
<1>4. Waited(x, tx, s, e)
  BY <1>2, <1>3 DEF Waited
<1>5. Fits("heredocs", x, tx, s, e, d, b)
  BY <1>1, <1>4 DEF Fits, Heredocs
<1>6. PICK nl \in Symbols : nl = "\n"
  BY DEF Symbols, Blanks
<1>7. PICK y : y = Advance(x)
  OBVIOUS
<1>8. y.toks = x.toks /\ y.mode = x.mode /\ y.hd = x.hd
  <2>1. \A p : LET z == [x EXCEPT !.pos = p] IN z.toks = x.toks /\ z.mode = x.mode /\ z.hd = x.hd
    BY DEF Lexers
  <2>. QED BY <1>7, <2>1 DEF Advance
<1>9. x.toks \in Seq(Tokens)
  BY LexersDef
<1>10. Wants(y.toks, Append(tx, nl), ws)
  BY <1>3, <1>8, <1>9, WantsLater
<1>11. Waited(y, Append(tx, nl), s, e)
  BY <1>2, <1>3, <1>8, <1>10 DEF Waited
<1>12. Calm(y, s) /\ Counted(y)
  BY <1>1, <1>8 DEF Calm, Counted
<1>13. Unbroken(Append(tx, nl)) = s.command
  BY <1>1, <1>6, UnbrokenMore
<1>14. Fits("heredocs", y, Append(tx, nl), s, e, d, b)
  BY <1>11, <1>12, <1>13 DEF Fits, Heredocs
<1>. QED BY <1>5, <1>6, <1>7, <1>14

\* Nothing waits: all that was asked for is there.
LEMMA FitsComplete ==
  ASSUME NEW x \in Lexers, NEW tx, NEW s, NEW e, NEW d, NEW b,
         Fits("heredocs", x, tx, s, e, d, b),
         \A k \in 1..Len(x.toks) : ~(x.toks[k].flag /\ x.hd > 0)
  PROVE  Fits("prompt", x, tx, s, e, d, b) /\ Fits("parse", SoftReset(x), tx, s, e, d, b)
<1>1. Waited(x, tx, s, e) /\ Calm(x, s) /\ Counted(x) /\ Unbroken(tx) = s.command
  BY DEF Fits, Away, Between
<1>2. PICK ws \in Texts : /\ ws = s.wanted \/ e
                          /\ Wants(x.toks, tx, ws) /\ HasBodies(x.toks, s.bodies, Len(ws))
  BY <1>1 DEF Waited
<1>3. Unasked(x.toks)
  BY <1>1 DEF Counted, Unasked
<1>4. ws = <<>>
  BY <1>2, <1>3, WantsNone
<1>5. Bodies(x.toks) = s.bodies
  <2>1. x.toks \in Seq(Tokens)
    BY LexersDef
  <2>2. Bodies(x.toks) \in Seq(Texts)
    BY <2>1, BodiesType
  <2>3. Len(ws) = 0
    BY <1>4, EmptySeq
  <2>. QED BY <1>2, <2>2, <2>3, NoEmpties DEF HasBodies
<1>6. s.wanted = <<>> \/ e
  BY <1>2, <1>4
<1>7. Fits("prompt", x, tx, s, e, d, b)
  BY <1>1, <1>3, <1>5, <1>6 DEF Fits, Heredocs
<1>8. PICK y : y = SoftReset(x)
  OBVIOUS
<1>9. y.toks = x.toks
  BY <1>8, SoftResetType
<1>10. Fits("parse", y, tx, s, e, d, b)
  BY <1>1, <1>3, <1>5, <1>6, <1>9 DEF Fits, Heredocs, Between
<1>. QED BY <1>7, <1>8, <1>10

\* The first redirection that waits has its turn.
LEMMA FitsBegun ==
  ASSUME NEW x \in Lexers, NEW tx, NEW s \in Splits, NEW e \in BOOLEAN, NEW d, NEW b,
         Fits("heredocs", x, tx, s, e, d, b),
         NEW k \in 1..Len(x.toks), x.toks[k].flag, x.hd > 0, \A j \in 1..(k - 1) : ~x.toks[j].flag
  PROVE  Fits("arm", [x EXCEPT !.toks[k].flag = FALSE], tx, s, e, k, <<>>)
<1>1. Waited(x, tx, s, e) /\ Calm(x, s) /\ Counted(x) /\ Unbroken(tx) = s.command
  BY DEF Fits, Away, Between
<1>2. PICK y : y = [x EXCEPT !.toks[k].flag = FALSE]
  OBVIOUS
<1>3. PICK toks \in Seq(Tokens) : toks = x.toks
  BY LexersDef
<1>4. PICK more \in Seq(Tokens) :
        /\ more = [toks EXCEPT ![k] = [toks[k] EXCEPT !.flag = FALSE]]
        /\ Len(more) = Len(toks) /\ more[k] = [toks[k] EXCEPT !.flag = FALSE]
        /\ \A j \in 1..Len(toks) : j # k => more[j] = toks[j]
  <2>1. PICK t \in Tokens : t = [toks[k] EXCEPT !.flag = FALSE]
    <3>1. toks[k] \in Tokens
      BY <1>3
    <3>. QED BY <3>1 DEF Tokens
  <2>2. k \in 1..Len(toks)
    BY <1>3
  <2>3. /\ [toks EXCEPT ![k] = t] \in Seq(Tokens) /\ Len([toks EXCEPT ![k] = t]) = Len(toks)
        /\ \A j \in 1..Len(toks) : [toks EXCEPT ![k] = t][j] = IF j = k THEN t ELSE toks[j]
    BY <2>2, ExceptSeq
  <2>. QED BY <2>1, <2>2, <2>3
<1>5. y = [x EXCEPT !.toks = more]
  BY <1>2, <1>3, <1>4
<1>6. y.toks = more /\ y.mode = x.mode /\ y.hd = x.hd
  <2>1. \A v : LET z == [x EXCEPT !.toks = v] IN z.toks = v /\ z.mode = x.mode /\ z.hd = x.hd
    BY DEF Lexers
  <2>. QED BY <1>5, <2>1
<1>7. Calm(y, s) /\ Counted(y)
  BY <1>1, <1>6 DEF Calm, Counted
<1>8. ASSUME ~e PROVE Bodied(y, tx, s, k, <<>>)
  <2>1. PICK ws \in Texts : ws = s.wanted /\ Wants(toks, tx, ws) /\ HasBodies(toks, s.bodies, Len(ws))
    BY <1>1, <1>3, <1>8 DEF Waited
  <2>2. k \in 1..Len(toks) /\ toks[k].flag /\ \A j \in 1..(k - 1) : ~toks[j].flag
    BY <1>3
  <2>3. \E w \in Seq(Symbols), rest \in Texts :
          /\ ws = <<w>> \o rest /\ k < Len(toks) /\ Says(more[k + 1], w, tx)
          /\ Wants(more, tx, rest) /\ Bodies(more) = Bodies(toks)
          /\ \A j \in k..Len(more) : more[j].type # "BODY"
          /\ \A j \in 1..Len(more) : more[j].flag => j > k + 1
    <3>1. /\ Len(more) = Len(toks) /\ more[k] = [toks[k] EXCEPT !.flag = FALSE]
          /\ \A j \in 1..Len(toks) : j # k => more[j] = toks[j]
      BY <1>4
    <3>2. Wants(toks, tx, ws)
      BY <2>1
    <3>. QED BY ONLY <2>2, <3>1, <3>2, toks \in Seq(Tokens), more \in Seq(Tokens), ws \in Texts,
                BodyBegins, ZenonT(40)
  <2>4. PICK w \in Seq(Symbols), rest \in Texts :
          /\ ws = <<w>> \o rest /\ Says(more[k + 1], w, tx)
          /\ Wants(more, tx, rest) /\ Bodies(more) = Bodies(toks)
          /\ \A j \in k..Len(more) : more[j].type # "BODY"
          /\ \A j \in 1..Len(more) : more[j].flag => j > k + 1
    BY <2>3
  <2>5. PICK m \in Nat : m = Len(rest) /\ Len(ws) = m + 1
    BY <2>4 DEF Texts
  <2>6. PICK done \in Seq(Texts) : done = Bodies(toks)
    BY BodiesType
  <2>7. s.bodies = done \o Empties(m + 1)
    BY <2>1, <2>5, <2>6 DEF HasBodies
  <2>8. s.bodies = Append(done, <<>>) \o Empties(m)
    BY <2>7, EmptiesMore
  <2>. QED BY <1>6, <2>1, <2>4, <2>5, <2>6, <2>8 DEF Bodied
<1>9. Fits("arm", y, tx, s, e, k, <<>>)
  BY <1>1, <1>7, <1>8 DEF Fits, Heredocs, Between
<1>. QED BY <1>2, <1>9

\* A line of the body.
LEMMA BodiedLine ==
  ASSUME NEW x \in Lexers, NEW tx, NEW s \in Splits, NEW d, NEW b \in Texts, Bodied(x, tx, s, d, b),
         NEW l \in Seq(Symbols), \A w \in Seq(Symbols) : Says(x.toks[d + 1], w, tx) => l # w
  PROVE  Bodied(x, tx, SplitLine(s, l), d, Append(b, l)) /\ SplitLine(s, l).command = s.command
<1>1. PICK w \in Seq(Symbols), ws \in Texts :
        /\ s.wanted = <<w>> \o ws /\ Wants(x.toks, tx, ws)
        /\ s.bodies = Append(Bodies(x.toks), b) \o Empties(Len(ws))
        /\ Says(x.toks[d + 1], w, tx)
        /\ \A k \in d..Len(x.toks) : x.toks[k].type # "BODY"
        /\ \A k \in 1..Len(x.toks) : x.toks[k].flag => k > d + 1
  BY DEF Bodied
<1>2. PICK new : new = SplitLine(s, l)
  OBVIOUS
<1>3. PICK done \in Seq(Texts) : done = Bodies(x.toks)
  BY BodiesType, LexersDef
<1>4. s.wanted = <<w>> \o ws /\ s.bodies = Append(done, b) \o Empties(Len(ws))
  BY <1>1, <1>3
<1>a. l # w
  BY <1>1
<1>b. Pends(s, w, ws, done, b)
  BY <1>4 DEF Pends
<1>c. new.command = s.command /\ Pends(new, w, ws, done, Append(b, l))
  BY <1>2, <1>a, <1>b, LineOfBody
<1>5. /\ new.command = s.command /\ new.wanted = s.wanted
      /\ new.bodies = Append(done, Append(b, l)) \o Empties(Len(ws))
  BY <1>4, <1>c DEF Pends
<1>6. Bodied(x, tx, new, d, Append(b, l))
  BY <1>1, <1>3, <1>5 DEF Bodied
<1>. QED BY <1>2, <1>5, <1>6

\* The delimiter.
LEMMA BodiedEnd ==
  ASSUME NEW x \in Lexers, NEW tx, NEW s \in Splits, NEW d, NEW b \in Texts, Bodied(x, tx, s, d, b),
         NEW l \in Seq(Symbols), Says(x.toks[d + 1], l, tx)
  PROVE  LET new == SplitLine(s, l)
         IN /\ new.command = s.command /\ new.bodies = s.bodies
            /\ new.wanted = Tail(s.wanted)
<1>1. PICK w \in Seq(Symbols), ws \in Texts :
        /\ s.wanted = <<w>> \o ws
        /\ s.bodies = Append(Bodies(x.toks), b) \o Empties(Len(ws))
        /\ Says(x.toks[d + 1], w, tx)
  BY DEF Bodied
<1>2. PICK new : new = SplitLine(s, l)
  OBVIOUS
<1>3. PICK done \in Seq(Texts) : done = Bodies(x.toks)
  BY BodiesType, LexersDef
<1>4. s.wanted = <<w>> \o ws /\ s.bodies = Append(done, b) \o Empties(Len(ws))
  BY <1>1, <1>3
<1>a. l = w
  BY <1>1 DEF Says
<1>b. Pends(s, w, ws, done, b)
  BY <1>4 DEF Pends
<1>5. new.command = s.command /\ new.wanted = ws /\ new.bodies = s.bodies
  BY <1>2, <1>a, <1>b, LineOfBody
<1>6. Tail(s.wanted) = ws
  BY <1>b, PendsTail
<1>. QED BY <1>2, <1>5, <1>6

\* The list of tokens with one more, behind the delimiter of the d-th one.
Put(x, d, t) ==
  [x EXCEPT !.toks = SubSeq(x.toks, 1, d + 1) \o <<t>> \o SubSeq(x.toks, d + 2, Len(x.toks))]

\* The body goes in: after its delimiter, or at the end of the input.
LEMMA BodiedIn ==
  ASSUME NEW x \in Lexers, NEW tx, NEW s, NEW d \in Nat, NEW b \in Texts, Bodied(x, tx, s, d, b),
         d + 1 \in 1..Len(x.toks), NEW t \in Tokens, t.type = "BODY", ~t.flag, t.body = b,
         Counted(x), NEW new, new.bodies = s.bodies, NEW e, e \/ new.wanted = Tail(s.wanted)
  PROVE  LET y == Put(x, d, t) IN Waited(y, tx, new, e) /\ Counted(y) /\ y.mode = x.mode
<1>a. PICK more : more = SubSeq(x.toks, 1, d + 1) \o <<t>> \o SubSeq(x.toks, d + 2, Len(x.toks))
  OBVIOUS
<1>b. PICK y : y = Put(x, d, t) /\ y = [x EXCEPT !.toks = more]
  BY <1>a DEF Put
<1>1. PICK w \in Seq(Symbols), ws \in Texts :
        /\ s.wanted = <<w>> \o ws /\ Wants(x.toks, tx, ws)
        /\ s.bodies = Append(Bodies(x.toks), b) \o Empties(Len(ws))
        /\ \A k \in d..Len(x.toks) : x.toks[k].type # "BODY"
        /\ \A k \in 1..Len(x.toks) : x.toks[k].flag => k > d + 1
  BY DEF Bodied
<1>2. PICK toks \in Seq(Tokens) : toks = x.toks
  BY LexersDef
<1>3. PICK c \in 1..Len(toks) : c = d + 1 /\ c + 1 = d + 2
  <2>1. (d + 1) + 1 = d + 2
    OBVIOUS
  <2>. QED BY <1>2, <2>1
<1>4. more \in Seq(Tokens) /\ Inserted(more, toks, c, t)
  <2>1. more = SubSeq(toks, 1, c) \o <<t>> \o SubSeq(toks, c + 1, Len(toks))
    BY <1>a, <1>2, <1>3
  <2>. QED BY <2>1, InsertedIs
<1>5. y.toks = more /\ y.mode = x.mode /\ y.hd = x.hd
  <2>1. \A v : LET z == [x EXCEPT !.toks = v] IN z.toks = v /\ z.mode = x.mode /\ z.hd = x.hd
    BY DEF Lexers
  <2>. QED BY <1>b, <2>1
<1>6. \A j \in (c + 1)..Len(toks) : toks[j].type # "BODY"
  <2>1. \A j \in (c + 1)..Len(toks) : j \in d..Len(toks)
    BY <1>3
  <2>. QED BY <1>1, <1>2, <2>1
<1>7. \A j \in 1..Len(toks) : toks[j].flag => j > c
  BY <1>1, <1>2, <1>3
<1>8. Wants(toks, tx, ws)
  BY <1>1, <1>2
<1>9. Wants(more, tx, ws) /\ (Unasked(toks) => Unasked(more))
  BY ONLY toks \in Seq(Tokens), ws \in Texts, c \in 1..Len(toks), t \in Tokens, t.type = "BODY",
          ~t.flag, <1>4, <1>6, <1>7, <1>8, BodyGoesIn
<1>10. Bodies(more) = Append(Bodies(toks), b)
  BY <1>4, <1>6, BodyIsLast
<1>11. HasBodies(more, new.bodies, Len(ws))
  BY <1>1, <1>2, <1>10 DEF HasBodies
<1>12. Tail(s.wanted) = ws
  <2>1. Pends(s, w, ws, Bodies(x.toks), b)
    BY <1>1 DEF Pends
  <2>. QED BY <2>1, PendsTail
<1>13. ws = new.wanted \/ e
  BY <1>12
<1>14. Waited(y, tx, new, e)
  BY <1>5, <1>9, <1>11, <1>13 DEF Waited
<1>15. Counted(y)
  BY <1>2, <1>5, <1>9 DEF Counted
<1>. QED BY <1>b, <1>5, <1>14, <1>15

\* Calm looks at the mode and the command only.
LEMMA CalmSame ==
  ASSUME NEW x, NEW s, Calm(x, s), NEW y, y.mode = x.mode, NEW new, new.command = s.command
  PROVE  Calm(y, new)
BY DEF Calm

\* What the body that is read says of the state.
LEMMA AtBody ==
  ASSUME BufferInv, pc = "bodyline"
  PROVE  /\ lx \in Lexers /\ doc \in Nat /\ body \in Texts /\ since \in Texts
         /\ doc + 1 \in 1..Len(lx.toks) /\ lx.toks[doc + 1] \in Tokens
         /\ Split(since) \in Splits
<1>1. lx \in Lexers /\ body \in Texts /\ since \in Texts /\ doc \in 1..(Len(lx.toks) - 1)
  BY BufferFacts DEF BufferInv, TypeOK, Texts
<1>2. lx.toks \in Seq(Tokens) /\ Len(lx.toks) \in Nat
  BY <1>1, LexersDef, LenProperties
<1>3. doc \in Nat /\ doc + 1 \in 1..Len(lx.toks)
  BY <1>1, <1>2
<1>4. lx.toks[doc + 1] \in Tokens
  BY <1>2, <1>3, ElementOfSeq
<1>. QED BY <1>1, <1>3, <1>4, SplitIs

\* The delimiter of the model is the text of its token.
LEMMA DelimiterSays ==
  ASSUME BufferInv, pc = "bodyline", NEW w \in Seq(Symbols), Says(lx.toks[doc + 1], w, total)
  PROVE  Delimiter = w
BY AtBody, OnePiece DEF Delimiter

\* A line of the body, or its end.
LEMMA SplitBodyLine ==
  ASSUME BufferInv, SplitInv, NEW l \in Lines, NEW last \in BOOLEAN, ReadBodyLine(l, last)
  PROVE  SplitInv'
<1>1. /\ pc = "bodyline" /\ ~eof /\ l # Delimiter /\ body' = Append(body, l)
      /\ since' = Append(since, l) /\ pc' = "arm" /\ UNCHANGED <<total, lx, doc>>
  BY DEF ReadBodyLine, Receives
<1>2. l \in Seq(Symbols)
  BY LinesType
<1>3. PICK s \in Splits : s = Split(since)
  BY <1>1, AtBody
<1>4. PICK new : new = SplitLine(s, l)
  OBVIOUS
<1>5. Split(since') = new
  BY <1>1, <1>2, <1>3, <1>4, AtBody, SplitMore
<1>6. /\ Unbroken(total) = s.command /\ Calm(lx, s) /\ Counted(lx)
      /\ Bodied(lx, total, s, doc, body)
  BY <1>1, <1>3 DEF SplitInv, Fits, Away, Between, Heredocs
<1>7. \A w \in Seq(Symbols) : Says(lx.toks[doc + 1], w, total) => l # w
  BY <1>1, DelimiterSays
<1>8. Bodied(lx, total, new, doc, Append(body, l)) /\ new.command = s.command
  <2>1. lx \in Lexers /\ body \in Texts /\ Bodied(lx, total, s, doc, body)
    BY <1>1, <1>6, AtBody
  <2>. QED BY <1>2, <1>4, <1>7, <2>1, BodiedLine
<1>9. Calm(lx, new)
  BY <1>6, <1>8, CalmSame
<1>10. Fits("arm", lx, total, new, eof', doc, Append(body, l))
  BY <1>6, <1>8, <1>9 DEF Fits, Away, Between, Heredocs
<1>. QED BY <1>1, <1>5, <1>10 DEF SplitInv

\* The body goes in, with the line that ends it or without.
LEMMA SplitKeep ==
  ASSUME BufferInv, SplitInv, pc = "bodyline", KeepBody,
         NEW new, new.command = Split(since).command, new.bodies = Split(since).bodies,
         eof' \/ new.wanted = Tail(Split(since).wanted), Split(since') = new
  PROVE  SplitInv'
<1>1. body # <<>> /\ pc' = "heredocs" /\ UNCHANGED <<total, doc, body>>
  BY DEF KeepBody, heredoc
<1>2. PICK s \in Splits : s = Split(since)
  BY AtBody
<1>3. /\ Unbroken(total) = s.command /\ Calm(lx, s) /\ Counted(lx)
      /\ Bodied(lx, total, s, doc, body)
  BY <1>1, <1>2 DEF SplitInv, Fits, Away, Between, Heredocs
<1>4. PICK t \in Tokens : /\ t = [Token("BODY", <<>>) EXCEPT !.body = body]
                          /\ t.type = "BODY" /\ ~t.flag /\ t.body = body
  <2>1. "BODY" \in TokTypes /\ <<>> \in Seq(Parts)
    BY EmptySeq DEF TokTypes
  <2>2. Token("BODY", <<>>) \in Tokens
    BY <2>1, TokenType
  <2>3. Token("BODY", <<>>).type = "BODY" /\ ~Token("BODY", <<>>).flag
    BY DEF Token
  <2>4. body \in Seq(Seq(Symbols))
    BY AtBody DEF Texts
  <2>5. ASSUME NEW u \in Tokens, NEW b \in Seq(Seq(Symbols))
        PROVE  LET v == [u EXCEPT !.body = b]
               IN v \in Tokens /\ v.type = u.type /\ v.flag = u.flag /\ v.body = b
    BY DEF Tokens
  <2>. QED BY <2>2, <2>3, <2>4, <2>5
<1>7. PICK y : y = Put(lx, doc, t)
  OBVIOUS
<1>8. lx' = y
  BY <1>4, <1>7 DEF KeepBody, InsertBody, Put
<1>a. PICK e : e = eof'
  OBVIOUS
<1>9. Waited(y, total, new, e) /\ Counted(y) /\ y.mode = lx.mode
  <2>1. /\ lx \in Lexers /\ doc \in Nat /\ body \in Texts /\ doc + 1 \in 1..Len(lx.toks)
        /\ Bodied(lx, total, s, doc, body) /\ Counted(lx)
    BY <1>3, AtBody
  <2>2. new.bodies = s.bodies /\ (e \/ new.wanted = Tail(s.wanted))
    BY <1>2, <1>a
  <2>3. t.type = "BODY" /\ ~t.flag /\ t.body = body
    BY <1>4
  <2>. QED BY ONLY t \in Tokens, <1>7, <2>1, <2>2, <2>3, BodiedIn
<1>10. Calm(y, new)
  BY <1>2, <1>3, <1>9, CalmSame
<1>11. Fits("heredocs", y, total, new, e, doc, body)
  BY <1>2, <1>3, <1>9, <1>10 DEF Fits, Heredocs
<1>. QED BY <1>1, <1>8, <1>a, <1>11 DEF SplitInv

LEMMA SplitBodyEnd ==
  ASSUME BufferInv, SplitInv, NEW l \in Lines, NEW last \in BOOLEAN, EndBody(l, last)
  PROVE  SplitInv'
<1>1. /\ pc = "bodyline" /\ ~eof /\ (l = Delimiter \/ flag = 1) /\ since' = Append(since, l)
      /\ IF flag = 0 /\ body # <<>> THEN KeepBody ELSE DropCommand
  BY DEF EndBody, Receives
<1>2. CASE DropCommand
  BY <1>2, FitsAway DEF DropCommand, Away, SplitInv
<1>3. CASE KeepBody /\ flag = 0
  <2>1. l = Delimiter /\ l \in Seq(Symbols)
    BY <1>1, <1>3, LinesType
  <2>2. PICK s \in Splits : s = Split(since)
    BY <1>1, AtBody
  <2>3. Bodied(lx, total, s, doc, body)
    BY <1>1, <2>2 DEF SplitInv, Fits, Heredocs
  <2>4. Says(lx.toks[doc + 1], l, total)
    <3>1. PICK w \in Seq(Symbols) : Says(lx.toks[doc + 1], w, total)
      BY <2>3 DEF Bodied
    <3>2. Delimiter = w
      BY <1>1, <3>1, DelimiterSays
    <3>. QED BY <2>1, <3>1, <3>2
  <2>5. PICK new : new = SplitLine(s, l)
    OBVIOUS
  <2>6. Split(since') = new
    BY <1>1, <2>1, <2>2, <2>5, AtBody, SplitMore
  <2>7. new.command = s.command /\ new.bodies = s.bodies /\ new.wanted = Tail(s.wanted)
    BY <1>1, <2>1, <2>3, <2>4, <2>5, AtBody, BodiedEnd
  <2>. QED BY <1>1, <1>3, <2>2, <2>6, <2>7, SplitKeep
<1>. QED BY <1>1, <1>2, <1>3

LEMMA SplitBodyEof ==
  ASSUME BufferInv, SplitInv, EofInBody
  PROVE  SplitInv'
<1>1. /\ pc = "bodyline" /\ eof' = ~tty /\ since' = since
      /\ IF ~tty /\ body # <<>> THEN KeepBody ELSE DropCommand
  BY DEF EofInBody, ReceivesEof
<1>2. CASE DropCommand
  BY <1>2, FitsAway DEF DropCommand, Away, SplitInv
<1>3. CASE KeepBody /\ ~tty
  <2>1. PICK new : new = Split(since)
    OBVIOUS
  <2>2. Split(since') = new /\ eof'
    BY <1>1, <1>3, <2>1
  <2>. QED BY <1>1, <1>3, <2>1, <2>2, SplitKeep
<1>. QED BY <1>1, <1>2, <1>3

\* Every step.
LEMMA SplitStep ==
  ASSUME \A l \in Lines : Readable(l), BufferInv, SplitInv, [Next]_vars
  PROVE  SplitInv'
<1>0. /\ lx \in Lexers /\ total \in Seq(Symbols) /\ tty \in BOOLEAN /\ eof \in BOOLEAN
      /\ since \in Texts /\ Split(since) \in Splits
  BY BufferFacts, SplitIs DEF BufferInv, TypeOK, Texts
<1>1. CASE InitRead
  <2>1. lx' = NewLexer /\ total' = <<>> /\ since' = <<>> /\ pc' = "prompt"
    BY <1>1 DEF InitRead
  <2>. QED BY <2>1, FitsEmpty DEF SplitInv
<1>2. CASE Prompt
  <2>1. pc = "prompt" /\ pc' = "line" /\ UNCHANGED <<lx, total, since, eof, doc, body>>
    BY <1>2 DEF Prompt, input, heredoc
  <2>. QED BY <2>1, FitsOn DEF SplitInv
<1>3. ASSUME NEW l \in Lines, NEW last \in BOOLEAN, ReadLine(l, last) PROVE SplitInv'
  <2>1. PICK chunk : chunk = IF tty \/ last THEN l ELSE Append(l, "\n")
    OBVIOUS
  <2>2. /\ pc = "line" /\ eof = FALSE /\ lx' = BeginChunk(lx) /\ total' = total \o chunk
        /\ since' = Append(since, l) /\ pc' = IF chunk = <<>> THEN "check" ELSE "lex"
    BY <1>0, <1>3, <2>1 DEF ReadLine, Receives
  <2>3. Good(lx) /\ lx.pos = Len(total)
    BY <2>2, BufferFacts
  <2>4. PICK s \in Splits : s = Split(since)
    BY <1>0
  <2>5. Split(since') = SplitLine(s, l)
    BY <1>0, <2>2, <2>4, LinesType, SplitMore
  <2>6. Fits("line", lx, total, s, FALSE, doc, body)
    BY <2>2, <2>4 DEF SplitInv
  <2>7. chunk = l \/ chunk = Append(l, "\n")
    BY <2>1
  <2>8. \A e, d, b : Fits(IF chunk = <<>> THEN "check" ELSE "lex", BeginChunk(lx), total \o chunk,
                          SplitLine(s, l), e, d, b)
    <3>1. \A d, b : Fits("line", lx, total, s, FALSE, d, b)
      BY <2>6 DEF Fits, Heredocs
    <3>. QED BY <1>0, <2>3, <2>7, <3>1, FitsLine
  <2>. QED BY <2>2, <2>5, <2>8 DEF SplitInv
<1>4. ASSUME NEW last \in BOOLEAN, CancelLine(last) PROVE SplitInv'
  <2>1. CASE tty
    <3>1. lx' = NewLexer /\ total' = <<>> /\ since' = <<>> /\ pc' = "prompt"
      BY <1>4, <2>1 DEF CancelLine
    <3>. QED BY <3>1, FitsEmpty DEF SplitInv
  <2>2. CASE ~tty
    BY <1>4, <2>2, FitsAway DEF CancelLine, Away, SplitInv
  <2>. QED BY <2>1, <2>2
<1>5. CASE ReadEof \/ Refuse \/ GiveUp \/ ExecuteNothing
  <2>1. pc' \in Away
    BY <1>5 DEF ReadEof, Refuse, GiveUp, ExecuteNothing, Away
  <2>. QED BY <2>1, FitsAway DEF SplitInv
<1>6. ASSUME NEW c \in ExecCodes, Execute(c) \/ ExecuteExit(c) PROVE SplitInv'
  <2>1. pc' \in Away
    BY <1>6 DEF Execute, ExecuteExit, Away
  <2>. QED BY <2>1, FitsAway DEF SplitInv
<1>7. CASE LexSymbol
  <2>1. /\ pc = "lex" /\ pc' = "lex" /\ lx.pos < Len(total) /\ lx' = Step(lx, total[lx.pos + 1])
        /\ UNCHANGED <<total, since, eof, doc, body>>
    BY <1>7 DEF LexSymbol, input, heredoc
  <2>2. Good(lx)
    BY <2>1, BufferFacts
  <2>3. Fits("lex", lx, total, Split(since), eof, doc, body)
    BY <2>1 DEF SplitInv
  <2>4. Fits("lex", Step(lx, total[lx.pos + 1]), total, Split(since), eof, doc, body)
    BY <1>0, <2>1, <2>2, <2>3, FitsSymbol
  <2>. QED BY <2>1, <2>4 DEF SplitInv
<1>8. CASE LexEnd
  <2>1. /\ pc = "lex" /\ pc' = "check" /\ lx.pos = Len(total) /\ lx' = EndChunk(lx, tty)
        /\ UNCHANGED <<total, since, eof, doc, body>>
    BY <1>8 DEF LexEnd, input, heredoc
  <2>2. Good(lx)
    BY <2>1, BufferFacts
  <2>3. Fits("lex", lx, total, Split(since), eof, doc, body)
    BY <2>1 DEF SplitInv
  <2>4. Fits("check", EndChunk(lx, tty), total, Split(since), eof, doc, body)
    BY <1>0, <2>1, <2>2, <2>3, FitsLexed
  <2>. QED BY <2>1, <2>4 DEF SplitInv
<1>9. CASE Accept
  <2>1. /\ pc = "check" /\ pc' = "heredocs" /\ UNCHANGED <<since, eof, doc, body>>
        /\ \/ UNCHANGED <<total, lx>>
           \/ total' = Append(total, "\n") /\ lx' = Advance(lx)
    BY <1>9 DEF Accept, PendingNewline, input, heredoc
  <2>2. Fits("check", lx, total, Split(since), eof, doc, body)
    BY <2>1 DEF SplitInv
  <2>3. /\ Fits("heredocs", lx, total, Split(since), eof, doc, body)
        /\ Fits("heredocs", Advance(lx), Append(total, "\n"), Split(since), eof, doc, body)
    BY <1>0, <2>2, FitsAccepted
  <2>. QED BY <2>1, <2>3 DEF SplitInv
<1>10. CASE NoPending
  <2>1. /\ pc = "heredocs" /\ UNCHANGED <<total, since, eof, doc, body>>
        /\ (pc' = "prompt" /\ lx' = lx) \/ (pc' = "parse" /\ lx' = SoftReset(lx))
        /\ \A k \in 1..Len(lx.toks) : ~(lx.toks[k].flag /\ lx.hd > 0)
    BY <1>10 DEF NoPending, IsPending, input, heredoc
  <2>2. Fits("heredocs", lx, total, Split(since), eof, doc, body)
    BY <2>1 DEF SplitInv
  <2>3. /\ Fits("prompt", lx, total, Split(since), eof, doc, body)
        /\ Fits("parse", SoftReset(lx), total, Split(since), eof, doc, body)
    BY <1>0, <2>1, <2>2, FitsComplete
  <2>. QED BY <2>1, <2>3 DEF SplitInv
<1>11. ASSUME NEW k \in 1..Len(lx.toks), BeginBody(k) PROVE SplitInv'
  <2>1. /\ pc = "heredocs" /\ UNCHANGED <<total, since, eof>> /\ doc' = k /\ body' = <<>>
        /\ pc' \in {"crashed", "arm"} /\ lx' = [lx EXCEPT !.toks[k].flag = FALSE]
    BY <1>11 DEF BeginBody, input
  <2>2. lx.toks[k].flag /\ lx.hd > 0
    BY <1>11 DEF BeginBody, NextPending, IsPending
  <2>3. ASSUME NEW j \in 1..(k - 1) PROVE ~lx.toks[j].flag
    <3>1. ~IsPending(j)
      BY <1>11 DEF BeginBody, NextPending
    <3>2. j \in 1..Len(lx.toks)
      <4>1. Len(lx.toks) \in Nat
        BY <1>0, LexersDef, LenProperties
      <4>. QED BY <4>1
    <3>. QED BY <2>2, <3>1, <3>2 DEF IsPending
  <2>4. Fits("heredocs", lx, total, Split(since), eof, doc, body)
    BY <2>1 DEF SplitInv
  <2>5. Fits("arm", [lx EXCEPT !.toks[k].flag = FALSE], total, Split(since), eof, k, <<>>)
    BY <1>0, <2>2, <2>3, <2>4, FitsBegun
  <2>6. CASE pc' = "arm"
    BY <2>1, <2>5, <2>6 DEF SplitInv
  <2>7. CASE pc' = "crashed"
    BY <2>7, FitsAway DEF SplitInv, Away
  <2>. QED BY <2>1, <2>6, <2>7
<1>12. CASE Arm \/ Armed \/ Interrupt \/ UNCHANGED vars
  <2>1. UNCHANGED <<lx, total, since, eof, doc, body>>
    BY <1>12 DEF Arm, Armed, Interrupt, vars, input, heredoc
  <2>2. pc = pc' \/ (pc \in Heredocs /\ pc' \in Heredocs)
    BY <1>12 DEF Arm, Armed, Interrupt, vars, Heredocs
  <2>3. Fits(pc', lx, total, Split(since), eof, doc, body)
    BY <2>2, FitsOn DEF SplitInv
  <2>. QED BY <2>1, <2>3 DEF SplitInv
<1>. QED BY <1>1, <1>2, <1>3, <1>4, <1>5, <1>6, <1>7, <1>8, <1>9, <1>10, <1>11, <1>12,
          SplitBodyLine, SplitBodyEnd, SplitBodyEof DEF Next, Reads, Shell

\* Every line read since init_read is in the command or in exactly one body, each
\* body behind its own redirection (read_user_input, collect_heredocs).
THEOREM LinesAreSplit ==
  ASSUME \A l \in Lines : Readable(l)
  PROVE  Spec => []InputSplit
<1>1. Init => SplitInv
  BY FitsAway DEF Init, SplitInv, Away
<1>2. BufferInv /\ SplitInv /\ [Next]_vars => SplitInv'
  BY SplitStep
<1>3. SplitInv => InputSplit
  BY DEF SplitInv, Fits, Away, InputSplit
<1>. QED BY BufferIsInductive, <1>1, <1>2, <1>3, PTL DEF Spec
=============================================================================
