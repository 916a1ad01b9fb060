------------------------------- MODULE Reader ------------------------------
(***************************************************************************)
(* minishell/minishell.c and step_1_reading: the loop that reads a command *)
(* line by line, here-documents included, and hands its tokens to the      *)
(* parser; with the signal flag (m_signal/signals.c) and the exit code     *)
(* (set_code, step_7_execution/exec_codes.c) it works with.  The lexer     *)
(* takes one symbol of the buffer per step.                                *)
(*                                                                         *)
(* SIGINT may be delivered between any two steps.  Lines hold no backslash:*)
(* the text of a word is what its parts delimit.                           *)
(***************************************************************************)
EXTENDS Checker, FiniteSets

CONSTANTS
  Lines,      \* what may be typed, or stand in the script: sequences of symbols
  ExecCodes,  \* what a command may return
  MaxReads,   \* bound: lines read
  MaxSigs     \* bound: signals delivered

ASSUME LinesAssumption == Lines \subseteq Seq(Symbols \ {"\n", "\\"})
ASSUME ExecCodesAssumption == ExecCodes \subseteq 0..255
ASSUME BoundsAssumption == MaxReads \in Nat /\ MaxSigs \in Nat

VARIABLES
  tty,      \* isatty(STDIN_FILENO)
  pc,       \* the next step of the shell
  eof,      \* the input, not a terminal, is at its end
  reads, sigs,  \* the bounded counts
  flag,     \* g_signal_flag
  handler,  \* of SIGINT: "standard", "heredoc" or "ignore"
  code,     \* last_exit_code, and the exit status when the shell has ended
  total,    \* total_input
  lx,       \* the lexer
  doc,      \* position of the redirection whose body is read
  body,     \* the lines of that body (heredoc_garbage)
  since,    \* history: the lines read since init_read
  struck,   \* history: SIGINT came while the shell waited for one of these lines
  got       \* history: what the last read returned, "line" or "eof"

signals == <<sigs, flag, handler, struck>>
input == <<eof, reads, since, got>>
heredoc == <<doc, body>>
vars == <<tty, pc, input, signals, code, total, lx, heredoc>>

Ended == pc \in {"ended", "crashed"}
Waiting == pc \in {"line", "bodyline"}

Init ==
  /\ tty \in BOOLEAN
  /\ pc = "init" /\ eof = FALSE /\ reads = 0 /\ since = <<>> /\ got = "line"
  /\ sigs = 0 /\ flag = 0 /\ handler = "standard" /\ struck = FALSE
  /\ code = 0 /\ total = <<>> /\ lx = NewLexer /\ doc = 1 /\ body = <<>>

\* set_code leaves a mark in the flag when a child died of SIGINT or SIGQUIT.
MarkOf(c) == IF c \in {130, 131} THEN c ELSE flag

-----------------------------------------------------------------------------
(* One line of the command: read_user_input, get_line, main_stop, main_sigint. *)

InitRead ==
  /\ pc = "init" /\ pc' = "prompt"
  /\ lx' = NewLexer /\ total' = <<>> /\ since' = <<>>
  /\ UNCHANGED <<tty, eof, reads, got, signals, code, heredoc>>

\* init_signals forgets what happened since the last line.
PromptKeepsFlag ==
  /\ pc = "prompt" /\ pc' = "line"
  /\ handler' = IF tty THEN "standard" ELSE "ignore"
  /\ UNCHANGED <<tty, input, sigs, flag, struck, code, total, lx, heredoc>>
Prompt ==
  /\ pc = "prompt" /\ pc' = "line"
  /\ IF tty THEN flag' = 0 /\ handler' = "standard" ELSE flag' = flag /\ handler' = "ignore"
  /\ UNCHANGED <<tty, input, sigs, struck, code, total, lx, heredoc>>

\* The last line of a file may have no newline: its end is met in reading it.
Receives(last) ==
  /\ reads < MaxReads /\ ~eof /\ (last => ~tty)
  /\ reads' = reads + 1 /\ eof' = last /\ got' = "line"
ReceivesEof == eof' = ~tty /\ got' = "eof" /\ UNCHANGED <<reads, since>>

\* run_lexer returns at once on an empty chunk.
ReadLine(l, last) ==
  /\ pc = "line" /\ Receives(last) /\ flag # 1
  /\ LET chunk == IF tty \/ last THEN l ELSE Append(l, "\n")
     IN /\ total' = total \o chunk
        /\ pc' = IF chunk = <<>> THEN "check" ELSE "lex"
  /\ lx' = BeginChunk(lx)
  /\ since' = Append(since, l)
  /\ UNCHANGED <<tty, signals, code, heredoc>>

\* main_sigint: the command is forgotten, and the next line begins another one.
CancelLineKeepsPosition(last) ==
  /\ pc = "line" /\ Receives(last) /\ flag = 1
  /\ IF tty
     THEN /\ pc' = "prompt" /\ code' = 130 /\ flag' = 0
          /\ total' = <<>> /\ since' = <<>> /\ lx' = [lx EXCEPT !.toks = <<>>]
     ELSE pc' = "ended" /\ UNCHANGED <<code, flag, total, since, lx>>
  /\ struck' = FALSE
  /\ UNCHANGED <<tty, sigs, handler, heredoc>>
CancelLine(last) ==
  /\ pc = "line" /\ Receives(last) /\ flag = 1
  /\ IF tty
     THEN /\ pc' = "prompt" /\ code' = 130 /\ flag' = 0
          /\ total' = <<>> /\ since' = <<>> /\ lx' = NewLexer
     ELSE pc' = "ended" /\ UNCHANGED <<code, flag, total, since, lx>>
  /\ struck' = FALSE
  /\ UNCHANGED <<tty, sigs, handler, heredoc>>

\* main_stop
ReadEof ==
  /\ pc = "line" /\ ReceivesEof
  /\ pc' = "ended"
  /\ UNCHANGED <<tty, signals, code, total, lx, heredoc>>

-----------------------------------------------------------------------------
(* main_loop and manage_pendings. *)

LexSymbol ==
  /\ pc = "lex" /\ lx.pos < Len(total)
  /\ lx' = Step(lx, total[lx.pos + 1])
  /\ UNCHANGED <<tty, pc, input, signals, code, total, heredoc>>

LexEnd ==
  /\ pc = "lex" /\ lx.pos = Len(total)
  /\ lx' = EndChunk(lx, tty) /\ pc' = "check"
  /\ UNCHANGED <<tty, input, signals, code, total, heredoc>>

Refuse ==
  /\ pc = "check" /\ IsBadSyntax(lx.toks)
  /\ code' = 2 /\ total' = <<>> /\ lx' = NewLexer
  /\ pc' = "init"
  /\ UNCHANGED <<tty, input, signals, heredoc>>

GiveUp ==
  /\ pc = "check" /\ ~IsBadSyntax(lx.toks) /\ GivesUp(lx, tty)
  /\ code' = 2 /\ pc' = "ended"
  /\ UNCHANGED <<tty, input, signals, total, lx, heredoc>>

Accept ==
  /\ pc = "check" /\ ~IsBadSyntax(lx.toks) /\ ~GivesUp(lx, tty)
  /\ IF IsNormal(lx) THEN UNCHANGED <<total, lx>>
     ELSE total' = Append(total, "\n") /\ lx' = PendingNewline(lx)
  /\ pc' = "heredocs"
  /\ UNCHANGED <<tty, input, signals, code, heredoc>>

-----------------------------------------------------------------------------
(* collect_heredocs, read_heredoc_body, exit_from_heredoc. *)

IsPending(k) == k \in 1..Len(lx.toks) /\ lx.toks[k].flag /\ lx.hd > 0
NextPending(k) == IsPending(k) /\ \A j \in 1..(k - 1) : ~IsPending(j)

\* The delimiter is the token after the redirection.  Nothing has seen to it that
\* there is one: a delimiter that the line leaves open is not a token yet.
BeginBodyKeepsLines(k) ==
  /\ pc = "heredocs" /\ NextPending(k)
  /\ lx' = [lx EXCEPT !.toks[k].flag = FALSE]
  /\ doc' = k /\ body' = body
  /\ pc' = IF k = Len(lx.toks) THEN "crashed" ELSE "arm"
  /\ UNCHANGED <<tty, input, signals, code, total>>
BeginBody(k) ==
  /\ pc = "heredocs" /\ NextPending(k)
  /\ lx' = [lx EXCEPT !.toks[k].flag = FALSE]
  /\ doc' = k /\ body' = <<>>
  /\ pc' = IF k = Len(lx.toks) THEN "crashed" ELSE "arm"
  /\ UNCHANGED <<tty, input, signals, code, total>>

\* read_heredoc_body installs its handler before every line, get_line after it.
Arm ==
  /\ pc = "arm" /\ pc' = "armed" /\ handler' = "heredoc"
  /\ UNCHANGED <<tty, input, flag, sigs, struck, code, total, lx, heredoc>>
Armed ==
  /\ pc = "armed" /\ pc' = "bodyline"
  /\ handler' = IF tty THEN "heredoc" ELSE "ignore"
  /\ UNCHANGED <<tty, input, flag, sigs, struck, code, total, lx, heredoc>>

TextOf(parts) ==
  LET text[k \in 0..Len(parts)] ==
        IF k = 0 THEN <<>>
        ELSE text[k - 1] \o SubSeq(total, parts[k].start + 1, parts[k].end)
  IN text[Len(parts)]
Delimiter == TextOf(lx.toks[doc + 1].parts)

InsertBody(toks) ==
  SubSeq(toks, 1, doc + 1)
  \o <<[Token("BODY", <<>>) EXCEPT !.body = body]>>
  \o SubSeq(toks, doc + 2, Len(toks))

\* A body without lines has no content, which the source takes for a failure.
KeepBody ==
  /\ body # <<>>
  /\ lx' = [lx EXCEPT !.toks = InsertBody(@)]
  /\ pc' = "heredocs"
  /\ UNCHANGED <<flag, struck, code, total, heredoc>>

DropCommand ==
  /\ pc' = "init"
  /\ IF tty THEN code' = 130 /\ flag' = 0 ELSE code' = 0 /\ flag' = flag
  /\ total' = <<>> /\ lx' = NewLexer
  /\ struck' = FALSE
  /\ UNCHANGED heredoc

ReadBodyLine(l, last) ==
  /\ pc = "bodyline" /\ Receives(last) /\ l # Delimiter /\ flag # 1
  /\ body' = Append(body, l)
  /\ since' = Append(since, l)
  /\ pc' = "arm"
  /\ UNCHANGED <<tty, signals, code, total, lx, doc>>

\* The flag need not be 1: at a script, a command killed by a signal has left
\* its mark there.
EndBodyForgetsSignal(l, last) ==
  /\ pc = "bodyline" /\ Receives(last) /\ (l = Delimiter \/ flag = 1)
  /\ since' = Append(since, l)
  /\ IF flag = 0 \/ (body # <<>> /\ l = Delimiter) THEN KeepBody ELSE DropCommand
  /\ UNCHANGED <<tty, sigs, handler>>
EndBody(l, last) ==
  /\ pc = "bodyline" /\ Receives(last) /\ (l = Delimiter \/ flag = 1)
  /\ since' = Append(since, l)
  /\ IF flag = 0 /\ body # <<>> THEN KeepBody ELSE DropCommand
  /\ UNCHANGED <<tty, sigs, handler>>

\* At the end of a script the lines read so far are the body.
EofInBodyRetries ==
  /\ pc = "bodyline" /\ ReceivesEof
  /\ IF ~tty /\ body # <<>> THEN KeepBody
     ELSE pc' = "arm" /\ UNCHANGED <<flag, struck, code, total, lx, heredoc>>
  /\ UNCHANGED <<tty, sigs, handler>>
EofInBody ==
  /\ pc = "bodyline" /\ ReceivesEof
  /\ IF ~tty /\ body # <<>> THEN KeepBody ELSE DropCommand
  /\ UNCHANGED <<tty, sigs, handler>>

\* The loop of read_user_input goes on, or main_finalize ends it.
NoPending ==
  /\ pc = "heredocs" /\ \A k \in 1..Len(lx.toks) : ~IsPending(k)
  /\ IF lx.ctxs # <<>> THEN pc' = "prompt" /\ lx' = lx
     ELSE pc' = "parse" /\ lx' = SoftReset(lx)
  /\ UNCHANGED <<tty, input, signals, code, total, heredoc>>

-----------------------------------------------------------------------------
(* run_parser, run_exec and what commands do with the exit code; signals. *)

Empty == \A k \in 1..Len(lx.toks) : lx.toks[k].type \in {"NEWLINE", "EOF"}

Execute(c) ==
  /\ pc = "parse" /\ ~Empty
  /\ code' = c /\ flag' = MarkOf(c) /\ pc' = "init"
  /\ UNCHANGED <<tty, input, sigs, handler, struck, total, lx, heredoc>>
ExecuteNothing ==
  /\ pc = "parse" /\ Empty
  /\ pc' = "init"
  /\ UNCHANGED <<tty, input, signals, code, total, lx, heredoc>>
ExecuteExit(c) ==
  /\ pc = "parse" /\ ~Empty
  /\ code' = c /\ pc' = "ended"
  /\ UNCHANGED <<tty, input, signals, total, lx, heredoc>>

Interrupt ==
  /\ ~Ended /\ handler # "ignore" /\ sigs < MaxSigs
  /\ sigs' = sigs + 1 /\ flag' = 1
  /\ struck' = (struck \/ Waiting)
  /\ UNCHANGED <<tty, pc, input, handler, code, total, lx, heredoc>>

Reads ==
  \E l \in Lines, last \in BOOLEAN :
    ReadLine(l, last) \/ CancelLine(last) \/ ReadBodyLine(l, last) \/ EndBody(l, last)
Shell ==
  \/ InitRead \/ Prompt \/ LexSymbol \/ LexEnd \/ Refuse \/ GiveUp \/ Accept
  \/ \E k \in 1..Len(lx.toks) : BeginBody(k)
  \/ Arm \/ Armed \/ NoPending
  \/ ExecuteNothing \/ \E c \in ExecCodes : Execute(c) \/ ExecuteExit(c)
Next == Reads \/ ReadEof \/ EofInBody \/ Shell \/ Interrupt

Spec == Init /\ [][Next]_vars

\* The shell takes its steps, commands end, and reads at the end of a file return.
LiveSpec == Spec /\ WF_vars(Shell) /\ WF_vars(eof /\ (ReadEof \/ EofInBody))

-----------------------------------------------------------------------------
(* Properties. *)

PCs == {"init", "prompt", "line", "lex", "check", "heredocs", "arm", "armed",
        "bodyline", "parse", "ended", "crashed"}

TypeOK ==
  /\ tty \in BOOLEAN /\ eof \in BOOLEAN /\ struck \in BOOLEAN
  /\ pc \in PCs /\ got \in {"line", "eof"}
  /\ reads \in 0..MaxReads /\ sigs \in 0..MaxSigs
  /\ flag \in {0, 1, 130, 131}
  /\ handler \in {"standard", "heredoc", "ignore"}
  /\ code \in 0..255
  /\ total \in Seq(Symbols) /\ since \in Seq(Seq(Symbols)) /\ body \in Seq(Seq(Symbols))
  /\ lx \in Lexers
  /\ doc \in Nat

\* The lexer's position counts symbols of a buffer that grows, is emptied by
\* SIGINT and gets newlines of its own: whenever the shell reads, all of the
\* buffer has been lexed, and no word reaches past its end.
BufferIsRead ==
  /\ pc \in {"prompt", "line", "heredocs", "arm", "armed", "bodyline"} => lx.pos = Len(total)
  /\ pc = "lex" => lx.pos <= Len(total)
  /\ \A t \in 1..Len(lx.toks) : Within(lx.toks[t].parts, Len(total))

\* A command is given up when SIGINT comes while the shell waits for one of its
\* lines, those of here-documents included: it is never run.
InterruptCancels == pc = "parse" => ~struck

\* At a terminal a line is thrown away only for a SIGINT that came while the shell
\* waited for it: neither an earlier signal nor the death of a command counts.
OnlyInterruptCancels == tty /\ pc = "line" => (flag # 0 <=> struck)

\* How a reader splits the lines into the command and the here-documents: the
\* bodies follow the line that asks for them, in its order.  Delimiters are words
\* without quotes, and double quotes are the only ones of the lines (Readable).
DoubleQuote == "\""
Quoted(s) == Cardinality({k \in 1..Len(s) : s[k] = DoubleQuote}) % 2 = 1
WordAt(l, k) ==
  LET ends == {e \in k..Len(l) : \A j \in (k + 1)..e : l[j] \in Plain}
  IN SubSeq(l, k + 1, CHOOSE e \in ends : \A f \in ends : f <= e)
Asked(before, l, n) ==
  LET asks[k \in 0..n] ==
        IF k = 0 THEN <<>>
        ELSE IF l[k] = "<<" /\ ~Quoted(before \o SubSeq(l, 1, k))
        THEN Append(asks[k - 1], WordAt(l, k)) ELSE asks[k - 1]
  IN asks[n]
Empties(n) == [k \in 1..n |-> <<>>]
SplitLine(r, l) ==
  LET open == Len(r.bodies) - Len(r.wanted) + 1
      asks == Asked(r.command, l, Len(l))
  IN IF r.wanted = <<>>
     THEN [command |-> r.command \o l, wanted |-> asks,
           bodies |-> r.bodies \o Empties(Len(asks))]
     ELSE IF l = Head(r.wanted) THEN [r EXCEPT !.wanted = Tail(@)]
     ELSE [r EXCEPT !.bodies[open] = Append(@, l)]
Split(lines) ==
  LET split[n \in 0..Len(lines)] ==
        IF n = 0 THEN [command |-> <<>>, wanted |-> <<>>, bodies |-> <<>>]
        ELSE SplitLine(split[n - 1], lines[n])
  IN split[Len(lines)]

\* Of such lines Split can tell without a lexer.
Unquoted(l, k) ==
  \A e \in k..(Len(l) - 1) : (\A j \in (k + 1)..e : l[j] \in Plain) => l[e + 1] # DoubleQuote
Letters == Plain \cup {DoubleQuote, " "} \cup Operators
Readable(l) ==
  /\ \A k \in 1..Len(l) : l[k] \in Letters
  /\ \A k \in 1..Len(l) :
       l[k] = "<<" => k < Len(l) /\ l[k + 1] \in Plain /\ Unquoted(l, k)

\* The buffer without newlines, and the bodies among the tokens.
Unbroken(text) ==
  LET line[k \in 0..Len(text)] ==
        IF k = 0 THEN <<>>
        ELSE IF text[k] = "\n" THEN line[k - 1] ELSE Append(line[k - 1], text[k])
  IN line[Len(text)]
Bodies(toks) ==
  LET bodies[k \in 0..Len(toks)] ==
        IF k = 0 THEN <<>>
        ELSE IF toks[k].type = "BODY" THEN Append(bodies[k - 1], toks[k].body)
        ELSE bodies[k - 1]
  IN bodies[Len(toks)]

\* Every line is in the command or in exactly one body, each body behind its own
\* redirection, whatever continues the command and wherever the input ends.
InputSplit ==
  pc = "parse" =>
    Unbroken(total) = Split(since).command /\ Bodies(lx.toks) = Split(since).bodies

\* A script comes to its end: no reading or re-reading goes on forever behind it.
EofEnds == eof ~> Ended

\* The command of a here-document is dropped only if the user cancelled it
\* (read_heredoc_body: "true si la lecture s'est bien passee, false si USER CANCEL"):
\* by SIGINT, or by ending the input.
DroppedByUser ==
  [][(pc = "bodyline" /\ pc' = "init") => (flag = 1 \/ got' = "eof")]_vars
=============================================================================
