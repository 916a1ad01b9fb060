------------------------------ MODULE Pipeline ------------------------------
(***************************************************************************)
(* step_7_execution/exec_pipeline.c: the shell forks one child per command *)
(* of a pipeline, connects neighbours with pipes and waits for all of      *)
(* them.  The state is the descriptor table of every process, so that what *)
(* keeps a pipe open is exactly what the calls of the code leave open.     *)
(*                                                                         *)
(* Process 0 is the shell.  The children (and the pipes, named after their *)
(* writer) are numbered in the order the code makes them; the stage of     *)
(* index j of the current line is first + 1 + j.                           *)
(***************************************************************************)
EXTENDS Integers, Sequences

CONSTANTS
  Lines,        \* the pipelines the user types: sequences of kinds of program
  MaxProcs,     \* bound: how many children a behaviour may number
  MaxFd,        \* the highest descriptor a process may open (RLIMIT_NOFILE)
  Cap,          \* capacity of a pipe, in units of data
  ClosedAtStart,\* the standard descriptors the shell may be started without
  ForkMayFail   \* whether fork() may return -1

Kinds == {"gen", "filter", "head"}

ASSUME LinesAssumption == \A l \in Lines : l \in Seq(Kinds) /\ Len(l) >= 2
ASSUME BoundsAssumption ==
  /\ MaxProcs \in Nat
  /\ MaxFd \in Nat /\ MaxFd >= 2
  /\ Cap \in Nat /\ Cap > 0
ASSUME StdioAssumption == ClosedAtStart \subseteq {1, 2}
ASSUME ForkAssumption == ForkMayFail \in BOOLEAN

Shell == 0
Children == 1..MaxProcs
Procs == Children \cup {Shell}
Fds == 0..MaxFd

\* Open files: the read and the write end of the pipe of child q, a terminal
\* or regular file, nothing.
R(q) == <<"r", q>>
W(q) == <<"w", q>>
Tty == <<"tty", 0>>
None == <<"none", 0>>
Files == {"r", "w", "tty", "none"} \X Procs

VARIABLES
  pc,       \* where the shell is in exec_pipeline
  line,     \* the current pipeline
  first,    \* children numbered before the current line
  i,        \* the loop variable, of the fork loop then of the wait loop
  prev_in,  \* exec_pipeline's prev_in
  fd,       \* exec_single_pipe's fd[2], as a pair
  tab,      \* tab[p]: the descriptor table of process p
  base,     \* history: the shell's table when the line started
  loc,      \* loc[p]: the child's copies of prev_in, fd and i < ncmds - 1, and
            \* the program it runs
  st,       \* st[p]: life cycle of child p
  raw,      \* raw[p]: what waitpid reports of p
  buf,      \* buf[q]: units of data in the pipe of child q
  held,     \* held[p]: units p has read and not yet written
  failed,   \* history: the current line met a failed pipe() or fork()
  result    \* what exec_pipeline returned last

shellVars == <<line, first, base, failed, result>>
vars == <<pc, line, first, i, prev_in, fd, tab, base, loc, st, raw, buf, held,
          failed, result>>

ncmds == Len(line)
Stage(j) == first + 1 + j
Stages == {Stage(j) : j \in 0..(ncmds - 1)}

-----------------------------------------------------------------------------
(* Descriptor tables, as the kernel keeps them. *)

Free(t) == {f \in Fds : t[f] = None}
IsLowest(t, f) == f \in Free(t) /\ \A g \in Free(t) : f <= g
Close(t, f) == [t EXCEPT ![f] = None]
Dup2(t, old, new) == [t EXCEPT ![new] = t[old]]
NoFiles == [f \in Fds |-> None]
Std(closed) == [f \in Fds |-> IF f <= 2 /\ f \notin closed THEN Tty ELSE None]

Holds(p, e) == \E f \in Fds : tab[p][f] = e
Readers(q) == {p \in Procs : Holds(p, R(q))}
Writers(q) == {p \in Procs : Holds(p, W(q))}

\* Wait statuses: an exit code or a fatal signal.
Exited(c) == [sig |-> FALSE, n |-> c]
Signalled(s) == [sig |-> TRUE, n |-> s]
SIGPIPE == 13
Statuses == {Exited(0), Exited(1), Exited(128 + SIGPIPE), Signalled(SIGPIPE)}

FullCode(s) == IF s.sig THEN 128 + s.n ELSE s.n

-----------------------------------------------------------------------------
(* The shell. *)

NoLocals == [prev |-> -1, r |-> 0, w |-> 0, out |-> FALSE, prog |-> "gen"]

Init ==
  /\ pc = "idle" /\ line = <<>> /\ first = 0 /\ i = 0
  /\ prev_in = -1 /\ fd = <<0, 0>>
  /\ \E closed \in SUBSET ClosedAtStart :
       base = Std(closed) /\ tab = [p \in Procs |-> IF p = Shell THEN base ELSE NoFiles]
  /\ loc = [p \in Children |-> NoLocals]
  /\ st = [p \in Children |-> "none"]
  /\ raw = [p \in Children |-> Exited(0)]
  /\ buf = [p \in Children |-> 0]
  /\ held = [p \in Children |-> 0]
  /\ failed = FALSE /\ result = 0

\* Only the last command needs no pipe to a successor.
IsLast(j) == j = ncmds - 1

Start(l) ==
  /\ pc = "idle"
  /\ first + ncmds + Len(l) <= MaxProcs
  /\ pc' = "pipe" /\ line' = l /\ first' = first + ncmds
  /\ i' = 0 /\ prev_in' = -1 /\ base' = tab[Shell] /\ failed' = FALSE
  /\ UNCHANGED <<fd, tab, loc, st, raw, buf, held, result>>

OpenPipe ==
  /\ pc = "pipe"
  /\ \E r, w \in Fds :
       /\ IsLowest(tab[Shell], r)
       /\ LET t == [tab[Shell] EXCEPT ![r] = R(Stage(i))]
          IN /\ IsLowest(t, w)
             /\ tab' = [tab EXCEPT ![Shell] = [t EXCEPT ![w] = W(Stage(i))]]
       /\ fd' = <<r, w>>
  /\ pc' = "fork"
  /\ UNCHANGED <<shellVars, i, prev_in, loc, st, raw, buf, held>>

\* The early returns: whatever is open stays open, no child is waited for.
GiveUp ==
  /\ pc' = "idle" /\ failed' = TRUE /\ result' = 1
  /\ UNCHANGED <<line, first, i, prev_in, fd, tab, base, loc, st, raw, buf, held>>

PipeFails ==
  /\ pc = "pipe"
  /\ \A f, g \in Free(tab[Shell]) : f = g
  /\ GiveUp

ForkFails ==
  /\ pc = "fork" /\ ForkMayFail
  /\ GiveUp

Fork ==
  /\ pc = "fork"
  /\ LET p == Stage(i)
     IN /\ tab' = [tab EXCEPT ![p] = tab[Shell]]
        /\ st' = [st EXCEPT ![p] = "setup"]
        /\ loc' = [loc EXCEPT ![p] = [prev |-> prev_in, r |-> fd[1], w |-> fd[2],
                                      out |-> ~IsLast(i), prog |-> line[i + 1]]]
  /\ pc' = "close"
  /\ UNCHANGED <<shellVars, i, prev_in, fd, raw, buf, held>>

\* (The operators named after a change are mutants: they show that the
\* properties notice the bug they name.)
ClosePrev(t) == IF prev_in = -1 THEN t ELSE Close(t, prev_in)

ParentTableKeepsWriteEnd ==
  ClosePrev(tab[Shell])
ParentTableKeepsPrev ==
  IF IsLast(i) THEN tab[Shell] ELSE Close(tab[Shell], fd[2])
ParentTable ==
  IF IsLast(i) THEN ClosePrev(tab[Shell]) ELSE Close(ClosePrev(tab[Shell]), fd[2])

ParentClosesKeepsIndex ==
  /\ pc = "close"
  /\ tab' = [tab EXCEPT ![Shell] = ParentTable]
  /\ prev_in' = IF IsLast(i) THEN prev_in ELSE fd[1]
  /\ i' = i + 1
  /\ pc' = IF IsLast(i) THEN "wait" ELSE IF IsLast(i + 1) THEN "fork" ELSE "pipe"
  /\ UNCHANGED <<shellVars, fd, loc, st, raw, buf, held>>
ParentCloses ==
  /\ pc = "close"
  /\ tab' = [tab EXCEPT ![Shell] = ParentTable]
  /\ prev_in' = IF IsLast(i) THEN prev_in ELSE fd[1]
  /\ i' = IF IsLast(i) THEN 0 ELSE i + 1
  /\ pc' = IF IsLast(i) THEN "wait" ELSE IF IsLast(i + 1) THEN "fork" ELSE "pipe"
  /\ UNCHANGED <<shellVars, fd, loc, st, raw, buf, held>>

WaitForLastOnly ==
  /\ pc = "wait"
  /\ st[Stage(ncmds - 1)] = "zombie"
  /\ st' = [st EXCEPT ![Stage(ncmds - 1)] = "reaped"]
  /\ pc' = "idle" /\ result' = FullCode(raw[Stage(ncmds - 1)])
  /\ UNCHANGED <<line, first, i, prev_in, fd, tab, base, loc, raw, buf, held, failed>>
WaitReturnsFirst ==
  /\ pc = "wait"
  /\ st[Stage(i)] = "zombie"
  /\ st' = [st EXCEPT ![Stage(i)] = "reaped"]
  /\ i' = i + 1
  /\ IF IsLast(i) THEN pc' = "idle" /\ result' = FullCode(raw[Stage(0)])
                  ELSE UNCHANGED <<pc, result>>
  /\ UNCHANGED <<line, first, prev_in, fd, tab, base, loc, raw, buf, held, failed>>
Wait ==
  /\ pc = "wait"
  /\ st[Stage(i)] = "zombie"
  /\ st' = [st EXCEPT ![Stage(i)] = "reaped"]
  /\ i' = i + 1
  /\ IF IsLast(i) THEN pc' = "idle" /\ result' = FullCode(raw[Stage(i)])
                  ELSE UNCHANGED <<pc, result>>
  /\ UNCHANGED <<line, first, prev_in, fd, tab, base, loc, raw, buf, held, failed>>

\* The shell reads its next line: nothing of this module changes.
Prompt == pc = "idle" /\ UNCHANGED vars

-----------------------------------------------------------------------------
(* The children. *)

InTable(p, t) ==
  IF loc[p].prev = -1 THEN t ELSE Close(Dup2(t, loc[p].prev, 0), loc[p].prev)
OutTableKeepsReadEnd(p, t) ==
  IF loc[p].out THEN Close(Dup2(t, loc[p].w, 1), loc[p].w) ELSE t
OutTable(p, t) ==
  IF loc[p].out THEN Close(Dup2(Close(t, loc[p].r), loc[p].w, 1), loc[p].w) ELSE t

Connect(p) ==
  /\ st[p] = "setup"
  /\ tab' = [tab EXCEPT ![p] = OutTable(p, InTable(p, tab[p]))]
  /\ st' = [st EXCEPT ![p] = "run"]
  /\ UNCHANGED <<shellVars, pc, i, prev_in, fd, loc, raw, buf, held>>

\* The end of a process, whatever ended it, closes all it had open.
Dies(p, s) ==
  /\ st' = [st EXCEPT ![p] = "zombie"]
  /\ raw' = [raw EXCEPT ![p] = s]
  /\ tab' = [tab EXCEPT ![p] = NoFiles]

Stdin(p) == tab[p][0]
Stdout(p) == tab[p][1]
Kept == <<shellVars, pc, i, prev_in, fd, loc>>

\* The programs: "gen" writes for ever (yes), "filter" copies its input to its
\* output until the end of file (cat), "head" copies one unit and ends.
Reads(p) == st[p] = "run" /\ loc[p].prog # "gen" /\ held[p] = 0
Writes(p) == st[p] = "run" /\ (loc[p].prog = "gen" \/ held[p] = 1)

ReadUnit(p) ==
  /\ Reads(p)
  /\ \E q \in Children :
       /\ Stdin(p) = R(q) /\ buf[q] > 0
       /\ buf' = [buf EXCEPT ![q] = @ - 1]
  /\ held' = [held EXCEPT ![p] = 1]
  /\ UNCHANGED <<Kept, tab, st, raw>>

\* read() returns 0 once nobody holds the write end; a terminal gives nothing.
EndOfFile(p) ==
  /\ Reads(p)
  /\ \/ Stdin(p) = Tty
     \/ \E q \in Children : Stdin(p) = R(q) /\ buf[q] = 0 /\ Writers(q) = {}
  /\ Dies(p, Exited(0))
  /\ UNCHANGED <<Kept, buf, held>>

\* What a program does once its unit is written: "head" ends, the others go on.
Written(p) ==
  IF loc[p].prog = "head" THEN Dies(p, Exited(0)) ELSE UNCHANGED <<tab, st, raw>>

WriteUnit(p) ==
  /\ Writes(p)
  /\ \/ Stdout(p) = Tty /\ UNCHANGED buf
     \/ \E q \in Children :
          /\ Stdout(p) = W(q) /\ Readers(q) # {} /\ buf[q] < Cap
          /\ buf' = [buf EXCEPT ![q] = @ + 1]
  /\ held' = [held EXCEPT ![p] = 0]
  /\ Written(p)
  /\ UNCHANGED Kept

\* sig_reset gave SIGPIPE its default action.  A builtin is killed in the stage
\* itself; an external command in a child of the stage, which exits with 141.
BrokenPipe(p) ==
  /\ Writes(p)
  /\ \E q \in Children : Stdout(p) = W(q) /\ Readers(q) = {}
  /\ \E s \in {Signalled(SIGPIPE), Exited(128 + SIGPIPE)} : Dies(p, s)
  /\ UNCHANGED <<Kept, buf, held>>

BadDescriptor(p) ==
  /\ \/ Reads(p) /\ Stdin(p)[1] \notin {"tty", "r"}
     \/ Writes(p) /\ Stdout(p)[1] \notin {"tty", "w"}
  /\ Dies(p, Exited(1))
  /\ UNCHANGED <<Kept, buf, held>>

\* A command may end before it reads or writes: command not found, a failed
\* redirection, a builtin that ignores its input.
EndsEarly(p) ==
  /\ st[p] = "run"
  /\ \E s \in {Exited(0), Exited(1)} : Dies(p, s)
  /\ UNCHANGED <<Kept, buf, held>>

-----------------------------------------------------------------------------
ShellStep ==
  \/ OpenPipe \/ PipeFails \/ Fork \/ ForkFails \/ ParentCloses \/ Wait

Progress(p) ==
  \/ Connect(p)
  \/ ReadUnit(p) \/ EndOfFile(p)
  \/ WriteUnit(p) \/ BrokenPipe(p) \/ BadDescriptor(p)

Next ==
  \/ Prompt
  \/ \E l \in Lines : Start(l)
  \/ ShellStep
  \/ \E p \in Children : Progress(p) \/ EndsEarly(p)

Spec == Init /\ [][Next]_vars

\* The kernel schedules every process: the shell and each child that can go on
\* eventually do.  Nobody has to type a line and no command has to end early.
Fairness == WF_vars(ShellStep) /\ \A p \in Children : WF_vars(Progress(p))
FairSpec == Spec /\ Fairness

-----------------------------------------------------------------------------
(* Properties. *)

Locals == [prev : Fds \cup {-1}, r : Fds, w : Fds, out : BOOLEAN, prog : Kinds]

TypeOK ==
  /\ pc \in {"idle", "pipe", "fork", "close", "wait"}
  /\ line \in Seq(Kinds)
  /\ first \in Nat /\ i \in Nat
  /\ first + ncmds <= MaxProcs
  /\ pc # "idle" => line \in Lines /\ i < ncmds
  /\ prev_in \in Fds \cup {-1}
  /\ fd \in Fds \X Fds
  /\ tab \in [Procs -> [Fds -> Files]]
  /\ base \in [Fds -> Files]
  /\ loc \in [Children -> Locals]
  /\ st \in [Children -> {"none", "setup", "run", "zombie", "reaped"}]
  /\ raw \in [Children -> Statuses]
  /\ buf \in [Children -> 0..Cap]
  /\ held \in [Children -> 0..1]
  /\ failed \in BOOLEAN
  /\ result \in Nat

\* The table a stage must have while its command runs: what the shell had, but
\* for the two ends the pipeline gives it.
StageTable(p) ==
  LET in == IF p = Stage(0) THEN base ELSE [base EXCEPT ![0] = R(p - 1)]
  IN IF p = Stage(ncmds - 1) THEN in ELSE [in EXCEPT ![1] = W(p)]

\* A command runs with the descriptors of the shell, its input and output
\* connected to its neighbours, and nothing else: no end of another pipe, no
\* second copy of its own.
NoStrayEnds == \A p \in Stages : st[p] = "run" => tab[p] = StageTable(p)

\* When the shell waits or has returned from a line it could launch, it is left
\* with the descriptors it had before the line; a line it had to give up leaves
\* open what the last command was to get, and nothing of the commands before.
NoLeak ==
  /\ pc = "wait" \/ (pc = "idle" /\ ~failed) => tab[Shell] = base
  /\ pc = "idle" /\ failed =>
       \A f \in Fds : tab[Shell][f] # base[f] => base[f] = None /\ f \in {prev_in, fd[1], fd[2]}

\* Once every command of a line runs, pipe q can only be held open for writing
\* by command q and for reading by command q + 1, so end of file and SIGPIPE
\* arrive as soon as that one process ends.
EndsArePrivate ==
  pc = "wait" /\ (\A p \in Stages : st[p] # "setup") =>
    \A q \in Stages : Readers(q) \subseteq {q + 1} /\ Writers(q) \subseteq {q}

\* A pipeline that could be launched leaves no zombie and no running child.
AllReaped == pc = "idle" /\ ~failed => \A p \in Stages : st[p] = "reaped"

\* Every pipeline returns, whatever the order its commands run in, provided
\* that a program that never ends has a successor that does.
Ends(l) ==
  \A j \in 1..Len(l) : l[j] = "gen" => \E k \in (j + 1)..Len(l) : l[k] = "head"
Returns == pc # "idle" /\ Ends(line) ~> pc = "idle"

\* The codes of the commands that have ended, as the abstract pipeline sees
\* them: a child counts from its death, not from the wait that reaps it.
Ended ==
  IF pc = "idle" THEN <<>>
  ELSE [j \in 1..ncmds |-> IF st[first + j] \in {"zombie", "reaped"}
                           THEN FullCode(raw[first + j]) ELSE -1]

\* The detailed pipeline implements the abstract one: it returns the code of
\* its last command, after every command has ended, or gives up with 1.
Contract == INSTANCE PipelineContract WITH
  Codes <- {FullCode(s) : s \in Statuses},
  Failure <- 1,
  running <- pc # "idle",
  ended <- Ended,
  result <- result
ImplementsContract == Contract!Spec
=============================================================================
