-------------------------------- MODULE Exec --------------------------------
(***************************************************************************)
(* step_7_execution: how the tree of a line is run.  exec_node recurses    *)
(* over the tree in the shell and in the children it forks for subshells   *)
(* and for the stages of pipelines; each waits for its child, so only the  *)
(* innermost process runs.  A process is its descriptor table, its         *)
(* last_exit_code and the calls of exec_node that have not returned.       *)
(*                                                                         *)
(* The stages of a pipeline, which run at the same time and share nothing  *)
(* but the pipes, are run one after another: Pipeline has the rest.        *)
(***************************************************************************)
EXTENDS Integers, Sequences

CONSTANTS
  Nodes,      \* the trees: a sequence of nodes, the kids of a node behind it
  Lines,      \* the nodes that are lines
  Codes,      \* what commands may return
  Statuses,   \* the numbers exit may be given
  MaxFd,      \* descriptors are 0..MaxFd
  MaxLines    \* bound: lines run

Ops == {"seq", "and", "or", "sub", "pipe", "cmd"}
\* What a command is, once its words are expanded: nothing but redirections, a
\* builtin, one of the special ones (".", export, unset), exit with a number, with
\* too many arguments, or a program.
Progs == {"none", "builtin", "special", "exit", "exitMany", "program"}
\* A redirection: which standard descriptor, and to what.  The body of a big
\* here-document does not fit into a pipe.
Redirections == [to : {0, 1}, kind : {"file", "doc", "bigdoc"}]
NodeType == [op : Ops, kids : Seq(Nat), redirs : Seq(Redirections), prog : Progs]

Arity(op) == IF op = "cmd" THEN {0} ELSE IF op = "sub" THEN {1}
             ELSE IF op = "seq" THEN {1, 2} ELSE IF op = "pipe" THEN 2..9 ELSE {2}
ASSUME NodesAssumption ==
  /\ Nodes \in Seq(NodeType)
  /\ \A n \in DOMAIN Nodes :
       /\ Len(Nodes[n].kids) \in Arity(Nodes[n].op)
       /\ \A k \in 1..Len(Nodes[n].kids) : Nodes[n].kids[k] \in DOMAIN Nodes
                                           /\ Nodes[n].kids[k] > n
ASSUME LinesAssumption == Lines \subseteq DOMAIN Nodes
ASSUME CodesAssumption == Codes \subseteq 0..255 /\ Statuses \subseteq Int
ASSUME BoundsAssumption == MaxFd \in Nat /\ MaxFd >= 2 /\ MaxLines \in Nat

VARIABLES
  procs,    \* the processes, each the child of the one before it; <<>>: all ended
  blocked,  \* a write into a full pipe that nobody reads
  end,      \* the shell's exit status
  lines,    \* the bounded count
  line,     \* history: the line that is run
  log       \* history: what its commands did, in order

vars == <<procs, blocked, end, lines, line, log>>

-----------------------------------------------------------------------------
(* Descriptor tables. *)

Fds == 0..MaxFd
Files == {"none", "tty", "script", "other", "file", "doc", "pipe"}
Tables == [Fds -> Files]

Free(tab) == {f \in Fds : tab[f] = "none"}
Lowest(tab) == CHOOSE f \in Free(tab) : \A g \in Free(tab) : f <= g
\* What open, dup and each end of pipe do, when a descriptor is free.
Open(tab, file) == [tab EXCEPT ![Lowest(tab)] = file]

IsTty(tab) == tab[0] = "tty"

\* apply_redirs: stops at the first that fails, of itself (bad) or because there are
\* too few descriptors (a pipe takes two), or that blocks.  dup_close moves what was
\* opened to its place and leaves nothing else open: the last one to a place counts.
Opened(r) == IF r.kind = "file" THEN "file" ELSE "doc"
Fails(tab, redirs, bad, k) ==
  k = bad \/ ~\E f \in Free(tab) : redirs[k].kind = "file" \/ f # Lowest(tab)
Stops(tab, redirs, bad) ==
  {k \in DOMAIN redirs : Fails(tab, redirs, bad, k) \/ redirs[k].kind = "bigdoc"}
Least(S) == CHOOSE k \in S : \A j \in S : k <= j
Greatest(S) == CHOOSE k \in S : \A j \in S : j <= k
Apply(tab, redirs, bad) ==
  LET stops == Stops(tab, redirs, bad)
      to(f) == {k \in DOMAIN redirs : redirs[k].to = f /\ \A j \in stops : k < j}
  IN [res |-> IF stops = {} THEN "ok"
              ELSE IF Fails(tab, redirs, bad, Least(stops)) THEN "failed" ELSE "stuck",
      tab |-> [f \in Fds |-> IF to(f) = {} THEN tab[f] ELSE Opened(redirs[Greatest(to(f))])]]

\* sv_in = dup(0), sv_out = dup(1): the second is tried whatever the first did.
Dup(tab, f) == IF tab[f] = "none" \/ Free(tab) = {} THEN tab ELSE Open(tab, tab[f])
Save(tab) == Dup(Dup(tab, 0), 1)
CanSave(tab) == Dup(tab, 0) # tab /\ Save(tab) # Dup(tab, 0)
SavedIn(tab) == Lowest(tab)
SavedOut(tab) == Lowest(Dup(tab, 0))

\* restore_fds, of what was saved from old.
Restore(tab, old) ==
  LET in == [tab EXCEPT ![0] = tab[SavedIn(old)]]
      out == [in EXCEPT ![1] = in[SavedOut(old)]]
  IN [out EXCEPT ![SavedIn(old)] = "none", ![SavedOut(old)] = "none"]

-----------------------------------------------------------------------------
(* Processes.  A frame is a call of exec_node: how far it is, and for a       *)
(* pipeline which stage is next.  ret is what the last call returned.         *)

None == -1
Top(s) == s[Len(s)]
Pop(s) == SubSeq(s, 1, Len(s) - 1)

Ats == {"start", "left", "right", "wait", "trial", "run"}
Frames == [node : DOMAIN Nodes, at : Ats, i : Nat \ {0}]
Processes ==
  [stack : Seq(Frames), ret : {None} \cup 0..255, code : 0..255, tab : Tables,
   base : Tables,     \* history: the table the process began with
   lost : BOOLEAN,    \* history: a call that ran out of descriptors has kept some
   last : 0..255,     \* history: the exit status of the last command
   seen : 0..255]     \* history: what $? was when the command was expanded

Frame(n) == [node |-> n, at |-> "start", i |-> 1]
P == Top(procs)
F == Top(P.stack)
N == Nodes[F.node]
Runs(op, at) ==
  /\ procs # <<>> /\ ~blocked /\ P.stack # <<>>
  /\ N.op = op /\ F.at = at /\ (at \in {"left", "right"} => P.ret # None)

Set(p) == [procs EXCEPT ![Len(procs)] = p]
Goto(p, at) == [p EXCEPT !.stack[Len(p.stack)].at = at]
Call(p, at, n) == [Goto(p, at) EXCEPT !.stack = Append(@, Frame(n)), !.ret = None]
Return(p, c) == [p EXCEPT !.stack = Pop(@), !.ret = c]
Complete(p, c) == [Return(p, c) EXCEPT !.last = c]

Fork(p, tab, n) ==
  Append(Set(Goto(p, "wait")),
         [p EXCEPT !.stack = <<Frame(n)>>, !.ret = None, !.tab = tab, !.base = tab,
                   !.lost = FALSE])

\* What exec_subshell makes of the way its child has ended.
SubshellStatusRaw(c, sig) == IF sig THEN 1 ELSE 256 * c
SubshellStatus(c, sig) == IF sig THEN 1 ELSE c

\* A child has ended with a code, or by a signal: its parent goes on, exec_pipeline
\* with its next stage.
EndedOnlyByExit(ps, c, sig) ==
  IF sig \/ Len(ps) = 1 THEN Pop(ps)
  ELSE LET p == Top(Pop(ps))
       IN [Pop(ps) EXCEPT ![Len(ps) - 1] = Complete(p, c)]
Ended(ps, c, sig) ==
  IF Len(ps) = 1 THEN <<>>
  ELSE LET p == Top(Pop(ps))
           f == Top(p.stack)
           n == Nodes[f.node]
       IN [Pop(ps) EXCEPT ![Len(ps) - 1] =
             IF n.op = "sub" THEN Complete(p, SubshellStatus(c, sig))
             ELSE IF f.i = Len(n.kids) THEN Complete(p, IF sig THEN 137 ELSE c)
             ELSE [Goto(p, "start") EXCEPT !.stack[Len(p.stack)].i = @ + 1]]

Record(c, ends, sig) ==
  log' = Append(log, [node |-> F.node, code |-> c, ends |-> ends, sig |-> sig])
ExitProcess(c) ==
  /\ procs' = Ended(procs, c % 256, FALSE)
  /\ end' = IF Len(procs) = 1 THEN c % 256 ELSE end
Blocks == blocked' = TRUE /\ UNCHANGED <<procs, end, log>>
Finish(p, c) ==
  /\ procs' = Set(Complete(p, c)) /\ Record(c, FALSE, FALSE) /\ UNCHANGED <<blocked, end>>

-----------------------------------------------------------------------------
(* Lines and lists: run_exec, exec_sequence, exec_and_or. *)

\* The standard descriptors are open, the program may have been given more.  (With
\* descriptor 0 or 1 closed, dup returns it and what restore_fds closes is standard
\* input or output: see the README.)
Init ==
  /\ \E tab \in Tables :
       /\ tab[0] \in {"tty", "script"} /\ tab[1] = "tty" /\ tab[2] = "tty"
       /\ \A f \in 3..MaxFd : tab[f] \in {"none", "other"}
       /\ procs = <<[stack |-> <<>>, ret |-> None, code |-> 0, tab |-> tab, base |-> tab,
                     lost |-> FALSE, last |-> 0, seen |-> 0]>>
  /\ blocked = FALSE /\ end = None /\ lines = 0 /\ line = 0 /\ log = <<>>

AtPrompt == Len(procs) = 1 /\ P.stack = <<>> /\ P.ret = None
RunLine(n) ==
  /\ AtPrompt /\ lines < MaxLines
  /\ procs' = Set([P EXCEPT !.stack = <<Frame(n)>>])
  /\ lines' = lines + 1 /\ line' = n /\ log' = <<>>
  /\ UNCHANGED <<blocked, end>>
EndLine ==
  /\ Len(procs) = 1 /\ P.stack = <<>> /\ P.ret # None
  /\ procs' = Set([P EXCEPT !.code = P.ret, !.ret = None])
  /\ UNCHANGED <<blocked, end, lines, line, log>>

\* What happens inside a line.
Inside == UNCHANGED <<lines, line>>
Silent == UNCHANGED <<blocked, end, log>> /\ Inside

Descend ==
  /\ \E op \in {"seq", "and", "or"} : Runs(op, "start")
  /\ procs' = Set(Call(P, "left", N.kids[1]))
  /\ Silent

\* Both sides' codes are stored by set_code, the left one before the right side runs.
SequenceLeftUnset ==
  /\ Runs("seq", "left")
  /\ procs' = Set(IF Len(N.kids) = 2 THEN Call(P, "right", N.kids[2]) ELSE Return(P, P.ret))
  /\ Silent
SequenceLeft ==
  /\ Runs("seq", "left")
  /\ LET p == [P EXCEPT !.code = P.ret]
     IN procs' = Set(IF Len(N.kids) = 2 THEN Call(p, "right", N.kids[2]) ELSE Return(p, P.ret))
  /\ Silent
SequenceRight ==
  /\ Runs("seq", "right")
  /\ procs' = Set(Return([P EXCEPT !.code = P.ret], P.ret))
  /\ Silent

AndOrLeftSwapped ==
  /\ Runs("and", "left") \/ Runs("or", "left")
  /\ procs' = Set(IF (N.op = "or") = (P.ret = 0) THEN Call(P, "right", N.kids[2])
                                                 ELSE Return(P, P.ret))
  /\ Silent
AndOrLeft ==
  /\ Runs("and", "left") \/ Runs("or", "left")
  /\ procs' = Set(IF (N.op = "and") = (P.ret = 0) THEN Call(P, "right", N.kids[2])
                                                  ELSE Return(P, P.ret))
  /\ Silent
AndOrRight ==
  /\ Runs("and", "right") \/ Runs("or", "right")
  /\ procs' = Set(Return(P, P.ret))
  /\ Silent

-----------------------------------------------------------------------------
(* Children: exec_subshell, exec_pipeline. *)

\* Which redirection fails, if any.
Bads == UNION {0..Len(Nodes[n].redirs) : n \in DOMAIN Nodes}

\* Nobody has tried the redirections of a subshell before.
Subshell(bad) ==
  /\ Runs("sub", "start")
  /\ LET a == Apply(P.tab, N.redirs, bad)
     IN CASE a.res = "ok" ->
               /\ procs' = Fork(P, a.tab, N.kids[1])
               /\ UNCHANGED <<blocked, end, log>>
          [] a.res = "failed" -> Finish(P, 1)
          [] a.res = "stuck" -> Blocks
  /\ Inside
SubshellForkFails ==
  /\ Runs("sub", "start")
  /\ Finish(P, 1) /\ Inside

Connect(tab, first, last) ==
  [tab EXCEPT ![0] = IF first THEN @ ELSE "pipe", ![1] = IF last THEN @ ELSE "pipe"]
Stage ==
  /\ Runs("pipe", "start")
  /\ procs' = Fork(P, Connect(P.tab, F.i = 1, F.i = Len(N.kids)), N.kids[F.i])
  /\ Silent

\* exec_pipeline returns with what it has open: the read end of the pipe before,
\* and both ends of the new one if it is fork that has failed.
StageFails(made) ==
  /\ Runs("pipe", "start") /\ (made => F.i < Len(N.kids))
  /\ LET one == IF F.i = 1 THEN P.tab ELSE Open(P.tab, "pipe")
         kept == IF made THEN Open(Open(one, "pipe"), "pipe") ELSE one
     IN /\ F.i = 1 \/ Free(P.tab) # {}
        /\ made => Free(one) # {} /\ Free(Open(one, "pipe")) # {}
        /\ Finish([P EXCEPT !.tab = kept, !.lost = @ \/ kept # P.tab], 1)
  /\ Inside

\* The child's call of exec_node has returned.
ChildEnds ==
  /\ Len(procs) > 1 /\ P.stack = <<>> /\ P.ret # None
  /\ ExitProcess(P.ret)
  /\ UNCHANGED <<blocked, log>> /\ Inside

-----------------------------------------------------------------------------
(* exec_command. *)

Expand ==
  /\ Runs("cmd", "start")
  /\ procs' = Set(Goto([P EXCEPT !.seen = P.code], IF N.redirs = <<>> THEN "run" ELSE "trial"))
  /\ Silent

\* check_redirs_in_child: the redirections are applied by a child that does nothing
\* else; the shell waits for it.
Trial(bad) ==
  /\ Runs("cmd", "trial")
  /\ LET a == Apply(P.tab, N.redirs, bad)
     IN CASE a.res = "ok" -> procs' = Set(Goto(P, "run")) /\ UNCHANGED <<blocked, end, log>>
          [] a.res = "failed" -> Finish(P, 1)
          [] a.res = "stuck" -> Blocks
  /\ Inside
TrialForkFails ==
  /\ Runs("cmd", "trial")
  /\ Finish(P, 1) /\ Inside

Running(progs) == Runs("cmd", "run") /\ N.prog \in progs

\* exec_builtin and exec_redirects_only: what runs in the shell itself, between the
\* saving of its descriptors and their restoration.
DupFails ==
  /\ Running(Progs \ {"program"}) /\ N.redirs # <<>> /\ ~CanSave(P.tab)
  /\ LET kept == Save(P.tab)
     IN Finish([P EXCEPT !.tab = kept, !.lost = @ \/ kept # P.tab], 1)
  /\ Inside

\* The table after the command, whether the redirections could be applied or not.
AfterwardsAsLeft(bad) ==
  IF N.redirs = <<>> THEN P.tab
  ELSE LET a == Apply(Save(P.tab), N.redirs, bad)
       IN IF a.res = "failed" THEN a.tab ELSE Restore(a.tab, P.tab)
Afterwards(bad) ==
  IF N.redirs = <<>> THEN P.tab
  ELSE Restore(Apply(Save(P.tab), N.redirs, bad).tab, P.tab)
CanRun == N.redirs = <<>> \/ CanSave(P.tab)
Succeeds(bad) == N.redirs = <<>> \/ Apply(Save(P.tab), N.redirs, bad).res = "ok"

RedirsFail(bad) ==
  /\ Running(Progs \ {"program"}) /\ CanRun /\ ~Succeeds(bad)
  /\ Finish([P EXCEPT !.tab = Afterwards(bad)], 1)
  /\ Inside

RedirsOnly(bad) ==
  /\ Running({"none"}) /\ CanRun /\ Succeeds(bad)
  /\ Finish([P EXCEPT !.tab = Afterwards(bad)], 0)
  /\ Inside
Builtin(bad, c) ==
  /\ Running({"builtin", "special"}) /\ CanRun /\ Succeeds(bad)
  /\ N.prog = "special" /\ c # 0 => IsTty(Afterwards(bad))
  /\ Finish([P EXCEPT !.tab = Afterwards(bad)], c)
  /\ Inside
\* return_builtin_status: not at a terminal, a special builtin that fails ends the
\* process.
SpecialFails(bad, c) ==
  /\ Running({"special"}) /\ CanRun /\ Succeeds(bad)
  /\ c # 0 /\ ~IsTty(Afterwards(bad))
  /\ ExitProcess(c) /\ Record(c, TRUE, FALSE)
  /\ UNCHANGED blocked /\ Inside

\* exit restores first, and with redirections its return is not looked at; without,
\* it is a special builtin that fails.
ExitReturns(bad) ==
  /\ Running({"exitMany"}) /\ CanRun /\ Succeeds(bad)
  /\ N.redirs = <<>> => IsTty(P.tab)
  /\ Finish([P EXCEPT !.tab = Afterwards(bad)], 2)
  /\ Inside
TooMany ==
  /\ Running({"exitMany"}) /\ N.redirs = <<>> /\ ~IsTty(P.tab)
  /\ ExitProcess(2) /\ Record(2, TRUE, FALSE)
  /\ UNCHANGED blocked /\ Inside
Exit(bad, c) ==
  /\ Running({"exit"}) /\ CanRun /\ Succeeds(bad)
  /\ ExitProcess(c) /\ Record(c % 256, TRUE, FALSE)
  /\ UNCHANGED blocked /\ Inside

\* exec_slash, exec_norm, exec_external: the program is not found, or a child applies
\* the redirections again, to a copy of the table, and becomes the program.
Program(bad, c) ==
  /\ Running({"program"})
  /\ Finish(P, IF Apply(P.tab, N.redirs, bad).res = "ok" THEN c ELSE 1)
  /\ Inside

\* A process other than the shell may be killed; it is enough to look at the
\* moments before its commands.
Killed ==
  /\ Len(procs) > 1 /\ Runs("cmd", "start")
  /\ procs' = Ended(procs, 0, TRUE) /\ Record(0, TRUE, TRUE)
  /\ UNCHANGED <<blocked, end>> /\ Inside

Lists == Descend \/ SequenceLeft \/ SequenceRight \/ AndOrLeft \/ AndOrRight
Children ==
  \/ SubshellForkFails \/ Stage \/ ChildEnds
  \/ \E bad \in Bads : Subshell(bad)
  \/ \E made \in BOOLEAN : StageFails(made)
Commands ==
  \/ Expand \/ TrialForkFails \/ DupFails \/ TooMany
  \/ \E bad \in Bads :
       \/ Trial(bad) \/ RedirsFail(bad) \/ RedirsOnly(bad) \/ ExitReturns(bad)
       \/ \E c \in Codes : Builtin(bad, c) \/ SpecialFails(bad, c) \/ Program(bad, c)
       \/ \E c \in Statuses : Exit(bad, c)
Shell == EndLine \/ Lists \/ Children \/ Commands

Next == (\E n \in Lines : RunLine(n)) \/ Shell \/ Killed

Spec == Init /\ [][Next]_vars
\* The shell and its children take their steps, programs end.
LiveSpec == Spec /\ WF_vars(Shell)

-----------------------------------------------------------------------------
(* Properties. *)

Entries == [node : DOMAIN Nodes, code : 0..255, ends : BOOLEAN, sig : BOOLEAN]
TypeOK ==
  /\ procs \in Seq(Processes) /\ log \in Seq(Entries)
  /\ blocked \in BOOLEAN /\ end \in {None} \cup 0..255
  /\ lines \in 0..MaxLines /\ line \in {0} \cup DOMAIN Nodes

\* Whatever fails in between, a process has between two commands the descriptors it
\* began with: redirections are undone, in the shell itself and for each of its
\* children, and nothing is left open unless descriptors ran out; standard input and
\* output are as they were even then.
Restored ==
  \A k \in 1..Len(procs), f \in Fds :
    f <= 2 \/ ~procs[k].lost => procs[k].tab[f] = procs[k].base[f]

\* Every command sees in $? the exit status of the one before it in its process, or
\* in the one that forked it, other than on the right of && and ||.
IsExpanded == procs # <<>> /\ P.stack # <<>> /\ F.at \in {"trial", "run"}
OnTheRight ==
  \E k \in 1..Len(procs) : \E j \in 1..Len(procs[k].stack) :
    LET f == procs[k].stack[j] IN Nodes[f.node].op \in {"and", "or"} /\ f.at = "right"
SeesLastElsewhere == IsExpanded /\ ~OnTheRight => P.seen = P.last

\* "Handle $? which should expand to the exit status of the most recently executed
\* foreground pipeline" (docs/TODO).
SeesLast == IsExpanded => P.seen = P.last

\* What a line means, read off its tree and the outcomes of its commands: a value,
\* how many outcomes it takes, and whether the process ends with it.
Missing == [next |-> 0, status |-> None, over |-> FALSE, sig |-> FALSE]
Meaning ==
  LET value[n \in DOMAIN Nodes] ==
        [k \in 0..(Len(log) + 1) |->
           LET kids == Nodes[n].kids
               op == Nodes[n].op
               left == value[kids[1]][k]
               own == [next |-> k + 1, status |-> log[k].code,
                       over |-> log[k].ends, sig |-> log[k].sig]
               stage[i \in 0..Len(kids)] ==
                 IF i = 0 THEN [Missing EXCEPT !.next = k]
                 ELSE LET at == stage[i - 1].next
                      IN IF stage[i - 1].over THEN stage[i - 1]
                         ELSE IF at \in 1..Len(log) /\ log[at].node = n
                         THEN [Missing EXCEPT !.next = at + 1, !.status = 1, !.over = TRUE]
                         ELSE LET v == value[kids[i]][at]
                              IN [Missing EXCEPT !.next = v.next,
                                                 !.status = IF v.sig THEN 137 ELSE v.status]
           IN IF k \notin 1..Len(log) THEN Missing
              ELSE IF op # "pipe" /\ log[k].node = n THEN own
              ELSE CASE op = "cmd" -> Missing
                     [] op = "sub" -> [Missing EXCEPT !.next = left.next,
                                        !.status = IF left.sig THEN 1 ELSE left.status]
                     [] op = "pipe" -> [stage[Len(kids)] EXCEPT !.over = FALSE]
                     [] op = "seq" -> IF left.over \/ Len(kids) = 1 THEN left
                                      ELSE value[kids[2]][left.next]
                     [] op \in {"and", "or"} ->
                          IF left.over \/ (op = "and") # (left.status = 0) THEN left
                          ELSE value[kids[2]][left.next]]
  IN value[line][1]

\* The line's commands are those its tree asks for, in this order, and its status is
\* what they make of it, through subshells and pipelines that exit, fail or are
\* killed; the shell ends with a command only if it is the shell that runs it.
RunsAsWritten ==
  /\ Len(procs) = 1 /\ P.stack = <<>> /\ P.ret # None =>
       Meaning = [next |-> Len(log) + 1, status |-> P.ret, over |-> FALSE, sig |-> FALSE]
  /\ end # None =>
       Meaning = [next |-> Len(log) + 1, status |-> end, over |-> TRUE, sig |-> FALSE]

\* A line that has been started comes to its end, unless a here-document does not
\* fit into its pipe.
Idle == procs = <<>> \/ AtPrompt
Returns == []<>(Idle \/ blocked)
=============================================================================
