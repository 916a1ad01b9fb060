--------------------------- MODULE PipelineProofs ---------------------------
(***************************************************************************)
(* Pipeline, for every set of lines, every number of children, every       *)
(* descriptor limit and every pipe capacity.                               *)
(*                                                                         *)
(* None of NoStrayEnds, NoLeak, EndsArePrivate and AllReaped is inductive: *)
(* what a child holds when its command starts depends on what the shell    *)
(* held when it forked it, hence on what the shell left open after every   *)
(* earlier iteration.  IndInv says what each table holds at each point.    *)
(***************************************************************************)
EXTENDS Pipeline, TLAPS

\* The shell's table (or a child's copy of it) with prev_in open.
WithPrev(prev, p) == IF prev = -1 THEN base ELSE [base EXCEPT ![prev] = R(p - 1)]
\* The same with the pipe of p open as well.
WithPipe(t, r, w, p) == [[t EXCEPT ![r] = R(p)] EXCEPT ![w] = W(p)]

\* What stage p inherits: prev_in, unless it is the first, was free in base;
\* both ends of its pipe, unless it is the last, were free; w is not 0 or 1,
\* because descriptor 0 is open and the lower of the two is the read end.
Inherits(p, prev, r, w, out, t) ==
  /\ prev = -1 <=> p = Stage(0)
  /\ prev # -1 => base[prev] = None
  /\ out <=> p # Stage(ncmds - 1)
  /\ out => /\ WithPrev(prev, p)[r] = None
            /\ WithPrev(prev, p)[w] = None
            /\ 1 <= r /\ r < w
  /\ t = IF out THEN WithPipe(WithPrev(prev, p), r, w, p) ELSE WithPrev(prev, p)

AsForked(p) == Inherits(p, loc[p].prev, loc[p].r, loc[p].w, loc[p].out, tab[p])

\* Standard input is open, and nothing refers to a pipe not yet made.
TableOK(t, last) == t[0] # None /\ \A f \in Fds : t[f][2] <= last

InvBase == TableOK(base, first)

InvShell ==
  /\ pc \in {"fork", "close"} =>
       Inherits(Stage(i), prev_in, fd[1], fd[2], ~IsLast(i), tab[Shell])
  /\ pc = "pipe" =>
       /\ ~IsLast(i)
       /\ prev_in = -1 <=> i = 0
       /\ prev_in # -1 => base[prev_in] = None
       /\ tab[Shell] = WithPrev(prev_in, Stage(i))
  /\ TableOK(tab[Shell], first + ncmds)

\* The children forked so far.
Forked(p) == IF pc = "close" THEN p <= Stage(i) ELSE p < Stage(i)

InvStatus ==
  /\ \A p \in Children : p > first + ncmds => st[p] = "none"
  /\ pc \in {"pipe", "fork", "close"} =>
       \A p \in Stages : IF Forked(p) THEN st[p] \in {"setup", "run", "zombie"}
                                      ELSE st[p] = "none"
  /\ pc = "wait" =>
       \A p \in Stages : IF p < Stage(i) THEN st[p] = "reaped"
                                         ELSE st[p] \in {"setup", "run", "zombie"}

InvChildren ==
  /\ \A p \in Children : st[p] \notin {"setup", "run"} => tab[p] = NoFiles
  /\ \A p \in Children, f \in Fds : tab[p][f][2] <= first + ncmds
  /\ \A p \in Children, f \in Fds : p <= first => tab[p][f][2] <= first
  /\ \A p \in Stages : st[p] = "setup" => AsForked(p)

IndInv ==
  /\ TypeOK
  /\ InvBase /\ InvShell /\ InvStatus /\ InvChildren
  /\ NoStrayEnds /\ NoLeak /\ AllReaped

-----------------------------------------------------------------------------
(* Lemmas on tables and on the numbering of stages. *)

\* The open files the tables may name, as tuples.
LEMMA FilesFacts ==
  /\ None \in Files /\ Tty \in Files
  /\ \A q \in Procs : R(q) \in Files /\ W(q) \in Files
  /\ {0, 1, 2} \subseteq Fds
BY BoundsAssumption DEF None, Tty, R, W, Files, Procs, Shell, Children, Fds

\* Closing a descriptor yields a descriptor table.
LEMMA CloseType ==
  ASSUME NEW t \in [Fds -> Files], NEW f \in Fds
  PROVE  Close(t, f) \in [Fds -> Files]
BY FilesFacts DEF Close

\* dup2 between descriptors in range yields a descriptor table.
LEMMA Dup2Type ==
  ASSUME NEW t \in [Fds -> Files], NEW o \in Fds, NEW n \in Fds
  PROVE  Dup2(t, o, n) \in [Fds -> Files]
BY FilesFacts DEF Dup2

\* A stage's number is that of a child, and lies past the earlier lines'.
LEMMA StageFacts ==
  ASSUME TypeOK
  PROVE  /\ ncmds \in Nat
         /\ \A j \in Nat : j < ncmds => Stage(j) \in Stages
         /\ \A p \in Stages : p \in Children /\ p > first /\ p <= first + ncmds
         /\ \A p \in Children : p > first /\ p <= first + ncmds => p \in Stages
<1> DEFINE n == Len(line)
<1>1. n \in Nat
  BY DEF TypeOK
<1>2. first \in Nat /\ first + n <= MaxProcs /\ MaxProcs \in Nat
  BY BoundsAssumption DEF TypeOK, ncmds
<1>3. ASSUME NEW p \in Children, p > first, p <= first + n
      PROVE  p \in {first + 1 + j : j \in 0..(n - 1)}
  <2>1. p - first - 1 \in 0..(n - 1) /\ p = first + 1 + (p - first - 1)
    BY <1>1, <1>2, <1>3 DEF Children
  <2>2. QED
    BY <2>1
<1>4. QED
  BY <1>1, <1>2, <1>3 DEF ncmds, Stage, Stages, Children

-----------------------------------------------------------------------------
(* Type correctness. *)

\* A freshly started shell is well typed.
LEMMA InitType == Init => TypeOK
<1> SUFFICES ASSUME Init PROVE TypeOK
  OBVIOUS
<1>1. PICK closed \in SUBSET ClosedAtStart :
        base = Std(closed) /\ tab = [p \in Procs |-> IF p = Shell THEN base ELSE NoFiles]
  BY DEF Init
<1>2. base \in [Fds -> Files] /\ NoFiles \in [Fds -> Files]
  BY <1>1, FilesFacts DEF Std, NoFiles
<1>3. tab \in [Procs -> [Fds -> Files]]
  BY <1>1, <1>2
<1>4. NoLocals \in Locals
  BY FilesFacts DEF NoLocals, Locals, Kinds
<1>5. line = <<>> /\ line \in Seq(Kinds) /\ ncmds = 0
  BY DEF Init, ncmds
<1>6. raw \in [Children -> Statuses] /\ buf \in [Children -> 0..Cap]
      /\ held \in [Children -> 0..1]
  BY BoundsAssumption DEF Init, Statuses
<1>7. prev_in \in Fds \cup {-1} /\ fd \in Fds \X Fds
  BY FilesFacts DEF Init
<1>8. first \in Nat /\ i \in Nat /\ result \in Nat /\ failed \in BOOLEAN
  BY DEF Init
<1>9. loc \in [Children -> Locals]
  BY <1>4 DEF Init
<1>10. st \in [Children -> {"none", "setup", "run", "zombie", "reaped"}]
  BY DEF Init
<1>11. first + ncmds <= MaxProcs /\ pc = "idle"
  BY <1>5, BoundsAssumption DEF Init
<1>12. QED
  BY <1>2, <1>3, <1>4, <1>5, <1>6, <1>7, <1>8, <1>9, <1>10, <1>11 DEF TypeOK

\* The steps of exec_pipeline in the shell keep every type.
LEMMA ShellStepType ==
  ASSUME TypeOK, ShellStep
  PROVE  TypeOK'
<1>1. pc # "idle" /\ line \in Lines /\ i < ncmds /\ i \in Nat
  BY DEF ShellStep, OpenPipe, PipeFails, Fork, ForkFails, ParentCloses, Wait, TypeOK
<1>2. Stage(i) \in Children /\ Stage(i) \in Procs /\ Shell \in Procs
  BY <1>1, StageFacts DEF Procs
<1>3. UNCHANGED <<line, first, base>> /\ UNCHANGED ncmds
  BY DEF ShellStep, OpenPipe, PipeFails, Fork, ForkFails, ParentCloses, Wait,
         GiveUp, shellVars, ncmds
<1>4. tab[Shell] \in [Fds -> Files]
  BY <1>2 DEF TypeOK
<1>5. CASE OpenPipe
  BY <1>1, <1>2, <1>3, <1>4, <1>5, FilesFacts DEF TypeOK, OpenPipe, shellVars
<1>6. CASE PipeFails \/ ForkFails
  <2>1. GiveUp
    BY <1>6 DEF PipeFails, ForkFails
  <2>2. QED
    BY <1>3, <2>1 DEF TypeOK, GiveUp
<1>7. CASE Fork
  <2>1. line[i + 1] \in Kinds
    BY <1>1 DEF TypeOK, ncmds
  <2>2. [prev |-> prev_in, r |-> fd[1], w |-> fd[2],
         out |-> ~IsLast(i), prog |-> line[i + 1]] \in Locals
    BY <2>1 DEF TypeOK, Locals, IsLast
  <2>3. tab' \in [Procs -> [Fds -> Files]] /\ loc' \in [Children -> Locals]
    BY <1>2, <1>4, <1>7, <2>2 DEF TypeOK, Fork
  <2>4. st' \in [Children -> {"none", "setup", "run", "zombie", "reaped"}]
    BY <1>2, <1>7 DEF TypeOK, Fork
  <2>5. QED
    BY <1>1, <1>3, <1>7, <2>3, <2>4 DEF TypeOK, Fork, shellVars
<1>8. CASE ParentCloses
  <2>1. ParentTable \in [Fds -> Files]
    BY <1>4, CloseType DEF ParentTable, ClosePrev, TypeOK
  <2>2. tab' \in [Procs -> [Fds -> Files]]
    BY <1>2, <1>8, <2>1 DEF TypeOK, ParentCloses
  <2>3. i' \in Nat /\ i' < ncmds
    BY <1>1, <1>8, StageFacts DEF ParentCloses, IsLast
  <2>4. QED
    BY <1>1, <1>3, <1>8, <2>2, <2>3 DEF TypeOK, ParentCloses, shellVars
<1>9. CASE Wait
  <2>1. FullCode(raw[Stage(i)]) \in Nat
    BY <1>2 DEF TypeOK, FullCode, Statuses, Exited, Signalled, SIGPIPE
  <2>2. i' \in Nat /\ (pc' # "idle" => i' < ncmds)
    BY <1>1, <1>9, StageFacts DEF Wait, IsLast
  <2>3. st' \in [Children -> {"none", "setup", "run", "zombie", "reaped"}]
    BY <1>2, <1>9 DEF TypeOK, Wait
  <2>4. QED
    BY <1>1, <1>3, <1>9, <2>1, <2>2, <2>3 DEF TypeOK, Wait
<1>10. QED
  BY <1>5, <1>6, <1>7, <1>8, <1>9 DEF ShellStep

\* The steps of a child keep every type.
LEMMA ChildStepType ==
  ASSUME TypeOK, NEW p \in Children, Progress(p) \/ EndsEarly(p)
  PROVE  TypeOK'
<1>1. p \in Procs /\ 0 \in Fds /\ 1 \in Fds /\ NoFiles \in [Fds -> Files]
  BY FilesFacts DEF Procs, NoFiles
<1>2. tab[p] \in [Fds -> Files] /\ loc[p] \in Locals
  BY <1>1 DEF TypeOK
<1>3. UNCHANGED <<pc, line, first, i, prev_in, fd, base, loc, failed, result>>
  BY DEF Progress, EndsEarly, Connect, ReadUnit, EndOfFile, WriteUnit, BrokenPipe,
         BadDescriptor, Kept, shellVars
<1>4. UNCHANGED ncmds
  BY <1>3 DEF ncmds
<1>5. ASSUME NEW s \in Statuses, Dies(p, s)
      PROVE  /\ tab' \in [Procs -> [Fds -> Files]]
             /\ st' \in [Children -> {"none", "setup", "run", "zombie", "reaped"}]
             /\ raw' \in [Children -> Statuses]
  BY <1>1, <1>5 DEF Dies, TypeOK
<1>6. CASE Connect(p)
  <2>1. InTable(p, tab[p]) \in [Fds -> Files]
    BY <1>1, <1>2, CloseType, Dup2Type DEF InTable, Locals
  <2>2. OutTable(p, InTable(p, tab[p])) \in [Fds -> Files]
    BY <1>1, <1>2, <2>1, CloseType, Dup2Type DEF OutTable, Locals
  <2>3. tab' \in [Procs -> [Fds -> Files]]
    BY <1>1, <1>6, <2>2 DEF Connect, TypeOK
  <2>4. st' \in [Children -> {"none", "setup", "run", "zombie", "reaped"}]
    BY <1>6 DEF Connect, TypeOK
  <2>5. QED
    BY <1>3, <1>4, <1>6, <2>3, <2>4 DEF Connect, TypeOK
<1>7. CASE ReadUnit(p)
  <2>1. buf' \in [Children -> 0..Cap]
    BY <1>7, BoundsAssumption DEF ReadUnit, TypeOK
  <2>2. held' \in [Children -> 0..1]
    BY <1>7 DEF ReadUnit, TypeOK
  <2>3. QED
    BY <1>3, <1>4, <1>7, <2>1, <2>2 DEF ReadUnit, TypeOK
<1>8. CASE EndOfFile(p) \/ BrokenPipe(p) \/ BadDescriptor(p) \/ EndsEarly(p)
  <2>1. PICK s \in Statuses : Dies(p, s)
    BY <1>8 DEF EndOfFile, BrokenPipe, BadDescriptor, EndsEarly, Statuses
  <2>2. UNCHANGED <<buf, held>>
    BY <1>8 DEF EndOfFile, BrokenPipe, BadDescriptor, EndsEarly
  <2>3. QED
    BY <1>3, <1>4, <1>5, <2>1, <2>2 DEF TypeOK
<1>9. CASE WriteUnit(p)
  <2>1. buf' \in [Children -> 0..Cap]
    <3>1. CASE UNCHANGED buf
      BY <3>1 DEF TypeOK
    <3>2. CASE \E q \in Children : buf[q] < Cap /\ buf' = [buf EXCEPT ![q] = @ + 1]
      BY <3>2, BoundsAssumption DEF TypeOK
    <3>3. QED
      BY <1>9, <3>1, <3>2 DEF WriteUnit
  <2>2. held' \in [Children -> 0..1]
    BY <1>9 DEF WriteUnit, TypeOK
  <2>3. /\ tab' \in [Procs -> [Fds -> Files]]
        /\ st' \in [Children -> {"none", "setup", "run", "zombie", "reaped"}]
        /\ raw' \in [Children -> Statuses]
    BY <1>5, <1>9 DEF WriteUnit, Written, Statuses, TypeOK
  <2>4. QED
    BY <1>3, <1>4, <2>1, <2>2, <2>3 DEF TypeOK
<1>10. QED
  BY <1>6, <1>7, <1>8, <1>9 DEF Progress

\* Beginning a line keeps every type.
LEMMA StartType ==
  ASSUME TypeOK, NEW l \in Lines, Start(l)
  PROVE  TypeOK'
<1>1. l \in Seq(Kinds) /\ Len(l) >= 2 /\ Len(l) \in Nat
  BY LinesAssumption
<1>2. ncmds' = Len(l) /\ first' = first + ncmds /\ first' \in Nat
  BY StageFacts DEF Start, ncmds, TypeOK
<1>3. tab[Shell] \in [Fds -> Files]
  BY DEF TypeOK, Shell, Procs
<1>4. pc' = "pipe" /\ line' \in Lines /\ line' \in Seq(Kinds)
  BY <1>1 DEF Start
<1>5. i' \in Nat /\ i' < ncmds' /\ first' + ncmds' <= MaxProcs
  BY <1>1, <1>2 DEF Start
<1>6. prev_in' \in Fds \cup {-1} /\ base' \in [Fds -> Files] /\ failed' \in BOOLEAN
  BY <1>3 DEF Start
<1>7. UNCHANGED <<fd, tab, loc, st, raw, buf, held, result>>
  BY DEF Start
<1>8. QED
  BY <1>2, <1>4, <1>5, <1>6, <1>7 DEF TypeOK

\* Every variable keeps its type, whatever the lines and the limits.
THEOREM TypeCorrect == Spec => []TypeOK
<1>1. Init => TypeOK
  BY InitType
<1>2. TypeOK /\ [Next]_vars => TypeOK'
  <2> SUFFICES ASSUME TypeOK, [Next]_vars PROVE TypeOK'
    OBVIOUS
  <2>1. CASE UNCHANGED vars
    BY <2>1 DEF vars, TypeOK, ncmds
  <2>2. CASE \E l \in Lines : Start(l)
    BY <2>2, StartType
  <2>3. CASE ShellStep
    BY <2>3, ShellStepType
  <2>4. CASE \E p \in Children : Progress(p) \/ EndsEarly(p)
    BY <2>4, ChildStepType
  <2>5. QED
    BY <2>1, <2>2, <2>3, <2>4 DEF Next, Prompt
<1>3. QED
  BY <1>1, <1>2, PTL DEF Spec

-----------------------------------------------------------------------------
(* The inductive invariant. *)

\* Distinct kinds of open file are distinct files.
LEMMA FilesDiffer ==
  /\ None # Tty /\ None[2] = 0 /\ Tty[2] = 0
  /\ \A q : R(q) # None /\ W(q) # None /\ R(q)[2] = q /\ W(q)[2] = q
  /\ \A q, s : (R(q) = R(s) => q = s) /\ (W(q) = W(s) => q = s) /\ R(q) # W(s)
BY DEF None, Tty, R, W

\* A freshly started shell satisfies the inductive invariant.
LEMMA InitInv == Init => IndInv
<1> SUFFICES ASSUME Init PROVE IndInv
  OBVIOUS
<1>1. TypeOK
  BY InitType
<1>2. PICK closed \in SUBSET ClosedAtStart :
        base = Std(closed) /\ tab = [p \in Procs |-> IF p = Shell THEN base ELSE NoFiles]
  BY DEF Init
<1>3. tab[Shell] = base /\ \A p \in Children : tab[p] = NoFiles
  BY <1>2, BoundsAssumption DEF Procs, Shell, Children
<1>4. first = 0 /\ ncmds = 0 /\ Stages = {} /\ pc = "idle"
  BY DEF Init, ncmds, Stages
<1>5. TableOK(base, 0)
  BY <1>2, StdioAssumption, FilesDiffer, FilesFacts DEF Std, TableOK
<1>6. InvChildren
  BY <1>3, <1>4, FilesDiffer DEF InvChildren, NoFiles
<1>7. InvBase /\ InvShell /\ InvStatus
  BY <1>3, <1>4, <1>5 DEF InvBase, InvShell, InvStatus, Init
<1>8. QED
  BY <1>1, <1>3, <1>4, <1>6, <1>7 DEF IndInv, NoStrayEnds, NoLeak, AllReaped

\* The tables are functions from descriptors to files.
LEMMA TabFacts ==
  ASSUME TypeOK
  PROVE  /\ \A p \in Procs : tab[p] \in [Fds -> Files]
         /\ \A p \in Procs, f \in Fds : tab[p][f][2] \in Nat
         /\ Shell \in Procs /\ Shell \notin Children /\ Children \subseteq Procs
<1>1. \A p \in Procs : tab[p] \in [Fds -> Files]
  BY DEF TypeOK
<1>2. \A e \in Files : e[2] \in Nat
  BY DEF Files, Procs, Children, Shell
<1>3. QED
  BY <1>1, <1>2 DEF Procs, Children, Shell

\* What a child inherited is told by the line and its own table alone.
LEMMA AsForkedFrame ==
  ASSUME UNCHANGED <<base, first, ncmds>>, NEW p, AsForked(p),
         UNCHANGED <<loc[p], tab[p]>>
  PROVE  AsForked(p)'
BY DEF AsForked, Inherits, WithPrev, WithPipe, Stage

\* The table a stage must have depends on the line and on base only.
LEMMA StageTableFrame ==
  ASSUME UNCHANGED <<base, first, ncmds>>, NEW p
  PROVE  StageTable(p)' = StageTable(p)
BY DEF StageTable, Stage

\* A new line, numbered after all earlier children, keeps the invariant.
LEMMA StartInv ==
  ASSUME IndInv, NEW l \in Lines, Start(l)
  PROVE  IndInv'
<1>1. TypeOK /\ TypeOK'
  BY StartType DEF IndInv
<1>2. /\ pc = "idle" /\ pc' = "pipe" /\ first' = first + ncmds /\ i' = 0 /\ prev_in' = -1
      /\ base' = tab[Shell] /\ UNCHANGED <<tab, loc, st>> /\ line' = l
  BY DEF Start
<1>3. ncmds \in Nat /\ first \in Nat /\ ncmds' = Len(l) /\ Len(l) \in Nat /\ Len(l) >= 2
  BY <1>1, <1>2, StageFacts, LinesAssumption DEF TypeOK, ncmds
<1>4. TableOK(tab[Shell], first') /\ TableOK(tab[Shell], first' + ncmds')
  <2>1. TableOK(tab[Shell], first + ncmds)
    BY DEF IndInv, InvShell
  <2>2. \A f \in Fds : tab[Shell][f][2] \in Nat
    BY <1>1, TabFacts
  <2>3. QED
    BY <1>2, <1>3, <2>1, <2>2 DEF TableOK
<1>5. \A p \in Children : p > first' => st'[p] = "none" /\ tab'[p] = NoFiles
  BY <1>2 DEF IndInv, InvStatus, InvChildren
<1>6. \A p \in Stages' : p \in Children /\ p > first'
  <2> SUFFICES ASSUME NEW p \in Stages' PROVE p \in Children /\ p > first'
    OBVIOUS
  <2>1. first' + Len(l) <= MaxProcs
    BY <1>1, <1>3 DEF TypeOK
  <2>2. \E j \in 0..(Len(l) - 1) : p = first' + 1 + j
    BY <1>3 DEF Stages, Stage
  <2>3. QED
    BY <1>2, <1>3, <2>1, <2>2, BoundsAssumption DEF Children
<1>7. InvShell'
  BY <1>2, <1>3, <1>4 DEF InvShell, IsLast, WithPrev
<1>8. InvStatus'
  BY <1>2, <1>3, <1>5, <1>6 DEF InvStatus, Forked, Stage, Children
<1>9. InvChildren'
  <2>1. \A p \in Children, f \in Fds : tab'[p][f][2] <= first'
    BY <1>2 DEF IndInv, InvChildren
  <2>2. \A p \in Children, f \in Fds : tab'[p][f][2] <= first' + ncmds'
    <3>1. \A p \in Children, f \in Fds : tab'[p][f][2] \in Int
      BY <1>1, <1>2, TabFacts
    <3>2. first' \in Int
      BY <1>1 DEF TypeOK
    <3>3. QED
      BY <1>3, <2>1, <3>1, <3>2
  <2>3. \A p \in Children : st'[p] \notin {"setup", "run"} => tab'[p] = NoFiles
    BY <1>2 DEF IndInv, InvChildren
  <2>4. QED
    BY <1>5, <1>6, <2>1, <2>2, <2>3 DEF InvChildren
<1>10. QED
  BY <1>1, <1>2, <1>4, <1>5, <1>6, <1>7, <1>8, <1>9
  DEF IndInv, InvBase, NoStrayEnds, NoLeak, AllReaped

\* What every step of the shell leaves alone.
LEMMA ShellFrame ==
  ASSUME IndInv, ShellStep
  PROVE  /\ TypeOK /\ TypeOK'
         /\ UNCHANGED <<line, first, base>> /\ UNCHANGED <<ncmds, Stages>>
         /\ InvBase'
         /\ first \in Nat /\ ncmds \in Nat /\ ncmds >= 2 /\ i \in Nat /\ i < ncmds
         /\ Stage(i) \in Stages /\ Stage(i) \in Children
         /\ \A p \in Stages : p \in Children /\ p \in Int /\ p > first /\ p <= first + ncmds
<1>1. TypeOK /\ TypeOK'
  BY ShellStepType DEF IndInv
<1>2. UNCHANGED <<line, first, base>>
  BY DEF ShellStep, OpenPipe, PipeFails, Fork, ForkFails, ParentCloses, Wait,
         GiveUp, shellVars
<1>3. pc # "idle"
  BY DEF ShellStep, OpenPipe, PipeFails, Fork, ForkFails, ParentCloses, Wait
<1>4. ncmds \in Nat /\ ncmds >= 2 /\ i \in Nat /\ i < ncmds /\ first \in Nat
  BY <1>1, <1>3, LinesAssumption DEF TypeOK, ncmds
<1>5. UNCHANGED <<ncmds, Stages>>
  BY <1>2 DEF ncmds, Stages, Stage
<1>6. InvBase'
  BY <1>2 DEF IndInv, InvBase, TableOK
<1>7. QED
  BY <1>1, <1>2, <1>4, <1>5, <1>6, StageFacts DEF Children

\* pipe() adds two ends to the table of the shell, at the lowest free descriptors.
LEMMA OpenPipeInv ==
  ASSUME IndInv, OpenPipe
  PROVE  IndInv'
<1> USE ShellFrame DEF ShellStep
<1>1. PICK r, w \in Fds :
        /\ IsLowest(tab[Shell], r)
        /\ IsLowest([tab[Shell] EXCEPT ![r] = R(Stage(i))], w)
        /\ tab' = [tab EXCEPT ![Shell] =
                     [[tab[Shell] EXCEPT ![r] = R(Stage(i))] EXCEPT ![w] = W(Stage(i))]]
        /\ fd' = <<r, w>>
  BY DEF OpenPipe
<1>2. /\ tab \in [Procs -> [Fds -> Files]] /\ tab[Shell] \in [Fds -> Files]
      /\ Shell \in Procs /\ Shell \notin Children
  BY TabFacts DEF TypeOK
<1>3. /\ pc = "pipe" /\ pc' = "fork" /\ UNCHANGED <<i, prev_in, loc, st>>
      /\ tab'[Shell] = [[tab[Shell] EXCEPT ![r] = R(Stage(i))] EXCEPT ![w] = W(Stage(i))]
      /\ \A p \in Children : tab'[p] = tab[p]
  BY <1>1, <1>2 DEF OpenPipe, shellVars, Procs
<1>4. tab[Shell][r] = None /\ tab[Shell][w] = None /\ 1 <= r /\ r < w
  <2>1. tab[Shell][r] = None /\ tab[Shell][w] = None /\ r # w
    BY <1>1, <1>2, FilesDiffer DEF IsLowest, Free
  <2>2. r # 0
    BY <2>1 DEF IndInv, InvShell, TableOK
  <2>3. r <= w
    BY <1>1, <2>1 DEF IsLowest, Free
  <2>4. QED
    BY <2>1, <2>2, <2>3 DEF Fds
<1>5. ~IsLast(i) /\ (prev_in = -1 <=> i = 0) /\ (prev_in # -1 => base[prev_in] = None)
      /\ tab[Shell] = WithPrev(prev_in, Stage(i)) /\ TableOK(tab[Shell], first + ncmds)
  BY <1>3 DEF IndInv, InvShell
<1>6. Inherits(Stage(i), prev_in, r, w, TRUE, tab'[Shell])
  BY <1>3, <1>4, <1>5 DEF Inherits, WithPipe, Stage, IsLast
<1>7. Inherits(Stage(i), prev_in, r, w, ~IsLast(i), tab[Shell])'
  BY <1>3, <1>5, <1>6 DEF Inherits, WithPrev, WithPipe, Stage, IsLast
<1>8. TableOK(tab'[Shell], first + ncmds)
  BY <1>2, <1>3, <1>4, <1>5, FilesDiffer, FilesFacts DEF TableOK
<1>9. InvShell'
  BY <1>1, <1>3, <1>7, <1>8 DEF InvShell, TableOK
<1>10. InvStatus' /\ NoLeak' /\ AllReaped'
  BY <1>3 DEF IndInv, InvStatus, Forked, Stage, NoLeak, AllReaped
<1>11. InvChildren' /\ NoStrayEnds'
  BY <1>3, AsForkedFrame, StageTableFrame DEF IndInv, InvChildren, NoStrayEnds
<1>12. QED
  BY <1>9, <1>10, <1>11 DEF IndInv

\* The two early returns keep what is open, which is what the last iteration opened: only
\* the control state changes.
LEMMA GiveUpInv ==
  ASSUME IndInv, PipeFails \/ ForkFails
  PROVE  IndInv'
<1> USE ShellFrame DEF ShellStep
<1>1. pc' = "idle" /\ failed' = TRUE /\ UNCHANGED <<i, prev_in, fd, tab, loc, st>>
  BY DEF PipeFails, ForkFails, GiveUp
<1>2. InvShell' /\ AllReaped'
  BY <1>1 DEF IndInv, InvShell, TableOK, AllReaped
<1>3. InvStatus'
  BY <1>1 DEF IndInv, InvStatus
<1>4. \A f \in Fds : tab[Shell][f] # base[f] => base[f] = None /\ f \in {prev_in, fd[1], fd[2]}
  <2>. SUFFICES ASSUME NEW f \in Fds, tab[Shell][f] # base[f]
                PROVE  base[f] = None /\ f \in {prev_in, fd[1], fd[2]}
    OBVIOUS
  <2>1. base \in [Fds -> Files]
    BY DEF TypeOK
  <2>2. CASE PipeFails
    <3>1. tab[Shell] = WithPrev(prev_in, Stage(i)) /\ (prev_in # -1 => base[prev_in] = None)
      BY <2>2 DEF PipeFails, IndInv, InvShell
    <3>. QED BY <2>1, <3>1 DEF WithPrev
  <2>3. CASE ForkFails
    <3>1. Inherits(Stage(i), prev_in, fd[1], fd[2], ~IsLast(i), tab[Shell])
      BY <2>3 DEF ForkFails, IndInv, InvShell
    <3>2. f = prev_in \/ WithPrev(prev_in, Stage(i))[f] = base[f]
      BY <2>1 DEF WithPrev
    <3>3. f \in {fd[1], fd[2]} \/ tab[Shell][f] = WithPrev(prev_in, Stage(i))[f]
      <4>1. WithPrev(prev_in, Stage(i)) \in [Fds -> Files \cup {R(Stage(i) - 1)}]
        BY <2>1 DEF WithPrev
      <4>. QED BY <3>1, <4>1 DEF Inherits, WithPipe
    <3>4. f = prev_in => base[f] = None
      BY <3>1 DEF Inherits, Fds
    <3>5. f \in {fd[1], fd[2]} /\ f # prev_in /\ ~IsLast(i) => base[f] = None
      BY <3>1, <3>2 DEF Inherits
    <3>6. IsLast(i) => tab[Shell] = WithPrev(prev_in, Stage(i))
      BY <3>1 DEF Inherits
    <3>. QED BY <3>2, <3>3, <3>4, <3>5, <3>6
  <2>. QED BY <2>2, <2>3
<1>5. NoLeak'
  BY <1>1, <1>4 DEF NoLeak
<1>6. InvChildren' /\ NoStrayEnds'
  BY <1>1, AsForkedFrame, StageTableFrame DEF IndInv, InvChildren, NoStrayEnds
<1>7. QED
  BY <1>2, <1>3, <1>5, <1>6 DEF IndInv

\* fork() hands the table of the shell, and the locals, to the new child.
LEMMA ForkInv ==
  ASSUME IndInv, Fork
  PROVE  IndInv'
<1> USE ShellFrame DEF ShellStep
<1> SUFFICES ASSUME NEW p, p = Stage(i) PROVE IndInv'
  OBVIOUS
<1>1. /\ pc = "fork" /\ pc' = "close" /\ UNCHANGED <<i, prev_in, fd>>
      /\ tab' = [tab EXCEPT ![p] = tab[Shell]]
      /\ st' = [st EXCEPT ![p] = "setup"]
      /\ loc' = [loc EXCEPT ![p] = [prev |-> prev_in, r |-> fd[1], w |-> fd[2],
                                    out |-> ~IsLast(i), prog |-> line[i + 1]]]
  BY DEF Fork, shellVars
<1>2. p \in Children /\ p # Shell /\ tab'[p] = tab[Shell] /\ tab'[Shell] = tab[Shell]
      /\ st'[p] = "setup" /\ loc'[p].prev = prev_in /\ loc'[p].r = fd[1]
      /\ loc'[p].w = fd[2] /\ loc'[p].out = ~IsLast(i)
  BY <1>1, TabFacts DEF TypeOK
<1>3. \A s \in Children : s # p => UNCHANGED <<tab[s], st[s], loc[s]>>
  BY <1>1, TabFacts DEF TypeOK
<1>4. Inherits(p, prev_in, fd[1], fd[2], ~IsLast(i), tab[Shell])
      /\ TableOK(tab[Shell], first + ncmds)
  BY <1>1 DEF IndInv, InvShell
<1>5. InvShell'
  BY <1>1, <1>2, <1>4
  DEF InvShell, TableOK, Inherits, WithPrev, WithPipe, Stage, IsLast
<1>6. AsForked(p)'
  BY <1>1, <1>2, <1>4 DEF AsForked, Inherits, WithPrev, WithPipe, Stage, IsLast
<1>7. InvChildren'
  <2>1. \A s \in Children, f \in Fds : tab'[s][f][2] <= first' + ncmds'
    BY <1>2, <1>3, <1>4 DEF IndInv, InvChildren, TableOK
  <2>2. \A s \in Children, f \in Fds : s <= first' => tab'[s][f][2] <= first'
    BY <1>2, <1>3 DEF IndInv, InvChildren
  <2>3. \A s \in Children : st'[s] \notin {"setup", "run"} => tab'[s] = NoFiles
    BY <1>2, <1>3 DEF IndInv, InvChildren
  <2>4. \A s \in Stages : st'[s] = "setup" => AsForked(s)'
    BY <1>3, <1>6, AsForkedFrame DEF IndInv, InvChildren
  <2>5. QED
    BY <2>1, <2>2, <2>3, <2>4 DEF InvChildren
<1>8. InvStatus'
  <2>1. \A s \in Stages : Forked(s)' <=> s = p \/ Forked(s)
    BY <1>1 DEF Forked, Stage
  <2>2. QED
    BY <1>1, <1>2, <1>3, <2>1 DEF IndInv, InvStatus
<1>9. NoStrayEnds' /\ NoLeak' /\ AllReaped'
  BY <1>1, <1>2, <1>3, StageTableFrame DEF IndInv, NoStrayEnds, NoLeak, AllReaped
<1>10. QED
  BY <1>5, <1>7, <1>8, <1>9 DEF IndInv

\* The heart of the argument: closing prev_in and the write end leaves the
\* shell with base, or with base and the read end it just made prev_in.
LEMMA ParentTableFacts ==
  ASSUME IndInv, ParentCloses
  PROVE  /\ IsLast(i) => ParentTable = base
         /\ ~IsLast(i) => /\ ParentTable = WithPrev(fd[1], Stage(i + 1))
                          /\ base[fd[1]] = None /\ fd[1] # -1
<1> USE ShellFrame DEF ShellStep
<1>1. Inherits(Stage(i), prev_in, fd[1], fd[2], ~IsLast(i), tab[Shell])
  BY DEF ParentCloses, IndInv, InvShell
<1>2. base \in [Fds -> Files] /\ prev_in \in Fds \cup {-1} /\ fd[1] \in Fds /\ fd[2] \in Fds
      /\ -1 \notin Fds /\ None \in Files
  BY FilesFacts DEF TypeOK, Fds
<1>3. CASE IsLast(i)
  <2>1. prev_in # -1 /\ base[prev_in] = None
    BY <1>1, <1>3 DEF Inherits, Stage, IsLast
  <2>2. ParentTable = [[base EXCEPT ![prev_in] = R(Stage(i) - 1)] EXCEPT ![prev_in] = None]
    BY <1>1, <1>3, <2>1 DEF ParentTable, ClosePrev, Close, Inherits, WithPrev
  <2>3. ParentTable = base
    BY <1>2, <2>1, <2>2
  <2>4. QED
    BY <1>3, <2>3
<1>4. CASE ~IsLast(i)
  <2> DEFINE r == fd[1]
             w == fd[2]
             t == WithPrev(prev_in, Stage(i))
  <2>1. tab[Shell] = WithPipe(t, r, w, Stage(i)) /\ t[r] = None /\ t[w] = None
        /\ 1 <= r /\ r < w /\ (prev_in # -1 => base[prev_in] = None)
    BY <1>1, <1>4 DEF Inherits
  <2>2. Stage(i + 1) - 1 = Stage(i)
    BY DEF Stage
  <2>3. r # -1 /\ r # w
    BY <1>2, <2>1 DEF Fds
  <2>4. CASE prev_in = -1
    <3>1. ParentTable = [[[base EXCEPT ![r] = R(Stage(i))] EXCEPT ![w] = W(Stage(i))]
                           EXCEPT ![w] = None]
      BY <1>4, <2>1, <2>4 DEF ParentTable, ClosePrev, Close, WithPipe, WithPrev
    <3>2. base[r] = None /\ base[w] = None
      BY <2>1, <2>4 DEF WithPrev
    <3>3. ParentTable = [base EXCEPT ![r] = R(Stage(i))]
      BY <1>2, <2>2, <2>3, <3>1, <3>2
    <3>4. QED
      BY <1>4, <2>2, <2>3, <3>2, <3>3 DEF WithPrev
  <2>5. CASE prev_in # -1
    <3>1. ParentTable =
            [[[[[base EXCEPT ![prev_in] = R(Stage(i) - 1)] EXCEPT ![r] = R(Stage(i))]
               EXCEPT ![w] = W(Stage(i))] EXCEPT ![prev_in] = None] EXCEPT ![w] = None]
      BY <1>4, <2>1, <2>5 DEF ParentTable, ClosePrev, Close, WithPipe, WithPrev
    <3>2. r # prev_in /\ w # prev_in /\ base[r] = None /\ base[w] = None
          /\ base[prev_in] = None
      BY <1>2, <2>1, <2>5, FilesDiffer DEF WithPrev
    <3>3. ParentTable = [base EXCEPT ![r] = R(Stage(i))]
      BY <1>2, <2>2, <2>3, <3>1, <3>2
    <3>4. QED
      BY <1>4, <2>2, <2>3, <3>2, <3>3 DEF WithPrev
  <2>6. QED
    BY <2>4, <2>5
<1>5. QED
  BY <1>3, <1>4

\* What the shell closes after a fork leaves it with base, or base and prev_in.
LEMMA ParentClosesInv ==
  ASSUME IndInv, ParentCloses
  PROVE  IndInv'
<1> USE ShellFrame DEF ShellStep
<1>1. /\ pc = "close" /\ UNCHANGED <<fd, loc, st>>
      /\ tab' = [tab EXCEPT ![Shell] = ParentTable]
      /\ prev_in' = IF IsLast(i) THEN prev_in ELSE fd[1]
      /\ i' = IF IsLast(i) THEN 0 ELSE i + 1
      /\ pc' = IF IsLast(i) THEN "wait" ELSE IF IsLast(i + 1) THEN "fork" ELSE "pipe"
  BY DEF ParentCloses, shellVars
<1>2. tab'[Shell] = ParentTable /\ \A p \in Children : tab'[p] = tab[p]
  BY <1>1, TabFacts DEF TypeOK
<1>3. TableOK(tab[Shell], first + ncmds) /\ ParentTable[0] # None
      /\ TableOK(ParentTable, first + ncmds)
  <2>1. TableOK(tab[Shell], first + ncmds) /\ TableOK(base, first)
        /\ Inherits(Stage(i), prev_in, fd[1], fd[2], ~IsLast(i), tab[Shell])
    BY <1>1 DEF IndInv, InvShell, InvBase
  <2>2. ParentTable[0] # None
    <3>1. CASE IsLast(i)
      BY <2>1, <3>1, ParentTableFacts DEF TableOK
    <3>2. CASE ~IsLast(i)
      <4>1. base[0] # None /\ fd[1] # 0 /\ base \in [Fds -> Files]
        BY <2>1, <3>2 DEF TableOK, Inherits, TypeOK
      <4>2. QED
        BY <3>2, <4>1, ParentTableFacts, FilesFacts DEF WithPrev
    <3>3. QED
      BY <3>1, <3>2
  <2>3. \A f \in Fds : ParentTable[f] = None \/ ParentTable[f] = tab[Shell][f]
    BY TabFacts DEF ParentTable, ClosePrev, Close
  <2>4. \A f \in Fds : ParentTable[f][2] <= first + ncmds
    BY <2>1, <2>3, FilesDiffer DEF TableOK
  <2>5. QED
    BY <2>1, <2>2, <2>4 DEF TableOK
<1>4. InvChildren' /\ NoStrayEnds' /\ AllReaped'
  BY <1>1, <1>2, AsForkedFrame, StageTableFrame
  DEF IndInv, InvChildren, NoStrayEnds, AllReaped
<1>5. CASE IsLast(i)
  <2>1. InvShell' /\ NoLeak'
    BY <1>1, <1>2, <1>3, <1>5, ParentTableFacts DEF InvShell, NoLeak, TableOK
  <2>2. InvStatus'
    <3>1. \A p \in Stages : p <= Stage(i) /\ p >= Stage(0)
      BY <1>5 DEF Stage, IsLast
    <3>2. QED
      BY <1>1, <1>5, <3>1 DEF IndInv, InvStatus, Forked, Stage
  <2>3. QED
    BY <1>4, <2>1, <2>2 DEF IndInv
<1>6. CASE ~IsLast(i)
  <2>1. ParentTable = WithPrev(fd[1], Stage(i + 1)) /\ base[fd[1]] = None /\ fd[1] # -1
    BY <1>6, ParentTableFacts
  <2>2. Stage(i + 1) # Stage(0) /\ (IsLast(i + 1) <=> Stage(i + 1) = Stage(ncmds - 1))
        /\ Stage(i)' = Stage(i + 1)
    BY <1>1, <1>6 DEF Stage, IsLast
  <2>3. tab'[Shell] = WithPrev(prev_in, Stage(i))'
    BY <1>1, <1>2, <1>6, <2>1, <2>2 DEF WithPrev
  <2>4. InvShell'
    BY <1>1, <1>2, <1>3, <1>6, <2>1, <2>2, <2>3
    DEF InvShell, Inherits, TableOK, WithPrev, Stage, IsLast
  <2>5. InvStatus' /\ NoLeak'
    BY <1>1, <1>6 DEF IndInv, InvStatus, Forked, Stage, NoLeak
  <2>6. QED
    BY <1>4, <2>4, <2>5 DEF IndInv
<1>7. QED
  BY <1>5, <1>6

\* Waiting for a child touches no descriptor.
LEMMA WaitInv ==
  ASSUME IndInv, Wait
  PROVE  IndInv'
<1> USE ShellFrame DEF ShellStep
<1> SUFFICES ASSUME NEW p \in Stages, p = Stage(i) PROVE IndInv'
  OBVIOUS
<1>1. /\ pc = "wait" /\ st[p] = "zombie" /\ st' = [st EXCEPT ![p] = "reaped"]
      /\ i' = i + 1 /\ (IF IsLast(i) THEN pc' = "idle" ELSE pc' = "wait")
      /\ UNCHANGED <<prev_in, fd, tab, loc, failed>>
  BY DEF Wait
<1>2. st'[p] = "reaped" /\ \A s \in Children : s # p => st'[s] = st[s]
  BY <1>1 DEF TypeOK
<1>3. InvShell' /\ NoLeak'
  BY <1>1 DEF IndInv, InvShell, TableOK, NoLeak
<1>4. InvChildren' /\ NoStrayEnds'
  BY <1>1, <1>2, AsForkedFrame, StageTableFrame DEF IndInv, InvChildren, NoStrayEnds
<1>5. InvStatus' /\ AllReaped'
  <2>1. \A s \in Stages : s < p => st[s] = "reaped"
    BY <1>1 DEF IndInv, InvStatus
  <2>2. \A s \in Stages : IsLast(i) => s <= p
    BY DEF Stage, IsLast
  <2>3. Stage(i)' = p + 1
    BY <1>1 DEF Stage
  <2>4. QED
    BY <1>1, <1>2, <2>1, <2>2, <2>3 DEF IndInv, InvStatus, AllReaped
<1>6. QED
  BY <1>3, <1>4, <1>5 DEF IndInv

\* Connecting a stage gives it the table of StageTable: prev_in moves to 0, the
\* write end to 1, and every other descriptor of the pipeline is closed.
LEMMA ConnectTable ==
  ASSUME IndInv, NEW p \in Stages, Connect(p)
  PROVE  OutTable(p, InTable(p, tab[p])) = StageTable(p)
<1> DEFINE prev == loc[p].prev
           r == loc[p].r
           w == loc[p].w
           t == tab[p]
<1>1. TypeOK /\ p \in Children /\ st[p] = "setup"
  BY StageFacts DEF IndInv, Connect
<1>2. loc[p] \in Locals /\ prev \in Fds \cup {-1} /\ r \in Fds /\ w \in Fds /\ -1 \notin Fds
      /\ loc[p].out \in BOOLEAN
  BY <1>1 DEF TypeOK, Locals, Fds
<1>3. /\ prev = -1 <=> p = Stage(0)
      /\ prev # -1 => base[prev] = None
      /\ loc[p].out <=> p # Stage(ncmds - 1)
      /\ loc[p].out => /\ WithPrev(prev, p)[r] = None
                       /\ WithPrev(prev, p)[w] = None
                       /\ 1 <= r /\ r < w
      /\ t = IF loc[p].out THEN WithPipe(WithPrev(prev, p), r, w, p) ELSE WithPrev(prev, p)
  BY <1>1 DEF IndInv, InvChildren, AsForked, Inherits
<1>4. base \in [Fds -> Files] /\ base[0] # None /\ {0, 1, 2} \subseteq Fds
  BY <1>1, FilesFacts DEF TypeOK, IndInv, InvBase, TableOK
<1>5. loc[p].out => r # 0 /\ w # 0 /\ w # 1 /\ r # w /\ (prev # -1 => prev # r /\ prev # w)
                    /\ base[r] = None /\ base[w] = None
  <2> SUFFICES ASSUME loc[p].out
               PROVE  r # 0 /\ w # 0 /\ w # 1 /\ r # w /\ (prev # -1 => prev # r /\ prev # w)
                      /\ base[r] = None /\ base[w] = None
    OBVIOUS
  <2>1. 1 <= r /\ r < w /\ WithPrev(prev, p)[r] = None /\ WithPrev(prev, p)[w] = None
    BY <1>3
  <2>2. r # 0 /\ w # 0 /\ w # 1 /\ r # w
    BY <1>2, <2>1 DEF Fds
  <2>3. prev # -1 => prev # r /\ prev # w
    BY <1>2, <1>4, <2>1, FilesDiffer DEF WithPrev
  <2>4. base[r] = None /\ base[w] = None
    BY <1>2, <1>4, <2>1, <2>3 DEF WithPrev
  <2>5. QED
    BY <2>2, <2>3, <2>4
<1>6. prev # -1 => prev # 0
  BY <1>3, <1>4
<1>7. CASE prev = -1 /\ ~loc[p].out
  BY <1>3, <1>7 DEF OutTable, InTable, WithPrev, StageTable
<1>8. CASE prev = -1 /\ loc[p].out
  <2>1. t = [[base EXCEPT ![r] = R(p)] EXCEPT ![w] = W(p)]
    BY <1>3, <1>8 DEF WithPipe, WithPrev
  <2>2. Close(t, r) = [base EXCEPT ![w] = W(p)]
    <3>1. Close([[base EXCEPT ![r] = R(p)] EXCEPT ![w] = W(p)], r) = [base EXCEPT ![w] = W(p)]
      BY <1>2, <1>4, <1>5, <1>8 DEF Close
    <3>2. QED
      BY <2>1, <3>1
  <2>3. OutTable(p, InTable(p, t)) =
          Close([Close(t, r) EXCEPT ![1] = Close(t, r)[w]], w)
    BY <1>8 DEF OutTable, InTable, Dup2
  <2>4. OutTable(p, InTable(p, t)) = [base EXCEPT ![1] = W(p)]
    BY <1>2, <1>4, <1>5, <1>8, <2>2, <2>3 DEF Close
  <2>5. QED
    BY <1>3, <1>8, <2>4 DEF StageTable
<1>9. CASE prev # -1 /\ ~loc[p].out
  <2>1. InTable(p, t) = [[WithPrev(prev, p) EXCEPT ![0] = WithPrev(prev, p)[prev]]
                           EXCEPT ![prev] = None]
    BY <1>3, <1>9 DEF InTable, Close, Dup2
  <2>2. WithPrev(prev, p) = [base EXCEPT ![prev] = R(p - 1)]
    BY <1>9 DEF WithPrev
  <2>3. InTable(p, t) = [base EXCEPT ![0] = R(p - 1)]
    <3>1. WithPrev(prev, p)[prev] = R(p - 1) /\ prev \in Fds /\ base[prev] = None
      BY <1>2, <1>3, <1>4, <1>9, <2>2
    <3>2. [[[base EXCEPT ![prev] = R(p - 1)] EXCEPT ![0] = R(p - 1)] EXCEPT ![prev] = None]
            = [base EXCEPT ![0] = R(p - 1)]
      BY <1>4, <1>6, <1>9, <3>1
    <3>3. QED
      BY <2>1, <2>2, <3>1, <3>2
  <2>4. QED
    BY <1>3, <1>9, <2>3 DEF StageTable, OutTable
<1>10. CASE prev # -1 /\ loc[p].out
  <2>1. t = [[[base EXCEPT ![prev] = R(p - 1)] EXCEPT ![r] = R(p)] EXCEPT ![w] = W(p)]
    BY <1>3, <1>10 DEF WithPipe, WithPrev
  <2>2. t[prev] = R(p - 1) /\ t \in [Fds -> Files \cup {R(p - 1), R(p), W(p)}]
    BY <1>2, <1>4, <1>5, <1>10, <2>1
  <2>3. InTable(p, t) = [[t EXCEPT ![0] = R(p - 1)] EXCEPT ![prev] = None]
    BY <1>10, <2>2 DEF InTable, Close, Dup2
  <2>4. InTable(p, t) =
          [[[base EXCEPT ![0] = R(p - 1)] EXCEPT ![r] = R(p)] EXCEPT ![w] = W(p)]
    BY <1>2, <1>3, <1>4, <1>5, <1>6, <1>10, <2>1, <2>3
  <2>5. OutTable(p, InTable(p, t)) =
          Close([Close(InTable(p, t), r) EXCEPT ![1] = Close(InTable(p, t), r)[w]], w)
    BY <1>10 DEF OutTable, Dup2
  <2>6. Close(InTable(p, t), r) = [[base EXCEPT ![0] = R(p - 1)] EXCEPT ![w] = W(p)]
    BY <1>2, <1>4, <1>5, <1>10, <2>4 DEF Close
  <2>7. OutTable(p, InTable(p, t)) = [[base EXCEPT ![0] = R(p - 1)] EXCEPT ![1] = W(p)]
    BY <1>2, <1>4, <1>5, <1>10, <2>5, <2>6 DEF Close
  <2>8. QED
    BY <1>3, <1>10, <2>7 DEF StageTable
<1>11. QED
  BY <1>7, <1>8, <1>9, <1>10

\* A step of a child touches its own table and its own status.
LEMMA ChildInv ==
  ASSUME IndInv, NEW p \in Children, Progress(p) \/ EndsEarly(p)
  PROVE  IndInv'
<1>1. TypeOK /\ TypeOK' /\ p \in Procs /\ p # Shell /\ first \in Nat /\ ncmds \in Nat
  BY ChildStepType, StageFacts, TabFacts DEF IndInv, TypeOK
<1>2. UNCHANGED <<pc, line, first, i, prev_in, fd, base, loc, failed>>
  BY DEF Progress, EndsEarly, Connect, ReadUnit, EndOfFile, WriteUnit, BrokenPipe,
         BadDescriptor, Kept, shellVars
<1>3. UNCHANGED <<ncmds, Stages>> /\ (\A j : UNCHANGED Stage(j)) /\ UNCHANGED Stage(i)
      /\ UNCHANGED IsLast(i)
  BY <1>2 DEF ncmds, Stages, Stage, IsLast
<1>4. st[p] \in {"setup", "run"}
  BY DEF Progress, EndsEarly, Connect, ReadUnit, EndOfFile, WriteUnit, BrokenPipe,
         BadDescriptor, Reads, Writes
<1>5. \/ Connect(p)
      \/ st[p] = "run" /\ \E s \in Statuses : Dies(p, s)
      \/ st[p] = "run" /\ UNCHANGED <<tab, st>>
  BY DEF Progress, EndsEarly, ReadUnit, EndOfFile, WriteUnit, Written, BrokenPipe,
         BadDescriptor, Reads, Writes, Statuses
<1>6. /\ \A s \in Procs : s # p => tab'[s] = tab[s]
      /\ \A s \in Children : s # p => st'[s] = st[s]
      /\ st'[p] \in {"run", "zombie"}
      /\ st'[p] = "zombie" => tab'[p] = NoFiles
  BY <1>1, <1>5 DEF Connect, Dies, TypeOK
<1>7. InvBase' /\ InvShell' /\ NoLeak'
  <2>1. UNCHANGED tab[Shell]
    BY <1>1, <1>6, TabFacts
  <2>2. QED
    BY <1>2, <1>3, <2>1
    DEF IndInv, InvBase, InvShell, NoLeak, TableOK, Inherits, WithPrev, WithPipe
<1>8. p <= first + ncmds
  BY <1>1, <1>4 DEF IndInv, InvStatus, Children
<1>9. \A s \in Stages : s \in Children
  BY <1>1, StageFacts
<1>10. InvStatus' /\ AllReaped'
  <2>1. AllReaped'
    BY <1>2, <1>3, <1>4, <1>6, <1>9 DEF IndInv, AllReaped
  <2>2. \A s \in Children : s > first' + ncmds' => st'[s] = "none"
    BY <1>1, <1>2, <1>3, <1>6, <1>8 DEF IndInv, InvStatus, Children
  <2>3. \A s \in Stages : (Forked(s)' <=> Forked(s)) /\ s \in Children
    BY <1>2, <1>3, <1>9 DEF Forked
  <2>4. pc \in {"pipe", "fork", "close"} =>
          \A s \in Stages : IF Forked(s) THEN st'[s] \in {"setup", "run", "zombie"}
                                         ELSE st'[s] = "none"
    BY <1>1, <1>4, <1>6, <2>3 DEF IndInv, InvStatus
  <2>5. pc = "wait" =>
          \A s \in Stages : IF s < Stage(i) THEN st'[s] = "reaped"
                                            ELSE st'[s] \in {"setup", "run", "zombie"}
    BY <1>1, <1>4, <1>6, <2>3 DEF IndInv, InvStatus
  <2>6. QED
    BY <1>2, <1>3, <2>1, <2>2, <2>3, <2>4, <2>5 DEF InvStatus
<1>11. \A f \in Fds : tab'[p][f] = None \/ \E g \in Fds : tab'[p][f] = tab[p][g]
  <2>1. CASE Connect(p)
    <3>1. tab'[p] = OutTable(p, InTable(p, tab[p]))
      BY <1>1, <2>1 DEF Connect, TypeOK
    <3>2. loc[p] \in Locals /\ {0, 1} \subseteq Fds /\ tab[p] \in [Fds -> Files]
      BY <1>1, FilesFacts DEF TypeOK
    <3>3. \A f \in Fds : InTable(p, tab[p])[f] \in {None} \cup {tab[p][g] : g \in Fds}
      BY <3>2 DEF InTable, Close, Dup2, Locals
    <3>4. InTable(p, tab[p]) \in [Fds -> Files]
      BY <3>2, CloseType, Dup2Type DEF InTable, Locals
    <3>5. \A f \in Fds : OutTable(p, InTable(p, tab[p]))[f]
                           \in {None} \cup {InTable(p, tab[p])[g] : g \in Fds}
      BY <3>2, <3>4 DEF OutTable, Close, Dup2, Locals
    <3>6. QED
      BY <3>1, <3>3, <3>5
  <2>2. CASE \E s \in Statuses : Dies(p, s)
    BY <1>1, <2>2 DEF Dies, NoFiles, TypeOK
  <2>3. CASE UNCHANGED <<tab, st>>
    BY <2>3
  <2>4. QED
    BY <1>5, <2>1, <2>2, <2>3
<1>12. InvChildren'
  <2>1. \A s \in Children, f \in Fds : tab'[s][f][2] <= first' + ncmds'
    BY <1>1, <1>2, <1>3, <1>6, <1>11, FilesDiffer, TabFacts DEF IndInv, InvChildren
  <2>2. \A s \in Children, f \in Fds : s <= first' => tab'[s][f][2] <= first'
    BY <1>1, <1>2, <1>6, <1>11, FilesDiffer, TabFacts DEF IndInv, InvChildren
  <2>3. \A s \in Children : st'[s] \notin {"setup", "run"} => tab'[s] = NoFiles
    BY <1>6, TabFacts, <1>1 DEF IndInv, InvChildren
  <2>4. \A s \in Stages : st'[s] = "setup" => AsForked(s)'
    BY <1>1, <1>2, <1>3, <1>6, AsForkedFrame, TabFacts, StageFacts DEF IndInv, InvChildren
  <2>5. QED
    BY <1>3, <2>1, <2>2, <2>3, <2>4 DEF InvChildren
<1>13. NoStrayEnds'
  <2>1. ASSUME NEW s \in Stages, st'[s] = "run"
        PROVE  tab'[s] = StageTable(s)
    <3>1. CASE s # p
      BY <1>1, <1>6, <2>1, <3>1, StageFacts, TabFacts DEF IndInv, NoStrayEnds
    <3>2. CASE s = p /\ Connect(p)
      BY <1>1, <2>1, <3>2, ConnectTable DEF Connect, TypeOK
    <3>3. CASE s = p /\ st[p] = "run" /\ UNCHANGED <<tab, st>>
      BY <2>1, <3>3 DEF IndInv, NoStrayEnds
    <3>4. CASE s = p /\ \E x \in Statuses : Dies(p, x)
      BY <1>1, <2>1, <3>4 DEF Dies, TypeOK
    <3>5. QED
      BY <1>5, <3>1, <3>2, <3>3, <3>4
  <2>2. QED
    BY <1>2, <1>3, <2>1, StageTableFrame DEF NoStrayEnds
<1>14. QED
  BY <1>1, <1>7, <1>10, <1>12, <1>13 DEF IndInv

\* The wait for a line whose commands all run: nobody else holds its pipes.
LEMMA PrivateEnds == IndInv => EndsArePrivate
<1> SUFFICES ASSUME IndInv, pc = "wait", \A p \in Stages : st[p] # "setup",
                    NEW q \in Stages, NEW p \in Procs, NEW f \in Fds
             PROVE  (tab[p][f] = R(q) => p = q + 1) /\ (tab[p][f] = W(q) => p = q)
  BY DEF EndsArePrivate, Readers, Writers, Holds
<1>1. TypeOK /\ q \in Int /\ q > first /\ first \in Nat /\ first + ncmds \in Nat
  BY StageFacts DEF IndInv, TypeOK, Children
<1>2. \A g \in Fds : base[g] # R(q) /\ base[g] # W(q)
  BY <1>1, FilesDiffer DEF IndInv, InvBase, TableOK
<1>3. CASE p = Shell
  BY <1>2, <1>3 DEF IndInv, NoLeak
<1>4. CASE p \in Stages /\ st[p] = "run"
  <2>1. tab[p] = StageTable(p) /\ p \in Int
    BY <1>1, <1>4, StageFacts DEF IndInv, NoStrayEnds, Children
  <2>2. tab[p][f] \in {base[f], R(p - 1), W(p)}
    BY <1>1, <2>1 DEF StageTable, TypeOK, IndInv
  <2>3. QED
    BY <1>1, <1>2, <2>1, <2>2, FilesDiffer
<1>5. CASE p \in Children /\ p <= first
  BY <1>1, <1>5, FilesDiffer, TabFacts DEF IndInv, InvChildren
<1>6. CASE p \in Children /\ st[p] \notin {"setup", "run"}
  BY <1>6, FilesDiffer DEF IndInv, InvChildren, NoFiles
<1>7. CASE p \in Children /\ p > first + ncmds
  BY <1>6, <1>7 DEF IndInv, InvStatus
<1>8. QED
  BY <1>1, <1>3, <1>4, <1>5, <1>6, <1>7, StageFacts DEF Procs, Children

\* The strengthening of the safety properties holds in every reachable state.
LEMMA Inductive == Spec => []IndInv
<1>1. Init => IndInv
  BY InitInv
<1>2. IndInv /\ [Next]_vars => IndInv'
  <2> SUFFICES ASSUME IndInv, [Next]_vars PROVE IndInv'
    OBVIOUS
  <2>1. CASE UNCHANGED vars
    <3>1. UNCHANGED <<ncmds, Stages>> /\ (\A p : UNCHANGED Forked(p)) /\ UNCHANGED Stage(i)
          /\ UNCHANGED IsLast(i)
      BY <2>1 DEF vars, ncmds, Stages, Stage, Forked, IsLast
    <3>2. TypeOK' /\ InvBase' /\ NoLeak' /\ AllReaped'
      BY <2>1, <3>1 DEF vars, IndInv, TypeOK, InvBase, TableOK, NoLeak, AllReaped
    <3>3. InvShell' /\ InvStatus'
      BY <2>1, <3>1 DEF vars, IndInv, InvShell, InvStatus, TableOK, Inherits, WithPrev,
                        WithPipe, Stage
    <3>4. InvChildren' /\ NoStrayEnds'
      BY <2>1, <3>1, AsForkedFrame, StageTableFrame
      DEF vars, IndInv, InvChildren, NoStrayEnds
    <3>5. QED
      BY <3>2, <3>3, <3>4 DEF IndInv
  <2>2. CASE \E l \in Lines : Start(l)
    BY <2>2, StartInv
  <2>3. CASE ShellStep
    BY <2>3, OpenPipeInv, GiveUpInv, ForkInv, ParentClosesInv, WaitInv DEF ShellStep
  <2>4. CASE \E p \in Children : Progress(p) \/ EndsEarly(p)
    BY <2>4, ChildInv
  <2>5. QED
    BY <2>1, <2>2, <2>3, <2>4 DEF Next, Prompt
<1>3. QED
  BY <1>1, <1>2, PTL DEF Spec

\* A command runs with the shell's descriptors, its two pipe ends and nothing
\* else, whatever failed before it and whichever descriptors were free.
THEOREM StagesHoldNothingElse == Spec => []NoStrayEnds
<1>1. IndInv => NoStrayEnds
  BY DEF IndInv
<1>2. QED
  BY <1>1, Inductive, PTL

\* A line that could be launched gives the shell its descriptors back and leaves no child
\* unreaped; one that could not leaves open only the ends its last command was to get.
THEOREM LaunchedLineLeavesNothing == Spec => [](NoLeak /\ AllReaped)
<1>1. IndInv => NoLeak /\ AllReaped
  BY DEF IndInv
<1>2. QED
  BY <1>1, Inductive, PTL

\* While the shell waits, each pipe is held by its two commands only.
THEOREM PipesArePrivate == Spec => []EndsArePrivate
<1>1. QED
  BY PrivateEnds, Inductive, PTL

-----------------------------------------------------------------------------
(* Refinement of PipelineContract. *)

\* A full exit code is never the mark of a command still alive.
LEMMA CodesAreNat == \A s \in Statuses : FullCode(s) \in Nat /\ FullCode(s) # -1
BY DEF Statuses, Exited, Signalled, SIGPIPE, FullCode

\* A step that moves no stage into or out of its death is a stutter.
LEMMA EndedFrame ==
  ASSUME UNCHANGED <<ncmds, first, raw>>, pc # "idle", pc' # "idle",
         first \in Nat, ncmds \in Nat,
         \A p \in Stages : st'[p] \in {"zombie", "reaped"} <=> st[p] \in {"zombie", "reaped"}
  PROVE  Ended' = Ended
<1>1. \A j \in 1..ncmds : first + j \in Stages
  <2> SUFFICES ASSUME NEW j \in 1..ncmds PROVE first + j \in Stages
    OBVIOUS
  <2>1. j - 1 \in 0..(ncmds - 1) /\ first + j = first + 1 + (j - 1)
    OBVIOUS
  <2>2. QED
    BY <2>1 DEF Stages, Stage
<1>2. QED
  BY <1>1 DEF Ended

\* The j-th command of the line is the child first + j.
LEMMA StageOfIndex ==
  ASSUME TypeOK
  PROVE  \A j \in 1..ncmds : first + j \in Stages /\ first + j \in Children
<1> SUFFICES ASSUME NEW j \in 1..ncmds PROVE first + j \in Stages /\ first + j \in Children
  OBVIOUS
<1>1. first \in Nat /\ ncmds \in Nat
  BY StageFacts DEF TypeOK
<1>2. j - 1 \in Nat /\ j - 1 < ncmds /\ Stage(j - 1) = first + j
  BY <1>1 DEF Stage
<1>3. QED
  BY <1>2, StageFacts

\* Beginning a line launches the abstract pipeline.
LEMMA StartMaps ==
  ASSUME IndInv, NEW l \in Lines, Start(l)
  PROVE  Contract!Launch
<1>1. /\ pc = "idle" /\ pc' = "pipe" /\ line' = l /\ first' = first + ncmds
      /\ UNCHANGED <<st, result>>
  BY DEF Start
<1>2. TypeOK' /\ ncmds' = Len(l) /\ Len(l) \in Nat /\ Len(l) >= 2 /\ first' \in Nat
  BY <1>1, StartType, LinesAssumption DEF IndInv, ncmds, TypeOK
<1>3. ASSUME NEW j \in 1..Len(l) PROVE st'[first' + j] = "none"
  <2>1. first' + j \in Children
    <3>1. first' + Len(l) <= MaxProcs
      BY <1>1, <1>2 DEF Start
    <3>2. QED
      BY <1>1, <1>2, <3>1, BoundsAssumption DEF Children
  <2>2. first' + j > first + ncmds
    BY <1>1, <1>2
  <2>3. QED
    BY <1>1, <2>1, <2>2 DEF IndInv, InvStatus
<1>4. Ended' = [j \in 1..Len(l) |-> -1]
  BY <1>1, <1>2, <1>3 DEF Ended
<1>5. Ended' \in Seq({-1}) /\ Len(Ended') = Len(l)
  BY <1>2, <1>4
<1>6. QED
  BY <1>1, <1>2, <1>5 DEF Contract!Launch, Contract!Alive

\* A step of the shell returns, gives up, or is invisible to the abstract pipeline.
LEMMA ShellStepMaps ==
  ASSUME IndInv, ShellStep
  PROVE  Contract!Return \/ Contract!GiveUp \/ UNCHANGED Contract!vars
<1> USE ShellFrame
<1>1. CASE PipeFails \/ ForkFails
  <2>1. pc # "idle" /\ pc' = "idle" /\ result' = 1
    BY <1>1 DEF PipeFails, ForkFails, GiveUp
  <2>2. Ended' = <<>>
    BY <2>1 DEF Ended
  <2>3. QED
    BY <2>1, <2>2 DEF Contract!GiveUp
<1>2. CASE OpenPipe \/ ParentCloses
  <2>1. pc # "idle" /\ pc' # "idle" /\ UNCHANGED <<st, raw, result>>
    BY <1>2 DEF OpenPipe, ParentCloses, shellVars
  <2>2. Ended' = Ended
    BY <2>1, EndedFrame
  <2>3. QED
    BY <2>1, <2>2 DEF Contract!vars
<1>3. CASE Fork
  <2>1. pc = "fork" /\ pc' # "idle" /\ UNCHANGED <<raw, result>>
        /\ st' = [st EXCEPT ![Stage(i)] = "setup"]
    BY <1>3 DEF Fork, shellVars
  <2>2. st[Stage(i)] = "none"
    BY <2>1 DEF IndInv, InvStatus, Forked
  <2>3. \A p \in Stages :
          st'[p] \in {"zombie", "reaped"} <=> st[p] \in {"zombie", "reaped"}
    BY <2>1, <2>2 DEF TypeOK
  <2>4. Ended' = Ended
    BY <2>1, <2>3, EndedFrame
  <2>5. QED
    BY <2>1, <2>4 DEF Contract!vars
<1>4. CASE Wait /\ ~IsLast(i)
  <2>1. pc = "wait" /\ pc' # "idle" /\ UNCHANGED <<raw, result>>
        /\ st[Stage(i)] = "zombie" /\ st' = [st EXCEPT ![Stage(i)] = "reaped"]
    BY <1>4 DEF Wait
  <2>2. \A p \in Stages :
          st'[p] \in {"zombie", "reaped"} <=> st[p] \in {"zombie", "reaped"}
    BY <2>1 DEF TypeOK
  <2>3. Ended' = Ended
    BY <2>1, <2>2, EndedFrame
  <2>4. QED
    BY <2>1, <2>3 DEF Contract!vars
<1>5. CASE Wait /\ IsLast(i)
  <2>1. pc = "wait" /\ pc' = "idle" /\ st[Stage(i)] = "zombie"
        /\ result' = FullCode(raw[Stage(i)])
    BY <1>5 DEF Wait
  <2>2. \A p \in Stages : st[p] \in {"zombie", "reaped"}
    <3>1. \A p \in Stages : p <= Stage(i)
      BY <1>5 DEF Stage, IsLast
    <3>2. QED
      BY <2>1, <3>1 DEF IndInv, InvStatus, Stage
  <2>3. Ended = [j \in 1..ncmds |-> FullCode(raw[first + j])]
    BY <2>1, <2>2, StageOfIndex DEF Ended
  <2>4. DOMAIN Ended = 1..ncmds /\ Len(Ended) = ncmds
    BY <2>3
  <2>5. \A j \in DOMAIN Ended : Ended[j] # -1
    BY <2>3, <2>4, StageOfIndex, CodesAreNat DEF TypeOK
  <2>6. result' = Ended[Len(Ended)]
    BY <1>5, <2>1, <2>3, <2>4 DEF Stage, IsLast
  <2>7. Ended' = <<>>
    BY <2>1 DEF Ended
  <2>8. QED
    BY <2>1, <2>5, <2>6, <2>7 DEF Contract!Return, Contract!Alive
<1>6. QED
  BY <1>1, <1>2, <1>3, <1>4, <1>5 DEF ShellStep

\* A step of a child ends one abstract command, or is invisible.
LEMMA ChildMaps ==
  ASSUME IndInv, NEW p \in Children, Progress(p) \/ EndsEarly(p)
  PROVE  (\E j \in DOMAIN Ended : Contract!CommandEnds(j)) \/ UNCHANGED Contract!vars
<1>1. TypeOK /\ TypeOK' /\ first \in Nat /\ ncmds \in Nat
  BY ChildStepType, StageFacts DEF IndInv, TypeOK
<1>2. UNCHANGED <<pc, line, first, result>> /\ UNCHANGED <<ncmds, Stages>>
  BY DEF Progress, EndsEarly, Connect, ReadUnit, EndOfFile, WriteUnit, BrokenPipe,
         BadDescriptor, Kept, shellVars, ncmds, Stages, Stage
<1>3. CASE pc = "idle"
  <2>1. Ended' = Ended
    BY <1>2, <1>3 DEF Ended
  <2>2. QED
    BY <1>2, <2>1 DEF Contract!vars
<1>4. st[p] \in {"setup", "run"}
  BY DEF Progress, EndsEarly, Connect, ReadUnit, EndOfFile, WriteUnit, BrokenPipe,
         BadDescriptor, Reads, Writes
<1>5. \/ UNCHANGED raw /\ (\A s \in Children : s # p => st'[s] = st[s])
         /\ st'[p] \in {"setup", "run"}
      \/ \E x \in Statuses : Dies(p, x)
  BY <1>1, <1>4 DEF Progress, EndsEarly, Connect, ReadUnit, EndOfFile, WriteUnit, Written,
         BrokenPipe, BadDescriptor, Statuses, TypeOK
<1>6. CASE pc # "idle" /\ UNCHANGED raw /\ (\A s \in Children : s # p => st'[s] = st[s])
           /\ st'[p] \in {"setup", "run"}
  <2>1. \A s \in Stages :
          st'[s] \in {"zombie", "reaped"} <=> st[s] \in {"zombie", "reaped"}
    <3>1. \A s \in Stages : s \in Children
      BY <1>1, StageFacts
    <3>2. QED
      BY <1>4, <1>6, <3>1
  <2>2. Ended' = Ended
    BY <1>1, <1>2, <1>6, <2>1, EndedFrame
  <2>3. QED
    BY <1>2, <2>2 DEF Contract!vars
<1>7. CASE pc # "idle" /\ \E x \in Statuses : Dies(p, x)
  <2>1. PICK x \in Statuses : Dies(p, x)
    BY <1>7
  <2>2. st' = [st EXCEPT ![p] = "zombie"] /\ raw' = [raw EXCEPT ![p] = x]
    BY <2>1 DEF Dies
  <2>3. /\ st \in [Children -> {"none", "setup", "run", "zombie", "reaped"}]
        /\ raw \in [Children -> Statuses]
    BY <1>1 DEF TypeOK
  <2>4. p <= first + ncmds
    BY <1>1, <1>4 DEF IndInv, InvStatus, Children
  <2>5. CASE p > first
    <3> DEFINE j == p - first
    <3>1. j \in 1..ncmds /\ first + j = p
      BY <1>1, <2>4, <2>5 DEF Children
    <3>2. Ended[j] = -1 /\ DOMAIN Ended = 1..ncmds
      BY <1>4, <1>7, <3>1 DEF Ended
    <3>3. Ended' = [Ended EXCEPT ![j] = FullCode(x)]
      <4>1. \A k \in 1..ncmds : k # j => first + k # p /\ first + k \in Children
        BY <1>1, <3>1, StageOfIndex
      <4>2. \A k \in 1..ncmds : k # j =>
              st'[first + k] = st[first + k] /\ raw'[first + k] = raw[first + k]
        BY <2>2, <2>3, <4>1
      <4>3. st'[first + j] = "zombie" /\ raw'[first + j] = x
        BY <2>2, <2>3, <3>1
      <4>4. Ended' = [k \in 1..ncmds |-> IF st'[first + k] \in {"zombie", "reaped"}
                                         THEN FullCode(raw'[first + k]) ELSE -1]
        BY <1>2, <1>7 DEF Ended
      <4>5. Ended = [k \in 1..ncmds |-> IF st[first + k] \in {"zombie", "reaped"}
                                        THEN FullCode(raw[first + k]) ELSE -1]
        BY <1>7 DEF Ended
      <4>6. QED
        BY <3>1, <4>2, <4>3, <4>4, <4>5
    <3>4. Contract!CommandEnds(j)
      BY <1>2, <1>7, <3>2, <3>3, <2>1 DEF Contract!CommandEnds, Contract!Alive
    <3>5. QED
      BY <3>1, <3>2, <3>4
  <2>6. CASE ~(p > first)
    <3>1. \A k \in 1..ncmds : first + k # p /\ first + k \in Children
      BY <1>1, <2>6, StageOfIndex DEF Children
    <3>2. Ended' = Ended
      BY <1>2, <2>2, <2>3, <3>1 DEF Ended
    <3>3. QED
      BY <1>2, <3>2 DEF Contract!vars
  <2>7. QED
    BY <2>5, <2>6
<1>8. QED
  BY <1>3, <1>5, <1>6, <1>7

\* A pipeline returns the code of its last command after all have ended, or
\* gives up: exec_pipeline implements the abstract pipeline.
THEOREM Implements == Spec => ImplementsContract
<1>1. Init => Contract!Init
  BY DEF Init, Contract!Init, Ended
<1>2. IndInv /\ [Next]_vars => [Contract!Next]_(Contract!vars)
  <2> SUFFICES ASSUME IndInv, [Next]_vars PROVE [Contract!Next]_(Contract!vars)
    OBVIOUS
  <2>1. CASE UNCHANGED vars
    BY <2>1 DEF vars, Contract!vars, Ended, ncmds
  <2>2. CASE \E l \in Lines : Start(l)
    BY <2>2, StartMaps DEF Contract!Next
  <2>3. CASE ShellStep
    BY <2>3, ShellStepMaps DEF Contract!Next
  <2>4. CASE \E p \in Children : Progress(p) \/ EndsEarly(p)
    BY <2>4, ChildMaps DEF Contract!Next
  <2>5. QED
    BY <2>1, <2>2, <2>3, <2>4 DEF Next, Prompt
<1>3. QED
  BY <1>1, <1>2, Inductive, PTL DEF Spec, ImplementsContract, Contract!Spec
=============================================================================
