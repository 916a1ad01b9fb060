----------------------------- MODULE ExecProofs ----------------------------
(***************************************************************************)
(* Exec, for every set of trees, any number of descriptors and of lines.   *)
(*                                                                         *)
(* Restored needs to know where dup and open find their descriptors: above *)
(* the standard ones, which are open in every process (Kept), so that what *)
(* restore_fds puts back is what was saved.  And a child that ends returns *)
(* to a parent that has been waiting for it since it forked (Waiting).     *)
(*                                                                         *)
(* The second half is about $?: set_code is called for a list, a line and  *)
(* nothing else, so that the last exit code of a process is behind         *)
(* whenever a call of exec_node has returned and nothing has stored its    *)
(* value yet; HistInv says where that is over before a command is          *)
(* expanded, and that it is not on the right of && and ||.                 *)
(***************************************************************************)
EXTENDS Exec, SequenceTheorems, WellFoundedInduction, TLAPS

-----------------------------------------------------------------------------
(* Descriptor tables. *)

\* The standard descriptors, which are open in every table below.
Standard == {0, 1, 2}
Open3(tab) == tab \in Tables /\ \A f \in Standard : tab[f] # "none"

LEMMA FdsDef == Fds \subseteq Nat /\ Standard \subseteq Fds
BY BoundsAssumption DEF Fds, Standard

\* There is a lowest free descriptor as soon as there is a free one.
LEMMA LowestIsFree ==
  ASSUME NEW tab, Free(tab) # {}
  PROVE  Lowest(tab) \in Free(tab)
<1>. DEFINE less == OpToRel(<, Nat)
            T == Free(tab)
<1>1. T \subseteq Nat /\ T # {}
  BY FdsDef DEF Free
<1>2. IsWellFoundedOn(less, Nat)
  BY NatLessThanWellFounded
<1>. HIDE DEF less, T
<1>3. PICK m \in T : \A k \in T : <<k, m>> \notin less
  BY <1>1, <1>2, WFMin
<1>. USE DEF less
<1>4. \A k \in T : ~(k < m)
  <2>. TAKE k \in T
  <2>1. k \in Nat /\ m \in Nat /\ <<k, m>> \notin less
    BY <1>1, <1>3
  <2>. QED BY <2>1 DEF OpToRel
<1>. HIDE DEF less
<1>5. \A k \in T : m <= k
  <2>. TAKE k \in T
  <2>1. k \in Nat /\ m \in Nat /\ ~(k < m)
    BY <1>1, <1>4
  <2>. QED BY <2>1
<1>. QED BY <1>5 DEF T, Lowest

\* What open and dup find is none of the standard descriptors, and nothing that was
\* open is closed or moved.
LEMMA OpenAbove ==
  ASSUME NEW tab, Open3(tab), Free(tab) # {}, NEW file \in Files \ {"none"}
  PROVE  /\ Open3(Open(tab, file))
         /\ Lowest(tab) \in Fds \ Standard /\ tab[Lowest(tab)] = "none"
         /\ Open(tab, file) = [tab EXCEPT ![Lowest(tab)] = file]
         /\ \A f \in Fds : tab[f] # "none" => Open(tab, file)[f] = tab[f]
<1>1. Lowest(tab) \in Fds /\ tab[Lowest(tab)] = "none"
  BY LowestIsFree DEF Free
<1>2. Lowest(tab) \notin Standard
  BY <1>1 DEF Open3
<1>. QED BY <1>1, <1>2, FdsDef DEF Open, Open3, Tables

LEMMA DupAbove ==
  ASSUME NEW tab, Open3(tab), NEW g \in {0, 1}
  PROVE  /\ Open3(Dup(tab, g))
         /\ \A f \in Fds : tab[f] # "none" => Dup(tab, g)[f] = tab[f]
         /\ Dup(tab, g) # tab =>
              /\ Lowest(tab) \in Fds \ Standard /\ tab[Lowest(tab)] = "none"
              /\ Dup(tab, g) = [tab EXCEPT ![Lowest(tab)] = tab[g]]
<1>1. g \in Standard /\ g \in Fds /\ tab[g] \in Files \ {"none"}
  BY FdsDef DEF Open3, Standard, Tables
<1>2. CASE Free(tab) = {}
  BY <1>2 DEF Dup
<1>3. CASE Free(tab) # {}
  <2>1. Dup(tab, g) = Open(tab, tab[g])
    BY <1>1, <1>3 DEF Dup
  <2>. QED BY <1>1, <1>3, <2>1, OpenAbove
<1>. QED BY <1>2, <1>3

\* Saving fills free descriptors only.
LEMMA SaveAbove ==
  ASSUME NEW tab, Open3(tab)
  PROVE  /\ Open3(Save(tab))
         /\ \A f \in Fds : tab[f] # "none" => Save(tab)[f] = tab[f]
<1>1. Open3(Dup(tab, 0)) /\ \A f \in Fds : tab[f] # "none" => Dup(tab, 0)[f] = tab[f]
  BY DupAbove
<1>2. /\ Open3(Save(tab))
      /\ \A f \in Fds : Dup(tab, 0)[f] # "none" => Save(tab)[f] = Dup(tab, 0)[f]
  BY <1>1, DupAbove DEF Save
<1>. QED BY <1>1, <1>2

\* Redirections change the table at the places they are for, and close nothing.
LEMMA ApplyKeeps ==
  ASSUME NEW tab, Open3(tab), NEW redirs \in Seq(Redirections), NEW bad
  PROVE  LET a == Apply(tab, redirs, bad)
         IN /\ Open3(a.tab)
            /\ \A f \in Fds \ {0, 1} : a.tab[f] = tab[f]
            /\ a.res \in {"ok", "failed", "stuck"}
<1>. DEFINE a == Apply(tab, redirs, bad)
            stops == Stops(tab, redirs, bad)
            to(f) == {k \in DOMAIN redirs : redirs[k].to = f /\ \A j \in stops : k < j}
<1>1. a.tab = [f \in Fds |-> IF to(f) = {} THEN tab[f] ELSE Opened(redirs[Greatest(to(f))])]
  BY DEF Apply
<1>2. a.res \in {"ok", "failed", "stuck"}
  BY DEF Apply
<1>3. \A f \in Fds \ {0, 1} : to(f) = {}
  <2>. SUFFICES ASSUME NEW k \in DOMAIN redirs PROVE redirs[k].to \in {0, 1}
    OBVIOUS
  <2>1. redirs[k] \in Redirections
    OBVIOUS
  <2>. QED BY <2>1 DEF Redirections
<1>4. \A r : Opened(r) \in Files \ {"none"}
  BY DEF Opened, Files
<1>. HIDE DEF a, to
<1>5. \A f \in Fds : a.tab[f] = IF to(f) = {} THEN tab[f] ELSE Opened(redirs[Greatest(to(f))])
  BY <1>1
<1>6. a.tab \in Tables
  <2>1. \A f \in Fds : tab[f] \in Files
    BY DEF Open3, Tables
  <2>2. \A f \in Fds : a.tab[f] \in Files
    BY <1>4, <1>5, <2>1
  <2>. QED BY <1>1, <2>2 DEF Tables
<1>7. \A f \in Standard : a.tab[f] # "none"
  BY <1>4, <1>5, FdsDef DEF Open3
<1>8. \A f \in Fds \ {0, 1} : a.tab[f] = tab[f]
  BY <1>3, <1>5
<1>. QED BY <1>2, <1>6, <1>7, <1>8 DEF Open3, a

\* restore_fds undoes them: standard input and output were saved above, where no
\* redirection reaches, and the two descriptors were free.
LEMMA RestoreUndoes ==
  ASSUME NEW tab, Open3(tab), CanSave(tab), NEW redirs \in Seq(Redirections), NEW bad
  PROVE  Restore(Apply(Save(tab), redirs, bad).tab, tab) = tab
<1>. DEFINE one == Dup(tab, 0)
            x == SavedIn(tab)
            y == SavedOut(tab)
            new == Apply(Save(tab), redirs, bad).tab
<1>1. /\ Open3(one) /\ x \in Fds \ Standard /\ tab[x] = "none"
      /\ one = [tab EXCEPT ![x] = tab[0]]
  BY DupAbove DEF CanSave, SavedIn
<1>2. /\ y \in Fds \ Standard /\ one[y] = "none"
      /\ Save(tab) = [one EXCEPT ![y] = one[1]]
  BY <1>1, DupAbove DEF CanSave, SavedOut, Save
<1>3. /\ Open3(new)
      /\ \A f \in Fds \ {0, 1} : new[f] = Save(tab)[f]
  BY SaveAbove, ApplyKeeps
<1>4. tab \in [Fds -> Files] /\ new \in [Fds -> Files] /\ one \in [Fds -> Files]
  BY <1>1, <1>3 DEF Open3, Tables
<1>5. {0, 1} \subseteq Fds /\ x \notin {0, 1} /\ y \notin {0, 1} /\ tab[0] # "none"
  BY <1>1, <1>2, FdsDef DEF Standard, Open3
<1>6. Restore(new, tab) =
        [[[new EXCEPT ![0] = new[x]]
             EXCEPT ![1] = [new EXCEPT ![0] = new[x]][y]]
                EXCEPT ![x] = "none", ![y] = "none"]
  BY DEF Restore
<1>. HIDE DEF one, x, y, new
<1>7. x # y
  BY <1>1, <1>2, <1>4, <1>5
<1>8. new[x] = tab[0] /\ new[y] = tab[1] /\ tab[y] = "none"
  BY <1>1, <1>2, <1>3, <1>4, <1>5, <1>7
<1>9. \A f \in Fds \ {0, 1, x, y} : new[f] = tab[f]
  BY <1>1, <1>2, <1>3, <1>4, <1>5, <1>7
<1>10. Restore(new, tab) \in [Fds -> Files]
  BY <1>4, <1>5, <1>6, <1>1, <1>2, <1>8 DEF Files
<1>11. \A f \in Fds : Restore(new, tab)[f] = tab[f]
  BY <1>1, <1>4, <1>5, <1>6, <1>7, <1>8, <1>9
<1>. QED BY <1>4, <1>10, <1>11 DEF new

\* A stage's standard descriptors are open as its parent's are.
LEMMA ConnectKeeps ==
  ASSUME NEW tab, Open3(tab), NEW first \in BOOLEAN, NEW last \in BOOLEAN
  PROVE  Open3(Connect(tab, first, last))
<1>1. tab \in [Fds -> Files] /\ {0, 1, 2} \subseteq Fds
  BY FdsDef DEF Open3, Tables, Standard
<1>2. Connect(tab, first, last) =
        [tab EXCEPT ![0] = IF first THEN tab[0] ELSE "pipe",
                    ![1] = IF last THEN tab[1] ELSE "pipe"]
  BY <1>1 DEF Connect
<1>. QED BY <1>1, <1>2 DEF Open3, Tables, Standard, Files

-----------------------------------------------------------------------------
(* Processes. *)

\* A pipeline that is run has a next stage.
GoodFrames == {f \in Frames : Nodes[f.node].op = "pipe" => f.i <= Len(Nodes[f.node].kids)}

\* A process holds what it began with, standard descriptors and, if none are lost,
\* the others.
Holds(tab, base, lost) ==
  /\ Open3(base) /\ Open3(tab)
  /\ \A f \in Fds : f <= 2 \/ ~lost => tab[f] = base[f]
Kept(p) == Holds(p.tab, p.base, p.lost)
GoodProcesses == {p \in Processes : p.stack \in Seq(GoodFrames) /\ Kept(p)}

LEMMA NodesDef ==
  ASSUME NEW n \in DOMAIN Nodes
  PROVE  /\ Nodes[n] \in NodeType /\ Nodes[n].op \in Ops /\ Nodes[n].prog \in Progs
         /\ Nodes[n].redirs \in Seq(Redirections)
         /\ Nodes[n].kids \in Seq(Nat) /\ Len(Nodes[n].kids) \in Nat
         /\ Len(Nodes[n].kids) \in Arity(Nodes[n].op)
         /\ \A k \in 1..Len(Nodes[n].kids) : Nodes[n].kids[k] \in DOMAIN Nodes
<1>1. Nodes[n] \in NodeType
  BY NodesAssumption
<1>. QED BY <1>1, NodesAssumption DEF NodeType

LEMMA FramesDef ==
  ASSUME NEW f \in GoodFrames
  PROVE  f \in Frames /\ f.node \in DOMAIN Nodes /\ f.at \in Ats /\ f.i \in Nat \ {0}
BY DEF GoodFrames, Frames

LEMMA ProcessesDef ==
  ASSUME NEW p \in GoodProcesses
  PROVE  /\ p \in Processes /\ p.stack \in Seq(GoodFrames) /\ Kept(p) /\ Open3(p.tab)
         /\ Len(p.stack) \in Nat
         /\ p.ret \in {None} \cup 0..255 /\ p.code \in 0..255 /\ p.tab \in Tables
         /\ p.base \in Tables /\ p.lost \in BOOLEAN /\ p.last \in 0..255 /\ p.seen \in 0..255
<1>1. p \in Processes /\ p.stack \in Seq(GoodFrames) /\ Kept(p)
  BY DEF GoodProcesses
<1>. QED BY <1>1 DEF Processes, Kept, Holds

\* The call of a node is a frame, at its first stage if it is a pipeline.
LEMMA FrameGood ==
  ASSUME NEW n \in DOMAIN Nodes
  PROVE  Frame(n) \in GoodFrames
<1>1. Nodes[n].op = "pipe" => 1 <= Len(Nodes[n].kids)
  BY NodesDef DEF Arity
<1>2. Frame(n) \in Frames /\ Frame(n).node = n /\ Frame(n).i = 1
  BY DEF Frame, Frames, Ats
<1>. QED BY <1>1, <1>2 DEF GoodFrames

\* The last element of a sequence, and what is in front of it.
LEMMA TopPop ==
  ASSUME NEW S, NEW s \in Seq(S), s # <<>>
  PROVE  /\ Top(s) \in S /\ Pop(s) \in Seq(S)
         /\ Len(s) \in 1..Len(s) /\ Len(Pop(s)) = Len(s) - 1
         /\ \A k \in 1..Len(Pop(s)) : Pop(s)[k] = s[k]
<1>1. Len(s) \in Nat \ {0} /\ \A k \in 1..Len(s) : s[k] \in S
  BY EmptySeq, ElementOfSeq
<1>2. /\ SubSeq(s, 1, Len(s) - 1) \in Seq(S)
      /\ Len(SubSeq(s, 1, Len(s) - 1)) = IF 1 <= Len(s) - 1 THEN Len(s) - 1 ELSE 0
      /\ \A k \in 1..Len(s) - 1 : SubSeq(s, 1, Len(s) - 1)[k] = s[k]
  <2>. DEFINE n == Len(s) - 1
  <2>1. 1 \in Int /\ n \in Int /\ \A k \in 1..n : s[k] \in S
    BY <1>1
  <2>. HIDE DEF n
  <2>2. /\ SubSeq(s, 1, n) \in Seq(S)
        /\ Len(SubSeq(s, 1, n)) = IF 1 <= n THEN n - 1 + 1 ELSE 0
        /\ \A k \in 1..n - 1 + 1 : SubSeq(s, 1, n)[k] = s[1 + k - 1]
    BY <2>1, SubSeqProperties
  <2>3. \A k \in 1..n : 1 + k - 1 = k /\ k \in 1..n - 1 + 1
    BY <2>1
  <2>4. n - 1 + 1 = n
    BY <2>1
  <2>. QED BY <2>2, <2>3, <2>4 DEF n
<1>3. Top(s) \in S /\ Len(s) \in 1..Len(s)
  BY <1>1 DEF Top
<1>4. /\ Pop(s) \in Seq(S)
      /\ Len(Pop(s)) = IF 1 <= Len(s) - 1 THEN Len(s) - 1 ELSE 0
      /\ \A k \in 1..Len(s) - 1 : Pop(s)[k] = s[k]
  BY <1>2 DEF Pop
<1>5. Len(Pop(s)) = Len(s) - 1
  <2>. DEFINE m == Len(s)
  <2>1. m \in Nat \ {0} /\ Len(Pop(s)) = IF 1 <= m - 1 THEN m - 1 ELSE 0
    BY <1>1, <1>4
  <2>. HIDE DEF m
  <2>2. (IF 1 <= m - 1 THEN m - 1 ELSE 0) = m - 1
    BY <2>1
  <2>. QED BY <2>1, <2>2 DEF m
<1>. QED BY <1>3, <1>4, <1>5

LEMMA ReplaceLast ==
  ASSUME NEW S, NEW s \in Seq(S), s # <<>>, NEW e \in S
  PROVE  /\ [s EXCEPT ![Len(s)] = e] \in Seq(S)
         /\ Len([s EXCEPT ![Len(s)] = e]) = Len(s)
         /\ Len(s) \in 1..Len(s)
         /\ \A k \in 1..Len(s) : [s EXCEPT ![Len(s)] = e][k] = IF k = Len(s) THEN e ELSE s[k]
<1>1. Len(s) \in 1..Len(s)
  BY EmptySeq
<1>. QED BY <1>1, ExceptSeq

\* A process is made of its components.
Process(s, r, c, t, b, lo, la, se) ==
  [stack |-> s, ret |-> r, code |-> c, tab |-> t, base |-> b, lost |-> lo, last |-> la, seen |-> se]

Parts(s, r, c, t, b, lo, la, se) ==
  /\ s \in Seq(GoodFrames) /\ r \in {None} \cup 0..255 /\ c \in 0..255
  /\ lo \in BOOLEAN /\ la \in 0..255 /\ se \in 0..255 /\ Holds(t, b, lo)

LEMMA ProcessIs ==
  ASSUME NEW s, NEW r, NEW c, NEW t, NEW b, NEW lo, NEW la, NEW se,
         Parts(s, r, c, t, b, lo, la, se)
  PROVE  /\ Process(s, r, c, t, b, lo, la, se) \in GoodProcesses
         /\ Process(s, r, c, t, b, lo, la, se).stack = s
         /\ Process(s, r, c, t, b, lo, la, se).ret = r
<1>. DEFINE p == Process(s, r, c, t, b, lo, la, se)
<1>1. s \in Seq(Frames)
  BY SeqMonotonic DEF GoodFrames, Parts
<1>2. t \in Tables /\ b \in Tables
  BY DEF Holds, Open3, Parts
<1>3. p \in Processes
  BY <1>1, <1>2 DEF Processes, Process, Parts
<1>4. p.stack = s /\ p.ret = r /\ p.tab = t /\ p.base = b /\ p.lost = lo
  BY DEF Process
<1>. HIDE DEF p
<1>5. Kept(p)
  BY <1>4 DEF Kept, Parts
<1>6. p \in GoodProcesses
  BY <1>3, <1>4, <1>5 DEF GoodProcesses, Parts
<1>. QED BY <1>4, <1>6 DEF p

LEMMA ProcessOf ==
  ASSUME NEW p \in GoodProcesses
  PROVE  p = Process(p.stack, p.ret, p.code, p.tab, p.base, p.lost, p.last, p.seen)
<1>1. p \in Processes
  BY ProcessesDef
<1>. QED BY <1>1 DEF Processes, Process

\* The parts of a process that a step may leave changed.
LEMMA SetCode ==
  ASSUME NEW p \in GoodProcesses, NEW c \in 0..255
  PROVE  /\ [p EXCEPT !.code = c] \in GoodProcesses /\ [p EXCEPT !.code = c].stack = p.stack
         /\ [p EXCEPT !.code = c].ret = p.ret
<1>1. [p EXCEPT !.code = c] = Process(p.stack, p.ret, c, p.tab, p.base, p.lost, p.last, p.seen)
  BY ProcessOf DEF Process
<1>2. Parts(p.stack, p.ret, c, p.tab, p.base, p.lost, p.last, p.seen)
  BY ProcessesDef DEF Kept, Parts
<1>. QED BY <1>1, <1>2, ProcessIs
LEMMA SetSeen ==
  ASSUME NEW p \in GoodProcesses, NEW c \in 0..255
  PROVE  [p EXCEPT !.seen = c] \in GoodProcesses /\ [p EXCEPT !.seen = c].stack = p.stack
<1>1. [p EXCEPT !.seen = c] = Process(p.stack, p.ret, p.code, p.tab, p.base, p.lost, p.last, c)
  BY ProcessOf DEF Process
<1>2. Parts(p.stack, p.ret, p.code, p.tab, p.base, p.lost, p.last, c)
  BY ProcessesDef DEF Kept, Parts
<1>. QED BY <1>1, <1>2, ProcessIs
LEMMA SetLast ==
  ASSUME NEW p \in GoodProcesses, NEW c \in 0..255
  PROVE  [p EXCEPT !.last = c] \in GoodProcesses /\ [p EXCEPT !.last = c].stack = p.stack
<1>1. [p EXCEPT !.last = c] = Process(p.stack, p.ret, p.code, p.tab, p.base, p.lost, c, p.seen)
  BY ProcessOf DEF Process
<1>2. Parts(p.stack, p.ret, p.code, p.tab, p.base, p.lost, c, p.seen)
  BY ProcessesDef DEF Kept, Parts
<1>. QED BY <1>1, <1>2, ProcessIs
LEMMA SetStack ==
  ASSUME NEW p \in GoodProcesses, NEW s \in Seq(GoodFrames)
  PROVE  /\ [p EXCEPT !.stack = s] \in GoodProcesses /\ [p EXCEPT !.stack = s].stack = s
         /\ [p EXCEPT !.stack = s].ret = p.ret
<1>1. [p EXCEPT !.stack = s] = Process(s, p.ret, p.code, p.tab, p.base, p.lost, p.last, p.seen)
  BY ProcessOf DEF Process
<1>2. Parts(s, p.ret, p.code, p.tab, p.base, p.lost, p.last, p.seen)
  BY ProcessesDef DEF Kept, Parts
<1>. QED BY <1>1, <1>2, ProcessIs
LEMMA SetRet ==
  ASSUME NEW p \in GoodProcesses, NEW r \in {None} \cup 0..255
  PROVE  /\ [p EXCEPT !.ret = r] \in GoodProcesses /\ [p EXCEPT !.ret = r].stack = p.stack
         /\ [p EXCEPT !.ret = r].ret = r
<1>1. [p EXCEPT !.ret = r] = Process(p.stack, r, p.code, p.tab, p.base, p.lost, p.last, p.seen)
  BY ProcessOf DEF Process
<1>2. Parts(p.stack, r, p.code, p.tab, p.base, p.lost, p.last, p.seen)
  BY ProcessesDef DEF Kept, Parts
<1>. QED BY <1>1, <1>2, ProcessIs

\* A process with another stack and another return value.
WithCalls(p, s, r) == [p EXCEPT !.stack = s, !.ret = r]
LEMMA SetStackRet ==
  ASSUME NEW p \in GoodProcesses, NEW s \in Seq(GoodFrames), NEW r \in {None} \cup 0..255
  PROVE  /\ WithCalls(p, s, r) \in GoodProcesses
         /\ WithCalls(p, s, r).stack = s /\ WithCalls(p, s, r).ret = r
<1>. DEFINE q == [p EXCEPT !.stack = s]
<1>1. p \in Processes
  BY ProcessesDef
<1>2. WithCalls(p, s, r) = [q EXCEPT !.ret = r]
  BY <1>1 DEF Processes, WithCalls
<1>3. q \in GoodProcesses /\ q.stack = s
  BY SetStack
<1>. HIDE DEF q
<1>4. /\ [q EXCEPT !.ret = r] \in GoodProcesses /\ [q EXCEPT !.ret = r].stack = s
      /\ [q EXCEPT !.ret = r].ret = r
  BY <1>3, SetRet
<1>. QED BY <1>2, <1>4

\* Descriptors that are opened and kept count as lost.
LEMMA SetTab ==
  ASSUME NEW p \in GoodProcesses, NEW t, Open3(t),
         \A f \in Fds : p.tab[f] # "none" => t[f] = p.tab[f]
  PROVE  LET q == [p EXCEPT !.tab = t, !.lost = @ \/ t # p.tab]
         IN q \in GoodProcesses /\ q.stack = p.stack
<1>. DEFINE l == p.lost \/ t # p.tab
            q == [p EXCEPT !.tab = t]
            new == Process(p.stack, p.ret, p.code, t, p.base, l, p.last, p.seen)
<1>1. l \in BOOLEAN /\ (~l => ~p.lost /\ t = p.tab) /\ p \in Processes
  BY ProcessesDef
<1>2. [p EXCEPT !.tab = t, !.lost = @ \/ t # p.tab] = [q EXCEPT !.lost = l]
  BY <1>1 DEF Processes
<1>3. q = Process(p.stack, p.ret, p.code, t, p.base, p.lost, p.last, p.seen)
  BY ProcessOf DEF Process
<1>. HIDE DEF l, q
<1>4. [q EXCEPT !.lost = l] = new
  BY <1>3 DEF Process
<1>. HIDE DEF new
<1>5. Holds(t, p.base, l)
  <2>1. Holds(p.tab, p.base, p.lost)
    BY ProcessesDef DEF Kept
  <2>2. \A f \in Fds : f <= 2 \/ ~l => t[f] = p.base[f]
    <3>. SUFFICES ASSUME NEW f \in Fds, f <= 2 \/ ~l PROVE t[f] = p.base[f]
      OBVIOUS
    <3>1. CASE ~l
      BY <1>1, <2>1, <3>1 DEF Holds
    <3>2. CASE f <= 2
      <4>1. f \in Standard
        BY <3>2, FdsDef DEF Standard
      <4>2. p.tab[f] # "none" /\ p.tab[f] = p.base[f]
        BY <2>1, <3>2, <4>1 DEF Holds, Open3
      <4>. QED BY <4>2
    <3>. QED BY <3>1, <3>2
  <2>. QED BY <2>1, <2>2 DEF Holds
<1>6. Parts(p.stack, p.ret, p.code, t, p.base, l, p.last, p.seen)
  BY <1>1, <1>5, ProcessesDef DEF Parts
<1>7. new \in GoodProcesses /\ new.stack = p.stack
  BY <1>6, ProcessIs DEF new
<1>. QED BY <1>2, <1>4, <1>7

\* A table that is put back loses nothing.
LEMMA SameTab ==
  ASSUME NEW p \in GoodProcesses
  PROVE  [p EXCEPT !.tab = p.tab] = p
BY ProcessesDef DEF Processes

-----------------------------------------------------------------------------
(* The calls of exec_node. *)

\* The innermost call goes on to another point.
LEMMA GotoGood ==
  ASSUME NEW p \in GoodProcesses, p.stack # <<>>, NEW at \in Ats
  PROVE  /\ Goto(p, at) \in GoodProcesses /\ Goto(p, at).ret = p.ret
         /\ Goto(p, at).stack # <<>> /\ Len(Goto(p, at).stack) = Len(p.stack)
         /\ Top(Goto(p, at).stack) = [Top(p.stack) EXCEPT !.at = at]
<1>. DEFINE n == Len(p.stack)
            f == [Top(p.stack) EXCEPT !.at = at]
            s == [p.stack EXCEPT ![n] = f]
<1>1. p.stack \in Seq(GoodFrames)
  BY ProcessesDef
<1>2. Top(p.stack) \in GoodFrames
  BY <1>1, TopPop
<1>3. f \in GoodFrames
  BY <1>2, FramesDef DEF GoodFrames, Frames
<1>4. Goto(p, at) = [p EXCEPT !.stack = s]
  BY DEF Goto, Top
<1>. HIDE DEF f
<1>5. s \in Seq(GoodFrames) /\ Len(s) = n /\ n \in 1..n /\ s[n] = f
  BY <1>1, <1>3, ReplaceLast
<1>. HIDE DEF s
<1>6. s # <<>> /\ Top(s) = f
  BY <1>5 DEF Top
<1>7. [p EXCEPT !.stack = s] \in GoodProcesses /\ [p EXCEPT !.stack = s].stack = s
      /\ [p EXCEPT !.stack = s].ret = p.ret
  BY <1>5, SetStack
<1>. QED BY <1>4, <1>5, <1>6, <1>7 DEF f

LEMMA CallGood ==
  ASSUME NEW p \in GoodProcesses, p.stack # <<>>, NEW at \in Ats, NEW n \in DOMAIN Nodes
  PROVE  Call(p, at, n) \in GoodProcesses /\ Call(p, at, n).stack # <<>>
<1>. DEFINE g == Goto(p, at)
            s == Append(g.stack, Frame(n))
<1>1. g \in GoodProcesses
  BY GotoGood
<1>2. Call(p, at, n) = WithCalls(g, s, None)
  BY DEF Call, WithCalls
<1>. HIDE DEF g
<1>3. g.stack \in Seq(GoodFrames) /\ Frame(n) \in GoodFrames
  BY <1>1, ProcessesDef, FrameGood
<1>4. s \in Seq(GoodFrames) /\ s # <<>>
  BY <1>3
<1>5. None \in {None} \cup 0..255
  OBVIOUS
<1>. HIDE DEF s
<1>6. WithCalls(g, s, None) \in GoodProcesses /\ WithCalls(g, s, None).stack = s
  BY <1>1, <1>4, <1>5, SetStackRet
<1>. QED BY <1>2, <1>4, <1>6

LEMMA ReturnGood ==
  ASSUME NEW p \in GoodProcesses, p.stack # <<>>, NEW c \in 0..255
  PROVE  Return(p, c) \in GoodProcesses /\ Complete(p, c) \in GoodProcesses
<1>1. Pop(p.stack) \in Seq(GoodFrames)
  BY ProcessesDef, TopPop
<1>2. Return(p, c) = WithCalls(p, Pop(p.stack), c)
  BY DEF Return, WithCalls
<1>3. c \in {None} \cup 0..255
  OBVIOUS
<1>4. Return(p, c) \in GoodProcesses
  <2>1. WithCalls(p, Pop(p.stack), c) \in GoodProcesses
    BY <1>1, <1>3, SetStackRet
  <2>. QED BY <1>2, <2>1
<1>. QED BY <1>4, SetLast DEF Complete

\* A pipeline that has not run its last stage goes on with the next one.
LEMMA NextStageGood ==
  ASSUME NEW p \in GoodProcesses, p.stack # <<>>,
         Top(p.stack).i # Len(Nodes[Top(p.stack).node].kids)
  PROVE  [Goto(p, "start") EXCEPT !.stack[Len(p.stack)].i = @ + 1] \in GoodProcesses
<1>. DEFINE g == Goto(p, "start")
            n == Len(g.stack)
            f == [Top(g.stack) EXCEPT !.i = @ + 1]
            s == [g.stack EXCEPT ![n] = f]
            t == Top(p.stack)
<1>1. g \in GoodProcesses /\ g.stack # <<>> /\ n = Len(p.stack)
      /\ Top(g.stack) = [t EXCEPT !.at = "start"]
  BY GotoGood DEF Ats
<1>2. t \in GoodFrames /\ g.stack \in Seq(GoodFrames)
  BY <1>1, ProcessesDef, TopPop
<1>3. t \in Frames /\ t.node \in DOMAIN Nodes /\ t.i \in Nat \ {0}
  BY <1>2, FramesDef
<1>4. Top(g.stack).i = t.i
  BY <1>1, <1>3 DEF Frames
<1>5. [g EXCEPT !.stack[Len(p.stack)].i = @ + 1] = [g EXCEPT !.stack = s]
  BY <1>1 DEF Top
<1>6. f = [node |-> t.node, at |-> "start", i |-> t.i + 1]
  BY <1>1, <1>3 DEF Frames
<1>. HIDE DEF g, f, t
<1>7. Len(Nodes[t.node].kids) \in Nat /\ t.i # Len(Nodes[t.node].kids)
  BY <1>3, NodesDef DEF t
<1>8. f \in Frames /\ f.node = t.node /\ f.i = t.i + 1
  BY <1>3, <1>6 DEF Frames, Ats
<1>9. f \in GoodFrames
  <2>1. Nodes[t.node].op = "pipe" => t.i <= Len(Nodes[t.node].kids)
    BY <1>2 DEF GoodFrames
  <2>2. Nodes[t.node].op = "pipe" => t.i + 1 <= Len(Nodes[t.node].kids)
    BY <1>3, <1>7, <2>1
  <2>. QED BY <1>8, <2>2 DEF GoodFrames
<1>10. s \in Seq(GoodFrames)
  BY <1>1, <1>2, <1>9, ReplaceLast
<1>. HIDE DEF s
<1>11. [g EXCEPT !.stack = s] \in GoodProcesses
  BY <1>1, <1>10, SetStack
<1>. QED BY <1>5, <1>11 DEF g

\* A child begins with the table it is given, and has lost nothing.
LEMMA ChildGood ==
  ASSUME NEW p \in GoodProcesses, NEW t, Open3(t), NEW n \in DOMAIN Nodes
  PROVE  [p EXCEPT !.stack = <<Frame(n)>>, !.ret = None, !.tab = t, !.base = t, !.lost = FALSE]
           \in GoodProcesses
<1>. DEFINE s == <<Frame(n)>>
            q == WithCalls(p, s, None)
            one == [q EXCEPT !.tab = t]
            two == [one EXCEPT !.base = t]
            new == Process(s, None, q.code, t, t, FALSE, q.last, q.seen)
<1>1. s \in Seq(GoodFrames) /\ p \in Processes
  BY FrameGood, ProcessesDef
<1>2. [p EXCEPT !.stack = s, !.ret = None, !.tab = t, !.base = t, !.lost = FALSE] =
        [two EXCEPT !.lost = FALSE]
  BY <1>1 DEF Processes, WithCalls
<1>. HIDE DEF s
<1>3. None \in {None} \cup 0..255 /\ FALSE \in BOOLEAN
  OBVIOUS
<1>4. q \in GoodProcesses /\ q.stack = s /\ q.ret = None
  BY <1>1, <1>3, SetStackRet
<1>. HIDE DEF q
<1>5. one = Process(s, None, q.code, t, q.base, q.lost, q.last, q.seen)
  BY <1>4, ProcessOf DEF Process
<1>. HIDE DEF one
<1>6. two = Process(s, None, q.code, t, t, q.lost, q.last, q.seen)
  BY <1>5 DEF Process
<1>. HIDE DEF two
<1>7. \A lo \in BOOLEAN :
        [two EXCEPT !.lost = lo] = Process(s, None, q.code, t, t, lo, q.last, q.seen)
  BY <1>6 DEF Process
<1>8. [two EXCEPT !.lost = FALSE] = new
  BY <1>3, <1>7, Zenon
<1>9. Parts(s, None, q.code, t, t, FALSE, q.last, q.seen)
  <2>1. \A lo \in BOOLEAN : Parts(s, None, q.code, t, t, lo, q.last, q.seen)
    BY <1>1, <1>3, <1>4, ProcessesDef DEF Parts, Holds
  <2>. QED BY <1>3, <2>1, Zenon
<1>10. new \in GoodProcesses
  BY <1>9, ProcessIs, Zenon
<1>. QED BY <1>2, <1>8, <1>10 DEF s

-----------------------------------------------------------------------------
(* The processes. *)

\* Each process but the last waits for its child, in a call that has not returned.
ProcsInv(ps) ==
  /\ ps \in Seq(GoodProcesses)
  /\ \A k \in 1..Len(ps) - 1 : ps[k].stack # <<>>

LEMMA TopGood ==
  ASSUME ProcsInv(procs), procs # <<>>
  PROVE  P \in GoodProcesses
BY TopPop DEF ProcsInv, P

LEMMA SetInv ==
  ASSUME ProcsInv(procs), procs # <<>>, NEW p \in GoodProcesses
  PROVE  ProcsInv(Set(p)) /\ Len(Set(p)) = Len(procs) /\ Set(p)[Len(procs)] = p
<1>1. procs \in Seq(GoodProcesses) /\ Len(procs) \in Nat
  BY DEF ProcsInv
<1>2. /\ Set(p) \in Seq(GoodProcesses) /\ Len(Set(p)) = Len(procs) /\ Len(procs) \in 1..Len(procs)
      /\ \A k \in 1..Len(procs) : Set(p)[k] = IF k = Len(procs) THEN p ELSE procs[k]
  BY <1>1, ReplaceLast DEF Set
<1>. HIDE DEF Set
<1>3. \A k \in 1..Len(Set(p)) - 1 : Set(p)[k].stack # <<>>
  <2>. SUFFICES ASSUME NEW k \in 1..Len(procs) - 1 PROVE Set(p)[k].stack # <<>>
    BY <1>2
  <2>1. k \in 1..Len(procs) /\ k # Len(procs)
    BY <1>1
  <2>2. Set(p)[k] = procs[k]
    BY <1>2, <2>1
  <2>. QED BY <2>2 DEF ProcsInv
<1>. QED BY <1>2, <1>3 DEF ProcsInv

LEMMA ForkInv ==
  ASSUME ProcsInv(procs), procs # <<>>, P.stack # <<>>, NEW t, Open3(t), NEW n \in DOMAIN Nodes
  PROVE  ProcsInv(Fork(P, t, n))
<1>. DEFINE child == [P EXCEPT !.stack = <<Frame(n)>>, !.ret = None, !.tab = t, !.base = t,
                               !.lost = FALSE]
            g == Goto(P, "wait")
            ps == Set(g)
<1>1. child \in GoodProcesses
  BY TopGood, ChildGood
<1>2. g \in GoodProcesses /\ g.stack # <<>>
  BY TopGood, GotoGood DEF Ats
<1>3. Fork(P, t, n) = Append(ps, child)
  BY DEF Fork
<1>. HIDE DEF child, g
<1>4. ProcsInv(ps) /\ Len(ps) = Len(procs) /\ ps[Len(procs)] = g
  BY <1>2, SetInv
<1>. HIDE DEF ps
<1>5. ps \in Seq(GoodProcesses) /\ Len(ps) \in Nat
  BY <1>4 DEF ProcsInv
<1>6. /\ Append(ps, child) \in Seq(GoodProcesses) /\ Len(Append(ps, child)) = Len(ps) + 1
      /\ \A k \in 1..Len(ps) : Append(ps, child)[k] = ps[k]
  BY <1>1, <1>5
<1>. DEFINE new == Append(ps, child)
<1>. HIDE DEF new
<1>7. \A k \in 1..Len(new) - 1 : new[k].stack # <<>>
  <2>. SUFFICES ASSUME NEW k \in 1..Len(ps) PROVE new[k].stack # <<>>
    BY <1>5, <1>6 DEF new
  <2>1. new[k] = ps[k]
    BY <1>6 DEF new
  <2>2. CASE k = Len(ps)
    BY <1>2, <1>4, <2>1, <2>2
  <2>3. CASE k # Len(ps)
    <3>1. k \in 1..Len(ps) - 1
      BY <1>5, <2>3
    <3>. QED BY <1>4, <2>1, <3>1 DEF ProcsInv
  <2>. QED BY <2>2, <2>3
<1>. QED BY <1>3, <1>6, <1>7 DEF ProcsInv, new

\* The parent of a process that has ended takes its status and goes on.
LEMMA EndedInv ==
  ASSUME NEW ps, ProcsInv(ps), ps # <<>>, NEW c \in 0..255, NEW sig \in BOOLEAN
  PROVE  ProcsInv(Ended(ps, c, sig))
<1>1. ps \in Seq(GoodProcesses) /\ Len(ps) \in Nat \ {0}
  BY EmptySeq DEF ProcsInv
<1>2. CASE Len(ps) = 1
  <2>1. Ended(ps, c, sig) = <<>>
    BY <1>2 DEF Ended
  <2>2. <<>> \in Seq(GoodProcesses) /\ Len(<<>>) = 0
    BY EmptySeq
  <2>. QED BY <2>1, <2>2 DEF ProcsInv
<1>3. CASE Len(ps) # 1
  <2>. DEFINE rest == Pop(ps)
              p == Top(rest)
              f == Top(p.stack)
              n == Nodes[f.node]
              sub == Complete(p, SubshellStatus(c, sig))
              done == Complete(p, IF sig THEN 137 ELSE c)
              next == [Goto(p, "start") EXCEPT !.stack[Len(p.stack)].i = @ + 1]
              new == IF n.op = "sub" THEN sub
                     ELSE IF f.i = Len(n.kids) THEN done ELSE next
  <2>1. /\ rest \in Seq(GoodProcesses) /\ Len(rest) = Len(ps) - 1
        /\ \A k \in 1..Len(rest) : rest[k] = ps[k]
    BY <1>1, TopPop
  <2>2. Ended(ps, c, sig) = [rest EXCEPT ![Len(rest)] = new]
    BY <1>3, <2>1 DEF Ended
  <2>. HIDE DEF rest
  <2>3. rest # <<>> /\ Len(rest) \in 1..Len(rest) /\ Len(rest) \in 1..Len(ps) - 1
    BY <1>1, <1>3, <2>1
  <2>4. p \in GoodProcesses /\ p = rest[Len(rest)]
    BY <2>1, <2>3, TopPop DEF Top
  <2>5. p.stack # <<>>
    <3>1. p = ps[Len(rest)]
      BY <2>1, <2>3, <2>4
    <3>. QED BY <2>3, <3>1 DEF ProcsInv
  <2>. HIDE DEF p
  <2>6. SubshellStatus(c, sig) \in 0..255 /\ (IF sig THEN 137 ELSE c) \in 0..255
    BY DEF SubshellStatus
  <2>7. sub \in GoodProcesses /\ done \in GoodProcesses
    BY <2>4, <2>5, <2>6, ReturnGood
  <2>8. f.i # Len(n.kids) => next \in GoodProcesses
    BY <2>4, <2>5, NextStageGood
  <2>. HIDE DEF sub, done, next, f, n
  <2>9. new \in GoodProcesses
    BY <2>7, <2>8
  <2>. HIDE DEF new
  <2>10. /\ [rest EXCEPT ![Len(rest)] = new] \in Seq(GoodProcesses)
         /\ Len([rest EXCEPT ![Len(rest)] = new]) = Len(rest)
         /\ \A k \in 1..Len(rest) :
              [rest EXCEPT ![Len(rest)] = new][k] = IF k = Len(rest) THEN new ELSE rest[k]
    BY <2>1, <2>3, <2>9, ReplaceLast
  <2>. DEFINE qs == [rest EXCEPT ![Len(rest)] = new]
  <2>. HIDE DEF qs
  <2>11. \A k \in 1..Len(qs) - 1 : qs[k].stack # <<>>
    <3>. SUFFICES ASSUME NEW k \in 1..Len(rest) - 1 PROVE qs[k].stack # <<>>
      BY <2>10 DEF qs
    <3>1. k \in 1..Len(rest) /\ k # Len(rest) /\ k \in 1..Len(ps) - 1
      BY <1>1, <2>1
    <3>2. qs[k] = ps[k]
      BY <2>1, <2>10, <3>1 DEF qs
    <3>. QED BY <3>1, <3>2 DEF ProcsInv
  <2>. QED BY <2>2, <2>10, <2>11 DEF ProcsInv, qs
<1>. QED BY <1>2, <1>3

-----------------------------------------------------------------------------
(* The invariant and its steps. *)

Rest ==
  /\ log \in Seq(Entries) /\ blocked \in BOOLEAN /\ end \in {None} \cup 0..255
  /\ lines \in 0..MaxLines /\ line \in {0} \cup DOMAIN Nodes
ExecInv == ProcsInv(procs) /\ Rest

LEMMA RunsDef ==
  ASSUME ExecInv, NEW op, NEW at, Runs(op, at)
  PROVE  /\ procs # <<>> /\ P \in GoodProcesses /\ P.stack # <<>> /\ Open3(P.tab)
         /\ F \in GoodFrames /\ F.node \in DOMAIN Nodes /\ F.i \in Nat \ {0}
         /\ N.op = op /\ N.redirs \in Seq(Redirections)
         /\ Len(N.kids) \in Nat /\ Len(N.kids) \in Arity(op)
         /\ \A k \in 1..Len(N.kids) : N.kids[k] \in DOMAIN Nodes
         /\ at \in {"left", "right"} => P.ret \in 0..255
<1>1. procs # <<>> /\ P.stack # <<>> /\ N.op = op /\ (at \in {"left", "right"} => P.ret # None)
  BY DEF Runs
<1>2. P \in GoodProcesses
  BY <1>1, TopGood DEF ExecInv
<1>3. P.stack \in Seq(GoodFrames) /\ Open3(P.tab) /\ P.ret \in {None} \cup 0..255
  BY <1>2, ProcessesDef
<1>4. F \in GoodFrames
  BY <1>1, <1>3, TopPop DEF F
<1>5. F.node \in DOMAIN Nodes /\ F.i \in Nat \ {0}
  BY <1>4, FramesDef
<1>6. /\ N.redirs \in Seq(Redirections)
      /\ Len(N.kids) \in Nat /\ Len(N.kids) \in Arity(N.op)
      /\ \A k \in 1..Len(N.kids) : N.kids[k] \in DOMAIN Nodes
  BY <1>5, NodesDef DEF N
<1>. QED BY <1>1, <1>2, <1>3, <1>4, <1>5, <1>6

LEMMA RecordInv ==
  ASSUME ExecInv, F.node \in DOMAIN Nodes, NEW c \in 0..255, NEW ends \in BOOLEAN,
         NEW sig \in BOOLEAN, Record(c, ends, sig)
  PROVE  log' \in Seq(Entries)
<1>. DEFINE e == [node |-> F.node, code |-> c, ends |-> ends, sig |-> sig]
<1>1. e \in Entries
  BY DEF Entries
<1>2. log' = Append(log, e)
  BY DEF Record
<1>. HIDE DEF e
<1>. QED BY <1>1, <1>2 DEF ExecInv, Rest

LEMMA SilentInv ==
  ASSUME ExecInv, procs # <<>>, NEW p \in GoodProcesses, procs' = Set(p), Silent
  PROVE  ExecInv'
<1>1. ProcsInv(procs')
  BY SetInv DEF ExecInv
<1>. QED BY <1>1 DEF ExecInv, Rest, Silent, Inside

LEMMA FinishInv ==
  ASSUME ExecInv, procs # <<>>, F.node \in DOMAIN Nodes, NEW p \in GoodProcesses, p.stack # <<>>,
         NEW c \in 0..255, Finish(p, c), Inside
  PROVE  ExecInv'
<1>1. Complete(p, c) \in GoodProcesses
  BY ReturnGood
<1>2. procs' = Set(Complete(p, c)) /\ blocked' = blocked /\ end' = end
  BY DEF Finish
<1>3. ProcsInv(procs')
  BY <1>1, <1>2, SetInv DEF ExecInv
<1>4. FALSE \in BOOLEAN /\ Record(c, FALSE, FALSE)
  BY DEF Finish
<1>5. log' \in Seq(Entries)
  BY <1>4, RecordInv, Zenon
<1>. QED BY <1>2, <1>3, <1>5 DEF ExecInv, Rest, Inside

LEMMA BlocksInv ==
  ASSUME ExecInv, Blocks, Inside
  PROVE  ExecInv'
BY DEF ExecInv, Rest, Blocks, Inside

LEMMA ExitInv ==
  ASSUME ExecInv, procs # <<>>, NEW c \in Int, ExitProcess(c), blocked' = blocked,
         log' \in Seq(Entries), Inside
  PROVE  ExecInv'
<1>1. c % 256 \in 0..255 /\ FALSE \in BOOLEAN
  OBVIOUS
<1>2. procs' = Ended(procs, c % 256, FALSE)
  BY DEF ExitProcess
<1>3. ProcsInv(Ended(procs, c % 256, FALSE))
  BY <1>1, EndedInv, Zenon DEF ExecInv
<1>4. end' \in {None} \cup 0..255
  BY <1>1 DEF ExitProcess, ExecInv, Rest
<1>. QED BY <1>2, <1>3, <1>4 DEF ExecInv, Rest, Inside

-----------------------------------------------------------------------------
(* Lines and lists. *)

LEMMA ExecInit == Init => ExecInv
<1>. SUFFICES ASSUME Init PROVE ExecInv
  OBVIOUS
<1>1. PICK tab \in Tables :
        /\ tab[0] \in {"tty", "script"} /\ tab[1] = "tty" /\ tab[2] = "tty"
        /\ procs = <<[stack |-> <<>>, ret |-> None, code |-> 0, tab |-> tab, base |-> tab,
                      lost |-> FALSE, last |-> 0, seen |-> 0]>>
  BY DEF Init
<1>. DEFINE p == [stack |-> <<>>, ret |-> None, code |-> 0, tab |-> tab, base |-> tab,
                  lost |-> FALSE, last |-> 0, seen |-> 0]
<1>2. Open3(tab)
  BY <1>1 DEF Open3, Standard
<1>3. <<>> \in Seq(Frames) /\ <<>> \in Seq(GoodFrames)
  BY EmptySeq
<1>4. p \in Processes
  BY <1>3 DEF Processes
<1>5. p \in GoodProcesses
  BY <1>2, <1>3, <1>4 DEF GoodProcesses, Kept, Holds
<1>6. procs = <<p>>
  BY <1>1
<1>. HIDE DEF p
<1>7. procs \in Seq(GoodProcesses) /\ Len(procs) = 1
  BY <1>5, <1>6
<1>8. log \in Seq(Entries)
  BY EmptySeq DEF Init
<1>9. ProcsInv(procs)
  BY <1>7 DEF ProcsInv
<1>10. blocked = FALSE /\ end = None /\ lines = 0 /\ line = 0
  BY DEF Init
<1>11. Rest
  <2>1. lines \in 0..MaxLines
    BY <1>10, BoundsAssumption
  <2>2. blocked \in BOOLEAN /\ end \in {None} \cup 0..255 /\ line \in {0} \cup DOMAIN Nodes
    BY <1>10
  <2>. QED BY <1>8, <2>1, <2>2 DEF Rest
<1>. QED BY <1>9, <1>11 DEF ExecInv

LEMMA RunLineInv ==
  ASSUME ExecInv, NEW n \in Lines, RunLine(n)
  PROVE  ExecInv'
<1>1. procs # <<>>
  <2>1. Len(procs) = 1 /\ Len(<<>>) = 0
    BY EmptySeq DEF RunLine, AtPrompt
  <2>. QED BY <2>1
<1>2. n \in DOMAIN Nodes
  BY LinesAssumption
<1>3. <<Frame(n)>> \in Seq(GoodFrames)
  BY <1>2, FrameGood
<1>4. [P EXCEPT !.stack = <<Frame(n)>>] \in GoodProcesses
  BY <1>1, <1>3, TopGood, SetStack DEF ExecInv
<1>5. ProcsInv(procs')
  BY <1>1, <1>4, SetInv DEF ExecInv, RunLine
<1>6. log' \in Seq(Entries) /\ lines' \in 0..MaxLines
  BY EmptySeq, BoundsAssumption DEF RunLine, ExecInv, Rest
<1>. QED BY <1>2, <1>5, <1>6 DEF RunLine, ExecInv, Rest

LEMMA EndLineInv ==
  ASSUME ExecInv, EndLine
  PROVE  ExecInv'
<1>1. procs # <<>> /\ P.ret # None
  BY DEF EndLine
<1>2. P \in GoodProcesses /\ P.ret \in 0..255
  BY <1>1, TopGood, ProcessesDef DEF ExecInv
<1>. DEFINE q == [P EXCEPT !.code = P.ret]
<1>3. q \in GoodProcesses
  BY <1>2, SetCode
<1>4. procs' = Set([q EXCEPT !.ret = None])
  BY DEF EndLine
<1>. HIDE DEF q
<1>5. [q EXCEPT !.ret = None] \in GoodProcesses
  BY <1>3, SetRet
<1>6. ProcsInv(procs')
  BY <1>1, <1>4, <1>5, SetInv DEF ExecInv
<1>. QED BY <1>6 DEF EndLine, ExecInv, Rest

LEMMA ListsInv ==
  ASSUME ExecInv, Lists
  PROVE  ExecInv'
<1>1. CASE Descend
  <2>1. PICK op \in {"seq", "and", "or"} : Runs(op, "start")
    BY <1>1 DEF Descend
  <2>2. N.kids[1] \in DOMAIN Nodes
    BY <2>1, RunsDef DEF Arity
  <2>3. Call(P, "left", N.kids[1]) \in GoodProcesses
    BY <2>1, <2>2, RunsDef, CallGood DEF Ats
  <2>. QED BY <1>1, <2>1, <2>3, RunsDef, SilentInv DEF Descend
<1>2. CASE SequenceLeft
  <2>. DEFINE p == [P EXCEPT !.code = P.ret]
  <2>1. Runs("seq", "left") /\ Silent
        /\ procs' = Set(IF Len(N.kids) = 2 THEN Call(p, "right", N.kids[2]) ELSE Return(p, P.ret))
    BY <1>2 DEF SequenceLeft
  <2>2. procs # <<>> /\ P \in GoodProcesses /\ P.stack # <<>> /\ P.ret \in 0..255
        /\ (Len(N.kids) = 2 => N.kids[2] \in DOMAIN Nodes)
    BY <2>1, RunsDef
  <2>3. p \in GoodProcesses /\ p.stack # <<>>
    BY <2>2, SetCode
  <2>. HIDE DEF p
  <2>4. Len(N.kids) = 2 => Call(p, "right", N.kids[2]) \in GoodProcesses
    BY <2>2, <2>3, CallGood DEF Ats
  <2>5. Return(p, P.ret) \in GoodProcesses
    BY <2>2, <2>3, ReturnGood
  <2>. QED BY <2>1, <2>2, <2>4, <2>5, SilentInv
<1>3. CASE SequenceRight
  <2>. DEFINE p == [P EXCEPT !.code = P.ret]
  <2>1. Runs("seq", "right") /\ Silent /\ procs' = Set(Return(p, P.ret))
    BY <1>3 DEF SequenceRight
  <2>2. procs # <<>> /\ P \in GoodProcesses /\ P.stack # <<>> /\ P.ret \in 0..255
    BY <2>1, RunsDef
  <2>3. p \in GoodProcesses /\ p.stack # <<>>
    BY <2>2, SetCode
  <2>. HIDE DEF p
  <2>4. Return(p, P.ret) \in GoodProcesses
    BY <2>2, <2>3, ReturnGood
  <2>. QED BY <2>1, <2>2, <2>4, SilentInv
<1>4. CASE AndOrLeft
  <2>1. PICK op \in {"and", "or"} : Runs(op, "left")
    BY <1>4 DEF AndOrLeft
  <2>2. procs # <<>> /\ P \in GoodProcesses /\ P.stack # <<>> /\ P.ret \in 0..255
        /\ N.kids[2] \in DOMAIN Nodes
    BY <2>1, RunsDef DEF Arity
  <2>3. Call(P, "right", N.kids[2]) \in GoodProcesses /\ Return(P, P.ret) \in GoodProcesses
    BY <2>2, CallGood, ReturnGood DEF Ats
  <2>4. PICK p \in GoodProcesses : procs' = Set(p)
    BY <1>4, <2>3 DEF AndOrLeft
  <2>. QED BY <1>4, <2>2, <2>4, SilentInv DEF AndOrLeft
<1>5. CASE AndOrRight
  <2>1. PICK op \in {"and", "or"} : Runs(op, "right")
    BY <1>5 DEF AndOrRight
  <2>2. procs # <<>> /\ P \in GoodProcesses /\ P.stack # <<>> /\ P.ret \in 0..255
    BY <2>1, RunsDef
  <2>3. Return(P, P.ret) \in GoodProcesses
    BY <2>2, ReturnGood
  <2>. QED BY <1>5, <2>2, <2>3, SilentInv DEF AndOrRight
<1>. QED BY <1>1, <1>2, <1>3, <1>4, <1>5 DEF Lists

-----------------------------------------------------------------------------
(* Children. *)

LEMMA SubshellInv ==
  ASSUME ExecInv, NEW bad, Subshell(bad)
  PROVE  ExecInv'
<1>. DEFINE a == Apply(P.tab, N.redirs, bad)
<1>1. Runs("sub", "start") /\ Inside
  BY DEF Subshell
<1>2. procs # <<>> /\ P \in GoodProcesses /\ P.stack # <<>> /\ F.node \in DOMAIN Nodes
      /\ N.kids[1] \in DOMAIN Nodes
  BY <1>1, RunsDef DEF Arity
<1>3. Open3(a.tab) /\ a.res \in {"ok", "failed", "stuck"}
  BY <1>1, RunsDef, ApplyKeeps
<1>4. /\ a.res = "ok" => procs' = Fork(P, a.tab, N.kids[1]) /\ UNCHANGED <<blocked, end, log>>
      /\ a.res = "failed" => Finish(P, 1)
      /\ a.res = "stuck" => Blocks
  BY DEF Subshell
<1>. HIDE DEF a
<1>5. CASE a.res = "ok"
  <2>1. ProcsInv(procs')
    BY <1>2, <1>3, <1>4, <1>5, ForkInv DEF ExecInv
  <2>. QED BY <1>1, <1>4, <1>5, <2>1 DEF ExecInv, Rest, Inside
<1>6. CASE a.res = "failed"
  BY <1>1, <1>2, <1>4, <1>6, FinishInv
<1>7. CASE a.res = "stuck"
  BY <1>1, <1>4, <1>7, BlocksInv
<1>. QED BY <1>3, <1>5, <1>6, <1>7

LEMMA StageInv ==
  ASSUME ExecInv, Stage
  PROVE  ExecInv'
<1>. DEFINE first == F.i = 1
            last == F.i = Len(N.kids)
            tab == Connect(P.tab, first, last)
<1>1. Runs("pipe", "start") /\ Silent
  BY DEF Stage
<1>2. procs # <<>> /\ P.stack # <<>> /\ Open3(P.tab) /\ F \in GoodFrames
      /\ F.i \in Nat \ {0} /\ N.op = "pipe" /\ Len(N.kids) \in Nat
      /\ \A k \in 1..Len(N.kids) : N.kids[k] \in DOMAIN Nodes
  BY <1>1, RunsDef
<1>3. N.kids[F.i] \in DOMAIN Nodes
  BY <1>2 DEF GoodFrames, N
<1>4. first \in BOOLEAN /\ last \in BOOLEAN
  OBVIOUS
<1>5. procs' = Fork(P, tab, N.kids[F.i])
  BY DEF Stage
<1>. HIDE DEF first, last
<1>6. Open3(tab)
  BY <1>2, <1>4, ConnectKeeps
<1>. HIDE DEF tab
<1>7. ProcsInv(procs')
  BY <1>2, <1>3, <1>5, <1>6, ForkInv DEF ExecInv
<1>. QED BY <1>1, <1>7 DEF ExecInv, Rest, Silent, Inside

\* What is left open by a pipe or a fork that fails was free before.
LEMMA StageFailsGood ==
  ASSUME ExecInv, NEW made \in BOOLEAN, StageFails(made)
  PROVE  \E q \in GoodProcesses : q.stack = P.stack /\ Finish(q, 1)
<1>. DEFINE one == IF F.i = 1 THEN P.tab ELSE Open(P.tab, "pipe")
            two == Open(one, "pipe")
            kept == IF made THEN Open(two, "pipe") ELSE one
            q == [P EXCEPT !.tab = kept, !.lost = @ \/ kept # P.tab]
<1>1. Runs("pipe", "start") /\ Inside /\ Finish(q, 1)
      /\ (F.i = 1 \/ Free(P.tab) # {})
      /\ (made => Free(one) # {} /\ Free(two) # {})
  BY DEF StageFails
<1>2. procs # <<>> /\ P \in GoodProcesses /\ P.stack # <<>> /\ Open3(P.tab)
      /\ F.node \in DOMAIN Nodes
  BY <1>1, RunsDef
<1>3. "pipe" \in Files \ {"none"}
  BY DEF Files
<1>4. Open3(one) /\ \A f \in Fds : P.tab[f] # "none" => one[f] = P.tab[f]
  BY <1>1, <1>2, <1>3, OpenAbove
<1>. HIDE DEF one
<1>5. made => Open3(two) /\ \A f \in Fds : one[f] # "none" => two[f] = one[f]
  BY <1>1, <1>3, <1>4, OpenAbove
<1>. HIDE DEF two
<1>6. made => /\ Open3(Open(two, "pipe"))
              /\ \A f \in Fds : two[f] # "none" => Open(two, "pipe")[f] = two[f]
  BY <1>1, <1>3, <1>5, OpenAbove
<1>7. Open3(kept) /\ \A f \in Fds : P.tab[f] # "none" => kept[f] = P.tab[f]
  BY <1>4, <1>5, <1>6
<1>. HIDE DEF kept
<1>8. q \in GoodProcesses /\ q.stack = P.stack
  BY <1>2, <1>7, SetTab
<1>. HIDE DEF q
<1>. QED BY <1>1, <1>8

LEMMA StageFailsInv ==
  ASSUME ExecInv, NEW made \in BOOLEAN, StageFails(made)
  PROVE  ExecInv'
<1>1. PICK q \in GoodProcesses : q.stack = P.stack /\ Finish(q, 1)
  BY StageFailsGood, Zenon
<1>2. Runs("pipe", "start") /\ Inside
  BY DEF StageFails
<1>3. procs # <<>> /\ q.stack # <<>> /\ F.node \in DOMAIN Nodes /\ 1 \in 0..255
  BY <1>1, <1>2, RunsDef
<1>. QED BY <1>1, <1>2, <1>3, FinishInv, Zenon

LEMMA ChildrenInv ==
  ASSUME ExecInv, Children
  PROVE  ExecInv'
<1>1. CASE SubshellForkFails
  <2>1. Runs("sub", "start") /\ Finish(P, 1) /\ Inside
    BY <1>1 DEF SubshellForkFails
  <2>. QED BY <2>1, RunsDef, FinishInv
<1>2. CASE ChildEnds
  <2>1. procs # <<>> /\ P.ret # None /\ ExitProcess(P.ret) /\ blocked' = blocked /\ log' = log
        /\ Inside
    BY <1>2 DEF ChildEnds
  <2>2. P.ret \in Int
    <3>1. P \in GoodProcesses
      BY <2>1, TopGood DEF ExecInv
    <3>2. P.ret \in {None} \cup 0..255 /\ P.ret # None
      BY <2>1, <3>1, ProcessesDef
    <3>. QED BY <3>2
  <2>3. log' \in Seq(Entries)
    BY <2>1 DEF ExecInv, Rest
  <2>. QED BY <2>1, <2>2, <2>3, ExitInv
<1>. QED BY <1>1, <1>2, SubshellInv, StageInv, StageFailsInv DEF Children

-----------------------------------------------------------------------------
(* Commands. *)

\* A command that runs in the shell leaves it the table it had.
LEMMA AfterwardsSame ==
  ASSUME P \in GoodProcesses, N.redirs \in Seq(Redirections), CanRun, NEW bad
  PROVE  Afterwards(bad) = P.tab /\ [P EXCEPT !.tab = Afterwards(bad)] = P
<1>1. Open3(P.tab)
  BY ProcessesDef
<1>2. Afterwards(bad) = P.tab
  BY <1>1, RestoreUndoes DEF Afterwards, CanRun
<1>. QED BY <1>2, SameTab

LEMMA RunningDef ==
  ASSUME ExecInv, NEW progs, Running(progs)
  PROVE  /\ procs # <<>> /\ P \in GoodProcesses /\ P.stack # <<>> /\ Open3(P.tab)
         /\ F.node \in DOMAIN Nodes /\ N.redirs \in Seq(Redirections)
BY RunsDef DEF Running

LEMMA TrialInv ==
  ASSUME ExecInv, NEW bad, Trial(bad)
  PROVE  ExecInv'
<1>. DEFINE a == Apply(P.tab, N.redirs, bad)
<1>1. Runs("cmd", "trial") /\ Inside
  BY DEF Trial
<1>2. procs # <<>> /\ P \in GoodProcesses /\ P.stack # <<>> /\ F.node \in DOMAIN Nodes
  BY <1>1, RunsDef
<1>3. a.res \in {"ok", "failed", "stuck"}
  BY <1>1, RunsDef, ApplyKeeps
<1>4. /\ a.res = "ok" => procs' = Set(Goto(P, "run")) /\ UNCHANGED <<blocked, end, log>>
      /\ a.res = "failed" => Finish(P, 1)
      /\ a.res = "stuck" => Blocks
  BY DEF Trial
<1>. HIDE DEF a
<1>5. CASE a.res = "ok"
  <2>1. Goto(P, "run") \in GoodProcesses
    BY <1>2, GotoGood DEF Ats
  <2>. QED BY <1>1, <1>2, <1>4, <1>5, <2>1, SilentInv DEF Silent
<1>6. CASE a.res = "failed"
  BY <1>1, <1>2, <1>4, <1>6, FinishInv
<1>7. CASE a.res = "stuck"
  BY <1>1, <1>4, <1>7, BlocksInv
<1>. QED BY <1>3, <1>5, <1>6, <1>7

\* A command that returns c with the table it had.
LEMMA RunInv ==
  ASSUME ExecInv, NEW progs, Running(progs), CanRun, NEW bad, NEW c \in 0..255,
         Finish([P EXCEPT !.tab = Afterwards(bad)], c), Inside
  PROVE  ExecInv'
<1>1. [P EXCEPT !.tab = Afterwards(bad)] = P
  BY RunningDef, AfterwardsSame
<1>. QED BY <1>1, RunningDef, FinishInv

\* A command that ends its process.
LEMMA EndsInv ==
  ASSUME ExecInv, NEW progs, Running(progs), NEW c \in Int, NEW r \in 0..255,
         ExitProcess(c), Record(r, TRUE, FALSE), blocked' = blocked, Inside
  PROVE  ExecInv'
<1>1. procs # <<>> /\ F.node \in DOMAIN Nodes
  BY RunningDef
<1>2. TRUE \in BOOLEAN /\ FALSE \in BOOLEAN
  OBVIOUS
<1>3. log' \in Seq(Entries)
  BY <1>1, <1>2, RecordInv, Zenon
<1>. QED BY <1>1, <1>3, ExitInv

LEMMA DupFailsGood ==
  ASSUME ExecInv, DupFails
  PROVE  \E q \in GoodProcesses : q.stack = P.stack /\ Finish(q, 1)
<1>. DEFINE kept == Save(P.tab)
            q == [P EXCEPT !.tab = kept, !.lost = @ \/ kept # P.tab]
<1>1. Running(Progs \ {"program"}) /\ Finish(q, 1) /\ Inside
  BY DEF DupFails
<1>2. procs # <<>> /\ P \in GoodProcesses /\ P.stack # <<>> /\ Open3(P.tab)
      /\ F.node \in DOMAIN Nodes
  BY <1>1, RunningDef
<1>3. Open3(kept) /\ \A f \in Fds : P.tab[f] # "none" => kept[f] = P.tab[f]
  BY <1>2, SaveAbove
<1>. HIDE DEF kept
<1>4. q \in GoodProcesses /\ q.stack = P.stack
  BY <1>2, <1>3, SetTab
<1>. HIDE DEF q
<1>. QED BY <1>1, <1>4

LEMMA DupFailsInv ==
  ASSUME ExecInv, DupFails
  PROVE  ExecInv'
<1>1. PICK q \in GoodProcesses : q.stack = P.stack /\ Finish(q, 1)
  BY DupFailsGood, Zenon
<1>2. Running(Progs \ {"program"}) /\ Inside
  BY DEF DupFails
<1>3. procs # <<>> /\ q.stack # <<>> /\ F.node \in DOMAIN Nodes /\ 1 \in 0..255
  BY <1>1, <1>2, RunningDef
<1>. QED BY <1>1, <1>2, <1>3, FinishInv, Zenon

LEMMA CommandsInv ==
  ASSUME ExecInv, Commands
  PROVE  ExecInv'
<1>1. CASE Expand
  <2>. DEFINE q == [P EXCEPT !.seen = P.code]
              at == IF N.redirs = <<>> THEN "run" ELSE "trial"
  <2>1. Runs("cmd", "start") /\ Silent /\ procs' = Set(Goto(q, at))
    BY <1>1 DEF Expand
  <2>2. procs # <<>> /\ P \in GoodProcesses /\ P.stack # <<>> /\ P.code \in 0..255
    BY <2>1, RunsDef, ProcessesDef
  <2>3. q \in GoodProcesses /\ q.stack # <<>> /\ at \in Ats
    BY <2>2, SetSeen DEF Ats
  <2>. HIDE DEF q, at
  <2>4. Goto(q, at) \in GoodProcesses
    BY <2>3, GotoGood
  <2>. QED BY <2>1, <2>2, <2>4, SilentInv
<1>2. CASE TrialForkFails
  <2>1. Runs("cmd", "trial") /\ Finish(P, 1) /\ Inside
    BY <1>2 DEF TrialForkFails
  <2>. QED BY <2>1, RunsDef, FinishInv
<1>3. CASE DupFails
  BY <1>3, DupFailsInv
<1>4. CASE TooMany
  <2>1. Running({"exitMany"}) /\ ExitProcess(2) /\ Record(2, TRUE, FALSE) /\ blocked' = blocked
        /\ Inside
    BY <1>4 DEF TooMany
  <2>2. 2 \in Int /\ 2 \in 0..255
    OBVIOUS
  <2>. QED BY <2>1, <2>2, EndsInv, Zenon
<1>5. ASSUME NEW bad \in Bads, Trial(bad)
      PROVE  ExecInv'
  BY <1>5, TrialInv
<1>6. ASSUME NEW bad \in Bads, RedirsFail(bad)
      PROVE  ExecInv'
  <2>1. 1 \in 0..255 /\ 0 \in 0..255 /\ 2 \in 0..255
    OBVIOUS
  <2>. QED BY <1>6, <2>1, RunInv, Zenon DEF RedirsFail
<1>7. ASSUME NEW bad \in Bads, RedirsOnly(bad)
      PROVE  ExecInv'
  <2>1. 0 \in 0..255
    OBVIOUS
  <2>. QED BY <1>7, <2>1, RunInv, Zenon DEF RedirsOnly
<1>8. ASSUME NEW bad \in Bads, ExitReturns(bad)
      PROVE  ExecInv'
  <2>1. 2 \in 0..255
    OBVIOUS
  <2>. QED BY <1>8, <2>1, RunInv, Zenon DEF ExitReturns
<1>9. ASSUME NEW bad \in Bads, NEW c \in Codes, Builtin(bad, c)
      PROVE  ExecInv'
  <2>1. c \in 0..255
    BY CodesAssumption
  <2>. QED BY <1>9, <2>1, RunInv, Zenon DEF Builtin
<1>10. ASSUME NEW bad \in Bads, NEW c \in Codes, SpecialFails(bad, c)
       PROVE  ExecInv'
  <2>1. c \in 0..255 /\ c \in Int
    BY CodesAssumption
  <2>. QED BY <1>10, <2>1, EndsInv, Zenon DEF SpecialFails
<1>11. ASSUME NEW bad \in Bads, NEW c \in Codes, Program(bad, c)
       PROVE  ExecInv'
  <2>. DEFINE r == IF Apply(P.tab, N.redirs, bad).res = "ok" THEN c ELSE 1
  <2>1. r \in 0..255
    BY CodesAssumption
  <2>2. Running({"program"}) /\ Finish(P, r) /\ Inside
    BY <1>11 DEF Program
  <2>. HIDE DEF r
  <2>. QED BY <2>1, <2>2, RunningDef, FinishInv
<1>12. ASSUME NEW bad \in Bads, NEW c \in Statuses, Exit(bad, c)
       PROVE  ExecInv'
  <2>1. c \in Int /\ c % 256 \in 0..255
    BY CodesAssumption
  <2>. QED BY <1>12, <2>1, EndsInv, Zenon DEF Exit
<1>. QED BY <1>1, <1>2, <1>3, <1>4, <1>5, <1>6, <1>7, <1>8, <1>9, <1>10, <1>11, <1>12
         DEF Commands

LEMMA KilledInv ==
  ASSUME ExecInv, Killed
  PROVE  ExecInv'
<1>1. Runs("cmd", "start") /\ procs' = Ended(procs, 0, TRUE) /\ Record(0, TRUE, TRUE)
      /\ blocked' = blocked /\ end' = end /\ Inside
  BY DEF Killed
<1>2. procs # <<>> /\ F.node \in DOMAIN Nodes
  BY <1>1, RunsDef
<1>3. TRUE \in BOOLEAN /\ 0 \in 0..255
  OBVIOUS
<1>4. ProcsInv(Ended(procs, 0, TRUE))
  BY <1>2, <1>3, EndedInv, Zenon DEF ExecInv
<1>5. log' \in Seq(Entries)
  BY <1>1, <1>2, <1>3, RecordInv, Zenon
<1>. QED BY <1>1, <1>4, <1>5 DEF ExecInv, Rest, Inside

LEMMA ExecStep == ExecInv /\ [Next]_vars => ExecInv'
<1>. SUFFICES ASSUME ExecInv, [Next]_vars PROVE ExecInv'
  OBVIOUS
<1>1. CASE \E n \in Lines : RunLine(n)
  BY <1>1, RunLineInv
<1>2. CASE Shell
  BY <1>2, EndLineInv, ListsInv, ChildrenInv, CommandsInv DEF Shell
<1>3. CASE Killed
  BY <1>3, KilledInv
<1>4. CASE UNCHANGED vars
  BY <1>4 DEF vars, ExecInv, Rest
<1>. QED BY <1>1, <1>2, <1>3, <1>4 DEF Next

-----------------------------------------------------------------------------
(* Results. *)

\* Processes, tables, codes and statuses are what their types say, whatever fails and
\* whoever is killed: exit codes stay within a byte through subshells and pipelines.
THEOREM ExecTypes == Spec => []TypeOK
<1>1. ExecInv => TypeOK
  <2>. SUFFICES ASSUME ExecInv PROVE TypeOK
    OBVIOUS
  <2>1. procs \in Seq(Processes)
    BY SeqMonotonic DEF ExecInv, ProcsInv, GoodProcesses
  <2>. QED BY <2>1 DEF ExecInv, Rest, TypeOK
<1>. QED BY ExecInit, ExecStep, <1>1, PTL DEF Spec

\* restore_fds, and the children that work on copies, leave every process with its own
\* descriptors: all of them unless some ran out, the standard ones even then.
THEOREM DescriptorsAreRestored == Spec => []Restored
<1>1. ExecInv => Restored
  <2>. SUFFICES ASSUME ExecInv, NEW k \in 1..Len(procs), NEW f \in Fds,
                       f <= 2 \/ ~procs[k].lost
                PROVE  procs[k].tab[f] = procs[k].base[f]
    BY DEF Restored
  <2>1. procs[k] \in GoodProcesses
    BY ElementOfSeq DEF ExecInv, ProcsInv
  <2>. QED BY <2>1, ProcessesDef DEF Kept, Holds
<1>. QED BY ExecInit, ExecStep, <1>1, PTL DEF Spec

-----------------------------------------------------------------------------
(* What $? is worth: the invariant. *)

HasRight(s) ==
  \E j \in 1..Len(s) : Nodes[s[j].node].op \in {"and", "or"} /\ s[j].at = "right"
Right(ps, k) == \E i \in 1..k : HasRight(ps[i].stack)

AtTop(p, ats) == p.stack # <<>> /\ Top(p.stack).at \in ats
\* Every call but the innermost is a list's, in one of its sides.
Called(s) == \A j \in 1..Len(s) - 1 : s[j].at \in {"left", "right"}
Own == {"start", "wait", "trial", "run"}

\* What has returned is the status of the last command; a node that is run itself has
\* nothing that returned; a command was expanded with the code its process has.
Told(p) ==
  /\ p.ret # None => p.ret = p.last
  /\ AtTop(p, Own) => p.ret = None
  /\ AtTop(p, {"trial", "run"}) => p.seen = p.code
  /\ Called(p.stack)
\* Nothing has returned that set_code has not stored.
Fresh(p) == p.ret = None => p.code = p.last

HistInv(ps) ==
  \A k \in 1..Len(ps) :
    /\ Told(ps[k]) /\ (Right(ps, k) \/ Fresh(ps[k]))
    /\ k < Len(ps) => AtTop(ps[k], {"wait"})

-----------------------------------------------------------------------------
(* Steps of the innermost process. *)

\* From p to q, the code does not fall behind outside of a right side.
Passes(p, q) ==
  \/ Fresh(q) \/ HasRight(q.stack)
  \/ (HasRight(p.stack) => HasRight(q.stack)) /\ (Fresh(p) => Fresh(q))

LEMMA ReplaceHist ==
  ASSUME NEW ps \in Seq(GoodProcesses), ps # <<>>, HistInv(ps),
         NEW q \in GoodProcesses, Told(q), Passes(Top(ps), q)
  PROVE  HistInv([ps EXCEPT ![Len(ps)] = q])
<1>. DEFINE n == Len(ps)
            new == [ps EXCEPT ![n] = q]
<1>1. /\ Len(new) = n /\ n \in 1..n /\ n \in Nat
      /\ \A k \in 1..n : new[k] = IF k = n THEN q ELSE ps[k]
  BY ReplaceLast
<1>2. Top(ps) = ps[n]
  BY DEF Top
<1>. HIDE DEF n, new
<1>3. \A k \in 1..n : k # n => (Right(ps, k) => Right(new, k))
  <2>. SUFFICES ASSUME NEW k \in 1..n, k # n, NEW i \in 1..k, HasRight(ps[i].stack)
                PROVE  Right(new, k)
    BY DEF Right
  <2>1. i \in 1..n /\ i # n
    BY <1>1
  <2>. QED BY <1>1, <2>1 DEF Right
<1>4. \A k \in 1..n : /\ Told(ps[k]) /\ (Right(ps, k) \/ Fresh(ps[k]))
                      /\ k < n => AtTop(ps[k], {"wait"})
  BY DEF HistInv, n
<1>5. Right(new, n) \/ Fresh(q)
  <2>1. CASE Fresh(q)
    BY <2>1
  <2>2. CASE HasRight(q.stack)
    BY <1>1, <2>2 DEF Right
  <2>3. CASE (HasRight(ps[n].stack) => HasRight(q.stack)) /\ (Fresh(ps[n]) => Fresh(q))
    <3>1. CASE Fresh(ps[n])
      BY <2>3, <3>1
    <3>2. CASE Right(ps, n)
      <4>1. PICK i \in 1..n : HasRight(ps[i].stack)
        BY <3>2 DEF Right
      <4>2. HasRight(new[i].stack)
        BY <1>1, <2>3, <4>1
      <4>. QED BY <4>2 DEF Right
    <3>. QED BY <1>1, <1>4, <3>1, <3>2
  <2>. QED BY <1>2, <2>1, <2>2, <2>3 DEF Passes
<1>6. ASSUME NEW k \in 1..n
      PROVE  /\ Told(new[k]) /\ (Right(new, k) \/ Fresh(new[k]))
             /\ k < n => AtTop(new[k], {"wait"})
  <2>1. CASE k = n
    BY <1>1, <1>5, <2>1
  <2>2. CASE k # n
    BY <1>1, <1>3, <1>4, <2>2
  <2>. QED BY <2>1, <2>2
<1>7. HistInv(new)
  BY <1>1, <1>6 DEF HistInv
<1>. QED BY <1>7 DEF new, n

LEMMA PopHist ==
  ASSUME NEW ps \in Seq(GoodProcesses), ps # <<>>, HistInv(ps)
  PROVE  HistInv(Pop(ps)) /\ (Pop(ps) # <<>> => AtTop(Top(Pop(ps)), {"wait"}))
<1>. DEFINE rest == Pop(ps)
<1>1. /\ rest \in Seq(GoodProcesses) /\ Len(rest) = Len(ps) - 1 /\ Len(ps) \in 1..Len(ps)
      /\ \A k \in 1..Len(rest) : rest[k] = ps[k]
  BY TopPop
<1>. HIDE DEF rest
<1>2. ASSUME NEW k \in 1..Len(rest)
      PROVE  /\ Told(rest[k]) /\ (Right(rest, k) \/ Fresh(rest[k])) /\ AtTop(rest[k], {"wait"})
  <2>1. k \in 1..Len(ps) /\ k < Len(ps) /\ rest[k] = ps[k]
    BY <1>1
  <2>2. Told(ps[k]) /\ (Right(ps, k) \/ Fresh(ps[k])) /\ AtTop(ps[k], {"wait"})
    BY <2>1 DEF HistInv
  <2>3. Right(ps, k) => Right(rest, k)
    <3>. SUFFICES ASSUME NEW i \in 1..k, HasRight(ps[i].stack) PROVE Right(rest, k)
      BY DEF Right
    <3>1. i \in 1..Len(rest)
      BY <1>1
    <3>. QED BY <1>1, <3>1 DEF Right
  <2>. QED BY <2>1, <2>2, <2>3
<1>3. HistInv(rest)
  BY <1>2 DEF HistInv
<1>4. rest # <<>> => Len(rest) \in 1..Len(rest)
  BY <1>1, EmptySeq
<1>5. rest # <<>> => AtTop(Top(rest), {"wait"})
  BY <1>2, <1>4 DEF Top
<1>. QED BY <1>3, <1>5 DEF rest

LEMMA AppendHist ==
  ASSUME NEW ps \in Seq(GoodProcesses), ps # <<>>, HistInv(ps), AtTop(Top(ps), {"wait"}),
         NEW q \in GoodProcesses, Told(q), Fresh(Top(ps)) => Fresh(q)
  PROVE  HistInv(Append(ps, q))
<1>. DEFINE n == Len(ps)
            new == Append(ps, q)
<1>1. Len(new) = n + 1 /\ new[n + 1] = q /\ (\A k \in 1..n : new[k] = ps[k]) /\ n \in 1..n
      /\ n \in Nat
  BY EmptySeq
<1>2. Top(ps) = ps[n]
  BY DEF Top
<1>3. \A k \in 1..n : Told(ps[k]) /\ (Right(ps, k) \/ Fresh(ps[k]))
                      /\ (k < n => AtTop(ps[k], {"wait"}))
  BY DEF HistInv
<1>. HIDE DEF n, new
<1>4. ASSUME NEW k \in 1..n, NEW l \in {k, n + 1}, Right(ps, k)
      PROVE  Right(new, l)
  <2>1. PICK i \in 1..k : HasRight(ps[i].stack)
    BY <1>4 DEF Right
  <2>2. i \in 1..n /\ i \in 1..l
    BY <1>1
  <2>. QED BY <1>1, <2>1, <2>2 DEF Right
<1>5. ASSUME NEW k \in 1..n + 1
      PROVE  /\ Told(new[k]) /\ (Right(new, k) \/ Fresh(new[k]))
             /\ k < n + 1 => AtTop(new[k], {"wait"})
  <2>1. CASE k = n + 1
    <3>1. Right(ps, n) \/ Fresh(q)
      BY <1>1, <1>2, <1>3
    <3>2. Right(new, n + 1) \/ Fresh(q)
      BY <1>1, <1>4, <3>1
    <3>. QED BY <1>1, <2>1, <3>2
  <2>2. CASE k # n + 1
    <3>1. k \in 1..n /\ new[k] = ps[k]
      BY <1>1, <2>2
    <3>2. k = n \/ k < n
      BY <1>1, <3>1
    <3>3. AtTop(ps[k], {"wait"})
      BY <1>2, <1>3, <3>1, <3>2
    <3>4. Right(new, k) \/ Fresh(ps[k])
      BY <1>3, <1>4, <3>1
    <3>. QED BY <1>3, <3>1, <3>3, <3>4
  <2>. QED BY <2>1, <2>2
<1>6. HistInv(new)
  BY <1>1, <1>5 DEF HistInv
<1>. QED BY <1>6 DEF new

-----------------------------------------------------------------------------
(* The calls of exec_node. *)

LEMMA WithCallsHist ==
  ASSUME NEW p \in GoodProcesses, NEW s, NEW r
  PROVE  /\ WithCalls(p, s, r).stack = s /\ WithCalls(p, s, r).ret = r
         /\ WithCalls(p, s, r).code = p.code /\ WithCalls(p, s, r).last = p.last
         /\ WithCalls(p, s, r).seen = p.seen
<1>1. p \in Processes
  BY ProcessesDef
<1>. QED BY <1>1 DEF Processes, WithCalls

LEMMA GotoHist ==
  ASSUME NEW p \in GoodProcesses, p.stack # <<>>, NEW at \in Ats
  PROVE  /\ Goto(p, at).ret = p.ret /\ Goto(p, at).code = p.code
         /\ Goto(p, at).last = p.last /\ Goto(p, at).seen = p.seen
         /\ Goto(p, at).stack \in Seq(GoodFrames) /\ Goto(p, at).stack # <<>>
         /\ Len(Goto(p, at).stack) = Len(p.stack)
         /\ Top(Goto(p, at).stack).at = at
         /\ Top(Goto(p, at).stack).node = Top(p.stack).node
         /\ \A j \in 1..Len(p.stack) - 1 : Goto(p, at).stack[j] = p.stack[j]
<1>. DEFINE n == Len(p.stack)
            f == [Top(p.stack) EXCEPT !.at = at]
            s == [p.stack EXCEPT ![n] = f]
<1>1. p.stack \in Seq(GoodFrames) /\ p \in Processes
  BY ProcessesDef
<1>2. Goto(p, at) = [p EXCEPT !.stack = s]
  BY DEF Goto, Top
<1>3. Top(p.stack) \in Frames
  BY <1>1, TopPop DEF GoodFrames
<1>4. f.at = at /\ f.node = Top(p.stack).node
  BY <1>3 DEF Frames
<1>5. /\ Goto(p, at) \in GoodProcesses /\ Goto(p, at).ret = p.ret
      /\ Goto(p, at).stack # <<>> /\ Len(Goto(p, at).stack) = n
      /\ Top(Goto(p, at).stack) = f
  BY GotoGood
<1>6. Goto(p, at).stack \in Seq(GoodFrames)
  BY <1>5, ProcessesDef
<1>7. /\ [p EXCEPT !.stack = s].stack = s /\ [p EXCEPT !.stack = s].code = p.code
      /\ [p EXCEPT !.stack = s].last = p.last /\ [p EXCEPT !.stack = s].seen = p.seen
  BY <1>1 DEF Processes
<1>8. \A j \in 1..n - 1 : s[j] = p.stack[j]
  <2>. HIDE DEF f
  <2>1. p.stack \in Seq(GoodFrames) /\ n \in Nat /\ \A j \in 1..n - 1 : j \in 1..n /\ j # n
    BY <1>1
  <2>. QED BY <2>1
<1>. HIDE DEF f, s
<1>. QED BY <1>2, <1>4, <1>5, <1>6, <1>7, <1>8

\* What a stack has on the right stays there as long as only its innermost call, which
\* is not there, changes or makes a call.
LEMMA RightStays ==
  ASSUME NEW s \in Seq(GoodFrames), s # <<>>, NEW t \in Seq(GoodFrames), Len(t) >= Len(s),
         Top(s).at # "right", \A j \in 1..Len(s) - 1 : t[j] = s[j], HasRight(s)
  PROVE  HasRight(t)
<1>1. PICK j \in 1..Len(s) : Nodes[s[j].node].op \in {"and", "or"} /\ s[j].at = "right"
  BY DEF HasRight
<1>2. j # Len(s)
  BY <1>1 DEF Top
<1>3. j \in 1..Len(s) - 1 /\ j \in 1..Len(t)
  BY <1>2
<1>. QED BY <1>1, <1>3 DEF HasRight

\* A node that is run itself goes on.
LEMMA GotoTold ==
  ASSUME NEW p \in GoodProcesses, Told(p), AtTop(p, Own), NEW at \in Own,
         at \in {"trial", "run"} => p.seen = p.code
  PROVE  /\ Told(Goto(p, at)) /\ AtTop(Goto(p, at), {at}) /\ Passes(p, Goto(p, at))
         /\ Goto(p, at).ret = None
<1>. DEFINE g == Goto(p, at)
<1>1. p.stack # <<>> /\ Top(p.stack).at \in Own /\ p.ret = None /\ at \in Ats
  BY DEF AtTop, Told, Own, Ats
<1>2. /\ g.ret = p.ret /\ g.code = p.code /\ g.last = p.last /\ g.seen = p.seen
      /\ g.stack \in Seq(GoodFrames) /\ g.stack # <<>> /\ Len(g.stack) = Len(p.stack)
      /\ Top(g.stack).at = at
      /\ \A j \in 1..Len(p.stack) - 1 : g.stack[j] = p.stack[j]
  BY <1>1, GotoHist
<1>. HIDE DEF g
<1>3. Called(g.stack)
  BY <1>2 DEF Told, Called
<1>4. HasRight(p.stack) => HasRight(g.stack)
  <2>1. p.stack \in Seq(GoodFrames) /\ Len(g.stack) >= Len(p.stack) /\ Top(p.stack).at # "right"
    BY <1>1, <1>2, ProcessesDef DEF Own
  <2>. QED BY <1>1, <1>2, <2>1, RightStays
<1>5. Told(g)
  BY <1>1, <1>2, <1>3 DEF Told, AtTop
<1>. QED BY <1>1, <1>2, <1>4, <1>5 DEF g, AtTop, Passes, Fresh

\* A list calls one of its sides.
LEMMA CallTold ==
  ASSUME NEW p \in GoodProcesses, Called(p.stack), p.stack # <<>>,
         NEW at \in {"left", "right"}, NEW n \in DOMAIN Nodes
  PROVE  LET q == Call(p, at, n)
         IN /\ Told(q) /\ q.ret = None /\ q.code = p.code /\ q.last = p.last
            /\ HasRight(p.stack) /\ Top(p.stack).at # "right" => HasRight(q.stack)
            /\ Nodes[Top(p.stack).node].op \in {"and", "or"} /\ at = "right" => HasRight(q.stack)
<1>. DEFINE g == Goto(p, at)
            s == Append(g.stack, Frame(n))
            q == WithCalls(g, s, None)
            m == Len(p.stack)
<1>1. Call(p, at, n) = q /\ at \in Ats
  BY DEF Call, WithCalls, Ats
<1>2. /\ g \in GoodProcesses
      /\ g.code = p.code /\ g.last = p.last /\ g.seen = p.seen
      /\ g.stack \in Seq(GoodFrames) /\ Len(g.stack) = m
      /\ Top(g.stack).at = at /\ Top(g.stack).node = Top(p.stack).node
      /\ \A j \in 1..m - 1 : g.stack[j] = p.stack[j]
  BY <1>1, GotoHist, GotoGood
<1>. HIDE DEF g, s
<1>3. q.stack = s /\ q.ret = None /\ q.code = p.code /\ q.last = p.last
  <2>1. g \in GoodProcesses
    BY <1>2
  <2>2. /\ WithCalls(g, s, None).stack = s /\ WithCalls(g, s, None).ret = None
        /\ WithCalls(g, s, None).code = g.code /\ WithCalls(g, s, None).last = g.last
    BY <2>1, WithCallsHist
  <2>. QED BY <1>2, <2>2
<1>4. Frame(n) \in GoodFrames /\ Frame(n).at = "start" /\ Frame(n).node = n
  BY FrameGood DEF Frame
<1>5. m \in Nat \ {0} /\ p.stack \in Seq(GoodFrames)
  BY ProcessesDef, EmptySeq
<1>6. /\ s \in Seq(GoodFrames) /\ Len(s) = m + 1 /\ s[m + 1] = Frame(n)
      /\ \A j \in 1..m : s[j] = g.stack[j]
  BY <1>2, <1>4 DEF s
<1>. HIDE DEF q
<1>7. s[m].at = at /\ s[m].node = Top(p.stack).node /\ m \in 1..m
  BY <1>2, <1>5, <1>6 DEF Top
<1>8. \A j \in 1..m - 1 : s[j] = p.stack[j]
  BY <1>2, <1>5, <1>6
<1>. HIDE DEF m
<1>9. Called(s)
  <2>. SUFFICES ASSUME NEW j \in 1..m PROVE s[j].at \in {"left", "right"}
    BY <1>5, <1>6 DEF Called
  <2>1. CASE j = m
    BY <1>7, <2>1
  <2>2. CASE j # m
    <3>1. j \in 1..m - 1
      BY <1>5, <2>2
    <3>. QED BY <1>8, <3>1 DEF Called, m
  <2>. QED BY <2>1, <2>2
<1>10. Top(s).at = "start"
  BY <1>4, <1>6 DEF Top
<1>11. Told(q)
  BY <1>3, <1>9, <1>10 DEF Told, AtTop
<1>12. HasRight(p.stack) /\ Top(p.stack).at # "right" => HasRight(s)
  <2>1. Len(s) >= Len(p.stack) /\ \A j \in 1..Len(p.stack) - 1 : s[j] = p.stack[j]
    BY <1>5, <1>6, <1>8 DEF m
  <2>. QED BY <1>5, <1>6, <2>1, RightStays
<1>13. Nodes[Top(p.stack).node].op \in {"and", "or"} /\ at = "right" => HasRight(s)
  <2>1. m \in 1..Len(s)
    BY <1>5, <1>6
  <2>. QED BY <1>7, <2>1 DEF HasRight
<1>. QED BY <1>1, <1>3, <1>11, <1>12, <1>13

\* A call returns.
LEMMA ReturnTold ==
  ASSUME NEW p \in GoodProcesses, Called(p.stack), p.stack # <<>>, NEW c \in 0..255
  PROVE  /\ c = p.last => Told(Return(p, c)) /\ Fresh(Return(p, c))
         /\ Told(Complete(p, c)) /\ Fresh(Complete(p, c))
<1>. DEFINE s == Pop(p.stack)
            q == WithCalls(p, s, c)
<1>1. Return(p, c) = q
  BY DEF Return, WithCalls
<1>2. q.stack = s /\ q.ret = c /\ q.code = p.code /\ q.last = p.last
  BY WithCallsHist
<1>3. p.stack \in Seq(GoodFrames)
  BY ProcessesDef
<1>4. /\ Len(s) = Len(p.stack) - 1 /\ Len(p.stack) \in Nat \ {0} /\ s \in Seq(GoodFrames)
      /\ \A j \in 1..Len(s) : s[j] = p.stack[j]
  BY <1>3, TopPop
<1>. HIDE DEF s
<1>5. Called(s) /\ \A j \in 1..Len(s) : s[j].at \in {"left", "right"}
  BY <1>4 DEF Called
<1>6. s # <<>> => Top(s).at \in {"left", "right"}
  <2>. SUFFICES ASSUME s # <<>> PROVE Top(s).at \in {"left", "right"}
    OBVIOUS
  <2>1. Len(s) \in 1..Len(s)
    BY <1>4, EmptySeq
  <2>. QED BY <1>5, <2>1 DEF Top
<1>7. c # None
  BY DEF None
<1>8. q \in Processes
  BY <1>1, ReturnGood, ProcessesDef
<1>9. /\ Complete(p, c).stack = s /\ Complete(p, c).ret = c /\ Complete(p, c).last = c
  BY <1>1, <1>2, <1>8 DEF Complete, Processes
<1>. HIDE DEF q
<1>10. \A r \in {q, Complete(p, c)} : ~AtTop(r, Own)
  BY <1>2, <1>6, <1>9 DEF AtTop, Own
<1>11. \A r \in {q, Complete(p, c)} : ~AtTop(r, {"trial", "run"})
  BY <1>10 DEF AtTop, Own
<1>. QED BY <1>1, <1>2, <1>5, <1>7, <1>9, <1>10, <1>11 DEF Told, Fresh

-----------------------------------------------------------------------------
(* The processes. *)

\* The steps of a process that make no other.
LEMMA SetHist ==
  ASSUME ExecInv, HistInv(procs), procs # <<>>, NEW p \in GoodProcesses, Told(p), Passes(P, p)
  PROVE  HistInv(Set(p))
<1>1. procs \in Seq(GoodProcesses)
  BY DEF ExecInv, ProcsInv
<1>. QED BY <1>1, ReplaceHist DEF Set, P

LEMMA TopTold ==
  ASSUME ExecInv, HistInv(procs), procs # <<>>
  PROVE  P \in GoodProcesses /\ Told(P) /\ (Right(procs, Len(procs)) \/ Fresh(P))
<1>1. P \in GoodProcesses
  BY TopGood DEF ExecInv
<1>2. Len(procs) \in 1..Len(procs)
  BY EmptySeq DEF ExecInv, ProcsInv
<1>. QED BY <1>1, <1>2 DEF HistInv, P, Top

\* A command, or a pipeline or subshell, has its status.
LEMMA FinishHist ==
  ASSUME ExecInv, HistInv(procs), procs # <<>>, NEW p \in GoodProcesses, p.stack # <<>>,
         p.stack = P.stack, NEW c \in 0..255, Finish(p, c)
  PROVE  HistInv(procs')
<1>1. Called(p.stack)
  BY TopTold DEF Told
<1>2. Told(Complete(p, c)) /\ Fresh(Complete(p, c)) /\ Complete(p, c) \in GoodProcesses
  BY <1>1, ReturnTold, ReturnGood
<1>3. HistInv(Set(Complete(p, c)))
  BY <1>2, SetHist DEF Passes
<1>. QED BY <1>3 DEF Finish

\* The child has the code of the process that has forked it.
LEMMA ForkHist ==
  ASSUME ExecInv, HistInv(procs), procs # <<>>, AtTop(P, Own),
         NEW t, Open3(t), NEW n \in DOMAIN Nodes
  PROVE  HistInv(Fork(P, t, n))
<1>. DEFINE child == [P EXCEPT !.stack = <<Frame(n)>>, !.ret = None, !.tab = t, !.base = t,
                               !.lost = FALSE]
            g == Goto(P, "wait")
            ps == Set(g)
<1>1. P \in GoodProcesses /\ Told(P)
  BY TopTold
<1>2. P.stack # <<>> /\ "wait" \in Own /\ "wait" \in Ats
  BY DEF AtTop, Own, Ats
<1>3. Told(g) /\ AtTop(g, {"wait"}) /\ Passes(P, g) /\ g.ret = None
  <2>1. "wait" \notin {"trial", "run"}
    OBVIOUS
  <2>. QED BY <1>1, <1>2, <2>1, GotoTold
<1>4. g \in GoodProcesses /\ g.code = P.code /\ g.last = P.last
  BY <1>1, <1>2, GotoGood, GotoHist
<1>5. child \in GoodProcesses
  BY <1>1, ChildGood
<1>6. child.stack = <<Frame(n)>> /\ child.ret = None /\ child.code = P.code
      /\ child.last = P.last
  <2>1. P \in Processes
    BY <1>1, ProcessesDef
  <2>. QED BY <2>1 DEF Processes
<1>7. Fork(P, t, n) = Append(ps, child)
  BY DEF Fork
<1>. HIDE DEF child, g
<1>8. Told(child)
  <2>1. <<Frame(n)>> # <<>> /\ Len(<<Frame(n)>>) = 1 /\ Top(<<Frame(n)>>) = Frame(n)
    BY DEF Top
  <2>2. Called(<<Frame(n)>>) /\ Frame(n).at = "start"
    BY <2>1 DEF Called, Frame
  <2>. QED BY <1>6, <2>1, <2>2 DEF Told, AtTop
<1>9. HistInv(ps)
  BY <1>3, <1>4, SetHist
<1>10. ps \in Seq(GoodProcesses) /\ Len(ps) = Len(procs) /\ ps[Len(procs)] = g
  BY <1>4, SetInv DEF ExecInv, ProcsInv
<1>. HIDE DEF ps
<1>11. ps # <<>> /\ Top(ps) = g
  <2>1. Len(procs) # 0 /\ Len(<<>>) = 0
    BY EmptySeq DEF ExecInv, ProcsInv
  <2>. QED BY <1>10, <2>1 DEF Top
<1>12. Fresh(g) => Fresh(child)
  BY <1>3, <1>4, <1>6 DEF Fresh
<1>13. HistInv(Append(ps, child))
  BY <1>3, <1>5, <1>8, <1>9, <1>10, <1>11, <1>12, AppendHist
<1>. QED BY <1>7, <1>13

\* A pipeline goes on with its next stage.
LEMMA NextStageTold ==
  ASSUME NEW p \in GoodProcesses, Told(p), AtTop(p, Own)
  PROVE  LET q == [Goto(p, "start") EXCEPT !.stack[Len(p.stack)].i = @ + 1]
         IN Told(q) /\ Passes(p, q)
<1>. DEFINE g == Goto(p, "start")
            m == Len(g.stack)
            f == [Top(g.stack) EXCEPT !.i = @ + 1]
            s == [g.stack EXCEPT ![m] = f]
            q == [g EXCEPT !.stack = s]
<1>1. p.stack # <<>> /\ "start" \in Ats /\ "start" \in Own /\ "start" \notin {"trial", "run"}
  BY DEF AtTop, Ats, Own
<1>2. /\ g \in GoodProcesses /\ g.stack \in Seq(GoodFrames) /\ g.stack # <<>>
      /\ m = Len(p.stack)
  BY <1>1, GotoGood, GotoHist
<1>3. Told(g) /\ Passes(p, g) /\ AtTop(g, {"start"}) /\ g.ret = None
  BY <1>1, GotoTold
<1>4. [g EXCEPT !.stack[Len(p.stack)].i = @ + 1] = q
  BY <1>2 DEF Top
<1>5. Top(g.stack) \in Frames
  BY <1>2, TopPop DEF GoodFrames
<1>6. f.at = Top(g.stack).at /\ f.node = Top(g.stack).node
  BY <1>5 DEF Frames
<1>7. q.stack = s /\ q.ret = g.ret /\ q.code = g.code /\ q.last = g.last /\ q.seen = g.seen
  <2>1. g \in Processes
    BY <1>2, ProcessesDef
  <2>. QED BY <2>1 DEF Processes
<1>. HIDE DEF g, f
<1>8. m \in 1..m /\ Len(s) = m /\ s[m] = f /\ \A j \in 1..m : j # m => s[j] = g.stack[j]
  <2>1. m \in 1..m /\ m \in Nat
    BY <1>2, EmptySeq
  <2>. QED BY <1>2, <2>1
<1>. HIDE DEF s
<1>9. \A j \in 1..m : s[j].at = g.stack[j].at /\ s[j].node = g.stack[j].node
  BY <1>6, <1>8 DEF Top
<1>10. HasRight(g.stack) => HasRight(s)
  BY <1>8, <1>9 DEF HasRight
<1>11. HasRight(s) => HasRight(g.stack)
  BY <1>8, <1>9 DEF HasRight
<1>12. Called(s)
  <2>1. \A j \in 1..m - 1 : j \in 1..m
    BY <1>8
  <2>. QED BY <1>3, <1>8, <1>9, <2>1 DEF Told, Called
<1>13. AtTop(q, {"start"})
  <2>1. s # <<>>
    <3>1. Len(<<>>) = 0 /\ m # 0
      BY <1>8, EmptySeq
    <3>. QED BY <1>8, <3>1
  <2>. QED BY <1>3, <1>6, <1>7, <1>8, <2>1 DEF AtTop, Top
<1>. HIDE DEF q, m
<1>14. Told(q)
  BY <1>3, <1>7, <1>12, <1>13 DEF Told, AtTop
<1>15. Passes(p, q)
  BY <1>3, <1>7, <1>10, <1>11 DEF Passes, Fresh
<1>. QED BY <1>4, <1>14, <1>15 DEF g

\* A process has ended: the one that waits for it takes its status or goes on.
LEMMA EndedHist ==
  ASSUME ExecInv, HistInv(procs), procs # <<>>, NEW c \in 0..255, NEW sig \in BOOLEAN
  PROVE  HistInv(Ended(procs, c, sig))
<1>1. procs \in Seq(GoodProcesses) /\ Len(procs) \in Nat \ {0}
  BY EmptySeq DEF ExecInv, ProcsInv
<1>2. CASE Len(procs) = 1
  <2>1. Ended(procs, c, sig) = <<>>
    BY <1>2 DEF Ended
  <2>2. Len(<<>>) = 0
    BY EmptySeq
  <2>. QED BY <2>1, <2>2 DEF HistInv
<1>3. CASE Len(procs) # 1
  <2>. DEFINE rest == Pop(procs)
              p == Top(rest)
              f == Top(p.stack)
              n == Nodes[f.node]
              sub == Complete(p, SubshellStatus(c, sig))
              done == Complete(p, IF sig THEN 137 ELSE c)
              next == [Goto(p, "start") EXCEPT !.stack[Len(p.stack)].i = @ + 1]
              new == IF n.op = "sub" THEN sub
                     ELSE IF f.i = Len(n.kids) THEN done ELSE next
  <2>1. rest \in Seq(GoodProcesses) /\ Len(rest) = Len(procs) - 1
    BY <1>1, TopPop
  <2>2. Ended(procs, c, sig) = [rest EXCEPT ![Len(rest)] = new]
    BY <1>3, <2>1 DEF Ended
  <2>3. HistInv(rest) /\ (rest # <<>> => AtTop(Top(rest), {"wait"}))
    BY <1>1, PopHist
  <2>. HIDE DEF rest
  <2>4. rest # <<>> /\ Len(rest) \in 1..Len(rest)
    BY <1>1, <1>3, <2>1, EmptySeq
  <2>5. p \in GoodProcesses /\ p = rest[Len(rest)]
    BY <2>1, <2>4, TopPop DEF Top
  <2>6. Told(p) /\ AtTop(p, {"wait"})
    BY <2>3, <2>4, <2>5 DEF HistInv
  <2>. HIDE DEF p
  <2>7. p.stack # <<>> /\ AtTop(p, Own) /\ Called(p.stack)
    BY <2>6 DEF AtTop, Own, Told
  <2>8. SubshellStatus(c, sig) \in 0..255 /\ (IF sig THEN 137 ELSE c) \in 0..255
    BY DEF SubshellStatus
  <2>9. \A d \in 0..255 : /\ Complete(p, d) \in GoodProcesses
                          /\ Told(Complete(p, d)) /\ Passes(p, Complete(p, d))
    BY <2>5, <2>7, ReturnGood, ReturnTold DEF Passes
  <2>10. /\ sub \in GoodProcesses /\ Told(sub) /\ Passes(p, sub)
         /\ done \in GoodProcesses /\ Told(done) /\ Passes(p, done)
    BY <2>8, <2>9
  <2>11. f.i # Len(n.kids) => next \in GoodProcesses
    BY <2>5, <2>7, NextStageGood
  <2>12. Told(next) /\ Passes(p, next)
    BY <2>5, <2>6, <2>7, NextStageTold
  <2>. HIDE DEF sub, done, next, f, n
  <2>13. new \in GoodProcesses /\ Told(new) /\ Passes(p, new)
    BY <2>10, <2>11, <2>12
  <2>. HIDE DEF new
  <2>14. HistInv([rest EXCEPT ![Len(rest)] = new])
    <3>1. Passes(Top(rest), new)
      BY <2>13 DEF p
    <3>. QED BY <2>1, <2>3, <2>4, <2>13, <3>1, ReplaceHist
  <2>. QED BY <2>2, <2>14
<1>. QED BY <1>2, <1>3

-----------------------------------------------------------------------------
(* The steps. *)

\* A node that is at one of its own points is the one that runs.
LEMMA RunsTold ==
  ASSUME ExecInv, HistInv(procs), NEW op, NEW at, Runs(op, at)
  PROVE  /\ procs # <<>> /\ P \in GoodProcesses /\ P.stack # <<>> /\ Told(P)
         /\ Top(P.stack).at = at /\ Nodes[Top(P.stack).node].op = op
         /\ at \in Own => AtTop(P, Own) /\ P.ret = None
         /\ at \in {"left", "right"} => P.ret \in 0..255 /\ P.ret = P.last
<1>1. procs # <<>> /\ P \in GoodProcesses /\ P.stack # <<>>
      /\ (at \in {"left", "right"} => P.ret \in 0..255)
  BY RunsDef
<1>2. Told(P)
  BY <1>1, TopTold
<1>3. Top(P.stack).at = at /\ Nodes[Top(P.stack).node].op = op
      /\ (at \in {"left", "right"} => P.ret # None)
  BY DEF Runs, F, N
<1>. QED BY <1>1, <1>2, <1>3 DEF Told, AtTop, Own

LEMMA HistInit == Init => HistInv(procs)
<1>. SUFFICES ASSUME Init PROVE HistInv(procs)
  OBVIOUS
<1>1. PICK tab \in Tables :
        procs = <<[stack |-> <<>>, ret |-> None, code |-> 0, tab |-> tab, base |-> tab,
                   lost |-> FALSE, last |-> 0, seen |-> 0]>>
  BY DEF Init
<1>2. Len(procs) = 1 /\ procs[1].stack = <<>> /\ procs[1].ret = None /\ procs[1].code = 0
      /\ procs[1].last = 0
  BY <1>1
<1>3. Told(procs[1]) /\ Fresh(procs[1])
  <2>1. Len(<<>>) = 0
    BY EmptySeq
  <2>. QED BY <1>2, <2>1 DEF Told, Fresh, AtTop, Called
<1>. QED BY <1>2, <1>3 DEF HistInv

LEMMA RunLineHist ==
  ASSUME ExecInv, HistInv(procs), NEW n \in Lines, RunLine(n)
  PROVE  HistInv(procs')
<1>. DEFINE q == [P EXCEPT !.stack = <<Frame(n)>>]
<1>1. Len(procs) = 1 /\ P.stack = <<>> /\ P.ret = None /\ procs' = Set(q)
  BY DEF RunLine, AtPrompt
<1>2. procs # <<>>
  BY <1>1
<1>3. P \in GoodProcesses /\ n \in DOMAIN Nodes
  BY <1>2, TopTold, LinesAssumption
<1>4. q \in GoodProcesses
  <2>1. <<Frame(n)>> \in Seq(GoodFrames)
    BY <1>3, FrameGood
  <2>. QED BY <1>3, <2>1, SetStack
<1>5. q.stack = <<Frame(n)>> /\ q.ret = None /\ q.code = P.code /\ q.last = P.last
  <2>1. P \in Processes
    BY <1>3, ProcessesDef
  <2>. QED BY <1>1, <2>1 DEF Processes
<1>. HIDE DEF q
<1>6. Told(q)
  <2>1. <<Frame(n)>> # <<>> /\ Len(<<Frame(n)>>) = 1 /\ Top(<<Frame(n)>>) = Frame(n)
    BY DEF Top
  <2>2. Called(<<Frame(n)>>) /\ Frame(n).at = "start"
    BY <2>1 DEF Called, Frame
  <2>. QED BY <1>5, <2>1, <2>2 DEF Told, AtTop
<1>7. ~HasRight(P.stack)
  BY <1>1, EmptySeq DEF HasRight
<1>8. Passes(P, q)
  BY <1>1, <1>5, <1>7 DEF Passes, Fresh
<1>. QED BY <1>1, <1>2, <1>4, <1>6, <1>8, SetHist

LEMMA EndLineHist ==
  ASSUME ExecInv, HistInv(procs), EndLine
  PROVE  HistInv(procs')
<1>. DEFINE q == [P EXCEPT !.code = P.ret]
            r == [q EXCEPT !.ret = None]
<1>1. procs # <<>> /\ P.ret # None /\ P.stack = <<>>
  BY DEF EndLine
<1>2. P \in GoodProcesses /\ P.ret \in 0..255 /\ Told(P)
  BY <1>1, TopTold, ProcessesDef
<1>3. procs' = Set(r)
  BY DEF EndLine
<1>4. q \in GoodProcesses
  BY <1>2, SetCode
<1>5. r \in GoodProcesses
  <2>. HIDE DEF q
  <2>. QED BY <1>4, SetRet
<1>6. r.stack = <<>> /\ r.ret = None /\ r.code = r.last
  <2>1. P \in Processes /\ P.ret = P.last
    BY <1>1, <1>2, ProcessesDef DEF Told
  <2>. QED BY <1>1, <2>1 DEF Processes
<1>. HIDE DEF r
<1>7. Told(r) /\ Fresh(r)
  BY <1>6, EmptySeq DEF Told, Fresh, AtTop, Called
<1>. QED BY <1>1, <1>3, <1>5, <1>7, SetHist DEF Passes

LEMMA ListsHist ==
  ASSUME ExecInv, HistInv(procs), Lists
  PROVE  HistInv(procs')
<1>0. "start" \in Own
  BY DEF Own
<1>1. CASE Descend
  <2>. DEFINE q == Call(P, "left", N.kids[1])
  <2>1. PICK op \in {"seq", "and", "or"} : Runs(op, "start") /\ procs' = Set(q)
    BY <1>1 DEF Descend
  <2>2. N.kids[1] \in DOMAIN Nodes
    BY <2>1, RunsDef DEF Arity
  <2>3. P \in GoodProcesses /\ P.stack # <<>> /\ Told(P) /\ Top(P.stack).at = "start"
        /\ P.ret = None /\ procs # <<>>
    BY <1>0, <2>1, RunsTold
  <2>4. q \in GoodProcesses
    BY <2>2, <2>3, CallGood DEF Ats
  <2>5. /\ Told(q) /\ q.ret = None /\ q.code = P.code /\ q.last = P.last
        /\ HasRight(P.stack) => HasRight(q.stack)
    BY <2>2, <2>3, CallTold DEF Told
  <2>. HIDE DEF q
  <2>6. Passes(P, q)
    BY <2>3, <2>5 DEF Passes, Fresh
  <2>. QED BY <2>1, <2>3, <2>4, <2>5, <2>6, SetHist
<1>2. CASE SequenceLeft
  <2>. DEFINE p == [P EXCEPT !.code = P.ret]
              call == Call(p, "right", N.kids[2])
              back == Return(p, P.ret)
  <2>1. Runs("seq", "left") /\ procs' = Set(IF Len(N.kids) = 2 THEN call ELSE back)
    BY <1>2 DEF SequenceLeft
  <2>2. procs # <<>> /\ P \in GoodProcesses /\ P.stack # <<>> /\ P.ret \in 0..255
        /\ (Len(N.kids) = 2 => N.kids[2] \in DOMAIN Nodes) /\ Told(P) /\ P.ret = P.last
    BY <2>1, RunsDef, RunsTold
  <2>3. p \in GoodProcesses /\ p.stack = P.stack
    BY <2>2, SetCode
  <2>4. p.code = P.ret /\ p.last = P.ret
    <3>1. P \in Processes
      BY <2>2, ProcessesDef
    <3>. QED BY <2>2, <3>1 DEF Processes
  <2>. HIDE DEF p
  <2>5. Called(p.stack) /\ p.stack # <<>>
    BY <2>2, <2>3 DEF Told
  <2>6. Len(N.kids) = 2 => call \in GoodProcesses /\ Told(call) /\ Fresh(call)
    <3>. SUFFICES ASSUME Len(N.kids) = 2 PROVE call \in GoodProcesses /\ Told(call) /\ Fresh(call)
      OBVIOUS
    <3>1. call \in GoodProcesses
      BY <2>2, <2>3, <2>5, CallGood DEF Ats
    <3>2. Told(call) /\ call.code = p.code /\ call.last = p.last
      BY <2>2, <2>3, <2>5, CallTold
    <3>. QED BY <2>4, <3>1, <3>2 DEF Fresh
  <2>7. back \in GoodProcesses /\ Told(back) /\ Fresh(back)
    BY <2>2, <2>3, <2>4, <2>5, ReturnGood, ReturnTold
  <2>. HIDE DEF call, back
  <2>8. PICK q \in GoodProcesses : procs' = Set(q) /\ Told(q) /\ Fresh(q)
    BY <2>1, <2>6, <2>7
  <2>. QED BY <2>2, <2>8, SetHist DEF Passes
<1>3. CASE SequenceRight
  <2>. DEFINE p == [P EXCEPT !.code = P.ret]
  <2>1. Runs("seq", "right") /\ procs' = Set(Return(p, P.ret))
    BY <1>3 DEF SequenceRight
  <2>2. procs # <<>> /\ P \in GoodProcesses /\ P.stack # <<>> /\ P.ret \in 0..255
        /\ Told(P) /\ P.ret = P.last
    BY <2>1, RunsTold
  <2>3. p \in GoodProcesses /\ p.stack = P.stack
    BY <2>2, SetCode
  <2>4. p.last = P.ret
    <3>1. P \in Processes
      BY <2>2, ProcessesDef
    <3>. QED BY <2>2, <3>1 DEF Processes
  <2>. HIDE DEF p
  <2>5. Called(p.stack) /\ p.stack # <<>>
    BY <2>2, <2>3 DEF Told
  <2>6. Return(p, P.ret) \in GoodProcesses /\ Told(Return(p, P.ret)) /\ Fresh(Return(p, P.ret))
    BY <2>2, <2>3, <2>4, <2>5, ReturnGood, ReturnTold
  <2>. QED BY <2>1, <2>2, <2>6, SetHist DEF Passes
<1>4. CASE AndOrLeft
  <2>. DEFINE call == Call(P, "right", N.kids[2])
              back == Return(P, P.ret)
  <2>1. PICK op \in {"and", "or"} : Runs(op, "left")
    BY <1>4 DEF AndOrLeft
  <2>2. procs # <<>> /\ P \in GoodProcesses /\ P.stack # <<>> /\ P.ret \in 0..255
        /\ Told(P) /\ P.ret = P.last /\ Nodes[Top(P.stack).node].op \in {"and", "or"}
    BY <2>1, RunsTold
  <2>3. N.kids[2] \in DOMAIN Nodes
    BY <2>1, RunsDef DEF Arity
  <2>4. call \in GoodProcesses /\ Told(call) /\ HasRight(call.stack)
    <3>1. call \in GoodProcesses
      BY <2>2, <2>3, CallGood DEF Ats
    <3>. QED BY <2>2, <2>3, <3>1, CallTold DEF Told
  <2>5. back \in GoodProcesses /\ Told(back) /\ Fresh(back)
    BY <2>2, ReturnGood, ReturnTold DEF Told
  <2>6. procs' = Set(call) \/ procs' = Set(back)
    BY <1>4 DEF AndOrLeft
  <2>. HIDE DEF call, back
  <2>7. PICK q \in GoodProcesses : procs' = Set(q) /\ Told(q) /\ (Fresh(q) \/ HasRight(q.stack))
    BY <2>4, <2>5, <2>6
  <2>. QED BY <2>2, <2>7, SetHist DEF Passes
<1>5. CASE AndOrRight
  <2>1. PICK op \in {"and", "or"} : Runs(op, "right") /\ procs' = Set(Return(P, P.ret))
    BY <1>5 DEF AndOrRight
  <2>2. procs # <<>> /\ P \in GoodProcesses /\ P.stack # <<>> /\ P.ret \in 0..255
        /\ Told(P) /\ P.ret = P.last
    BY <2>1, RunsTold
  <2>3. Return(P, P.ret) \in GoodProcesses /\ Told(Return(P, P.ret)) /\ Fresh(Return(P, P.ret))
    BY <2>2, ReturnGood, ReturnTold DEF Told
  <2>. QED BY <2>1, <2>2, <2>3, SetHist DEF Passes
<1>. QED BY <1>1, <1>2, <1>3, <1>4, <1>5 DEF Lists

LEMMA ChildrenHist ==
  ASSUME ExecInv, HistInv(procs), Children
  PROVE  HistInv(procs')
<1>0. "start" \in Own /\ 1 \in 0..255 /\ FALSE \in BOOLEAN
  BY DEF Own
<1>1. CASE SubshellForkFails
  <2>1. Runs("sub", "start") /\ Finish(P, 1)
    BY <1>1 DEF SubshellForkFails
  <2>. QED BY <2>1, RunsDef, FinishHist
<1>2. CASE Stage
  <2>. DEFINE first == F.i = 1
              last == F.i = Len(N.kids)
              tab == Connect(P.tab, first, last)
  <2>1. Runs("pipe", "start")
    BY <1>2 DEF Stage
  <2>2. procs # <<>> /\ Open3(P.tab) /\ F \in GoodFrames /\ F.i \in Nat \ {0} /\ N.op = "pipe"
        /\ Len(N.kids) \in Nat /\ \A k \in 1..Len(N.kids) : N.kids[k] \in DOMAIN Nodes
    BY <2>1, RunsDef
  <2>3. AtTop(P, Own)
    BY <1>0, <2>1, RunsTold
  <2>4. N.kids[F.i] \in DOMAIN Nodes
    BY <2>2 DEF GoodFrames, N
  <2>5. first \in BOOLEAN /\ last \in BOOLEAN
    OBVIOUS
  <2>6. procs' = Fork(P, tab, N.kids[F.i])
    BY <1>2 DEF Stage
  <2>. HIDE DEF first, last
  <2>7. Open3(tab)
    BY <2>2, <2>5, ConnectKeeps
  <2>. HIDE DEF tab
  <2>. QED BY <2>2, <2>3, <2>4, <2>6, <2>7, ForkHist
<1>3. CASE ChildEnds
  <2>1. procs # <<>> /\ P.ret # None /\ procs' = Ended(procs, P.ret % 256, FALSE)
    BY <1>3 DEF ChildEnds, ExitProcess
  <2>2. P.ret % 256 \in 0..255
    <3>1. P.ret \in {None} \cup 0..255 /\ P.ret # None
      BY <2>1, TopTold, ProcessesDef
    <3>. QED BY <3>1
  <2>. QED BY <1>0, <2>1, <2>2, EndedHist, Zenon
<1>4. ASSUME NEW bad \in Bads, Subshell(bad)
      PROVE  HistInv(procs')
  <2>. DEFINE a == Apply(P.tab, N.redirs, bad)
  <2>1. Runs("sub", "start")
    BY <1>4 DEF Subshell
  <2>2. procs # <<>> /\ P \in GoodProcesses /\ P.stack # <<>> /\ N.kids[1] \in DOMAIN Nodes
    BY <2>1, RunsDef DEF Arity
  <2>3. AtTop(P, Own)
    BY <1>0, <2>1, RunsTold
  <2>4. Open3(a.tab) /\ a.res \in {"ok", "failed", "stuck"}
    BY <2>1, RunsDef, ApplyKeeps
  <2>5. /\ a.res = "ok" => procs' = Fork(P, a.tab, N.kids[1])
        /\ a.res = "failed" => Finish(P, 1)
        /\ a.res = "stuck" => procs' = procs
    BY <1>4 DEF Subshell, Blocks
  <2>. HIDE DEF a
  <2>6. CASE a.res = "ok"
    BY <2>2, <2>3, <2>4, <2>5, <2>6, ForkHist
  <2>7. CASE a.res = "failed"
    BY <1>0, <2>2, <2>5, <2>7, FinishHist
  <2>8. CASE a.res = "stuck"
    BY <2>5, <2>8
  <2>. QED BY <2>4, <2>6, <2>7, <2>8
<1>5. ASSUME NEW made \in BOOLEAN, StageFails(made)
      PROVE  HistInv(procs')
  <2>1. PICK q \in GoodProcesses : q.stack = P.stack /\ Finish(q, 1)
    BY <1>5, StageFailsGood, Zenon
  <2>2. Runs("pipe", "start")
    BY <1>5 DEF StageFails
  <2>3. procs # <<>> /\ q.stack # <<>>
    BY <2>1, <2>2, RunsDef
  <2>. QED BY <1>0, <2>1, <2>3, FinishHist, Zenon
<1>. QED BY <1>1, <1>2, <1>3, <1>4, <1>5 DEF Children

\* A command that returns c with the table it had, and one that ends its process.
LEMMA RunHist ==
  ASSUME ExecInv, HistInv(procs), NEW progs, Running(progs), CanRun, NEW bad, NEW c \in 0..255,
         Finish([P EXCEPT !.tab = Afterwards(bad)], c)
  PROVE  HistInv(procs')
<1>1. [P EXCEPT !.tab = Afterwards(bad)] = P
  BY RunningDef, AfterwardsSame
<1>. QED BY <1>1, RunningDef, FinishHist

LEMMA EndsHist ==
  ASSUME ExecInv, HistInv(procs), NEW progs, Running(progs), NEW c \in Int, ExitProcess(c)
  PROVE  HistInv(procs')
<1>1. procs # <<>> /\ procs' = Ended(procs, c % 256, FALSE)
  BY RunningDef DEF ExitProcess
<1>2. c % 256 \in 0..255 /\ FALSE \in BOOLEAN
  OBVIOUS
<1>. QED BY <1>1, <1>2, EndedHist, Zenon

\* exec_command goes on to its next point.
LEMMA GotoStepHist ==
  ASSUME ExecInv, HistInv(procs), NEW at, Runs("cmd", at), at \in Own, NEW to \in Own,
         NEW p \in GoodProcesses, p.stack = P.stack, p.ret = P.ret, p.code = P.code,
         p.last = P.last, p.seen = p.code, procs' = Set(Goto(p, to))
  PROVE  HistInv(procs')
<1>1. procs # <<>> /\ P.stack # <<>> /\ Told(P) /\ AtTop(P, Own)
  BY RunsTold
<1>2. Told(p) /\ AtTop(p, Own)
  BY <1>1 DEF Told, AtTop
<1>3. Told(Goto(p, to)) /\ Passes(p, Goto(p, to))
  BY <1>2, GotoTold
<1>4. Goto(p, to) \in GoodProcesses
  BY <1>1, GotoGood DEF Own, Ats
<1>5. Passes(P, Goto(p, to))
  BY <1>3 DEF Passes, Fresh
<1>. QED BY <1>1, <1>3, <1>4, <1>5, SetHist

LEMMA CommandsHist ==
  ASSUME ExecInv, HistInv(procs), Commands
  PROVE  HistInv(procs')
<1>0. /\ {"start", "trial", "run"} \subseteq Own /\ {0, 1, 2} \subseteq 0..255
      /\ 0 \in 0..255 /\ 1 \in 0..255 /\ 2 \in 0..255 /\ 2 \in Int
  BY DEF Own
<1>1. CASE Expand
  <2>. DEFINE q == [P EXCEPT !.seen = P.code]
              to == IF N.redirs = <<>> THEN "run" ELSE "trial"
  <2>1. Runs("cmd", "start") /\ procs' = Set(Goto(q, to))
    BY <1>1 DEF Expand
  <2>2. P \in GoodProcesses /\ P.code \in 0..255
    BY <2>1, RunsDef, ProcessesDef
  <2>3. q \in GoodProcesses /\ to \in Own
    BY <1>0, <2>2, SetSeen
  <2>4. q.stack = P.stack /\ q.ret = P.ret /\ q.code = P.code /\ q.last = P.last
        /\ q.seen = q.code
    <3>1. P \in Processes
      BY <2>2, ProcessesDef
    <3>. QED BY <3>1 DEF Processes
  <2>. HIDE DEF q, to
  <2>. QED BY <1>0, <2>1, <2>3, <2>4, GotoStepHist
<1>2. CASE TrialForkFails
  <2>1. Runs("cmd", "trial") /\ Finish(P, 1)
    BY <1>2 DEF TrialForkFails
  <2>. QED BY <1>0, <2>1, RunsDef, FinishHist
<1>3. CASE DupFails
  <2>1. PICK q \in GoodProcesses : q.stack = P.stack /\ Finish(q, 1)
    BY <1>3, DupFailsGood, Zenon
  <2>2. Running(Progs \ {"program"})
    BY <1>3 DEF DupFails
  <2>3. procs # <<>> /\ q.stack # <<>>
    BY <2>1, <2>2, RunningDef
  <2>. QED BY <1>0, <2>1, <2>3, FinishHist, Zenon
<1>4. CASE TooMany
  BY <1>0, <1>4, EndsHist, Zenon DEF TooMany
<1>5. ASSUME NEW bad \in Bads, Trial(bad)
      PROVE  HistInv(procs')
  <2>. DEFINE a == Apply(P.tab, N.redirs, bad)
  <2>1. Runs("cmd", "trial")
    BY <1>5 DEF Trial
  <2>2. procs # <<>> /\ P \in GoodProcesses /\ P.stack # <<>>
    BY <2>1, RunsDef
  <2>3. a.res \in {"ok", "failed", "stuck"}
    BY <2>1, RunsDef, ApplyKeeps
  <2>4. /\ a.res = "ok" => procs' = Set(Goto(P, "run"))
        /\ a.res = "failed" => Finish(P, 1)
        /\ a.res = "stuck" => procs' = procs
    BY <1>5 DEF Trial, Blocks
  <2>. HIDE DEF a
  <2>5. CASE a.res = "ok"
    <3>1. P.seen = P.code
      BY <2>1, RunsTold DEF Told, AtTop
    <3>. QED BY <1>0, <2>1, <2>2, <2>4, <2>5, <3>1, GotoStepHist
  <2>6. CASE a.res = "failed"
    BY <1>0, <2>2, <2>4, <2>6, FinishHist
  <2>7. CASE a.res = "stuck"
    BY <2>4, <2>7
  <2>. QED BY <2>3, <2>5, <2>6, <2>7
<1>6. ASSUME NEW bad \in Bads, RedirsFail(bad)
      PROVE  HistInv(procs')
  BY <1>0, <1>6, RunHist, Zenon DEF RedirsFail
<1>7. ASSUME NEW bad \in Bads, RedirsOnly(bad)
      PROVE  HistInv(procs')
  BY <1>0, <1>7, RunHist, Zenon DEF RedirsOnly
<1>8. ASSUME NEW bad \in Bads, ExitReturns(bad)
      PROVE  HistInv(procs')
  BY <1>0, <1>8, RunHist, Zenon DEF ExitReturns
<1>9. ASSUME NEW bad \in Bads, NEW c \in Codes, Builtin(bad, c)
      PROVE  HistInv(procs')
  <2>1. c \in 0..255
    BY CodesAssumption
  <2>. QED BY <1>9, <2>1, RunHist, Zenon DEF Builtin
<1>10. ASSUME NEW bad \in Bads, NEW c \in Codes, SpecialFails(bad, c)
       PROVE  HistInv(procs')
  <2>1. c \in Int
    BY CodesAssumption
  <2>. QED BY <1>10, <2>1, EndsHist, Zenon DEF SpecialFails
<1>11. ASSUME NEW bad \in Bads, NEW c \in Codes, Program(bad, c)
       PROVE  HistInv(procs')
  <2>. DEFINE r == IF Apply(P.tab, N.redirs, bad).res = "ok" THEN c ELSE 1
  <2>1. r \in 0..255
    BY CodesAssumption
  <2>2. Running({"program"}) /\ Finish(P, r)
    BY <1>11 DEF Program
  <2>. HIDE DEF r
  <2>. QED BY <2>1, <2>2, RunningDef, FinishHist
<1>12. ASSUME NEW bad \in Bads, NEW c \in Statuses, Exit(bad, c)
       PROVE  HistInv(procs')
  <2>1. c \in Int
    BY CodesAssumption
  <2>. QED BY <1>12, <2>1, EndsHist, Zenon DEF Exit
<1>. QED BY <1>1, <1>2, <1>3, <1>4, <1>5, <1>6, <1>7, <1>8, <1>9, <1>10, <1>11, <1>12
         DEF Commands

LEMMA HistStep == ExecInv /\ HistInv(procs) /\ [Next]_vars => HistInv(procs')
<1>. SUFFICES ASSUME ExecInv, HistInv(procs), [Next]_vars PROVE HistInv(procs')
  OBVIOUS
<1>1. CASE \E n \in Lines : RunLine(n)
  BY <1>1, RunLineHist
<1>2. CASE Shell
  BY <1>2, EndLineHist, ListsHist, ChildrenHist, CommandsHist DEF Shell
<1>3. CASE Killed
  <2>1. Runs("cmd", "start") /\ procs' = Ended(procs, 0, TRUE)
    BY <1>3 DEF Killed
  <2>2. procs # <<>> /\ 0 \in 0..255 /\ TRUE \in BOOLEAN
    BY <2>1, RunsDef
  <2>. QED BY <2>1, <2>2, EndedHist, Zenon
<1>4. CASE UNCHANGED vars
  BY <1>4 DEF vars
<1>. QED BY <1>1, <1>2, <1>3, <1>4 DEF Next

\* $? is the exit status of the command before, in the process that runs the command or
\* in those that forked it, whatever failed, was killed or exited in between: set_code
\* is called often enough, except for the right sides of && and ||.
THEOREM StatusIsSeen == Spec => []SeesLastElsewhere
<1>1. ExecInv /\ HistInv(procs) => SeesLastElsewhere
  <2>. SUFFICES ASSUME ExecInv, HistInv(procs), IsExpanded, ~OnTheRight
                PROVE  P.seen = P.last
    BY DEF SeesLastElsewhere
  <2>1. procs # <<>> /\ AtTop(P, {"trial", "run"})
    BY DEF IsExpanded, AtTop, F
  <2>2. Told(P) /\ (Right(procs, Len(procs)) \/ Fresh(P))
    BY <2>1, TopTold
  <2>3. ~Right(procs, Len(procs))
    BY DEF OnTheRight, Right, HasRight
  <2>4. AtTop(P, Own)
    BY <2>1 DEF AtTop, Own
  <2>. QED BY <2>1, <2>2, <2>3, <2>4 DEF Told, Fresh
<1>2. ExecInv /\ HistInv(procs) /\ [Next]_vars => (ExecInv /\ HistInv(procs))'
  BY ExecStep, HistStep
<1>3. Init => ExecInv /\ HistInv(procs)
  BY ExecInit, HistInit
<1>. QED BY <1>1, <1>2, <1>3, PTL DEF Spec
=============================================================================
