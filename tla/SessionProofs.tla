---------------------------- MODULE SessionProofs ----------------------------
(***************************************************************************)
(* Where cd and pwd lead, in Session, for every sequence of commands and   *)
(* of renamed and removed directories.                                     *)
(*                                                                         *)
(* OLDPWD is a name that leads to the directory before until one is moved  *)
(* or somebody else sets it, and the PWD cd sets never has two slashes and *)
(* a name behind them while the shell is in the root: that, and nothing    *)
(* else, is what makes it safe to print a PWD that is not the physical     *)
(* name.                                                                   *)
(***************************************************************************)
EXTENDS Session, SequenceTheorems, WellFoundedInduction, TLAPS

-----------------------------------------------------------------------------
(* The directories. *)

FsInv(dirs) ==
  /\ DOMAIN dirs = DOMAIN Directories
  /\ dirs[Root] = <<"/">>
  /\ \A i \in DOMAIN dirs \ {Root} : dirs[i] = Gone \/ \E n : n \notin {"/", "."} /\ dirs[i] = <<"/", n>>
  /\ \A i, j \in DOMAIN dirs : dirs[i] = dirs[j] /\ dirs[i] # Gone => i = j

LEMMA FsDef ==
  ASSUME NEW dirs, FsInv(dirs)
  PROVE  Root \in DOMAIN dirs /\ Nowhere \notin DOMAIN dirs /\ Root # Nowhere
BY DirectoriesAssumption DEF FsInv, Root, Nowhere

LEMMA FsInit == FsInv(Directories)
BY DirectoriesAssumption DEF FsInv, InRoot

\* A path leads to a directory or nowhere.
LEMMA LookupLeads ==
  ASSUME NEW dirs, FsInv(dirs), NEW from \in DOMAIN dirs, NEW s
  PROVE  Lookup(dirs, from, s) \in DOMAIN dirs \cup {Nowhere}
<1>. DEFINE names == {k \in 1..Len(s) : s[k] \notin {"/", "."}}
            found == {i \in DOMAIN dirs : \E k \in names : dirs[i] = <<"/", s[k]>>}
<1>1. Root \in DOMAIN dirs
  BY FsDef
<1>2. \/ Lookup(dirs, from, s) \in {Root, from, Nowhere}
      \/ found # {} /\ Lookup(dirs, from, s) = CHOOSE i \in found : TRUE
  BY DEF Lookup
<1>. HIDE DEF names
<1>3. found # {} => (CHOOSE i \in found : TRUE) \in DOMAIN dirs
  OBVIOUS
<1>. QED BY <1>1, <1>2, <1>3

\* The physical name of a directory leads there from everywhere, and so it does behind
\* another slash; slashes lead to the root.
LEMMA LookupSlashes ==
  ASSUME NEW dirs, NEW from, NEW s, s # <<>>, Len(s) \in {1, 2},
         \A k \in 1..Len(s) : s[k] = "/"
  PROVE  Lookup(dirs, from, s) = Root
<1>1. {k \in 1..Len(s) : s[k] \notin {"/", "."}} = {}
  OBVIOUS
<1>2. s[1] = "/" /\ \A k \in 1..Len(s) - 1 : "/" \in {s[k], s[k + 1]}
  OBVIOUS
<1>. QED BY <1>1, <1>2 DEF Lookup

LEMMA LookupName ==
  ASSUME NEW dirs, FsInv(dirs), NEW from, NEW i \in DOMAIN dirs, NEW n, n \notin {"/", "."},
         dirs[i] = <<"/", n>>, NEW s, s # <<>>, Len(s) \in {2, 3}, s[Len(s)] = n,
         \A k \in 1..Len(s) : k # Len(s) => s[k] = "/"
  PROVE  Lookup(dirs, from, s) = i
<1>. DEFINE names == {k \in 1..Len(s) : s[k] \notin {"/", "."}}
            found == {j \in DOMAIN dirs : \E k \in names : dirs[j] = <<"/", s[k]>>}
<1>1. s[1] = "/"
  OBVIOUS
<1>2. names = {Len(s)}
  OBVIOUS
<1>3. \A k \in 1..Len(s) - 1 : "/" \in {s[k], s[k + 1]}
  OBVIOUS
<1>4. found = {i}
  <2>1. dirs[i] # Gone
    BY DEF Gone
  <2>2. \A j \in DOMAIN dirs : dirs[j] = <<"/", n>> => j = i
    BY <2>1 DEF FsInv
  <2>. QED BY <1>1, <1>2, <2>2
<1>. HIDE DEF names, found
<1>5. \E k \in names : names = {k}
  BY <1>2
<1>6. names # {} /\ found # {} /\ (CHOOSE j \in found : TRUE) = i
  BY <1>4, <1>5
<1>. QED BY <1>1, <1>3, <1>5, <1>6 DEF Lookup, names, found

\* A physical name has one symbol, of the root, or two.
LEMMA PhysicalName ==
  ASSUME NEW dirs, FsInv(dirs), NEW i \in DOMAIN dirs, dirs[i] # Gone, i # Root
  PROVE  \E n : /\ n \notin {"/", "."} /\ dirs[i] = <<"/", n>>
                /\ dirs[i] # <<>> /\ Len(dirs[i]) = 2 /\ dirs[i][1] = "/" /\ dirs[i][2] = n
<1>1. PICK n : n \notin {"/", "."} /\ dirs[i] = <<"/", n>>
  BY DEF FsInv
<1>2. <<"/", n>> # <<>> /\ Len(<<"/", n>>) = 2 /\ <<"/", n>>[1] = "/" /\ <<"/", n>>[2] = n
  OBVIOUS
<1>. QED BY <1>1, <1>2

\* A slash in front of a name.
LEMMA WithSlash ==
  ASSUME NEW S, "/" \in S, NEW s \in Seq(S)
  PROVE  /\ <<"/">> \o s # <<>> /\ Len(<<"/">> \o s) = Len(s) + 1 /\ Len(s) \in Nat
         /\ \A k \in 1..Len(s) + 1 : (<<"/">> \o s)[k] = IF k = 1 THEN "/" ELSE s[k - 1]
<1>1. <<"/">> \in Seq(S) /\ Len(<<"/">>) = 1 /\ <<"/">>[1] = "/" /\ Len(s) \in Nat
  OBVIOUS
<1>2. /\ <<"/">> \o s \in Seq(S) /\ Len(<<"/">> \o s) = 1 + Len(s)
      /\ \A k \in 1..1 + Len(s) : (<<"/">> \o s)[k] = IF k <= 1 THEN <<"/">>[k] ELSE s[k - 1]
  BY <1>1, ConcatProperties
<1>3. <<"/">> \o s # <<>>
  BY <1>1, <1>2, EmptySeq
<1>4. \A k \in 1..Len(s) + 1 : (<<"/">> \o s)[k] = IF k = 1 THEN "/" ELSE s[k - 1]
  <2>. SUFFICES ASSUME NEW k \in 1..Len(s) + 1
                PROVE  (<<"/">> \o s)[k] = IF k = 1 THEN "/" ELSE s[k - 1]
    OBVIOUS
  <2>1. k \in 1..1 + Len(s) /\ (k <= 1 <=> k = 1)
    BY <1>1
  <2>. QED BY <1>1, <1>2, <2>1
<1>. QED BY <1>1, <1>2, <1>3, <1>4

LEMMA LookupPhysical ==
  ASSUME NEW dirs, FsInv(dirs), NEW from, NEW i \in DOMAIN dirs, dirs[i] # Gone
  PROVE  Lookup(dirs, from, dirs[i]) = i /\ Lookup(dirs, from, <<"/">> \o dirs[i]) = i
<1>. DEFINE s == <<"/">> \o dirs[i]
<1>1. CASE i = Root
  <2>1. dirs[i] = <<"/">>
    BY <1>1 DEF FsInv
  <2>2. dirs[i] # <<>> /\ Len(dirs[i]) = 1 /\ dirs[i][1] = "/" /\ dirs[i] \in Seq({"/"})
    BY <2>1
  <2>3. s # <<>> /\ Len(s) = 2 /\ \A k \in 1..2 : s[k] = "/"
    BY <2>2, WithSlash
  <2>. HIDE DEF s
  <2>4. Lookup(dirs, from, s) = Root
    BY <2>3, LookupSlashes
  <2>5. Lookup(dirs, from, dirs[i]) = Root
    BY <2>2, LookupSlashes
  <2>. QED BY <1>1, <2>4, <2>5 DEF s
<1>2. CASE i # Root
  <2>1. PICK n : /\ n \notin {"/", "."} /\ dirs[i] = <<"/", n>>
                 /\ dirs[i] # <<>> /\ Len(dirs[i]) = 2 /\ dirs[i][1] = "/" /\ dirs[i][2] = n
    BY <1>2, PhysicalName
  <2>2. dirs[i] \in Seq({"/", n})
    BY <2>1
  <2>3. s # <<>> /\ Len(s) = 3 /\ s[1] = "/" /\ s[2] = "/" /\ s[3] = n
    BY <2>1, <2>2, WithSlash
  <2>. DEFINE t == dirs[i]
  <2>4. t # <<>> /\ Len(t) = 2 /\ t[1] = "/" /\ t[2] = n
    BY <2>1
  <2>. HIDE DEF s, t
  <2>5. Len(s) \in {2, 3} /\ s[Len(s)] = n /\ \A k \in 1..Len(s) : k # Len(s) => s[k] = "/"
    BY <2>3
  <2>6. Len(t) \in {2, 3} /\ t[Len(t)] = n /\ \A k \in 1..Len(t) : k # Len(t) => t[k] = "/"
    BY <2>4
  <2>7. n \notin {"/", "."} /\ dirs[i] = <<"/", n>>
    BY <2>1
  <2>8. Lookup(dirs, from, s) = i
    BY <2>3, <2>5, <2>7, LookupName
  <2>9. Lookup(dirs, from, t) = i
    BY <2>4, <2>6, <2>7, LookupName
  <2>. QED BY <2>8, <2>9 DEF s, t
<1>. QED BY <1>1, <1>2

-----------------------------------------------------------------------------
(* The builtins. *)

World(dirs, dir, e) == [fs |-> dirs, cwd |-> dir, env |-> e, status |-> 0, said |-> <<>>]

\* In the root, a PWD with two slashes in front is nothing but slashes.
OwnPwd(e, dir) ==
  PWD \in DOMAIN e /\ Len(e[PWD]) >= 2 /\ e[PWD][1] = "/" /\ e[PWD][2] = "/" /\ dir = Root
    => Len(e[PWD]) = 2

\* What cd sets when it came from prior to dir.
PwdSet(dirs, dir, e, prior, new) ==
  /\ PWD \in DOMAIN new /\ OLDPWD \in DOMAIN new /\ new[OLDPWD] = prior
  /\ OwnPwd(new, dir)
  /\ dirs[dir] # Gone => \A any : Lookup(dirs, any, new[PWD]) = dir
  /\ \A key : key \notin {PWD, OLDPWD} => Entry(new, key) = Entry(e, key)

\* A path that is nothing but two slashes, as cd was given it.
OnlySlashes(raw) == Len(raw) = 2 /\ raw[1] = "/" /\ raw[2] = "/"

\* What cd_update_pwd sets, if the path it was called with does not name the root while
\* the shell is elsewhere.
LEMMA UpdatePwdSets ==
  ASSUME NEW dirs, FsInv(dirs), NEW dir \in DOMAIN dirs, NEW e, NEW prior, NEW raw, NEW rest,
         OnlySlashes(raw) => dir = Root
  PROVE  PwdSet(dirs, dir, e, prior, UpdatePwd(e, dirs[dir], prior, raw, rest))
<1>. DEFINE phys == dirs[dir]
            pwd == NewPwd(phys, raw, rest)
            new == SetEnv(SetEnv(e, OLDPWD, prior), PWD, pwd)
<1>1. UpdatePwd(e, dirs[dir], prior, raw, rest) = new
  BY DEF UpdatePwd
<1>2. PWD # OLDPWD
  BY DEF PWD, OLDPWD
<1>3. \/ pwd = phys
      \/ pwd = raw /\ OnlySlashes(raw)
      \/ phys = Gone /\ pwd = <<"/", "/">> \o rest
      \/ pwd = <<"/">> \o phys
  BY DEF NewPwd, OnlySlashes
<1>. HIDE DEF pwd, phys
<1>4. /\ PWD \in DOMAIN new /\ OLDPWD \in DOMAIN new /\ new[OLDPWD] = prior /\ new[PWD] = pwd
      /\ \A key : key \notin {PWD, OLDPWD} => Entry(new, key) = Entry(e, key)
  BY <1>2 DEF SetEnv, Entry
<1>5. \A any : pwd = raw /\ OnlySlashes(raw) => Lookup(dirs, any, pwd) = dir
  <2>. SUFFICES ASSUME NEW any, pwd = raw, Len(raw) = 2, raw[1] = "/", raw[2] = "/", dir = Root
                PROVE  Lookup(dirs, any, pwd) = dir
    BY DEF OnlySlashes
  <2>1. Len(raw) \in {1, 2} /\ \A k \in 1..Len(raw) : raw[k] = "/"
    OBVIOUS
  <2>2. raw # <<>>
    <3>1. Len(<<>>) = 0
      OBVIOUS
    <3>2. raw = <<>> => Len(raw) = Len(<<>>)
      BY Zenon
    <3>. QED BY <3>1, <3>2
  <2>. QED BY <2>1, <2>2, LookupSlashes
<1>6. dirs[dir] # Gone => \A any : Lookup(dirs, any, pwd) = dir
  <2>. SUFFICES ASSUME dirs[dir] # Gone, NEW any PROVE Lookup(dirs, any, pwd) = dir
    OBVIOUS
  <2>1. Lookup(dirs, any, phys) = dir /\ Lookup(dirs, any, <<"/">> \o phys) = dir
    BY LookupPhysical DEF phys
  <2>2. phys # Gone
    BY DEF phys
  <2>. QED BY <1>3, <1>5, <2>1, <2>2
<1>7. dir = Root => (pwd = raw /\ Len(raw) = 2) \/ Len(pwd) \in {1, 2}
  <2>. SUFFICES ASSUME dir = Root PROVE (pwd = raw /\ Len(raw) = 2) \/ Len(pwd) \in {1, 2}
    OBVIOUS
  <2>1. phys = <<"/">> /\ phys # Gone
    BY DEF FsInv, phys, Gone
  <2>2. "/" \in {"/"} /\ <<"/">> \in Seq({"/"}) /\ Len(<<"/">>) = 1
    OBVIOUS
  <2>3. Len(<<"/">> \o <<"/">>) = 2
    BY <2>2, WithSlash
  <2>. QED BY <1>3, <2>1, <2>2, <2>3 DEF OnlySlashes
<1>8. OwnPwd(new, dir)
  BY <1>4, <1>7 DEF OwnPwd
<1>. QED BY <1>1, <1>4, <1>6, <1>8 DEF PwdSet

\* A chdir that succeeds leads along a path, which cd may print; one that fails leads
\* nowhere.
LEMMA ChangeLeads ==
  ASSUME NEW dirs, FsInv(dirs), NEW dir \in DOMAIN dirs, NEW e, NEW args
  PROVE  LET v == ChangeDir(World(dirs, dir, e), args)
         IN /\ v.cwd \in DOMAIN dirs /\ v.status \in {0, 1}
            /\ v.status # 0 => v.cwd = dir
            /\ v.status = 0 =>
                 /\ \E target : v.cwd = Lookup(dirs, dir, target) /\ v.said \in {<<>>, target}
                 /\ OnlySlashes(ArgRaw(e, args)) => v.cwd = Root
            /\ args = <<<<"cd">>, <<"-">>>> /\ OLDPWD \in DOMAIN e /\ Lookup(dirs, dir, e[OLDPWD]) # Nowhere
                 => v.cwd = Lookup(dirs, dir, e[OLDPWD])
<1>. DEFINE w == World(dirs, dir, e)
            target == Target(e, args)
            raw == ArgRaw(e, args)
            to == Lookup(dirs, dir, target)
            v == ChangeDir(w, args)
<1>1. w.fs = dirs /\ w.cwd = dir /\ w.env = e /\ w.status = 0 /\ w.said = <<>>
  BY DEF World
<1>2. v = IF ~HasTarget(e, args) THEN Fails(w, 1)
          ELSE [w EXCEPT !.cwd = IF to = Nowhere THEN @ ELSE to,
                         !.status = IF to = Nowhere THEN 1 ELSE 0,
                         !.said = IF Back(args) THEN target ELSE <<>>]
  BY <1>1 DEF ChangeDir
<1>3. raw[1] = "/" => raw = target
  BY DEF ArgRaw, Target, ToHome, Back, DashDash
<1>4. to \in DOMAIN dirs \cup {Nowhere}
  BY LookupLeads
<1>5. args = <<<<"cd">>, <<"-">>>> => target = e[OLDPWD] /\ (HasTarget(e, args) <=> OLDPWD \in DOMAIN e)
  BY DEF Target, HasTarget, Named, Has, ToHome, Back, DashDash
<1>6. \/ v.cwd = dir /\ v.status = 1 /\ (~HasTarget(e, args) \/ to = Nowhere)
      \/ v.cwd = to /\ to # Nowhere /\ v.status = 0 /\ v.said \in {<<>>, target}
  <2>. HIDE DEF target, to, raw
  <2>1. CASE ~HasTarget(e, args)
    BY <1>2, <2>1 DEF Fails, World
  <2>2. CASE HasTarget(e, args)
    BY <1>2, <2>2 DEF World
  <2>. QED BY <2>1, <2>2
<1>7. OnlySlashes(raw) => to = Root
  <2>. SUFFICES ASSUME OnlySlashes(raw) PROVE to = Root
    OBVIOUS
  <2>1. Len(target) = 2 /\ target[1] = "/" /\ target[2] = "/"
    BY <1>3 DEF OnlySlashes
  <2>. HIDE DEF target, raw
  <2>2. Len(target) \in {1, 2} /\ \A k \in 1..Len(target) : target[k] = "/"
    BY <2>1
  <2>3. target # <<>>
    <3>1. Len(<<>>) = 0
      OBVIOUS
    <3>2. target = <<>> => Len(target) = Len(<<>>)
      BY Zenon
    <3>. QED BY <2>1, <3>1, <3>2
  <2>. QED BY <2>2, <2>3, LookupSlashes
<1>. HIDE DEF w, target, raw, v
<1>8. args = <<<<"cd">>, <<"-">>>> /\ OLDPWD \in DOMAIN e /\ Lookup(dirs, dir, e[OLDPWD]) # Nowhere
        => v.cwd = Lookup(dirs, dir, e[OLDPWD])
  BY <1>5, <1>6
<1>9. v.status = 0 => \E t : v.cwd = Lookup(dirs, dir, t) /\ v.said \in {<<>>, t}
  BY <1>6
<1>. HIDE DEF to
<1>. QED BY <1>4, <1>6, <1>7, <1>8, <1>9 DEF v, w, raw

-----------------------------------------------------------------------------
(* What export and unset do with their operands. *)

LEMMA LeastIn ==
  ASSUME NEW T, T \subseteq Nat, T # {}
  PROVE  \E m \in T : \A k \in T : m <= k
<1>. DEFINE less == OpToRel(<, Nat)
<1>1. IsWellFoundedOn(less, Nat)
  BY NatLessThanWellFounded
<1>. HIDE DEF less
<1>2. PICK m \in T : \A k \in T : <<k, m>> \notin less
  BY <1>1, WFMin
<1>. USE DEF less
<1>3. \A k \in T : ~(k < m)
  <2>. TAKE k \in T
  <2>1. k \in Nat /\ m \in Nat /\ <<k, m>> \notin less
    BY <1>2
  <2>. QED BY <2>1 DEF OpToRel
<1>. HIDE DEF less
<1>. QED BY <1>3

\* A set of numbers that has 0 and with each the next has all, up to a bound.
LEMMA CountUp ==
  ASSUME NEW n \in Nat, NEW S, 0 \in S, \A k \in 0..n - 1 : k \in S => k + 1 \in S
  PROVE  \A k \in 0..n : k \in S
<1>. DEFINE T == (0..n) \ S
<1>. SUFFICES ASSUME T # {} PROVE FALSE
  OBVIOUS
<1>1. T \subseteq Nat
  OBVIOUS
<1>2. PICK m \in T : \A k \in T : m <= k
  BY <1>1, LeastIn
<1>3. m - 1 \in 0..n - 1 /\ m - 1 \notin T
  BY <1>2
<1>. QED BY <1>3

\* "--" is the only option export and unset take.
LEMMA OperandsAre ==
  ASSUME NEW S, NEW args \in Seq(Seq(S)), Len(args) >= 1, ~GetOpt(args, {}).bad
  PROVE  \E o \in {2, 3} :
           /\ o <= Len(args) + 1 /\ (o = 3 => args[2] = DashDash)
           /\ Operands(args) \in Seq(Seq(S)) /\ Len(Operands(args)) = Len(args) - o + 1
           /\ \A k \in 1..Len(Operands(args)) : Operands(args)[k] = args[k + o - 1]
<1>. DEFINE stops == {i \in 2..Len(args) + 1 : i > Len(args) \/ args[i] = DashDash \/ ~IsOption(args[i])}
            stop == CHOOSE i \in stops : \A j \in stops : i <= j
            o == IF stop <= Len(args) /\ args[stop] = DashDash THEN stop + 1 ELSE stop
<1>1. Len(args) \in Nat /\ \A k \in 1..Len(args) : args[k] \in Seq(S) /\ Len(args[k]) \in Nat
  OBVIOUS
<1>2. stop \in stops /\ \A j \in stops : stop <= j
  <2>1. Len(args) + 1 \in stops /\ stops \subseteq Nat
    BY <1>1
  <2>. HIDE DEF stops
  <2>. QED BY <2>1, LeastIn
<1>3. /\ GetOpt(args, {}).bad <=> \E i \in 2..stop - 1 : \E j \in 2..Len(args[i]) : args[i][j] \notin {}
      /\ GetOpt(args, {}).operand = o
  BY DEF GetOpt
<1>. HIDE DEF stop
<1>4. stop = 2
  <2>. SUFFICES ASSUME stop # 2 PROVE FALSE
    OBVIOUS
  <2>1. 2 \in 2..stop - 1 /\ 2 \in 1..Len(args) /\ 2 \notin stops
    BY <1>1, <1>2
  <2>2. Len(args[2]) > 1 /\ Len(args[2]) \in Nat
    BY <1>1, <2>1 DEF IsOption
  <2>3. 2 \in 2..Len(args[2])
    BY <2>2
  <2>. QED BY <1>3, <2>1, <2>3
<1>5. o \in {2, 3} /\ o <= Len(args) + 1 /\ (o = 3 => args[2] = DashDash)
  BY <1>1, <1>4
<1>. HIDE DEF o
<1>6. Operands(args) = SubSeq(args, o, Len(args))
  BY <1>3 DEF Operands
<1>7. /\ SubSeq(args, o, Len(args)) \in Seq(Seq(S))
      /\ Len(SubSeq(args, o, Len(args))) = Len(args) - o + 1
      /\ \A k \in 1..Len(args) - o + 1 : SubSeq(args, o, Len(args))[k] = args[k + o - 1]
  BY <1>1, <1>5, SubSeqProperties
<1>. QED BY <1>5, <1>6, <1>7

\* One operand of export.
IsStatus01(r) == DOMAIN r = {"env", "status"} /\ r.status \in {0, 1}
LEMMA AssignOne ==
  ASSUME NEW r, IsStatus01(r), NEW arg
  PROVE  /\ IsStatus01(Assign(r, arg))
         /\ \A key : Entry(Assign(r, arg).env, key) =
              IF Equals(arg) # {} /\ NameOf(arg) = key /\ IsValidId(key) THEN {ValueIn(arg)}
              ELSE Entry(r.env, key)
<1>1. CASE ~IsValidId(NameOf(arg))
  BY <1>1 DEF Assign, IsStatus01
<1>2. CASE IsValidId(NameOf(arg)) /\ Equals(arg) = {}
  BY <1>2 DEF Assign, IsStatus01
<1>3. CASE IsValidId(NameOf(arg)) /\ Equals(arg) # {}
  <2>1. Assign(r, arg) = [r EXCEPT !.env = SetEnv(r.env, NameOf(arg), ValueIn(arg))]
    BY <1>3 DEF Assign
  <2>2. \A key : Entry(SetEnv(r.env, NameOf(arg), ValueIn(arg)), key) =
                   IF NameOf(arg) = key THEN {ValueIn(arg)} ELSE Entry(r.env, key)
    BY DEF SetEnv, Entry
  <2>. QED BY <1>3, <2>1, <2>2 DEF IsStatus01
<1>. QED BY <1>1, <1>2, <1>3

\* All of them.
Assigning(ops, key, n) == {j \in 1..n : Equals(ops[j]) # {} /\ NameOf(ops[j]) = key /\ IsValidId(key)}
After(f, e, ops, n) ==
  f = [k \in 0..n |-> IF k = 0 THEN [env |-> e, status |-> 0] ELSE Assign(f[k - 1], ops[k])]

LEMMA AfterExists ==
  ASSUME NEW e, NEW ops, NEW n \in Nat
  PROVE  \E f : After(f, e, ops, n)
<1>. DEFINE S == {k \in Nat : \E f : After(f, e, ops, k)}
<1>1. 0 \in S
  <2>1. After([k \in 0..0 |-> [env |-> e, status |-> 0]], e, ops, 0)
    BY DEF After
  <2>. QED BY <2>1
<1>2. ASSUME NEW k \in 0..n - 1, k \in S PROVE k + 1 \in S
  <2>1. PICK f : After(f, e, ops, k)
    BY <1>2
  <2>. DEFINE g == [j \in 0..k + 1 |-> IF j = k + 1 THEN Assign(f[k], ops[k + 1]) ELSE f[j]]
  <2>2. \A j \in 0..k : f[j] = IF j = 0 THEN [env |-> e, status |-> 0] ELSE Assign(f[j - 1], ops[j])
    BY <2>1 DEF After
  <2>3. \A j \in 0..k + 1 : g[j] = IF j = 0 THEN [env |-> e, status |-> 0] ELSE Assign(g[j - 1], ops[j])
    <3>. TAKE j \in 0..k + 1
    <3>1. k \in Nat /\ (j # 0 => j - 1 \in 0..k /\ g[j - 1] = f[j - 1])
      BY <1>2
    <3>2. CASE j = k + 1
      BY <3>1, <3>2
    <3>3. CASE j # k + 1
      <4>1. j \in 0..k /\ g[j] = f[j]
        BY <3>1, <3>3
      <4>. QED BY <2>2, <3>1, <4>1
    <3>. QED BY <3>2, <3>3
  <2>4. g = [j \in 0..k + 1 |-> g[j]]
    OBVIOUS
  <2>. HIDE DEF g
  <2>5. After(g, e, ops, k + 1)
    BY <2>3, <2>4 DEF After
  <2>. QED BY <1>2, <2>5
<1>. HIDE DEF S
<1>3. \A k \in 0..n : k \in S
  BY <1>1, <1>2, CountUp
<1>. QED BY <1>3 DEF S

LEMMA AssignedEntries ==
  ASSUME NEW e, NEW ops, Len(ops) \in Nat
  PROVE  /\ Assigned(e, ops).status \in {0, 1}
         /\ \A key : Entry(Assigned(e, ops).env, key) =
              IF Assigning(ops, key, Len(ops)) = {} THEN Entry(e, key)
              ELSE {ValueIn(ops[j]) : j \in Latest(Assigning(ops, key, Len(ops)))}
<1>. DEFINE n == Len(ops)
            f == CHOOSE f : After(f, e, ops, n)
            Now(k, key) == IF Assigning(ops, key, k) = {} THEN Entry(e, key)
                           ELSE {ValueIn(ops[j]) : j \in Latest(Assigning(ops, key, k))}
            S == {k \in 0..n : IsStatus01(f[k]) /\ \A key : Entry(f[k].env, key) = Now(k, key)}
<1>1. Assigned(e, ops) = f[n]
  BY DEF Assigned, After
<1>2. After(f, e, ops, n)
  BY AfterExists
<1>. HIDE DEF f
<1>3. 0 \in S
  <2>1. f[0] = [env |-> e, status |-> 0]
    BY <1>2 DEF After
  <2>2. \A key : Assigning(ops, key, 0) = {}
    BY DEF Assigning
  <2>. QED BY <2>1, <2>2 DEF IsStatus01
<1>4. ASSUME NEW k \in 0..n - 1, k \in S PROVE k + 1 \in S
  <2>1. k + 1 \in 0..n /\ k \in Nat /\ f[k + 1] = Assign(f[k], ops[k + 1])
    BY <1>2 DEF After
  <2>2. ASSUME NEW key PROVE Entry(f[k + 1].env, key) = Now(k + 1, key)
    <3>. DEFINE here == Equals(ops[k + 1]) # {} /\ NameOf(ops[k + 1]) = key /\ IsValidId(key)
                A == Assigning(ops, key, k)
                B == Assigning(ops, key, k + 1)
    <3>1. Entry(f[k + 1].env, key) = IF here THEN {ValueIn(ops[k + 1])} ELSE Now(k, key)
      <4>1. IsStatus01(f[k]) /\ Entry(f[k].env, key) = Now(k, key)
        BY <1>4
      <4>. HIDE DEF Now
      <4>2. Entry(Assign(f[k], ops[k + 1]).env, key) = IF here THEN {ValueIn(ops[k + 1])} ELSE Entry(f[k].env, key)
        BY <4>1, AssignOne
      <4>. QED BY <2>1, <4>1, <4>2
    <3>2. B = IF here THEN A \cup {k + 1} ELSE A
      BY <2>1 DEF Assigning
    <3>3. A \subseteq 1..k
      BY DEF Assigning
    <3>. HIDE DEF A, B, here
    <3>4. here => Latest(B) = {k + 1} /\ B # {}
      <4>1. k + 1 \notin A /\ \A j \in A : j <= k + 1 /\ ~(k + 1 <= j)
        BY <2>1, <3>3
      <4>. QED BY <2>1, <3>2, <4>1 DEF Latest
    <3>5. CASE here
      BY <3>1, <3>4, <3>5 DEF B
    <3>6. CASE ~here
      BY <3>1, <3>2, <3>6 DEF A, B
    <3>. QED BY <3>5, <3>6
  <2>3. IsStatus01(f[k + 1])
    BY <1>4, <2>1, AssignOne
  <2>. HIDE DEF Now
  <2>. QED BY <2>1, <2>2, <2>3
<1>. HIDE DEF S
<1>5. n \in S
  <2>1. \A k \in 0..n : k \in S
    BY <1>3, <1>4, CountUp
  <2>. QED BY <2>1
<1>. QED BY <1>1, <1>5 DEF S, IsStatus01

\* What each builtin leaves of every name.
LEMMA ExportFollows ==
  ASSUME NEW S, NEW args \in Seq(Seq(S)), Len(args) >= 1, args[1] = <<"export">>, NEW dirs, NEW dir, NEW e
  PROVE  LET v == Export(World(dirs, dir, e), args)
         IN v.status \in {0, 1, 2} /\ Follows(args, e, v.env, v.status)
<1>. DEFINE w == World(dirs, dir, e)
            ops == Operands(args)
            v == Export(w, args)
<1>1. <<"export">> # <<"cd">> /\ <<"export">> # <<"unset">>
  OBVIOUS
<1>2. \A new, done, key : Expected(args, e, new, done, key) =
        IF done # 2 /\ Assignments(args, key) # {}
        THEN {ValueIn(args[k]) : k \in Latest(Assignments(args, key))} ELSE Entry(e, key)
  BY <1>1 DEF Expected
<1>3. CASE GetOpt(args, {}).bad
  <2>1. v.status = 2 /\ v.env = e
    BY <1>3 DEF Export, Fails, World
  <2>. HIDE DEF v
  <2>. QED BY <1>2, <2>1 DEF Follows, v
<1>4. CASE ~GetOpt(args, {}).bad
  <2>1. v.env = Assigned(e, ops).env /\ v.status = Assigned(e, ops).status
    BY <1>4 DEF Export, World
  <2>2. PICK o \in {2, 3} :
           /\ o <= Len(args) + 1 /\ (o = 3 => args[2] = DashDash)
           /\ ops \in Seq(Seq(S)) /\ Len(ops) = Len(args) - o + 1
           /\ \A k \in 1..Len(ops) : ops[k] = args[k + o - 1]
    BY <1>4, OperandsAre
  <2>3. Len(args) \in Nat /\ Len(ops) \in Nat /\ o \in {2, 3} /\ Len(ops) = Len(args) - o + 1
    BY <2>2
  <2>. HIDE DEF v, ops
  <2>4. /\ v.status \in {0, 1}
        /\ \A key : Entry(v.env, key) =
             IF Assigning(ops, key, Len(ops)) = {} THEN Entry(e, key)
             ELSE {ValueIn(ops[j]) : j \in Latest(Assigning(ops, key, Len(ops)))}
    BY <2>1, <2>3, AssignedEntries
  <2>5. Equals(DashDash) = {}
    BY DEF Equals, DashDash
  <2>6. ASSUME NEW key
        PROVE  LET A == Assigning(ops, key, Len(ops))
                   B == Assignments(args, key)
               IN /\ A = {} <=> B = {}
                  /\ {ValueIn(ops[j]) : j \in Latest(A)} = {ValueIn(args[k]) : k \in Latest(B)}
    <3>. DEFINE A == Assigning(ops, key, Len(ops))
                B == Assignments(args, key)
    <3>1. \A k \in B : k \in o..Len(args)
      BY <2>2, <2>3, <2>5 DEF Assignments
    <3>2. \A j \in A : j \in 1..Len(ops) /\ j + o - 1 \in B /\ ops[j] = args[j + o - 1]
      BY <2>2, <2>3 DEF Assigning, Assignments
    <3>3. \A k \in B : k - o + 1 \in A /\ ops[k - o + 1] = args[k]
      <4>. TAKE k \in B
      <4>1. k - o + 1 \in 1..Len(ops) /\ (k - o + 1) + o - 1 = k
        <5>1. k \in o..Len(args)
          BY <3>1
        <5>. QED BY <2>3, <5>1
      <4>2. ops[k - o + 1] = args[k]
        BY <2>2, <4>1
      <4>. QED BY <4>1, <4>2 DEF Assigning, Assignments
    <3>. HIDE DEF A, B
    <3>4. A = {} <=> B = {}
      BY <3>2, <3>3
    <3>5. \A j \in Latest(A) : j + o - 1 \in Latest(B) /\ ops[j] = args[j + o - 1]
      <4>. TAKE j \in Latest(A)
      <4>1. j \in A /\ \A i \in A : i <= j
        BY DEF Latest
      <4>2. ASSUME NEW k \in B PROVE k <= j + o - 1
        <5>1. k - o + 1 \in A /\ k - o + 1 <= j /\ k \in Int /\ j \in Int
          BY <3>1, <3>2, <3>3, <4>1
        <5>. QED BY <5>1
      <4>. QED BY <3>2, <4>1, <4>2 DEF Latest
    <3>6. \A k \in Latest(B) : k - o + 1 \in Latest(A) /\ ops[k - o + 1] = args[k]
      <4>. TAKE k \in Latest(B)
      <4>1. k \in B /\ \A i \in B : i <= k
        BY DEF Latest
      <4>2. ASSUME NEW j \in A PROVE j <= k - o + 1
        <5>1. j + o - 1 <= k /\ k \in Int /\ j \in Int
          BY <3>1, <3>2, <4>1
        <5>. QED BY <5>1
      <4>. QED BY <3>3, <4>1, <4>2 DEF Latest
    <3>7. {ValueIn(ops[j]) : j \in Latest(A)} = {ValueIn(args[k]) : k \in Latest(B)}
      BY <3>5, <3>6
    <3>. QED BY <3>4, <3>7 DEF A, B
  <2>7. \A key : Entry(v.env, key) = Expected(args, e, v.env, v.status, key)
    <3>. TAKE key
    <3>1. /\ Assigning(ops, key, Len(ops)) = {} <=> Assignments(args, key) = {}
          /\ {ValueIn(ops[j]) : j \in Latest(Assigning(ops, key, Len(ops)))} =
               {ValueIn(args[k]) : k \in Latest(Assignments(args, key))}
      BY <2>6
    <3>2. Expected(args, e, v.env, v.status, key) =
            IF Assignments(args, key) # {}
            THEN {ValueIn(args[k]) : k \in Latest(Assignments(args, key))} ELSE Entry(e, key)
      <4>1. v.status # 2
        BY <2>4
      <4>. QED BY <1>2, <4>1, Zenon
    <3>. QED BY <2>4, <3>1, <3>2
  <2>. QED BY <2>4, <2>7 DEF Follows, v
<1>. QED BY <1>3, <1>4

LEMMA UnsetFollows ==
  ASSUME NEW S, NEW args \in Seq(Seq(S)), Len(args) >= 1, args[1] = <<"unset">>, NEW dirs, NEW dir, NEW e
  PROVE  LET v == Unset(World(dirs, dir, e), args)
         IN v.status \in {0, 2} /\ Follows(args, e, v.env, v.status)
<1>. DEFINE w == World(dirs, dir, e)
            ops == Operands(args)
            v == Unset(w, args)
            gone == {key \in ToSet(ops) : IsValidId(key)}
<1>1. <<"unset">> # <<"cd">> /\ <<"export">> # <<"unset">>
  OBVIOUS
<1>2. \A new, done, key : Expected(args, e, new, done, key) =
        IF done = 0 /\ IsValidId(key) /\ (\E k \in 2..Len(args) : args[k] = key) THEN {} ELSE Entry(e, key)
  BY <1>1 DEF Expected
<1>3. CASE GetOpt(args, {}).bad
  <2>1. v.status = 2 /\ v.env = e
    BY <1>3 DEF Unset, Fails, World
  <2>. HIDE DEF v
  <2>. QED BY <1>2, <2>1 DEF Follows, v
<1>4. CASE ~GetOpt(args, {}).bad
  <2>1. v.env = UnsetEnv(e, gone) /\ v.status = 0
    BY <1>4 DEF Unset, World
  <2>2. PICK o \in {2, 3} :
           /\ o <= Len(args) + 1 /\ (o = 3 => args[2] = DashDash)
           /\ ops \in Seq(Seq(S)) /\ Len(ops) = Len(args) - o + 1
           /\ \A k \in 1..Len(ops) : ops[k] = args[k + o - 1]
    BY <1>4, OperandsAre
  <2>. HIDE DEF ops
  <2>3. /\ Len(args) \in Nat /\ DOMAIN ops = 1..Len(ops) /\ Len(ops) \in Nat
        /\ o \in {2, 3} /\ Len(ops) = Len(args) - o + 1
    BY <2>2
  <2>4. ~IsValidId(DashDash)
    BY SymbolsAssumption DEF IsValidId, DashDash
  <2>5. ASSUME NEW key
        PROVE  key \in gone <=> IsValidId(key) /\ \E k \in 2..Len(args) : args[k] = key
    <3>1. ToSet(ops) = {ops[k] : k \in 1..Len(ops)}
      BY <2>3 DEF ToSet
    <3>2. ASSUME key \in gone PROVE IsValidId(key) /\ \E k \in 2..Len(args) : args[k] = key
      <4>1. PICK j \in 1..Len(ops) : ops[j] = key /\ IsValidId(key)
        BY <3>1, <3>2
      <4>2. j + o - 1 \in 2..Len(args)
        BY <2>3, <4>1
      <4>3. args[j + o - 1] = key
        BY <2>2, <4>1
      <4>. QED BY <4>1, <4>2, <4>3
    <3>3. ASSUME IsValidId(key), NEW k \in 2..Len(args), args[k] = key PROVE key \in gone
      <4>1. k >= o
        BY <2>2, <2>3, <2>4, <3>3
      <4>2. k - o + 1 \in 1..Len(ops) /\ (k - o + 1) + o - 1 = k
        BY <2>2, <2>3, <4>1
      <4>3. ops[k - o + 1] = key
        BY <2>2, <3>3, <4>2
      <4>. QED BY <3>1, <3>3, <4>2, <4>3
    <3>. QED BY <3>2, <3>3
  <2>. HIDE DEF gone, v
  <2>6. \A key : Entry(v.env, key) = IF key \in gone THEN {} ELSE Entry(e, key)
    BY <2>1 DEF UnsetEnv, Entry
  <2>7. \A key : Entry(v.env, key) = Expected(args, e, v.env, v.status, key)
    <3>. TAKE key
    <3>1. Expected(args, e, v.env, v.status, key) =
            IF IsValidId(key) /\ (\E k \in 2..Len(args) : args[k] = key) THEN {} ELSE Entry(e, key)
      BY <1>2, <2>1
    <3>. QED BY <2>5, <2>6, <3>1
  <2>. QED BY <2>1, <2>7 DEF Follows, v
<1>. QED BY <1>3, <1>4

\* A cd that has set PWD and OLDPWD.
LEMMA CdFollows ==
  ASSUME NEW dirs, NEW dir, NEW args, args[1] = <<"cd">>, NEW e, NEW prior, NEW new,
         PwdSet(dirs, dir, e, prior, new)
  PROVE  Follows(args, e, new, 0)
<1>1. <<"unset">> # <<"cd">> /\ <<"export">> # <<"cd">>
  OBVIOUS
<1>2. \A key : Expected(args, e, new, 0, key) = IF key \in {PWD, OLDPWD} THEN Entry(new, key) ELSE Entry(e, key)
  BY <1>1 DEF Expected
<1>. QED BY <1>2 DEF PwdSet, Follows

\* Whoever is no export or unset, and sets nothing.
LEMMA OthersFollow ==
  ASSUME NEW args, args[1] \notin {<<"export">>, <<"unset">>}, NEW e, NEW done
  PROVE  Follows(args, e, e, done)
BY DEF Follows, Expected

-----------------------------------------------------------------------------
(* Every step. *)

\* In the middle of a cd the PWD is still that of the directory before, save that two
\* slashes have led to the root.
SessInv ==
  /\ FsInv(fs)
  /\ cwd \in DOMAIN fs
  /\ before # Nowhere =>
       before \in DOMAIN fs /\ fs[before] # Gone /\ OLDPWD \in DOMAIN env /\ env[OLDPWD] = fs[before]
  /\ left # Nowhere => left \in DOMAIN fs /\ fs[left] # Gone /\ old = fs[left]
  /\ ~given /\ pc # "entered" => OwnPwd(env, cwd)
  /\ pc \in {"chdir", "entered"} => argv # <<>> /\ argv[1] = <<"cd">>
  /\ pc = "entered" /\ OnlySlashes(ArgRaw(env, argv)) => cwd = Root

LEMMA SessInit == Init => SessInv
<1>. SUFFICES ASSUME Init PROVE SessInv
  OBVIOUS
<1>1. FsInv(fs) /\ cwd \in DOMAIN fs /\ before = Nowhere /\ left = Nowhere /\ pc = "prompt"
  BY FsInit DEF Init
<1>2. ~given => env[PWD] = fs[cwd]
  BY DEF Init, SetEnv
<1>3. ~given => OwnPwd(env, cwd)
  <2>1. Len(<<"/">>) = 1
    OBVIOUS
  <2>2. cwd = Root => fs[cwd] = <<"/">>
    BY <1>1 DEF FsInv
  <2>. QED BY <1>2, <2>1, <2>2 DEF OwnPwd
<1>. QED BY <1>1, <1>3 DEF SessInv

\* The other builtins stay where they are, and only pwd prints a path: the physical name,
\* or what PWD is if that has two slashes in front and the shell is in the root.
LEMMA OthersStay ==
  ASSUME NEW dirs, NEW dir, NEW e, NEW args
  PROVE  LET w == World(dirs, dir, e)
         IN /\ \A v \in {Pwd(w, args), Echo(w, args), Export(w, args), Unset(w, args)} : v.cwd = dir
            /\ \A v \in {Echo(w, args), Export(w, args), Unset(w, args)} : v.said = <<>>
            /\ Pwd(w, args).said # <<>> =>
                 \/ Pwd(w, args).said = dirs[dir]
                 \/ /\ Pwd(w, args).said = e[PWD] /\ PWD \in DOMAIN e /\ dirs[dir] = <<"/">>
                    /\ Len(e[PWD]) >= 2 /\ e[PWD][1] = "/" /\ e[PWD][2] = "/"
<1>. DEFINE w == World(dirs, dir, e)
<1>1. w.cwd = dir /\ w.said = <<>> /\ w.fs = dirs /\ w.env = e
  BY DEF World
<1>2. Echo(w, args).cwd = dir /\ Echo(w, args).said = <<>>
  BY <1>1 DEF Echo
<1>3. Export(w, args).cwd = dir /\ Export(w, args).said = <<>>
  BY DEF Export, Fails, World
<1>4. Unset(w, args).cwd = dir /\ Unset(w, args).said = <<>>
  BY DEF Unset, Fails, World
<1>5. /\ Pwd(w, args).cwd = dir
      /\ Pwd(w, args).said # <<>> =>
           \/ Pwd(w, args).said = dirs[dir]
           \/ /\ Pwd(w, args).said = e[PWD] /\ PWD \in DOMAIN e /\ dirs[dir] = <<"/">>
              /\ Len(e[PWD]) >= 2 /\ e[PWD][1] = "/" /\ e[PWD][2] = "/"
  BY DEF Pwd, Fails, World, Has
<1>. QED BY <1>2, <1>3, <1>4, <1>5

\* The names of the builtins are different strings.
BuiltinNames ==
  /\ <<"cd">> # <<"pwd">> /\ <<"cd">> # <<"echo">> /\ <<"cd">> # <<"export">> /\ <<"cd">> # <<"unset">>
  /\ <<"pwd">> # <<"echo">> /\ <<"pwd">> # <<"export">> /\ <<"pwd">> # <<"unset">>
  /\ <<"echo">> # <<"export">> /\ <<"echo">> # <<"unset">> /\ <<"export">> # <<"unset">>

\* What the shell's other builtins do to the world, as a step of Session.
LEMMA BuiltinStep ==
  ASSUME RunBuiltin
  PROVE  LET w == World(fs, cwd, env)
         IN /\ cwd' = Built(w).cwd /\ env' = Built(w).env
            /\ status' = Built(w).status /\ said' = Built(w).said
            /\ \/ argv[1] = <<"pwd">> /\ Built(w) = Pwd(w, argv)
               \/ argv[1] = <<"echo">> /\ Built(w) = Echo(w, argv)
               \/ argv[1] = <<"export">> /\ Built(w) = Export(w, argv)
               \/ argv[1] = <<"unset">> /\ Built(w) = Unset(w, argv)
<1>. DEFINE w == World(fs, cwd, env)
<1>1. cwd' = Built(w).cwd /\ env' = Built(w).env /\ status' = Built(w).status /\ said' = Built(w).said
  BY DEF RunBuiltin, World, Here
<1>2. argv[1] \in InShell /\ argv[1] # <<"cd">>
  BY DEF RunBuiltin, IsInShell
<1>. HIDE DEF w
<1>3. \/ argv[1] = <<"pwd">> /\ Built(w) = Pwd(w, argv)
      \/ argv[1] = <<"echo">> /\ Built(w) = Echo(w, argv)
      \/ argv[1] = <<"export">> /\ Built(w) = Export(w, argv)
      \/ argv[1] = <<"unset">> /\ Built(w) = Unset(w, argv)
  <2>1. BuiltinNames
    BY DEF BuiltinNames
  <2>. QED BY <1>2, <2>1 DEF Built, InShell, BuiltinNames
<1>. QED BY <1>1, <1>3 DEF w

LEMMA OthersStayHere ==
  ASSUME RunBuiltin
  PROVE  cwd' = cwd
BY BuiltinStep, OthersStay

LEMMA SessRun ==
  ASSUME SessInv, RunBuiltin
  PROVE  SessInv'
<1>1. fs' = fs /\ old' = old /\ left' = left /\ argv' = argv /\ cwd' = cwd
  BY OthersStayHere DEF RunBuiltin, system, leaving
<1>2. /\ before' = IF Entry(env, OLDPWD) = Entry(env', OLDPWD) THEN before ELSE Nowhere
      /\ given' = (given \/ ~(Entry(env, PWD) = Entry(env', PWD)))
  BY DEF RunBuiltin
<1>3. pc = "run" /\ pc' \in {"ended", "ran"}
  BY DEF RunBuiltin
<1>4. before' # Nowhere => before' = before /\ Entry(env, OLDPWD) = Entry(env', OLDPWD)
  BY <1>2
<1>5. ~given' => ~given /\ Entry(env, PWD) = Entry(env', PWD)
  BY <1>2
<1>6. \A key : Entry(env, key) = Entry(env', key) =>
        (key \in DOMAIN env <=> key \in DOMAIN env') /\ (key \in DOMAIN env => env'[key] = env[key])
  BY DEF Entry
<1>7. OwnPwd(env, cwd) /\ Entry(env, PWD) = Entry(env', PWD) => OwnPwd(env', cwd)
  BY <1>6 DEF OwnPwd
<1>. QED BY <1>1, <1>3, <1>4, <1>5, <1>6, <1>7 DEF SessInv

\* cd's steps as lemmas of their own say what they do to the directories.
LEMMA LeaveStep ==
  ASSUME SessInv, LeaveDir
  PROVE  /\ SessInv' /\ env' = env /\ cwd' = cwd
         /\ pc' \in {"ran", "chdir"} /\ (pc' = "ran" => status' \in {1, 2}) /\ (pc' = "chdir" => status' = status)
<1>1. BadCdArgs(argv) \in {0, 1, 2}
  BY DEF BadCdArgs
<1>2. /\ fs' = fs /\ env' = env /\ cwd' = cwd /\ argv' = argv /\ before' = before /\ given' = given
      /\ pc = "run" /\ argv # <<>> /\ argv[1] = <<"cd">>
      /\ \/ pc' = "ran" /\ status' \in {1, 2} /\ left' = left /\ old' = old
         \/ /\ pc' = "chdir" /\ status' = status /\ old' = fs[cwd]
            /\ left' = IF fs[cwd] = Gone THEN Nowhere ELSE cwd
  BY <1>1 DEF LeaveDir, system, leaving
<1>. QED BY <1>2 DEF SessInv

LEMMA EnterStep ==
  ASSUME SessInv, EnterDir
  PROVE  /\ SessInv' /\ env' = env
         /\ \/ pc' = "ran" /\ status' = 1 /\ cwd' = cwd
            \/ /\ pc' = "entered" /\ status' = status
               /\ \E target : cwd' = Lookup(fs, cwd, target) /\ said' \in {<<>>, target}
         /\ argv = <<<<"cd">>, <<"-">>>> /\ OLDPWD \in DOMAIN env /\ Lookup(fs, cwd, env[OLDPWD]) # Nowhere
              => cwd' = Lookup(fs, cwd, env[OLDPWD])
<1>. DEFINE w == ChangeDir(World(fs, cwd, env), argv)
<1>1. FsInv(fs) /\ cwd \in DOMAIN fs /\ argv # <<>> /\ argv[1] = <<"cd">>
  BY DEF SessInv, EnterDir
<1>2. /\ w.cwd \in DOMAIN fs /\ w.status \in {0, 1}
      /\ w.status # 0 => w.cwd = cwd
      /\ w.status = 0 =>
           /\ \E target : w.cwd = Lookup(fs, cwd, target) /\ w.said \in {<<>>, target}
           /\ OnlySlashes(ArgRaw(env, argv)) => w.cwd = Root
      /\ argv = <<<<"cd">>, <<"-">>>> /\ OLDPWD \in DOMAIN env /\ Lookup(fs, cwd, env[OLDPWD]) # Nowhere
           => w.cwd = Lookup(fs, cwd, env[OLDPWD])
  BY <1>1, ChangeLeads
<1>3. w = ChangeDir(Here, argv)
  BY DEF Here, World
<1>. HIDE DEF w
<1>4. /\ pc = "chdir" /\ fs' = fs /\ env' = env /\ argv' = argv /\ before' = before /\ given' = given
      /\ cwd' = w.cwd /\ said' = w.said
      /\ \/ w.status = 0 /\ pc' = "entered" /\ status' = status /\ left' = left /\ old' = old
         \/ w.status # 0 /\ pc' = "ran" /\ status' = w.status /\ left' = Nowhere
  BY <1>3 DEF EnterDir, system, leaving
<1>5. SessInv'
  <2>1. CASE w.status = 0
    BY <1>1, <1>2, <1>4, <2>1 DEF SessInv
  <2>2. CASE w.status # 0
    BY <1>1, <1>2, <1>4, <2>2 DEF SessInv
  <2>. QED BY <2>1, <2>2
<1>. QED BY <1>2, <1>4, <1>5

LEMMA SetStep ==
  ASSUME SessInv, SetPwd
  PROVE  /\ SessInv' /\ cwd' = cwd /\ fs' = fs /\ status' = 0 /\ pc' = "ran"
         /\ PwdSet(fs, cwd, env, old, env')
<1>1. FsInv(fs) /\ cwd \in DOMAIN fs /\ (OnlySlashes(ArgRaw(env, argv)) => cwd = Root)
  BY DEF SessInv, SetPwd
<1>2. PICK rest \in Garbage : env' = UpdatePwd(env, fs[cwd], old, ArgRaw(env, argv), rest)
  BY DEF SetPwd
<1>3. PwdSet(fs, cwd, env, old, env')
  BY <1>1, <1>2, UpdatePwdSets
<1>4. fs' = fs /\ cwd' = cwd /\ status' = 0 /\ pc' = "ran" /\ before' = left /\ left' = Nowhere /\ ~given'
  BY DEF SetPwd, system
<1>5. OLDPWD \in DOMAIN env' /\ env'[OLDPWD] = old /\ OwnPwd(env', cwd)
  BY <1>3 DEF PwdSet
<1>. QED BY <1>3, <1>4, <1>5 DEF SessInv

LEMMA SessMove ==
  ASSUME SessInv, NEW i \in DOMAIN fs, NEW name \in NewNames, Move(i, name)
  PROVE  SessInv'
<1>1. /\ i # Root /\ fs' = [fs EXCEPT ![i] = name] /\ before' = Nowhere /\ left' = Nowhere
      /\ cwd' = cwd /\ env' = env /\ given' = given /\ pc' = pc /\ argv' = argv
  BY DEF Move, world
<1>2. name # Gone => \A j \in DOMAIN fs : fs[j] # name
  BY DEF Move
<1>3. name = Gone \/ \E n : n \notin {"/", "."} /\ name = <<"/", n>>
  BY NewNamesAssumption DEF InRoot
<1>4. DOMAIN fs' = DOMAIN fs /\ fs'[i] = name /\ \A j \in DOMAIN fs \ {i} : fs'[j] = fs[j]
  BY <1>1
<1>5. FsInv(fs')
  <2>1. DOMAIN fs' = DOMAIN Directories /\ fs'[Root] = <<"/">>
    BY <1>1, <1>4, FsDef DEF FsInv, SessInv
  <2>2. \A j \in DOMAIN fs' \ {Root} : fs'[j] = Gone \/ \E n : n \notin {"/", "."} /\ fs'[j] = <<"/", n>>
    BY <1>3, <1>4 DEF FsInv, SessInv
  <2>3. \A j, k \in DOMAIN fs' : fs'[j] = fs'[k] /\ fs'[j] # Gone => j = k
    BY <1>2, <1>4 DEF FsInv, SessInv
  <2>. QED BY <2>1, <2>2, <2>3 DEF FsInv
<1>. QED BY <1>1, <1>4, <1>5 DEF SessInv

\* The other steps leave the directories and the environment alone.
OtherStep ==
  \/ \E c : ReadCommand(c)
  \/ \E dirs : ExpandCommand(dirs) \/ Trial(dirs) \/ Redirect(dirs)
  \/ RunNothing \/ NotFound \/ EndCommand

LEMMA StepIs ==
  ASSUME [Next]_vars
  PROVE  \/ LeaveDir \/ EnterDir \/ SetPwd \/ RunBuiltin \/ OtherStep \/ UNCHANGED vars
         \/ \E i \in DOMAIN fs, name \in NewNames : Move(i, name)
BY DEF Next, OtherStep

LEMMA OtherKeeps ==
  ASSUME OtherStep
  PROVE  /\ UNCHANGED <<fs, cwd, env, before, given, old, left>>
         /\ pc \notin {"chdir", "entered"} /\ pc' \notin {"chdir", "entered"}
BY DEF OtherStep, system, world, leaving, ReadCommand, ExpandCommand, Trial, Redirect, RunNothing, NotFound,
       EndCommand

LEMMA SessNext ==
  ASSUME SessInv, [Next]_vars
  PROVE  SessInv'
<1>1. CASE OtherStep
  BY <1>1, OtherKeeps DEF SessInv
<1>2. CASE UNCHANGED vars
  BY <1>2 DEF SessInv, vars, system, world, leaving
<1>3. ASSUME NEW i \in DOMAIN fs, NEW name \in NewNames, Move(i, name) PROVE SessInv'
  BY <1>3, SessMove
<1>. QED BY <1>1, <1>2, <1>3, StepIs, SessRun, LeaveStep, EnterStep, SetStep

LEMMA SessAlways == Spec => []SessInv
BY SessInit, SessNext, PTL DEF Spec

-----------------------------------------------------------------------------
(* Theorems. *)

\* Who prints.
LEMMA PrintsWho ==
  ASSUME [Next]_vars, Prints
  PROVE  EnterDir \/ RunBuiltin
<1>1. argv # <<>> /\ said' # <<>> /\ pc' \in {"ran", "entered"} /\ pc \in {"run", "chdir"} /\ pc # pc'
  BY DEF Prints
<1>2. ~LeaveDir
  <2>1. LeaveDir => argv[1] = <<"cd">> /\ pc = "run" /\ (pc' = "ran" => status' # 0)
    BY DEF LeaveDir
  <2>2. Prints /\ pc = "run" => pc' = "ran" /\ status' = 0
    BY DEF Prints
  <2>. QED BY <1>1, <2>1, <2>2 DEF LeaveDir
<1>3. ~NotFound
  <2>1. NotFound => status' \in {126, 127} /\ pc \in {"run", "redirect"} /\ pc' = "ran"
    BY DEF NotFound
  <2>2. Prints /\ pc = "run" => status' = 0
    BY DEF Prints
  <2>. QED BY <1>1, <2>1, <2>2
<1>4. ~SetPwd /\ ~RunNothing /\ ~EndCommand /\ ~(\E c : ReadCommand(c))
  BY <1>1 DEF SetPwd, RunNothing, EndCommand, ReadCommand
<1>5. \A dirs : ~ExpandCommand(dirs) /\ ~Trial(dirs) /\ ~Redirect(dirs)
  BY <1>1 DEF ExpandCommand, Trial, Redirect
<1>6. pc' # pc
  BY <1>1
<1>7. \A i, name : ~Move(i, name)
  BY <1>6 DEF Move
<1>8. ~(UNCHANGED vars)
  BY <1>6 DEF vars
<1>. QED BY <1>2, <1>3, <1>4, <1>5, <1>7, <1>8, StepIs DEF OtherStep

\* A path that pwd or cd prints leads to the working directory (cd, builtin_pwd), whatever
\* has been renamed and removed, and however long before.
LEMMA PwdStep ==
  ASSUME SessInv, [Next]_vars, Prints, ~(given /\ Doubled)
  PROVE  Lookup(fs, cwd, said') = cwd'
<1>. DEFINE w == World(fs, cwd, env)
<1>1. FsInv(fs) /\ cwd \in DOMAIN fs
  BY DEF SessInv
<1>2. CASE EnterDir
  <2>1. pc' = "entered"
    BY <1>2 DEF Prints, EnterDir
  <2>2. \E target : cwd' = Lookup(fs, cwd, target) /\ said' \in {<<>>, target}
    BY <1>2, <2>1, EnterStep
  <2>. QED BY <2>2 DEF Prints
<1>3. CASE RunBuiltin
  <2>1. Built(w) = Pwd(w, argv) /\ cwd' = cwd /\ said' = Pwd(w, argv).said
    BY <1>3, BuiltinStep, OthersStay DEF Prints
  <2>2. \/ said' = fs[cwd]
        \/ /\ said' = env[PWD] /\ PWD \in DOMAIN env /\ fs[cwd] = <<"/">>
           /\ Len(env[PWD]) >= 2 /\ env[PWD][1] = "/" /\ env[PWD][2] = "/"
    BY <2>1, OthersStay DEF Prints
  <2>3. CASE said' = fs[cwd]
    BY <1>1, <2>1, <2>3, LookupPhysical DEF Gone, Prints
  <2>4. CASE /\ said' = env[PWD] /\ PWD \in DOMAIN env /\ fs[cwd] = <<"/">>
             /\ Len(env[PWD]) >= 2 /\ env[PWD][1] = "/" /\ env[PWD][2] = "/"
    <3>1. fs[cwd] = fs[Root] /\ <<"/">> # <<>>
      BY <1>1, <2>4 DEF FsInv
    <3>2. cwd = Root
      BY <1>1, <2>4, <3>1, FsDef DEF FsInv, Gone
    <3>3. ~given /\ pc = "run"
      BY <1>3, <2>4 DEF Doubled, RunBuiltin
    <3>4. Len(said') = 2 /\ said'[1] = "/" /\ said'[2] = "/"
      BY <2>4, <3>2, <3>3 DEF SessInv, OwnPwd
    <3>5. Len(said') \in {1, 2} /\ \A k \in 1..Len(said') : said'[k] = "/"
      BY <3>4
    <3>. QED BY <2>1, <3>2, <3>5, LookupSlashes DEF Prints
  <2>. QED BY <2>2, <2>3, <2>4
<1>. QED BY <1>2, <1>3, PrintsWho

THEOREM PwdIsTrue == Spec => PwdTrue
<1>1. SessInv /\ [Next]_vars => [Prints /\ ~(given /\ Doubled) => Lookup(fs, cwd, said') = cwd']_vars
  BY PwdStep
<1>. QED BY <1>1, SessAlways, PTL DEF Spec, PwdTrue

\* cd - goes back to the directory the last cd left, if nobody has renamed one or set
\* OLDPWD since (get_target, cd_update_pwd).
LEMMA BackStep ==
  ASSUME SessInv, [Next]_vars, pc = "chdir", pc' # "chdir", argv = <<<<"cd">>, <<"-">>>>, before # Nowhere
  PROVE  cwd' = before
<1>1. EnterDir
  BY StepIs, OtherKeeps DEF LeaveDir, SetPwd, RunBuiltin, Move, world, vars
<1>2. FsInv(fs) /\ cwd \in DOMAIN fs
  BY DEF SessInv
<1>3. /\ before \in DOMAIN fs /\ OLDPWD \in DOMAIN env
      /\ Lookup(fs, cwd, env[OLDPWD]) = before
  BY LookupPhysical DEF SessInv
<1>. QED BY <1>1, <1>2, <1>3, FsDef, EnterStep

THEOREM CdLeadsBack == Spec => CdBack
<1>1. SessInv /\ [Next]_vars =>
        [pc = "chdir" /\ pc' # "chdir" /\ argv = <<<<"cd">>, <<"-">>>> /\ before # Nowhere => cwd' = before]_vars
  BY BackStep
<1>. QED BY <1>1, SessAlways, PTL DEF Spec, CdBack

\* The arguments come out of passes over linked lists, which no prover here can follow:
\* that they are strings is what the next two theorems are told, and what TLC checks.
LEMMA RunFollows ==
  ASSUME SessInv, ArgvOK, RunBuiltin
  PROVE  Follows(argv, env, env', status') /\ status' \in {0, 1, 2}
<1>. DEFINE w == World(fs, cwd, env)
<1>1. BuiltinNames
  BY DEF BuiltinNames
<1>2. argv \in Seq(Seq(STRING)) /\ Len(argv) >= 1
  <2>1. argv \in Seq(Seq(STRING)) /\ argv # <<>>
    BY DEF ArgvOK, RunBuiltin
  <2>. QED BY <2>1
<1>3. w.env = env /\ w.status = 0
  BY DEF World
<1>4. env' = Built(w).env /\ status' = Built(w).status
  BY BuiltinStep
<1>5. CASE argv[1] = <<"pwd">> /\ Built(w) = Pwd(w, argv)
  <2>1. Pwd(w, argv).env = env /\ Pwd(w, argv).status \in {0, 1, 2}
    BY DEF Pwd, Fails, World
  <2>2. argv[1] \notin {<<"export">>, <<"unset">>}
    BY <1>1, <1>5 DEF BuiltinNames
  <2>. HIDE DEF w
  <2>. QED BY <1>4, <1>5, <2>1, <2>2, OthersFollow
<1>6. CASE argv[1] = <<"echo">> /\ Built(w) = Echo(w, argv)
  <2>1. argv[1] \notin {<<"export">>, <<"unset">>}
    BY <1>1, <1>6 DEF BuiltinNames
  <2>. HIDE DEF w
  <2>. QED BY <1>3, <1>4, <1>6, <2>1, OthersFollow DEF Echo
<1>7. CASE argv[1] = <<"export">> /\ Built(w) = Export(w, argv)
  BY <1>2, <1>4, <1>7, ExportFollows
<1>8. CASE argv[1] = <<"unset">> /\ Built(w) = Unset(w, argv)
  BY <1>2, <1>4, <1>8, UnsetFollows
<1>. QED BY <1>5, <1>6, <1>7, <1>8, BuiltinStep

\* What EnvironmentFollows says of a step.
EnvStep ==
  IF BuiltinRuns
  THEN /\ Follows(argv, env, env', status')
       /\ argv[1] = <<"cd">> /\ status' = 0 /\ fs[cwd'] # Gone => Lookup(fs, cwd', env'[PWD]) = cwd'
       /\ status' # 0 \/ argv[1] # <<"cd">> => cwd' = cwd
  ELSE env' = env

\* A builtin changes the names it is told to change, to what it is told, and no other
\* (bt_export, bt_unset, cd_update_pwd), for arguments that are any strings; and cd leads
\* to where it says or nowhere.
LEMMA EnvNext ==
  ASSUME SessInv, ArgvOK, [Next]_vars, vars' # vars
  PROVE  EnvStep
<1>1. <<"cd">> \notin {<<"export">>, <<"unset">>}
  OBVIOUS
<1>2. \A done : argv[1] = <<"cd">> => Follows(argv, env, env, done)
  BY <1>1, OthersFollow
<1>3. CASE LeaveDir
  <2>1. argv[1] = <<"cd">> /\ env' = env /\ cwd' = cwd /\ (pc' = "ran" => status' # 0) /\ pc' \in {"ran", "chdir"}
    BY <1>3, LeaveStep DEF LeaveDir
  <2>2. pc' = "chdir" => ~BuiltinRuns
    BY DEF BuiltinRuns
  <2>. QED BY <1>2, <2>1, <2>2 DEF EnvStep
<1>4. CASE EnterDir
  <2>1. /\ argv[1] = <<"cd">> /\ env' = env
        /\ (pc' = "ran" /\ status' = 1 /\ cwd' = cwd) \/ pc' = "entered"
    BY <1>4, EnterStep DEF SessInv, EnterDir
  <2>2. pc' = "entered" => ~BuiltinRuns
    BY DEF BuiltinRuns
  <2>. QED BY <1>2, <2>1, <2>2 DEF EnvStep
<1>5. CASE SetPwd
  <2>1. argv # <<>> /\ argv[1] = <<"cd">> /\ pc = "entered"
    BY <1>5 DEF SessInv, SetPwd
  <2>2. cwd' = cwd /\ status' = 0 /\ pc' = "ran" /\ PwdSet(fs, cwd, env, old, env')
    BY <1>5, SetStep
  <2>3. Follows(argv, env, env', 0)
    BY <2>1, <2>2, CdFollows
  <2>4. fs[cwd] # Gone => Lookup(fs, cwd, env'[PWD]) = cwd
    BY <2>2 DEF PwdSet
  <2>. QED BY <2>1, <2>2, <2>3, <2>4 DEF EnvStep, BuiltinRuns
<1>6. CASE RunBuiltin
  <2>1. Follows(argv, env, env', status') /\ cwd' = cwd
    BY <1>6, RunFollows, OthersStayHere
  <2>2. BuiltinRuns /\ argv[1] # <<"cd">>
    BY <1>6 DEF RunBuiltin, BuiltinRuns
  <2>. QED BY <2>1, <2>2 DEF EnvStep
<1>7. CASE OtherStep
  <2>1. env' = env /\ cwd' = cwd
    BY <1>7, OtherKeeps
  <2>2. BuiltinRuns => argv[1] \notin {<<"export">>, <<"unset">>, <<"cd">>}
    <3>1. BuiltinRuns => NotFound
      BY <1>7 DEF BuiltinRuns, OtherStep, ReadCommand, ExpandCommand, Trial, Redirect, RunNothing, EndCommand
    <3>2. NotFound /\ argv # <<>> => argv[1] \notin InShell
      BY DEF NotFound, IsInShell
    <3>. QED BY <3>1, <3>2 DEF BuiltinRuns, InShell
  <2>3. BuiltinRuns => Follows(argv, env, env, status')
    BY <2>2, OthersFollow
  <2>. QED BY <2>1, <2>2, <2>3 DEF EnvStep
<1>8. ASSUME NEW i \in DOMAIN fs, NEW name \in NewNames, Move(i, name) PROVE EnvStep
  <2>1. env' = env /\ pc' = pc
    BY <1>8 DEF Move, world
  <2>. QED BY <2>1 DEF EnvStep, BuiltinRuns
<1>. QED BY <1>3, <1>4, <1>5, <1>6, <1>7, <1>8, StepIs

THEOREM BuiltinsFollow == Spec /\ []ArgvOK => EnvironmentFollows
<1>1. SessInv /\ ArgvOK /\ [Next]_vars => [EnvStep]_vars
  BY EnvNext
<1>2. SessInv /\ ArgvOK /\ [Next]_vars =>
        [IF BuiltinRuns
         THEN /\ Follows(argv, env, env', status')
              /\ argv[1] = <<"cd">> /\ status' = 0 /\ fs[cwd'] # Gone => Lookup(fs, cwd', env'[PWD]) = cwd'
              /\ status' # 0 \/ argv[1] # <<"cd">> => cwd' = cwd
         ELSE env' = env]_vars
  BY <1>1 DEF EnvStep
<1>. QED BY <1>2, SessAlways, PTL DEF Spec, EnvironmentFollows

\* The rest of TypeOK: every name in the environment is one that export may assign, or
\* was inherited (Follows says which are new).
LEMMA NamesStay ==
  ASSUME NEW args, NEW e, NEW new, NEW done, Follows(args, e, new, done), NEW key \in DOMAIN new
  PROVE  key \in DOMAIN e \/ IsValidId(key)
<1>1. Entry(new, key) = Expected(args, e, new, done, key) /\ Entry(new, key) # {}
  BY DEF Follows, Entry
<1>2. IsValidId(PWD) /\ IsValidId(OLDPWD)
  BY SymbolsAssumption DEF IsValidId, PWD, OLDPWD
<1>3. Entry(e, key) # {} => key \in DOMAIN e
  BY DEF Entry
<1>4. Assignments(args, key) # {} => IsValidId(key)
  BY DEF Assignments
<1>. QED BY <1>1, <1>2, <1>3, <1>4 DEF Expected

LEMMA TypeInit == Init /\ ArgvOK => TypeOK
<1>. SUFFICES ASSUME Init, ArgvOK PROVE TypeOK
  OBVIOUS
<1>1. IsValidId(PWD)
  BY SymbolsAssumption DEF IsValidId, PWD
<1>2. \A key \in DOMAIN env : IsValidId(key) \/ \E e \in Environments : key \in DOMAIN e
  BY <1>1 DEF Init, SetEnv
<1>3. given \in BOOLEAN
  BY DEF Init, Has
<1>. QED BY <1>2, <1>3, CommandsAssumption, BoundsAssumption DEF Init, TypeOK

LEMMA TypeNext ==
  ASSUME SessInv, TypeOK, [Next]_vars, ArgvOK'
  PROVE  TypeOK'
<1>. DEFINE Steps == {"prompt", "read", "trial", "redirect", "run", "chdir", "entered", "ran", "refused", "ended"}
            Known(key) == IsValidId(key) \/ \E e \in Environments : key \in DOMAIN e
<1>1. cwd' \in DOMAIN fs' /\ {before', left'} \subseteq DOMAIN fs' \cup {Nowhere}
  BY SessNext DEF SessInv
<1>2. tty' \in BOOLEAN
  BY DEF TypeOK, Next, vars, system, world, ReadCommand, ExpandCommand, Trial, Redirect, LeaveDir, EnterDir,
         SetPwd, RunBuiltin, RunNothing, NotFound, EndCommand, Move
<1>3. pc' \in Steps
  BY DEF TypeOK, Next, vars, system, world, ReadCommand, ExpandCommand, Trial, Redirect, LeaveDir, EnterDir,
         SetPwd, RunBuiltin, RunNothing, NotFound, EndCommand, Move
<1>4. count' \in 0..Len(Commands) /\ moves' \in 0..MaxMoves
  BY CommandsAssumption, BoundsAssumption
  DEF TypeOK, Next, vars, system, world, ReadCommand, ExpandCommand, Trial, Redirect, LeaveDir, EnterDir,
         SetPwd, RunBuiltin, RunNothing, NotFound, EndCommand, Move
<1>5. status' \in 0..255
  <2>1. CASE RunBuiltin
    BY <2>1, RunFollows DEF TypeOK
  <2>2. CASE LeaveDir \/ EnterDir \/ SetPwd
    <3>1. status \in 0..255
      BY DEF TypeOK
    <3>2. LeaveDir => status' \in {status, 1, 2}
      BY LeaveStep
    <3>3. EnterDir => status' \in {status, 1}
      BY EnterStep
    <3>4. SetPwd => status' = 0
      BY SetStep
    <3>. QED BY <2>2, <3>1, <3>2, <3>3, <3>4
  <2>3. CASE status' \in {status, 0, 1, 126, 127}
    BY <2>3 DEF TypeOK
  <2>. QED
    BY <2>1, <2>2, <2>3 DEF Next, vars, system, world, ReadCommand, ExpandCommand, Trial, Redirect,
         RunNothing, NotFound, EndCommand, Move
<1>6. given' \in BOOLEAN
  BY DEF TypeOK, Next, vars, system, world, ReadCommand, ExpandCommand, Trial, Redirect, LeaveDir, EnterDir,
         SetPwd, RunBuiltin, RunNothing, NotFound, EndCommand, Move
<1>7. \A key \in DOMAIN env' : Known(key)
  <2>1. CASE BuiltinRuns /\ vars' # vars
    <3>1. Follows(argv, env, env', status')
      BY <2>1, EnvNext DEF TypeOK, EnvStep
    <3>. QED BY <3>1, NamesStay DEF TypeOK
  <2>2. CASE ~BuiltinRuns \/ vars' = vars
    <3>1. env' = env
      BY <2>2, EnvNext DEF TypeOK, EnvStep, vars, world
    <3>. QED BY <3>1 DEF TypeOK
  <2>. QED BY <2>1, <2>2
<1>. QED BY <1>1, <1>2, <1>3, <1>4, <1>5, <1>6, <1>7 DEF TypeOK

THEOREM SessionTyped == Spec /\ []ArgvOK => []TypeOK
BY SessAlways, TypeInit, TypeNext, PTL DEF Spec

=============================================================================
