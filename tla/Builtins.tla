------------------------------- MODULE Builtins -------------------------------
(***************************************************************************)
(* step_7_execution/builtin: what cd, pwd, echo, export and unset do to    *)
(* the environment and to the working directory.                           *)
(*                                                                         *)
(* Strings are sequences of symbols, a directory's name being one symbol.  *)
(* fs gives each directory, which is a number, its physical name, or Gone. *)
(* All are in the root; cwd is a directory, gone or not.                   *)
(***************************************************************************)
EXTENDS Integers, SequencesExt

CONSTANTS
  Letters, Digits,  \* symbols an identifier may have
  Garbage           \* strings that may stand in memory behind an empty one
ASSUME GarbageAssumption == Garbage # {}
ASSUME SymbolsAssumption == {"PWD", "OLDPWD"} \subseteq Letters /\ "-" \notin Letters \cup Digits

Root == 1
Gone == <<>>
Nowhere == 0

PWD == <<"PWD">>
OLDPWD == <<"OLDPWD">>
HOME == <<"HOME">>
DashDash == <<"-", "-">>

-----------------------------------------------------------------------------
(* The system. *)

\* The directory a string names.  A name is one symbol, and there are slashes around
\* it, or "." is one; what holds two symbols next to each other, ".." too, is found nowhere.
Lookup(fs, cwd, s) ==
  LET names == {k \in 1..Len(s) : s[k] \notin {"/", "."}}
      from == IF s # <<>> /\ s[1] = "/" THEN Root ELSE cwd
      found == {i \in DOMAIN fs : \E k \in names : fs[i] = <<"/", s[k]>>}
      symbols == \A k \in 1..Len(s) - 1 : "/" \in {s[k], s[k + 1]}
  IN IF symbols /\ names = {} THEN from
     ELSE IF symbols /\ (\E k \in names : names = {k}) /\ from = Root /\ found # {}
     THEN CHOOSE i \in found : TRUE
     ELSE Nowhere

Has(env, key) == key \in DOMAIN env
SetEnv(env, key, value) ==
  [k \in DOMAIN env \cup {key} |-> IF k = key THEN value ELSE env[k]]
UnsetEnv(env, keys) == [k \in DOMAIN env \ keys |-> env[k]]

-----------------------------------------------------------------------------
(* Options and identifiers. *)

IsOption(arg) == Len(arg) > 1 /\ arg[1] = "-"

\* bt_getopt: the options end at "--", at "-" and at the first that is none.
GetOpt(argv, shorts) ==
  LET stops == {i \in 2..Len(argv) + 1 : i > Len(argv) \/ argv[i] = DashDash \/ ~IsOption(argv[i])}
      stop == CHOOSE i \in stops : \A j \in stops : i <= j
  IN [bad |-> \E i \in 2..stop - 1 : \E j \in 2..Len(argv[i]) : argv[i][j] \notin shorts,
      operand |-> IF stop <= Len(argv) /\ argv[stop] = DashDash THEN stop + 1 ELSE stop,
      last |-> IF stop = 2 THEN "none" ELSE Last(argv[stop - 1])]
Operands(argv) == SubSeq(argv, GetOpt(argv, {}).operand, Len(argv))

IsValidId(s) ==
  s # <<>> /\ s[1] \in Letters /\ \A k \in 2..Len(s) : s[k] \in Letters \cup Digits

-----------------------------------------------------------------------------
(* The builtins: the world w they leave has a status, and what they print. *)

Fails(w, status) == [w EXCEPT !.status = status]

\* The status check_args returns.
BadCdArgs(argv) ==
  IF Len(argv) > 2 THEN 1
  ELSE IF Len(argv) = 2 /\ IsOption(argv[2]) /\ argv[2] # DashDash THEN 2 ELSE 0

\* get_target: the path cd takes, if it has one.
ToHome(argv) == Len(argv) = 1 \/ argv[2] = DashDash
Back(argv) == Len(argv) = 2 /\ argv[2] = <<"-">>
Named(argv) == IF ToHome(argv) THEN HOME ELSE OLDPWD
HasTarget(env, argv) == ToHome(argv) \/ Back(argv) => Has(env, Named(argv))
Target(env, argv) == IF ToHome(argv) \/ Back(argv) THEN env[Named(argv)] ELSE argv[2]

\* check_target: the path cd - takes is printed before anybody knows if it leads anywhere.
ChangeDir(w, argv) ==
  LET target == Target(w.env, argv)
      to == Lookup(w.fs, w.cwd, target)
  IN IF ~HasTarget(w.env, argv) THEN Fails(w, 1)
     ELSE [w EXCEPT !.cwd = IF to = Nowhere THEN @ ELSE to,
                    !.status = IF to = Nowhere THEN 1 ELSE 0,
                    !.said = IF Back(argv) THEN target ELSE <<>>]

\* cd_update_pwd.  old is what getcwd gave before chdir; behind the name of a directory
\* that is gone, which is empty, the code reads what happens to be in memory.
NewPwd(phys, raw, rest) ==
  LET double == Len(raw) >= 2 /\ raw[1] = "/" /\ raw[2] = "/" /\ (Len(raw) = 2 \/ raw[3] # "/")
  IN IF ~double THEN phys
     ELSE IF Len(raw) = 2 THEN raw
     ELSE IF phys = Gone THEN <<"/", "/">> \o rest
     ELSE <<"/">> \o phys
UpdatePwdLosesOld(env, phys, old, raw, rest) == SetEnv(SetEnv(env, OLDPWD, phys), PWD, phys)
UpdatePwd(env, phys, old, raw, rest) ==
  SetEnv(SetEnv(env, OLDPWD, old), PWD, NewPwd(phys, raw, rest))
ArgRaw(env, argv) == IF Len(argv) = 1 THEN Target(env, argv) ELSE argv[2]

\* PWD is printed if it is the physical name, or a name of the root that begins
\* with two slashes.
PwdTrustsVariable(w, argv) ==
  LET phys == w.fs[w.cwd]
  IN IF phys = Gone THEN Fails(w, 1)
     ELSE [w EXCEPT !.said = IF Has(w.env, PWD) THEN w.env[PWD] ELSE phys]
Pwd(w, argv) ==
  LET phys == w.fs[w.cwd]
      opt == GetOpt(argv, {"L", "P"})
      pwd == w.env[PWD]
      double == Len(pwd) >= 2 /\ pwd[1] = "/" /\ pwd[2] = "/" /\ phys = <<"/">>
  IN IF opt.bad THEN Fails(w, 2)
     ELSE IF phys = Gone THEN Fails(w, 1)
     ELSE [w EXCEPT !.said = IF opt.last # "P" /\ Has(w.env, PWD) /\ double THEN pwd ELSE phys]

\* try_set_env, of each operand: one that fails does not stop the others.
Equals(arg) == {k \in 1..Len(arg) : arg[k] = "="}
NameOf(arg) ==
  IF Equals(arg) = {} THEN arg ELSE SubSeq(arg, 1, (CHOOSE k \in Equals(arg) : \A j \in Equals(arg) : k <= j) - 1)
ValueIn(arg) == SubSeq(arg, Len(NameOf(arg)) + 2, Len(arg))
AssignStops(r, arg) ==
  IF r.status = 1 \/ ~IsValidId(NameOf(arg)) THEN [r EXCEPT !.status = 1]
  ELSE IF Equals(arg) = {} THEN r
  ELSE [r EXCEPT !.env = SetEnv(@, NameOf(arg), ValueIn(arg))]
AssignAnyName(r, arg) ==
  IF Equals(arg) = {} THEN r ELSE [r EXCEPT !.env = SetEnv(@, NameOf(arg), ValueIn(arg))]
Assign(r, arg) ==
  IF ~IsValidId(NameOf(arg)) THEN [r EXCEPT !.status = 1]
  ELSE IF Equals(arg) = {} THEN r
  ELSE [r EXCEPT !.env = SetEnv(@, NameOf(arg), ValueIn(arg))]
Assigned(env, args) ==
  LET after[k \in 0..Len(args)] ==
        IF k = 0 THEN [env |-> env, status |-> 0] ELSE Assign(after[k - 1], args[k])
  IN after[Len(args)]
Export(w, argv) ==
  LET r == Assigned(w.env, Operands(argv))
  IN IF GetOpt(argv, {}).bad THEN Fails(w, 2)
     ELSE [w EXCEPT !.env = r.env, !.status = r.status]

\* unsetenv of each operand that is a name; the others are passed over.
Unset(w, argv) ==
  IF GetOpt(argv, {}).bad THEN Fails(w, 2)
  ELSE [w EXCEPT !.env = UnsetEnv(@, {key \in ToSet(Operands(argv)) : IsValidId(key)})]

Echo(w, argv) == w
=============================================================================
