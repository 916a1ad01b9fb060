-------------------------------- MODULE Session --------------------------------
(***************************************************************************)
(* A session of simple commands: lexer, parser, expansion, redirections    *)
(* and builtins one behind the other, on one environment, while other      *)
(* programs rename and remove directories.                                 *)
(*                                                                         *)
(* Commands hold no operators but redirections, and programs are not found.*)
(***************************************************************************)
EXTENDS Words, Builtins, Lexer

CONSTANTS
  Commands,     \* what may be typed as first, second, ... command: lines, and the
                \* body of a here-document (bound: no further commands)
  Environments, \* what the shell may inherit
  Users,        \* login names and their home directories
  Arguments,    \* what "$*" stands for
  Directories,  \* the physical names of the directories when the shell starts
  FilesIn,      \* the names of the files in each of them
  PatternDirs,  \* the directories patterns are about, as they are written
  NewNames,     \* the physical names directories may be given, or Gone
  MaxMoves      \* bound: directories renamed or removed

ASSUME CommandsAssumption ==
  Len(Commands) \in Nat /\ \A n \in 1..Len(Commands) : \A c \in Commands[n] : c.lines # <<>>
\* The root, and different directories in it whose names are one symbol.
InRoot(name) == name = <<"/", name[2]>> /\ name[2] \notin {"/", "."}
ASSUME DirectoriesAssumption ==
  /\ Root \in DOMAIN Directories /\ Nowhere \notin DOMAIN Directories
  /\ Directories[Root] = <<"/">> /\ \A i \in DOMAIN Directories \ {Root} : InRoot(Directories[i])
  /\ \A i, j \in DOMAIN Directories : Directories[i] = Directories[j] => i = j
  /\ DOMAIN FilesIn = DOMAIN Directories
ASSUME NewNamesAssumption == \A name \in NewNames : name = Gone \/ InRoot(name)
ASSUME BoundsAssumption == MaxMoves \in Nat

VARIABLES
  tty,      \* isatty(STDIN_FILENO)
  fs, cwd,  \* the directories, and the working directory
  env,      \* environ
  status,   \* last_exit_code
  pc,       \* the next step of the shell
  cmd,      \* the command
  h,        \* its tokens and parts
  argv,     \* its arguments
  opened,   \* what its redirections opened
  said,     \* the path that was printed
  seen,     \* history: the directories the last expansion saw, and the names in them
  old,      \* save_oldpwd, the name of the directory a cd leaves
  left,     \* history: the directory old still names, if any
  before,   \* history: where cd - leads, if anywhere
  given,    \* history: PWD is what somebody else has made it, not the shell
  count, moves  \* the bounded counts

system == <<fs, moves>>
world == <<cwd, env, status>>
leaving == <<old, left>>
vars == <<tty, system, world, pc, cmd, h, argv, opened, said, seen, leaving, before, given, count>>

-----------------------------------------------------------------------------
(* The world, as words are expanded in it. *)

Special == [c \in Specials |-> IF c = "$?" THEN <<ToString(status)>> ELSE Arguments]

\* readdir gives the names in any order.
NamesOf(i) ==
  IF fs[i] = Gone THEN {}
  ELSE FilesIn[i] \cup IF i = Root THEN {<<Last(fs[j])>> : j \in {d \in DOMAIN fs : Len(fs[d]) = 2}} ELSE {}
Listed == {s \in PatternDirs : Lookup(fs, cwd, s) # Nowhere}
NamesIn == [s \in Listed |-> NamesOf(Lookup(fs, cwd, s))]
Orders(i) == {order \in [1..Cardinality(NamesOf(i)) -> NamesOf(i)] : IsInjective(order)}
Listings ==
  {[s \in Listed |-> LET i == Lookup(fs, cwd, s) IN IF i = cwd THEN order ELSE SetToSeq(NamesOf(i))] :
     order \in Orders(cwd)}

-----------------------------------------------------------------------------
(* From lines to tokens. *)

\* A line that leaves something open is followed by another (FrontEnd).  t: is the
\* standard input a terminal?
LexEnd(t, lx, line) ==
  IF ~t THEN EndChunk(Step(lx, "\n"), FALSE)
  ELSE IF line = <<>> THEN lx ELSE EndChunk(lx, TRUE)
AddLine(t, r, lexed, text) ==
  LET goesOn == lexed.ctxs # <<>> /\ ~IsNormal(lexed)
  IN [lx |-> IF goesOn THEN PendingNewline(lexed) ELSE lexed,
      text |-> IF goesOn THEN Append(text, "\n") ELSE text,
      ends |-> Append(r.ends, lexed.ctxs = <<>> \/ GivesUp(lexed, t))]
ReadLine(t, r, line) ==
  AddLine(t, r, LexEnd(t, FoldLeft(Step, BeginChunk(r.lx), line), line),
          r.text \o line \o IF t THEN <<>> ELSE <<"\n">>)
Read(t, c) == FoldLeft(LAMBDA r, line : ReadLine(t, r, line),
                       [lx |-> NewLexer, text |-> <<>>, ends |-> <<>>], c.lines)
IsComplete(r) == r.lx.ctxs = <<>> /\ \A k \in 1..Len(r.ends) : r.ends[k] <=> k = Len(r.ends)

\* The roles find_redirs gives, the strings assign_strings cuts out of the text, and
\* the two lists of the command.  A body follows its delimiter.
RoleOf(toks, k) ==
  IF toks[k].type \in Redirs THEN "OP"
  ELSE IF k = 1 \/ toks[k - 1].type \notin Redirs THEN "ARG"
  ELSE IF toks[k - 1].type = "<<" THEN "DELIM" ELSE "TARGET"
ListOf(role) == IF role = "ARG" THEN "words" ELSE "redirs"
AddPart(g, t, part, text) ==
  LET new == NewPart(g, part.type, SubSeq(text, part.start + 1, part.end))
  IN AppendPart(new, t, LastPart(new))
AddToken(g, tok, role, text) ==
  LET new == NewToken(g, tok.type, role)
      t == LastToken(new)
  IN FoldLeft(LAMBDA f, part : AddPart(f, t, part, text), ListAppend(new, ListOf(role), t), tok.parts)
AddBody(g, body) ==
  LET new == NewToken(g, "BODY", "BODY")
      t == LastToken(new)
  IN [ListAppend(new, "redirs", t) EXCEPT !.tok[t].str = body]
AddWord(g, tok, role, text, body) ==
  IF role = "DELIM" THEN AddBody(AddToken(g, tok, role, text), body)
  ELSE AddToken(g, tok, role, text)
ParsedTokens(toks, text, body) ==
  FoldLeftDomain(LAMBDA g, k : AddWord(g, toks[k], RoleOf(toks, k), text, body), EmptyHeap, toks)
Parsed(r, body) ==
  ParsedTokens(SelectSeq(r.lx.toks, LAMBDA tok : tok.type \notin {"NEWLINE", "EOF"}), r.text, body)

-----------------------------------------------------------------------------
(* The steps of a command. *)

\* chk_env, of PWD.
Init ==
  /\ tty \in BOOLEAN
  /\ fs = Directories /\ cwd \in DOMAIN fs
  /\ \E inherited \in Environments :
       /\ env = IF Has(inherited, PWD) THEN inherited ELSE SetEnv(inherited, PWD, fs[cwd])
       /\ given = Has(inherited, PWD)
  /\ status = 0 /\ pc = "prompt" /\ cmd = <<>> /\ h = EmptyHeap
  /\ argv = <<>> /\ opened = <<>> /\ said = <<>>
  /\ seen = [fs |-> fs, names |-> NamesIn] /\ before = Nowhere
  /\ old = <<>> /\ left = Nowhere /\ count = 0 /\ moves = 0

ReadCommand(c) ==
  /\ pc = "prompt"
  /\ \E r \in {Read(tty, c)} : IsComplete(r) /\ h' = Parsed(r, c.body)
  /\ cmd' = c /\ pc' = "read" /\ count' = count + 1
  /\ UNCHANGED <<tty, system, world, argv, opened, said, seen, leaving, before, given>>

ExpandCommand(dirs) ==
  /\ pc = "read"
  /\ h' = ExpandArgs(h, env, Special, Users, dirs) /\ argv' = Argv(h')
  /\ seen' = [fs |-> fs, names |-> NamesIn]
  /\ pc' = IF h.list["redirs"].count = 0 THEN "run" ELSE "trial"
  /\ UNCHANGED <<tty, system, world, cmd, opened, said, leaving, before, given, count>>

\* A file can be opened for writing in a directory that is there (and is one of its
\* files already: no file is new).
CanOpen(dirs, s) ==
  LET slashes == {k \in 1..Len(s) : s[k] = "/"}
      dir == Lookup(dirs, cwd, SubSeq(s, 1, IF slashes = {} THEN 0 ELSE Max(slashes)))
  IN s # <<>> /\ Lookup(dirs, cwd, s) = Nowhere /\ dir # Nowhere /\ dirs[dir] # Gone

\* apply_redirs: what it has opened when it returns, and whether all went well.  A
\* body without a string is read from nowhere.
OpenAll(r, sources) ==
  [h |-> r.h, opened |-> sources,
   ok |-> r.ok /\ \A k \in 1..Len(sources) :
            sources[k].str # NoString /\ (sources[k].op = ">" => CanOpen(fs, sources[k].str))]
ApplyExpanded(r) == OpenAll(r, IF r.ok THEN Sources(r.h) ELSE <<>>)
Applied(dirs) == ApplyExpanded(ExpandRedirs(h, env, Special, Users, dirs))

\* A child does it first, on its own copy of the tokens.
Trial(dirs) ==
  /\ pc = "trial"
  /\ seen' = [fs |-> fs, names |-> NamesIn]
  /\ IF Applied(dirs).ok THEN pc' = "redirect" /\ status' = status
     ELSE pc' = "refused" /\ status' = 1
  /\ UNCHANGED <<tty, system, cwd, env, cmd, h, argv, opened, said, leaving, before, given, count>>

InShell == {<<"cd">>, <<"pwd">>, <<"echo">>, <<"export">>, <<"unset">>}
IsInShell == argv = <<>> \/ (argv # <<>> /\ argv[1] \in InShell)

\* exec_builtin and exec_redirects_only; for a program it is another child's business.
Redirect(dirs) ==
  /\ pc = "redirect" /\ IsInShell
  /\ \E a \in {Applied(dirs)} :
        /\ h' = a.h
        /\ opened' = a.opened
        /\ IF a.ok THEN pc' = "run" /\ status' = status ELSE pc' = "refused" /\ status' = 1
  /\ seen' = [fs |-> fs, names |-> NamesIn]
  /\ UNCHANGED <<tty, system, cwd, env, cmd, argv, said, leaving, before, given, count>>

\* builtin_cd asks where it is, goes, and asks again: other programs do not wait.
LeaveDir ==
  /\ pc = "run" /\ argv # <<>> /\ argv[1] = <<"cd">>
  /\ IF BadCdArgs(argv) # 0 THEN pc' = "ran" /\ status' = BadCdArgs(argv) /\ UNCHANGED leaving
     ELSE /\ pc' = "chdir" /\ old' = fs[cwd] /\ status' = status
          /\ left' = IF fs[cwd] = Gone THEN Nowhere ELSE cwd
  /\ UNCHANGED <<tty, system, cwd, env, cmd, h, argv, opened, said, seen, before, given, count>>
Here == [fs |-> fs, cwd |-> cwd, env |-> env, status |-> 0, said |-> <<>>]
EnterDir ==
  /\ pc = "chdir"
  /\ \E w \in {ChangeDir(Here, argv)} :
        /\ cwd' = w.cwd /\ said' = w.said
        /\ IF w.status = 0 THEN pc' = "entered" /\ UNCHANGED <<status, leaving>>
           ELSE pc' = "ran" /\ status' = w.status /\ old' = <<>> /\ left' = Nowhere
  /\ UNCHANGED <<tty, system, env, cmd, h, argv, opened, seen, before, given, count>>
SetPwd ==
  /\ pc = "entered"
  /\ \E rest \in Garbage : env' = UpdatePwd(env, fs[cwd], old, ArgRaw(env, argv), rest)
  /\ pc' = "ran" /\ status' = 0 /\ old' = <<>>
  /\ before' = left /\ given' = FALSE /\ left' = Nowhere
  /\ UNCHANGED <<tty, system, cwd, cmd, h, argv, opened, said, seen, count>>

Built(w) ==
  CASE argv[1] = <<"pwd">> -> Pwd(w, argv)
    [] argv[1] = <<"echo">> -> Echo(w, argv)
    [] argv[1] = <<"export">> -> Export(w, argv)
    [] argv[1] = <<"unset">> -> Unset(w, argv)

\* Not at a terminal, a special builtin that fails ends the shell.
IsSpecial == argv[1] \in {<<"export">>, <<"unset">>}
Entry(e, key) == IF key \in DOMAIN e THEN {e[key]} ELSE {}
RunBuiltin ==
  /\ pc = "run" /\ argv # <<>> /\ IsInShell /\ argv[1] # <<"cd">>
  /\ \E w \in {Built(Here)} :
        /\ cwd' = w.cwd /\ env' = w.env /\ status' = w.status /\ said' = w.said
        /\ pc' = IF w.status # 0 /\ IsSpecial /\ ~tty THEN "ended" ELSE "ran"
        /\ before' = IF Entry(env, OLDPWD) = Entry(w.env, OLDPWD) THEN before ELSE Nowhere
        /\ given' = (given \/ Entry(env, PWD) # Entry(w.env, PWD))
  /\ UNCHANGED <<tty, system, cmd, h, argv, opened, seen, leaving, count>>

RunNothing ==
  /\ pc = "run" /\ argv = <<>>
  /\ pc' = "ran" /\ status' = 0
  /\ UNCHANGED <<tty, system, cwd, env, cmd, h, argv, opened, said, seen, leaving, before, given, count>>
\* No program is found; a directory or a file that is named by a path is not one.
IsThere(s) ==
  LET at == Max({0} \cup {k \in 1..Len(s) : s[k] = "/"})
      dir == Lookup(fs, cwd, SubSeq(s, 1, at))
  IN \/ Lookup(fs, cwd, s) # Nowhere
     \/ dir # Nowhere /\ SubSeq(s, at + 1, Len(s)) \in NamesOf(dir)
NotFound ==
  /\ pc \in {"run", "redirect"} /\ ~IsInShell
  /\ pc' = "ran" /\ status' = IF "/" \in ToSet(argv[1]) /\ IsThere(argv[1]) THEN 126 ELSE 127
  /\ UNCHANGED <<tty, system, cwd, env, cmd, h, argv, opened, said, seen, leaving, before, given, count>>

\* free_ast and free_token_list.
EndCommand ==
  /\ pc \in {"ran", "refused"}
  /\ pc' = "prompt"
  /\ h' = FreeTokenList(FreeTokenList(h, "words"), "redirs")
  /\ cmd' = <<>> /\ argv' = <<>> /\ opened' = <<>> /\ said' = <<>>
  /\ UNCHANGED <<tty, system, world, seen, leaving, before, given, count>>

\* Another program renames a directory, or removes it.
Move(i, name) ==
  /\ pc # "ended" /\ moves < MaxMoves /\ i # Root /\ fs[i] # Gone
  /\ name # Gone => \A j \in DOMAIN fs : fs[j] # name
  /\ fs' = [fs EXCEPT ![i] = name] /\ moves' = moves + 1
  /\ before' = Nowhere /\ left' = Nowhere
  /\ UNCHANGED <<tty, world, pc, cmd, h, argv, opened, said, seen, old, given, count>>

Next ==
  \/ count < Len(Commands) /\ \E c \in Commands[count + 1] : ReadCommand(c)
  \/ \E dirs \in Listings : ExpandCommand(dirs) \/ Trial(dirs) \/ Redirect(dirs)
  \/ LeaveDir \/ EnterDir \/ SetPwd
  \/ RunBuiltin \/ RunNothing \/ NotFound \/ EndCommand
  \/ \E i \in DOMAIN fs, name \in NewNames : Move(i, name)

Spec == Init /\ [][Next]_vars

-----------------------------------------------------------------------------
(* Properties. *)

ArgvOK == argv \in Seq(Seq(STRING))
TypeOK ==
  /\ ArgvOK
  /\ tty \in BOOLEAN
  /\ pc \in {"prompt", "read", "trial", "redirect", "run", "chdir", "entered", "ran", "refused", "ended"}
  /\ cwd \in DOMAIN fs /\ {before, left} \subseteq DOMAIN fs \cup {Nowhere}
  /\ status \in 0..255
  /\ given \in BOOLEAN
  /\ \A key \in DOMAIN env : IsValidId(key) \/ \E e \in Environments : key \in DOMAIN e
  /\ count \in 0..Len(Commands) /\ moves \in 0..MaxMoves

\* The tokens and the parts are handed from list to list by the passes, which also
\* free them: none is used or freed after it was freed, each list is a list, and no
\* part is in two places.
HeapSound ==
  /\ ~h.bad
  /\ ListIsSequence(h, "words") /\ ListIsSequence(h, "redirs") /\ EachPartOnce(h)

\* Whatever became of a command, nothing of it is left in memory.
NothingLeft == pc = "prompt" => AllFreed(h)

\* The command as its reader sees it.
ValueOf(c) ==
  CASE c = "$?" -> <<ToString(status)>>
    [] c = "$*" -> Arguments
    [] OTHER -> IF Names[c] \in DOMAIN env THEN env[Names[c]] ELSE <<>>
EnvOr(key) == IF key \in DOMAIN env THEN env[key] ELSE <<>>
HomeOf(login) ==
  CASE login = <<>> -> EnvOr(HOME)
    [] login = <<"+">> -> EnvOr(PWD)
    [] login = <<"-">> -> EnvOr(OLDPWD)
    [] OTHER -> IF login \in DOMAIN Users THEN Users[login] ELSE <<>>
FoundIn(dir) == IF dir \in DOMAIN seen.names THEN seen.names[dir] ELSE {}
Alphabetical(a, b) ==
  \E k \in 1..Len(b) : /\ \A j \in 1..k - 1 : j <= Len(a) /\ a[j] = b[j]
                      /\ k <= Len(a) => a[k] # b[k] /\ Rank[a[k]] < Rank[b[k]]
Reader == INSTANCE Fields WITH DollarSymbols <- Dollars \ {"$"}, NamesIn <- FoundIn,
                               Before <- Alphabetical
Typed == FoldLeft(LAMBDA text, line : text \o line \o <<"\n">>, <<>>, cmd.lines)

\* Through nine passes over linked lists the arguments come out as someone reads
\* them who knows where each character comes from: quoted ones are never split,
\* matched or expanded again, values are, and nothing is lost or doubled.
JustExpanded == pc = "trial" \/ (pc = "run" /\ h.list["redirs"].count = 0)
FieldsAsRead == JustExpanded => argv = Reader!ArgumentsOf(Typed)

\* A redirection opens the one file its word stands for, or gives the body with its
\* values; a word that is no field, or several, opens nothing and fails the command.
\* (At "run" the redirections have been applied: their words were read with the
\* environment the command still has.)
Redirections == Reader!RedirectionsOf(Typed)
SourceOf(word) ==
  [op |-> word.op, str |-> IF word.op = "<<" THEN Reader!Body(word, cmd.body)
                           ELSE Reader!FieldsOf(word)[1]]
OneFile(word) ==
  LET fields == Reader!FieldsOf(word)
  IN word.op = ">" => Len(fields) = 1 /\ CanOpen(seen.fs, fields[1])
Unambiguous == \A k \in 1..Len(Redirections) : OneFile(Redirections[k])
\* (A body of which nothing but a continued line is left ends the child of the trial.)
BodyVanishes ==
  \E k \in 1..Len(Redirections) :
    Redirections[k].op = "<<" /\ SourceOf(Redirections[k]).str = <<>> /\ ToSet(cmd.body) \subseteq {"\\", "\n"}
SourcesAsRead ==
  /\ pc \in {"redirect", "run"} /\ cmd # <<>> /\ ~JustExpanded => Unambiguous
  /\ pc = "run" /\ ~JustExpanded =>
       opened = [k \in 1..Len(Redirections) |-> SourceOf(Redirections[k])]
  /\ pc = "refused" => ~Unambiguous \/ BodyVanishes

\* The path that is printed leads to the working directory, from where it was asked
\* for, whatever was renamed since PWD was set, even in the middle of a cd, and by
\* whichever way the shell came here; unless somebody else gave it a PWD that begins
\* with two slashes.
Doubled == PWD \in DOMAIN env /\ Len(env[PWD]) >= 2 /\ env[PWD][1] = "/" /\ env[PWD][2] = "/"
Prints ==
  /\ said' # <<>> /\ argv # <<>>
  /\ (pc = "run" /\ pc' = "ran" /\ status' = 0) \/ (pc = "chdir" /\ pc' = "entered")
PwdTrue == [][Prints /\ ~(given /\ Doubled) => Lookup(fs, cwd, said') = cwd']_vars

\* cd - leads back, however the directory before was reached.
CdBack ==
  [][pc = "chdir" /\ pc' # "chdir" /\ argv = <<<<"cd">>, <<"-">>>> /\ before # Nowhere =>
       cwd' = before]_vars

\* What a builtin makes, with arguments args, of an environment e.  A cd that succeeds
\* sets PWD and OLDPWD; an operand of export that is no assignment keeps no other from
\* being assigned, and the last one of a name counts; unset removes names; and nobody
\* touches another name.
Assignments(args, key) ==
  {k \in 2..Len(args) : Equals(args[k]) # {} /\ NameOf(args[k]) = key /\ IsValidId(key)}
Latest(S) == {k \in S : \A j \in S : j <= k}
Expected(args, e, new, done, key) ==
  CASE args[1] = <<"export">> /\ done # 2 /\ Assignments(args, key) # {} ->
         {ValueIn(args[k]) : k \in Latest(Assignments(args, key))}
    [] args[1] = <<"unset">> /\ done = 0 /\ IsValidId(key) /\ (\E k \in 2..Len(args) : args[k] = key) -> {}
    [] args[1] = <<"cd">> /\ done = 0 /\ key \in {PWD, OLDPWD} -> Entry(new, key)
    [] OTHER -> Entry(e, key)
Follows(args, e, new, done) ==
  \A key \in DOMAIN e \cup DOMAIN new \cup {NameOf(args[k]) : k \in 1..Len(args)} :
    Entry(new, key) = Expected(args, e, new, done, key)
\* A cd leaves a PWD that leads to the working directory, one that fails stays where it
\* is, and until a builtin is done nothing has changed in the environment.
BuiltinRuns == pc \in {"run", "chdir", "entered"} /\ argv # <<>> /\ pc' \in {"ran", "ended"}
EnvironmentFollows ==
  [][IF BuiltinRuns
     THEN /\ Follows(argv, env, env', status')
          /\ argv[1] = <<"cd">> /\ status' = 0 /\ fs[cwd'] # Gone => Lookup(fs, cwd', env'[PWD]) = cwd'
          /\ status' # 0 \/ argv[1] # <<"cd">> => cwd' = cwd
     ELSE env' = env]_vars
=============================================================================
