# 42_sh in TLA+

`42_sh/src` is a POSIX-like shell in C: it reads a command from a terminal or a
script, lexes and checks it, parses it into a tree, expands its words and runs
it with `fork`, `pipe`, `dup2` and `waitpid`. This directory holds models of its
parts, the TLC instances that check them and proofs of some of their properties.
Paths below are relative to `42_sh/src`.

## 1. The system

One process runs `minishell` (`minishell/minishell.c`): read a command, parse it,
run it, until the input ends. State lives in one structure (`t_mns`), in the
process (descriptors, environment, signal dispositions) and in the global
`g_signal_flag`.

| component | state | operations | what makes it correct |
|---|---|---|---|
| Reader (`step_1_reading`, `minishell`) | `total_input`, the list of lines, the bodies of here-documents | `read_user_input`, `main_loop`, `manage_pendings`, `main_stop`, `main_sigint`, `collect_heredocs`, `read_heredoc_body`, `exit_from_heredoc`, `main_finalize` | each line ends up in the command or in one body; a cancelled command is never run; the end of the input ends the shell |
| Signals (`m_signal`) | `g_signal_flag`, dispositions | `init_signals`, the two handlers, `sig_reset`, `set_code` | the flag of one line never cancels another |
| Lexer (`step_3_lexing`, `m_input`, `m_token`, `step_2_checking/ctx`) | state, position, parts of the current word, tokens, stack of contexts | `run_lexer` and what it calls | no symbol lost, contexts tell exactly whether the text is finished |
| Checker (`step_2_checking/checker.c`) | three flags and a count of parentheses | `special_checker` | lets exactly the grammar through |
| Parser (`step_4_parsing`, `m_ast`) | the tree | `rd_parse` | the tree is that of the grammar |
| Expansion (`step_5_expanding`, `m_normalize`, `step_6_assembling`) | the tokens of a command and their parts, linked lists that each pass walks, cuts, splices and frees | `expand_args`, `expand_redirs` and their passes: tilde, variables, splitting, pathnames, quote removal | words as someone reads them who knows where each character comes from; every part has one owner and is freed once |
| Execution (`step_7_execution`) | descriptors, children, last exit code | `exec_node`, `exec_pipeline`, `exec_subshell`, `exec_command`, `apply_redirs` | nothing leaks, nothing waits for ever, `$?` is that of the last command |
| Builtins, environment (`step_7_execution/builtin`) | `environ`, working directory | `cd`, `pwd`, `export`, `unset`, `exit`, `echo` | `PWD` leads to the working directory, `cd -` leads back, a `cd` that fails changes nothing, an `export` that fails assigns its valid operands all the same |
| Utilities (`utils/strapi`) | buffers that grow by steps | append, trim, remove, clear, free, dup | a terminated text within the memory it owns |

The parts call each other in one direction (reader to lexer to checker, then
parser, then execution, which calls the expansion of each command when it comes
to it). They share the token list, which the lexer appends to over several lines,
`collect_heredocs` inserts into, the checker walks again from its head after
every line and the parser consumes; and the exit code, which `set_code` also
writes into the signal flag.

What is hard here: SIGINT between any two steps; a text that may end in the
middle of everything, with an answer that depends on whether the input is a
terminal; the order of `pipe`, `fork` and `close`, on which the end of file and
`SIGPIPE` of a whole pipeline depend; failures half way through; state kept from
one line to the next. `PROJECT.json` lists these hazards line by line.

## 2. The modules

| module | models | how state and actions correspond |
|---|---|---|
| `PipelineContract` | what `exec_pipeline` promises | running, the codes of the commands that ended, the result |
| `Pipeline` | `exec_pipeline.c`, `return_full_code`, `sig_reset` | `tab[p]` is the descriptor table of process `p`; one action per system call or group of calls between which no other process can see a difference; children connect themselves, read, write and die on their own |
| `PipelineProofs` | | section 5 |
| `Lexer` | `tokenize.c`, contexts, tokens | operators over one record; `Step` is one turn of the innermost loop of the source, on one symbol |
| `Checker` | `checker.c`, `token_specs.c` | `CheckFrom` walks the tokens with the record `t_checker` |
| `Parser` | `rd_parser.c` | one operator per function, which takes the index of the head of the list and returns the node and the new head |
| `Grammar` | nothing: the grammar of the shell, written on its own | `RefParse`, by splitting at operators, against which `Parser` and `Checker` are compared |
| `FrontEnd` | lexer, checker and parser on every text | `TypeSymbol` lexes one more symbol; the ends of a line are `Refuse`, `GiveUp`, `Complete`, `Continue` |
| `Reader` | the reading loop with here-documents, signals and the end of the input | `pc` is the next step; `Interrupt` may come before any step |
| `Parsing` | the parser on the tokens of `FrontEnd` | no state of its own |
| `Exec` | `exec_control.c`, `exec_cmd*.c`, `redirs_apply.c` and what they need of the pipeline and of `exit` | a process is its descriptor table, its exit code and its pending calls of `exec_node`; only the innermost process runs, the others wait; one action per call, return or command |
| `Strapi` | `utils/strapi` | a buffer is a record of the memory it owns, its size and the length of its text; one operator per function |
| `Tokens` | `m_token` | a heap: every part and token made so far with its links, which of them are freed, the lists of the command, and whether freed memory was used |
| `Words` | `step_5_expanding`, `m_normalize`, `step_6_assembling` | one operator per pass, from heap to heap: `ExpandTildes`, the variables, `SplitParts`, the patterns with `match_star` and the sort, `Normalize`, `Argv` |
| `Fields` | nothing: what a command means, written on its own | reads the text once, each character with its origin, and cuts it into fields |
| `Builtins` | `bt_cd.c`, `bt_pwd.c`, `bt_export.c`, `bt_unset.c`, `bt_getopt.c` and the helpers of `environ` | functions from the environment, the working directory and the directories of the system to the same; of `cd` one for `chdir` (`ChangeDir`) and one for what it sets afterwards (`UpdatePwd`) |
| `Session` | the way of a command through lexer, parser, expansion, trial, redirections and builtin | `pc` is the next step; the tokens of `Lexer` become a heap of `Tokens`; `cd` takes three steps (`LeaveDir`, `EnterDir`, `SetPwd`), one per system call; `Move` is another program that renames or removes a directory between any two steps |
| `LexerProofs`, `FrontEndProofs`, `ReaderProofs`, `ExecProofs`, `ExecMeaningProofs`, `StrapiProofs`, `SessionProofs` | | section 5 |

`MCPipeline`, `MCFrontEnd`, `MCReader`, `MCExec` and `MCSession` give TLC its
constants. Operators whose name is that of another one with a defect
(`ParentTableKeepsPrev`) are mutants: put in its place they break the property
`PROJECT.json` names, which shows that the property looks at the code.

Modules that are composed: `FrontEnd` is `Lexer` with `Checker`, `Parsing` adds
`Parser` and compares with `Grammar`; `Reader` drives `Lexer` and `Checker` line by
line; `Session` drives `Lexer`, `Words` (over `Tokens`, over `Strapi`) and `Builtins`
and compares with an instance of `Fields`; `Pipeline` implements `PipelineContract`.

Data is abstract where nothing depends on it. A symbol is a character class or a
whole operator; `>` stands for `<`, `>` and `>>`, which lexer, checker and parser
treat alike. A unit of data in a pipe has no value. The programs of a pipeline
are one that writes for ever, one that copies and one that ends early. In `Exec` a
command is what the shell does with it (a builtin, a special one, `exit`, a
program, redirections only) and its status.

`Pipeline` has the stages of one pipeline at the same time, without what their
commands do to the shell; `Exec` has whole trees, with stages one after another.
They agree on what a stage inherits (`Connect`) and on what a failed `pipe` or
`fork` leaves open (`StageFails`, `GiveUp`). `Session` has one process and looks
inside the command that `Exec` takes for a status.

## 3. The runs

| run | expected | shows |
|---|---|---|
| `Pipeline_lines` | pass | pipelines of two and three commands one after the other, one of them with a writer that nothing but the end of its reader stops, with standard descriptors closed at start, descriptors running out and `fork` failing: who holds which end of which pipe, what `exec_pipeline` returns against its contract, that it returns |
| `FrontEnd_lexing` | pass | position, quotes, contexts and words for every text of five symbols over three lines |
| `FrontEnd_grammar` | pass | every line of six symbols: accepted if and only if it is in the grammar (stray semicolons aside), with the tree of the grammar |
| `FrontEnd_quotes` | violation | a closed quoted part is closed again by the operator behind it: `X='a';` keeps the quote |
| `FrontEnd_semicolon` | violation | `a;;` and `a;\|a` are accepted |
| `FrontEnd_escape` | violation | after `\'` the shell waits for a quote to be closed |
| `Reader_lines` | pass | five lines of commands and here-documents, at a terminal or from a script, with a SIGINT at any moment: which lines belong to what, what is cancelled, that the end of the input ends the shell |
| `Exec_tree` | pass | two lines out of six (lists, subshells and pipelines inside one another, every kind of command with and without redirections), at a terminal or in a script, with 0 to 3 free descriptors, while every call that can fail fails and children are killed |
| `Session_commands` | pass | three commands of words, redirections and builtins, at a terminal or in a script, on one environment, while another program renames or removes a directory between any two steps, those of a `cd` included |
| `Session_heap` | violation | a word of two unquoted parts (`echo \a` continued on the next line) that is split: the second part is freed with the old token and used |
| `Exec_status` | violation | on the right of `&&` and `\|\|`, `$?` is the status of the line or list before, not of the left side |
| `Reader_dropped` | violation | a here-document without lines is dropped with its command as if cancelled; so is one after `(exit 130)` in a script |

The violations were seen on the program too. Other things the models show and no
run is spent on: `cat <<\E` walks into a missing token and the shell dies
(`BeginBody`, state `crashed`); a script whose line begins with an open quote ends
the shell (`GivesUp`); in a script SIGINT is not ignored between the two calls of
`signal` of a body (`Arm`, `Armed`); the body of a here-document that does not fit
into a pipe stops the shell (`Blocks`), in the trial of the redirections already.

**Bounds.** Lines of a pipeline: three commands are the least with a first, a
middle and a last one, two lines in a row show what the first leaves behind;
`MaxFd` is chosen so that both enough and too few descriptors occur. Texts: five
symbols hold a quote inside parentheses behind an operator, with a line end
between any two; six symbols of the grammar hold two binary operators over three
commands, a subshell with a redirection, and every pair of neighbours. Reading:
five lines hold a line with two here-documents, both bodies and both delimiters,
or a continued command with a body in between. One SIGINT may come at any of
these steps; a second one finds the shell in a state the first has left it in,
which the run reaches without it as well. Trees: a subshell in a list in an and-or
list, a subshell as a stage between two others, two redirections on one command;
up to three processes wait for each other. Up to three free descriptors are
enough for both saved ones and one end of a pipe, so that each of the calls is
the one that fails. Two lines show what the first leaves behind.
Sessions: the first command sets a variable or moves, the second does either or
uses it in words, redirections and a body, the third uses what both have left;
one directory is renamed or removed at any moment of them, in the middle of a `cd`
too, which is the least that makes `PWD`, `OLDPWD` or a pattern stale. `Garbage` is
what may stand in memory behind an empty string, of which `cd` reads one when the
directory it is in is gone and its operand has two slashes (`bt_cd.c:33`). Values hold a blank and a `*`, or
nothing; `BufStep = 2` makes every buffer grow while it is written. `readdir` lists
the working directory in every order.

`MCSession` leaves out texts on which the shell is known to differ from what
`Fields` reads, each at one line of the code, and which would hide everything
else:

- a value with backslashes: they are removed as if they had been typed
  (`docs/TODO:33`), and a field with both an escaped and an active `*` matches with
  both or none;
- `"~"~` and `~'a'`: of a word with an unquoted tilde anywhere the first part is
  expanded (`exp_tilde.c:104`), a quoted one or half a user name; the run has `'a'~`,
  where nothing is; a home directory with blanks, which is split;
- `$"..."`, whose dollar stays; a variable followed at once by letters of another
  name (one symbol stands for the dollar and its name);
- a redirection whose pattern matches several files: the first is opened
  (`exp_wild_run.c:122`); a new file that a pattern of the same command could find;
- names that differ only in what the sort leaves out (`a.b`, `ab`): their order is
  that of `readdir`;
- a newline inside quotes, which a script's reader doubles;
- a word of several unquoted parts that is split: `Session_heap` shows it alone.

One command of the run has a body of nothing but a backslash and a newline, of which no
string is left: `strlen` is called with `NULL` (`exp_heredoc.c:66`), the child of the trial
ends of it, and the shell takes the command for one whose redirections fail. That is what
`SourcesAsRead` grants it (`BodyVanishes`).

In the root `pwd` prints a `PWD` that begins with two slashes as it is
(`bt_pwd.c:109`). One that `cd` has set there is nothing but slashes; one that was
inherited or exported may lead anywhere, so `PwdTrue` excepts exactly it: `given`
remembers whose `PWD` it is. `cd -` prints an `OLDPWD` that was exported as a
relative path as it is, and it leads from where it was typed. `Lookup` knows names
of one symbol below the root and `.`; `..` is found nowhere, and no command of the
run has it.

`Exec` starts with the standard descriptors open. Without standard output (`>&-`)
`dup(0)` returns 1 and `restore_fds` closes what it has just put back: the
program then reads no further line, and no property of the model would hold.

`FrontEnd` takes a `#` behind a closed quote for a comment, as the code does; the
standard takes it for a part of the word.

**Fairness.** `Pipeline_lines` assumes that the shell and each child go on when
they can (the scheduler), a child that can both read and end being a matter of
its program. `Reader_lines` assumes that the shell takes its steps, that a
command ends, and that `read` returns at the end of a file. `Exec_tree` assumes
that the shell and its children take their steps and that programs end; killing
them is never assumed. Nobody is assumed to
type, to send a signal or to end the input. `Session` has no liveness property and
assumes nothing.

## 4. Properties

`Pipeline`: the tables of the commands that run (`NoStrayEnds`), of the shell
afterwards (`NoLeak`: as before, or, where `pipe` or `fork` has failed, with no more open
than the ends the last command was to get), the privacy of the pipes (`EndsArePrivate`), `AllReaped`,
the refinement of `PipelineContract`, and `Returns`.
`FrontEnd`: `AtEndOfBuffer`, `QuoteIsInnermost`, `CompleteIsNormal`,
`ContextsTell` (the stack of contexts says exactly when a reader of the text would
ask for more), `NothingLost` (each character of a word is in one part of one
token), `GrammarIsParsed` and `AcceptedIsGrammar`.
`Reader`: `BufferIsRead` (position and buffer agree whenever the shell reads, no
word reaches past the buffer), `InterruptCancels`, `OnlyInterruptCancels`,
`InputSplit` (against a function that splits the raw lines on its own) and
`EofEnds`.
`Exec`: `Restored` (each process has between two commands the descriptors it began
with, whatever failed), `SeesLastElsewhere` (`$?` is the status of the command
before, in whichever process that ran), `RunsAsWritten` (the commands that ran
and the status of the line are those a reader of the tree works out from the
outcomes of the commands, as a function of the tree alone) and `Returns`.
`Session`: `HeapSound` (over all passes no part or token is used or freed after it
was freed, none is in two lists, lists are lists), `NothingLeft` (whatever became
of a command, its memory is free at the next prompt), `FieldsAsRead` (the
arguments that come out of the passes are those `Fields` reads off the text),
`SourcesAsRead` (the same of redirections and bodies; one that is no single file
opens nothing), and of the builtins `PwdTrue` (the path `pwd` or `cd -` prints leads to the
working directory, whatever was renamed since), `CdBack` (`cd -` leads back) and
`EnvironmentFollows` (the `PWD` a `cd` sets leads to the working directory, a failing `cd`
changes neither, a wrong operand of `export`
keeps no other from being assigned, the last one of a name counts, nobody touches
another name).

## 5. Proofs

`PipelineProofs` (checked by TLAPS) proves for every value of the constants
`TypeOK`, `NoStrayEnds`, `NoLeak`, `AllReaped`, `EndsArePrivate` and that
`Pipeline` implements `PipelineContract`. The invariants are not inductive as they
stand: `IndInv` adds what the shell's table is at every point of the loop (the
base table, the read end of the previous pipe, the new pipe), what a child
between `fork` and its own calls has inherited, and that pipes are numbered by
their writers, so that an end of an old pipe is never taken for one of a new pipe.
Assumptions are those of the constants: at least two commands per line, a
capacity of at least one, standard input open.

`ExecProofs` proves `TypeOK` and `Restored` for every set of trees, any number of
lines and of descriptors. `ExecInv` adds why: the standard descriptors are open
in every table of every process (`Open3`), so what `dup` and `open` find is above
them (`OpenAbove`, from the well-ordering of the naturals) and no redirection
reaches it (`ApplyKeeps`); then `restore_fds` is the inverse of saving and
redirecting (`RestoreUndoes`), a child begins with a table it owns (`ChildGood`),
and what is lost is only what was free before (`SetTab`). Besides, each process but
the last is in a call that has not returned, so that a child that ends finds its
parent waiting with a stage left or none (`EndedInv`, `GoodFrames`). Assumed: a
standard input and output that are open at the start, in `Init`.

The same module proves `SeesLastElsewhere` on top of it: a command that is not on
the right of `&&` or `||` is expanded with the status of the command before it. The
code keeps that status in two places, the return value of `exec_node` and
`last_exit_code`, and only `set_code` brings them together, so the invariant
(`HistInv`) says of every pending call of every process what each of them is worth:
a process whose innermost call begins has the status of its last command (`Fresh`),
unless a call that waits is on the right of an and-or list (`HasRight`), and then so
is everything it calls and forks; one whose call has returned may have it in the
returned value alone (`Told`), and then the call that waits for it sets it before it
runs anything; a child has begun with what its parent knew (`Called`).

`ExecMeaningProofs` proves `RunsAsWritten` on top of both. `Meaning` reads the value of a
line off its tree from the root down, a recursive function of a node and the number of
the next outcome; the program has it from the leaves up, in calls spread over processes.
That there is such a function follows from kids coming after their node in the list
(`ValuesExist`, by induction from the last node to the first); from there on the proof
knows of it nothing but its equations (`Solved`). The invariant (`MeansInv`) quantifies over
everything that may still happen: for every log that continues the present one
(`Continues`) there is a tableau with a value for each pending call of each process,
such that the first is the line's value, each is what its call makes of the next
(`Linked`: `AfterSide` within a process, `Waits` from a process to its child), and the
innermost is what that call is worth by itself, or what it has returned. A call or a
fork adds a row or a column, a return takes one away, a command that ends its process
hands its value up through all the calls that wait. Where nothing is left to call, the
first value is also the innermost one, and the line's value is what came out. An outcome
in the log belongs to the node it names, and would be taken for that of a waiting call
if a tree could call a node again: calls are of ever deeper nodes (`Deeper`).

`SessionProofs` proves of `Session`, for any commands, directories and renamings,

- `PwdTrue` and `CdBack`, from `SessInv`: the names of the directories stay different
  and below the root, `OLDPWD` is the physical name of `before` as long as nobody
  moves a directory or sets it (what a `cd` keeps for it from its first step to its last
  included), and while the shell is in the root a `PWD` of its own with two slashes in
  front is nothing but slashes, save between the last two steps of a `cd`, where `PWD`
  still is that of the directory before; a `//` that is about to be set has led to the
  root, which nobody can rename. Neither property is inductive: a
  `pwd` prints what a `cd` many commands before has set;
- `EnvironmentFollows` and the rest of `TypeOK`, for as long as the arguments are
  sequences of strings (`ArgvOK`, a part of `TypeOK` that TLC checks). The theorems have
  this hypothesis because the arguments come out of folds over linked lists, of which
  no prover here knows anything. `AssignedEntries` is the induction over the operands of
  `export`: after any number of them each name has the value of its last valid
  assignment; `OperandsAre` says what `bt_getopt` leaves as operands.

Assumed of the constants: the root is there, directories have different names of one
symbol, which are not `.`; `PWD` and `OLDPWD` are identifiers and `-` is part of none.

`StrapiProofs` proves of the buffer that no call of it writes outside the memory it
owns and that each leaves a terminated text, the one it was asked for, for any
text, step and capacity (`Good` is inductive over the calls); `Words` builds its
strings with these operators, and `HeapSound` sees a write out of bounds.

`LexerProofs` proves of each operator of `Lexer` that it keeps the type of the
lexer's record, and that `Step` and `EndChunk` keep `Good`: no part of a word
reaches past the position. `ReaderProofs` proves for `Reader` with them, for any
number of lines, bodies and signals,

- `TypeOK`;
- `InterruptCancels` and `OnlyInterruptCancels`, from `SignalInv`: only a
  terminal can have a pending interruption, it has one only where the shell waits
  for a line, with the flag set, or at the end of the input, and a script ignores
  the signal wherever it waits for a line;
- `BufferIsRead`, from `BufferInv`: the lexer is `Good` for the whole buffer
  wherever the shell may read or be interrupted, and a command whose here-documents
  are collected still has their delimiters in it.

The same module proves `InputSplit`, for lines in which a delimiter is a word without
quotes and double quotes are the only ones (`Readable`: of these, `Split` can tell
without a lexer what a line asks for; TLC evaluates it of the lines of `Reader_lines`).
The property compares the two ends of the reading: the raw lines, split from the first
on by a function that knows nothing of tokens, and buffer and tokens when the command
is complete. Between them `SplitInv` says for each place the shell can be at what it has
of the lines so far (`Fits`):

- in the middle of a line (`Lexed`), how many of its symbols are behind the position;
  the lexer is in a quote exactly where the text is, and of the delimiters asked for the
  last may still be a word that has only begun (`Awaits`, `Reading`);
- behind a line, the redirections the lexer has marked are, in order, those the lines
  ask for, all behind the bodies there are, each followed by the word that is its
  delimiter (`Wants`), and the bodies there are come first among those `Split` expects
  (`HasBodies`);
- while a body is read (`Bodied`), it is the next that is wanted and goes in behind all
  bodies and before all that wait; `Counted` says that a marked redirection is among
  those the chunk has counted, without which `collect_heredocs` would not look for it;
- a body that the end of the input has ended counts for `Split` as one that still waits
  for its delimiter, but for the shell as read (`Waited`); the lines it has are the same.

It stands on `BufferInv`, for a delimiter must still be in the buffer when its body ends.
The recursive functions are taken apart by their equations (`Recursion`), which exist by
induction over the length of what is read; two that agree on the lines so far give the
same (`RecursionSame`), so that a line more changes nothing of what was split before.

`FrontEndProofs` proves of lexer and contexts, for any alphabet and texts of any
length, `TypeOK`, `AtEndOfBuffer`, `QuoteIsInnermost` and `CompleteIsNormal`. None
is inductive: the lexer enters and leaves a quote by a step that also pushes or
pops, on a stack whose top may be anything. `FrontInv` holds them together:
`QuoteInv` (no quote is on the stack outside of quotes, inside exactly one, on its
top), `StartInv` (a line nobody has typed into is in the state the end of the line
before has left) and `Settled` (at the end of a line an empty stack means an empty
word).

The same module proves `NothingLost` of every alphabet that does not have both the
backslash and `#`. It compares two readings of a text that nothing in the model
connects: the parts the lexer made, and `Inside`, which says from the text alone what
stands in quotes or in a comment. `LossInv` connects them: `Told` (inside a quote or a
comment both are in it, inside a word neither is), `Bounded` (where the lexer may take
a `#` for a comment, one begins, and the line or word ended there), `Parted` (how the
parts of the word being read stand to the position: where the last one does not grow
any more, no character of a word lies behind it) and `Cover` (every symbol that was
read is taken once, or is in a comment and not taken). The last is stated of the parts
as they would be if the word ended here (`Shut`), since `close_tmp_part` sets the end of
a part only later, and is kept because each operator takes what was taken before and at
most the new symbol (`Moved`). The hypothesis is needed, and is of the code: the lexer
takes an escaped quote for one that opens (`FrontEnd_escape`), and from there on the two
readings disagree on what is a comment: in `\'#'a` the lexer reads a word in quotes and
an `a` where a reader sees a comment (TLC's counterexample). With backslashes alone no
text loses anything, whatever the lexer makes of them. `FrontEnd_lexing` has `#` and no
backslash.

`ContextsTell` is proved there of every alphabet without the backslash. The stack of
contexts, from which the shell decides whether to ask for a line, is compared with
`Unfinished`, which reads tokens and text and no context. `CtxInv` is the inductive
invariant. Its part on tokens, `Kept`, says that the stack consists of the operators and
parentheses that are still open: as many parentheses as the tokens leave open, an
operator on top exactly while the last token, newlines aside, is one, and no two
operators on each other (`Apart`), since the next word removes one only. This is true of
lists in order only (`OrderedTo`: no control operator and no closing parenthesis behind
an operator that joins two commands, no parenthesis closed that is not open). What rules
out the others is the checker, which refuses the text in the same step
(`CheckedOrdered`: a list `check_tokens` walks to its end is in order). The checker is a
recursive function, so the proof follows a walk that is first shown to exist
(`WalksExist`, by induction on the tokens left to walk) and shows what it has seen to
before its position (`Seen`) at each token. Inside quotes it is `Told` of `LossInv` that
says the quote is open in the text too; and as newlines open and close no quote
(`LastTold`), it makes no difference that the lexer is asked behind the end of the
line. The hypothesis is needed: `FrontEnd_escape` shows the property false with a
backslash.

Out of the prover's reach and left to TLC: liveness and fairness (`Returns`,
`EofEnds`), what recursive operators compute (`GrammarIsParsed`,
`AcceptedIsGrammar`), and the words of `Session`
(`HeapSound`, `NothingLeft`, `FieldsAsRead`, `SourcesAsRead`), whose passes are folds
over lists of any length and whose reference reads a text from left to right. `Parser`
and `Grammar` are recursive, which is why they stand apart from `FrontEnd`, in `Parsing`.

## 6. Not modelled

- Prompts, history, messages, debug output: nothing depends on them.
- `bash/`, `dash/` and `tools/`: the shells 42_sh is compared with and the driver
  that compares them are other programs, more than nine tenths of the lines of the
  repository. Of the lines of 42_sh itself the modules map about one half.
- `utils/std`, `sstr`, `deque`, `gnl`: general lists and strings without a protocol
  of their own; where one matters (`Strapi`, lists of tokens) it is modelled.
- Of the builtins: the text `echo` writes, the list `export` prints, how `exit` reads
  its arguments (`exit --` alone reads past them), and `.`, which only complains. Of the environment: `PATH` and `SHLVL` at the
  start. Of the parameters: `$1` to `$9`, values like any other.
- Addresses: buffers are values, so a pointer into a buffer that has moved
  (`read_main.c:60`) is not seen. The heap of `Tokens` does have addresses.
- Closed standard descriptors in `Exec`, see section 3.
- Every redirection is opened twice, by the trial and by the command: a second
  opening of a file changes nothing the models hold.
- `sig_parent_ignore`, the dispositions while a program runs in the foreground.

Still worth doing: `Session` with more than one process, in which a subshell's `cd`
and `export` stay its own.
