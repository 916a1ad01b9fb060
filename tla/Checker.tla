------------------------------ MODULE Checker ------------------------------
(***************************************************************************)
(* step_2_checking/checker.c: is a list of tokens the beginning of a       *)
(* command?  The checker walks the list from its head each time the reader *)
(* has lexed one more line, and stops at the first unexpected token.       *)
(***************************************************************************)
EXTENDS Lexer

\* The attributes and classes of token_specs.c.
IsCmdPart(t) == t.type \in {"WORD", "BODY"} \cup Redirs
IsRedir(t) == t.type \in Redirs
IsSep(t) == t.type \in {";", "NEWLINE"}
IsBinary(t) == t.type \in OpContexts

NewChecker(first) ==
  [cur |-> first, ready |-> FALSE, closed |-> TRUE, can |-> TRUE, parens |-> 0,
   bad |-> FALSE]

Bad(chk) == [chk EXCEPT !.bad = TRUE]
States(chk, ready, closed, can) ==
  [chk EXCEPT !.ready = ready, !.closed = closed, !.can = can]

\* A redirection is good before a word, and at the end of the list: its target
\* may still be on its way.
BadRedir(toks, k) ==
  IsRedir(toks[k]) /\ k < Len(toks) /\ toks[k + 1].type # "WORD"

\* is_bad_cmd goes through a whole run of words and redirections; when it ends
\* with a redirection, past the end of the list.
EndOfCommand(toks, k) ==
  LET run == {e \in k..Len(toks) : \A j \in k..e : IsCmdPart(toks[j])}
      last == CHOOSE e \in run : \A j \in run : j <= e
  IN IF IsRedir(toks[last]) THEN last + 1 ELSE last
BadCmd(toks, k) ==
  \E e \in k..Len(toks) :
    (\A j \in k..e : IsCmdPart(toks[j])) /\ BadRedir(toks, e)

CheckLparen(toks, chk) ==
  LET k == chk.cur
      afterOneWord == k > 1 /\ IsCmdPart(toks[k - 1])
                      /\ (k > 2 => ~IsCmdPart(toks[k - 2]))
  IN IF chk.ready /\ ~chk.closed
     THEN \* the token blamed is the one after the parenthesis, if there is one
          [chk EXCEPT !.bad = afterOneWord => k < Len(toks)]
     ELSE [States(chk, FALSE, FALSE, TRUE) EXCEPT !.parens = @ + 1]

CheckRparenOfNothing(chk) ==
  IF chk.parens = 0 THEN Bad(chk)
  ELSE [States(chk, TRUE, FALSE, FALSE) EXCEPT !.parens = @ - 1]
CheckRparen(chk) ==
  IF ~chk.ready \/ chk.parens = 0 THEN Bad(chk)
  ELSE [States(chk, TRUE, FALSE, FALSE) EXCEPT !.parens = @ - 1]

CheckCommand(toks, chk) ==
  IF toks[chk.cur].type = "WORD" THEN
    IF ~chk.can \/ BadCmd(toks, chk.cur) THEN Bad(chk)
    ELSE [States(chk, TRUE, FALSE, FALSE) EXCEPT !.cur = EndOfCommand(toks, @)]
  ELSE IF BadRedir(toks, chk.cur) THEN Bad(chk)
       ELSE [States(chk, TRUE, FALSE, chk.can) EXCEPT !.cur = @ + 1]

CheckSeparator(toks, chk) ==
  LET t == toks[chk.cur]
  IN IF ~chk.ready THEN Bad(chk)
     ELSE IF IsSep(t) THEN States(chk, TRUE, TRUE, TRUE)
     ELSE IF IsBinary(t) THEN States(chk, FALSE, FALSE, TRUE)
     ELSE Bad(chk)

CheckToken(toks, chk) ==
  LET t == toks[chk.cur]
  IN IF t.type = "NEWLINE" THEN States(chk, FALSE, TRUE, TRUE)
     ELSE IF t.type = "(" THEN CheckLparen(toks, chk)
     ELSE IF t.type = ")" THEN CheckRparen(chk)
     ELSE IF t.type = "WORD" \/ IsRedir(t) THEN CheckCommand(toks, chk)
     ELSE CheckSeparator(toks, chk)

\* check_tokens, from a given state of the checker on.
CheckerStates ==
  [cur : Nat, ready : BOOLEAN, closed : BOOLEAN, can : BOOLEAN, parens : Nat,
   bad : BOOLEAN]
CheckFrom(toks, start) ==
  LET go[chk \in CheckerStates] ==
        IF chk.bad \/ chk.cur > Len(toks) \/ toks[chk.cur].type = "EOF" THEN chk
        ELSE LET next == CheckToken(toks, chk)
             IN IF next.bad THEN next ELSE go[[next EXCEPT !.cur = @ + 1]]
  IN go[start]

\* The reader resets the checker whenever a list is complete or refused, so a
\* walk always begins at the head.
IsBadSyntax(toks) == CheckFrom(toks, NewChecker(1)).bad
=============================================================================
