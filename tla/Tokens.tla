------------------------------- MODULE Tokens -------------------------------
(***************************************************************************)
(* m_token: the tokens of a command and their parts, which are linked      *)
(* lists in memory that somebody has to free.                              *)
(*                                                                         *)
(* A heap is a record of every part and every token made so far, of those  *)
(* that are freed, of the lists of the command (its words and its          *)
(* redirections, and the list split_parts builds), and whether memory was  *)
(* used or freed after it had been freed, or written out of its bounds.    *)
(***************************************************************************)
EXTENDS Strapi, SequencesExt, FiniteSets

Null == 0
ListNames == {"words", "redirs", "sub"}
EmptyList == [head |-> Null, tail |-> Null, count |-> 0]

EmptyHeap == [part |-> <<>>, tok |-> <<>>, freed |-> {},
              list |-> [n \in ListNames |-> EmptyList], bad |-> FALSE]

\* Addresses, as they stand in freed.
PartAt(p) == <<"part", p>>
TokAt(t) == <<"tok", t>>

NewPart(h, type, str) ==
  [h EXCEPT !.part = Append(@, [type |-> type, str |-> str, next |-> Null, dollar |-> FALSE])]
NewToken(h, type, role) ==
  [h EXCEPT !.tok = Append(@,
     [type |-> type, role |-> role, head |-> Null, tail |-> Null, count |-> 0,
      next |-> Null, prev |-> Null, str |-> NoString,
      quoted |-> FALSE, tilde |-> FALSE, dollar |-> FALSE, glob |-> FALSE])]
LastPart(h) == Len(h.part)
LastToken(h) == Len(h.tok)

\* The parts behind p, and the tokens behind t, as the pointers have them.
PartChain(h, p) ==
  LET chain[q \in 0..Len(h.part)] ==
        IF q = Null THEN <<>> ELSE <<q>> \o chain[h.part[q].next]
  IN chain[p]
TokenChain(h, t) ==
  LET chain[u \in 0..Len(h.tok)] ==
        IF u = Null THEN <<>> ELSE <<u>> \o chain[h.tok[u].next]
  IN chain[t]
PartsOf(h, t) == PartChain(h, h.tok[t].head)
Walk(h, list) == TokenChain(h, h.list[list].head)

\* A pass over a list reads every token of it and every part of those.
Reached(h, list) ==
  UNION {{TokAt(t)} \cup {PartAt(p) : p \in ToSet(PartsOf(h, t))} : t \in ToSet(Walk(h, list))}
Touch(h, list) == [h EXCEPT !.bad = @ \/ Reached(h, list) \cap h.freed # {}]

-----------------------------------------------------------------------------
(* Freeing. *)

FreeAt(h, address) == [h EXCEPT !.bad = @ \/ address \in h.freed, !.freed = @ \cup {address}]

FreePart(h, p) == FreeAt(h, PartAt(p))
FreeParts(h, p) == FoldLeft(FreePart, h, PartChain(h, p))
FreeToken(h, t) ==
  LET used == [h EXCEPT !.bad = @ \/ TokAt(t) \in h.freed]
      parts == IF h.tok[t].type = "WORD" THEN FreeParts(used, h.tok[t].head) ELSE used
  IN FreeAt(parts, TokAt(t))
FreeTokenList(h, list) ==
  [FoldLeft(FreeToken, h, Walk(h, list)) EXCEPT !.list[list] = EmptyList]

-----------------------------------------------------------------------------
(* Lists. *)

AppendPart(h, t, p) ==
  LET tail == h.tok[t].tail
      alone == [h EXCEPT !.part[p].next = Null, !.tok[t].tail = p]
  IN IF h.tok[t].head = Null THEN [alone EXCEPT !.tok[t].head = p, !.tok[t].count = 1]
     ELSE [alone EXCEPT !.part[tail].next = p, !.tok[t].count = @ + 1]

ListAppend(h, list, t) ==
  LET tail == h.list[list].tail
      last == [h EXCEPT !.tok[t].next = Null, !.tok[t].prev = tail,
                        !.list[list].tail = t, !.list[list].count = @ + 1]
  IN IF h.list[list].head = Null THEN [last EXCEPT !.list[list].head = t]
     ELSE [last EXCEPT !.tok[tail].next = t]

\* The neighbours of a token, or the list, are made to point past it.
SetNext(h, list, prev, t) ==
  IF prev # Null THEN [h EXCEPT !.tok[prev].next = t] ELSE [h EXCEPT !.list[list].head = t]
SetPrev(h, list, next, t) ==
  IF next # Null THEN [h EXCEPT !.tok[next].prev = t] ELSE [h EXCEPT !.list[list].tail = t]

Unlink(h, list, t) ==
  LET prev == h.tok[t].prev
      next == h.tok[t].next
  IN [SetPrev(SetNext(h, list, prev, next), list, next, prev) EXCEPT !.list[list].count = @ - 1]

\* The tokens behind first take the place of old, which is freed
\* (replace_in_list and repl_token_with_globs).  Only the first and the last of
\* them learn of their new neighbours.
ReplaceForgetsTail(h, list, old, first) ==
  LET prev == h.tok[old].prev
      next == h.tok[old].next
      joined == [SetNext(h, list, prev, first) EXCEPT
                   !.tok[first].prev = prev, !.tok[Last(TokenChain(h, first))].next = next]
  IN FreeToken(joined, old)
Replace(h, list, old, first) ==
  LET prev == h.tok[old].prev
      next == h.tok[old].next
      last == Last(TokenChain(h, first))
      joined == [SetPrev(SetNext(h, list, prev, first), list, next, last) EXCEPT
                   !.tok[first].prev = prev, !.tok[last].next = next]
  IN FreeToken(joined, old)

Recount(h, list) == [h EXCEPT !.list[list].count = Len(Walk(h, list))]

-----------------------------------------------------------------------------
(* What properties say. *)

\* Was t made for a pathname?
IsMatch(h, t) == h.tok[t].head # Null /\ h.part[h.tok[t].head].type = "GLOB"

\* The pointers of a list are those of a sequence of tokens.  (Nobody reads the
\* prev of a token a pathname match made, and it is not always set.)
ListIsSequence(h, list) ==
  LET toks == Walk(h, list)
      l == h.list[list]
  IN /\ l.count = Len(toks)
     /\ l.tail = IF toks = <<>> THEN Null ELSE Last(toks)
     /\ \A k \in 1..Len(toks) :
          IsMatch(h, toks[k]) \/ h.tok[toks[k]].prev = IF k = 1 THEN Null ELSE toks[k - 1]

\* No part in the lists of two tokens, or twice in one.
EachPartOnce(h) ==
  LET owned == [t \in 1..Len(h.tok) |-> IF TokAt(t) \in h.freed THEN <<>> ELSE PartsOf(h, t)]
  IN \A t, u \in 1..Len(h.tok) : \A j \in 1..Len(owned[t]), k \in 1..Len(owned[u]) :
       owned[t][j] = owned[u][k] => t = u /\ j = k

AllFreed(h) ==
  /\ \A p \in 1..Len(h.part) : PartAt(p) \in h.freed
  /\ \A t \in 1..Len(h.tok) : TokAt(t) \in h.freed
=============================================================================
