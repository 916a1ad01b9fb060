------------------------------- MODULE Strapi -------------------------------
(***************************************************************************)
(* utils/strapi: the string that grows, in which the reader collects its   *)
(* input and the expansion builds the words.                               *)
(*                                                                         *)
(* A buffer is the memory it owns (no memory is str == NULL), the length   *)
(* it believes in, its capacity and the step it grows by.  Memory that is  *)
(* written past the capacity makes mem longer than cap.  calloc does not   *)
(* fail.                                                                   *)
(***************************************************************************)
EXTENDS Integers, Sequences

NUL == "NUL"    \* the terminator

StrapiInit(step) == [mem |-> <<>>, len |-> 0, cap |-> 0, step |-> step]

\* The least capacity the loop of exstr_expand can stop at.
Grown(b, need) ==
  LET least == IF b.cap = 0 THEN b.step ELSE b.cap
      steps == IF b.len + need < least THEN 0 ELSE ((b.len + need - least) \div b.step) + 1
  IN least + steps * b.step

Full(b, need) == b.mem = <<>> \/ b.len + need >= b.cap
FullOffByOne(b, need) == b.mem = <<>> \/ b.len + need > b.cap

Expand(b, need) ==
  IF ~Full(b, need) THEN b
  ELSE LET cap == Grown(b, need)
       IN [b EXCEPT !.cap = cap,
                    !.mem = [k \in 1..cap |-> IF k <= b.len THEN b.mem[k] ELSE NUL]]

\* memcpy behind the text, and the terminator.
Put(b, s) ==
  LET end == b.len + Len(s)
      size == IF end + 1 > Len(b.mem) THEN end + 1 ELSE Len(b.mem)
  IN [b EXCEPT !.len = end,
               !.mem = [k \in 1..size |-> IF k > b.len /\ k <= end THEN s[k - b.len]
                                          ELSE IF k = end + 1 THEN NUL ELSE b.mem[k]]]

AppendStr(b, s) == Put(Expand(b, Len(s)), s)
AppendChar(b, c) == Put(Expand(b, 1), <<c>>)
AppendStrn(b, s, n) == IF n = 0 THEN b ELSE Put(Expand(b, n), SubSeq(s, 1, n))

\* The text is cut at len; what lies behind stays in memory.
CutAt(b, len) ==
  [b EXCEPT !.len = len,
            !.mem = [k \in 1..Len(@) |-> IF k = len + 1 THEN NUL ELSE @[k]]]
TrimLast(b, n) == CutAt(b, IF n > b.len THEN 0 ELSE b.len - n)
RemoveLastChar(b) == IF b.len = 0 THEN b ELSE CutAt(b, b.len - 1)

Clear(b) == [b EXCEPT !.len = 0, !.mem = [k \in 1..Len(@) |-> NUL]]
Free(b) == [b EXCEPT !.mem = <<>>, !.len = 0, !.cap = 0]

\* What strdup(str) reads: up to the first terminator.
CString(mem) ==
  LET stops == {k \in 1..Len(mem) : mem[k] = NUL}
  IN IF stops = {} THEN mem
     ELSE SubSeq(mem, 1, (CHOOSE k \in stops : \A j \in stops : k <= j) - 1)

\* A buffer that was never written to has no string to copy.
NoString == <<NUL>>
GetDup(b) == IF b.mem = <<>> THEN NoString ELSE CString(b.mem)

-----------------------------------------------------------------------------
(* What holds of a buffer between two calls. *)

Text(b) == SubSeq(b.mem, 1, b.len)

Good(b) ==
  /\ b.step \in Nat \ {0} /\ b.len \in Nat /\ b.cap \in Nat
  /\ Len(b.mem) = b.cap
  /\ IF b.mem = <<>> THEN b.len = 0
     ELSE b.len < b.cap /\ b.mem[b.len + 1] = NUL
  /\ \A k \in 1..b.len : b.mem[k] # NUL
=============================================================================
