------------------------------ MODULE Grammar ------------------------------
(***************************************************************************)
(* What the front end is to recognise, by definitions that share nothing   *)
(* with the algorithms of the lexer, the checker and the parser: a         *)
(* sentence is cut at the last operator of the lowest precedence that      *)
(* stands outside parentheses.                                             *)
(***************************************************************************)
EXTENDS Parser, FiniteSets

Malformed == Node("malformed", <<>>, <<>>, <<>>)

Depth(toks, lo, k) ==
  Cardinality({j \in lo..k : toks[j].type = "("})
    - Cardinality({j \in lo..k : toks[j].type = ")"})
Balanced(toks, lo, hi) ==
  Depth(toks, lo, hi) = 0 /\ \A k \in lo..hi : Depth(toks, lo, k) >= 0

\* The last token of one of these types that stands outside parentheses, or 0.
LastOf(toks, lo, hi, types) ==
  LET cuts == {k \in lo..hi : toks[k].type \in types /\ Depth(toks, lo, k) = 0}
  IN IF cuts = {} THEN 0 ELSE CHOOSE k \in cuts : \A j \in cuts : j <= k

Join(op, left, right) ==
  IF Malformed \in {left, right} THEN Malformed ELSE Node(op, <<>>, <<>>, <<left, right>>)

\* Words and redirections, each redirection with its target.
Simple(toks, op, lo, hi, kids) ==
  LET ofRedir(k) == IsRedir(toks[k]) \/ (k > lo /\ IsRedir(toks[k - 1]))
      plain(k) == ~ofRedir(k)
      all == [j \in 1..(hi - lo + 1) |-> lo + j - 1]
  IN IF /\ \A k \in lo..hi : toks[k].type \in {"WORD"} \cup Redirs
        /\ \A k \in lo..hi : IsRedir(toks[k]) => k < hi /\ toks[k + 1].type = "WORD"
     THEN Node(op, SelectSeq(all, plain), SelectSeq(all, ofRedir), kids)
     ELSE Malformed

RECURSIVE RefList(_, _, _)

\* A command in parentheses may only be followed by redirections.
RefSubshell(toks, lo, hi) ==
  LET close == CHOOSE k \in lo..hi :
                 Depth(toks, lo, k) = 0 /\ \A j \in lo..(k - 1) : Depth(toks, lo, j) > 0
      inner == RefList(toks, lo + 1, close - 1)
      node == Simple(toks, "subshell", close + 1, hi, <<inner>>)
  IN IF inner = Malformed \/ node.words # <<>> THEN Malformed ELSE node

RefCommand(toks, lo, hi) ==
  IF lo > hi THEN Malformed
  ELSE IF toks[lo].type = "(" THEN RefSubshell(toks, lo, hi)
  ELSE Simple(toks, "cmd", lo, hi, <<>>)

RECURSIVE RefPipeline(_, _, _)
RefPipeline(toks, lo, hi) ==
  LET k == LastOf(toks, lo, hi, {"|"})
  IN IF k = 0 THEN RefCommand(toks, lo, hi)
     ELSE Join("|", RefPipeline(toks, lo, k - 1), RefCommand(toks, k + 1, hi))

RECURSIVE RefAndOr(_, _, _)
RefAndOr(toks, lo, hi) ==
  LET k == LastOf(toks, lo, hi, {"&&", "||"})
  IN IF k = 0 THEN RefPipeline(toks, lo, hi)
     ELSE Join(toks[k].type, RefAndOr(toks, lo, k - 1), RefPipeline(toks, k + 1, hi))

\* A list may end with a semicolon.
RefList(toks, lo, hi) ==
  LET k == LastOf(toks, lo, hi, {";"})
  IN IF k = 0 THEN RefAndOr(toks, lo, hi)
     ELSE IF k = hi THEN
       IF LastOf(toks, lo, k - 1, {";"}) = k - 1 THEN Malformed
       ELSE RefList(toks, lo, k - 1)
     ELSE Join(";", RefList(toks, lo, k - 1), RefAndOr(toks, k + 1, hi))

\* The tokens of one line: a newline and the end of file may close it.
RefParse(toks) ==
  LET ends == {k \in 1..Len(toks) : toks[k].type \in {"NEWLINE", "EOF"}}
      hi == IF ends = {} THEN Len(toks) ELSE (CHOOSE k \in ends : \A j \in ends : k <= j) - 1
  IN IF Balanced(toks, 1, hi) THEN RefList(toks, 1, hi) ELSE Malformed
=============================================================================
