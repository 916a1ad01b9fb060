------------------------------ MODULE Parsing ------------------------------
(***************************************************************************)
(* The parser on the tokens of FrontEnd: whatever is typed, is it accepted *)
(* when the grammar has it, and with the tree the grammar gives it?        *)
(***************************************************************************)
EXTENDS FrontEnd, Grammar

\* Every line of the grammar is accepted, and its tree is the one the grammar
\* gives: precedence, association to the left, redirections with their targets.
GrammarIsParsed ==
  (status # "typing" /\ Len(starts) = 1 /\ RefParse(lx.toks) # Malformed) =>
    status = "complete" /\ RdParse(lx.toks).node = RefParse(lx.toks)

\* Only lines of the grammar, and empty ones, are accepted (14_syntax_errors.tests).
OnlyGrammarIsAccepted ==
  (status = "complete" /\ Len(starts) = 1) =>
    RefParse(lx.toks) # Malformed \/ \A k \in 1..Len(lx.toks) : lx.toks[k].type \in {"NEWLINE", "EOF"}

\* The same of lines in which no semicolon stands before an operator.
StraySemicolon ==
  \E k \in 1..(Len(lx.toks) - 1) :
    lx.toks[k].type = ";" /\ lx.toks[k + 1].type \in {";"} \cup OpContexts
AcceptedIsGrammar == StraySemicolon \/ OnlyGrammarIsAccepted
=============================================================================
