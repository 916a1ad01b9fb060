------------------------------ MODULE Parser -------------------------------
(***************************************************************************)
(* step_4_parsing/rd_parser.c: recursive descent over a list of tokens,    *)
(* each function taking its tokens from the head.  Here the list stays and *)
(* a function takes the index of the head: it returns the node it built    *)
(* and the index of the new head.                                          *)
(***************************************************************************)
EXTENDS Checker

Node(op, words, redirs, kids) ==
  [op |-> op, words |-> words, redirs |-> redirs, kids |-> kids]

At(toks, k, types) == k <= Len(toks) /\ toks[k].type \in types
SeqSeps == {";", "NEWLINE"}
CmdParts == {"WORD", "BODY"} \cup Redirs

\* find_redirs: operators, their targets, and the bodies of here-documents.
IsRedirRole(toks, k) ==
  \/ IsRedir(toks[k])
  \/ toks[k].type = "WORD" /\ k > 1 /\ IsRedir(toks[k - 1])
  \/ toks[k].type = "BODY" /\ k > 2 /\ toks[k - 2].type = "<<"

\* consume_operands: the tokens it takes, in the order of the list.
Operands(toks, k, redirsOnly) ==
  LET taken == {e \in k..Len(toks) : \A j \in k..e :
                  At(toks, j, CmdParts) /\ (redirsOnly => IsRedirRole(toks, j))}
  IN [j \in 1..(IF taken = {} THEN 0 ELSE (CHOOSE e \in taken : \A d \in taken : d <= e) - k + 1)
        |-> k + j - 1]

Operand(op, toks, k, redirsOnly, kids) ==
  LET all == Operands(toks, k, redirsOnly)
      IsR(j) == IsRedirRole(toks, j)
      IsW(j) == ~IsRedirRole(toks, j)
  IN [node |-> Node(op, SelectSeq(all, IsW), SelectSeq(all, IsR), kids),
      head |-> k + Len(all)]

RECURSIVE RdList(_, _)

RdSubshell(toks, k) ==
  LET inner == RdList(toks, k + 1)
      after == IF At(toks, inner.head, {")"}) THEN inner.head + 1 ELSE inner.head
  IN Operand("subshell", toks, after, TRUE, <<inner.node>>)

RdCommand(toks, k) ==
  IF At(toks, k, {"("}) THEN RdSubshell(toks, k)
  ELSE Operand("cmd", toks, k, FALSE, <<>>)

\* bin_node, built on what stands left of the operator at p.left's new head.
Binary(toks, left, right) ==
  [node |-> Node(toks[left.head].type, <<>>, <<>>, <<left.node, right.node>>),
   head |-> right.head]

RECURSIVE PipelineRest(_, _)
PipelineRest(toks, left) ==
  IF At(toks, left.head, {"|"})
  THEN PipelineRest(toks, Binary(toks, left, RdCommand(toks, left.head + 1)))
  ELSE left
RdPipeline(toks, k) == PipelineRest(toks, RdCommand(toks, k))

RECURSIVE AndOrRest(_, _)
AndOrRest(toks, left) ==
  IF At(toks, left.head, {"&&", "||"})
  THEN AndOrRest(toks, Binary(toks, left, RdPipeline(toks, left.head + 1)))
  ELSE left
RdAndOrOfCommands(toks, k) == AndOrRest(toks, RdCommand(toks, k))
RdAndOr(toks, k) == AndOrRest(toks, RdPipeline(toks, k))

RECURSIVE ListRest(_, _)
ListRest(toks, left) ==
  IF ~At(toks, left.head, SeqSeps) THEN left
  ELSE IF At(toks, left.head + 1, CmdParts \cup {"("})
  THEN ListRest(toks, Binary(toks, left, RdAndOr(toks, left.head + 1)))
  ELSE ListRest(toks, [left EXCEPT !.head = @ + 1])
RdList(toks, k) == ListRest(toks, RdAndOr(toks, k))

\* rd_parse: the tokens behind the list are freed, without a word.
RdParse(toks) == RdList(toks, 1)
=============================================================================
