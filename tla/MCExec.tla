------------------------------- MODULE MCExec -------------------------------
(* Trees for TLC. *)
EXTENDS Exec

Cmd(prog, redirs) == [op |-> "cmd", kids |-> <<>>, redirs |-> redirs, prog |-> prog]
Node(op, kids) == [op |-> op, kids |-> kids, redirs |-> <<>>, prog |-> "none"]
In == [to |-> 0, kind |-> "file"]
Out == [to |-> 1, kind |-> "file"]
Doc == [to |-> 0, kind |-> "doc"]
BigDoc == [to |-> 0, kind |-> "bigdoc"]

MCNodes ==
  << \* 1: (export ; exit n) < file && builtin <<E > file || $?
     Node("or", <<2, 6>>), Node("and", <<3, 7>>),
     [Node("sub", <<4>>) EXCEPT !.redirs = <<In>>], Node("seq", <<5, 8>>),
     Cmd("special", <<>>), Cmd("program", <<>>), Cmd("builtin", <<Doc, Out>>),
     Cmd("exit", <<>>),
     \* 9: program > file | (exit a b) | builtin ; > file
     Node("seq", <<10, 16>>), Node("pipe", <<11, 12, 15>>), Cmd("program", <<Out>>),
     Node("sub", <<13>>), Node("seq", <<14>>), Cmd("exitMany", <<>>),
     Cmd("builtin", <<>>), Cmd("none", <<Out>>),
     \* 17: exit a b > file ; builtin && export <<E ; exit n < file
     Node("seq", <<18, 22>>), Node("seq", <<19, 20>>), Cmd("exitMany", <<Out>>),
     Node("and", <<21, 23>>), Cmd("builtin", <<>>), Cmd("exit", <<In>>),
     Cmd("special", <<Doc>>),
     \* 24 and 25: bodies that do not fit, 26: nothing
     [Node("sub", <<25>>) EXCEPT !.redirs = <<BigDoc>>],
     Cmd("builtin", <<Out, BigDoc>>), Cmd("none", <<>>) >>
MCLines == {1, 9, 17, 24, 25, 26}
\* Of exit: -1 is 255.
MCStatuses == {-1, 3}
=============================================================================
