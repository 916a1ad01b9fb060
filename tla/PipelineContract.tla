-------------------------- MODULE PipelineContract --------------------------
(***************************************************************************)
(* What a pipeline promises to the rest of the shell, without processes,   *)
(* descriptors or pipes: it is launched with a number of commands, each    *)
(* command ends once with an exit code, and the pipeline returns either    *)
(* the code of its LAST command, after EVERY command has ended, or the     *)
(* failure code when it could not be launched.                             *)
(*                                                                         *)
(* Pipeline.tla is the detailed specification; it implements this one.     *)
(***************************************************************************)
EXTENDS Integers, Sequences

CONSTANTS Codes,     \* the exit codes a command may end with: naturals
          Failure    \* EXIT_FAILURE

Alive == -1          \* stands for "has not ended"

VARIABLES running,   \* is a pipeline being executed?
          ended,     \* ended[j]: the code of the j-th command, or Alive
          result     \* what the last pipeline returned

vars == <<running, ended, result>>

Init == running = FALSE /\ ended = <<>> /\ result = 0

Launch ==
  /\ ~running
  /\ running' = TRUE
  /\ ended' \in Seq({Alive}) /\ Len(ended') >= 2
  /\ UNCHANGED result

CommandEnds(j) ==
  /\ running
  /\ ended[j] = Alive
  /\ \E c \in Codes : ended' = [ended EXCEPT ![j] = c]
  /\ UNCHANGED <<running, result>>

Return ==
  /\ running
  /\ \A j \in DOMAIN ended : ended[j] # Alive
  /\ running' = FALSE
  /\ result' = ended[Len(ended)]
  /\ ended' = <<>>

GiveUp ==
  /\ running
  /\ running' = FALSE
  /\ result' = Failure
  /\ ended' = <<>>

Next == Launch \/ Return \/ GiveUp \/ \E j \in DOMAIN ended : CommandEnds(j)

Spec == Init /\ [][Next]_vars
=============================================================================
