--------------------------- MODULE SerialExecutor ---------------------------
(***************************************************************************)
(* What TaskQueue promises its users, without threads or locks: tasks are  *)
(* accepted into one order, finish one at a time in that order, and the    *)
(* executor closes only when everything it accepted has finished.          *)
(***************************************************************************)
EXTENDS Naturals, Sequences

CONSTANT Task

VARIABLES
  accepted,  \* the tasks accepted so far, in order
  ran,       \* how many of them have finished
  open       \* the executor still takes tasks

execVars == <<accepted, ran, open>>

ExecInit ==
  /\ accepted = <<>>
  /\ ran = 0
  /\ open = TRUE

Accept ==
  /\ open
  /\ \E k \in Task :
       /\ \A i \in 1..Len(accepted) : accepted[i] # k
       /\ accepted' = Append(accepted, k)
  /\ UNCHANGED <<ran, open>>

Finish ==
  /\ open
  /\ ran < Len(accepted)
  /\ ran' = ran + 1
  /\ UNCHANGED <<accepted, open>>

Close ==
  /\ open
  /\ ran = Len(accepted)
  /\ open' = FALSE
  /\ UNCHANGED <<accepted, ran>>

ExecNext == Accept \/ Finish \/ Close

ExecSpec == ExecInit /\ [][ExecNext]_execVars
=============================================================================
