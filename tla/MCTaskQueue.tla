---------------------------- MODULE MCTaskQueue ----------------------------
(***************************************************************************)
(* The instances of TaskQueue that TLC checks: model values for tasks,     *)
(* identifiers and producer threads.  Every task is submitted at most      *)
(* once, so the sets Command and Closure bound the length of a run.        *)
(***************************************************************************)
EXTENDS TaskQueue

CONSTANTS c1, c2, k1, i1, i2, p1, none
=============================================================================
