------------------------- MODULE MCBackgroundTasks -------------------------
(***************************************************************************)
(* BackgroundTasks for TLC: two tasks, so that a command's count() and     *)
(* update() can straddle another task's verdict, on two worker processes.  *)
(***************************************************************************)
EXTENDS BackgroundTasks, TLC

Symmetry == Permutations(Tasks) \cup Permutations(Workers)
=============================================================================
