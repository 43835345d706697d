---------------------------- MODULE MCThreadPool ----------------------------
(***************************************************************************)
(* Small instances of ThreadPool for TLC.                                  *)
(***************************************************************************)
EXTENDS ThreadPool, TLC

CONSTANTS a, b, c, w1, w2, w3

ThreeTasks == {a, b, c}
TwoTasks == {a, b}
TwoWorkers == {w1, w2}
ThreeWorkers == {w1, w2, w3}

Symmetry == Permutations(Workers) \cup Permutations(Tasks)
=============================================================================
