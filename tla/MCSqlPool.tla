----------------------------- MODULE MCSqlPool ------------------------------
(***************************************************************************)
(* Small instances of SqlPool for TLC.                                     *)
(***************************************************************************)
EXTENDS SqlPool

CONSTANTS m1, m2, t1, t2, t3

TwoConnections == {m1, m2}
ThreeThreads == {t1, t2, t3}

Symmetry == Permutations(Threads) \cup Permutations(Connections)
=============================================================================
