----------------------------- MODULE MCTimeHeap -----------------------------
(***************************************************************************)
(* Small instances of TimeHeap for TLC.                                    *)
(***************************************************************************)
EXTENDS TimeHeap, TLC

CONSTANTS t1, t2, t3, t4, t5

ThreeTimers == {t1, t2, t3}
FourTimers == {t1, t2, t3, t4}
FiveTimers == {t1, t2, t3, t4, t5}
AnyDelay == 1..Delay

Symmetry == Permutations(Timers)
=============================================================================
