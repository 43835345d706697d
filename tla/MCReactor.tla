----------------------------- MODULE MCReactor -----------------------------
(***************************************************************************)
(* Small instances of Reactor for TLC.  Descriptors are numbers because    *)
(* accept returns the lowest free one; clients and workers are symmetric.  *)
(***************************************************************************)
EXTENDS Reactor, TLC

CONSTANTS c1, c2, c3, w1, w2

NoClients == {}
OneClient == {c1}
SecondClient == {c2}
TwoClients == {c1, c2}
ThreeClients == {c1, c2, c3}
OneWorker == {w1}
TwoWorkers == {w1, w2}
OneFd == {5}
TwoFds == {5, 6}
ThreeFds == {5, 6, 7}
FileOnly == {"FILE"}
FileOrBad == {"FILE", "ERROR"}
AllVerdicts == Verdicts

Symmetry == Permutations(Workers)
SymmetryClients == Permutations(Workers) \cup Permutations(Clients)
=============================================================================
