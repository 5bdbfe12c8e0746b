---------------------------- MODULE MCRemoteWatch ----------------------------
(* Small instances of RemoteWatch for TLC.                                 *)
EXTENDS RemoteWatch, TLC
CONSTANTS q1, q2
MCTargets == {q1, q2}
Symmetry == Permutations(MCTargets)
=============================================================================
