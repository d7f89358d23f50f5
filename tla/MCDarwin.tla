------------------------------ MODULE MCDarwin ------------------------------
(* Instances of Darwin for the model checker.                              *)
EXTENDS Darwin, TLC

CONSTANTS p1, p2, p3

TwoPids   == {p1, p2}
ThreePids == {p1, p2, p3}
PidSymmetry == Permutations(PID)
=============================================================================
