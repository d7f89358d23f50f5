------------------------------ MODULE MCLinux ------------------------------
(* Instances of Linux for the model checker.                               *)
EXTENDS Linux, TLC

CONSTANTS p1, p2, p3, p4

ThreePids == {p1, p2, p3}
FourPids  == {p1, p2, p3, p4}
PidSymmetry == Permutations(PID)
=============================================================================
