------------------------------- MODULE MCUnix -------------------------------
(* Instances of ProcUnix, the commands over any keeper, for the checker.   *)
EXTENDS ProcUnix, TLC

CONSTANTS p1, p2, p3

ThreePids == {p1, p2, p3}
PidSymmetry == Permutations(PID)
=============================================================================
