----------------------------- MODULE MCWindows -----------------------------
(* Instances of Windows for the model checker.                             *)
EXTENDS Windows, TLC

CONSTANTS p1, p2, p3

TwoPids   == {p1, p2}
ThreePids == {p1, p2, p3}
PidSymmetry == Permutations(PID)

Shutdown == [ac |-> 2, dc |-> 3]

\* Careful users with settings of their own, whose commands get killed; and one
\* with the default settings who stops live holds and meets reused pids too.
OwnAndDefault ==
  {[lid |-> Shutdown, may |-> {"kill"}],
   [lid |-> [ac |-> 3, dc |-> 0], may |-> {"kill"}],
   [lid |-> Default, may |-> {"live", "stops", "reuse"}],
   [lid |-> Default, may |-> {"live", "kill", "reuse"}]}

OwnAndStops == {[lid |-> Shutdown, may |-> {"live"}]}
OwnSetting  == {[lid |-> Shutdown, may |-> {}]}
=============================================================================
