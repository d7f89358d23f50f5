----------------------------- MODULE MCSudoers -----------------------------
(* Instances of Sudoers for the model checker.                             *)
EXTENDS Sudoers, TLC

CONSTANTS c1, c2

OneCmd  == {c1}
TwoCmds == {c1, c2}
=============================================================================
