----------------------------- MODULE SingleHold -----------------------------
(***************************************************************************)
(* What lidspeculum promises its user, and nothing of how.  One process at *)
(* a time has the hold: it takes it, engages, holds, and leaves.  From the *)
(* moment it holds, the machine stays awake until that process itself has  *)
(* begun to leave or is gone; nobody else, a stop or a start included, can *)
(* make the machine sleepable under it.  A process that is gone may leave  *)
(* the machine awake; it is made sleepable again, or taken over, by        *)
(* whoever finds the hold free.                                            *)
(***************************************************************************)
CONSTANT PID

VARIABLES
  phase,  \* what each process is to the hold
  awake   \* is the machine kept awake with the lid closed?

Phases == {"out", "taking", "holding", "leaving"}

Vacant == \A p \in PID : phase[p] = "out"

\* p goes on to phase ph.
Turns(p, ph) == phase' = [phase EXCEPT ![p] = ph]

Init == phase = [p \in PID |-> "out"] /\ awake = FALSE

Take(p) == Vacant /\ Turns(p, "taking") /\ UNCHANGED awake

\* Engaging may fail half done, and be undone; nothing is promised yet.
Fumble(p) == phase[p] = "taking" /\ awake' \in BOOLEAN /\ UNCHANGED phase

Hold(p)    == phase[p] = "taking" /\ Turns(p, "holding") /\ awake' = TRUE
Leave(p)   == phase[p] = "holding" /\ Turns(p, "leaving") /\ UNCHANGED awake
Restore(p) == phase[p] = "leaving" /\ awake' = FALSE /\ UNCHANGED phase

\* p ends, or dies, at any point.
Quit(p) == phase[p] # "out" /\ Turns(p, "out") /\ UNCHANGED awake

Clear == Vacant /\ awake' = FALSE /\ UNCHANGED phase

Next ==
  \/ \E p \in PID : \/ Take(p) \/ Fumble(p) \/ Hold(p)
                   \/ Leave(p) \/ Restore(p) \/ Quit(p)
  \/ Clear

Spec == Init /\ [][Next]_<<phase, awake>>
=============================================================================
