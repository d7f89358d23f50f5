------------------------------ MODULE ProcUnix ------------------------------
(***************************************************************************)
(* proc_unix.go: how `stop` ends a live hold on macOS and Linux.  It asks  *)
(* for the name of the recorded process and, when that is lidspeculum,     *)
(* sends it SIGTERM.  The two are separate system calls.                   *)
(***************************************************************************)
EXTENDS Holds

\* stopHolder, isLidspeculum: without a lidspeculum name stop declines to
\* signal and falls through to clearStranded.
StopHolder(p) ==
  /\ pc[p] = "stopHolder"
  /\ \/ isLidspeculum(seen[p]) /\ Step(p, "stopKill", seen[p])
     \/ ~isLidspeculum(seen[p]) /\ Goto(p, "clearFlag")
     \/ "ident" \in Faults /\ Goto(p, "clearFlag")
  /\ UNCHANGED file

\* SIGTERM.  When it is refused, or the process is gone, stop reports the error
\* and ends.  A process that catches it gets it in its channel, any other dies
\* on the spot (the stop command itself, were its own pid recorded).
StopKill(p) ==
  LET t == seen[p]
      dies == pc[t] \notin Catching
  IN  /\ pc[p] = "stopKill"
      /\ \/ (~processAlive(t) \/ "deny" \in Faults) /\ Exit(p)
         \/ /\ processAlive(t)
            /\ pc' = [q \in PID |-> IF q = t /\ dies THEN "none"
                                    ELSE IF q = p THEN "poll" ELSE pc[q]]
            /\ seen' = IF dies THEN [seen EXCEPT ![t] = Nobody] ELSE seen
            /\ signalled' = IF pc[t] \in Waiting THEN signalled \cup {t} ELSE signalled
            /\ UNCHANGED display
      /\ UNCHANGED file
-----------------------------------------------------------------------------
(* The commands over a keeper that may answer anything at any time.  What  *)
(* holds here holds whatever the OS lever does.                            *)

AnyKeeper(p) ==
  \E b \in BOOLEAN : FlagRead(p, b) \/ EngageReturns(p, b) \/ DisengageReturns(p, b)

UnixNext ==
  \E p \in PID : \/ CommandStep(p) \/ AnyKeeper(p) \/ StopHolder(p) \/ StopKill(p)
                \/ GiveUp(p) \/ EnvironmentStep(p) \/ Crash(p)

UnixSpec == Init /\ [][UnixNext]_holdVars

-----------------------------------------------------------------------------
(* Why the slot is exclusive: the inductive invariant.                     *)

\* How lidspeculum has to be used, and what must not fail, for the slot to be
\* exclusive.  Everything else in FaultKinds may happen.
CarefulUse == Serial /\ Faults \cap {"read", "ident", "slow"} = {}

\* The labels at which a process has convinced itself that no hold is there.
Unheld == {"reclaimFlag", "reclaimDisengage", "reclaimRemove", "recreate",
           "stopFlag", "stopDisengage", "stopRemove", "clearFlag",
           "clearDisengage", "clearRemove", "tidyRemove", "stopped",
           "statusFlag", "sayStranded", "sayNormal"}

\* The labels at which it still relies on the pid it read.
Relying == {"alive", "stopAlive", "stopHolder", "stopKill", "stopDrop", "poll",
            "pollAlive", "statusAlive", "sayActive"}

\* A process that relies on a pid has read one.
ReliesOnPid == \A p \in PID : pc[p] \in Relying => seen[p] \in PID

\* A file being written is the writer's.
WriterOwnsFile == \A p \in PID : pc[p] \in {"write", "unwrite"} => file = Record(p, FALSE)

\* No command overlaps a start.
StartsAlone ==
  \A p, q \in PID : /\ pc[p] \in Starting
                   /\ pc[q] \in Starting \cup Stopping \cup Reporting
                   => p = q

\* Who concluded that there is no hold is right, and stays right.
UnheldIsTrue == \A p, q \in PID : pc[p] \in Unheld => pc[q] \notin Owning

\* Who still has to find out looks at the right process.
SeenIsOwner == \A p, q \in PID : pc[p] \in Relying /\ pc[q] \in Owning => seen[p] = q

SlotInv ==
  /\ HoldsTypeOK
  /\ ReliesOnPid
  /\ SlotRecorded
  /\ WriterOwnsFile
  /\ StartsAlone
  /\ UnheldIsTrue
  /\ SeenIsOwner
=============================================================================
