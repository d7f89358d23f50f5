------------------------------- MODULE Darwin -------------------------------
(***************************************************************************)
(* lidspeculum on macOS: the commands of Holds with the keeper of          *)
(* keeper_darwin.go.  The lever is one system-wide flag, `pmset            *)
(* disablesleep`, which outlives every process; it is set and cleared by a *)
(* `sudo pmset` child, which may fail (no password) and may go on by       *)
(* itself when lidspeculum is killed under it.                             *)
(***************************************************************************)
EXTENDS ProcUnix

VARIABLES
  flag,    \* pmset's SleepDisabled: TRUE keeps the machine awake
  orphans  \* values that pmset commands without a parent are yet to set

vars == <<holdVars, flag, orphans>>

DarwinInit == Init /\ flag = FALSE /\ orphans = {}

-----------------------------------------------------------------------------
(* The keeper.                                                             *)

\* An error of `pmset -g` reads as "not set".
QueryFlag(p) ==
  /\ \/ FlagRead(p, flag)
     \/ "query" \in Faults /\ FlagRead(p, FALSE)
  /\ UNCHANGED <<flag, orphans>>

\* pmsetSet("1")
Engage(p) ==
  /\ \/ EngageReturns(p, TRUE) /\ flag' = TRUE
     \/ "engage" \in Faults /\ EngageReturns(p, FALSE) /\ flag' \in {flag, TRUE}
  /\ UNCHANGED orphans

\* pmsetSet("0")
Disengage(p) ==
  /\ \/ DisengageReturns(p, TRUE) /\ flag' = FALSE
     \/ "disengage" \in Faults /\ DisengageReturns(p, FALSE) /\ UNCHANGED flag
  /\ UNCHANGED orphans

\* The value the pmset child of a process at label l is setting.
PmsetValue(l) ==
  IF l = "engage" THEN {TRUE} ELSE IF l \in Disengaging THEN {FALSE} ELSE {}

\* t is killed: a pmset child it is waiting for may live on.
Abandon(t) ==
  /\ orphans' \in IF "orphan" \in Faults /\ pc'[t] = "none"
                   THEN {orphans, orphans \cup PmsetValue(pc[t])} ELSE {orphans}
  /\ UNCHANGED flag

\* An orphaned pmset does its work, or its password prompt is given up.
OrphanEnds ==
  /\ \E v \in orphans : orphans' = orphans \ {v} /\ flag' \in {flag, v}
  /\ UNCHANGED holdVars

-----------------------------------------------------------------------------

KeeperStep(p) == QueryFlag(p) \/ Engage(p) \/ Disengage(p)

\* A step of p's own program.
Progress(p) ==
  \/ (CommandStep(p) \/ StopHolder(p)) /\ UNCHANGED <<flag, orphans>>
  \/ KeeperStep(p)
  \/ StopKill(p) /\ Abandon(seen[p])

Next ==
  \/ \E p \in PID :
       \/ Progress(p)
       \/ (GiveUp(p) \/ EnvironmentStep(p)) /\ UNCHANGED <<flag, orphans>>
       \/ Crash(p) /\ Abandon(p)
  \/ OrphanEnds

\* Every process runs; sudo and pmset return; the poll of stop is bounded.
Fairness ==
  \A p \in PID :
    WF_vars(Progress(p)) /\ SF_vars(GiveUp(p) /\ UNCHANGED <<flag, orphans>>)

Spec == DarwinInit /\ [][Next]_vars
FairSpec == Spec /\ Fairness

-----------------------------------------------------------------------------
TypeOK == HoldsTypeOK /\ flag \in BOOLEAN /\ orphans \subseteq BOOLEAN

\* "Keep awake until you stop it": from the return of engage until its own
\* release takes the flag down, a hold really keeps the machine awake.
HoldHolds == \A p \in PID : pc[p] \in Held => flag

\* release: "the pidfile is present whenever the OS flag might still be set".
FlagRecorded == flag => file # NoFile

\* The same once every command has ended: what is left over after a failed
\* restore is still on record for the next stop or status.
LeftoverRecorded ==
  flag /\ (\A p \in PID : pc[p] \in {"none", "foreign"}) => file # NoFile

\* stop says "your machine sleeps normally" only when it does: the flag is
\* down and no hold is left that could be relying on it.
StopTruth ==
  \A p \in PID : pc[p] = "stopped" => ~flag /\ Owners = {}

\* status names no process but the one that has the hold, if any has; it calls
\* the setting left over, or the machine free to sleep, only when none has.
StatusTruth ==
  \A p \in PID : /\ pc[p] = "sayActive" => \A q \in Owners : seen[p] = q
                 /\ pc[p] = "sayStranded" => Owners = {}
                 /\ pc[p] = "sayNormal" => ~flag /\ Owners = {}

\* release: a superseded holder "must NOT disengage the lever B owns nor
\* delete B's pidfile".
SupersededHandsOff ==
  [][\A p, q \in PID :
       /\ p # q /\ pc[p] \in {"relDisengage", "relRemove"} /\ pc'[p] # pc[p]
       /\ pc[q] \in Owning /\ file = Record(q, TRUE)
       => UNCHANGED <<file, flag>>]_vars

\* A stop signal is never lost: a hold or run that has one in its channel
\* ends, even when the wrapped command ignores it.
SignalHonoured == \A p \in PID : p \in signalled ~> pc[p] = "none"

\* A hold with a deadline ends, with or without anybody to stop it.
DeadlineHonoured == \A p \in PID : pc[p] = "timed" ~> pc[p] = "none"

\* A start becomes a resident hold or gives up, and stop and status return,
\* whatever the pidfile names and whoever they race with.
CommandsEnd ==
  \A p \in PID : pc[p] \in Starting \cup Stopping \cup Reporting
                   ~> pc[p] \in {"none"} \cup Waiting

\* What a process at label l is to the hold: it has taken the slot and is
\* engaging, or has engaged, or is past the point where it lets go.
PhaseOf(l) ==
  CASE l \in Held            -> "holding"
    [] l \in Engaging \ Held -> "taking"
    [] l \in Catching \ Held -> "leaving"
    [] OTHER                 -> "out"

\* The commands implement the single hold: no step of a stop, a start or a
\* dying process lets the machine sleep under a process that holds it awake.
Single == INSTANCE SingleHold
            WITH phase <- [p \in PID |-> PhaseOf(pc[p])], awake <- flag
SingleHoldSpec == Single!Spec
=============================================================================
