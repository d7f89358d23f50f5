------------------------------- MODULE Linux -------------------------------
(***************************************************************************)
(* lidspeculum on Linux: the commands of Holds with keeper_linux.go.       *)
(* There is no setting to flip.  `hold` and `run` first replace themselves *)
(* by systemd-inhibit, the wrapper, which takes a logind lock, runs the    *)
(* same command as its child and drops the lock when the child has ended.  *)
(* engage and disengage do nothing.  The wrapper keeps the pid of the      *)
(* first invocation and is no lidspeculum by name; the pid on record is    *)
(* the child's.                                                            *)
(***************************************************************************)
EXTENDS ProcUnix

VARIABLES
  locks,  \* wrappers, each of them holding a logind lock
  inner,  \* the child of each wrapper, until the wrapper has reaped it
  bare    \* holds started without a wrapper, or whose wrapper was killed by hand

wrapVars == <<locks, inner, bare>>
vars     == <<holdVars, wrapVars>>

LinuxInit ==
  /\ Init
  /\ locks = {}
  /\ inner = [w \in PID |-> Nobody]
  /\ bare = {}

-----------------------------------------------------------------------------

\* What a step leaves of the wrappers L, their children I and the bare holds
\* B: a wrapper lives as long as its process, and its lock goes with it.
Settle(L, I, B) ==
  /\ locks' = {w \in L : pc'[w] = "foreign"}
  /\ inner' = [w \in PID |-> IF w \in locks' THEN I[w] ELSE Nobody]
  /\ bare' = {p \in B : pc'[p] # "none"}

Others == Settle(locks, inner, bare)

\* A child is a zombie until its wrapper reaps it; its pid is not free.
Free(p) == \A w \in locks : inner[w] # p

\* Mutant: the command runs on without its wrapper.
Reexec_Skipped(w) ==
  Launch(w) /\ Free(w) /\ pc'[w] \in {"foreign", "create"} /\ Others
\* maybeReexec, the first time: the lock is taken before the child runs.
Reexec(w) ==
  Launch(w) /\ Free(w) /\ pc'[w] = "foreign" /\ Settle(locks \cup {w}, inner, bare)

\* maybeReexec, in the child: LIDSPECULUM_INHIBITED is set.
Fork(w) ==
  /\ w \in locks /\ inner[w] = Nobody
  /\ \E p \in PID :
       /\ Launch(p) /\ Free(p) /\ pc'[p] = "create"
       /\ Settle(locks, [inner EXCEPT ![w] = p], bare)

\* The variable is set already, say in a shell under `run`: no wrapper.
Inherit(p) ==
  /\ "inherit" \in Faults
  /\ Launch(p) /\ Free(p) /\ pc'[p] = "create"
  /\ Settle(locks, inner, bare \cup {p})

\* The commands that need no lock, and unrelated programs.
Plain(p) == Launch(p) /\ Free(p) /\ pc'[p] # "create" /\ Others

Over(p) == p # Nobody /\ pc[p] = "none"

\* The child has ended: the wrapper reaps it and ends as well.
Unwrap(w) == w \in locks /\ Over(inner[w]) /\ ForeignEnds(w) /\ Others

\* The wrapper is killed first, and its child goes on without; or an unrelated
\* program ends.
Unwrapped(w) ==
  /\ w \in locks => "inhibit" \in Faults /\ ~Over(inner[w])
  /\ ForeignEnds(w)
  /\ Settle(locks, inner, bare \cup ({inner[w]} \ {Nobody}))

-----------------------------------------------------------------------------
(* The keeper.                                                             *)

Engage(p)    == EngageReturns(p, TRUE)
Disengage(p) == DisengageReturns(p, TRUE)

\* `systemd-inhibit --list` shows our locks, or fails.
QueryFlag(p) ==
  \/ FlagRead(p, locks # {})
  \/ "query" \in Faults /\ FlagRead(p, FALSE)

\* A step of p's own program.
Progress(p) ==
  /\ \/ CommandStep(p) \/ Engage(p) \/ Disengage(p) \/ QueryFlag(p)
     \/ StopHolder(p) \/ StopKill(p)
  /\ Others

\* The display is kept on by the wrapper's idle lock: no process has a handle.
EngageDisplay == display' = {}

Next ==
  /\ \E p \in PID :
       \/ Reexec(p) \/ Fork(p) \/ Inherit(p) \/ Plain(p)
       \/ Unwrap(p) \/ Unwrapped(p)
       \/ Progress(p)
       \/ (GiveUp(p) \/ ChildExits(p) \/ Interrupt(p) \/ Crash(p)) /\ Others
  /\ EngageDisplay

\* Every process runs, the wrappers too; the poll of stop is bounded.
Fairness ==
  \A p \in PID : /\ WF_vars(Progress(p) /\ EngageDisplay)
                /\ WF_vars(Unwrap(p))
                /\ SF_vars(GiveUp(p) /\ Others)

Spec == LinuxInit /\ [][Next]_vars
FairSpec == Spec /\ Fairness

-----------------------------------------------------------------------------
TypeOK ==
  /\ HoldsTypeOK
  /\ locks \subseteq {p \in PID : pc[p] = "foreign"}
  /\ inner \in [PID -> PID \cup {Nobody}]
  /\ bare \subseteq PID

\* "The lock lives exactly as long as" its hold needs it: a command that is
\* acquiring, holding or releasing under a wrapper has the lock of a live one.
\* No stop takes it: the process stop kills, by a pid it read a while ago and
\* that may have been handed out again, is never the wrapper of another hold.
LockedWhileHeld ==
  \A p \in PID : pc[p] \in Starting \cup Catching /\ p \notin bare
                   => \E w \in locks : inner[w] = p

\* p was told to end, will by itself, is ending, or has ended.
Ending(p) ==
  p # Nobody /\ (p \in signalled \/ pc[p] \in {"timed", "none"} \cup Releasing)

\* "a dead holder takes its inhibitor lock with it": a stop signal, a deadline
\* or a crash that ends a hold ends its lock as well.
LockFreed == \A w \in PID : w \in locks /\ Ending(inner[w]) ~> w \notin locks
=============================================================================
