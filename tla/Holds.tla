------------------------------- MODULE Holds -------------------------------
(***************************************************************************)
(* The platform-independent half of lidspeculum: the commands `hold`,      *)
(* `run`, `stop` and `status` (commands.go) and the pidfile they share     *)
(* (state.go).                                                             *)
(*                                                                         *)
(* Every invocation is a process with a pid.  A process sits at a label:   *)
(* the system call, file access or keeper call it is about to make.  One   *)
(* step is one such call, so whatever other processes can do between two   *)
(* calls of the code they can do here between two steps.  When a process   *)
(* ends its pid returns to "none" and may be handed out again, to another  *)
(* lidspeculum command or to an unrelated program.                         *)
(*                                                                         *)
(* What the code leaves to the OS keeper (engage, disengage, rawFlagActive *)
(* and stopHolder) is not here: the keeper's module conjoins its own state *)
(* with the actions below that take the result of a keeper call as a       *)
(* parameter.                                                              *)
(***************************************************************************)

CONSTANTS
  PID,      \* the process ids the OS hands out
  Nobody,   \* not a process id
  Serial,   \* TRUE: the user starts no hold while another command is in
            \* progress, and no command while a hold is starting
  Faults    \* what may go wrong in this instance, a subset of FaultKinds

FaultKinds ==
  {"crash",      \* a process is killed, or the machine goes down under it
   "read",       \* readHold fails with something other than "no such file"
   "write",      \* creating, writing or closing the pidfile fails
   "remove",     \* removing the pidfile fails
   "engage",     \* the keeper's engage fails, perhaps half done
   "disengage",  \* the keeper's disengage fails
   "query",      \* the OS flag cannot be read: rawFlagActive says FALSE
   "ident",      \* procComm cannot name a lidspeculum process
   "deny",       \* Unix: the hold is another user's and may not be signalled
   "slow",       \* stop's 3 second poll runs out on a hold still releasing: a
                 \* slow restore, or a `run` whose command uses its 5 seconds
   "orphan",     \* a keeper command outlives the process that ran it
   "inhibit",    \* Linux: systemd-inhibit is killed before its child ends
   "inherit",    \* Linux: a start finds LIDSPECULUM_INHIBITED=1 set already
   "save"}       \* Windows: the previous settings cannot be written down

ASSUME PIDAssumption == Nobody \notin PID
ASSUME EnvAssumption == Serial \in BOOLEAN /\ Faults \subseteq FaultKinds

VARIABLES
  file,       \* the pidfile: who created it, and is the record written yet
  pc,         \* the label of each process
  seen,       \* the pid a process read from the pidfile and still relies on
  signalled,  \* processes with a stop signal in their channel
  display     \* processes whose display-awake assertion is up

holdVars == <<file, pc, seen, signalled, display>>

-----------------------------------------------------------------------------
(* Labels, by the part of the code they belong to.                         *)

\* acquire, engage and everything else before the stop signals are caught
Acquiring == {"create", "write", "unwrite", "inspect", "alive", "reclaimFlag",
              "reclaimDisengage", "reclaimRemove", "recreate"}
Engaging  == {"engage", "abortDisengage", "abortRemove", "display", "listen"}
Starting  == Acquiring \cup Engaging

\* residentWait and runWrapped, where a stop signal lands in the channel
Waiting   == {"wait", "timed", "spawn", "running"}
\* after the signal was taken, or no longer matters
Releasing == {"grace", "killed", "undisplay", "own", "relDisengage", "relRemove"}
Catching  == Waiting \cup Releasing

Stopping  == {"stopRead", "stopAlive", "stopHolder", "stopKill", "stopDrop",
              "poll", "pollAlive", "stopFlag", "stopDisengage", "stopRemove",
              "clearFlag", "clearDisengage", "clearRemove", "tidyRemove",
              "stopped"}
Reporting == {"statusRead", "statusAlive", "statusFlag",
              "sayActive", "sayStranded", "sayNormal"}

Label == Starting \cup Catching \cup Stopping \cup Reporting
           \cup {"none", "foreign"}

\* The labels at which a command is inside the keeper's disengage.
Disengaging == {"reclaimDisengage", "abortDisengage", "relDisengage",
                "stopDisengage", "clearDisengage"}

\* Engaged, and its own release has not touched the lever yet.
Held == {"display", "listen"} \cup Waiting \cup {"grace", "killed", "undisplay", "own"}

\* The processes that took the hold slot and have not finished with it.
Owning == Engaging \cup Catching
Owners == {p \in PID : pc[p] \in Owning}

-----------------------------------------------------------------------------
(* The pidfile.                                                            *)

NoFile       == [by |-> Nobody, whole |-> FALSE]
Record(p, w) == [by |-> p, whole |-> w]
Files        == [by : PID \cup {Nobody}, whole : BOOLEAN]

\* Mutant: a record without a usable pid is handed on as pid 0.
readHold_Zero == IF file.whole THEN file.by ELSE 0
\* The pid in the pidfile; Nobody when there is none or it does not parse,
\* which every caller treats alike.
readHold == IF file.whole THEN file.by ELSE Nobody

processAlive(q)  == pc[q] # "none"
isLidspeculum(q) == pc[q] \notin {"none", "foreign"}

\* p moves to label l, relying on the pid q from now on.
Step(p, l, q) ==
  /\ pc' = [pc EXCEPT ![p] = l]
  /\ seen' = [seen EXCEPT ![p] = q]
  /\ UNCHANGED <<signalled, display>>

Goto(p, l) == Step(p, l, Nobody)
Exit(p)    == Goto(p, "none")

Init ==
  /\ file = NoFile
  /\ pc = [p \in PID |-> "none"]
  /\ seen = [p \in PID |-> Nobody]
  /\ signalled = {}
  /\ display = {}

-----------------------------------------------------------------------------
(* Starting a command.  Serial is a promise of the user, not of the code.  *)

MayLaunch(l) ==
  Serial => /\ l = "create" =>
                 \A q \in PID : pc[q] \notin Starting \cup Stopping \cup Reporting
            /\ l \in {"stopRead", "statusRead"} =>
                 \A q \in PID : pc[q] \notin Starting

Launch(p) ==
  /\ pc[p] = "none" /\ p \notin display
  /\ \E l \in {"create", "stopRead", "statusRead", "foreign"} :
       MayLaunch(l) /\ Goto(p, l)
  /\ UNCHANGED file

-----------------------------------------------------------------------------
(* acquire: take the slot, or reclaim it from a holder that is gone.       *)

\* open(O_CREATE|O_EXCL): the file exists from here on, still empty.
Create(p) ==
  /\ pc[p] \in {"create", "recreate"}
  /\ \/ file = NoFile /\ file' = Record(p, FALSE) /\ Goto(p, "write")
     \/ /\ file # NoFile
        /\ Goto(p, IF pc[p] = "create" THEN "inspect" ELSE "none")
        /\ UNCHANGED file
     \/ "write" \in Faults /\ Exit(p) /\ UNCHANGED file

\* The bytes reach the file p opened, on disk or already unlinked.
WriteRecord(p) == file' = IF file.by = p THEN Record(p, TRUE) ELSE file

\* A failed write removes the file again; a failed close leaves it there.
Write(p) ==
  /\ pc[p] = "write"
  /\ \/ WriteRecord(p) /\ Goto(p, "engage")
     \/ "write" \in Faults /\ Goto(p, "unwrite") /\ UNCHANGED file
     \/ "write" \in Faults /\ WriteRecord(p) /\ Exit(p)

Inspect(p) ==
  /\ pc[p] = "inspect"
  /\ \/ readHold # Nobody /\ Step(p, "alive", readHold)
     \/ readHold = Nobody /\ Goto(p, "reclaimFlag")
     \/ "read" \in Faults /\ Exit(p)
  /\ UNCHANGED file

\* Mutant: a recorded holder is taken for dead whatever its state.
CheckHolder_Ignored(p) ==
  /\ pc[p] = "alive"
  /\ Goto(p, "reclaimFlag")
  /\ UNCHANGED file
\* A live holder refuses the start; a dead one is reclaimed.
CheckHolder(p) ==
  /\ pc[p] = "alive"
  /\ Goto(p, IF processAlive(seen[p]) THEN "none" ELSE "reclaimFlag")
  /\ UNCHANGED file

-----------------------------------------------------------------------------
(* The keeper calls, whose results the platform module supplies.           *)

\* rawFlagActive() = active, wherever the commands ask for it.
FlagRead(p, active) ==
  /\ \/ /\ pc[p] = "reclaimFlag"
        /\ Goto(p, IF active THEN "reclaimDisengage" ELSE "reclaimRemove")
     \/ pc[p] = "stopFlag" /\ Goto(p, IF active THEN "stopDisengage" ELSE "stopped")
     \/ pc[p] = "clearFlag" /\ Goto(p, IF active THEN "clearDisengage" ELSE "tidyRemove")
     \/ pc[p] = "statusFlag" /\ Goto(p, IF active THEN "sayStranded" ELSE "sayNormal")
  /\ UNCHANGED file

\* Mutant: a failed engage goes on like a good one.
EngageReturns_Ignored(p, ok) ==
  pc[p] = "engage" /\ Goto(p, "display") /\ UNCHANGED file
EngageReturns(p, ok) ==
  /\ pc[p] = "engage"
  /\ Goto(p, IF ok THEN "display" ELSE "abortDisengage")
  /\ UNCHANGED file

\* Mutant: every caller goes on whatever disengage returns.
DisengageReturns_Ignored(p, ok) ==
  /\ \/ pc[p] = "reclaimDisengage" /\ Goto(p, "reclaimRemove")
     \/ pc[p] = "abortDisengage" /\ Goto(p, "abortRemove")
     \/ pc[p] = "relDisengage" /\ Goto(p, "relRemove")
     \/ pc[p] = "stopDisengage" /\ Goto(p, "stopRemove")
     \/ pc[p] = "clearDisengage" /\ Goto(p, "clearRemove")
  /\ UNCHANGED file
\* acquire and a failed start go on whatever disengage returns; release, stop
\* and clearStranded keep the pidfile and end there when it failed.
DisengageReturns(p, ok) ==
  /\ \/ pc[p] = "reclaimDisengage" /\ Goto(p, "reclaimRemove")
     \/ pc[p] = "abortDisengage" /\ Goto(p, "abortRemove")
     \/ pc[p] = "relDisengage" /\ Goto(p, IF ok THEN "relRemove" ELSE "none")
     \/ pc[p] = "stopDisengage" /\ Goto(p, IF ok THEN "stopRemove" ELSE "none")
     \/ pc[p] = "clearDisengage" /\ Goto(p, IF ok THEN "clearRemove" ELSE "none")
  /\ UNCHANGED file

\* removePidfile, which deletes whatever file is at the path by now.  Only
\* acquire minds a failure.
RemovePidfile(p) ==
  /\ \/ pc[p] = "reclaimRemove" /\ file' = NoFile /\ Goto(p, "recreate")
     \/ pc[p] \in {"unwrite", "abortRemove", "relRemove"} /\ file' = NoFile /\ Exit(p)
     \/ /\ pc[p] \in {"stopRemove", "clearRemove", "tidyRemove"}
        /\ file' = NoFile /\ Goto(p, "stopped")
     \/ /\ "remove" \in Faults /\ UNCHANGED file
        /\ \/ pc[p] \in {"unwrite", "reclaimRemove", "abortRemove", "relRemove"} /\ Exit(p)
           \/ pc[p] \in {"stopRemove", "clearRemove", "tidyRemove"} /\ Goto(p, "stopped")

-----------------------------------------------------------------------------
(* A hold that has engaged: cmdHold and cmdRun from startDisplayKeeper on. *)

\* Without --display, or when the assertion cannot be taken, the hold goes on
\* without it.
StartDisplay(p) ==
  /\ pc[p] = "display"
  /\ pc' = [pc EXCEPT ![p] = "listen"]
  /\ display' \in {display, display \cup {p}}
  /\ UNCHANGED <<file, seen, signalled>>

\* signal.Notify: from here on a stop signal no longer kills the process.
\* A hold waits, with or without a deadline; a run goes on to its command.
Listen(p) ==
  /\ pc[p] = "listen"
  /\ \E l \in {"wait", "timed", "spawn"} : Goto(p, l)
  /\ UNCHANGED file

Spawn(p) ==
  /\ pc[p] = "spawn"
  /\ \/ Goto(p, "running")
     \/ /\ pc' = [pc EXCEPT ![p] = "undisplay"]
        /\ signalled' = signalled \ {p}
        /\ UNCHANGED <<seen, display>>
  /\ UNCHANGED file

\* p leaves its select; a signal still in its channel is never read again.
Awaken(p, l) ==
  /\ pc' = [pc EXCEPT ![p] = l]
  /\ signalled' = signalled \ {p}
  /\ UNCHANGED <<file, seen, display>>

TakeSignal(p) ==
  /\ p \in signalled
  /\ \/ pc[p] \in {"wait", "timed"} /\ Awaken(p, "undisplay")
     \/ pc[p] = "running" /\ Awaken(p, "grace")

\* Mutants: the timer, or the grace period, never runs out.
Deadline_Never(p)  == FALSE
GraceEnds_Never(p) == FALSE

Deadline(p)   == pc[p] = "timed" /\ Awaken(p, "undisplay")
ChildExits(p) == pc[p] \in {"running", "grace"} /\ Awaken(p, "undisplay")
\* The command outlived its 5 seconds of grace: kill it, then reap it.
GraceEnds(p)  == pc[p] = "grace" /\ Awaken(p, "killed")
Reap(p)       == pc[p] = "killed" /\ Awaken(p, "undisplay")

\* Mutant: the display assertion is left up.
StopDisplay_Skipped(p) ==
  pc[p] = "undisplay" /\ Goto(p, "own") /\ UNCHANGED file
\* release, first its own display assertion, superseded or not
StopDisplay(p) ==
  /\ pc[p] = "undisplay"
  /\ pc' = [pc EXCEPT ![p] = "own"]
  /\ display' = display \ {p}
  /\ UNCHANGED <<file, seen, signalled>>

\* Mutant: the pidfile is removed before the lever is restored.
OwnershipGuard_NoRestore(p) ==
  pc[p] = "own" /\ Goto(p, "relRemove") /\ UNCHANGED file
\* release, then the ownership guard: another pid in the pidfile means p was
\* superseded.  A missing, corrupt or unreadable pidfile passes for p's own.
OwnershipGuard(p) ==
  /\ pc[p] = "own"
  /\ \/ readHold \in {p, Nobody} /\ Goto(p, "relDisengage")
     \/ readHold \notin {p, Nobody} /\ Exit(p)
     \/ "read" \in Faults /\ Goto(p, "relDisengage")
  /\ UNCHANGED file

-----------------------------------------------------------------------------
(* stop and status.                                                        *)

StopRead(p) ==
  /\ pc[p] = "stopRead"
  /\ \/ readHold # Nobody /\ Step(p, "stopAlive", readHold)
     \/ readHold = Nobody /\ Goto(p, "clearFlag")
     \/ "read" \in Faults /\ Exit(p)
  /\ UNCHANGED file

\* Mutant: a live holder is taken for a dead one.
StopAlive_Ignored(p) ==
  pc[p] = "stopAlive" /\ Goto(p, "clearFlag") /\ UNCHANGED file
StopAlive(p) ==
  /\ pc[p] = "stopAlive"
  /\ IF processAlive(seen[p]) THEN Step(p, "stopHolder", seen[p]) ELSE Goto(p, "clearFlag")
  /\ UNCHANGED file

\* stopLiveHold waits until the pidfile no longer names a live holder ...
PollFile(p) ==
  /\ pc[p] = "poll"
  /\ \/ readHold = seen[p] /\ Step(p, "pollAlive", seen[p])
     \/ readHold # seen[p] /\ Goto(p, "stopFlag")
     \/ "read" \in Faults /\ Goto(p, "stopFlag")
  /\ UNCHANGED file

\* Mutant: stop looks once and does not wait for a live holder.
PollAlive_Once(p) ==
  pc[p] = "pollAlive" /\ Goto(p, "stopFlag") /\ UNCHANGED file
PollAlive(p) ==
  /\ pc[p] = "pollAlive"
  /\ IF processAlive(seen[p]) THEN Step(p, "poll", seen[p]) ELSE Goto(p, "stopFlag")
  /\ UNCHANGED file

\* Mutant: the poll has no bound.
GiveUp_Never(p) == FALSE
\* ... or its 30 polls are used up.  Unless "slow" is among the faults, 3
\* seconds are enough for a hold that caught the signal to release.
GiveUp(p) ==
  /\ pc[p] = "pollAlive"
  /\ "slow" \in Faults \/ pc[seen[p]] \notin Catching
  /\ Goto(p, "stopFlag")
  /\ UNCHANGED file

StatusRead(p) ==
  /\ pc[p] = "statusRead"
  /\ \/ readHold # Nobody /\ Step(p, "statusAlive", readHold)
     \/ readHold = Nobody /\ Goto(p, "statusFlag")
     \/ "read" \in Faults /\ Exit(p)
  /\ UNCHANGED file

\* Mutant: status looks at the flag alone.
StatusAlive_Ignored(p) ==
  pc[p] = "statusAlive" /\ Goto(p, "statusFlag") /\ UNCHANGED file
\* An active hold is any live process with the recorded pid.
StatusAlive(p) ==
  /\ pc[p] = "statusAlive"
  /\ IF processAlive(seen[p]) THEN Step(p, "sayActive", seen[p]) ELSE Goto(p, "statusFlag")
  /\ UNCHANGED file

\* The command has printed its verdict.
Leave(p) ==
  /\ pc[p] \in {"stopped", "sayActive", "sayStranded", "sayNormal"}
  /\ Exit(p)
  /\ UNCHANGED file

-----------------------------------------------------------------------------
(* What the environment does to a process.                                 *)

\* Ctrl-C, SIGTERM or SIGHUP once the process catches them.
Interrupt(p) ==
  /\ pc[p] \in Waiting
  /\ signalled' = signalled \cup {p}
  /\ UNCHANGED <<file, pc, seen, display>>

\* An unrelated program ends.
ForeignEnds(p) ==
  /\ pc[p] = "foreign"
  /\ Exit(p)
  /\ UNCHANGED file

\* SIGKILL, a stop signal before it is caught, a lost machine: no cleanup.
Crash(p) ==
  /\ "crash" \in Faults
  /\ pc[p] \notin {"none", "foreign"}
  /\ pc' = [pc EXCEPT ![p] = "none"]
  /\ seen' = [seen EXCEPT ![p] = Nobody]
  /\ signalled' = signalled \ {p}
  /\ UNCHANGED <<file, display>>

\* The assertion of a process that died goes away too: `caffeinate -w` waits
\* for the pid on macOS, Windows drops the request with its thread.
AssertionEnds(p) ==
  /\ p \in display /\ pc[p] = "none"
  /\ display' = display \ {p}
  /\ UNCHANGED <<file, pc, seen, signalled>>

\* The steps of the commands themselves that call no keeper ...
CommandStep(p) ==
  \/ Create(p) \/ Write(p) \/ Inspect(p) \/ CheckHolder(p) \/ RemovePidfile(p)
  \/ StartDisplay(p) \/ Listen(p) \/ Spawn(p)
  \/ TakeSignal(p) \/ Deadline(p) \/ GraceEnds(p) \/ Reap(p)
  \/ StopDisplay(p) \/ OwnershipGuard(p)
  \/ StopRead(p) \/ StopAlive(p) \/ PollFile(p) \/ PollAlive(p)
  \/ StatusRead(p) \/ StatusAlive(p) \/ Leave(p)

\* ... and what nothing obliges to happen.
EnvironmentStep(p) ==
  Launch(p) \/ ForeignEnds(p) \/ ChildExits(p) \/ Interrupt(p) \/ AssertionEnds(p)

-----------------------------------------------------------------------------
(* Properties of the commands whatever the keeper does.                    *)

HoldsTypeOK ==
  /\ file \in Files
  /\ pc \in [PID -> Label]
  /\ seen \in [PID -> PID \cup {Nobody}]
  /\ signalled \subseteq PID
  /\ display \subseteq PID

\* At most one hold at a time (state.go, type hold): two processes never both
\* own the slot, from a successful acquire to the last step of release.
OneHold == \A p, q \in Owners : p = q

\* The pidfile is the record of the hold: while a process owns the slot, the
\* file is there, whole, and names that process, so stop can find it.
SlotRecorded == \A p \in Owners : file = Record(p, TRUE)

\* A display assertion belongs to a process that is still to stop it: no
\* process gets past StopDisplay, superseded or not, with its assertion up.
DisplayOwned ==
  \A p \in display : pc[p] \in {"listen", "undisplay", "none"} \cup Waiting
                                  \cup {"grace", "killed"}
=============================================================================
