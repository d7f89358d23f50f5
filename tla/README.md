# A verification of lidspeculum

lidspeculum keeps a computer awake with its lid closed. A `hold` (or a `run`
around a command) throws a system-wide switch, records itself in a pidfile,
waits, and restores the switch; `stop` ends a hold or clears what a dead one
left behind; `status` reports. There is no daemon: all coordination between
these processes goes through one file, one switch and signals. The modules here
model that coordination, check it with TLC on small instances, and prove the
main results with TLAPS for any number of processes.

## 1. Inventory

| Part | Source | State it keeps | Operations |
|---|---|---|---|
| hold and run | `commands.go` | the slot it owns, its signal channel, timer, child process, display assertion | `acquire`, `engage`, `startDisplayKeeper`, `residentWait` / `runWrapped`, `release` |
| stop | `commands.go` | the pid it read | `cmdStop`, `stopLiveHold`, `clearStranded` |
| status | `commands.go` | the pid it read | `cmdStatus` |
| pidfile | `state.go` | absent, created but empty, written | `readHold`, `writeHoldExclusive`, `removePidfile` |
| unix processes | `proc_unix.go` | none (asks the kernel) | `processAlive`, `isLidspeculum`, `stopHolder` |
| macOS keeper | `keeper_darwin.go` | pmset's `SleepDisabled`; the sudoers rule | `engage`, `disengage`, `rawFlagActive`, `authorize`, `revoke` |
| Linux keeper | `keeper_linux.go` | the logind lock of a systemd-inhibit parent; an environment variable | `maybeReexec`, `rawFlagActive`, `confirmKeeper` |
| Windows keeper | `keeper_windows.go`, `proc_windows.go` | what closing the lid does on AC and on battery (DC), the scheme in force, a file with the previous values | `engage`, `disengage`, `rawFlagActive`, a `stopHolder` that does not signal |
| durations | `duration.go`, `deadline` | none | `ParseFor`, `ParseUntil`, `shortDur` |
| command line | `main.go` | none | flag parsing and dispatch |

What interacts with what: every command reads the pidfile; holds create it;
holds, `stop` and a reclaiming start remove it, by path, whoever's it is by
then. The same processes set, clear and read the switch, which survives all of
them. `stop` sends SIGTERM to the recorded pid, or on Windows restores the switch
in its place, and polls the pidfile.

What is hard about it:

- every check (is there a file, is its pid alive, is it a lidspeculum, is it
  mine, is the flag up) is separate from the act that depends on it, and a
  password prompt may sit in between;
- a process can be killed at any point, its pid reused, its `sudo pmset` child
  survive it;
- each of create, write, close, remove, engage and disengage can fail, and the
  callers differ in what they do then;
- waits are bounded by a poll count, a timer or a grace period;
- on Windows the switch is the user's own setting, changed by three calls in a
  row, and `stop` restores it beside a hold that goes on running and restores
  it once more;
- on Linux the lock belongs to another process than the one on record, and each
  of the two can die first.

`PROJECT.json` lists these hazards at their lines.

What makes each part correct:

- **hold**: one at a time; awake from engage to its own release; a signal or
  the deadline ends it; a superseded hold touches nothing but its own display
  assertion.
- **pidfile**: names the process that owns the slot; present while the switch
  may be set.
- **stop, status**: return; what they print is true.
- **macOS keeper**: never leaves sudo unusable.
- **Windows keeper**: the user's own setting is either in place or written
  down, and comes back.
- **Linux keeper**: no stop takes the lock of another hold, and a hold that ends,
  however it ends, loses its lock.
- **durations**: an accepted deadline lies ahead; the time left
  shown is right.

## 2. Modules

| Module | Models | State |
|---|---|---|
| `Holds` | commands and pidfile, without the keeper | `file`, `pc`, `seen`, `signalled`, `display` |
| `ProcUnix` | EXTENDS `Holds`: `stopHolder`; the commands over an arbitrary keeper (`UnixSpec`); the inductive invariant `SlotInv` | |
| `Darwin` | EXTENDS `ProcUnix`: pmset through sudo, the macOS system (`Spec`, `FairSpec`) | `flag`, `orphans` |
| `Linux` | EXTENDS `ProcUnix`: the systemd-inhibit wrappers | `locks`, `inner`, `bare` |
| `Windows` | EXTENDS `Holds`: the keeper with its powercfg calls, and `stopHolder` of `proc_windows.go` | `user`, `lid`, `applied`, `prev`, `call` |
| `SingleHold` | abstract: what the user is promised | `phase`, `awake` |
| `Duration` | `duration.go`, `deadline`, and the time left as `status` shows it from the record | `forStr`, `untilStr`, `start`, `now`, `hold` |
| `Sudoers` | `authorize` and `revoke` | `rule`, `others`, `pc`, `tmp` |
| `UnixProofs`, `DarwinProofs`, `LinuxProofs`, `WindowsProofs`, `LidProofs`, `LiveStopProofs`, `DurationProofs`, `SudoersProofs` | theorems | |
| `MCUnix`, `MCDarwin`, `MCLinux`, `MCWindows`, `MCDuration`, `MCSudoers` | instances for TLC | |

**Correspondence.** In `Holds` a process is at a *label*, the system call or
keeper call it is about to make, and a step is one such call, so the model
interleaves wherever the operating system can. `seen[p]` is the pid a process
read from the pidfile and still relies on; every other local variable is in the
label. The pidfile is a record of who created it and whether it is `whole`;
`readHold` yields a pid or `Nobody`, absent and corrupt alike, since every
caller treats them alike. The errors other than "no such file" are the fault
"read". `Launch` hands a free pid to a new command or to an unrelated program,
so pids are reused. The keeper module conjoins its own state with `FlagRead`,
`EngageReturns` and `DisengageReturns`, which take the result of the call.
`SIGTERM` to a process that does not catch it yet kills it (`StopKill`); while
it catches it, the signal goes to its channel (`signalled`), which is read only
in the two `select`s. The kernel may also refuse the signal (fault "deny"), and
`stop` then reports that and ends.

*The promise.* `SingleHold` gives each process a phase: out, taking the hold,
holding, leaving. A hold may be taken only when everyone is out. While a
process holds, no action is possible but its own `Leave` and `Quit`, so nobody
else can make the machine sleepable. While a process is taking or leaving the
hold only that process may move `awake`, and otherwise it may only be cleared
(`Clear`). On macOS the phase of a process is that of its label
(`PhaseOf`), with `holding` from the return of `engage` to the call of
`disengage` in its own release. Windows does not keep this promise, since `stop`
restores there under a hold that goes on; `TakenByStop` says what is left of it.

*Linux.* `Reexec` is `maybeReexec` in the first invocation: the process becomes
the wrapper, keeps its pid, and is no lidspeculum by name ("foreign"). `Fork` is
the wrapper starting the same command as its child (`inner`), whose
`maybeReexec` returns at once. A wrapper holds its lock (`locks`) as long as its
process lives. The `bare` holds are those that found the variable set and started
without one (`Inherit`), and those whose wrapper was killed by hand (`Unwrapped`);
a hold whose wrapper ends otherwise, by a stop say, is not among them. Each of
these shares its step with a step of `Holds`, so wrappers, commands and
unrelated programs compete for the same pids, but for the pid of a child that
has not been reaped (`Free`).

*Windows.* A powercfg call, an access to the previous-value file (`prev`) and
the final `/setactive` are one step each. `call[p]` says how far p is inside
`engage`, `disengage` or `stopHolder`, and what it is writing; `lid` is the
setting in the current scheme, which `/query` reads, and `applied` what is in
force. A file that `loadPrev` does not accept is `NoPrev`.

*Durations.* A hold with a deadline keeps the exact moment (`at`), for its timer
and the line it starts with, and records it cut to whole seconds (`expiresAt`),
which is what `status` works from (`Shown`).

Exit codes, wording, JSON and the fields of the pidfile other than the pid
decide nothing and are left out. Where a property is about what is printed, the
verdict is a label (`stopped`, `sayActive`, `sayStranded`, `sayNormal`).

**Faults and use.** `Faults` selects what may go wrong in an instance; the
list, with the meaning of each, is `FaultKinds`. `Serial` is a promise of the
user: no start overlaps another command, and no command is started while a
start is under way; holds still overlap `stop` and `status`, and everything may
be killed. Without it two holds can coexist (run `two_starts`). On Windows, what
happens to a user differs from user to user: an instance names its `Users`, each
with a setting of their own and the `Mishaps` they meet (stopping a live hold,
two stops at a time, a start over a hold that stop went past, a reused pid, a
kill, a kill in the middle of a restore).

**Mutants.** An operator named `X_Something` is a plausible bug in `X`. Each
property is shown to fail when the mutant takes the place of `X`.

## 3. Runs

Passing runs:

| Run | Instance | Shows |
|---|---|---|
| `any_keeper` | `UnixSpec`, 3 pids, Serial, all faults but read, ident, slow; symmetric | `OneHold`, `SlotRecorded`, and the invariant `SlotInv` of the proofs, whatever the keeper answers |
| `serial` | `Darwin`, 3 pids, Serial; crash, write, remove, engage, deny | `TypeOK`, `HoldHolds`, `FlagRecorded`, `StatusTruth`: status calls active nobody but the process that has the hold, if any has, and speaks of none only when none has; `SingleHoldSpec`: the commands implement `SingleHold` |
| `restore_fails` | `Darwin`, 3 pids, Serial; disengage, remove | `LeftoverRecorded`: a flag that could not be cleared is on record once everything has ended; `StopTruth`. Crashes and failing writes are left out: `acquire` (commands.go:44) ignores a failed disengage and drops the stale pidfile, so one of them right after it leaves the flag unrecorded (see below the tables) |
| `overlap` | `Darwin` with fairness, 2 pids, not Serial; crash, read, disengage, query, ident, slow, orphan, deny | `DisplayOwned`, and that signals and deadlines end a hold and that starts, `stop` and `status` return |
| `linux` | `Linux` with fairness, 3 pids, Serial; crash, inhibit (a wrapper is killed), inherit, query | `TypeOK`; `LockedWhileHeld`: a hold that is not bare has a live wrapper with the lock, because no stop kills the wrapper of a hold that goes on, whoever has the pid it read by then; `SlotRecorded`; `LockFreed`: the lock of a hold goes once the hold was signalled, timed out, is releasing or has died |
| `windows` | `Windows`, 3 pids, Serial, symmetric; crash, write, remove, engage. Users: two with settings of their own, stopping only dead holds, killed except during a restore; two with the default, who also stop live holds and meet reused pids, one with two stops at a time and one with kills | `TypeOK`; `Recoverable`: whenever the setting is not the user's, what `disengage` would write is; `SettingReturns`: with no command and no pidfile left it is back, and in force; `StopSleeps`: after `stop` the lid is not ignored; `HoldHolds`; `TakenByStop`: only a stop takes the lid from a hold, and one that found a live hold only from that one |
| `durations` | 4 units a second, ints of 32768 values | `DeadlineAhead`; `ShownIsClose`: the time left that status shows is at most half a unit above the real one, and less than half a unit and the lost fraction of a second below; `ShownNeverGrows` |
| `authorize_overlap` | 2 overlapping commands, all faults | `LockoutSafe` |

Runs that find the program at odds with its own documentation (`PROJECT.json`,
"findings", quotes the lines):

| Run | Property | What happens |
|---|---|---|
| `two_starts` | `OneHold` | a second start reads the first one's still empty pidfile as corrupt, removes it, and both hold |
| `late_release` | `SupersededHandsOff` | `stop` gives up on a hold whose restore is slow and clears for it; a new hold starts; the old one's restore and removal then hit the new hold |
| `windows_twice` | `SecondReleaseHarmless` | a hold that `stop` went past releases once more, finds nothing saved, and writes the default over the user's own setting |
| `windows_refused` | `RefusalHarmless` | a start that cannot read the setting refuses, then disengages, which writes the default over it |

Six more disagreements are visible in the models without a run of their own; the
first four show when the property named is checked with the faults named.

- After a failed engage the pidfile goes whatever `disengage` returned, so a flag
  half set stays up unrecorded, against `commands.go:218`
  (`Darwin!LeftoverRecorded`, 2 pids, Serial; engage, disengage).
- A start reclaims, its disengage fails and is ignored, and it is killed between
  removing the stale pidfile and creating its own: the flag is up with no
  pidfile, against the invariant of `commands.go:103` (`LeftoverRecorded`,
  2 pids, Serial; disengage, crash).
- On Windows `stop` removes the pidfile of a hold that goes on, and the next
  `hold` starts beside it, against `README.md:41` (`OneHold`, 2 pids, a user who
  may "live" and "outlived").
- `authorize` does not look at the result of its rollback, which goes through the
  sudo that has just failed, and says "Nothing changed" with the rule in place
  (`Sudoers`, one command; sudo: `pc[c] = "rolledBack"` does not imply
  `rule = "absent"`).
- `release` takes a corrupt pidfile for its own (`OwnershipGuard`; the comment at
  `commands.go:117` says it is "not clearly ours").
- A bare `--for` can wrap around to another, shorter deadline (`Wrap`).

**Bounds.** Nothing in `Holds` or `Darwin` counts, so the state space is finite
once the pids are: with three pids a live hold, a `stop` or a start, and a
third party (a `status`, a second `stop`, an unrelated program on a reused pid)
can meet; two are enough for the liveness run, whose properties are about one
process and one it waits for. The `stop` poll is 30 rounds in the code; in the
model it may end at any round (`GiveUp`), and does so before a hold that has
caught its signal is done only with the fault "slow". On Linux three pids are a
wrapper, its child, and a third that may be `stop`, another wrapper or a program
that takes a pid over. In `Windows` the settings of the users differ from the
default and from "do nothing" in AC, so that a wrong restore shows, and one of
them in having nothing to override on battery; the faults "query", "save" and
"disengage" are left out of `windows`, because the abort path then loses a
setting (`windows_refused`) and because no document says what a failed restore
leaves. In `Duration`, 32768 values hold an hour of quarter seconds and leave
room for an integer whose product wraps; the arguments and the moments the clock
is looked at (`Lefts`) are the boundaries of each function and their neighbours. `durations` does not check for
deadlock: a refused command line and a hold whose clock was last looked at are
the end of a behaviour.

**Fairness** (`Darwin!Fairness`). Weak fairness for each process's own steps:
the scheduler runs it, system calls return, `sudo` and `pmset` return (sudo
gives up on an unanswered prompt), timers fire. Strong fairness for `GiveUp`:
the poll loop has a bound in the code, so it cannot be passed for ever. Nothing
is assumed of the environment: no command need be started or interrupted, no
wrapped command or unrelated program need end. `Linux!Fairness` is the same
with the wrapper's own step (`Unwrap`): systemd-inhibit waits for its child and
ends.

## 4. Theorems

Assumptions are named. `PIDAssumption`, `EnvAssumption`, `UsersAssumption`,
`UnitsAssumption`, `ArgsAssumption` and `FaultsAssumption` only type the
constants. The others are hypotheses of the theorems that need them:

- `CarefulUse`: the user is careful (`Serial`) and the pidfile can be read, the
  holder can be named and releases within three seconds. Crashes, failing writes
  and removals, and every keeper fault remain.
- `TrueKeeper`: pmset answers and does not outlive its parent; restoring may
  fail.
- `OnlyRestoresFail`: restores and removals of the pidfile may fail; pmset
  otherwise works and no command dies.
- `SureKeeper`: pmset answers, does not outlive its parent, and
  restores; setting the flag may still fail half done.
- `DeadHoldsOnly`: a Windows user runs `stop` only when no hold is alive.
- `NoneOutlived`: `Serial`, and no Windows user starts a hold beside one that
  `stop` went past and that is still alive. Every fault remains, and every
  setting.
- `Restorable`: `Serial`; powercfg answers, and restores. Half-done engages,
  settings that cannot be saved, and every fault of the pidfile remain.
- `WellServed(u)`, of each Windows user `u`: one of two kinds.
  `Orderly(u)` with `Dependable`: any setting but "do nothing" on AC; `u` stops
  only dead holds, one stop at a time, is not killed once a restore has begun and
  meets no reused pid; `CarefulUse`, and saving the setting does not fail.
  `Defaulting(u)`: the default setting; `u` may stop live holds, run two stops at
  a time, meet reused pids and be killed before a restore, but starts no hold
  beside one that `stop` went past. What these exclude the code needs: in each
  of the cases a setting is lost, or, for kills in the middle of a restore, the
  next command takes a half-written setting for the user's.
- `OneAtATime(u)`: not both of two stops at a time and kills. A hold that was
  killed leaves two stops to clear up at once, and the second can find the flag
  down, and say so, before the first has put that in force.

| Theorem | Assumes | States |
|---|---|---|
| `UnixProofs!UnixTypeOK`, `DisplayIsOwned` | | types, `DisplayOwned`, over any keeper, any faults and any overlap |
| `UnixProofs!SlotInvariant` | `CarefulUse` | `SlotInv` |
| `UnixProofs!PidfileIsTheRecord`, `SlotIsExclusive` | `CarefulUse` | `SlotRecorded`, `OneHold`, over any keeper |
| `DarwinProofs!DarwinImplementsUnix`, `DarwinTypeOK`, `DarwinDisplayOwned` | | `Spec => UnixSpec`; types; `DisplayOwned` on macOS |
| `DarwinProofs!DarwinOneHold` | `CarefulUse` | `OneHold` on macOS |
| `DarwinProofs!StopIsTrue`, `StatusIsTrue` | `CarefulUse`, `TrueKeeper` | `StopTruth`, `StatusTruth` |
| `DarwinProofs!LeftoverIsRecorded` | `CarefulUse`, `OnlyRestoresFail` | `LeftoverRecorded` |
| `DarwinProofs!FlagIsRecorded`, `HoldsHold` | `CarefulUse`, `SureKeeper` | `FlagRecorded`, `HoldHolds` |
| `DarwinProofs!ImplementsSingleHold` | `CarefulUse`, no orphans | `Spec => SingleHoldSpec`: no step of a stop, a start or a dying process lets the machine sleep under a hold |
| `LinuxProofs!LinuxImplementsUnix`, `LinuxTypeOK` | | `Spec => UnixSpec`; types |
| `LinuxProofs!LinuxRecord` | `CarefulUse` | `SlotRecorded`, `OneHold` on Linux |
| `LinuxProofs!HoldsAreLocked` | `CarefulUse` | `LockedWhileHeld` |
| `WindowsProofs!WindowsDisplayOwned` | | `DisplayOwned` on Windows |
| `WindowsProofs!WindowsTypeOK` | | types |
| `WindowsProofs!WindowsOneHold` | `CarefulUse`, `DeadHoldsOnly` | `OneHold`, `SlotRecorded` on Windows |
| `LiveStopProofs!OnlyStopsTakeTheLid` | `NoneOutlived` | `TakenByStop` |
| `LiveStopProofs!LidIsRecoverable`, `LidIsGivenBack`, `HoldKeepsLidIgnored` | `Restorable`, every user `WellServed` | `Recoverable`, `SettingReturns`, `HoldHolds` |
| `LiveStopProofs!StopLetsItSleep` | the same, and `OneAtATime` | `StopSleeps` |
| `DurationProofs!AcceptedLiesAhead`, `ShownIsRight`, `ShownCountsDown` | | `DeadlineAhead`, `ShownIsClose`, `ShownNeverGrows`, for any units, integer width, arguments and clock |
| `SudoersProofs!NeverLockedOut` | | `LockoutSafe` |

**Mutual exclusion.** `OneHold` is not inductive. `SlotInv` adds: the file is
the record of any owner; a file being written is the writer's (so nobody
can own the slot meanwhile); no command overlaps a start; a process that
concluded there is no hold (`Unheld`) is right and stays right; a process that
still relies on a pid it read (`Relying`) relies on the owner's, if there is an
owner. The last is what makes `stop` safe to remove the file after its poll,
and where "slow" has to be excluded. `Keep` states once what a moving process
must respect for all five to survive; each action then only has to be shown to
respect it.

**The flag.** `FlagInv` adds that the flag is down at every label from which
the pidfile is removed, created or declared unneeded (`Restored`). Only an
owner sets the flag, and by `SlotInv` nobody else is at such a label then.

When a restore fails that is no longer so: `LeftInv` says that a flag without a
pidfile is in the hands of a start that is reclaiming it, which writes the next
pidfile, and `AssuredIsDown` that what `stop` removes the pidfile on is true.

**Refinement.** By `OwnersMove` a process gets from one phase to the next only in
their order, and by `SlotInv` only when no other process owns the slot; so a step
takes the hold, engages, leaves, quits, or changes nobody's phase. A step that
moves the flag is the owner's before it holds (`Fumble`, `Hold`), the owner's
when it leaves (`Restore`), or made when nobody owns the slot (`Clear`): every
other process at a label that clears the flag has concluded that there is no
hold, and `UnheldIsTrue` says that it is right.

**Linux.** A lock goes only with its wrapper's process. Of the commands only
`stop` ends processes, by a pid it read a while ago. Were that pid a wrapper's by
now, and the wrapper's child a hold, then the child would own the slot, for no
start overlaps a stop (`StartsAlone`), and the stop would rely on the child's own
pid (`SeenIsOwner`), which is not the wrapper's (`KillSparesWrappers`). The other
steps are shown at once to leave wrappers alone (`ForeignStays`) and to begin no
hold (`HoldsGrow`).

**The lid setting.** `stopHolder` on Windows is not a step of `UnixSpec`, so
mutual exclusion is shown again, from the same lemmas, with `StopsUnheld`: while
a stop is at work there is no hold. `LidProofs` adds `Orders`: one stop at a
time, whose pid on record is a dead one (`StopInv`), so that two restores never
meet; and, at the lever (`LeverInv`), what each process inside `engage` or
`disengage` can rely on (`Knows`), that outside a restore the setting is either
the user's, or overridden with the user's own saved (`Quiet`), and that the
pidfile goes only from labels reached with the setting put back (`Clean`).

**Live stops.** A stop that goes past a live hold removes its pidfile, so
`SlotRecorded` fails, and with it the induction above. `LooseSlots` gets mutual
exclusion from less: a start still owns the file it wrote
(`EngagerRecorded`); a hold's file is its own or gone (`OwnerOnRecord`), and is
there while a start runs (`StartMeetsRecord`), which is where `NoneOutlived` is
needed; who found no hold is right (`VacantIsTrue`); who is about to look whether
the recorded process lives, or to end it, looks at the owner (`LooksAtOwner`).
`NoneOutlived` is a restriction on the user, not a promise of the code: a `hold`
after a `stop` is the usual thing to do, and gives two holds.
`TakenByStop` follows: a restore that is put in force under a hold is not a
start's (`VacantIsTrue`), not another hold's (mutual exclusion), and a stop that
found a live process found this one.

Restores now overlap: two stops, or a stop and the release of the hold it went
past. For a user with the default setting they all write the same, so `Homing`
need not say who restores: each restore has what it needs (`RestoreFinds`), a
setting that is half put back is in the hands of a restore still at work
(`Returning`), which a kill cannot interrupt, and an engage meets none
(`EngagesAlone`). A stop may be told that the flag is down while another restore
has not yet put it in force, so `StopSleeps` takes one invariant more:
with `OneAtATime`, a stop that finds nothing to stop either finds the setting put
back or is alone with it (`ClearsAlone`, `StopUndisturbed`). A user whose restore is killed
in the middle (mishap "torn") is outside: AC back and DC not reads as put back.

Every user of the theorems is of one kind or the other (`EitherInvariant`), as
in the run `windows`, whose `Users` and `Faults` meet all of the hypotheses.

**Durations.** `Round` is shown to be the nearest multiple (`RoundIsNearest`)
and monotone; the time shown is one of two such roundings, and where the unit
changes from minutes to seconds the smaller never exceeds the larger. Cutting the
deadline to whole seconds costs less than one of them (`RecordedIsClose`).

Only model-checked: liveness (fairness is out of the prover's reach), so
`SignalHonoured`, `DeadlineHonoured`, `CommandsEnd`, `LockFreed`. Every
invariant, step property and refinement that a passing run checks is also proved,
under the hypotheses
of the table.

## 5. Not modelled, and the plan

Next:

1. Proofs: mutual exclusion without the part of `Serial` that concerns `status`.
2. Windows: what of the setting survives a failing restore, or a release beside
   a new hold, once the program says what should.

Left out for good: flag parsing, help and version (standard library, no
state), wording and JSON, the release pipeline. `targetUser` and the
confirmation prompt refuse before anything is touched and only appear as a
command that ends; `preflightKeeper` likewise. `confirmKeeper` only prints a
warning. `processAlive` is exact in all models: a live process that Windows does
not let lidspeculum open reads as dead there, which no model shows. The
temporary rule file appears as its contents alone. Clock changes are not
modelled.
