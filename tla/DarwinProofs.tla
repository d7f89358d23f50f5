---------------------------- MODULE DarwinProofs ----------------------------
(***************************************************************************)
(* Proofs about lidspeculum on macOS: what UnixProofs shows for any keeper *)
(* holds for pmset, and with it the pidfile accounts for the flag, stop    *)
(* and status tell the truth, and the commands implement SingleHold.       *)
(***************************************************************************)
EXTENDS Darwin, UnixProofs

FlagType == flag \in BOOLEAN /\ orphans \subseteq BOOLEAN

-----------------------------------------------------------------------------
(* Darwin's keeper is one of the keepers ProcUnix allows.                  *)

LEMMA AbandonType ==
  ASSUME FlagType, NEW t, Abandon(t)
  PROVE  FlagType' /\ flag' = flag /\ ("orphan" \notin Faults => orphans' = orphans)
<1> DEFINE v == PmsetValue(pc[t])
<1>1. v \subseteq BOOLEAN
  BY DEF PmsetValue
<1> HIDE DEF v
<1>2. orphans' \in {orphans, orphans \cup v} /\ flag' = flag
  BY DEF Abandon, v
<1>3. "orphan" \notin Faults => orphans' = orphans
  BY DEF Abandon
<1> QED
  BY <1>1, <1>2, <1>3 DEF FlagType

LEMMA FlagTypeStep ==
  ASSUME FlagType, [Next]_vars
  PROVE  FlagType'
<1>1. CASE UNCHANGED vars
  BY <1>1 DEF vars, FlagType
<1>2. ASSUME NEW p \in PID, Progress(p) PROVE FlagType'
  <2>1. CASE KeeperStep(p)
    BY <2>1 DEF KeeperStep, QueryFlag, Engage, Disengage, FlagType
  <2>2. CASE StopKill(p) /\ Abandon(seen[p])
    BY <2>2, AbandonType
  <2> QED
    BY <1>2, <2>1, <2>2 DEF Progress, FlagType
<1>3. ASSUME NEW p \in PID, Crash(p) /\ Abandon(p) PROVE FlagType'
  BY <1>3, AbandonType
<1>4. CASE OrphanEnds
  BY <1>4 DEF OrphanEnds, FlagType
<1> QED
  BY <1>1, <1>2, <1>3, <1>4 DEF Next, FlagType

LEMMA UnixStep ==
  ASSUME FlagType, [Next]_vars
  PROVE  [UnixNext]_holdVars
<1>1. CASE UNCHANGED vars
  BY <1>1 DEF vars
<1>2. ASSUME NEW p \in PID, KeeperStep(p) PROVE AnyKeeper(p)
  BY <1>2 DEF KeeperStep, QueryFlag, Engage, Disengage, AnyKeeper, FlagType
<1>3. CASE OrphanEnds
  BY <1>3 DEF OrphanEnds
<1> QED
  BY <1>1, <1>2, <1>3 DEF Next, Progress, UnixNext

\* Every behaviour of lidspeculum on macOS is one of the commands over a
\* keeper that may answer anything, so what holds there holds here.
THEOREM DarwinImplementsUnix == Spec => UnixSpec
<1>1. DarwinInit => Init /\ FlagType
  BY DEF DarwinInit, FlagType
<1>2. FlagType /\ [Next]_vars => FlagType'
  BY FlagTypeStep
<1>3. FlagType /\ [Next]_vars => [UnixNext]_holdVars
  BY UnixStep
<1> QED
  BY <1>1, <1>2, <1>3, PTL DEF Spec, UnixSpec

\* Type correctness on macOS.
THEOREM DarwinTypeOK == Spec => []TypeOK
<1>1. DarwinInit => FlagType
  BY DEF DarwinInit, FlagType
<1>2. FlagType /\ [Next]_vars => FlagType'
  BY FlagTypeStep
<1>3. FlagType /\ HoldsTypeOK => TypeOK
  BY DEF FlagType, TypeOK
<1> QED
  BY <1>1, <1>2, <1>3, DarwinImplementsUnix, UnixTypeOK, PTL DEF Spec

\* A careful user of a Mac never has two holds, and the pidfile names the one.
THEOREM DarwinOneHold == ASSUME CarefulUse PROVE Spec => [](OneHold /\ SlotInv)
BY DarwinImplementsUnix, SlotIsExclusive, SlotInvariant, PTL

\* On macOS too no process gets past its release with its assertion up.
THEOREM DarwinDisplayOwned == Spec => []DisplayOwned
BY DarwinImplementsUnix, DisplayIsOwned, PTL

LEMMA NoOrphans ==
  ASSUME "orphan" \notin Faults, FlagType, orphans = {}, [Next]_vars
  PROVE  (FlagType /\ orphans = {})'
<1>1. FlagType'
  BY FlagTypeStep
<1>2. ASSUME NEW t, Abandon(t) PROVE orphans' = {}
  BY <1>2, AbandonType
<1>3. ASSUME NEW p \in PID, KeeperStep(p) PROVE orphans' = {}
  BY <1>3 DEF KeeperStep, QueryFlag, Engage, Disengage
<1>4. orphans' = {}
  BY <1>2, <1>3 DEF Next, Progress, OrphanEnds, vars
<1> QED
  BY <1>1, <1>4

-----------------------------------------------------------------------------
(* What stop and status say.                                               *)

\* pmset -g answers and no pmset outlives its parent; restoring may fail.
TrueKeeper == Faults \cap {"query", "orphan"} = {}

\* The labels at which stop or status has made sure that the flag is down.
Assured == {"stopRemove", "clearRemove", "tidyRemove", "stopped", "sayNormal"}
AssuredIsDown == \A p \in PID : pc[p] \in Assured => ~flag

\* Only an answer of the keeper assures a command.
LEMMA AssuredGrow ==
  ASSUME HoldsTypeOK, NEW p \in PID,
         \/ CommandStep(p) \/ StopHolder(p) \/ StopKill(p) \/ GiveUp(p)
         \/ EnvironmentStep(p) \/ Crash(p),
         NEW q \in PID, pc'[q] \in Assured
  PROVE  pc[q] \in Assured
<1> USE DEF Assured, HoldsTypeOK, Waiting, Goto, Exit, Step, Awaken
<1>1. CASE Create(p) \/ Write(p) \/ Inspect(p)
  BY <1>1 DEF Create, Write, Inspect
<1>2. CASE CheckHolder(p) \/ RemovePidfile(p) \/ StartDisplay(p)
  BY <1>2 DEF CheckHolder, RemovePidfile, StartDisplay
<1>3. CASE Listen(p) \/ Spawn(p) \/ TakeSignal(p)
  BY <1>3 DEF Listen, Spawn, TakeSignal
<1>4. CASE Deadline(p) \/ GraceEnds(p) \/ Reap(p) \/ StopDisplay(p)
  BY <1>4 DEF Deadline, GraceEnds, Reap, StopDisplay
<1>5. CASE OwnershipGuard(p) \/ StopRead(p) \/ StopAlive(p)
  BY <1>5 DEF OwnershipGuard, StopRead, StopAlive
<1>6. CASE PollFile(p) \/ PollAlive(p)
  BY <1>6 DEF PollFile, PollAlive
<1>7. CASE StatusRead(p) \/ StatusAlive(p) \/ Leave(p)
  BY <1>7 DEF StatusRead, StatusAlive, Leave
<1>8. CASE StopHolder(p) \/ StopKill(p) \/ GiveUp(p)
  BY <1>8 DEF StopHolder, StopKill, GiveUp
<1>9. CASE EnvironmentStep(p) \/ Crash(p)
  BY <1>9 DEF EnvironmentStep, Launch, ForeignEnds, ChildExits, Interrupt, AssertionEnds, Crash
<1> QED
  BY <1>1, <1>2, <1>3, <1>4, <1>5, <1>6, <1>7, <1>8, <1>9 DEF CommandStep

LEMMA AssuredStep ==
  ASSUME TrueKeeper, SlotInv, FlagType, orphans = {}, AssuredIsDown, [Next]_vars
  PROVE  AssuredIsDown'
<1>t. HoldsTypeOK /\ UnheldIsTrue
  BY DEF SlotInv
<1>1. ASSUME flag' = flag,
             \A q \in PID : pc'[q] \in Assured => pc[q] \in Assured
      PROVE  AssuredIsDown'
  BY <1>1 DEF AssuredIsDown
<1>2. CASE UNCHANGED vars
  BY <1>1, <1>2 DEF vars, holdVars
<1>3. ASSUME NEW p \in PID,
             \/ CommandStep(p) \/ StopHolder(p) \/ StopKill(p) \/ GiveUp(p)
             \/ EnvironmentStep(p) \/ Crash(p),
             flag' = flag
      PROVE  AssuredIsDown'
  BY <1>1, <1>3, <1>t, AssuredGrow
<1>4. ASSUME NEW p \in PID, QueryFlag(p) PROVE AssuredIsDown'
  <2>1. FlagRead(p, flag) /\ flag' = flag
    BY <1>4 DEF QueryFlag, TrueKeeper
  <2>2. \A q \in PID \ {p} : pc'[q] = pc[q]
    BY <2>1, <1>t DEF FlagRead, Goto, Step, HoldsTypeOK
  <2>3. pc'[p] \in Assured => ~flag
    BY <2>1, <1>t DEF FlagRead, Goto, Step, HoldsTypeOK, Assured, FlagType
  <2> QED
    BY <2>1, <2>2, <2>3 DEF AssuredIsDown
<1>5. ASSUME NEW p \in PID, Engage(p) PROVE AssuredIsDown'
  <2>1. pc[p] = "engage" /\ pc'[p] \in {"display", "abortDisengage"}
    BY <1>5, <1>t DEF Engage, EngageReturns, Goto, Step, HoldsTypeOK
  <2>2. \A q \in PID \ {p} : pc'[q] = pc[q]
    BY <1>5, <1>t DEF Engage, EngageReturns, Goto, Step, HoldsTypeOK
  <2>3. \A q \in PID : pc[q] \notin Assured
    BY <2>1, <1>t DEF UnheldIsTrue, Unheld, Owning, Engaging, Assured
  <2> QED
    BY <2>1, <2>2, <2>3 DEF AssuredIsDown, Assured
<1>6. ASSUME NEW p \in PID, Disengage(p) PROVE AssuredIsDown'
  <2>1. CASE DisengageReturns(p, TRUE) /\ flag' = FALSE
    BY <2>1 DEF AssuredIsDown
  <2>2. CASE DisengageReturns(p, FALSE) /\ flag' = flag
    BY <2>2, <1>t DEF DisengageReturns, Goto, Step, HoldsTypeOK, AssuredIsDown, Assured
  <2> QED
    BY <1>6, <2>1, <2>2 DEF Disengage
<1>7. ASSUME NEW t, Abandon(t) PROVE flag' = flag
  BY <1>7 DEF Abandon
<1> QED
  BY <1>2, <1>3, <1>4, <1>5, <1>6, <1>7 DEF Next, Progress, KeeperStep, OrphanEnds

LEMMA AssuredInvariant ==
  ASSUME CarefulUse, TrueKeeper
  PROVE  Spec => [](SlotInv /\ AssuredIsDown)
<1>1. DarwinInit => AssuredIsDown /\ FlagType /\ orphans = {}
  BY DEF DarwinInit, FlagType, AssuredIsDown
<1>2. SlotInv /\ FlagType /\ orphans = {} /\ AssuredIsDown /\ [Next]_vars => AssuredIsDown'
  BY AssuredStep
<1>3. FlagType /\ orphans = {} /\ [Next]_vars => (FlagType /\ orphans = {})'
  BY NoOrphans DEF TrueKeeper
<1> QED
  BY <1>1, <1>2, <1>3, DarwinImplementsUnix, SlotInvariant, PTL DEF Spec

\* When stop says that the machine sleeps normally, it does, and no hold is
\* left that relies on it not to, even where restoring fails.
THEOREM StopIsTrue == ASSUME CarefulUse, TrueKeeper PROVE Spec => []StopTruth
<1>1. SlotInv /\ AssuredIsDown => StopTruth
  BY DEF SlotInv, UnheldIsTrue, AssuredIsDown, StopTruth, Owners, Unheld, Assured
<1> QED
  BY <1>1, AssuredInvariant, PTL

\* status names the hold when there is one, and calls the machine free to sleep
\* or the setting left over only when there is none.
THEOREM StatusIsTrue == ASSUME CarefulUse, TrueKeeper PROVE Spec => []StatusTruth
<1>1. SlotInv /\ AssuredIsDown => StatusTruth
  BY DEF SlotInv, UnheldIsTrue, SeenIsOwner, AssuredIsDown, StatusTruth, Owners, Unheld,
         Relying, Assured
<1> QED
  BY <1>1, AssuredInvariant, PTL

-----------------------------------------------------------------------------
(* What a failed restore leaves over.                                      *)

\* Restoring may fail, and so may removing the pidfile; nothing else of the
\* lever does, and no command dies.
OnlyRestoresFail == Faults \cap {"crash", "write", "engage", "query", "orphan"} = {}

\* The labels behind a failure that does not happen then.
Failing == {"unwrite", "abortDisengage", "abortRemove"}

\* A flag without a pidfile is in the hands of a start that is reclaiming it.
LeftInv ==
  /\ flag /\ file = NoFile => \E p \in PID : pc[p] = "recreate"
  /\ \A p \in PID : pc[p] = "relRemove" => ~flag
  /\ \A p \in PID : pc[p] \notin Failing

\* A step that leaves the flag alone.
LEMMA LeftKeep ==
  ASSUME LeftInv, NEW p \in PID, NEW l, Moves(p, l), flag' = flag,
         l \notin Failing \cup {"relRemove"},
         flag /\ file' = NoFile => \/ file = NoFile /\ pc[p] # "recreate"
                                   \/ l = "recreate"
  PROVE  LeftInv'
<1>1. (flag /\ file = NoFile => \E q \in PID : pc[q] = "recreate")'
  BY DEF LeftInv, Moves
<1>2. \A q \in PID : (pc[q] = "relRemove" => ~flag)' /\ pc'[q] \notin Failing
  BY DEF LeftInv, Moves
<1> QED
  BY <1>1, <1>2 DEF LeftInv

LEMMA LeftCommandStep ==
  ASSUME OnlyRestoresFail, SlotInv, AssuredIsDown, LeftInv, NEW p \in PID, flag' = flag,
         CommandStep(p) \/ StopHolder(p) \/ GiveUp(p) \/ EnvironmentStep(p)
  PROVE  LeftInv'
<1> USE DEF Failing
<1>t. HoldsTypeOK /\ \A q \in PID : pc[q] \notin Failing
  BY DEF SlotInv, LeftInv
<1>1. CASE Create(p)
  <2>1. PICK l \in {"write", "inspect", "none"} : Moves(p, l)
    BY <1>1, <1>t DEF Create, Goto, Exit, Step, Moves, HoldsTypeOK
  <2>2. file' # NoFile
    BY <1>1, PIDAssumption DEF Create, Record, NoFile, OnlyRestoresFail
  <2> QED
    BY <2>1, <2>2, LeftKeep
<1>2. CASE Write(p)
  <2>1. pc[p] = "write" /\ Moves(p, "engage")
    BY <1>2, <1>t DEF Write, Goto, Exit, Step, Moves, HoldsTypeOK, OnlyRestoresFail
  <2>2. file' = NoFile => file = NoFile
    BY <1>2, PIDAssumption DEF Write, WriteRecord, Record, NoFile, OnlyRestoresFail
  <2> QED
    BY <2>1, <2>2, LeftKeep
<1>3. CASE RemovePidfile(p)
  <2>1. PICK l \in {"recreate", "none", "stopped"} : Moves(p, l)
    BY <1>3, <1>t DEF RemovePidfile, Goto, Exit, Step, Moves, HoldsTypeOK
  <2>2. flag /\ file' = NoFile => (file = NoFile /\ pc[p] # "recreate") \/ l = "recreate"
    BY <1>3, <1>t, <2>1
    DEF RemovePidfile, Goto, Exit, Step, Moves, HoldsTypeOK, LeftInv, AssuredIsDown, Assured
  <2> QED
    BY <2>1, <2>2, LeftKeep
<1>4. ASSUME file' = file, pc[p] # "recreate",
             \E l : Moves(p, l) /\ l \notin Failing \cup {"relRemove"}
      PROVE  LeftInv'
  BY <1>4, LeftKeep
<1> USE DEF Goto, Exit, Step, Awaken, Moves, HoldsTypeOK
<1>5. CASE Inspect(p) \/ CheckHolder(p) \/ StartDisplay(p) \/ Spawn(p)
  BY <1>5, <1>4, <1>t DEF Inspect, CheckHolder, StartDisplay, Spawn
<1>6. CASE Listen(p)
  <2>1. PICK l \in {"wait", "timed", "spawn"} : Goto(p, l)
    BY <1>6 DEF Listen
  <2> QED
    BY <1>6, <2>1, <1>4, <1>t DEF Listen
<1>7. CASE TakeSignal(p) \/ Deadline(p) \/ GraceEnds(p) \/ Reap(p)
  BY <1>7, <1>4, <1>t DEF TakeSignal, Deadline, GraceEnds, Reap
<1>8. CASE StopDisplay(p) \/ OwnershipGuard(p) \/ StopRead(p) \/ StopAlive(p)
  BY <1>8, <1>4, <1>t DEF StopDisplay, OwnershipGuard, StopRead, StopAlive
<1>9. CASE PollFile(p) \/ PollAlive(p) \/ StatusRead(p) \/ StatusAlive(p) \/ Leave(p)
  BY <1>9, <1>4, <1>t DEF PollFile, PollAlive, StatusRead, StatusAlive, Leave
<1>10. CASE StopHolder(p) \/ GiveUp(p)
  BY <1>10, <1>4, <1>t DEF StopHolder, GiveUp
<1>11. CASE Launch(p)
  <2>1. PICK l \in {"create", "stopRead", "statusRead", "foreign"} : Goto(p, l)
    BY <1>11 DEF Launch
  <2> QED
    BY <1>11, <2>1, <1>4, <1>t DEF Launch
<1>12. CASE ForeignEnds(p) \/ ChildExits(p)
  BY <1>12, <1>4, <1>t DEF ForeignEnds, ChildExits
<1>13. CASE Interrupt(p) \/ AssertionEnds(p)
  BY <1>13 DEF Interrupt, AssertionEnds, LeftInv
<1> QED
  BY <1>1, <1>2, <1>3, <1>5, <1>6, <1>7, <1>8, <1>9, <1>10, <1>11, <1>12, <1>13
  DEF CommandStep, EnvironmentStep

\* No stop is at work while a start is, so none kills it.
LEMMA LeftKill ==
  ASSUME SlotInv, LeftInv, NEW p \in PID, StopKill(p), flag' = flag
  PROVE  LeftInv'
<1>t. HoldsTypeOK /\ StartsAlone
  BY DEF SlotInv
<1>1. pc[p] = "stopKill" /\ file' = file
  BY DEF StopKill
<1>2. \A q \in PID : pc[q] # "recreate"
  BY <1>1, <1>t DEF StartsAlone, Starting, Acquiring, Stopping
<1>3. \A q \in PID : pc'[q] \in {pc[q], "none", "poll"}
  BY <1>t DEF StopKill, Exit, Goto, Step, HoldsTypeOK
<1> QED
  BY <1>1, <1>2, <1>3 DEF LeftInv, Failing

LEMMA LeftKeeperStep ==
  ASSUME OnlyRestoresFail, SlotInv, LeftInv, NEW p \in PID, KeeperStep(p)
  PROVE  LeftInv'
<1> USE DEF Goto, Step, Moves, Failing
<1>t. HoldsTypeOK /\ SlotRecorded /\ pc[p] \notin Failing
  BY DEF SlotInv, LeftInv
<1>1. CASE QueryFlag(p)
  <2>1. flag' = flag /\ file' = file
    BY <1>1 DEF QueryFlag, FlagRead
  <2>2. PICK l : Moves(p, l) /\ l \notin Failing \cup {"relRemove"} /\ pc[p] # "recreate"
    BY <1>1, <1>t DEF QueryFlag, FlagRead, HoldsTypeOK
  <2> QED
    BY <2>1, <2>2, LeftKeep
<1>2. CASE Engage(p)
  <2>1. pc[p] = "engage" /\ Moves(p, "display") /\ file' = file
    BY <1>2, <1>t DEF Engage, EngageReturns, HoldsTypeOK, OnlyRestoresFail
  <2>2. file = Record(p, TRUE)
    BY <2>1, <1>t DEF SlotRecorded, Owners, Owning, Engaging
  <2>3. \A q \in PID : pc[q] # "relRemove"
    BY <2>1, <2>2, <1>t DEF SlotRecorded, Owners, Owning, Catching, Releasing, Record
  <2> QED
    BY <2>1, <2>2, <2>3 DEF LeftInv, Record, NoFile
<1>3. CASE DisengageReturns(p, TRUE) /\ flag' = FALSE
  <2>1. PICK l \in {"reclaimRemove", "relRemove", "stopRemove", "clearRemove"} : Moves(p, l)
    BY <1>3, <1>t DEF DisengageReturns, HoldsTypeOK
  <2> QED
    BY <1>3, <2>1 DEF LeftInv
<1>4. CASE DisengageReturns(p, FALSE) /\ flag' = flag
  <2>1. PICK l \in {"reclaimRemove", "none"} : Moves(p, l) /\ pc[p] # "recreate" /\ file' = file
    BY <1>4, <1>t DEF DisengageReturns, HoldsTypeOK
  <2> QED
    BY <1>4, <2>1, LeftKeep
<1> QED
  BY <1>1, <1>2, <1>3, <1>4 DEF KeeperStep, Disengage

LEMMA LeftStep ==
  ASSUME OnlyRestoresFail, SlotInv, FlagType, orphans = {}, AssuredIsDown, LeftInv, [Next]_vars
  PROVE  LeftInv'
<1>1. CASE UNCHANGED vars
  BY <1>1 DEF vars, holdVars, LeftInv
<1>2. ASSUME NEW p \in PID, Progress(p) PROVE LeftInv'
  BY <1>2, LeftCommandStep, LeftKill, LeftKeeperStep DEF Progress, Abandon
<1>3. ASSUME NEW p \in PID, GiveUp(p) \/ EnvironmentStep(p), flag' = flag PROVE LeftInv'
  BY <1>3, LeftCommandStep
<1>4. ~OrphanEnds /\ \A p \in PID : ~Crash(p)
  BY DEF OrphanEnds, Crash, OnlyRestoresFail
<1> QED
  BY <1>1, <1>2, <1>3, <1>4 DEF Next

\* A flag that could not be cleared is still on record once every command has
\* ended: only a reclaiming start drops the record before the flag is down,
\* and it writes its own next.
THEOREM LeftoverIsRecorded ==
  ASSUME CarefulUse, OnlyRestoresFail
  PROVE  Spec => []LeftoverRecorded
<1>1. TrueKeeper
  BY DEF TrueKeeper, OnlyRestoresFail
<1>2. DarwinInit => LeftInv /\ FlagType /\ orphans = {}
  BY DEF DarwinInit, Init, LeftInv, FlagType, Failing
<1>3. SlotInv /\ FlagType /\ orphans = {} /\ AssuredIsDown /\ LeftInv /\ [Next]_vars => LeftInv'
  BY LeftStep
<1>4. FlagType /\ orphans = {} /\ [Next]_vars => (FlagType /\ orphans = {})'
  BY <1>1, NoOrphans DEF TrueKeeper
<1>5. LeftInv => LeftoverRecorded
  BY DEF LeftInv, LeftoverRecorded
<1> QED
  BY <1>1, <1>2, <1>3, <1>4, <1>5, AssuredInvariant, PTL DEF Spec

-----------------------------------------------------------------------------
(* The flag and the pidfile.                                               *)

\* The lever works: pmset -g answers, pmset disablesleep 0 succeeds, and no
\* pmset outlives its parent.  Setting the flag may still fail, half done.
SureKeeper == Faults \cap {"query", "disengage", "orphan"} = {}

\* The labels reached only with the flag down.
Restored == {"reclaimRemove", "recreate", "write", "unwrite", "abortRemove",
             "relRemove", "stopRemove", "clearRemove", "tidyRemove", "stopped",
             "sayNormal"}
RestoredIsDown == \A p \in PID : pc[p] \in Restored => ~flag

FlagInv ==
  /\ FlagType /\ orphans = {}
  /\ FlagRecorded
  /\ HoldHolds
  /\ RestoredIsDown

\* A step that leaves the flag alone.
LEMMA FlagKeep ==
  ASSUME FlagInv, NEW p \in PID, NEW l, pc'[p] = l,
         \A q \in PID \ {p} : pc'[q] \in {pc[q], "none"},
         flag' = flag, orphans' = orphans,
         flag => file' = file \/ file' # NoFile,
         l \in Restored => ~flag,
         l \in Held => pc[p] \in Held
  PROVE  FlagInv'
<1> USE DEF FlagInv
<1>1. "none" \notin Restored \cup Held
  BY DEF Restored, Held, Waiting
<1>2. RestoredIsDown' /\ HoldHolds'
  BY <1>1 DEF RestoredIsDown, HoldHolds
<1>3. FlagRecorded'
  BY DEF FlagRecorded
<1> QED
  BY <1>2, <1>3 DEF FlagType

\* Whoever else is about to remove or create the file, it is not while p engages.
LEMMA EngagingAlone ==
  ASSUME SlotInv, NEW p \in PID, pc[p] = "engage", NEW q \in PID, q # p
  PROVE  pc[q] \notin Restored
<1> USE DEF Starting, Acquiring, Engaging, Catching, Waiting, Releasing, Stopping, Reporting,
            Owning, Owners, Unheld, Restored
<1>1. pc[q] \notin Unheld /\ pc[q] \notin Starting
  BY DEF SlotInv, UnheldIsTrue, StartsAlone
<1>2. pc[q] \notin Owning
  BY DEF SlotInv, SlotRecorded, Record
<1> QED
  BY <1>1, <1>2

\* Steps of the commands that call no keeper.
LEMMA FlagCommandStep ==
  ASSUME SlotInv, FlagInv, NEW p \in PID,
         CommandStep(p) \/ StopHolder(p) \/ GiveUp(p) \/ EnvironmentStep(p),
         flag' = flag, orphans' = orphans
  PROVE  FlagInv'
<1> USE DEF Restored, Held, Waiting
<1>t. HoldsTypeOK /\ SlotRecorded /\ WriterOwnsFile
  BY DEF SlotInv
<1>f. FlagRecorded /\ RestoredIsDown
  BY DEF FlagInv
<1>1. CASE Create(p)
  <2>1. PICK l \in {"write", "inspect", "none"} : Moves(p, l)
    BY <1>1, <1>t DEF Create, Goto, Exit, Step, Awaken, Moves, HoldsTypeOK
  <2>2. file' = file \/ file' # NoFile
    BY <1>1, PIDAssumption DEF Create, Record, NoFile
  <2>3. l = "write" => file = NoFile
    BY <1>1, <2>1, <1>t DEF Create, Goto, Exit, Step, Moves, HoldsTypeOK
  <2> QED
    BY <2>1, <2>2, <2>3, <1>f, FlagKeep DEF FlagRecorded, Moves
<1>2. CASE Write(p)
  <2>1. PICK l \in {"engage", "unwrite", "none"} : Moves(p, l)
    BY <1>2, <1>t DEF Write, Goto, Exit, Step, Awaken, Moves, HoldsTypeOK
  <2> QED
    BY <1>2, <2>1, <1>t, <1>f, FlagKeep, PIDAssumption DEF Write, WriteRecord, Record, NoFile, WriterOwnsFile, RestoredIsDown, Moves
<1>3. CASE Inspect(p)
  <2>1. PICK l \in {"alive", "reclaimFlag", "none"} : Moves(p, l)
    BY <1>3, <1>t DEF Inspect, Goto, Exit, Step, Awaken, Moves, HoldsTypeOK
  <2> QED
    BY <1>3, <2>1, <1>t, <1>f, FlagKeep, PIDAssumption DEF Inspect, Awaken, Moves
<1>4. CASE CheckHolder(p)
  <2>1. PICK l \in {"none", "reclaimFlag"} : Moves(p, l)
    BY <1>4, <1>t DEF CheckHolder, Goto, Exit, Step, Awaken, Moves, HoldsTypeOK
  <2> QED
    BY <1>4, <2>1, <1>t, <1>f, FlagKeep, PIDAssumption DEF CheckHolder, Awaken, Moves
<1>5. CASE RemovePidfile(p)
  <2>1. PICK l \in {"recreate", "none", "stopped"} : Moves(p, l)
    BY <1>5, <1>t DEF RemovePidfile, Goto, Exit, Step, Awaken, Moves, HoldsTypeOK
  <2> QED
    BY <1>5, <2>1, <1>t, <1>f, FlagKeep, PIDAssumption DEF RemovePidfile, RestoredIsDown, Moves
<1>6. CASE StartDisplay(p)
  <2>1. PICK l \in {"listen"} : Moves(p, l)
    BY <1>6, <1>t DEF StartDisplay, Goto, Exit, Step, Awaken, Moves, HoldsTypeOK
  <2> QED
    BY <1>6, <2>1, <1>t, <1>f, FlagKeep, PIDAssumption DEF StartDisplay, Awaken, Moves
<1>7. CASE Listen(p)
  <2>1. PICK l \in {"wait", "timed", "spawn"} : Moves(p, l)
    BY <1>7, <1>t DEF Listen, Goto, Exit, Step, Awaken, Moves, HoldsTypeOK
  <2> QED
    BY <1>7, <2>1, <1>t, <1>f, FlagKeep, PIDAssumption DEF Listen, Awaken, Moves
<1>8. CASE Spawn(p)
  <2>1. PICK l \in {"running", "undisplay"} : Moves(p, l)
    BY <1>8, <1>t DEF Spawn, Goto, Exit, Step, Awaken, Moves, HoldsTypeOK
  <2> QED
    BY <1>8, <2>1, <1>t, <1>f, FlagKeep, PIDAssumption DEF Spawn, Awaken, Moves
<1>9. CASE TakeSignal(p)
  <2>1. PICK l \in {"undisplay", "grace"} : Moves(p, l)
    BY <1>9, <1>t DEF TakeSignal, Goto, Exit, Step, Awaken, Moves, HoldsTypeOK
  <2> QED
    BY <1>9, <2>1, <1>t, <1>f, FlagKeep, PIDAssumption DEF TakeSignal, Awaken, Moves
<1>10. CASE Deadline(p)
  <2>1. PICK l \in {"undisplay"} : Moves(p, l)
    BY <1>10, <1>t DEF Deadline, Goto, Exit, Step, Awaken, Moves, HoldsTypeOK
  <2> QED
    BY <1>10, <2>1, <1>t, <1>f, FlagKeep, PIDAssumption DEF Deadline, Awaken, Moves
<1>11. CASE GraceEnds(p)
  <2>1. PICK l \in {"killed"} : Moves(p, l)
    BY <1>11, <1>t DEF GraceEnds, Goto, Exit, Step, Awaken, Moves, HoldsTypeOK
  <2> QED
    BY <1>11, <2>1, <1>t, <1>f, FlagKeep, PIDAssumption DEF GraceEnds, Awaken, Moves
<1>12. CASE Reap(p)
  <2>1. PICK l \in {"undisplay"} : Moves(p, l)
    BY <1>12, <1>t DEF Reap, Goto, Exit, Step, Awaken, Moves, HoldsTypeOK
  <2> QED
    BY <1>12, <2>1, <1>t, <1>f, FlagKeep, PIDAssumption DEF Reap, Awaken, Moves
<1>13. CASE StopDisplay(p)
  <2>1. PICK l \in {"own"} : Moves(p, l)
    BY <1>13, <1>t DEF StopDisplay, Goto, Exit, Step, Awaken, Moves, HoldsTypeOK
  <2> QED
    BY <1>13, <2>1, <1>t, <1>f, FlagKeep, PIDAssumption DEF StopDisplay, Awaken, Moves
<1>14. CASE OwnershipGuard(p)
  <2>1. PICK l \in {"relDisengage", "none"} : Moves(p, l)
    BY <1>14, <1>t DEF OwnershipGuard, Goto, Exit, Step, Awaken, Moves, HoldsTypeOK
  <2> QED
    BY <1>14, <2>1, <1>t, <1>f, FlagKeep, PIDAssumption DEF OwnershipGuard, Awaken, Moves
<1>15. CASE StopRead(p)
  <2>1. PICK l \in {"stopAlive", "clearFlag", "none"} : Moves(p, l)
    BY <1>15, <1>t DEF StopRead, Goto, Exit, Step, Awaken, Moves, HoldsTypeOK
  <2> QED
    BY <1>15, <2>1, <1>t, <1>f, FlagKeep, PIDAssumption DEF StopRead, Awaken, Moves
<1>16. CASE StopAlive(p)
  <2>1. PICK l \in {"stopHolder", "clearFlag"} : Moves(p, l)
    BY <1>16, <1>t DEF StopAlive, Goto, Exit, Step, Awaken, Moves, HoldsTypeOK
  <2> QED
    BY <1>16, <2>1, <1>t, <1>f, FlagKeep, PIDAssumption DEF StopAlive, Awaken, Moves
<1>17. CASE PollFile(p)
  <2>1. PICK l \in {"pollAlive", "stopFlag"} : Moves(p, l)
    BY <1>17, <1>t DEF PollFile, Goto, Exit, Step, Awaken, Moves, HoldsTypeOK
  <2> QED
    BY <1>17, <2>1, <1>t, <1>f, FlagKeep, PIDAssumption DEF PollFile, Awaken, Moves
<1>18. CASE PollAlive(p)
  <2>1. PICK l \in {"poll", "stopFlag"} : Moves(p, l)
    BY <1>18, <1>t DEF PollAlive, Goto, Exit, Step, Awaken, Moves, HoldsTypeOK
  <2> QED
    BY <1>18, <2>1, <1>t, <1>f, FlagKeep, PIDAssumption DEF PollAlive, Awaken, Moves
<1>19. CASE StatusRead(p)
  <2>1. PICK l \in {"statusAlive", "statusFlag", "none"} : Moves(p, l)
    BY <1>19, <1>t DEF StatusRead, Goto, Exit, Step, Awaken, Moves, HoldsTypeOK
  <2> QED
    BY <1>19, <2>1, <1>t, <1>f, FlagKeep, PIDAssumption DEF StatusRead, Awaken, Moves
<1>20. CASE StatusAlive(p)
  <2>1. PICK l \in {"sayActive", "statusFlag"} : Moves(p, l)
    BY <1>20, <1>t DEF StatusAlive, Goto, Exit, Step, Awaken, Moves, HoldsTypeOK
  <2> QED
    BY <1>20, <2>1, <1>t, <1>f, FlagKeep, PIDAssumption DEF StatusAlive, Awaken, Moves
<1>21. CASE Leave(p)
  <2>1. PICK l \in {"none"} : Moves(p, l)
    BY <1>21, <1>t DEF Leave, Goto, Exit, Step, Awaken, Moves, HoldsTypeOK
  <2> QED
    BY <1>21, <2>1, <1>t, <1>f, FlagKeep, PIDAssumption DEF Leave, Awaken, Moves
<1>22. CASE StopHolder(p)
  <2>1. PICK l \in {"stopKill", "clearFlag"} : Moves(p, l)
    BY <1>22, <1>t DEF StopHolder, Goto, Exit, Step, Awaken, Moves, HoldsTypeOK
  <2> QED
    BY <1>22, <2>1, <1>t, <1>f, FlagKeep, PIDAssumption DEF StopHolder, Awaken, Moves
<1>23. CASE GiveUp(p)
  <2>1. PICK l \in {"stopFlag"} : Moves(p, l)
    BY <1>23, <1>t DEF GiveUp, Goto, Exit, Step, Awaken, Moves, HoldsTypeOK
  <2> QED
    BY <1>23, <2>1, <1>t, <1>f, FlagKeep, PIDAssumption DEF GiveUp, Awaken, Moves
<1>24. CASE ForeignEnds(p)
  <2>1. PICK l \in {"none"} : Moves(p, l)
    BY <1>24, <1>t DEF ForeignEnds, Goto, Exit, Step, Awaken, Moves, HoldsTypeOK
  <2> QED
    BY <1>24, <2>1, <1>t, <1>f, FlagKeep, PIDAssumption DEF ForeignEnds, Awaken, Moves
<1>25. CASE ChildExits(p)
  <2>1. PICK l \in {"undisplay"} : Moves(p, l)
    BY <1>25, <1>t DEF ChildExits, Goto, Exit, Step, Awaken, Moves, HoldsTypeOK
  <2> QED
    BY <1>25, <2>1, <1>t, <1>f, FlagKeep, PIDAssumption DEF ChildExits, Awaken, Moves
<1>26. CASE Launch(p)
  <2>1. PICK l \in {"create", "stopRead", "statusRead", "foreign"} : Moves(p, l) /\ file' = file
    BY <1>26, <1>t DEF Launch, Goto, Step, Moves, HoldsTypeOK
  <2> QED
    BY <2>1, FlagKeep DEF Moves
<1>27. CASE Interrupt(p) \/ AssertionEnds(p)
  BY <1>27 DEF Interrupt, AssertionEnds, FlagInv, FlagType, FlagRecorded, HoldHolds, RestoredIsDown
<1> QED
  BY <1>1, <1>2, <1>3, <1>4, <1>5, <1>6, <1>7, <1>8, <1>9, <1>10, <1>11, <1>12, <1>13, <1>14, <1>15, <1>16, <1>17, <1>18, <1>19, <1>20, <1>21, <1>22, <1>23, <1>24, <1>25, <1>26, <1>27 DEF CommandStep, EnvironmentStep

\* Steps of the keeper.
LEMMA FlagKeeperStep ==
  ASSUME SureKeeper, SlotInv, FlagInv, NEW p \in PID, KeeperStep(p)
  PROVE  FlagInv'
<1> USE DEF Starting, Acquiring, Engaging, Catching, Waiting, Releasing, Stopping, Reporting,
            Owning, Owners, Unheld, Restored, Held
<1>t. HoldsTypeOK /\ SlotRecorded /\ UnheldIsTrue
  BY DEF SlotInv
<1>f. FlagType /\ orphans = {} /\ FlagRecorded /\ HoldHolds /\ RestoredIsDown
  BY DEF FlagInv
<1>1. CASE QueryFlag(p)
  <2>1. FlagRead(p, flag) /\ UNCHANGED <<flag, orphans>>
    BY <1>1 DEF QueryFlag, SureKeeper
  <2>2. PICK l \in {"reclaimDisengage", "reclaimRemove", "stopDisengage", "stopped",
                    "clearDisengage", "tidyRemove", "sayStranded", "sayNormal"} :
          Moves(p, l) /\ (l \in Restored => ~flag)
    BY <2>1, <1>t, <1>f DEF FlagRead, Goto, Step, Moves, HoldsTypeOK, FlagType
  <2>3. file' = file
    BY <2>1 DEF FlagRead
  <2> QED
    BY <2>1, <2>2, <2>3, FlagKeep DEF Moves
<1>2. CASE Engage(p)
  <2>1. /\ pc[p] = "engage" /\ file' = file /\ orphans' = orphans
        /\ flag' \in {flag, TRUE}
    BY <1>2 DEF Engage, EngageReturns
  <2>2. /\ pc'[p] \in {"display", "abortDisengage"}
        /\ pc'[p] = "display" => flag' = TRUE
        /\ \A q \in PID \ {p} : pc'[q] = pc[q]
    BY <1>2, <1>t DEF Engage, EngageReturns, Goto, Step, HoldsTypeOK
  <2>3. file # NoFile
    BY <2>1, <1>t, PIDAssumption DEF SlotRecorded, Record, NoFile
  <2>4. FlagRecorded' /\ FlagType'
    BY <2>1, <2>3, <1>f DEF FlagRecorded, FlagType, NoFile
  <2>5. HoldHolds'
    <3>1. CASE flag' = TRUE
      BY <3>1 DEF HoldHolds
    <3>2. CASE flag' = flag /\ pc'[p] = "abortDisengage"
      BY <2>2, <3>2, <1>f DEF HoldHolds
    <3> QED
      BY <2>1, <2>2, <3>1, <3>2
  <2>6. RestoredIsDown'
    BY <2>1, <2>2, EngagingAlone DEF RestoredIsDown
  <2> QED
    BY <2>1, <2>4, <2>5, <2>6, <1>f DEF FlagInv
<1>3. CASE Disengage(p)
  <2>1. /\ pc[p] \in Disengaging /\ file' = file /\ orphans' = orphans /\ flag' = FALSE
        /\ pc'[p] \notin Held
        /\ \A q \in PID \ {p} : pc'[q] = pc[q]
    BY <1>3, <1>t DEF Disengage, DisengageReturns, Disengaging, Goto, Step, SureKeeper, HoldsTypeOK
  <2>2. \A q \in PID \ {p} : pc[q] \notin Held
    BY <2>1, <1>t DEF UnheldIsTrue, SlotRecorded, Record, Disengaging
  <2>3. HoldHolds'
    BY <2>1, <2>2 DEF HoldHolds
  <2> QED
    BY <2>1, <2>3, <1>f DEF FlagInv, FlagType, FlagRecorded, RestoredIsDown
<1> QED
  BY <1>1, <1>2, <1>3 DEF KeeperStep

LEMMA FlagStep ==
  ASSUME SureKeeper, SlotInv, FlagInv, [Next]_vars
  PROVE  FlagInv'
<1>t. HoldsTypeOK /\ ReliesOnPid
  BY DEF SlotInv
<1>f. orphans = {} /\ FlagType
  BY DEF FlagInv
<1>1. CASE UNCHANGED vars
  BY <1>1 DEF vars, holdVars, FlagInv, FlagType, FlagRecorded, HoldHolds, RestoredIsDown
<1>2. ASSUME NEW p \in PID, StopKill(p) /\ Abandon(seen[p]) PROVE FlagInv'
  <2>1. flag' = flag /\ orphans' = orphans
    BY <1>2, <1>f, AbandonType DEF SureKeeper
  <2>2. PICK l \in {"none", "poll"} : /\ pc'[p] = l /\ file' = file
                                      /\ \A q \in PID \ {p} : pc'[q] \in {pc[q], "none"}
    BY <1>2, <1>t DEF StopKill, Goto, Exit, Step, HoldsTypeOK
  <2>3. l \notin Restored \cup Held
    BY DEF Restored, Held, Waiting
  <2> QED
    BY <2>1, <2>2, <2>3, FlagKeep
<1>3. ASSUME NEW p \in PID, Crash(p) /\ Abandon(p) PROVE FlagInv'
  <2>1. flag' = flag /\ orphans' = orphans
    BY <1>3, <1>f, AbandonType DEF SureKeeper
  <2>2. pc'[p] = "none" /\ file' = file /\ \A q \in PID \ {p} : pc'[q] = pc[q]
    BY <1>3, <1>t DEF Crash, HoldsTypeOK
  <2>3. "none" \notin Restored \cup Held
    BY DEF Restored, Held, Waiting
  <2> QED
    BY <2>1, <2>2, <2>3, FlagKeep
<1>4. ASSUME NEW p \in PID, Progress(p) PROVE FlagInv'
  BY <1>2, <1>4, FlagCommandStep, FlagKeeperStep DEF Progress
<1>5. ~OrphanEnds
  BY <1>f DEF OrphanEnds
<1> QED
  BY <1>1, <1>3, <1>4, <1>5, FlagCommandStep DEF Next

LEMMA FlagInvariant ==
  ASSUME CarefulUse, SureKeeper
  PROVE  Spec => [](SlotInv /\ FlagInv)
<1>1. DarwinInit => FlagInv
  BY DEF DarwinInit, Init, FlagInv, FlagType, FlagRecorded, HoldHolds, RestoredIsDown,
         Restored, Held, Waiting
<1>2. SlotInv /\ FlagInv /\ [Next]_vars => FlagInv'
  BY FlagStep
<1> QED
  BY <1>1, <1>2, DarwinImplementsUnix, SlotInvariant, PTL DEF Spec

\* While the flag is up the pidfile is there, so a later stop or status finds
\* the hold that set it, through any crash of any process.
THEOREM FlagIsRecorded == ASSUME CarefulUse, SureKeeper PROVE Spec => []FlagRecorded
<1>1. FlagInv => FlagRecorded
  BY DEF FlagInv
<1> QED
  BY <1>1, FlagInvariant, PTL

\* From the return of engage to its own release a hold keeps the Mac awake.
THEOREM HoldsHold == ASSUME CarefulUse, SureKeeper PROVE Spec => []HoldHolds
<1>1. FlagInv => HoldHolds
  BY DEF FlagInv
<1> QED
  BY <1>1, FlagInvariant, PTL

-----------------------------------------------------------------------------
(* Refinement of SingleHold.                                               *)

\* What SingleHold sees of the processes.
Phase == [p \in PID |-> PhaseOf(pc[p])]

Taking  == {"engage", "abortDisengage", "abortRemove"}
Leaving == {"relDisengage", "relRemove"}

LEMMA PhaseFacts ==
  ASSUME NEW l
  PROVE  /\ l \in Held => PhaseOf(l) = "holding"
         /\ l \in Taking => PhaseOf(l) = "taking"
         /\ l \in Leaving => PhaseOf(l) = "leaving"
         /\ l \notin Owning => PhaseOf(l) = "out"
         /\ l \in Owning <=> l \in Taking \cup Held \cup Leaving
BY DEF PhaseOf, Taking, Leaving, Held, Owning, Engaging, Catching, Waiting, Releasing

\* q, and q only, changes what it is to the hold; it comes in only when the
\* hold is free.
Changes(q) ==
  /\ Phase' = [Phase EXCEPT ![q] = PhaseOf(pc'[q])]
  /\ pc[q] \in Owning \/ Owners = {}

\* At most one process is anything to the hold, so at most one changes.
LEMMA OneChanges ==
  ASSUME SlotInv, SlotInv', [UnixNext]_holdVars
  PROVE  Phase' = Phase \/ \E q \in PID : Changes(q)
<1>1. \A p, q \in Owners : p = q
  BY DEF SlotInv, SlotRecorded, Record
<1>2. \A p, q \in Owners' : p = q
  BY DEF SlotInv, SlotRecorded, Record
<1>3. Owners' \subseteq Owners \/ Owners = {}
  <2> SUFFICES ASSUME NEW q \in Owners', q \notin Owners PROVE Owners = {}
    OBVIOUS
  <2>1. pc[q] = "write" /\ q \in PID
    BY OwnersGrow DEF SlotInv, TypeInv, Owners
  <2>2. file = Record(q, FALSE)
    BY <2>1 DEF SlotInv, WriterOwnsFile
  <2> QED
    BY <2>2 DEF SlotInv, SlotRecorded, Record
<1>4. ASSUME NEW q \in PID, Owners \subseteq {q}, Owners' \subseteq {q}
      PROVE  Phase' = [Phase EXCEPT ![q] = PhaseOf(pc'[q])]
  <2>1. \A r \in PID \ {q} : pc[r] \notin Owning /\ pc'[r] \notin Owning
    BY <1>4 DEF Owners
  <2>2. \A r \in PID \ {q} : PhaseOf(pc'[r]) = PhaseOf(pc[r])
    BY <2>1, PhaseFacts
  <2> QED
    BY <2>2 DEF Phase
<1>5. CASE Owners # {}
  <2>1. PICK q \in Owners : TRUE
    BY <1>5
  <2>2. q \in PID /\ pc[q] \in Owning /\ Owners \subseteq {q} /\ Owners' \subseteq {q}
    BY <1>1, <1>3, <1>5, <2>1 DEF Owners
  <2> QED
    BY <1>4, <2>2 DEF Changes
<1>6. CASE Owners = {} /\ Owners' # {}
  <2>1. PICK q \in Owners' : TRUE
    BY <1>6
  <2>2. q \in PID /\ Owners' \subseteq {q}
    BY <1>2, <2>1 DEF Owners
  <2> QED
    BY <1>4, <1>6, <2>2 DEF Changes
<1>7. CASE Owners = {} /\ Owners' = {}
  <2>1. \A r \in PID : pc[r] \notin Owning /\ pc'[r] \notin Owning
    BY <1>7 DEF Owners
  <2> QED
    BY <2>1, PhaseFacts DEF Phase
<1> QED
  BY <1>5, <1>6, <1>7

\* A process that has engaged has the flag up at that moment.
LEMMA EngagedIsUp ==
  ASSUME HoldsTypeOK, [Next]_vars, NEW q \in PID, pc[q] = "engage", pc'[q] \in Held
  PROVE  flag' = TRUE
<1> USE DEF HoldsTypeOK, Waiting, Held, Goto, Exit, Step, Awaken
<1>1. ASSUME NEW p \in PID, CommandStep(p) \/ GiveUp(p) PROVE FALSE
  <2>1. CASE Create(p) \/ Write(p) \/ Inspect(p)
    BY <2>1 DEF Create, Write, Inspect
  <2>2. CASE CheckHolder(p) \/ RemovePidfile(p) \/ StartDisplay(p)
    BY <2>2 DEF CheckHolder, RemovePidfile, StartDisplay
  <2>3. CASE Listen(p) \/ Spawn(p) \/ TakeSignal(p)
    BY <2>3 DEF Listen, Spawn, TakeSignal
  <2>4. CASE Deadline(p) \/ GraceEnds(p) \/ Reap(p) \/ StopDisplay(p)
    BY <2>4 DEF Deadline, GraceEnds, Reap, StopDisplay
  <2>5. CASE OwnershipGuard(p) \/ StopRead(p) \/ StopAlive(p)
    BY <2>5 DEF OwnershipGuard, StopRead, StopAlive
  <2>6. CASE PollFile(p) \/ PollAlive(p) \/ GiveUp(p)
    BY <2>6 DEF PollFile, PollAlive, GiveUp
  <2>7. CASE StatusRead(p) \/ StatusAlive(p) \/ Leave(p)
    BY <2>7 DEF StatusRead, StatusAlive, Leave
  <2> QED
    BY <1>1, <2>1, <2>2, <2>3, <2>4, <2>5, <2>6, <2>7 DEF CommandStep
<1>2. ASSUME NEW p \in PID, StopHolder(p) \/ StopKill(p) PROVE FALSE
  BY <1>2 DEF StopHolder, StopKill
<1>3. ASSUME NEW p \in PID, EnvironmentStep(p) \/ Crash(p) PROVE FALSE
  BY <1>3 DEF EnvironmentStep, Launch, ForeignEnds, ChildExits, Interrupt, AssertionEnds, Crash
<1>4. ASSUME NEW p \in PID, KeeperStep(p) PROVE flag' = TRUE
  BY <1>4 DEF KeeperStep, QueryFlag, FlagRead, Engage, EngageReturns, Disengage, DisengageReturns
<1>5. ~(OrphanEnds \/ UNCHANGED vars)
  BY DEF OrphanEnds, vars, holdVars
<1> QED
  BY <1>1, <1>2, <1>3, <1>4, <1>5 DEF Next, Progress

\* A step that leaves the flag alone.
LEMMA OwnerStep ==
  ASSUME SlotInv, SlotInv', [UnixNext]_holdVars, [Next]_vars, flag' = flag
  PROVE  [Single!Next]_<<Phase, flag>>
<1>t. HoldsTypeOK /\ TypeInv
  BY DEF SlotInv, TypeInv
<1>1. CASE Phase' = Phase
  BY <1>1
<1>2. ASSUME NEW q \in PID, Changes(q)
      PROVE  [Single!Next]_<<Phase, flag>>
  <2> USE <1>2 DEF Changes
  <2>1. Hands(pc[q], pc'[q])
    BY <1>t, OwnersMove
  <2>2. Phase[q] = PhaseOf(pc[q])
    BY DEF Phase
  <2>3. CASE PhaseOf(pc'[q]) = PhaseOf(pc[q])
    BY <1>2, <2>2, <2>3 DEF Phase
  <2>4. CASE pc'[q] \notin Owning /\ pc[q] \in Owning
    <3>1. PhaseOf(pc'[q]) = "out" /\ PhaseOf(pc[q]) # "out"
      BY <2>4, PhaseFacts
    <3>2. Single!Quit(q)
      BY <1>2, <2>2, <3>1 DEF Single!Quit, Single!Turns, Phase
    <3> QED
      BY <3>2 DEF Single!Next
  <2>5. CASE pc'[q] = "engage" /\ pc[q] = "write"
    <3>1. Owners = {}
      BY <1>2, <2>5 DEF Owning, Engaging, Catching, Waiting, Releasing
    <3>2. Single!Vacant
      BY <3>1, PhaseFacts DEF Single!Vacant, Owners
    <3>3. PhaseOf(pc'[q]) = "taking"
      BY <2>5, PhaseFacts DEF Taking
    <3>4. Single!Take(q)
      BY <1>2, <3>2, <3>3 DEF Single!Take, Single!Turns, Phase
    <3> QED
      BY <3>4 DEF Single!Next
  <2>6. CASE pc'[q] \in Held /\ pc[q] = "engage"
    <3>1. PhaseOf(pc'[q]) = "holding" /\ PhaseOf(pc[q]) = "taking"
      BY <2>6, PhaseFacts DEF Taking
    <3>2. flag' = TRUE
      BY <1>t, <2>6, EngagedIsUp
    <3>3. Single!Hold(q)
      BY <1>2, <2>2, <3>1, <3>2 DEF Single!Hold, Single!Turns, Phase
    <3> QED
      BY <3>3 DEF Single!Next
  <2>7. CASE pc'[q] \in Leaving /\ pc[q] = "own"
    <3>1. PhaseOf(pc'[q]) = "leaving" /\ PhaseOf(pc[q]) = "holding"
      BY <2>7, PhaseFacts DEF Held
    <3>2. Single!Leave(q)
      BY <1>2, <2>2, <3>1 DEF Single!Leave, Single!Turns, Phase
    <3> QED
      BY <3>2 DEF Single!Next
  <2>8. \/ pc[q] \notin Owning /\ pc'[q] \notin Owning
        \/ pc'[q] \notin Owning /\ pc[q] \in Owning
        \/ pc'[q] = "engage" /\ pc[q] = "write"
        \/ pc'[q] \in Taking /\ pc[q] \in Taking
        \/ pc'[q] \in Held /\ pc[q] \in Held
        \/ pc'[q] \in Held /\ pc[q] = "engage"
        \/ pc'[q] \in Leaving /\ pc[q] \in Leaving
        \/ pc'[q] \in Leaving /\ pc[q] = "own"
    BY <2>1, PhaseFacts DEF Hands, Taking, Leaving
  <2> QED
    BY <2>3, <2>4, <2>5, <2>6, <2>7, <2>8, PhaseFacts
<1> QED
  BY <1>1, <1>2, OneChanges

\* A step of the keeper that changes the flag: the process that takes or leaves
\* the hold does it, or there is none.
LEMMA LeverStep ==
  ASSUME SlotInv, NEW p \in PID, KeeperStep(p), flag' # flag
  PROVE  Single!Next
<1>t. HoldsTypeOK /\ UnheldIsTrue
  BY DEF SlotInv
<1>p. Phase[p] = PhaseOf(pc[p])
  BY DEF Phase
<1>1. CASE Engage(p)
  <2>1. pc[p] = "engage" /\ flag' = TRUE
    BY <1>1 DEF Engage, EngageReturns
  <2>2. PICK l \in {"display", "abortDisengage"} : pc' = [pc EXCEPT ![p] = l]
    BY <1>1 DEF Engage, EngageReturns, Goto, Step
  <2>3. Phase' = [Phase EXCEPT ![p] = PhaseOf(l)] /\ PhaseOf(pc[p]) = "taking"
    BY <2>1, <2>2, <1>t, PhaseFacts DEF Phase, HoldsTypeOK, Taking
  <2>4. CASE l = "display"
    <3>1. PhaseOf(l) = "holding"
      BY <2>4, PhaseFacts DEF Held
    <3> QED
      BY <2>1, <2>3, <3>1, <1>p DEF Single!Next, Single!Hold, Single!Turns, Phase
  <2>5. CASE l = "abortDisengage"
    <3>1. PhaseOf(l) = "taking"
      BY <2>5, PhaseFacts DEF Taking
    <3>2. Phase' = Phase
      BY <2>3, <3>1, <1>p DEF Phase
    <3> QED
      BY <2>1, <2>3, <3>2, <1>p DEF Single!Next, Single!Fumble, Phase
  <2> QED
    BY <2>4, <2>5
<1>2. CASE Disengage(p)
  <2>1. flag' = FALSE /\ DisengageReturns(p, TRUE)
    BY <1>2 DEF Disengage
  <2>2. PICK l \in {"reclaimRemove", "abortRemove", "relRemove", "stopRemove", "clearRemove"} :
          pc' = [pc EXCEPT ![p] = l]
    BY <2>1 DEF DisengageReturns, Goto, Step
  <2>3. /\ l = "abortRemove" => pc[p] = "abortDisengage"
        /\ l = "relRemove" => pc[p] = "relDisengage"
        /\ l \notin {"abortRemove", "relRemove"} =>
             pc[p] \in {"reclaimDisengage", "stopDisengage", "clearDisengage"}
    BY <2>1, <2>2, <1>t DEF DisengageReturns, Goto, Step, HoldsTypeOK
  <2>4. PhaseOf(l) = PhaseOf(pc[p])
    BY <2>3, PhaseFacts
    DEF Taking, Leaving, Owning, Engaging, Catching, Waiting, Releasing
  <2>5. Phase' = Phase
    BY <2>2, <2>4, <1>t DEF Phase, HoldsTypeOK
  <2>6. CASE l = "abortRemove"
    <3>1. Phase[p] = "taking"
      BY <2>3, <2>6, <1>p, PhaseFacts DEF Taking
    <3> QED
      BY <2>1, <2>5, <3>1 DEF Single!Next, Single!Fumble, Phase
  <2>7. CASE l = "relRemove"
    <3>1. Phase[p] = "leaving"
      BY <2>3, <2>7, <1>p, PhaseFacts DEF Leaving
    <3> QED
      BY <2>1, <2>5, <3>1 DEF Single!Next, Single!Restore, Phase
  <2>8. CASE l \notin {"abortRemove", "relRemove"}
    <3>1. \A q \in PID : pc[q] \notin Owning
      BY <2>3, <2>8, <1>t DEF UnheldIsTrue, Unheld
    <3>2. Single!Vacant
      BY <3>1, PhaseFacts DEF Single!Vacant
    <3> QED
      BY <2>1, <2>5, <3>2 DEF Single!Next, Single!Clear, Phase
  <2> QED
    BY <2>6, <2>7, <2>8
<1> QED
  BY <1>1, <1>2 DEF KeeperStep, QueryFlag

\* The commands implement the abstract hold, whatever else goes wrong: from the
\* return of engage until the holder itself begins to let go, or dies, no other
\* command makes the Mac sleepable.
THEOREM ImplementsSingleHold ==
  ASSUME CarefulUse, "orphan" \notin Faults
  PROVE  Spec => SingleHoldSpec
<1>1. DarwinInit => Single!Init /\ orphans = {} /\ FlagType
  <2> SUFFICES ASSUME DarwinInit PROVE Single!Init /\ orphans = {} /\ FlagType
    OBVIOUS
  <2>1. \A p \in PID : PhaseOf(pc[p]) = "out"
    <3>1. "none" \notin Owning
      BY DEF Owning, Engaging, Catching, Waiting, Releasing
    <3> QED
      BY <3>1, PhaseFacts DEF DarwinInit, Init
  <2> QED
    BY <2>1 DEF DarwinInit, Single!Init, FlagType
<1>2. FlagType /\ orphans = {} /\ [Next]_vars => (FlagType /\ orphans = {})'
  BY NoOrphans
<1>3. FlagType /\ orphans = {} /\ SlotInv /\ SlotInv' /\ [Next]_vars
        => [Single!Next]_<<Phase, flag>>
  <2> SUFFICES ASSUME FlagType, orphans = {}, SlotInv, SlotInv', [Next]_vars
               PROVE  [Single!Next]_<<Phase, flag>>
    OBVIOUS
  <2>1. CASE flag' = flag
    BY <2>1, UnixStep, OwnerStep
  <2>2. CASE flag' # flag
    <3>1. ASSUME NEW t, Abandon(t) PROVE FALSE
      BY <3>1, <2>2, AbandonType
    <3>2. PICK p \in PID : KeeperStep(p)
      BY <2>2, <3>1 DEF Next, Progress, OrphanEnds, vars
    <3> QED
      BY <2>2, <3>2, LeverStep
  <2> QED
    BY <2>1, <2>2
<1> QED
  BY <1>1, <1>2, <1>3, DarwinImplementsUnix, SlotInvariant, PTL
  DEF Spec, SingleHoldSpec, Single!Spec, Phase
=============================================================================
