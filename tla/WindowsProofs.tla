---------------------------- MODULE WindowsProofs ----------------------------
(***************************************************************************)
(* Proofs about lidspeculum on Windows.  All but stopHolder is a step of   *)
(* the commands over some keeper, so for a user who runs stop only on what *)
(* a dead hold left behind the slot is exclusive, as it is on Unix.        *)
(***************************************************************************)
EXTENDS Windows, UnixProofs

-----------------------------------------------------------------------------
(* Windows as a system of commands.                                        *)

\* stopHolder on Windows, where it changes the state of the commands.
StopEnds(p) ==
  \/ /\ pc[p] = "stopHolder" /\ UNCHANGED file
     /\ Step(p, "stopDrop", seen[p]) \/ Exit(p)
  \/ StopDrop(p)

LEMMA ReturnsStep ==
  ASSUME NEW p \in PID, NEW ok \in BOOLEAN, Returns(p, ok)
  PROVE  AnyKeeper(p) \/ StopEnds(p)
BY DEF Returns, AnyKeeper, StopEnds

LEMMA PowercfgIsKeeper ==
  ASSUME NEW p \in PID, PowercfgStep(p)
  PROVE  UNCHANGED holdVars \/ AnyKeeper(p) \/ StopEnds(p)
<1>1. Fails(p) => Returns(p, FALSE)
  BY DEF Fails
<1>2. UNCHANGED holdVars \/ Returns(p, FALSE) \/ Returns(p, TRUE)
  BY <1>1 DEF PowercfgStep, QueryLid, SavePrev, LoadPrev, SetAC, SetDC, DropPrev, Activate, Goes
<1> QED
  BY <1>2, ReturnsStep

\* What a step does to the commands.
Moved(p) ==
  \/ CommandStep(p) \/ AnyKeeper(p) \/ GiveUp(p) \/ Crash(p) \/ StopEnds(p)
  \/ EnvironmentStep(p) /\ Spared(p)

LEMMA CommandsMove ==
  ASSUME [Next]_vars
  PROVE  UNCHANGED holdVars \/ \E p \in PID : Moved(p)
<1>1. CASE UNCHANGED vars
  BY <1>1 DEF vars
<1>2. ASSUME NEW p \in PID, QueryFlag(p) PROVE AnyKeeper(p)
  BY <1>2 DEF QueryFlag, AnyKeeper
<1>3. ASSUME NEW p \in PID, StopDrop(p) PROVE StopEnds(p)
  BY <1>3 DEF StopEnds
<1>4. ASSUME NEW p \in PID, Kill(p) PROVE Crash(p)
  BY <1>4 DEF Kill
<1> QED
  BY <1>1, <1>2, <1>3, <1>4, PowercfgIsKeeper DEF Next, Moved

LEMMA WindowsStep ==
  ASSUME [Next]_vars
  PROVE  \/ [UnixNext]_holdVars
         \/ \E p \in PID : StopEnds(p)
BY CommandsMove DEF Moved, UnixNext

-----------------------------------------------------------------------------
(* Type correctness.                                                       *)

LEMMA StopEndsType ==
  ASSUME TypeInv, NEW p \in PID, StopEnds(p)
  PROVE  TypeInv'
<1>t. HoldsTypeOK /\ ReliesOnPid
  BY DEF TypeInv
<1>1. file' \in Files
  BY <1>t, FileTypes DEF StopEnds, StopDrop, HoldsTypeOK
<1>2. seen[p] \in PID
  BY <1>t DEF StopEnds, StopDrop, ReliesOnPid, Relying
<1>3. PICK l \in {"stopDrop", "poll", "none"}, q \in {seen[p], Nobody} :
        Step(p, l, q) /\ (l \in Relying => q = seen[p])
  BY DEF StopEnds, StopDrop, Exit, Goto, Relying
<1> QED
  BY <1>1, <1>2, <1>3, StepType DEF Label, Stopping

LEMMA CommandTypes ==
  ASSUME TypeInv, [Next]_vars
  PROVE  TypeInv'
BY WindowsStep, TypeStep, StopEndsType

LeverType ==
  /\ user \in Users
  /\ lid \in Lid /\ applied \in Lid
  /\ prev \in Lid \cup {NoPrev}
  /\ call \in [PID -> Call]

LEMMA LidTypes ==
  /\ Default \in Lid /\ Both(0) \in Lid
  /\ NoPrev \notin Lid
  /\ Idle \in Call
  /\ \A l \in Lid, v \in Index : [l EXCEPT !.ac = v] \in Lid /\ [l EXCEPT !.dc = v] \in Lid
BY DEF Default, Both, NoPrev, Lid, Index, Idle, Call

LEMMA LeverTypeStep ==
  ASSUME LeverType, [Next]_vars
  PROVE  LeverType'
<1>t. /\ user \in Users /\ lid \in Lid /\ applied \in Lid
      /\ prev \in Lid \cup {NoPrev} /\ call \in [PID -> Call]
  BY DEF LeverType
<1>1. CASE UNCHANGED vars
  BY <1>1 DEF vars, lever, LeverType
<1>2. ASSUME NEW p \in PID, PowercfgStep(p) PROVE LeverType'
  <2>1. /\ user' = user
        /\ prev' \in Lid \cup {NoPrev} \cup {call[p].put}
    BY <1>2, <1>t DEF PowercfgStep, QueryLid, SavePrev, LoadPrev, SetAC, SetDC, DropPrev,
                      Activate, lever
  <2>2. call[p] \in Call
    BY <1>t
  <2>3. call[p].put \in Lid /\ call[p].put.ac \in Index /\ call[p].put.dc \in Index
    BY <2>2 DEF Call, Lid
  <2>4. lid' \in Lid
    BY <1>2, <2>3, <1>t, LidTypes DEF PowercfgStep, QueryLid, SavePrev, LoadPrev, SetAC, SetDC,
                                      DropPrev, Activate, lever
  <2>5. applied' \in Lid
    BY <1>2, <1>t DEF PowercfgStep, QueryLid, SavePrev, LoadPrev, SetAC, SetDC, DropPrev,
                      Activate, lever
  <2>6. \E c \in Call : call' = [call EXCEPT ![p] = c]
    <3>1. CASE QueryLid(p)
      BY <3>1, <1>t, LidTypes DEF QueryLid, Goes, Returns, Call
    <3>2. CASE SavePrev(p)
      BY <3>2, <1>t, LidTypes DEF SavePrev, Goes, Returns, Call
    <3>3. CASE LoadPrev(p)
      BY <3>3, <1>t, LidTypes DEF LoadPrev, Goes, Returns, Call
    <3>4. CASE SetAC(p) \/ SetDC(p)
      BY <3>4, <2>2, LidTypes DEF SetAC, SetDC, Goes, Returns, Fails, Call
    <3>5. CASE DropPrev(p) \/ Activate(p)
      BY <3>5, <2>2, LidTypes DEF DropPrev, Activate, Goes, Returns, Fails, Call
    <3> QED
      BY <1>2, <3>1, <3>2, <3>3, <3>4, <3>5 DEF PowercfgStep
  <2>7. call' \in [PID -> Call]
    BY <2>6, <1>t
  <2> QED
    BY <2>1, <2>3, <2>4, <2>5, <2>7, <1>t DEF LeverType
<1>3. ASSUME NEW p \in PID, Kill(p), UNCHANGED lever PROVE LeverType'
  BY <1>3, <1>t, LidTypes DEF Kill, lever, LeverType
<1>4. CASE UNCHANGED <<lever, call>>
  BY <1>4 DEF lever, LeverType
<1> QED
  BY <1>1, <1>2, <1>3, <1>4 DEF Next

\* Type correctness on Windows, whoever uses it and whatever happens to them.
THEOREM WindowsTypeOK == Spec => []TypeOK
<1>1. WindowsInit => TypeInv /\ LeverType
  BY FileTypes, LidTypes, UsersAssumption
  DEF WindowsInit, Init, TypeInv, HoldsTypeOK, ReliesOnPid, Relying, Label, LeverType
<1>2. TypeInv /\ LeverType /\ [Next]_vars => (TypeInv /\ LeverType)'
  BY CommandTypes, LeverTypeStep
<1>3. TypeInv /\ LeverType => TypeOK
  BY DEF TypeInv, LeverType, TypeOK
<1> QED
  BY <1>1, <1>2, <1>3, PTL DEF Spec

-----------------------------------------------------------------------------
(* Mutual exclusion, for a user who stops only what is dead.               *)

DeadHoldsOnly == \A u \in Users : "live" \notin u.may

\* While a stop is at work there is no hold.
StopsUnheld == \A p, q \in PID : pc[p] \in Stopping => pc[q] \notin Owning

\* A process is at a label of stop only when it was launched as one.
LEMMA StoppingGrow ==
  ASSUME HoldsTypeOK, NEW p \in PID, Moved(p), NEW q \in PID, pc'[q] \in Stopping
  PROVE  \/ pc[q] \in Stopping
         \/ q = p /\ pc[p] = "none" /\ pc'[p] = "stopRead" /\ Launch(p) /\ Spared(p)
<1> USE DEF Stopping, HoldsTypeOK, Goto, Exit, Step, Awaken
<1>1. CASE Create(p) \/ Write(p) \/ Inspect(p)
  BY <1>1 DEF Create, Write, Inspect
<1>2. CASE CheckHolder(p) \/ RemovePidfile(p) \/ StartDisplay(p)
  BY <1>2 DEF CheckHolder, RemovePidfile, StartDisplay
<1>3. CASE Listen(p) \/ Spawn(p) \/ TakeSignal(p)
  BY <1>3 DEF Listen, Spawn, TakeSignal
<1>4. CASE Deadline(p) \/ GraceEnds(p) \/ Reap(p) \/ StopDisplay(p)
  BY <1>4 DEF Deadline, GraceEnds, Reap, StopDisplay
<1>5. CASE OwnershipGuard(p) \/ StopRead(p) \/ StopAlive(p)
  BY <1>5 DEF OwnershipGuard, StopRead, StopAlive
<1>6. CASE PollFile(p) \/ PollAlive(p) \/ GiveUp(p)
  BY <1>6 DEF PollFile, PollAlive, GiveUp
<1>7. CASE StatusRead(p) \/ StatusAlive(p) \/ Leave(p)
  BY <1>7 DEF StatusRead, StatusAlive, Leave
<1>8. CASE AnyKeeper(p)
  BY <1>8 DEF AnyKeeper, FlagRead, EngageReturns, DisengageReturns
<1>9. CASE StopEnds(p) \/ Crash(p)
  BY <1>9 DEF StopEnds, StopDrop, Crash
<1>10. CASE Launch(p) /\ Spared(p)
  BY <1>10 DEF Launch
<1>11. CASE ForeignEnds(p) \/ ChildExits(p) \/ Interrupt(p) \/ AssertionEnds(p)
  BY <1>11 DEF ForeignEnds, ChildExits, Interrupt, AssertionEnds
<1> QED
  BY <1>1, <1>2, <1>3, <1>4, <1>5, <1>6, <1>7, <1>8, <1>9, <1>10, <1>11
  DEF Moved, CommandStep, EnvironmentStep

LEMMA WindowsOwnersGrow ==
  ASSUME TypeInv, NEW p \in PID, Moved(p), NEW q \in PID, pc'[q] \in Owning
  PROVE  pc[q] \in Owning \cup {"write"}
<1>1. CASE StopEnds(p)
  BY <1>1 DEF StopEnds, StopDrop, Exit, Goto, Step, TypeInv, HoldsTypeOK, Owning, Engaging,
              Catching, Waiting, Releasing
<1>2. CASE UnixNext
  BY <1>2, OwnersGrow
<1> QED
  BY <1>1, <1>2 DEF Moved, UnixNext

LEMMA StopsUnheldStep ==
  ASSUME "live" \notin user.may, TypeInv, StartsAlone, StopsUnheld, [Next]_vars
  PROVE  StopsUnheld'
<1>t. HoldsTypeOK /\ StartsAlone
  BY DEF TypeInv
<1>1. CASE UNCHANGED holdVars
  BY <1>1 DEF holdVars, StopsUnheld
<1>2. ASSUME NEW m \in PID, Moved(m), NEW p \in PID, NEW q \in PID,
             pc'[p] \in Stopping, pc'[q] \in Owning
      PROVE  FALSE
  <2>1. pc[q] \in Owning \cup {"write"}
    BY <1>2, WindowsOwnersGrow
  <2>2. CASE pc[p] \in Stopping
    <3>1. pc[q] = "write"
      BY <2>1, <2>2 DEF StopsUnheld
    <3> QED
      BY <2>2, <3>1, <1>t DEF StartsAlone, Starting, Acquiring, Stopping
  <2>3. CASE p = m /\ pc[p] = "none" /\ pc'[p] = "stopRead" /\ Launch(p) /\ Spared(p)
    <3>1. Owners = {}
      BY <2>3 DEF Spared
    <3>2. q # p /\ pc'[q] = pc[q]
      BY <1>2, <2>3, <1>t DEF Launch, Goto, Step, HoldsTypeOK, Owning, Engaging, Catching,
                              Waiting, Releasing
    <3> QED
      BY <1>2, <3>1, <3>2 DEF Owners
  <2> QED
    BY <1>2, <2>2, <2>3, <1>t, StoppingGrow
<1> QED
  BY <1>1, <1>2, CommandsMove DEF StopsUnheld

LEMMA StopEndsSlots ==
  ASSUME TypeInv, Slots, StopsUnheld, NEW p \in PID, StopEnds(p)
  PROVE  Slots'
<1> USE DEF Starting, Acquiring, Engaging, Catching, Waiting, Releasing, Stopping, Reporting,
            Owning, Unheld, Relying, Writing, Commands
<1>t. HoldsTypeOK /\ StartsAlone
  BY DEF TypeInv, Slots
<1>1. PICK l \in {"stopDrop", "poll", "none"} : Moves(p, l)
  BY <1>t DEF StopEnds, StopDrop, Exit, Goto, Step, Moves, HoldsTypeOK
<1>2. pc[p] \in {"stopHolder", "stopDrop"}
  BY DEF StopEnds, StopDrop
<1>3. \A q \in PID : pc[q] \notin Owning \cup Writing
  BY <1>2, <1>t DEF StopsUnheld, StartsAlone
<1> QED
  BY <1>1, <1>2, <1>3, Keep

LEMMA WindowsSlots ==
  ASSUME CarefulUse, DeadHoldsOnly
  PROVE  Spec => [](TypeInv /\ LeverType /\ Slots /\ StopsUnheld)
<1>1. WindowsInit => TypeInv /\ LeverType /\ Slots /\ StopsUnheld
  <2> SUFFICES ASSUME WindowsInit PROVE TypeInv /\ LeverType /\ Slots /\ StopsUnheld
    OBVIOUS
  <2>1. \A p \in PID : pc[p] = "none"
    BY DEF WindowsInit, Init
  <2>2. TypeInv /\ LeverType
    BY FileTypes, LidTypes, UsersAssumption
    DEF WindowsInit, Init, TypeInv, HoldsTypeOK, ReliesOnPid, Relying, Label, LeverType
  <2>3. Slots /\ StopsUnheld
    BY <2>1 DEF Slots, SlotRecorded, WriterOwnsFile, StartsAlone, UnheldIsTrue, SeenIsOwner,
                StopsUnheld, Owners, Owning, Engaging, Catching, Waiting, Releasing, Starting,
                Acquiring, Unheld, Relying, Stopping
  <2> QED
    BY <2>2, <2>3
<1>2. TypeInv /\ LeverType /\ Slots /\ StopsUnheld /\ [Next]_vars
        => (TypeInv /\ LeverType /\ Slots /\ StopsUnheld)'
  BY CommandTypes, LeverTypeStep, WindowsStep, SlotStep, StopEndsSlots, StopsUnheldStep
  DEF LeverType, DeadHoldsOnly, Slots
<1> QED
  BY <1>1, <1>2, PTL DEF Spec

\* A user who runs stop only on what a dead hold left behind never has two
\* holds at once, and the pidfile names the one there is.
THEOREM WindowsOneHold ==
  ASSUME CarefulUse, DeadHoldsOnly
  PROVE  Spec => [](OneHold /\ SlotRecorded)
<1>1. Slots => OneHold /\ SlotRecorded
  BY DEF Slots, SlotRecorded, OneHold, Record
<1> QED
  BY <1>1, WindowsSlots, PTL

\* Whatever is killed or fails on Windows, and whoever stops whom, no process gets
\* past its own release with its display request up.
THEOREM WindowsDisplayOwned == Spec => []DisplayOwned
<1>1. WindowsInit => TypeInv /\ DisplayOwned
  BY FileTypes
  DEF WindowsInit, Init, TypeInv, HoldsTypeOK, ReliesOnPid, Relying, Label, DisplayOwned
<1>2. TypeInv /\ DisplayOwned /\ [Next]_vars => (TypeInv /\ DisplayOwned)'
  <2> SUFFICES ASSUME TypeInv, DisplayOwned, [Next]_vars PROVE DisplayOwned'
    BY CommandTypes
  <2>1. CASE [UnixNext]_holdVars
    BY <2>1, DisplayStep DEF TypeInv
  <2>2. ASSUME NEW p \in PID, StopEnds(p) PROVE DisplayOwned'
    <3>1. PICK l \in {"stopDrop", "poll", "none"} : pc' = [pc EXCEPT ![p] = l] /\ display' = display
      BY <2>2 DEF StopEnds, StopDrop, Exit, Goto, Step
    <3>2. p \notin display
      BY <2>2 DEF StopEnds, StopDrop, DisplayOwned, Waiting
    <3> QED
      BY <3>1, <3>2 DEF DisplayOwned, TypeInv, HoldsTypeOK
  <2> QED
    BY <2>1, <2>2, WindowsStep
<1> QED
  BY <1>1, <1>2, PTL DEF Spec
=============================================================================
