---------------------------- MODULE LinuxProofs ----------------------------
(***************************************************************************)
(* Proofs about lidspeculum on Linux: it implements the commands over any  *)
(* keeper, so one hold at a time is recorded there too, and no stop takes  *)
(* the lock of a hold that goes on.                                        *)
(***************************************************************************)
EXTENDS Linux, UnixProofs

-----------------------------------------------------------------------------
(* Linux is a system of ProcUnix commands.                                 *)

LEMMA LinuxUnixStep ==
  ASSUME [Next]_vars
  PROVE  [UnixNext]_holdVars
<1>1. CASE UNCHANGED vars
  BY <1>1 DEF vars
<1>2. ASSUME NEW p \in PID, Reexec(p) \/ Fork(p) \/ Inherit(p) \/ Plain(p)
      PROVE  \E q \in PID : Launch(q)
  BY <1>2 DEF Reexec, Fork, Inherit, Plain
<1>3. ASSUME NEW p \in PID, Unwrap(p) \/ Unwrapped(p) PROVE ForeignEnds(p)
  BY <1>3 DEF Unwrap, Unwrapped
<1>4. ASSUME NEW p \in PID, Progress(p)
      PROVE  CommandStep(p) \/ AnyKeeper(p) \/ StopHolder(p) \/ StopKill(p)
  <2>1. ASSUME QueryFlag(p) PROVE AnyKeeper(p)
    BY <2>1 DEF QueryFlag, AnyKeeper
  <2>2. ASSUME Engage(p) \/ Disengage(p) PROVE AnyKeeper(p)
    BY <2>2 DEF Engage, Disengage, AnyKeeper
  <2> QED
    BY <1>4, <2>1, <2>2 DEF Progress
<1> QED
  BY <1>1, <1>2, <1>3, <1>4 DEF Next, UnixNext, EnvironmentStep

\* Every behaviour of lidspeculum on Linux is one of the commands over a
\* keeper that may answer anything, so what is proved of those holds here.
THEOREM LinuxImplementsUnix == Spec => UnixSpec
<1>1. LinuxInit => Init
  BY DEF LinuxInit
<1>2. [Next]_vars => [UnixNext]_holdVars
  BY LinuxUnixStep
<1> QED
  BY <1>1, <1>2, PTL DEF Spec, UnixSpec

\* A careful user on Linux never has two holds, and the pidfile names the one.
THEOREM LinuxRecord == ASSUME CarefulUse PROVE Spec => [](SlotRecorded /\ OneHold)
BY LinuxImplementsUnix, PidfileIsTheRecord, SlotIsExclusive, PTL

-----------------------------------------------------------------------------
(* The wrappers.                                                           *)

WrapType ==
  /\ locks \subseteq {p \in PID : pc[p] = "foreign"}
  /\ inner \in [PID -> PID \cup {Nobody}]
  /\ \A w \in PID \ locks : inner[w] = Nobody
  /\ bare \subseteq PID

LEMMA SettleType ==
  ASSUME NEW L \in SUBSET PID, NEW I \in [PID -> PID \cup {Nobody}], NEW B \in SUBSET PID,
         Settle(L, I, B)
  PROVE  WrapType'
BY DEF Settle, WrapType

LEMMA WrapTypeStep ==
  ASSUME WrapType, [Next]_vars
  PROVE  WrapType'
<1>1. /\ locks \in SUBSET PID /\ bare \in SUBSET PID
      /\ inner \in [PID -> PID \cup {Nobody}]
  BY DEF WrapType
<1>2. CASE UNCHANGED vars
  BY <1>2 DEF vars, holdVars, wrapVars, WrapType
<1>3. ASSUME NEW w \in PID, Reexec(w) PROVE WrapType'
  <2>1. Settle(locks \cup {w}, inner, bare) /\ locks \cup {w} \in SUBSET PID
    BY <1>1, <1>3 DEF Reexec
  <2> QED
    BY <1>1, <2>1, SettleType
<1>4. ASSUME NEW w \in PID, Fork(w) PROVE WrapType'
  <2>1. PICK p \in PID : Settle(locks, [inner EXCEPT ![w] = p], bare)
    BY <1>4 DEF Fork
  <2>2. [inner EXCEPT ![w] = p] \in [PID -> PID \cup {Nobody}]
    BY <1>1
  <2> HIDE DEF Settle
  <2> QED
    BY <1>1, <2>1, <2>2, SettleType
<1>5. ASSUME NEW p \in PID, Inherit(p) PROVE WrapType'
  <2>1. Settle(locks, inner, bare \cup {p}) /\ bare \cup {p} \in SUBSET PID
    BY <1>1, <1>5 DEF Inherit
  <2> QED
    BY <1>1, <2>1, SettleType
<1>6. ASSUME NEW w \in PID, Unwrapped(w) PROVE WrapType'
  <2>1. /\ Settle(locks, inner, bare \cup ({inner[w]} \ {Nobody}))
        /\ bare \cup ({inner[w]} \ {Nobody}) \in SUBSET PID
    BY <1>1, <1>6 DEF Unwrapped
  <2> QED
    BY <1>1, <2>1, SettleType
<1>7. ASSUME Others PROVE WrapType'
  BY <1>1, <1>7, SettleType DEF Others
<1> QED
  BY <1>2, <1>3, <1>4, <1>5, <1>6, <1>7 DEF Next, Plain, Unwrap, Progress

\* Type correctness on Linux.
THEOREM LinuxTypeOK == Spec => []TypeOK
<1>1. LinuxInit => WrapType
  BY DEF LinuxInit, WrapType
<1>2. WrapType /\ [Next]_vars => WrapType'
  BY WrapTypeStep
<1>3. HoldsTypeOK /\ WrapType => TypeOK
  BY DEF WrapType, TypeOK
<1> QED
  BY <1>1, <1>2, <1>3, LinuxImplementsUnix, UnixTypeOK, PTL DEF Spec

-----------------------------------------------------------------------------
(* No stop takes the lock of a hold that goes on.  What stop kills without *)
(* the process catching it is a pid it read a while ago; were that the     *)
(* wrapper of a hold, the hold would own the slot, and SlotInv has every   *)
(* stop rely on the owner's own pid.                                       *)

HasHold(l) == l \in Starting \cup Catching

\* No step but a launch makes a hold of a process that was none.
LEMMA HoldsGrow ==
  ASSUME HoldsTypeOK, NEW p \in PID,
         \/ CommandStep(p) \/ AnyKeeper(p) \/ StopHolder(p) \/ StopKill(p)
         \/ GiveUp(p) \/ ChildExits(p) \/ Interrupt(p) \/ Crash(p) \/ ForeignEnds(p),
         NEW q \in PID, HasHold(pc'[q])
  PROVE  HasHold(pc[q])
<1> USE DEF HasHold, Starting, Acquiring, Engaging, Catching, Waiting, Releasing, HoldsTypeOK,
            Goto, Exit, Step, Awaken
<1>1. CASE Create(p) \/ Write(p) \/ Inspect(p)
  BY <1>1 DEF Create, Write, Inspect
<1>2. CASE CheckHolder(p) \/ RemovePidfile(p) \/ StartDisplay(p)
  BY <1>2 DEF CheckHolder, RemovePidfile, StartDisplay
<1>3. CASE Listen(p) \/ Spawn(p) \/ TakeSignal(p)
  BY <1>3 DEF Listen, Spawn, TakeSignal
<1>4. CASE Deadline(p) \/ GraceEnds(p) \/ Reap(p) \/ StopDisplay(p)
  BY <1>4 DEF Deadline, GraceEnds, Reap, StopDisplay
<1>5. CASE OwnershipGuard(p) \/ StopRead(p) \/ StopAlive(p)
  BY <1>5 DEF OwnershipGuard, StopRead, StopAlive
<1>6. CASE PollFile(p) \/ PollAlive(p) \/ GiveUp(p)
  BY <1>6 DEF PollFile, PollAlive, GiveUp
<1>7. CASE StatusRead(p) \/ StatusAlive(p) \/ Leave(p)
  BY <1>7 DEF StatusRead, StatusAlive, Leave
<1>8. CASE AnyKeeper(p)
  BY <1>8 DEF AnyKeeper, FlagRead, EngageReturns, DisengageReturns
<1>9. CASE StopHolder(p) \/ StopKill(p)
  BY <1>9 DEF StopHolder, StopKill
<1>10. CASE ChildExits(p) \/ Interrupt(p) \/ Crash(p) \/ ForeignEnds(p)
  BY <1>10 DEF ChildExits, Interrupt, Crash, ForeignEnds
<1> QED
  BY <1>1, <1>2, <1>3, <1>4, <1>5, <1>6, <1>7, <1>8, <1>9, <1>10 DEF CommandStep

\* No process but stop's target and an unrelated program that ends leaves off
\* being an unrelated program.
LEMMA ForeignStays ==
  ASSUME HoldsTypeOK, NEW p \in PID,
         \/ CommandStep(p) \/ AnyKeeper(p) \/ StopHolder(p)
         \/ GiveUp(p) \/ ChildExits(p) \/ Interrupt(p) \/ Crash(p),
         NEW q \in PID, pc[q] = "foreign"
  PROVE  pc'[q] = "foreign"
<1> USE DEF Waiting, HoldsTypeOK, Goto, Exit, Step, Awaken
<1>1. CASE Create(p) \/ Write(p) \/ Inspect(p)
  BY <1>1 DEF Create, Write, Inspect
<1>2. CASE CheckHolder(p) \/ RemovePidfile(p) \/ StartDisplay(p)
  BY <1>2 DEF CheckHolder, RemovePidfile, StartDisplay
<1>3. CASE Listen(p) \/ Spawn(p) \/ TakeSignal(p)
  BY <1>3 DEF Listen, Spawn, TakeSignal
<1>4. CASE Deadline(p) \/ GraceEnds(p) \/ Reap(p) \/ StopDisplay(p)
  BY <1>4 DEF Deadline, GraceEnds, Reap, StopDisplay
<1>5. CASE OwnershipGuard(p) \/ StopRead(p) \/ StopAlive(p)
  BY <1>5 DEF OwnershipGuard, StopRead, StopAlive
<1>6. CASE PollFile(p) \/ PollAlive(p) \/ GiveUp(p)
  BY <1>6 DEF PollFile, PollAlive, GiveUp
<1>7. CASE StatusRead(p) \/ StatusAlive(p) \/ Leave(p)
  BY <1>7 DEF StatusRead, StatusAlive, Leave
<1>8. CASE AnyKeeper(p)
  BY <1>8 DEF AnyKeeper, FlagRead, EngageReturns, DisengageReturns
<1>9. CASE StopHolder(p)
  BY <1>9 DEF StopHolder
<1>10. CASE ChildExits(p) \/ Interrupt(p) \/ Crash(p)
  BY <1>10 DEF ChildExits, Interrupt, Crash
<1> QED
  BY <1>1, <1>2, <1>3, <1>4, <1>5, <1>6, <1>7, <1>8, <1>9, <1>10 DEF CommandStep

\* A step that begins no hold of its own takes no hold's lock, unless it ends a
\* wrapper whose child holds; that child must be among the bare ones then.
LEMMA SettleKeeps ==
  ASSUME WrapType, LockedWhileHeld,
         NEW L \in SUBSET PID, locks \subseteq L,
         NEW B \in SUBSET PID, bare \subseteq B,
         Settle(L, inner, B),
         \A p \in PID : HasHold(pc'[p]) => HasHold(pc[p]),
         \A w \in locks : \/ pc'[w] = "foreign" \/ inner[w] \in B
                          \/ inner[w] \in PID => ~HasHold(pc'[inner[w]])
  PROVE  LockedWhileHeld'
<1> SUFFICES ASSUME NEW p \in PID, HasHold(pc'[p]), p \notin bare'
             PROVE  \E w \in locks' : inner'[w] = p
  BY DEF LockedWhileHeld, HasHold
<1>1. p \notin B
  BY DEF Settle, HasHold, Starting, Acquiring, Engaging, Catching, Waiting, Releasing
<1>2. PICK w \in locks : inner[w] = p
  BY <1>1 DEF LockedWhileHeld, HasHold
<1>3. w \in PID /\ pc'[w] = "foreign"
  BY <1>1, <1>2
<1> QED
  BY <1>2, <1>3 DEF Settle

\* The process stop kills is the wrapper of no hold.
LEMMA KillSparesWrappers ==
  ASSUME SlotInv, WrapType, NEW p \in PID, StopKill(p),
         NEW w \in locks, pc'[w] # "foreign", inner[w] \in PID, HasHold(pc[inner[w]])
  PROVE  FALSE
<1> DEFINE c == inner[w]
<1>1. pc[p] = "stopKill" /\ pc[w] = "foreign" /\ w \in PID
  BY DEF StopKill, WrapType
<1>2. seen[p] = w
  BY <1>1 DEF StopKill, Exit, Goto, Step, SlotInv, HoldsTypeOK
<1>3. CASE pc[c] \in Starting
  <2>1. c = p
    BY <1>1, <1>3 DEF SlotInv, StartsAlone, Stopping
  <2> QED
    BY <1>1, <1>3, <2>1 DEF Starting, Acquiring, Engaging
<1>4. CASE pc[c] \in Catching
  <2>1. seen[p] = c
    BY <1>1, <1>4 DEF SlotInv, SeenIsOwner, Relying, Owning
  <2> QED
    BY <1>1, <1>2, <1>4, <2>1 DEF Catching, Waiting, Releasing
<1> QED
  BY <1>3, <1>4 DEF HasHold

LEMMA LockStep ==
  ASSUME SlotInv, WrapType, LockedWhileHeld, [Next]_vars
  PROVE  LockedWhileHeld'
<1>t. HoldsTypeOK /\ locks \in SUBSET PID /\ bare \in SUBSET PID
  BY DEF SlotInv, WrapType
<1>f. \A w \in locks : w \in PID /\ pc[w] = "foreign"
  BY DEF WrapType
<1>1. CASE UNCHANGED vars
  BY <1>1 DEF vars, holdVars, wrapVars, LockedWhileHeld
<1>2. ASSUME NEW w \in PID, Reexec(w) PROVE LockedWhileHeld'
  <2>1. /\ pc[w] = "none" /\ pc' = [pc EXCEPT ![w] = "foreign"]
        /\ Settle(locks \cup {w}, inner, bare)
    BY <1>2, <1>t DEF Reexec, Launch, Goto, Step, HoldsTypeOK
  <2>2. \A q \in PID : HasHold(pc'[q]) => HasHold(pc[q])
    BY <2>1, <1>t DEF HoldsTypeOK, HasHold, Starting, Acquiring, Engaging, Catching, Waiting,
                      Releasing
  <2>3. \A v \in locks : pc'[v] = "foreign"
    BY <2>1, <1>t, <1>f DEF HoldsTypeOK
  <2> QED
    BY <1>t, <2>1, <2>2, <2>3, SettleKeeps
<1>3. ASSUME NEW w \in PID, Fork(w) PROVE LockedWhileHeld'
  <2>1. PICK p \in PID : /\ Launch(p) /\ pc'[p] = "create"
                        /\ Settle(locks, [inner EXCEPT ![w] = p], bare)
    BY <1>3 DEF Fork
  <2>2. w \in locks /\ inner[w] = Nobody
    BY <1>3 DEF Fork
  <2>3. pc[p] = "none" /\ pc' = [pc EXCEPT ![p] = "create"]
    BY <1>t, <2>1 DEF Launch, Goto, Step, HoldsTypeOK
  <2>4. locks' = locks
    BY <1>t, <1>f, <2>1, <2>3 DEF Settle, HoldsTypeOK
  <2>5. \A v \in locks : inner'[v] = IF v = w THEN p ELSE inner[v]
    BY <2>1, <2>4, <1>t DEF Settle, WrapType
  <2> SUFFICES ASSUME NEW q \in PID, HasHold(pc'[q]), q \notin bare'
               PROVE  \E v \in locks' : inner'[v] = q
    BY DEF LockedWhileHeld, HasHold
  <2>6. CASE q = p
    BY <2>2, <2>4, <2>5, <2>6
  <2>7. CASE q # p
    <3>1. HasHold(pc[q])
      BY <1>t, <2>3, <2>7 DEF HoldsTypeOK
    <3>2. q \notin bare
      BY <2>1 DEF Settle, HasHold, Starting, Acquiring, Engaging, Catching, Waiting, Releasing
    <3>3. PICK v \in locks : inner[v] = q
      BY <3>1, <3>2 DEF LockedWhileHeld, HasHold
    <3>4. v # w
      BY <2>2, <3>3, PIDAssumption
    <3> QED
      BY <2>4, <2>5, <3>3, <3>4
  <2> QED
    BY <2>6, <2>7
<1>4. ASSUME NEW p \in PID, Inherit(p) PROVE LockedWhileHeld'
  <2>1. /\ pc[p] = "none" /\ pc' = [pc EXCEPT ![p] = "create"]
        /\ Settle(locks, inner, bare \cup {p})
    BY <1>4, <1>t DEF Inherit, Launch, Goto, Step, HoldsTypeOK
  <2>2. p \in bare'
    BY <2>1, <1>t DEF Settle, HoldsTypeOK
  <2> SUFFICES ASSUME NEW q \in PID, HasHold(pc'[q]), q \notin bare'
               PROVE  \E v \in locks' : inner'[v] = q
    BY DEF LockedWhileHeld, HasHold
  <2>3. q # p /\ HasHold(pc[q])
    BY <1>t, <2>1, <2>2 DEF HoldsTypeOK
  <2>4. q \notin bare
    BY <2>1 DEF Settle, HasHold, Starting, Acquiring, Engaging, Catching, Waiting, Releasing
  <2>5. PICK v \in locks : inner[v] = q
    BY <2>3, <2>4 DEF LockedWhileHeld, HasHold
  <2>6. pc'[v] = "foreign"
    BY <1>t, <1>f, <2>1 DEF HoldsTypeOK
  <2> QED
    BY <1>f, <2>1, <2>5, <2>6 DEF Settle
<1>5. ASSUME NEW p \in PID, Plain(p) PROVE LockedWhileHeld'
  <2>1. PICK l \in {"stopRead", "statusRead", "foreign"} : pc' = [pc EXCEPT ![p] = l]
    BY <1>5, <1>t DEF Plain, Launch, Goto, Step, HoldsTypeOK
  <2>4. pc[p] = "none"
    BY <1>5 DEF Plain, Launch
  <2>2. \A q \in PID : HasHold(pc'[q]) => HasHold(pc[q])
    BY <2>1, <1>t DEF HoldsTypeOK, HasHold, Starting, Acquiring, Engaging, Catching, Waiting,
                      Releasing
  <2>3. \A v \in locks : pc'[v] = "foreign"
    BY <2>1, <2>4, <1>t, <1>f DEF HoldsTypeOK
  <2> QED
    BY <1>5, <1>t, <2>2, <2>3, SettleKeeps DEF Plain, Others
<1>6. ASSUME NEW w \in PID, ForeignEnds(w), NEW B \in SUBSET PID, bare \subseteq B,
             Settle(locks, inner, B), inner[w] \in B \cup {Nobody} \/ Over(inner[w])
      PROVE  LockedWhileHeld'
  <2>1. pc[w] = "foreign" /\ pc' = [pc EXCEPT ![w] = "none"]
    BY <1>6, <1>t DEF ForeignEnds, Exit, Goto, Step, HoldsTypeOK
  <2>2. \A q \in PID : HasHold(pc'[q]) => HasHold(pc[q])
    BY <2>1, <1>t DEF HoldsTypeOK, HasHold, Starting, Acquiring, Engaging, Catching, Waiting,
                      Releasing
  <2>3. inner[w] \in B \/ (inner[w] \in PID => ~HasHold(pc'[inner[w]]))
    <3>1. CASE inner[w] \in B
      BY <3>1
    <3>2. CASE inner[w] = Nobody
      BY <3>2, PIDAssumption
    <3>3. CASE Over(inner[w])
      BY <2>2, <3>3 DEF Over, HasHold, Starting, Acquiring, Engaging, Catching, Waiting, Releasing
    <3> QED
      BY <1>6, <3>1, <3>2, <3>3
  <2>4. \A v \in locks : v # w => pc'[v] = "foreign"
    BY <1>t, <1>f, <2>1 DEF HoldsTypeOK
  <2> QED
    BY <1>6, <1>t, <2>2, <2>3, <2>4, SettleKeeps
<1>7. ASSUME NEW w \in PID, Unwrap(w) \/ Unwrapped(w) PROVE LockedWhileHeld'
  <2>1. CASE Unwrap(w)
    BY <1>6, <1>t, <2>1 DEF Unwrap, Others
  <2>2. CASE Unwrapped(w)
    <3>1. inner[w] \in PID \cup {Nobody}
      BY DEF WrapType
    <3>2. /\ ForeignEnds(w)
          /\ Settle(locks, inner, bare \cup ({inner[w]} \ {Nobody}))
      BY <2>2 DEF Unwrapped
    <3> QED
      BY <1>6, <1>t, <3>1, <3>2
  <2> QED
    BY <1>7, <2>1, <2>2
<1>8. ASSUME NEW p \in PID, StopKill(p), Others PROVE LockedWhileHeld'
  <2>1. \A q \in PID : HasHold(pc'[q]) => HasHold(pc[q])
    BY <1>8, <1>t, HoldsGrow
  <2>2. \A w \in locks : pc'[w] = "foreign" \/ (inner[w] \in PID => ~HasHold(pc'[inner[w]]))
    BY <1>8, <2>1, KillSparesWrappers
  <2> QED
    BY <1>8, <1>t, <2>1, <2>2, SettleKeeps DEF Others
<1>9. ASSUME NEW p \in PID, Others,
             \/ CommandStep(p) \/ AnyKeeper(p) \/ StopHolder(p)
             \/ GiveUp(p) \/ ChildExits(p) \/ Interrupt(p) \/ Crash(p)
      PROVE  LockedWhileHeld'
  <2>1. \A q \in PID : HasHold(pc'[q]) => HasHold(pc[q])
    BY <1>9, <1>t, HoldsGrow
  <2>2. \A w \in locks : pc'[w] = "foreign"
    BY <1>9, <1>t, <1>f, ForeignStays
  <2> QED
    BY <1>9, <1>t, <2>1, <2>2, SettleKeeps DEF Others
<1>10. ASSUME NEW p \in PID, Progress(p) PROVE LockedWhileHeld'
  <2>1. Engage(p) \/ Disengage(p) \/ QueryFlag(p) => AnyKeeper(p)
    BY DEF Engage, Disengage, QueryFlag, AnyKeeper
  <2> QED
    BY <1>8, <1>9, <1>10, <2>1 DEF Progress
<1> QED
  BY <1>1, <1>2, <1>3, <1>4, <1>5, <1>7, <1>9, <1>10 DEF Next

\* For a careful user a hold that runs under a wrapper keeps its lock: whatever
\* crashes, is stopped and has its pid handed out again, no stop kills the
\* wrapper of a hold that goes on.
THEOREM HoldsAreLocked == ASSUME CarefulUse PROVE Spec => []LockedWhileHeld
<1>1. LinuxInit => WrapType /\ LockedWhileHeld
  BY DEF LinuxInit, Init, WrapType, LockedWhileHeld, Starting, Acquiring, Engaging, Catching,
         Waiting, Releasing
<1>2. SlotInv /\ WrapType /\ LockedWhileHeld /\ [Next]_vars => (WrapType /\ LockedWhileHeld)'
  BY LockStep, WrapTypeStep
<1> QED
  BY <1>1, <1>2, LinuxImplementsUnix, SlotInvariant, PTL DEF Spec
=============================================================================
