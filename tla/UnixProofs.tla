----------------------------- MODULE UnixProofs -----------------------------
(***************************************************************************)
(* Proofs about the commands over any keeper (ProcUnix): type correctness, *)
(* and mutual exclusion of the holds, for any set of process ids and any   *)
(* number of commands, crashes and reused pids.                            *)
(***************************************************************************)
EXTENDS ProcUnix, TLAPS

\* The part of the invariant that needs no assumption on use or faults.
TypeInv == HoldsTypeOK /\ ReliesOnPid

\* p, and p only, moves to label l; other processes keep what they rely on.
Moves(p, l) ==
  /\ pc'[p] = l
  /\ \A q \in PID \ {p} : pc'[q] = pc[q] /\ seen'[q] = seen[q]

-----------------------------------------------------------------------------
(* Type correctness.                                                       *)

LEMMA FileTypes ==
  /\ NoFile \in Files
  /\ \A p \in PID, w \in BOOLEAN : Record(p, w) \in Files
  /\ file \in Files => readHold \in PID \cup {Nobody}
BY DEF NoFile, Record, Files, readHold

\* A process moves to a label and relies on a pid, or on none.
LEMMA StepType ==
  ASSUME TypeInv, NEW p \in PID, NEW l \in Label, NEW q \in PID \cup {Nobody},
         l \in Relying => q \in PID,
         Step(p, l, q), file' \in Files
  PROVE  TypeInv'
BY DEF TypeInv, HoldsTypeOK, ReliesOnPid, Step

\* A process leaves its select or does something else that reads no pid.
LEMMA AwakenType ==
  ASSUME TypeInv, NEW p \in PID, NEW l \in Label \ Relying,
         pc' = [pc EXCEPT ![p] = l], UNCHANGED <<file, seen>>,
         signalled' \subseteq PID, display' \subseteq PID
  PROVE  TypeInv'
BY DEF TypeInv, HoldsTypeOK, ReliesOnPid

LEMMA TypeStep ==
  ASSUME TypeInv, [UnixNext]_holdVars
  PROVE  TypeInv'
<1> USE FileTypes DEF Label, Starting, Acquiring, Engaging, Catching, Waiting,
          Releasing, Stopping, Reporting, Relying
<1>t. HoldsTypeOK /\ ReliesOnPid
  BY DEF TypeInv
<1>1. CASE UNCHANGED holdVars
  BY <1>1, <1>t DEF holdVars, TypeInv, HoldsTypeOK, ReliesOnPid
<1>2. ASSUME NEW p \in PID, CommandStep(p) \/ GiveUp(p)
      PROVE  TypeInv'
  <2>1. CASE Create(p)
    <3>1. file' \in Files
      BY <2>1, <1>t DEF Create, HoldsTypeOK
    <3>2. PICK l \in {"write", "inspect", "none"} : Step(p, l, Nobody)
      BY <2>1 DEF Create, Goto, Exit
    <3> QED
      BY <3>1, <3>2, StepType
  <2>2. CASE Write(p)
    <3>1. file' \in Files
      BY <2>2, <1>t DEF Write, WriteRecord, HoldsTypeOK
    <3>2. PICK l \in {"engage", "unwrite", "none"} : Step(p, l, Nobody)
      BY <2>2 DEF Write, Goto, Exit
    <3> QED
      BY <3>1, <3>2, StepType
  <2>3. CASE Inspect(p)
    <3>1. file' \in Files
      BY <2>3, <1>t DEF Inspect, HoldsTypeOK
    <3>2. PICK l \in {"alive", "reclaimFlag", "none"}, q \in PID \cup {Nobody} :
            Step(p, l, q) /\ (l \in Relying => q \in PID)
      BY <2>3, <1>t DEF Inspect, Goto, Exit, HoldsTypeOK, ReliesOnPid
    <3> QED
      BY <3>1, <3>2, StepType
  <2>4. CASE CheckHolder(p)
    <3>1. file' \in Files
      BY <2>4, <1>t DEF CheckHolder, HoldsTypeOK
    <3>2. PICK l \in {"none", "reclaimFlag"} : Step(p, l, Nobody)
      BY <2>4 DEF CheckHolder, Goto, Exit
    <3> QED
      BY <3>1, <3>2, StepType
  <2>5. CASE RemovePidfile(p)
    <3>1. file' \in Files
      BY <2>5, <1>t DEF RemovePidfile, HoldsTypeOK
    <3>2. PICK l \in {"recreate", "none", "stopped"} : Step(p, l, Nobody)
      BY <2>5 DEF RemovePidfile, Goto, Exit
    <3> QED
      BY <3>1, <3>2, StepType
  <2>6. CASE StartDisplay(p)
    <3>1. PICK l \in {"listen"} : pc' = [pc EXCEPT ![p] = l]
      BY <2>6 DEF StartDisplay
    <3> QED
      BY <2>6, <3>1, <1>t, AwakenType DEF StartDisplay, HoldsTypeOK
  <2>7. CASE Listen(p)
    <3>1. file' \in Files
      BY <2>7, <1>t DEF Listen, HoldsTypeOK
    <3>2. PICK l \in {"wait", "timed", "spawn"} : Step(p, l, Nobody)
      BY <2>7 DEF Listen, Goto, Exit
    <3> QED
      BY <3>1, <3>2, StepType
  <2>8. CASE Spawn(p)
    <3>1. CASE Goto(p, "running")
      BY <2>8, <3>1, <1>t, StepType DEF Spawn, Goto, HoldsTypeOK
    <3>2. CASE pc' = [pc EXCEPT ![p] = "undisplay"]
      <4> DEFINE l == "undisplay"
      <4>1. UNCHANGED <<file, seen>> /\ signalled' \subseteq PID /\ display' \subseteq PID
        BY <2>8, <3>2, <1>t DEF Spawn, Goto, Step, HoldsTypeOK
      <4> QED
        BY <3>2, <4>1, AwakenType
    <3> QED
      BY <2>8, <3>1, <3>2 DEF Spawn
  <2>9. CASE TakeSignal(p)
    <3>1. PICK l \in {"undisplay", "grace"} : pc' = [pc EXCEPT ![p] = l]
      BY <2>9 DEF TakeSignal, Awaken
    <3> QED
      BY <2>9, <3>1, <1>t, AwakenType DEF TakeSignal, Awaken, HoldsTypeOK
  <2>10. CASE Deadline(p)
    <3>1. PICK l \in {"undisplay"} : pc' = [pc EXCEPT ![p] = l]
      BY <2>10 DEF Deadline, Awaken
    <3> QED
      BY <2>10, <3>1, <1>t, AwakenType DEF Deadline, Awaken, HoldsTypeOK
  <2>11. CASE GraceEnds(p)
    <3>1. PICK l \in {"killed"} : pc' = [pc EXCEPT ![p] = l]
      BY <2>11 DEF GraceEnds, Awaken
    <3> QED
      BY <2>11, <3>1, <1>t, AwakenType DEF GraceEnds, Awaken, HoldsTypeOK
  <2>12. CASE Reap(p)
    <3>1. PICK l \in {"undisplay"} : pc' = [pc EXCEPT ![p] = l]
      BY <2>12 DEF Reap, Awaken
    <3> QED
      BY <2>12, <3>1, <1>t, AwakenType DEF Reap, Awaken, HoldsTypeOK
  <2>13. CASE StopDisplay(p)
    <3>1. PICK l \in {"own"} : pc' = [pc EXCEPT ![p] = l]
      BY <2>13 DEF StopDisplay
    <3> QED
      BY <2>13, <3>1, <1>t, AwakenType DEF StopDisplay, HoldsTypeOK
  <2>14. CASE OwnershipGuard(p)
    <3>1. file' \in Files
      BY <2>14, <1>t DEF OwnershipGuard, HoldsTypeOK
    <3>2. PICK l \in {"relDisengage", "none"} : Step(p, l, Nobody)
      BY <2>14 DEF OwnershipGuard, Goto, Exit
    <3> QED
      BY <3>1, <3>2, StepType
  <2>15. CASE StopRead(p)
    <3>1. file' \in Files
      BY <2>15, <1>t DEF StopRead, HoldsTypeOK
    <3>2. PICK l \in {"stopAlive", "clearFlag", "none"}, q \in PID \cup {Nobody} :
            Step(p, l, q) /\ (l \in Relying => q \in PID)
      BY <2>15, <1>t DEF StopRead, Goto, Exit, HoldsTypeOK, ReliesOnPid
    <3> QED
      BY <3>1, <3>2, StepType
  <2>16. CASE StopAlive(p)
    <3>1. file' \in Files
      BY <2>16, <1>t DEF StopAlive, HoldsTypeOK
    <3>2. PICK l \in {"stopHolder", "clearFlag"}, q \in PID \cup {Nobody} :
            Step(p, l, q) /\ (l \in Relying => q \in PID)
      BY <2>16, <1>t DEF StopAlive, Goto, Exit, HoldsTypeOK, ReliesOnPid
    <3> QED
      BY <3>1, <3>2, StepType
  <2>17. CASE PollFile(p)
    <3>1. file' \in Files
      BY <2>17, <1>t DEF PollFile, HoldsTypeOK
    <3>2. PICK l \in {"pollAlive", "stopFlag"}, q \in PID \cup {Nobody} :
            Step(p, l, q) /\ (l \in Relying => q \in PID)
      BY <2>17, <1>t DEF PollFile, Goto, Exit, HoldsTypeOK, ReliesOnPid
    <3> QED
      BY <3>1, <3>2, StepType
  <2>18. CASE PollAlive(p)
    <3>1. file' \in Files
      BY <2>18, <1>t DEF PollAlive, HoldsTypeOK
    <3>2. PICK l \in {"poll", "stopFlag"}, q \in PID \cup {Nobody} :
            Step(p, l, q) /\ (l \in Relying => q \in PID)
      BY <2>18, <1>t DEF PollAlive, Goto, Exit, HoldsTypeOK, ReliesOnPid
    <3> QED
      BY <3>1, <3>2, StepType
  <2>19. CASE GiveUp(p)
    <3>1. file' \in Files
      BY <2>19, <1>t DEF GiveUp, HoldsTypeOK
    <3>2. PICK l \in {"stopFlag"} : Step(p, l, Nobody)
      BY <2>19 DEF GiveUp, Goto, Exit
    <3> QED
      BY <3>1, <3>2, StepType
  <2>20. CASE StatusRead(p)
    <3>1. file' \in Files
      BY <2>20, <1>t DEF StatusRead, HoldsTypeOK
    <3>2. PICK l \in {"statusAlive", "statusFlag", "none"}, q \in PID \cup {Nobody} :
            Step(p, l, q) /\ (l \in Relying => q \in PID)
      BY <2>20, <1>t DEF StatusRead, Goto, Exit, HoldsTypeOK, ReliesOnPid
    <3> QED
      BY <3>1, <3>2, StepType
  <2>21. CASE StatusAlive(p)
    <3>1. file' \in Files
      BY <2>21, <1>t DEF StatusAlive, HoldsTypeOK
    <3>2. PICK l \in {"sayActive", "statusFlag"}, q \in PID \cup {Nobody} :
            Step(p, l, q) /\ (l \in Relying => q \in PID)
      BY <2>21, <1>t DEF StatusAlive, Goto, Exit, HoldsTypeOK, ReliesOnPid
    <3> QED
      BY <3>1, <3>2, StepType
  <2>22. CASE Leave(p)
    <3>1. file' \in Files
      BY <2>22, <1>t DEF Leave, HoldsTypeOK
    <3>2. PICK l \in {"none"} : Step(p, l, Nobody)
      BY <2>22 DEF Leave, Goto, Exit
    <3> QED
      BY <3>1, <3>2, StepType
  <2> QED
    BY <1>2, <2>1, <2>2, <2>3, <2>4, <2>5, <2>6, <2>7, <2>8, <2>9, <2>10, <2>11, <2>12, <2>13, <2>14, <2>15, <2>16, <2>17, <2>18, <2>19, <2>20, <2>21, <2>22 DEF CommandStep
<1>3. ASSUME NEW p \in PID, AnyKeeper(p) PROVE TypeInv'
  <2>1. file' \in Files
    BY <1>3, <1>t DEF AnyKeeper, FlagRead, EngageReturns, DisengageReturns, HoldsTypeOK
  <2>2. PICK l \in Label \ Relying : Step(p, l, Nobody)
    BY <1>3 DEF AnyKeeper, FlagRead, EngageReturns, DisengageReturns, Goto
  <2> QED
    BY <2>1, <2>2, StepType
<1>4. ASSUME NEW p \in PID, StopHolder(p) PROVE TypeInv'
  <2>1. PICK l \in {"stopKill", "clearFlag"}, q \in PID \cup {Nobody} :
          Step(p, l, q) /\ (l \in Relying => q \in PID)
    BY <1>4, <1>t DEF StopHolder, Goto, HoldsTypeOK, ReliesOnPid
  <2> QED
    BY <1>4, <2>1, <1>t, StepType DEF StopHolder, HoldsTypeOK
<1>5. ASSUME NEW p \in PID, StopKill(p) PROVE TypeInv'
  <2> DEFINE t == seen[p]
             dies == pc[t] \notin Catching
  <2>1. t \in PID /\ file' = file
    BY <1>5, <1>t DEF StopKill, ReliesOnPid
  <2>2. CASE Exit(p)
    <3>1. Step(p, "none", Nobody)
      BY <2>2 DEF Goto, Exit
    <3> QED
      BY <2>1, <3>1, <1>t, StepType DEF HoldsTypeOK
  <2>3. CASE ~Exit(p)
    <3>1. /\ pc' = [q \in PID |-> IF q = t /\ dies THEN "none"
                                   ELSE IF q = p THEN "poll" ELSE pc[q]]
          /\ seen' = IF dies THEN [seen EXCEPT ![t] = Nobody] ELSE seen
          /\ signalled' \in {signalled, signalled \cup {t}}
          /\ display' = display
      BY <1>5, <2>3 DEF StopKill
    <3> HIDE DEF t
    <3>2. HoldsTypeOK'
      BY <2>1, <3>1, <1>t DEF HoldsTypeOK
    <3>3. ReliesOnPid'
      BY <2>1, <3>1, <1>t DEF HoldsTypeOK, ReliesOnPid, t
    <3> QED
      BY <3>2, <3>3 DEF TypeInv
  <2> QED
    BY <2>2, <2>3
<1>6. ASSUME NEW p \in PID, EnvironmentStep(p) \/ Crash(p) PROVE TypeInv'
  <2>1. CASE Launch(p)
    <3>1. PICK l \in {"create", "stopRead", "statusRead", "foreign"} : Step(p, l, Nobody)
      BY <2>1 DEF Launch, Goto
    <3> QED
      BY <2>1, <3>1, <1>t, StepType DEF Launch, HoldsTypeOK
  <2>5. CASE ForeignEnds(p)
    BY <2>5, <1>t, StepType DEF ForeignEnds, Exit, Goto, HoldsTypeOK
  <2>2. CASE ChildExits(p)
    <3>1. pc' = [pc EXCEPT ![p] = "undisplay"]
      BY <2>2 DEF ChildExits, Awaken
    <3> QED
      BY <2>2, <3>1, <1>t DEF ChildExits, Awaken, TypeInv, HoldsTypeOK, ReliesOnPid
  <2>3. CASE Interrupt(p) \/ AssertionEnds(p)
    BY <2>3, <1>t DEF Interrupt, AssertionEnds, TypeInv, HoldsTypeOK, ReliesOnPid
  <2>4. CASE Crash(p)
    BY <2>4, <1>t DEF Crash, TypeInv, HoldsTypeOK, ReliesOnPid
  <2> QED
    BY <1>6, <2>1, <2>2, <2>3, <2>4, <2>5 DEF EnvironmentStep
<1> QED
  BY <1>1, <1>2, <1>3, <1>4, <1>5, <1>6 DEF UnixNext

\* Whatever the keeper answers, whatever fails and however the commands are
\* interleaved, the state has the types the other properties assume.
THEOREM UnixTypeOK == UnixSpec => []HoldsTypeOK
<1>1. Init => TypeInv
  BY FileTypes DEF Init, TypeInv, HoldsTypeOK, ReliesOnPid, Relying, Label
<1>2. TypeInv /\ [UnixNext]_holdVars => TypeInv'
  BY TypeStep
<1>3. TypeInv => HoldsTypeOK
  BY DEF TypeInv
<1> QED
  BY <1>1, <1>2, <1>3, PTL DEF UnixSpec

-----------------------------------------------------------------------------
(* Mutual exclusion.                                                       *)

Slots ==
  /\ SlotRecorded
  /\ WriterOwnsFile
  /\ StartsAlone
  /\ UnheldIsTrue
  /\ SeenIsOwner

Commands == Starting \cup Stopping \cup Reporting
Writing  == {"write", "unwrite"}

LEMMA Apart ==
  /\ Owning \cap (Unheld \cup Relying \cup Writing) = {}
  /\ Owning \cap Commands \subseteq Starting
BY DEF Owning, Unheld, Relying, Writing, Commands, Starting, Acquiring, Engaging, Catching, Waiting,
       Releasing, Stopping, Reporting

\* What a process that moves to l has to respect, on its own, for the slot
\* to stay exclusive.
LEMMA Keep ==
  ASSUME Slots, NEW p \in PID, NEW l, Moves(p, l),
         file' = file \/ \A q \in PID \ {p} : pc[q] \notin Owning \cup Writing,
         l \in Owning => /\ file' = Record(p, TRUE)
                         /\ \/ pc[p] \in Owning
                            \/ \A q \in PID \ {p} : pc[q] \notin Unheld \cup Relying,
         l \in Writing => file' = Record(p, FALSE),
         l \in Starting => \/ pc[p] \in Starting
                           \/ \A q \in PID \ {p} : pc[q] \notin Commands,
         l \in Commands => \/ pc[p] \in Commands
                           \/ \A q \in PID \ {p} : pc[q] \notin Starting,
         l \in Unheld => pc[p] \in Unheld \/ \A q \in PID \ {p} : pc[q] \notin Owning,
         l \in Relying => \A q \in PID \ {p} : pc[q] \in Owning => seen'[p] = q
  PROVE  Slots'
<1> USE Apart DEF Moves
<1>s. SlotRecorded /\ WriterOwnsFile /\ StartsAlone /\ UnheldIsTrue /\ SeenIsOwner
  BY DEF Slots
<1>1. SlotRecorded'
  BY <1>s DEF SlotRecorded, Owners
<1>2. WriterOwnsFile'
  BY <1>s DEF WriterOwnsFile, Writing
<1>3. StartsAlone'
  BY <1>s DEF StartsAlone, Commands
<1>4. UnheldIsTrue'
  BY <1>s DEF UnheldIsTrue
<1>5. SeenIsOwner'
  BY <1>s DEF SeenIsOwner
<1> QED
  BY <1>1, <1>2, <1>3, <1>4, <1>5 DEF Slots

LEMMA SlotStep ==
  ASSUME CarefulUse, TypeInv, Slots, [UnixNext]_holdVars
  PROVE  Slots'
<1> USE DEF Label, Starting, Acquiring, Engaging, Catching, Waiting, Releasing,
          Stopping, Reporting, Owning, Owners, Unheld, Relying, Writing, Commands
<1>t. HoldsTypeOK /\ ReliesOnPid
  BY DEF TypeInv
<1>s. SlotRecorded /\ WriterOwnsFile /\ StartsAlone /\ UnheldIsTrue /\ SeenIsOwner
  BY DEF Slots
<1>1. CASE UNCHANGED holdVars
  BY <1>1, <1>s DEF holdVars, Slots, SlotRecorded, WriterOwnsFile, StartsAlone,
                    UnheldIsTrue, SeenIsOwner
<1>2. ASSUME NEW p \in PID, CommandStep(p) \/ GiveUp(p)
      PROVE  Slots'
  <2>1. CASE Create(p)
    <3>1. PICK l \in {"write", "inspect", "none"} : Moves(p, l)
      BY <2>1, <1>t DEF Create, Goto, Exit, Step, Awaken, Moves, HoldsTypeOK
    <3> QED
      BY <2>1, <3>1, <1>t, <1>s, Keep, PIDAssumption
      DEF Create, Goto, Exit, Step, Awaken, Moves, HoldsTypeOK, readHold, Record, NoFile, WriteRecord, processAlive, CarefulUse,
          SlotRecorded, WriterOwnsFile, StartsAlone, UnheldIsTrue, SeenIsOwner
  <2>2. CASE Write(p)
    <3>1. PICK l \in {"engage", "unwrite", "none"} : Moves(p, l)
      BY <2>2, <1>t DEF Write, Goto, Exit, Step, Awaken, Moves, HoldsTypeOK
    <3> QED
      BY <2>2, <3>1, <1>t, <1>s, Keep, PIDAssumption
      DEF Write, Goto, Exit, Step, Awaken, Moves, HoldsTypeOK, readHold, Record, NoFile, WriteRecord, processAlive, CarefulUse,
          SlotRecorded, WriterOwnsFile, StartsAlone, UnheldIsTrue, SeenIsOwner
  <2>3. CASE Inspect(p)
    <3>1. PICK l \in {"alive", "reclaimFlag", "none"} : Moves(p, l)
      BY <2>3, <1>t DEF Inspect, Goto, Exit, Step, Awaken, Moves, HoldsTypeOK
    <3> QED
      BY <2>3, <3>1, <1>t, <1>s, Keep, PIDAssumption
      DEF Inspect, Goto, Exit, Step, Awaken, Moves, HoldsTypeOK, readHold, Record, NoFile, WriteRecord, processAlive, CarefulUse,
          SlotRecorded, WriterOwnsFile, StartsAlone, UnheldIsTrue, SeenIsOwner
  <2>4. CASE CheckHolder(p)
    <3>1. PICK l \in {"none", "reclaimFlag"} : Moves(p, l)
      BY <2>4, <1>t DEF CheckHolder, Goto, Exit, Step, Awaken, Moves, HoldsTypeOK
    <3> QED
      BY <2>4, <3>1, <1>t, <1>s, Keep, PIDAssumption
      DEF CheckHolder, Goto, Exit, Step, Awaken, Moves, HoldsTypeOK, readHold, Record, NoFile, WriteRecord, processAlive, CarefulUse,
          SlotRecorded, WriterOwnsFile, StartsAlone, UnheldIsTrue, SeenIsOwner
  <2>5. CASE RemovePidfile(p)
    <3>1. PICK l \in {"recreate", "none", "stopped"} : Moves(p, l)
      BY <2>5, <1>t DEF RemovePidfile, Goto, Exit, Step, Awaken, Moves, HoldsTypeOK
    <3> QED
      BY <2>5, <3>1, <1>t, <1>s, Keep, PIDAssumption
      DEF RemovePidfile, Goto, Exit, Step, Awaken, Moves, HoldsTypeOK, readHold, Record, NoFile, WriteRecord, processAlive, CarefulUse,
          SlotRecorded, WriterOwnsFile, StartsAlone, UnheldIsTrue, SeenIsOwner
  <2>6. CASE StartDisplay(p)
    <3>1. PICK l \in {"listen"} : Moves(p, l)
      BY <2>6, <1>t DEF StartDisplay, Goto, Exit, Step, Awaken, Moves, HoldsTypeOK
    <3> QED
      BY <2>6, <3>1, <1>t, <1>s, Keep, PIDAssumption
      DEF StartDisplay, Goto, Exit, Step, Awaken, Moves, HoldsTypeOK, readHold, Record, NoFile, WriteRecord, processAlive, CarefulUse,
          SlotRecorded, WriterOwnsFile, StartsAlone, UnheldIsTrue, SeenIsOwner
  <2>7. CASE Listen(p)
    <3>1. PICK l \in {"wait", "timed", "spawn"} : Moves(p, l)
      BY <2>7, <1>t DEF Listen, Goto, Exit, Step, Awaken, Moves, HoldsTypeOK
    <3> QED
      BY <2>7, <3>1, <1>t, <1>s, Keep, PIDAssumption
      DEF Listen, Goto, Exit, Step, Awaken, Moves, HoldsTypeOK, readHold, Record, NoFile, WriteRecord, processAlive, CarefulUse,
          SlotRecorded, WriterOwnsFile, StartsAlone, UnheldIsTrue, SeenIsOwner
  <2>8. CASE Spawn(p)
    <3>1. PICK l \in {"running", "undisplay"} : Moves(p, l)
      BY <2>8, <1>t DEF Spawn, Goto, Exit, Step, Awaken, Moves, HoldsTypeOK
    <3> QED
      BY <2>8, <3>1, <1>t, <1>s, Keep, PIDAssumption
      DEF Spawn, Goto, Exit, Step, Awaken, Moves, HoldsTypeOK, readHold, Record, NoFile, WriteRecord, processAlive, CarefulUse,
          SlotRecorded, WriterOwnsFile, StartsAlone, UnheldIsTrue, SeenIsOwner
  <2>9. CASE TakeSignal(p)
    <3>1. PICK l \in {"undisplay", "grace"} : Moves(p, l)
      BY <2>9, <1>t DEF TakeSignal, Goto, Exit, Step, Awaken, Moves, HoldsTypeOK
    <3> QED
      BY <2>9, <3>1, <1>t, <1>s, Keep, PIDAssumption
      DEF TakeSignal, Goto, Exit, Step, Awaken, Moves, HoldsTypeOK, readHold, Record, NoFile, WriteRecord, processAlive, CarefulUse,
          SlotRecorded, WriterOwnsFile, StartsAlone, UnheldIsTrue, SeenIsOwner
  <2>10. CASE Deadline(p)
    <3>1. PICK l \in {"undisplay"} : Moves(p, l)
      BY <2>10, <1>t DEF Deadline, Goto, Exit, Step, Awaken, Moves, HoldsTypeOK
    <3> QED
      BY <2>10, <3>1, <1>t, <1>s, Keep, PIDAssumption
      DEF Deadline, Goto, Exit, Step, Awaken, Moves, HoldsTypeOK, readHold, Record, NoFile, WriteRecord, processAlive, CarefulUse,
          SlotRecorded, WriterOwnsFile, StartsAlone, UnheldIsTrue, SeenIsOwner
  <2>11. CASE GraceEnds(p)
    <3>1. PICK l \in {"killed"} : Moves(p, l)
      BY <2>11, <1>t DEF GraceEnds, Goto, Exit, Step, Awaken, Moves, HoldsTypeOK
    <3> QED
      BY <2>11, <3>1, <1>t, <1>s, Keep, PIDAssumption
      DEF GraceEnds, Goto, Exit, Step, Awaken, Moves, HoldsTypeOK, readHold, Record, NoFile, WriteRecord, processAlive, CarefulUse,
          SlotRecorded, WriterOwnsFile, StartsAlone, UnheldIsTrue, SeenIsOwner
  <2>12. CASE Reap(p)
    <3>1. PICK l \in {"undisplay"} : Moves(p, l)
      BY <2>12, <1>t DEF Reap, Goto, Exit, Step, Awaken, Moves, HoldsTypeOK
    <3> QED
      BY <2>12, <3>1, <1>t, <1>s, Keep, PIDAssumption
      DEF Reap, Goto, Exit, Step, Awaken, Moves, HoldsTypeOK, readHold, Record, NoFile, WriteRecord, processAlive, CarefulUse,
          SlotRecorded, WriterOwnsFile, StartsAlone, UnheldIsTrue, SeenIsOwner
  <2>13. CASE StopDisplay(p)
    <3>1. PICK l \in {"own"} : Moves(p, l)
      BY <2>13, <1>t DEF StopDisplay, Goto, Exit, Step, Awaken, Moves, HoldsTypeOK
    <3> QED
      BY <2>13, <3>1, <1>t, <1>s, Keep, PIDAssumption
      DEF StopDisplay, Goto, Exit, Step, Awaken, Moves, HoldsTypeOK, readHold, Record, NoFile, WriteRecord, processAlive, CarefulUse,
          SlotRecorded, WriterOwnsFile, StartsAlone, UnheldIsTrue, SeenIsOwner
  <2>14. CASE OwnershipGuard(p)
    <3>1. PICK l \in {"relDisengage", "none"} : Moves(p, l)
      BY <2>14, <1>t DEF OwnershipGuard, Goto, Exit, Step, Awaken, Moves, HoldsTypeOK
    <3> QED
      BY <2>14, <3>1, <1>t, <1>s, Keep, PIDAssumption
      DEF OwnershipGuard, Goto, Exit, Step, Awaken, Moves, HoldsTypeOK, readHold, Record, NoFile, WriteRecord, processAlive, CarefulUse,
          SlotRecorded, WriterOwnsFile, StartsAlone, UnheldIsTrue, SeenIsOwner
  <2>15. CASE StopRead(p)
    <3>1. PICK l \in {"stopAlive", "clearFlag", "none"} : Moves(p, l)
      BY <2>15, <1>t DEF StopRead, Goto, Exit, Step, Awaken, Moves, HoldsTypeOK
    <3> QED
      BY <2>15, <3>1, <1>t, <1>s, Keep, PIDAssumption
      DEF StopRead, Goto, Exit, Step, Awaken, Moves, HoldsTypeOK, readHold, Record, NoFile, WriteRecord, processAlive, CarefulUse,
          SlotRecorded, WriterOwnsFile, StartsAlone, UnheldIsTrue, SeenIsOwner
  <2>16. CASE StopAlive(p)
    <3>1. PICK l \in {"stopHolder", "clearFlag"} : Moves(p, l)
      BY <2>16, <1>t DEF StopAlive, Goto, Exit, Step, Awaken, Moves, HoldsTypeOK
    <3> QED
      BY <2>16, <3>1, <1>t, <1>s, Keep, PIDAssumption
      DEF StopAlive, Goto, Exit, Step, Awaken, Moves, HoldsTypeOK, readHold, Record, NoFile, WriteRecord, processAlive, CarefulUse,
          SlotRecorded, WriterOwnsFile, StartsAlone, UnheldIsTrue, SeenIsOwner
  <2>17. CASE PollFile(p)
    <3>1. PICK l \in {"pollAlive", "stopFlag"} : Moves(p, l)
      BY <2>17, <1>t DEF PollFile, Goto, Exit, Step, Awaken, Moves, HoldsTypeOK
    <3> QED
      BY <2>17, <3>1, <1>t, <1>s, Keep, PIDAssumption
      DEF PollFile, Goto, Exit, Step, Awaken, Moves, HoldsTypeOK, readHold, Record, NoFile, WriteRecord, processAlive, CarefulUse,
          SlotRecorded, WriterOwnsFile, StartsAlone, UnheldIsTrue, SeenIsOwner
  <2>18. CASE PollAlive(p)
    <3>1. PICK l \in {"poll", "stopFlag"} : Moves(p, l)
      BY <2>18, <1>t DEF PollAlive, Goto, Exit, Step, Awaken, Moves, HoldsTypeOK
    <3> QED
      BY <2>18, <3>1, <1>t, <1>s, Keep, PIDAssumption
      DEF PollAlive, Goto, Exit, Step, Awaken, Moves, HoldsTypeOK, readHold, Record, NoFile, WriteRecord, processAlive, CarefulUse,
          SlotRecorded, WriterOwnsFile, StartsAlone, UnheldIsTrue, SeenIsOwner
  <2>19. CASE StatusRead(p)
    <3>1. PICK l \in {"statusAlive", "statusFlag", "none"} : Moves(p, l)
      BY <2>19, <1>t DEF StatusRead, Goto, Exit, Step, Awaken, Moves, HoldsTypeOK
    <3> QED
      BY <2>19, <3>1, <1>t, <1>s, Keep, PIDAssumption
      DEF StatusRead, Goto, Exit, Step, Awaken, Moves, HoldsTypeOK, readHold, Record, NoFile, WriteRecord, processAlive, CarefulUse,
          SlotRecorded, WriterOwnsFile, StartsAlone, UnheldIsTrue, SeenIsOwner
  <2>20. CASE StatusAlive(p)
    <3>1. PICK l \in {"sayActive", "statusFlag"} : Moves(p, l)
      BY <2>20, <1>t DEF StatusAlive, Goto, Exit, Step, Awaken, Moves, HoldsTypeOK
    <3> QED
      BY <2>20, <3>1, <1>t, <1>s, Keep, PIDAssumption
      DEF StatusAlive, Goto, Exit, Step, Awaken, Moves, HoldsTypeOK, readHold, Record, NoFile, WriteRecord, processAlive, CarefulUse,
          SlotRecorded, WriterOwnsFile, StartsAlone, UnheldIsTrue, SeenIsOwner
  <2>21. CASE Leave(p)
    <3>1. PICK l \in {"none"} : Moves(p, l)
      BY <2>21, <1>t DEF Leave, Goto, Exit, Step, Awaken, Moves, HoldsTypeOK
    <3> QED
      BY <2>21, <3>1, <1>t, <1>s, Keep, PIDAssumption
      DEF Leave, Goto, Exit, Step, Awaken, Moves, HoldsTypeOK, readHold, Record, NoFile, WriteRecord, processAlive, CarefulUse,
          SlotRecorded, WriterOwnsFile, StartsAlone, UnheldIsTrue, SeenIsOwner
  <2>22. CASE GiveUp(p)
    <3>1. PICK l \in {"stopFlag"} : Moves(p, l)
      BY <2>22, <1>t DEF GiveUp, Goto, Exit, Step, Awaken, Moves, HoldsTypeOK
    <3> QED
      BY <2>22, <3>1, <1>t, <1>s, Keep, PIDAssumption
      DEF GiveUp, Goto, Exit, Step, Awaken, Moves, HoldsTypeOK, readHold, Record, NoFile, WriteRecord, processAlive, CarefulUse,
          SlotRecorded, WriterOwnsFile, StartsAlone, UnheldIsTrue, SeenIsOwner
  <2> QED
    BY <1>2, <2>1, <2>2, <2>3, <2>4, <2>5, <2>6, <2>7, <2>8, <2>9, <2>10, <2>11, <2>12, <2>13, <2>14, <2>15, <2>16, <2>17, <2>18, <2>19, <2>20, <2>21, <2>22 DEF CommandStep
<1>3. ASSUME NEW p \in PID, AnyKeeper(p)
      PROVE  Slots'
  <2>1. CASE \E b \in BOOLEAN : FlagRead(p, b)
    <3>1. PICK l \in {"reclaimDisengage", "reclaimRemove", "stopDisengage", "stopped",
                      "clearDisengage", "tidyRemove", "sayStranded", "sayNormal"} : Moves(p, l)
      BY <2>1, <1>t DEF FlagRead, Goto, Step, Moves, HoldsTypeOK
    <3>2. file' = file /\ pc[p] \in {"reclaimFlag", "stopFlag", "clearFlag", "statusFlag"}
      BY <2>1 DEF FlagRead
    <3>3. l \in {"reclaimDisengage", "reclaimRemove"} => pc[p] = "reclaimFlag"
      BY <2>1, <3>1, <1>t DEF FlagRead, Goto, Step, Moves, HoldsTypeOK
    <3> QED
      BY <3>1, <3>2, <3>3, Keep
  <2>2. CASE \E b \in BOOLEAN : EngageReturns(p, b)
    <3>1. PICK l \in {"display", "abortDisengage"} : Moves(p, l)
      BY <2>2, <1>t DEF EngageReturns, Goto, Step, Moves, HoldsTypeOK
    <3> QED
      BY <2>2, <3>1, <1>s, Keep DEF EngageReturns, SlotRecorded
  <2>3. CASE \E b \in BOOLEAN : DisengageReturns(p, b)
    <3>1. PICK l \in {"reclaimRemove", "abortRemove", "relRemove", "stopRemove",
                      "clearRemove", "none"} : Moves(p, l)
      BY <2>3, <1>t DEF DisengageReturns, Goto, Step, Moves, HoldsTypeOK
    <3>2. file' = file
      BY <2>3 DEF DisengageReturns
    <3>3. /\ l = "reclaimRemove" => pc[p] = "reclaimDisengage"
          /\ l = "abortRemove" => pc[p] = "abortDisengage"
          /\ l = "relRemove" => pc[p] = "relDisengage"
          /\ l = "stopRemove" => pc[p] = "stopDisengage"
          /\ l = "clearRemove" => pc[p] = "clearDisengage"
      BY <2>3, <3>1, <1>t DEF DisengageReturns, Goto, Step, Moves, HoldsTypeOK
    <3> QED
      BY <3>1, <3>2, <3>3, <1>s, Keep DEF SlotRecorded
  <2> QED
    BY <1>3, <2>1, <2>2, <2>3 DEF AnyKeeper
<1>4. ASSUME NEW p \in PID, StopHolder(p)
      PROVE  Slots'
  <2>1. PICK l \in {"stopKill", "clearFlag"} : Moves(p, l)
    BY <1>4, <1>t DEF StopHolder, Goto, Step, Moves, HoldsTypeOK
  <2>2. l = "clearFlag" => ~isLidspeculum(seen[p])
    BY <1>4, <2>1, <1>t DEF StopHolder, Goto, Step, Moves, HoldsTypeOK, CarefulUse
  <2>3. l = "stopKill" => seen'[p] = seen[p]
    BY <1>4, <2>1, <1>t DEF StopHolder, Goto, Step, Moves, HoldsTypeOK
  <2> QED
    BY <1>4, <2>1, <2>2, <2>3, <1>s, Keep DEF StopHolder, isLidspeculum, SeenIsOwner
<1>5. ASSUME NEW p \in PID, StopKill(p)
      PROVE  Slots'
  <2> DEFINE t == seen[p]
             dies == pc[t] \notin Catching
  <2>1. t \in PID /\ file' = file /\ pc[p] = "stopKill"
    BY <1>5, <1>t DEF StopKill, ReliesOnPid
  <2>2. CASE Exit(p)
    <3>1. Moves(p, "none")
      BY <2>2, <1>t DEF Goto, Exit, Step, Moves, HoldsTypeOK
    <3> QED
      BY <2>1, <3>1, Keep
  <2>3. CASE ~Exit(p) /\ ~dies
    <3>1. Moves(p, "poll") /\ seen' = seen
      BY <1>5, <2>1, <2>3, <1>t DEF StopKill, Moves, HoldsTypeOK
    <3> QED
      BY <2>1, <3>1, <1>s, Keep DEF SeenIsOwner
  <2>4. CASE ~Exit(p) /\ dies
    <3>1. \A q \in PID : pc[q] \notin Owning
      BY <2>1, <2>4, <1>s DEF SeenIsOwner, StartsAlone
    <3>2. \A q \in PID : \/ pc'[q] \in {pc[q], "none"}
                         \/ q = p /\ pc'[q] = "poll"
      BY <1>5, <2>1, <2>4, <1>t DEF StopKill, HoldsTypeOK
    <3>3. \A q \in PID : pc'[q] \notin Owning
      BY <3>1, <3>2
    <3>4. WriterOwnsFile'
      BY <2>1, <3>2, <1>s DEF WriterOwnsFile
    <3>5. StartsAlone'
      BY <2>1, <3>2, <1>s DEF StartsAlone
    <3> QED
      BY <3>3, <3>4, <3>5 DEF Slots, SlotRecorded, UnheldIsTrue, SeenIsOwner
  <2> QED
    BY <2>2, <2>3, <2>4
<1>6. ASSUME NEW p \in PID, EnvironmentStep(p) \/ Crash(p)
      PROVE  Slots'
  <2>1. CASE Launch(p)
    <3>1. PICK l \in {"create", "stopRead", "statusRead", "foreign"} : MayLaunch(l) /\ Moves(p, l)
      BY <2>1, <1>t DEF Launch, Goto, Step, Moves, HoldsTypeOK
    <3>2. file' = file /\ Serial
      BY <2>1 DEF Launch, CarefulUse
    <3>3. /\ l = "create" => \A q \in PID : pc[q] \notin Commands
          /\ l \in {"stopRead", "statusRead"} => \A q \in PID : pc[q] \notin Starting
      BY <3>1, <3>2 DEF MayLaunch
    <3> HIDE DEF Starting, Stopping, Reporting, Commands
    <3>4. /\ l \in Starting => l = "create"
          /\ l \in Commands => l \in {"create", "stopRead", "statusRead"}
          /\ l \notin Owning \cup Writing \cup Unheld \cup Relying
          /\ Starting \subseteq Commands
      BY <3>1 DEF Starting, Stopping, Reporting, Commands
    <3> QED
      BY <3>1, <3>2, <3>3, <3>4, Keep
  <2>5. CASE ForeignEnds(p)
    <3>1. Moves(p, "none") /\ file' = file
      BY <2>5, <1>t DEF ForeignEnds, Exit, Goto, Step, Moves, HoldsTypeOK
    <3> QED
      BY <3>1, Keep
  <2>2. CASE ChildExits(p)
    <3>1. Moves(p, "undisplay") /\ pc[p] \in {"running", "grace"} /\ file' = file
      BY <2>2, <1>t DEF ChildExits, Awaken, Moves, HoldsTypeOK
    <3> QED
      BY <3>1, <1>s, Keep DEF SlotRecorded
  <2>3. CASE Interrupt(p) \/ AssertionEnds(p)
    BY <2>3, <1>s DEF Interrupt, AssertionEnds, Slots, SlotRecorded, WriterOwnsFile,
                      StartsAlone, UnheldIsTrue, SeenIsOwner
  <2>4. CASE Crash(p)
    <3>1. Moves(p, "none") /\ file' = file
      BY <2>4, <1>t DEF Crash, Moves, HoldsTypeOK
    <3> QED
      BY <3>1, Keep
  <2> QED
    BY <1>6, <2>1, <2>2, <2>3, <2>4, <2>5 DEF EnvironmentStep
<1> QED
  BY <1>1, <1>2, <1>3, <1>4, <1>5, <1>6 DEF UnixNext

\* The inductive invariant.
THEOREM SlotInvariant == ASSUME CarefulUse PROVE UnixSpec => []SlotInv
<1>1. Init => TypeInv /\ Slots
  <2> SUFFICES ASSUME Init PROVE TypeInv /\ Slots
    OBVIOUS
  <2>1. \A p \in PID : pc[p] = "none"
    BY DEF Init
  <2>2. TypeInv
    BY FileTypes DEF Init, TypeInv, HoldsTypeOK, ReliesOnPid, Relying, Label
  <2>3. Slots
    BY <2>1 DEF Slots, SlotRecorded, WriterOwnsFile, StartsAlone, UnheldIsTrue, SeenIsOwner,
                Owners, Owning, Engaging, Catching, Waiting, Releasing, Starting, Acquiring,
                Unheld, Relying
  <2> QED
    BY <2>2, <2>3
<1>2. TypeInv /\ Slots /\ [UnixNext]_holdVars => (TypeInv /\ Slots)'
  BY TypeStep, SlotStep
<1>3. TypeInv /\ Slots => SlotInv
  BY DEF TypeInv, Slots, SlotInv
<1> QED
  BY <1>1, <1>2, <1>3, PTL DEF UnixSpec

\* The pidfile of a careful user is always the record of the hold.
THEOREM PidfileIsTheRecord == ASSUME CarefulUse PROVE UnixSpec => []SlotRecorded
<1>1. SlotInv => SlotRecorded
  BY DEF SlotInv
<1> QED
  BY <1>1, SlotInvariant, PTL

\* A careful user never has two holds at once, whatever the OS lever does.
THEOREM SlotIsExclusive == ASSUME CarefulUse PROVE UnixSpec => []OneHold
<1>1. SlotInv => OneHold
  <2> SUFFICES ASSUME SlotRecorded, NEW p \in Owners, NEW q \in Owners PROVE p = q
    BY DEF SlotInv, OneHold
  <2>1. file = Record(p, TRUE) /\ file = Record(q, TRUE)
    BY DEF SlotRecorded
  <2> QED
    BY <2>1 DEF Record
<1> QED
  BY <1>1, SlotInvariant, PTL

\* How a process takes the slot, engages, holds and releases: in this order,
\* and no label is reached but from the part before it.
Hands(l, m) ==
  /\ m = "engage" => l \in {"engage", "write"}
  /\ m \in {"abortDisengage", "abortRemove"} => l \in {"engage", "abortDisengage", "abortRemove"}
  /\ m \in Held => l \in Held \cup {"engage"}
  /\ m \in {"relDisengage", "relRemove"} => l \in {"own", "relDisengage", "relRemove"}

LEMMA OwnersMove ==
  ASSUME TypeInv, [UnixNext]_holdVars, NEW q \in PID
  PROVE  Hands(pc[q], pc'[q])
<1> USE DEF Hands, Held, Waiting
<1>t. HoldsTypeOK
  BY DEF TypeInv
<1>1. CASE UNCHANGED holdVars
  BY <1>1 DEF holdVars
<1>2. ASSUME NEW p \in PID, CommandStep(p) \/ GiveUp(p)
      PROVE  Hands(pc[q], pc'[q])
  <2>1. CASE Create(p) \/ Write(p) \/ Inspect(p)
    BY <2>1, <1>t DEF Goto, Exit, Step, Awaken, HoldsTypeOK,
      Create, Write, Inspect
  <2>2. CASE CheckHolder(p) \/ RemovePidfile(p) \/ StartDisplay(p)
    BY <2>2, <1>t DEF Goto, Exit, Step, Awaken, HoldsTypeOK,
      CheckHolder, RemovePidfile, StartDisplay
  <2>3. CASE Listen(p) \/ Spawn(p) \/ TakeSignal(p)
    BY <2>3, <1>t DEF Goto, Exit, Step, Awaken, HoldsTypeOK,
      Listen, Spawn, TakeSignal
  <2>4. CASE Deadline(p) \/ GraceEnds(p) \/ Reap(p) \/ StopDisplay(p)
    BY <2>4, <1>t DEF Goto, Exit, Step, Awaken, HoldsTypeOK,
      Deadline, GraceEnds, Reap, StopDisplay
  <2>5. CASE OwnershipGuard(p) \/ StopRead(p) \/ StopAlive(p)
    BY <2>5, <1>t DEF Goto, Exit, Step, Awaken, HoldsTypeOK,
      OwnershipGuard, StopRead, StopAlive
  <2>6. CASE PollFile(p) \/ PollAlive(p) \/ GiveUp(p)
    BY <2>6, <1>t DEF Goto, Exit, Step, Awaken, HoldsTypeOK,
      PollFile, PollAlive, GiveUp
  <2>7. CASE StatusRead(p) \/ StatusAlive(p) \/ Leave(p)
    BY <2>7, <1>t DEF Goto, Exit, Step, Awaken, HoldsTypeOK,
      StatusRead, StatusAlive, Leave
  <2> QED
    BY <1>2, <2>1, <2>2, <2>3, <2>4, <2>5, <2>6, <2>7 DEF CommandStep
<1>3. ASSUME NEW p \in PID, AnyKeeper(p) \/ StopHolder(p) \/ StopKill(p)
      PROVE  Hands(pc[q], pc'[q])
  BY <1>3, <1>t DEF AnyKeeper, FlagRead, EngageReturns, DisengageReturns, StopHolder, StopKill,
                    Goto, Exit, Step, HoldsTypeOK
<1>4. ASSUME NEW p \in PID, EnvironmentStep(p) \/ Crash(p)
      PROVE  Hands(pc[q], pc'[q])
  BY <1>4, <1>t DEF EnvironmentStep, Launch, ForeignEnds, ChildExits, Interrupt, AssertionEnds,
                    Crash, Awaken, Goto, Exit, Step, HoldsTypeOK
<1> QED
  BY <1>1, <1>2, <1>3, <1>4 DEF UnixNext

\* Only who has written its record becomes an owner.
LEMMA OwnersGrow ==
  ASSUME TypeInv, [UnixNext]_holdVars, NEW q \in PID, pc'[q] \in Owning
  PROVE  pc[q] \in Owning \cup {"write"}
BY OwnersMove DEF Hands, Held, Owning, Engaging, Catching, Waiting, Releasing

-----------------------------------------------------------------------------
(* Display assertions, with no assumption on use or faults.                *)

LEMMA DisplayStep ==
  ASSUME HoldsTypeOK, DisplayOwned, [UnixNext]_holdVars
  PROVE  DisplayOwned'
<1> USE DEF HoldsTypeOK, DisplayOwned, Waiting, Goto, Exit, Step, Awaken
<1>1. CASE UNCHANGED holdVars
  BY <1>1 DEF holdVars
<1>2. ASSUME NEW p \in PID, CommandStep(p) \/ GiveUp(p)
      PROVE  DisplayOwned'
  <2>1. CASE Create(p) \/ Write(p) \/ Inspect(p)
    BY <2>1 DEF Create, Write, Inspect
  <2>2. CASE CheckHolder(p) \/ RemovePidfile(p) \/ StartDisplay(p)
    BY <2>2 DEF CheckHolder, RemovePidfile, StartDisplay
  <2>3. CASE Listen(p) \/ Spawn(p) \/ TakeSignal(p)
    BY <2>3 DEF Listen, Spawn, TakeSignal
  <2>4. CASE Deadline(p) \/ GraceEnds(p) \/ Reap(p) \/ StopDisplay(p)
    BY <2>4 DEF Deadline, GraceEnds, Reap, StopDisplay
  <2>5. CASE OwnershipGuard(p) \/ StopRead(p) \/ StopAlive(p)
    BY <2>5 DEF OwnershipGuard, StopRead, StopAlive
  <2>6. CASE PollFile(p) \/ PollAlive(p) \/ GiveUp(p)
    BY <2>6 DEF PollFile, PollAlive, GiveUp
  <2>7. CASE StatusRead(p) \/ StatusAlive(p) \/ Leave(p)
    BY <2>7 DEF StatusRead, StatusAlive, Leave
  <2> QED
    BY <1>2, <2>1, <2>2, <2>3, <2>4, <2>5, <2>6, <2>7 DEF CommandStep
<1>3. ASSUME NEW p \in PID, AnyKeeper(p) \/ StopHolder(p)
      PROVE  DisplayOwned'
  BY <1>3 DEF AnyKeeper, FlagRead, EngageReturns, DisengageReturns, StopHolder
<1>4. ASSUME NEW p \in PID, StopKill(p)
      PROVE  DisplayOwned'
  <2>1. /\ display' = display
        /\ \A q \in PID : \/ pc'[q] \in {pc[q], "none"}
                          \/ q = p /\ pc[p] = "stopKill"
    BY <1>4 DEF StopKill
  <2> QED
    BY <2>1
<1>5. ASSUME NEW p \in PID, EnvironmentStep(p) \/ Crash(p)
      PROVE  DisplayOwned'
  BY <1>5 DEF EnvironmentStep, Launch, ForeignEnds, ChildExits, Interrupt, AssertionEnds, Crash
<1> QED
  BY <1>1, <1>2, <1>3, <1>4, <1>5 DEF UnixNext

\* Whatever overlaps, fails or crashes, a process that is past StopDisplay has
\* no display assertion left up, whether it was superseded or not.
THEOREM DisplayIsOwned == UnixSpec => []DisplayOwned
<1>1. Init => DisplayOwned
  BY DEF Init, DisplayOwned
<1>2. HoldsTypeOK /\ DisplayOwned /\ [UnixNext]_holdVars => DisplayOwned'
  BY DisplayStep
<1> QED
  BY <1>1, <1>2, UnixTypeOK, PTL DEF UnixSpec
=============================================================================
