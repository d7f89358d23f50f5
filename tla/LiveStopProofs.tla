--------------------------- MODULE LiveStopProofs ---------------------------
(***************************************************************************)
(* Proofs about the Windows users who stop holds that are alive.  stop     *)
(* restores the setting and removes the pidfile itself while the hold goes *)
(* on and later restores too, so the pidfile is no longer the record of    *)
(* the hold, and restores do overlap.                                      *)
(***************************************************************************)
EXTENDS LidProofs

\* The user starts no hold beside one that stop went past, as long as that one
\* is alive; and no command overlaps a start.  Anything may fail.
NoneOutlived == Serial /\ \A u \in Users : "outlived" \notin u.may

-----------------------------------------------------------------------------
(* One step of the commands.                                               *)

\* The labels at which the pidfile is removed.
Removing == {"unwrite", "reclaimRemove", "abortRemove", "relRemove", "stopRemove",
             "clearRemove", "tidyRemove", "stopDrop"}

\* The labels at which a start has found that there is no hold.
Vacant == {"write", "unwrite", "reclaimFlag", "reclaimDisengage", "reclaimRemove", "recreate"}

\* What p does to the pidfile on its way to label l.
FileCourse(p, l) ==
  \/ file' = file
  \/ file' = NoFile /\ pc[p] \in Removing /\ (pc[p] \in Owning => l = "none")
  \/ file = NoFile /\ file' = Record(p, FALSE) /\ l = "write"
  \/ pc[p] = "write" /\ file.by = p /\ file' = Record(p, TRUE) /\ l \in {"engage", "none"}

Launched(p) == pc[p] = "none" /\ Launch(p) /\ Spared(p)

\* Where p came from, and what it found there.
StartCourse(p, l) ==
  /\ l = "create" => Launched(p)
  /\ l \in Starting => pc[p] \in Starting \/ l = "create"
  /\ l \in Acquiring => pc[p] \in Acquiring \/ l = "create"
  /\ l = "write" => pc[p] \in Acquiring /\ file = NoFile /\ file' = Record(p, FALSE)
  /\ l = "unwrite" => pc[p] = "write" /\ file' = file
  /\ l = "alive" => pc[p] = "inspect" /\ readHold # Nobody /\ seen'[p] = readHold
  /\ l \in Vacant \ {"write"} =>
       \/ pc[p] \in Vacant
       \/ pc[p] = "inspect" /\ readHold = Nobody
       \/ pc[p] = "alive" /\ pc[seen[p]] = "none"
  /\ l \in Engaging => \/ pc[p] \in Engaging /\ file' = file
                       \/ pc[p] = "write" /\ file' = IF file.by = p THEN Record(p, TRUE) ELSE file
  /\ l \in Owning => pc[p] \in Owning \/ (pc[p] = "write" /\ l = "engage")

StopCourse(p, l) ==
  /\ l \in {"stopRead", "statusRead"} => Launched(p)
  /\ l \in Stopping => pc[p] \in Stopping \/ l = "stopRead"
  /\ l \in Reporting => pc[p] \in Reporting \/ l = "statusRead"
  /\ l = "stopAlive" => pc[p] = "stopRead" /\ readHold # Nobody /\ seen'[p] = readHold
  /\ l = "clearFlag" => \/ pc[p] = "stopRead" /\ readHold = Nobody
                        \/ pc[p] = "stopAlive" /\ pc[seen[p]] = "none"
  /\ l = "stopHolder" => pc[p] = "stopAlive" /\ seen'[p] = seen[p]

Course(p, l) == Moves(p, l) /\ FileCourse(p, l) /\ StartCourse(p, l) /\ StopCourse(p, l)

LEMMA MovedCourse ==
  ASSUME HoldsTypeOK, NEW p \in PID, Moved(p)
  PROVE  \E l : Course(p, l)
<1> USE DEF Course, FileCourse, StartCourse, Launched, StopCourse, Moves, Removing, Vacant, Starting,
            Acquiring, Owning, Engaging, Catching, Waiting, Releasing, Stopping, Reporting,
            HoldsTypeOK, Goto, Exit, Step, Awaken
<1>1. CASE Create(p)
  BY <1>1 DEF Create
<1>2. CASE Write(p)
  BY <1>2 DEF Write, WriteRecord
<1>3. CASE Inspect(p) \/ CheckHolder(p)
  BY <1>3 DEF Inspect, CheckHolder, processAlive
<1>4. CASE RemovePidfile(p)
  BY <1>4 DEF RemovePidfile
<1>5. CASE StartDisplay(p) \/ Listen(p) \/ Spawn(p)
  BY <1>5 DEF StartDisplay, Listen, Spawn
<1>6. CASE TakeSignal(p) \/ Deadline(p)
  BY <1>6 DEF TakeSignal, Deadline
<1>7. CASE GraceEnds(p) \/ Reap(p)
  BY <1>7 DEF GraceEnds, Reap
<1>8. CASE StopDisplay(p) \/ OwnershipGuard(p)
  BY <1>8 DEF StopDisplay, OwnershipGuard
<1>9. CASE StopRead(p)
  BY <1>9 DEF StopRead
<1>10. CASE StopAlive(p)
  BY <1>10 DEF StopAlive, processAlive
<1>11. CASE PollFile(p) \/ PollAlive(p) \/ GiveUp(p)
  BY <1>11 DEF PollFile, PollAlive, GiveUp
<1>12. CASE StatusRead(p) \/ StatusAlive(p) \/ Leave(p)
  BY <1>12 DEF StatusRead, StatusAlive, Leave
<1>13. CASE AnyKeeper(p)
  BY <1>13 DEF AnyKeeper, FlagRead, EngageReturns, DisengageReturns
<1>14. CASE StopEnds(p)
  BY <1>14 DEF StopEnds, StopDrop
<1>15. CASE Launch(p) /\ Spared(p)
  BY <1>15 DEF Launch
<1>16. CASE ForeignEnds(p) \/ Crash(p)
  BY <1>16 DEF ForeignEnds, Crash
<1>17. CASE ChildExits(p) \/ Interrupt(p) \/ AssertionEnds(p)
  BY <1>17 DEF ChildExits, Interrupt, AssertionEnds
<1> QED
  BY <1>1, <1>2, <1>3, <1>4, <1>5, <1>6, <1>7, <1>8, <1>9, <1>10, <1>11, <1>12, <1>13, <1>14,
     <1>15, <1>16, <1>17 DEF Moved, CommandStep, EnvironmentStep
-----------------------------------------------------------------------------
(* Mutual exclusion although the pidfile may go while its owner lives.     *)

\* A start still owns the file it wrote; a hold has it until a stop takes it.
EngagerRecorded == \A p \in PID : pc[p] \in Engaging => file = Record(p, TRUE)
OwnerOnRecord   == \A p \in Owners : file \in {Record(p, TRUE), NoFile}

\* A start runs only while the hold it may meet is on record, and who found
\* that there is none is right.
StartMeetsRecord == \A p, q \in PID : pc[p] \in Acquiring /\ pc[q] \in Owning => file = Record(q, TRUE)
VacantIsTrue     == \A p, q \in PID : pc[p] \in Vacant => pc[q] \notin Owning

\* Who is about to look whether the process on record lives, or to end it, looks
\* at the owner.
LooksAtOwner ==
  \A p, q \in PID :
    pc[p] \in {"alive", "stopAlive", "stopHolder"} /\ pc[q] \in Owning => seen[p] = q

LooseSlots ==
  /\ OneHold /\ WriterOwnsFile /\ StartsAlone
  /\ EngagerRecorded /\ OwnerOnRecord /\ StartMeetsRecord /\ VacantIsTrue /\ LooksAtOwner

LEMMA StartsAloneStep ==
  ASSUME Serial, HoldsTypeOK, StartsAlone, NEW p \in PID, NEW l, Course(p, l)
  PROVE  StartsAlone'
<1>m. /\ pc'[p] = l /\ \A q \in PID \ {p} : pc'[q] = pc[q]
  BY DEF Course, Moves
<1>1. ASSUME Launch(p) PROVE \/ l = "create" /\ \A q \in PID : pc[q] \notin Starting \cup Stopping \cup Reporting
                             \/ l \in {"stopRead", "statusRead"} /\ \A q \in PID : pc[q] \notin Starting
                             \/ l = "foreign"
  BY <1>1, <1>m DEF Launch, MayLaunch, Goto, Step, HoldsTypeOK
<1>2. l \in Starting => \/ pc[p] \in Starting
                       \/ \A q \in PID : pc[q] \notin Starting \cup Stopping \cup Reporting
  <2> SUFFICES ASSUME l = "create", Launch(p)
               PROVE  \A q \in PID : pc[q] \notin Starting \cup Stopping \cup Reporting
    BY DEF Course, StartCourse, Launched
  <2> QED
    BY <1>1
<1>3. l \in Stopping \cup Reporting => \/ pc[p] \in Stopping \cup Reporting
                                       \/ \A q \in PID : pc[q] \notin Starting
  <2> SUFFICES ASSUME l \in {"stopRead", "statusRead"}, Launch(p)
               PROVE  \A q \in PID : pc[q] \notin Starting
    BY DEF Course, StopCourse, Launched
  <2> QED
    BY <1>1
<1> HIDE DEF Course
<1> QED
  BY <1>m, <1>2, <1>3 DEF StartsAlone

LEMMA LooseSlotsStep ==
  ASSUME Serial, "outlived" \notin user.may, TypeInv, LooseSlots, [Next]_vars
  PROVE  LooseSlots'
<1>t. /\ HoldsTypeOK /\ OneHold /\ WriterOwnsFile /\ StartsAlone
      /\ EngagerRecorded /\ OwnerOnRecord /\ StartMeetsRecord /\ VacantIsTrue /\ LooksAtOwner
  BY DEF LooseSlots, TypeInv
<1>1. CASE UNCHANGED holdVars
  BY <1>1, <1>t DEF holdVars, LooseSlots, OneHold, WriterOwnsFile, StartsAlone, EngagerRecorded,
                    OwnerOnRecord, StartMeetsRecord, VacantIsTrue, LooksAtOwner, Owners
<1>2. ASSUME NEW p \in PID, Moved(p) PROVE LooseSlots'
  <2>1. PICK l : Course(p, l)
    BY <1>2, <1>t, MovedCourse
  <2>m. /\ pc'[p] = l
        /\ \A q \in PID \ {p} : pc'[q] = pc[q] /\ seen'[q] = seen[q]
    BY <2>1 DEF Course, Moves
  <2>c. FileCourse(p, l) /\ StartCourse(p, l) /\ StopCourse(p, l)
    BY <2>1 DEF Course
  <2>r. readHold # Nobody => file = Record(readHold, TRUE)
    BY <1>t DEF readHold, Record, HoldsTypeOK, Files
  <2>n. \A q \in PID : /\ Record(q, TRUE) # NoFile /\ Record(q, FALSE) # NoFile
                       /\ file = Record(q, TRUE) => readHold = q
                       /\ file = Record(q, TRUE) => file.by = q
                       /\ file = Record(q, FALSE) => file.by = q /\ file # Record(q, TRUE)
    BY PIDAssumption DEF readHold, Record, NoFile
  <2>l. /\ Engaging \subseteq Owning /\ Acquiring \subseteq Starting /\ Engaging \subseteq Starting
        /\ Vacant \subseteq Acquiring /\ "write" \in Vacant /\ "unwrite" \in Vacant
        /\ "create" \in Acquiring \ Vacant /\ "alive" \in Acquiring /\ "inspect" \in Acquiring
        /\ Acquiring \cap Owning = {} /\ Acquiring \cap Stopping = {} /\ "none" \notin Owning \cup Acquiring \cup Stopping
        /\ {"stopAlive", "stopRead", "stopHolder"} \subseteq Stopping /\ Stopping \cap Owning = {}
        /\ "engage" \in Engaging
        /\ Removing \subseteq Vacant \cup Stopping \cup {"abortRemove", "relRemove"}
        /\ "abortRemove" \in Engaging /\ "relRemove" \in Owning
    BY DEF Owning, Acquiring, Engaging, Catching, Waiting, Releasing, Starting, Stopping, Vacant,
           Removing
  <2>a. StartsAlone'
    BY <2>1, <1>t, StartsAloneStep
  \* Who takes the slot takes it from nobody, with its record written.
  <2>w. ASSUME NEW q \in PID, pc'[q] \in Owning
        PROVE  \/ pc[q] \in Owning
               \/ /\ q = p /\ pc[p] = "write" /\ file' = Record(p, TRUE)
                  /\ \A x \in PID : pc[x] \notin Owning
    <3> SUFFICES ASSUME q = p, pc[p] \notin Owning
                 PROVE  /\ pc[p] = "write" /\ file' = Record(p, TRUE)
                        /\ \A x \in PID : pc[x] \notin Owning
      BY <2>w, <2>m
    <3>1. pc[p] = "write" /\ \A x \in PID : pc[x] \notin Owning
      BY <2>w, <2>m, <2>c, <2>l, <1>t DEF StartCourse, VacantIsTrue
    <3>2. file = Record(p, FALSE)
      BY <3>1, <1>t DEF WriterOwnsFile
    <3>3. l \in Engaging
      BY <3>1, <2>w, <2>m, <2>c, <2>l DEF StartCourse
    <3> QED
      BY <3>1, <3>2, <3>3, <2>c, <2>l, <2>n DEF StartCourse
  \* A file goes only under who is done with it, or when no start is there.
  <2>f. ASSUME NEW q \in PID, file = Record(q, TRUE), pc'[q] \in Owning, pc[q] \in Owning,
               file' # file
        PROVE  file' = NoFile /\ p # q /\ pc[p] \in Stopping
    <3>1. file' = NoFile /\ pc[p] \in Removing /\ (pc[p] \in Owning => l = "none")
      BY <2>f, <2>c, <2>n, <2>l, <1>t DEF FileCourse, WriterOwnsFile
    <3>2. pc[p] \notin Owning
      <4>1. ASSUME pc[p] \in Owning PROVE p = q
        BY <4>1, <2>f, <1>t DEF OneHold, Owners
      <4> QED
        BY <4>1, <3>1, <2>f, <2>m, <2>l
    <3>3. pc[p] \notin Vacant
      BY <2>f, <1>t DEF VacantIsTrue
    <3> QED
      BY <3>1, <3>2, <3>3, <2>f, <2>l
  <2>2. OneHold'
    <3> SUFFICES ASSUME NEW x \in PID, NEW y \in PID, pc'[x] \in Owning, pc'[y] \in Owning
                 PROVE  x = y
      BY DEF OneHold, Owners
    <3> QED
      BY <2>w, <1>t DEF OneHold, Owners
  <2>3. WriterOwnsFile'
    <3> SUFFICES ASSUME NEW q \in PID, pc'[q] \in {"write", "unwrite"}
                 PROVE  file' = Record(q, FALSE)
      BY DEF WriterOwnsFile
    <3>1. CASE q = p
      BY <3>1, <2>m, <2>c, <1>t DEF StartCourse, WriterOwnsFile
    <3>2. CASE q # p
      <4>1. pc[q] \in {"write", "unwrite"} /\ file = Record(q, FALSE)
        BY <3>2, <2>m, <1>t DEF WriterOwnsFile
      <4>2. pc[p] \notin Owning /\ pc[p] \notin Starting /\ pc[p] \notin Stopping
        BY <3>2, <4>1, <2>l, <1>t DEF StartsAlone, VacantIsTrue
      <4>3. l \notin {"write"} /\ pc[p] # "write" /\ pc[p] \notin Removing
        BY <4>2, <2>c, <2>l DEF StartCourse
      <4> QED
        BY <4>1, <4>3, <2>c DEF FileCourse
    <3> QED
      BY <3>1, <3>2
  <2>4. EngagerRecorded'
    <3> SUFFICES ASSUME NEW q \in PID, pc'[q] \in Engaging PROVE file' = Record(q, TRUE)
      BY DEF EngagerRecorded
    <3>1. CASE pc[q] \in Owning
      <4>1. pc[q] \in Engaging
        BY <3>1, <2>m, <2>c, <2>l DEF StartCourse
      <4>2. file = Record(q, TRUE)
        BY <4>1, <1>t DEF EngagerRecorded
      <4>3. pc[p] \notin Stopping
        BY <4>1, <2>l, <1>t DEF StartsAlone, Starting, Stopping
      <4> QED
        BY <3>1, <4>2, <4>3, <2>f, <2>l
    <3>2. CASE pc[q] \notin Owning
      BY <3>2, <2>w, <2>l
    <3> QED
      BY <3>1, <3>2
  <2>5. OwnerOnRecord'
    <3> SUFFICES ASSUME NEW q \in PID, pc'[q] \in Owning PROVE file' \in {Record(q, TRUE), NoFile}
      BY DEF OwnerOnRecord, Owners
    <3>1. CASE pc[q] \in Owning /\ file = Record(q, TRUE)
      BY <3>1, <2>f
    <3>2. CASE pc[q] \in Owning /\ file = NoFile
      <4>1. l # "write"
        BY <3>2, <2>c, <2>n, <1>t DEF StartCourse, StartMeetsRecord
      <4>2. pc[p] # "write"
        BY <3>2, <2>n, <1>t DEF WriterOwnsFile
      <4> QED
        BY <3>2, <4>1, <4>2, <2>c DEF FileCourse
    <3>3. CASE pc[q] \notin Owning
      BY <3>3, <2>w
    <3> QED
      BY <3>1, <3>2, <3>3, <1>t DEF OwnerOnRecord, Owners
  <2>6. StartMeetsRecord'
    <3> SUFFICES ASSUME NEW x \in PID, NEW q \in PID, pc'[x] \in Acquiring, pc'[q] \in Owning
                 PROVE  file' = Record(q, TRUE)
      BY DEF StartMeetsRecord
    <3>0. pc'[x] \in Acquiring /\ pc'[q] \in Owning
      OBVIOUS
    <3>1. pc[q] \in Owning
      <4>1. ASSUME pc[q] \notin Owning PROVE pc[x] \in Acquiring /\ x # q /\ pc[q] = "write"
        BY <4>1, <3>0, <2>w, <2>m, <2>l
      <4> QED
        BY <4>1, <2>l, <1>t DEF StartsAlone
    <3>2. file = Record(q, TRUE)
      <4>1. CASE pc[x] \in Acquiring
        BY <3>1, <4>1, <1>t DEF StartMeetsRecord
      <4>2. CASE pc[x] \notin Acquiring
        <5>1. l = "create" /\ pc'[p] = "create" /\ pc[p] = "none" /\ Spared(p)
          BY <4>2, <3>0, <2>m, <2>c DEF StartCourse, Launched
        <5>2. q \in Owners
          BY <3>1 DEF Owners
        <5>3. readHold = q
          BY <5>1, <5>2 DEF Spared
        <5> QED
          BY <5>3, <2>r, PIDAssumption
      <4> QED
        BY <4>1, <4>2
    <3>3. ASSUME pc[p] \in Stopping PROVE FALSE
      <4>1. CASE x = p
        BY <3>0, <3>3, <4>1, <2>m, <2>c, <2>l DEF StartCourse, Launched
      <4>2. CASE x # p
        BY <3>0, <3>3, <4>2, <2>m, <2>l, <1>t DEF StartsAlone
      <4> QED
        BY <4>1, <4>2
    <3> QED
      BY <3>0, <3>1, <3>2, <3>3, <2>f
  <2>7. VacantIsTrue'
    <3> SUFFICES ASSUME NEW x \in PID, NEW q \in PID, pc'[x] \in Vacant, pc'[q] \in Owning
                 PROVE  FALSE
      BY DEF VacantIsTrue
    <3>0. pc'[x] \in Vacant /\ pc'[q] \in Owning /\ x # q
      BY <2>l
    <3>1. pc[q] \in Owning
      <4>1. ASSUME pc[q] \notin Owning PROVE pc[x] \in Acquiring /\ pc[q] = "write"
        BY <4>1, <3>0, <2>w, <2>m, <2>l
      <4> QED
        BY <4>1, <3>0, <2>l, <1>t DEF StartsAlone
    <3>2. pc[x] \notin Vacant
      BY <3>1, <1>t DEF VacantIsTrue
    <3>3. x = p /\ l \in Vacant
      BY <3>0, <3>2, <2>m
    <3>4. pc[p] \in Acquiring
      BY <3>3, <2>c, <2>l DEF StartCourse
    <3>5. file = Record(q, TRUE)
      BY <3>1, <3>4, <1>t DEF StartMeetsRecord
    <3>6. pc[p] = "alive" /\ pc[seen[p]] = "none"
      BY <3>2, <3>3, <3>5, <2>c, <2>n, PIDAssumption DEF StartCourse
    <3>7. seen[p] = q
      BY <3>1, <3>6, <1>t DEF LooksAtOwner
    <3> QED
      BY <3>1, <3>6, <3>7, <2>l
  <2>8. LooksAtOwner'
    <3> DEFINE Look == {"alive", "stopAlive", "stopHolder"}
    <3> SUFFICES ASSUME NEW x \in PID, NEW q \in PID, pc'[x] \in Look, pc'[q] \in Owning
                 PROVE  seen'[x] = q
      BY DEF LooksAtOwner
    <3>0. pc'[x] \in Look /\ pc'[q] \in Owning /\ x # q
      BY <2>l
    <3>1. pc[q] \in Owning
      <4>1. ASSUME pc[q] \notin Owning PROVE pc[x] \in Look /\ pc[q] = "write"
        <5>1. q = p /\ pc[p] = "write"
          BY <4>1, <3>0, <2>w
        <5> QED
          BY <5>1, <3>0, <2>m
      <4> QED
        BY <4>1, <3>0, <2>l, <1>t DEF StartsAlone
    <3>2. CASE x # p
      BY <3>0, <3>1, <3>2, <2>m, <1>t DEF LooksAtOwner
    <3>3. CASE x = p /\ l = "stopHolder"
      BY <3>1, <3>3, <2>c, <1>t DEF StopCourse, LooksAtOwner
    <3>4. CASE x = p /\ l # "stopHolder"
      <4>1. readHold # Nobody /\ seen'[p] = readHold
        BY <3>0, <3>4, <2>m, <2>c DEF StartCourse, StopCourse
      <4>2. file # NoFile
        BY <4>1 DEF readHold, NoFile
      <4>3. file = Record(q, TRUE)
        BY <3>1, <4>2, <1>t DEF OwnerOnRecord, Owners
      <4> QED
        BY <3>4, <4>1, <4>3, <2>n
    <3> QED
      BY <3>0, <2>m, <3>2, <3>3, <3>4
  <2> QED
    BY <2>2, <2>3, <2>a, <2>4, <2>5, <2>6, <2>7, <2>8 DEF LooseSlots
<1> QED
  BY <1>1, <1>2, CommandsMove

\* The slot, for the users it is exclusive for.
Loose == TypeInv /\ LeverType /\ ("outlived" \notin user.may => LooseSlots)

LEMMA LooseInvariant == ASSUME Serial PROVE Spec => []Loose
<1>1. WindowsInit => Loose
  <2> SUFFICES ASSUME WindowsInit PROVE Loose
    OBVIOUS
  <2>1. \A p \in PID : pc[p] = "none"
    BY DEF WindowsInit, Init
  <2>2. TypeInv /\ LeverType
    BY FileTypes, LidTypes, UsersAssumption
    DEF WindowsInit, Init, TypeInv, HoldsTypeOK, ReliesOnPid, Relying, Label, LeverType
  <2>3. LooseSlots
    BY <2>1 DEF LooseSlots, OneHold, WriterOwnsFile, StartsAlone, EngagerRecorded, OwnerOnRecord,
                StartMeetsRecord, VacantIsTrue, LooksAtOwner, Owners, Owning, Engaging, Catching,
                Waiting, Releasing, Starting, Acquiring, Vacant
  <2> QED
    BY <2>2, <2>3 DEF Loose
<1>2. Loose /\ [Next]_vars => Loose'
  BY CommandTypes, LeverTypeStep, LooseSlotsStep, UserStays DEF Loose
<1> QED
  BY <1>1, <1>2, PTL DEF Spec

\* Stop takes the pidfile from under a live hold, yet nobody but a stop takes the
\* lid from it: whatever fails, and whatever setting the user chose, no start, no
\* other hold's release and no stop of another process does, as long as the user
\* starts no hold beside one that stop went past.
THEOREM OnlyStopsTakeTheLid == ASSUME NoneOutlived PROVE Spec => TakenByStop
<1>1. ASSUME Loose, NEW p \in PID, Activate(p), applied' # applied,
             NEW q \in PID, pc[q] \in Held
      PROVE  call'[p] # call[p] /\ pc[p] \in Stopping /\ (pc[p] = "stopHolder" => seen[p] = q)
  <2>t. HoldsTypeOK /\ LeverType /\ OneHold /\ VacantIsTrue /\ LooksAtOwner
    BY <1>1 DEF Loose, LeverType, NoneOutlived, LooseSlots, TypeInv
  <2>1. Returns(p, TRUE) /\ call[p].at = "apply"
    BY <1>1 DEF Activate
  <2>2. call'[p] # call[p]
    BY <2>1, <2>t DEF Returns, LeverType, Idle
  <2>3. pc[p] \in {"engage"} \cup Restoring
    BY <2>1 DEF Returns, EngageReturns, DisengageReturns, Restoring, Disengaging
  <2>4. pc[q] \in Owning
    BY <1>1 DEF Held, Owning, Engaging, Catching, Waiting, Releasing
  <2>5. pc[p] \notin {"engage", "abortDisengage", "relDisengage"}
    <3> SUFFICES ASSUME pc[p] \in {"engage", "abortDisengage", "relDisengage"} PROVE FALSE
      OBVIOUS
    <3>1. pc[p] \in Owning /\ pc[p] \notin Held
      BY DEF Held, Owning, Engaging, Catching, Waiting, Releasing
    <3>2. p = q
      BY <2>4, <2>t, <3>1 DEF OneHold, Owners
    <3> QED
      BY <1>1, <3>1, <3>2
  <2>6. pc[p] # "reclaimDisengage"
    BY <2>4, <2>t DEF VacantIsTrue, Vacant
  <2>7. pc[p] \in Stopping
    BY <2>3, <2>5, <2>6 DEF Restoring, Disengaging, Stopping
  <2>8. pc[p] = "stopHolder" => seen[p] = q
    BY <2>4, <2>t DEF LooksAtOwner
  <2> QED
    BY <2>2, <2>7, <2>8
<1>2. ASSUME [Next]_vars, applied' # applied
      PROVE  \E p \in PID : Activate(p)
  BY <1>2 DEF Next, vars, lever, PowercfgStep, QueryLid, SavePrev, LoadPrev, SetAC, SetDC, DropPrev
<1>3. Loose /\ [Next]_vars
        => [\A q \in PID :
              pc[q] \in Held /\ applied' # applied
              => \E p \in PID : /\ call'[p] # call[p]
                                /\ pc[p] \in Stopping
                                /\ pc[p] = "stopHolder" => seen[p] = q]_vars
  BY <1>1, <1>2
<1> QED
  BY <1>3, LooseInvariant, PTL DEF Spec, NoneOutlived, TakenByStop

-----------------------------------------------------------------------------
(* The setting of a user who never changed the default.                    *)

\* Powercfg answers and restores.  Setting the override and saving what it
\* replaces may fail, and so may every access to the pidfile.
Restorable == Serial /\ Faults \cap {"query", "disengage"} = {}

\* The default setting is what disengage puts back with nothing saved, so
\* this user's stops may meet live holds, other stops or reused pids, and their
\* commands may be killed before a restore.
Defaulting(u) == u.lid = Default /\ u.may \cap {"outlived", "torn"} = {}

\* For stop to be right at once, not both of stops and kills.
OneAtATime(u) == "stops" \notin u.may \/ "kill" \notin u.may

\* The labels reached only with the setting put back.
Settled == Clean \cup {"stopDrop", "poll", "pollAlive", "stopFlag", "stopDisengage", "stopRemove"}

\* What engage and disengage can rely on.  Restores overlap, but all of them
\* put back the same.
EngageFinds(c) ==
  /\ c.at \in {"idle", "save", "ac"} => Own
  /\ c.at = "save" => c.put = Default
  /\ c.at \in {"ac", "dc"} => c.put = Both(0) /\ ~c.saved
  /\ c.at = "dc" => lid.ac = 0
  /\ c.at = "apply" => lid = Both(0)
  /\ c.at # "drop"

RestoreFinds(c) ==
  /\ c.at \in {"ac", "dc"} => c.put = Default
  /\ c.at = "dc" => lid.ac = Default.ac
  /\ c.at \in {"drop", "apply"} => lid = Default
  /\ c.at # "save"

Finds(p) ==
  /\ call[p].at # "idle" => pc[p] \in {"engage"} \cup Restoring
  /\ pc[p] = "engage" => EngageFinds(call[p])
  /\ pc[p] \in Restoring => RestoreFinds(call[p])

PuttingBack(p) == pc[p] \in Restoring /\ call[p].at \in {"dc", "drop", "apply"}

\* The setting is the user's own, or will be when a restore at work is done.
Returning == Own \/ \E p \in PID : PuttingBack(p)

\* For stop to be right: it meets no other restore that it could take for its
\* own, or has nothing to clear up.
ClearsAlone ==
  OneAtATime(user)
    => /\ \A p \in PID : pc[p] \in Settled => Own
       /\ \A p \in PID : pc[p] = "clearFlag" => Own \/ Owners = {}
       /\ file = NoFile => Own
       /\ "kill" \notin user.may /\ Owners = {} => Own
       /\ "stops" \notin user.may => OneStop

\* Without live stops a hold has its setting.
HoldHasIt ==
  "live" \notin user.may
    => /\ StopsUnheld
       /\ \A p \in PID : pc[p] \in Held => lid = Both(0) /\ applied = Both(0)

PutBack ==
  /\ prev \in {NoPrev, Default}
  /\ \A p \in PID : Finds(p)
  /\ Returning \/ lid.ac = 0
  /\ \A p \in PID : pc[p] \in Settled => Returning
  /\ file = NoFile => Returning
  /\ ClearsAlone
  /\ HoldHasIt

\* Everything that is invariant for such a user.
Homing == Defaulting(user) /\ Loose /\ PutBack

LEMMA HomingFacts ==
  ASSUME Homing
  PROVE  /\ HoldsTypeOK /\ TypeInv /\ LooseSlots
         /\ OneHold /\ StartsAlone /\ EngagerRecorded /\ OwnerOnRecord
         /\ StartMeetsRecord /\ VacantIsTrue /\ LooksAtOwner
         /\ user.lid = Default /\ Default \in Lid
         /\ "outlived" \notin user.may /\ "torn" \notin user.may
         /\ lid \in Lid /\ applied \in Lid /\ call \in [PID -> Call]
         /\ prev \in {NoPrev, Default}
         /\ \A p \in PID : Finds(p)
         /\ Returning \/ lid.ac = 0
         /\ \A p \in PID : pc[p] \in Settled => Returning
         /\ file = NoFile => Returning
         /\ ClearsAlone /\ HoldHasIt
BY LidTypes DEF Homing, Defaulting, Loose, TypeInv, LooseSlots, LeverType, PutBack

\* The labels, and how they overlap.
LEMMA SettledLabels ==
  /\ Settled \subseteq {"write", "unwrite", "reclaimRemove", "recreate", "abortRemove", "relRemove"}
                        \cup Stopping
  /\ Restoring \subseteq {"reclaimDisengage", "abortDisengage", "relDisengage"} \cup Stopping
  /\ Restoring \subseteq Vacant \cup Owning \cup Stopping
  /\ {"stopHolder", "clearFlag", "clearDisengage"} \subseteq Stopping \ Settled
  /\ Held \subseteq Owning /\ "relDisengage" \in Owning /\ "relRemove" \in Owning
  /\ Engaging \subseteq Owning \cap Starting
  /\ {"engage", "abortDisengage", "abortRemove"} \subseteq Engaging
  /\ Vacant \subseteq Starting \ Owning
  /\ {"write", "unwrite", "reclaimFlag", "reclaimDisengage", "reclaimRemove", "recreate"} \subseteq Vacant
  /\ Stopping \cap (Owning \cup Starting) = {}
  /\ Held \cap (Settled \cup Restoring \cup {"engage"}) = {}
  /\ "none" \notin Settled \cup Restoring \cup Held \cup Owning
  /\ "engage" \notin Settled \cup Restoring
  /\ {"engage", "clearFlag"} \cup Restoring \cup Settled \cup Held \subseteq Owning \cup Starting \cup Stopping
BY DEF Settled, Clean, Restoring, Disengaging, Stopping, Held, Waiting, Owning, Engaging, Catching,
       Releasing, Starting, Acquiring, Vacant

\* Nobody else is at work on the setting, or relies on it, while a start
\* overrides it.
LEMMA EngagesAlone ==
  ASSUME Homing, NEW p \in PID, pc[p] = "engage"
  PROVE  /\ file # NoFile /\ p \in Owners
         /\ \A q \in PID \ {p} :
              pc[q] \notin {"engage", "clearFlag"} \cup Restoring \cup Settled \cup Held
<1>1. p \in Owners /\ pc[p] \in Starting
  BY SettledLabels DEF Owners
<1>2. file # NoFile
  BY HomingFacts, SettledLabels, PIDAssumption DEF EngagerRecorded, Record, NoFile
<1>3. ASSUME NEW q \in PID, q # p PROVE pc[q] \notin Owning \cup Starting \cup Stopping
  BY <1>1, <1>3, HomingFacts DEF OneHold, Owners, StartsAlone
<1> QED
  BY <1>1, <1>2, <1>3, SettledLabels

\* A start that has found no hold meets no restore but its own.
LEMMA StartsUndisturbed ==
  ASSUME Homing, NEW p \in PID, pc[p] \in Vacant, NEW q \in PID, q # p
  PROVE  pc[q] \notin Restoring
<1>1. pc[p] \in Starting
  BY SettledLabels
<1>2. pc[q] \notin Owning
  BY HomingFacts DEF VacantIsTrue
<1>3. pc[q] \notin Starting /\ pc[q] \notin Stopping
  BY <1>1, HomingFacts DEF StartsAlone
<1> QED
  BY <1>2, <1>3, SettledLabels

\* Neither does a stop that has something to clear up.
LEMMA StopUndisturbed ==
  ASSUME Homing, OneAtATime(user), NEW p \in PID, pc[p] = "clearFlag", ~Own
  PROVE  ~Returning
<1> SUFFICES ASSUME NEW q \in PID, pc[q] \in Restoring PROVE FALSE
  BY DEF Returning, PuttingBack
<1>1. Owners = {} /\ OneStop
  BY HomingFacts DEF ClearsAlone, OneAtATime
<1>2. pc[p] \in Stopping /\ pc[p] \notin Restoring
  BY SettledLabels DEF Restoring, Disengaging
<1>3. pc[q] \notin Owning /\ pc[q] \notin Starting
  BY <1>1, <1>2, HomingFacts DEF Owners, StartsAlone
<1>4. pc[q] \in Stopping
  BY <1>3, SettledLabels
<1> QED
  BY <1>1, <1>2, <1>4 DEF OneStop

-----------------------------------------------------------------------------
(* What a step preserves of the commands.                                  *)

LEMMA OneStopStep ==
  ASSUME HoldsTypeOK, "stops" \notin user.may, OneStop, [Next]_vars
  PROVE  OneStop'
<1>1. CASE UNCHANGED holdVars
  BY <1>1 DEF holdVars, OneStop
<1>2. ASSUME NEW p \in PID, Moved(p) PROVE OneStop'
  <2>1. PICK l : Course(p, l)
    BY <1>2, MovedCourse
  <2>2. pc'[p] = l /\ \A q \in PID \ {p} : pc'[q] = pc[q]
    BY <2>1 DEF Course, Moves
  <2>3. l \in Stopping => pc[p] \in Stopping \/ \A q \in PID : pc[q] \notin Stopping
    <3> SUFFICES ASSUME l = "stopRead", Spared(p), pc[p] = "none"
                 PROVE  \A q \in PID : pc[q] \notin Stopping
      BY <2>1 DEF Course, StopCourse, Launched
    <3> QED
      BY <2>2 DEF Spared
  <2> QED
    BY <2>2, <2>3 DEF OneStop
<1> QED
  BY <1>1, <1>2, CommandsMove

LEMMA CommandsKeep ==
  ASSUME Homing, [Next]_vars
  PROVE  /\ user' = user
         /\ OneAtATime(user) /\ "stops" \notin user.may => OneStop'
         /\ "live" \notin user.may => StopsUnheld'
<1>1. "live" \notin user.may => StopsUnheld
  BY HomingFacts DEF HoldHasIt
<1>2. OneAtATime(user) /\ "stops" \notin user.may => OneStop
  BY HomingFacts DEF ClearsAlone
<1> QED
  BY <1>1, <1>2, UserStays, OneStopStep, StopsUnheldStep, HomingFacts

-----------------------------------------------------------------------------
(* What engage and disengage preserve.                                     *)

LEMMA EngageKeep ==
  ASSUME Homing, [Next]_vars, NEW p \in PID, pc[p] = "engage",
         \A q \in PID \ {p} : pc'[q] = pc[q] /\ call'[q] = call[q],
         file' = file, prev' \in {NoPrev, Default}, Finds(p)',
         Own' \/ lid'.ac = 0,
         pc'[p] \in {"engage", "display", "abortDisengage"},
         pc'[p] = "display" => lid' = Both(0) /\ applied' = Both(0)
  PROVE  PutBack'
<1>1. file # NoFile /\ \A q \in PID \ {p} :
         pc'[q] \notin {"engage", "clearFlag"} \cup Restoring \cup Settled \cup Held
  BY EngagesAlone
<1>2. /\ pc'[p] \notin Settled \cup {"clearFlag"} /\ p \in Owners'
      /\ pc'[p] \in Held => pc'[p] = "display"
  BY DEF Settled, Clean, Stopping, Owners, Owning, Engaging, Held, Waiting
<1>3. \A q \in PID : Finds(q)'
  <2> SUFFICES ASSUME NEW q \in PID, q # p PROVE Finds(q)'
    OBVIOUS
  <2>1. call'[q].at = "idle"
    BY <1>1, HomingFacts DEF Finds
  <2> QED
    BY <1>1, <2>1 DEF Finds
<1>4. Returning' \/ lid'.ac = 0
  BY DEF Returning
<1>5. \A q \in PID : pc'[q] \notin Settled \cup {"clearFlag"}
  BY <1>1, <1>2
<1>6. ClearsAlone'
  BY <1>1, <1>2, <1>5, CommandsKeep DEF ClearsAlone, OneAtATime
<1>7. HoldHasIt'
  BY <1>1, <1>2, CommandsKeep DEF HoldHasIt
<1> QED
  BY <1>1, <1>3, <1>4, <1>5, <1>6, <1>7 DEF PutBack

LEMMA RestoreKeep ==
  ASSUME Homing, [Next]_vars, NEW p \in PID, pc[p] \in Restoring,
         \A q \in PID \ {p} : pc'[q] = pc[q] /\ call'[q] = call[q],
         file' = file, prev' \in {NoPrev, Default}, Finds(p)',
         lid.ac = Default.ac => lid'.ac = Default.ac,
         lid = Default => lid' = Default,
         Own => Own',
         \/ PuttingBack(p)' \/ Own'
         \/ UNCHANGED <<lid, applied>> /\ ~PuttingBack(p),
         \/ pc'[p] = pc[p]
         \/ /\ pc'[p] \in Settled /\ Own'
            /\ pc'[p] \in Owning <=> pc[p] \in Owning
  PROVE  PutBack'
<1>1. pc[p] \notin {"engage", "clearFlag"} /\ pc'[p] \notin {"engage", "clearFlag"}
  BY SettledLabels DEF Restoring, Disengaging
<1>2. \A q \in PID \ {p} : pc[q] # "engage"
  BY EngagesAlone
<1>3. \A q \in PID : Finds(q)'
  <2> SUFFICES ASSUME NEW q \in PID, q # p PROVE Finds(q)'
    OBVIOUS
  <2>1. Finds(q) /\ pc'[q] = pc[q] /\ call'[q] = call[q] /\ pc[q] # "engage"
    BY <1>2, HomingFacts
  <2>2. pc[q] \in Restoring => RestoreFinds(call[q])'
    BY <2>1 DEF Finds, RestoreFinds
  <2> QED
    BY <2>1, <2>2 DEF Finds, RestoreFinds
<1>4. Returning => Returning'
  <2>1. ASSUME NEW q \in PID, PuttingBack(q) PROVE Returning'
    BY <2>1 DEF Returning, PuttingBack
  <2> QED
    BY <2>1 DEF Returning
<1>5. Returning' \/ lid'.ac = 0
  <2>1. CASE PuttingBack(p)' \/ Own'
    BY <2>1 DEF Returning
  <2>2. CASE UNCHANGED <<lid, applied>>
    BY <2>2, <1>4, HomingFacts
  <2> QED
    BY <2>1, <2>2
<1>6. \A q \in PID : pc'[q] \in Settled => Returning' /\ (OneAtATime(user) => Own')
  <2>1. Own' => Returning'
    BY DEF Returning
  <2> QED
    BY <1>4, <2>1, HomingFacts DEF ClearsAlone
<1>7. Owners' = Owners
  BY DEF Owners
<1>8. ClearsAlone'
  BY <1>1, <1>6, <1>7, CommandsKeep, HomingFacts DEF ClearsAlone, OneAtATime
<1>9. HoldHasIt'
  <2> SUFFICES ASSUME "live" \notin user.may, NEW q \in PID, pc'[q] \in Held PROVE FALSE
    BY CommandsKeep DEF HoldHasIt
  <2>1. q # p /\ pc[q] \in Held
    BY SettledLabels
  <2>2. pc[q] \in Owning
    BY <2>1, SettledLabels
  <2>3. pc[p] \notin Owning /\ pc[p] \notin Vacant
    BY <2>1, <2>2, HomingFacts DEF OneHold, Owners, VacantIsTrue
  <2>4. pc[p] \in Stopping
    BY <2>3, SettledLabels
  <2> QED
    BY <2>2, <2>4, HomingFacts DEF HoldHasIt, StopsUnheld
<1> QED
  BY <1>3, <1>4, <1>5, <1>6, <1>8, <1>9, HomingFacts DEF PutBack

-----------------------------------------------------------------------------
(* The steps of the commands that call no keeper.                          *)

\* How such a step bears on the setting.
LeverCourse(p, l) ==
  /\ pc[p] \notin {"engage"} \cup Restoring
  /\ l = "engage" => pc[p] = "write"
  /\ l \in Settled => pc[p] \in Settled \/ file = NoFile
  /\ l \in Held => pc[p] \in Held
  /\ pc[p] \in Owning /\ l \notin Owning =>
       pc[p] \in Settled \/ (pc[p] = "own" /\ readHold \notin {p, Nobody})

LEMMA CommandCourse ==
  ASSUME HoldsTypeOK, NEW p \in PID,
         CommandStep(p) \/ GiveUp(p) \/ EnvironmentStep(p) \/ StopDrop(p)
  PROVE  \E l : pc' = [pc EXCEPT ![p] = l] /\ LeverCourse(p, l)
<1> USE DEF LeverCourse, Restoring, Disengaging, Settled, Clean, Held, Waiting, Owning, Engaging,
            Catching, Releasing, HoldsTypeOK, Goto, Exit, Step, Awaken
<1>1. CASE Create(p)
  BY <1>1 DEF Create
<1>2. CASE Write(p)
  BY <1>2 DEF Write, WriteRecord
<1>3. CASE Inspect(p) \/ CheckHolder(p)
  BY <1>3 DEF Inspect, CheckHolder
<1>4. CASE RemovePidfile(p)
  BY <1>4 DEF RemovePidfile
<1>5. CASE StartDisplay(p) \/ Listen(p) \/ Spawn(p)
  BY <1>5 DEF StartDisplay, Listen, Spawn
<1>6. CASE TakeSignal(p) \/ Deadline(p)
  BY <1>6 DEF TakeSignal, Deadline
<1>7. CASE GraceEnds(p) \/ Reap(p)
  BY <1>7 DEF GraceEnds, Reap
<1>8. CASE StopDisplay(p) \/ OwnershipGuard(p)
  BY <1>8 DEF StopDisplay, OwnershipGuard
<1>9. CASE StopRead(p) \/ StopAlive(p)
  BY <1>9 DEF StopRead, StopAlive
<1>10. CASE PollFile(p) \/ PollAlive(p) \/ GiveUp(p) \/ StopDrop(p)
  BY <1>10 DEF PollFile, PollAlive, GiveUp, StopDrop
<1>11. CASE StatusRead(p) \/ StatusAlive(p) \/ Leave(p)
  BY <1>11 DEF StatusRead, StatusAlive, Leave
<1>12. CASE Launch(p) \/ ForeignEnds(p)
  BY <1>12 DEF Launch, ForeignEnds
<1>13. CASE ChildExits(p)
  BY <1>13 DEF ChildExits
<1>14. CASE Interrupt(p) \/ AssertionEnds(p)
  <2>1. pc' = [pc EXCEPT ![p] = pc[p]]
    BY <1>14 DEF Interrupt, AssertionEnds
  <2>2. LeverCourse(p, pc[p])
    BY <1>14 DEF Interrupt, AssertionEnds
  <2> QED
    BY <2>1, <2>2
<1> QED
  BY <1>1, <1>2, <1>3, <1>4, <1>5, <1>6, <1>7, <1>8, <1>9, <1>10, <1>11, <1>12, <1>13, <1>14
  DEF CommandStep, EnvironmentStep

\* ... in terms of the setting.
Bears(p, l) ==
  /\ pc[p] \notin {"engage"} \cup Restoring
  /\ l = "engage" => Own
  /\ l \in Settled \/ file' = NoFile => Returning /\ (OneAtATime(user) => Own)
  /\ l \in Held => pc[p] \in Held
  /\ OneAtATime(user)
       => /\ l = "clearFlag" => Own \/ Owners = {}
          /\ pc[p] \in Owning /\ l \notin Owning => Own

LEMMA CommandBears ==
  ASSUME Homing, NEW p \in PID,
         \/ CommandStep(p) \/ GiveUp(p) \/ StopDrop(p)
         \/ EnvironmentStep(p) /\ Spared(p)
  PROVE  Bears(p, pc'[p])
<1>1. PICK l : pc' = [pc EXCEPT ![p] = l] /\ LeverCourse(p, l)
  BY CommandCourse, HomingFacts
<1>2. PICK k : Course(p, k)
  BY MovedCourse, HomingFacts DEF Moved, StopEnds
<1>3. pc'[p] = l /\ k = l
  BY <1>1, <1>2, HomingFacts DEF Course, Moves, HoldsTypeOK
<1>n. \A q \in Owners : (file = Record(q, TRUE) /\ readHold = q /\ q # Nobody) \/ (file = NoFile /\ readHold = Nobody)
  BY HomingFacts, PIDAssumption DEF OwnerOnRecord, Owners, readHold, Record, NoFile
<1>4. l = "engage" => Own
  <2> SUFFICES ASSUME pc[p] = "write" PROVE Own
    BY <1>1 DEF LeverCourse
  <2>1. pc[p] \in Settled /\ pc[p] \in Vacant /\ pc[p] \notin Restoring
    BY DEF Settled, Clean, Vacant, Restoring, Disengaging
  <2>2. \A q \in PID : ~PuttingBack(q)
    BY <2>1, StartsUndisturbed DEF PuttingBack
  <2> QED
    BY <2>1, <2>2, HomingFacts DEF Returning
<1>5. pc[p] \in Settled \/ file = NoFile => Returning /\ (OneAtATime(user) => Own)
  BY HomingFacts DEF ClearsAlone
<1>6. file' = NoFile => pc[p] \in Settled \/ file = NoFile
  <2>1. Removing \subseteq Settled
    BY DEF Removing, Settled, Clean
  <2>2. Record(p, FALSE) # NoFile /\ Record(p, TRUE) # NoFile
    BY PIDAssumption DEF Record, NoFile
  <2> QED
    BY <1>2, <2>1, <2>2 DEF Course, FileCourse
<1>7. OneAtATime(user) /\ l = "clearFlag" => Own \/ Owners = {}
  <2> SUFFICES ASSUME OneAtATime(user), l = "clearFlag", NEW q \in Owners PROVE Own
    OBVIOUS
  <2>1. CASE pc[p] = "stopRead" /\ readHold = Nobody
    BY <2>1, <1>n, <1>5
  <2>2. CASE pc[p] = "stopAlive" /\ pc[seen[p]] = "none"
    <3>1. seen[p] = q
      BY <2>2, HomingFacts DEF LooksAtOwner, Owners
    <3> QED
      BY <2>2, <3>1, SettledLabels DEF Owners
  <2> QED
    BY <1>2, <1>3, <2>1, <2>2 DEF Course, StopCourse
<1>8. OneAtATime(user) /\ pc[p] \in Owning /\ l \notin Owning => Own
  BY <1>1, <1>5, <1>n DEF LeverCourse, Owners
<1> QED
  BY <1>1, <1>3, <1>4, <1>5, <1>6, <1>7, <1>8 DEF Bears, LeverCourse

\* The flag is read right, as far as it matters.
LEMMA QueryBears ==
  ASSUME Restorable, Homing, NEW p \in PID, QueryFlag(p)
  PROVE  Bears(p, pc'[p]) /\ file' = file /\ pc'[p] \notin Owning
<1>1. FlagRead(p, lid.ac = 0)
  BY DEF QueryFlag, Restorable
<1>2. /\ pc[p] \in {"reclaimFlag", "stopFlag", "clearFlag", "statusFlag"} /\ file' = file
      /\ pc'[p] \in {"reclaimDisengage", "reclaimRemove", "stopDisengage", "stopped",
                     "clearDisengage", "tidyRemove", "sayStranded", "sayNormal"}
      /\ pc'[p] \in {"stopDisengage", "stopped"} => pc[p] = "stopFlag"
      /\ pc'[p] \in {"reclaimRemove", "tidyRemove"} => lid.ac # 0
      /\ pc'[p] = "reclaimRemove" => pc[p] = "reclaimFlag"
      /\ pc'[p] = "tidyRemove" => pc[p] = "clearFlag"
  BY <1>1, HomingFacts DEF FlagRead, Goto, Step, HoldsTypeOK
<1>3. pc[p] = "stopFlag" => pc[p] \in Settled
  BY DEF Settled
<1>4. pc'[p] \in Settled => Returning
  BY <1>2, <1>3, HomingFacts DEF Settled, Clean
<1>5. OneAtATime(user) /\ pc'[p] \in Settled => Own
  <2>1. CASE pc[p] = "stopFlag"
    BY <2>1, <1>3, HomingFacts DEF ClearsAlone
  <2>2. CASE pc[p] = "reclaimFlag"
    <3>1. \A q \in PID : ~PuttingBack(q)
      BY <2>2, StartsUndisturbed, SettledLabels DEF PuttingBack, Restoring, Disengaging
    <3> QED
      BY <1>4, <3>1 DEF Returning
  <2>3. CASE pc[p] = "clearFlag"
    BY <2>3, <1>4, StopUndisturbed
  <2> QED
    BY <1>2, <2>1, <2>2, <2>3 DEF Settled, Clean
<1>6. /\ pc[p] \notin {"engage"} \cup Restoring \cup Owning
      /\ pc'[p] \notin {"engage", "clearFlag"} \cup Held \cup Owning
  BY <1>2 DEF Restoring, Disengaging, Owning, Engaging, Catching, Waiting, Releasing, Held
<1>7. file' = NoFile => Returning /\ (OneAtATime(user) => Own)
  BY <1>2, HomingFacts DEF ClearsAlone
<1> QED
  BY <1>2, <1>4, <1>5, <1>6, <1>7 DEF Bears

LEMMA LiveCommandStep ==
  ASSUME Restorable, Homing, [Next]_vars, NEW p \in PID, UNCHANGED <<lever, call>>,
         \/ CommandStep(p) \/ QueryFlag(p) \/ StopDrop(p) \/ GiveUp(p)
         \/ EnvironmentStep(p) /\ Spared(p)
  PROVE  PutBack'
<1> DEFINE l == pc'[p]
<1>1. Bears(p, l)
  BY CommandBears, QueryBears
<1>2. PICK k : Course(p, k)
  BY MovedCourse, HomingFacts DEF Moved, StopEnds, QueryFlag, AnyKeeper
<1>m. k = l /\ \A q \in PID \ {p} : pc'[q] = pc[q]
  BY <1>2 DEF Course, Moves
<1>u. user' = user /\ lid' = lid /\ applied' = applied /\ prev' = prev /\ call' = call
  BY DEF lever
<1> HIDE DEF l
<1>l. pc'[p] = l
  BY DEF l
<1>o. Own' <=> Own
  BY <1>u DEF Own
<1>3. \A q \in PID : Finds(q)'
  <2>1. ASSUME NEW q \in PID, q # p PROVE Finds(q)'
    BY <2>1, <1>m, <1>u, <1>o, HomingFacts DEF Finds, EngageFinds, RestoreFinds
  <2>2. Finds(p)'
    <3>1. call[p].at = "idle"
      BY <1>1, HomingFacts DEF Finds, Bears
    <3> QED
      BY <3>1, <1>1, <1>l, <1>u, <1>o DEF Finds, EngageFinds, RestoreFinds, Bears
  <2> QED
    BY <2>1, <2>2
<1>4. Returning => Returning'
  <2>1. ASSUME NEW q \in PID, PuttingBack(q) PROVE PuttingBack(q)'
    BY <2>1, <1>1, <1>m, <1>u DEF PuttingBack, Bears
  <2> QED
    BY <2>1, <1>o DEF Returning
<1>5. \A q \in PID : pc'[q] \in Settled => Returning' /\ (OneAtATime(user) => Own')
  BY <1>1, <1>l, <1>m, <1>o, <1>4, HomingFacts DEF Bears, ClearsAlone
<1>6. file' = NoFile => Returning' /\ (OneAtATime(user) => Own')
  BY <1>1, <1>o, <1>4 DEF Bears
<1>7. ClearsAlone'
  <2> SUFFICES ASSUME OneAtATime(user)
               PROVE  /\ \A q \in PID : pc'[q] = "clearFlag" => Own \/ Owners' = {}
                      /\ "kill" \notin user.may /\ Owners' = {} => Own
    BY <1>5, <1>6, <1>u, <1>o, CommandsKeep DEF ClearsAlone, OneAtATime
  <2>1. "kill" \notin user.may /\ Owners' = {} => Own
    <3>1. ASSUME Owners # {}, Owners' = {} PROVE pc[p] \in Owning /\ l \notin Owning
      BY <3>1, <1>l, <1>m DEF Owners
    <3> QED
      BY <3>1, <1>1, HomingFacts DEF ClearsAlone, Bears
  <2>2. ASSUME NEW q \in PID, pc'[q] = "clearFlag", Owners = {} PROVE Owners' = {}
    <3>1. q # p => pc[p] # "write"
      BY <2>2, <1>m, HomingFacts, SettledLabels DEF StartsAlone
    <3>2. pc[p] \notin Owning /\ (q = p => l \notin Owning)
      BY <2>2, <1>l, SettledLabels DEF Owners
    <3>3. l \notin Owning
      BY <3>1, <3>2, <1>2, <1>m DEF Course, StartCourse
    <3> QED
      BY <2>2, <3>3, <1>l, <1>m DEF Owners
  <2>3. ASSUME NEW q \in PID, pc'[q] = "clearFlag" PROVE Own \/ Owners = {}
    BY <2>3, <1>1, <1>l, <1>m, HomingFacts DEF ClearsAlone, Bears
  <2> QED
    BY <2>1, <2>2, <2>3
<1>8. HoldHasIt'
  BY <1>1, <1>l, <1>m, <1>u, CommandsKeep, HomingFacts DEF HoldHasIt, Bears
<1> QED
  BY <1>3, <1>4, <1>5, <1>6, <1>7, <1>8, <1>u, HomingFacts DEF PutBack

\* A process is killed: never halfway through a restore.
LEMMA LiveKill ==
  ASSUME Homing, [Next]_vars, NEW p \in PID, Kill(p), UNCHANGED lever
  PROVE  PutBack'
<1>u. /\ user' = user /\ lid' = lid /\ applied' = applied /\ prev' = prev
      /\ file' = file /\ call' = [call EXCEPT ![p] = Idle]
      /\ pc' = [pc EXCEPT ![p] = "none"]
  BY DEF lever, Kill, Crash
<1>m. /\ pc'[p] = "none" /\ call'[p] = Idle
      /\ \A q \in PID \ {p} : pc'[q] = pc[q] /\ call'[q] = call[q]
  BY <1>u, HomingFacts DEF HoldsTypeOK
<1>o. Own' <=> Own
  BY <1>u DEF Own
<1>1. ~PuttingBack(p)
  <2>1. pc[p] = "engage" \/ call[p].at \in {"idle", "ac"}
    BY HomingFacts DEF Kill
  <2> QED
    BY <2>1, SettledLabels DEF PuttingBack
<1>2. \A q \in PID : Finds(q)'
  <2>1. ASSUME NEW q \in PID, q # p PROVE Finds(q)'
    BY <2>1, <1>m, <1>u, <1>o, HomingFacts DEF Finds, EngageFinds, RestoreFinds
  <2>2. Finds(p)'
    BY <1>m, SettledLabels DEF Finds, Idle
  <2> QED
    BY <2>1, <2>2
<1>3. Returning => Returning'
  <2>1. ASSUME NEW q \in PID, PuttingBack(q) PROVE PuttingBack(q)'
    BY <2>1, <1>1, <1>m DEF PuttingBack
  <2> QED
    BY <2>1, <1>o DEF Returning
<1>4. \A q \in PID : pc'[q] \in Settled \cup Held => pc'[q] = pc[q]
  BY <1>m, SettledLabels
<1>5. ClearsAlone'
  <2>1. Owners = {} => Owners' = {}
    BY <1>m, SettledLabels DEF Owners
  <2>2. "kill" \in user.may
    BY DEF Kill
  <2>3. \A q \in PID : pc'[q] = "clearFlag" => pc[q] = "clearFlag"
    BY <1>m
  <2> QED
    BY <2>1, <2>2, <2>3, <1>4, <1>u, <1>o, CommandsKeep, HomingFacts DEF ClearsAlone, OneAtATime
<1>6. HoldHasIt'
  BY <1>4, <1>u, CommandsKeep, HomingFacts DEF HoldHasIt
<1> QED
  BY <1>2, <1>3, <1>4, <1>5, <1>6, <1>u, HomingFacts DEF PutBack

-----------------------------------------------------------------------------
(* The steps of engage and disengage.                                      *)

\* Whoever takes one is in engage or in a restore.
LEMMA CallsKeeper ==
  ASSUME Homing, NEW p \in PID, PowercfgStep(p)
  PROVE  \/ pc[p] = "engage" /\ EngageFinds(call[p])
         \/ pc[p] \in Restoring /\ RestoreFinds(call[p])
<1>1. pc[p] \in {"engage"} \cup Restoring
  BY HomingFacts DEF PowercfgStep, QueryLid, SavePrev, LoadPrev, SetAC, SetDC, DropPrev,
                     Activate, Finds
<1> QED
  BY <1>1, HomingFacts DEF Finds

\* engage.  It may stop after any of its calls.
LEMMA LiveEngageStep ==
  ASSUME Restorable, Homing, [Next]_vars, NEW p \in PID, PowercfgStep(p), pc[p] = "engage"
  PROVE  PutBack'
<1>i. EngageFinds(call[p]) /\ p \in PID /\ pc[p] = "engage" /\ Homing /\ [Next]_vars
  BY CallsKeeper, SettledLabels
<1>t. /\ pc \in [PID -> Label] /\ call \in [PID -> Call] /\ call[p] \in Call
      /\ lid \in Lid /\ Default \in Lid /\ user.lid = Default /\ prev \in {NoPrev, Default}
  BY HomingFacts DEF HoldsTypeOK
<1>u. user' = user
  BY UserStays
<1>h. "abortDisengage" \in Restoring /\ "abortDisengage" # "engage" /\ "display" \notin Restoring
      /\ "engage" \notin Restoring
  BY DEF Restoring, Disengaging
<1>r. ASSUME NEW ok \in BOOLEAN, Returns(p, ok)
      PROVE  /\ \A q \in PID \ {p} : pc'[q] = pc[q] /\ call'[q] = call[q]
             /\ file' = file
             /\ pc'[p] = IF ok THEN "display" ELSE "abortDisengage"
             /\ Finds(p)'
  <2>1. /\ file' = file
        /\ pc' = [pc EXCEPT ![p] = IF ok THEN "display" ELSE "abortDisengage"]
        /\ call' = [call EXCEPT ![p] = Idle]
    BY <1>r DEF Returns, EngageReturns, DisengageReturns, Goto, Step
  <2>2. call'[p] = Idle /\ pc'[p] = IF ok THEN "display" ELSE "abortDisengage"
    BY <2>1, <1>t
  <2>3. Finds(p)'
    BY <2>2, <1>h DEF Finds, RestoreFinds, Idle
  <2> QED
    BY <2>1, <2>2, <2>3, <1>t
\* engage fails: the setting is its user's, or still reads as overridden.
<1>x. ASSUME Returns(p, FALSE), prev' \in {NoPrev, Default}, Own' \/ lid'.ac = 0
      PROVE  PutBack'
  <2>1. pc'[p] = "abortDisengage"
    BY <1>x, <1>r
  <2> QED
    BY <1>i, <1>x, <1>r, <2>1, EngageKeep
\* engage goes on to its next call.
<1>g. ASSUME NEW c \in Call, Goes(p, c), prev' \in {NoPrev, Default}, Own' \/ lid'.ac = 0,
             EngageFinds(c)'
      PROVE  PutBack'
  <2>1. /\ \A q \in PID \ {p} : pc'[q] = pc[q] /\ call'[q] = call[q]
        /\ file' = file /\ pc'[p] = "engage" /\ call'[p] = c
    BY <1>g, <1>t, <1>i DEF Goes, holdVars
  <2>2. EngageFinds(call[p])'
    BY <1>g, <2>1 DEF EngageFinds, Own
  <2>3. Finds(p)'
    BY <2>1, <2>2, <1>h DEF Finds
  <2> QED
    BY <1>i, <1>g, <2>1, <2>3, EngageKeep
<1>1. CASE QueryLid(p)
  <2>1. PICK c : Goes(p, c) /\ c = [at |-> "save", put |-> lid, saved |-> FALSE]
    BY <1>1 DEF QueryLid, Restorable
  <2>2. Own /\ UNCHANGED lever /\ c \in Call
    BY <1>1, <1>i, <1>t, <2>1 DEF QueryLid, EngageFinds, Call
  <2>3. Own' /\ prev' = prev
    BY <2>2 DEF Own, lever
  <2>4. EngageFinds(c)'
    BY <2>1, <2>2, <2>3, <1>t DEF EngageFinds, Own
  <2> QED
    BY <2>1, <2>2, <2>3, <2>4, <1>t, <1>g
<1>2. CASE SavePrev(p)
  <2>1. Own /\ call[p].put = Default /\ UNCHANGED <<user, lid, applied>>
    BY <1>2, <1>i DEF SavePrev, EngageFinds
  <2>2. Own'
    BY <2>1 DEF Own
  <2>3. CASE prev' = call[p].put /\ Goes(p, [at |-> "ac", put |-> Both(0), saved |-> FALSE])
    <3>1. PICK c : Goes(p, c) /\ c = [at |-> "ac", put |-> Both(0), saved |-> FALSE]
      BY <2>3
    <3>2. c \in Call
      BY <3>1, LidTypes DEF Call
    <3>3. EngageFinds(c)'
      BY <3>1, <2>2 DEF EngageFinds
    <3> QED
      BY <3>1, <3>2, <3>3, <2>1, <2>2, <2>3, <1>g
  <2>4. CASE prev' \in {prev, NoPrev} /\ Returns(p, FALSE)
    BY <2>2, <2>4, <1>t, <1>x
  <2> QED
    BY <1>2, <2>3, <2>4 DEF SavePrev
<1>3. CASE SetAC(p)
  <2>1. call[p].at = "ac" /\ Own /\ call[p].put = Both(0) /\ ~call[p].saved
        /\ UNCHANGED <<user, applied, prev>>
    BY <1>3, <1>i DEF SetAC, EngageFinds
  <2>2. CASE Goes(p, [call[p] EXCEPT !.at = "dc"]) /\ lid' = [lid EXCEPT !.ac = call[p].put.ac]
    <3>1. PICK c : Goes(p, c) /\ c = [call[p] EXCEPT !.at = "dc"]
      BY <2>2
    <3>2. c \in Call /\ c.at = "dc" /\ c.put = Both(0) /\ ~c.saved
      BY <3>1, <2>1, <1>t DEF Call
    <3>3. lid'.ac = 0
      BY <2>1, <2>2, <1>t DEF Both, Lid
    <3>4. EngageFinds(c)'
      BY <3>2, <3>3 DEF EngageFinds
    <3> QED
      BY <3>1, <3>2, <3>3, <3>4, <2>1, <1>t, <1>g
  <2>3. CASE Fails(p) /\ UNCHANGED lid
    BY <2>1, <2>3, <1>t, <1>x DEF Fails, Own
  <2> QED
    BY <1>3, <2>2, <2>3 DEF SetAC
<1>4. CASE SetDC(p)
  <2>1. call[p].at = "dc" /\ lid.ac = 0 /\ call[p].put = Both(0) /\ ~call[p].saved
        /\ UNCHANGED <<user, applied, prev>>
    BY <1>4, <1>i DEF SetDC, EngageFinds
  <2>2. CASE Goes(p, [call[p] EXCEPT !.at = "apply"]) /\ lid' = [lid EXCEPT !.dc = call[p].put.dc]
    <3>1. PICK c : Goes(p, c) /\ c = [call[p] EXCEPT !.at = "apply"]
      BY <2>2
    <3>2. c \in Call /\ c.at = "apply"
      BY <3>1, <2>1, <1>t DEF Call
    <3>3. lid' = Both(0) /\ lid'.ac = 0
      BY <2>1, <2>2, <1>t DEF Both, Lid
    <3>4. EngageFinds(c)'
      BY <3>2, <3>3 DEF EngageFinds
    <3> QED
      BY <3>1, <3>2, <3>3, <3>4, <2>1, <1>t, <1>g
  <2>3. CASE Fails(p) /\ UNCHANGED lid
    BY <2>1, <2>3, <1>t, <1>x DEF Fails
  <2> QED
    BY <1>4, <2>1, <2>2, <2>3 DEF SetDC
<1>5. CASE Activate(p)
  <2>1. call[p].at = "apply" /\ lid = Both(0) /\ UNCHANGED <<user, lid, prev>>
    BY <1>5, <1>i DEF Activate, EngageFinds
  <2>2. lid'.ac = 0
    BY <2>1 DEF Both
  <2>3. CASE Returns(p, TRUE) /\ applied' = lid
    <3>1. pc'[p] = "display" /\ lid' = Both(0) /\ applied' = Both(0)
      BY <2>1, <2>3, <1>r
    <3> QED
      BY <3>1, <2>1, <2>2, <2>3, <1>i, <1>r, <1>t, EngageKeep
  <2>4. CASE Fails(p) /\ UNCHANGED applied
    BY <2>1, <2>2, <2>4, <1>t, <1>x DEF Fails
  <2> QED
    BY <1>5, <2>3, <2>4 DEF Activate
<1>6. ~LoadPrev(p) /\ ~DropPrev(p)
  BY <1>i, <1>h DEF LoadPrev, DropPrev, EngageFinds
<1> QED
  BY <1>1, <1>2, <1>3, <1>4, <1>5, <1>6 DEF PowercfgStep

\* disengage, called as such or by stopHolder.
LEMMA LiveRestoreStep ==
  ASSUME Restorable, Homing, [Next]_vars, NEW p \in PID, PowercfgStep(p), pc[p] # "engage"
  PROVE  PutBack'
<1>i. pc[p] \in Restoring /\ RestoreFinds(call[p]) /\ Homing /\ [Next]_vars
  BY CallsKeeper
<1>t. /\ pc \in [PID -> Label] /\ call \in [PID -> Call] /\ call[p] \in Call
      /\ lid \in Lid /\ Default \in Lid /\ user.lid = Default /\ prev \in {NoPrev, Default}
  BY HomingFacts DEF HoldsTypeOK
<1>u. user' = user
  BY UserStays
<1>n. ~Fails(p)
  BY DEF Fails, Restorable
<1>h. "engage" \notin Restoring
  BY SettledLabels
\* It goes on to its next call.
<1>g. ASSUME NEW c \in Call, Goes(p, c), prev' \in {NoPrev, Default}, RestoreFinds(c)',
             lid.ac = Default.ac => lid'.ac = Default.ac,
             lid = Default => lid' = Default,
             applied' = applied,
             c.at \in {"dc", "drop", "apply"} \/ (lid' = lid /\ call[p].at = "idle")
      PROVE  PutBack'
  <2>1. /\ \A q \in PID \ {p} : pc'[q] = pc[q] /\ call'[q] = call[q]
        /\ file' = file /\ pc'[p] = pc[p] /\ call'[p] = c
    BY <1>g, <1>t DEF Goes, holdVars
  <2>2. RestoreFinds(call[p])'
    BY <1>g, <2>1 DEF RestoreFinds
  <2>3. Finds(p)'
    BY <2>1, <2>2, <1>i, <1>h DEF Finds
  <2>4. Own => Own'
    BY <1>g, <1>u, <1>t DEF Own
  <2>5. PuttingBack(p)' \/ (UNCHANGED <<lid, applied>> /\ ~PuttingBack(p))
    BY <1>g, <1>i, <2>1 DEF PuttingBack
  <2> QED
    BY <1>i, <1>g, <2>1, <2>3, <2>4, <2>5, RestoreKeep
<1>1. CASE LoadPrev(p)
  <2>1. PICK c : /\ Goes(p, c)
                 /\ c = [at |-> "ac", put |-> IF prev = NoPrev THEN Default ELSE prev,
                         saved |-> prev # NoPrev]
    BY <1>1 DEF LoadPrev
  <2>2. c.at = "ac" /\ c.put = Default /\ c \in Call
    BY <2>1, <1>t DEF Call
  <2>3. UNCHANGED lever /\ call[p].at = "idle"
    BY <1>1 DEF LoadPrev
  <2>4. RestoreFinds(c)'
    BY <2>2 DEF RestoreFinds
  <2> QED
    BY <2>1, <2>2, <2>3, <2>4, <1>t, <1>g DEF lever
<1>2. CASE SetAC(p)
  <2>1. PICK c : Goes(p, c) /\ c = [call[p] EXCEPT !.at = "dc"]
    BY <1>2, <1>n DEF SetAC
  <2>2. /\ lid' = [lid EXCEPT !.ac = Default.ac] /\ UNCHANGED <<applied, prev>>
        /\ call[p].put = Default
    BY <1>2, <1>n, <1>i DEF SetAC, RestoreFinds
  <2>3. c.at = "dc" /\ c.put = Default /\ c \in Call
    BY <2>1, <2>2, <1>t DEF Call
  <2>4. lid'.ac = Default.ac /\ (lid = Default => lid' = Default)
    BY <2>2, <1>t DEF Lid
  <2>5. RestoreFinds(c)'
    BY <2>3, <2>4 DEF RestoreFinds
  <2> QED
    BY <2>1, <2>2, <2>3, <2>4, <2>5, <1>t, <1>g
<1>3. CASE SetDC(p)
  <2>1. PICK c : /\ Goes(p, c)
                 /\ c = [call[p] EXCEPT !.at = IF call[p].saved THEN "drop" ELSE "apply"]
    BY <1>3, <1>n DEF SetDC
  <2>2. /\ lid' = [lid EXCEPT !.dc = Default.dc] /\ UNCHANGED <<applied, prev>>
        /\ lid.ac = Default.ac
    BY <1>3, <1>n, <1>i DEF SetDC, RestoreFinds
  <2>3. c.at \in {"drop", "apply"} /\ c \in Call
    BY <2>1, <1>t DEF Call
  <2>4. lid' = Default
    BY <2>2, <1>t DEF Lid
  <2>5. RestoreFinds(c)'
    BY <2>3, <2>4 DEF RestoreFinds
  <2> QED
    BY <2>1, <2>2, <2>3, <2>4, <2>5, <1>t, <1>g
<1>4. CASE DropPrev(p)
  <2>1. PICK c : Goes(p, c) /\ c = [call[p] EXCEPT !.at = "apply"]
    BY <1>4 DEF DropPrev
  <2>2. lid = Default /\ UNCHANGED <<lid, applied>> /\ prev' \in {NoPrev, prev}
    BY <1>4, <1>i DEF DropPrev, RestoreFinds
  <2>3. c.at = "apply" /\ c \in Call
    BY <2>1, <1>t DEF Call
  <2>4. RestoreFinds(c)'
    BY <2>2, <2>3 DEF RestoreFinds
  <2> QED
    BY <2>1, <2>2, <2>3, <2>4, <1>t, <1>g
<1>5. CASE Activate(p)
  <2>1. Returns(p, TRUE) /\ lid = Default /\ UNCHANGED <<lid, prev>> /\ Own'
    BY <1>5, <1>n, <1>i, <1>t DEF Activate, RestoreFinds, Own
  <2>2. PICK l : /\ pc' = [pc EXCEPT ![p] = l] /\ l \in Settled
                 /\ l \in Owning <=> pc[p] \in Owning
    <3>1. /\ pc[p] = "reclaimDisengage" => pc' = [pc EXCEPT ![p] = "reclaimRemove"]
          /\ pc[p] = "abortDisengage" => pc' = [pc EXCEPT ![p] = "abortRemove"]
          /\ pc[p] = "relDisengage" => pc' = [pc EXCEPT ![p] = "relRemove"]
          /\ pc[p] = "stopDisengage" => pc' = [pc EXCEPT ![p] = "stopRemove"]
          /\ pc[p] = "clearDisengage" => pc' = [pc EXCEPT ![p] = "clearRemove"]
          /\ pc[p] = "stopHolder" => pc' = [pc EXCEPT ![p] = "stopDrop"]
      BY <2>1, <1>i, <1>h DEF Returns, EngageReturns, DisengageReturns, Goto, Step
    <3> QED
      BY <3>1, <1>i DEF Restoring, Disengaging, Settled, Clean, Owning, Engaging, Catching, Waiting,
                        Releasing
  <2>3. /\ \A q \in PID \ {p} : pc'[q] = pc[q] /\ call'[q] = call[q]
        /\ pc'[p] = l /\ call'[p] = Idle
    BY <2>1, <2>2, <1>t DEF Returns
  <2>4. file' = file
    BY <2>1 DEF Returns, EngageReturns, DisengageReturns
  <2>5. l \notin {"engage"} /\ (l \in Restoring => l = "stopDisengage")
    BY <2>2 DEF Settled, Clean, Restoring, Disengaging
  <2>6. Finds(p)'
    BY <2>3, <2>5 DEF Finds, RestoreFinds, Idle
  <2> QED
    BY <2>1, <2>2, <2>3, <2>4, <2>6, <1>i, <1>t, RestoreKeep
<1>6. ~QueryLid(p) /\ ~SavePrev(p)
  BY <1>i, <1>h DEF QueryLid, SavePrev, RestoreFinds
<1> QED
  BY <1>1, <1>2, <1>3, <1>4, <1>5, <1>6 DEF PowercfgStep

-----------------------------------------------------------------------------
LEMMA HomingStep ==
  ASSUME Restorable, Homing, Loose', [Next]_vars
  PROVE  Homing'
<1>1. Defaulting(user)'
  BY UserStays DEF Homing, Defaulting
<1>2. CASE UNCHANGED vars
  BY <1>2 DEF vars, holdVars, lever, Homing, PutBack, Finds, EngageFinds, RestoreFinds, Returning,
              PuttingBack, Own, ClearsAlone, HoldHasIt, Owners, OneStop, StopsUnheld, Loose,
              Defaulting, OneAtATime
<1>3. ASSUME NEW p \in PID, PowercfgStep(p) PROVE PutBack'
  BY <1>3, LiveEngageStep, LiveRestoreStep
<1>4. ASSUME NEW p \in PID, Kill(p), UNCHANGED lever PROVE PutBack'
  BY <1>4, LiveKill
<1>5. ASSUME NEW p \in PID, UNCHANGED <<lever, call>>,
             \/ CommandStep(p) \/ QueryFlag(p) \/ StopDrop(p) \/ GiveUp(p)
             \/ EnvironmentStep(p) /\ Spared(p)
      PROVE  PutBack'
  BY <1>5, LiveCommandStep
<1> QED
  BY <1>1, <1>2, <1>3, <1>4, <1>5 DEF Next, Homing

LEMMA HomingInvariant == ASSUME Restorable PROVE Spec => [](Defaulting(user) => Homing)
<1>1. WindowsInit => (Defaulting(user) /\ Loose => Homing)
  <2> SUFFICES ASSUME WindowsInit, Defaulting(user), Loose PROVE PutBack
    BY DEF Homing
  <2>1. /\ \A p \in PID : pc[p] = "none" /\ call[p] = Idle
        /\ prev = NoPrev /\ Own
    BY DEF WindowsInit, Init, Own
  <2>2. \A p \in PID : pc[p] \notin Settled \cup Restoring \cup Held \cup Stopping \cup {"engage", "clearFlag"}
    BY <2>1, SettledLabels DEF Stopping
  <2> QED
    BY <2>1, <2>2 DEF PutBack, Finds, Returning, ClearsAlone, HoldHasIt, OneStop, StopsUnheld, Idle
<1>2. (Defaulting(user) => Homing) /\ Loose /\ Loose' /\ [Next]_vars => (Defaulting(user) => Homing)'
  <2> SUFFICES ASSUME Defaulting(user) => Homing, Loose', [Next]_vars, Defaulting(user)' PROVE Homing'
    OBVIOUS
  <2>1. Defaulting(user)
    BY UserStays DEF Defaulting
  <2> QED
    BY <2>1, HomingStep
<1>3. WindowsInit /\ Loose => (Defaulting(user) => Homing)
  BY <1>1
<1> QED
  BY <1>2, <1>3, LooseInvariant, PTL DEF Spec, Restorable

-----------------------------------------------------------------------------
(* The setting, for both kinds of user.                                    *)

\* The default setting stands a live stop and a failed save; a setting of the
\* user's own needs an orderly user, and saves that succeed.
WellServed(u) == Defaulting(u) \/ (Dependable /\ Orderly(u))

LEMMA HomingGivesBack ==
  ASSUME Homing
  PROVE  /\ Recoverable /\ SettingReturns /\ HoldHolds
         /\ OneAtATime(user) => StopSleeps
<1>1. Recoverable
  BY HomingFacts DEF Recoverable
<1>2. SettingReturns
  <2> SUFFICES ASSUME file = NoFile, \A p \in PID : pc[p] \in {"none", "foreign"} PROVE Own
    BY DEF SettingReturns, Own
  <2>1. \A p \in PID : ~PuttingBack(p)
    BY DEF PuttingBack, Restoring, Disengaging
  <2> QED
    BY <2>1, HomingFacts DEF Returning
<1>3. HoldHolds
  BY HomingFacts DEF HoldHolds, HoldHasIt
<1>4. OneAtATime(user) => StopSleeps
  <2>1. "stopped" \in Settled /\ Default.ac # 0
    BY DEF Settled, Clean, Default, Both
  <2> QED
    BY <2>1, HomingFacts DEF StopSleeps, ClearsAlone, Own
<1> QED
  BY <1>1, <1>2, <1>3, <1>4

LEMMA EitherInvariant ==
  ASSUME Restorable, \A u \in Users : WellServed(u)
  PROVE  Spec => [](user \in Users /\ (Homing \/ (Dependable /\ Orders)))
<1>1. CASE Dependable
  <2>1. Loose /\ (Defaulting(user) => Homing) /\ (Orderly(user) => Orders)
          => user \in Users /\ (Homing \/ (Dependable /\ Orders))
    BY <1>1 DEF Loose, LeverType, WellServed
  <2>2. Spec => []Loose
    BY LooseInvariant DEF Restorable
  <2>3. Spec => [](Defaulting(user) => Homing)
    BY HomingInvariant
  <2>4. Spec => [](Orderly(user) => Orders)
    BY <1>1, OrdersInvariant
  <2> QED
    BY <2>1, <2>2, <2>3, <2>4, PTL
<1>2. CASE ~Dependable
  <2>1. Loose /\ (Defaulting(user) => Homing)
          => user \in Users /\ (Homing \/ (Dependable /\ Orders))
    BY <1>2 DEF Loose, LeverType, WellServed
  <2>2. Spec => []Loose
    BY LooseInvariant DEF Restorable
  <2>3. Spec => [](Defaulting(user) => Homing)
    BY HomingInvariant
  <2> QED
    BY <2>1, <2>2, <2>3, PTL
<1> QED
  BY <1>1, <1>2

\* Whatever is killed before it starts to restore: while the setting is not the
\* user's own, what disengage would put back is.
THEOREM LidIsRecoverable ==
  ASSUME Restorable, \A u \in Users : WellServed(u)
  PROVE  Spec => []Recoverable
<1>1. Homing \/ (Dependable /\ Orders) => Recoverable
  BY HomingGivesBack, OrdersRecoverable
<1> QED
  BY <1>1, EitherInvariant, PTL

\* ... and once no command is left and no pidfile, the setting is the user's own
\* again, and in force.
THEOREM LidIsGivenBack ==
  ASSUME Restorable, \A u \in Users : WellServed(u)
  PROVE  Spec => []SettingReturns
<1>1. Homing \/ (Dependable /\ Orders) => SettingReturns
  BY HomingGivesBack, OrdersGiveBack
<1> QED
  BY <1>1, EitherInvariant, PTL

\* When stop says so, closing the lid on AC makes the machine sleep again, even
\* though the hold that stop went past is still there and releasing.
THEOREM StopLetsItSleep ==
  ASSUME Restorable, \A u \in Users : WellServed(u) /\ OneAtATime(u)
  PROVE  Spec => []StopSleeps
<1>1. user \in Users /\ (Homing \/ (Dependable /\ Orders)) => StopSleeps
  BY HomingGivesBack, OrdersGiveBack
<1>2. Spec => [](user \in Users /\ (Homing \/ (Dependable /\ Orders)))
  BY EitherInvariant
<1> QED
  BY <1>1, <1>2, PTL

\* Whoever leaves live holds alone has the lid ignored from the return of engage
\* until the hold's own release.
THEOREM HoldKeepsLidIgnored ==
  ASSUME Restorable, \A u \in Users : WellServed(u)
  PROVE  Spec => []HoldHolds
<1>1. Homing \/ (Dependable /\ Orders) => HoldHolds
  BY HomingGivesBack, OrdersGiveBack
<1> QED
  BY <1>1, EitherInvariant, PTL
=============================================================================
