----------------------------- MODULE LidProofs -----------------------------
(***************************************************************************)
(* Proofs about the lid setting on Windows: for a user who stops only what *)
(* is dead, one stop at a time, the setting can always be put back and is  *)
(* put back, whatever process is killed before it starts to restore.       *)
(***************************************************************************)
EXTENDS WindowsProofs

\* What must not fail: the setting can be read, saved and written back.  A
\* start may still fail half done, and be killed anywhere; the pidfile may not be
\* written or removed.
Dependable == CarefulUse /\ Faults \cap {"query", "save", "disengage"} = {}

\* How the user of these proofs behaves: any setting but "do nothing" on AC.
Orderly(u) == u.lid.ac # 0 /\ u.may \subseteq {"outlived", "kill"}

-----------------------------------------------------------------------------
(* What a step of the commands leads to.                                   *)

\* The labels at which a process is about to call, or inside, the keeper.
AtLever == {"engage"} \cup Disengaging

\* The labels of `stop` past a holder that it found alive.
PastHolder == {"stopHolder", "stopDrop", "poll", "pollAlive", "stopFlag", "stopDisengage",
               "stopRemove"}

\* The labels reached only with the setting put back.
Clean == {"reclaimRemove", "recreate", "write", "unwrite", "abortRemove", "relRemove",
          "clearRemove", "tidyRemove", "stopped"}

\* p, which has left the keeper alone, is at label l now.
Leads(p, l) ==
  /\ Moves(p, l)
  /\ pc[p] \notin AtLever
  /\ l = "engage" => pc[p] = "write"
  /\ l \in Disengaging => l = "relDisengage" /\ pc[p] = "own" /\ file' = file
  /\ l \in Held => pc[p] \in Held
  /\ l \in Clean => pc[p] \in Clean \/ file = NoFile
  /\ file' = NoFile => file = NoFile \/ pc[p] \in Clean \cup PastHolder

LEMMA CommandLeads ==
  ASSUME HoldsTypeOK, NEW p \in PID,
         CommandStep(p) \/ GiveUp(p) \/ EnvironmentStep(p) \/ StopDrop(p),
         pc[p] \notin PastHolder
  PROVE  \E l : Leads(p, l)
<1> USE DEF Leads, Moves, AtLever, Disengaging, Held, Waiting, Clean, PastHolder, HoldsTypeOK,
            Goto, Exit, Step, Awaken
<1>1. CASE Create(p)
  BY <1>1, PIDAssumption DEF Create, Record, NoFile
<1>2. CASE Write(p)
  BY <1>2 DEF Write, WriteRecord, Record, NoFile
<1>3. CASE Inspect(p) \/ CheckHolder(p)
  BY <1>3 DEF Inspect, CheckHolder
<1>4. CASE RemovePidfile(p)
  BY <1>4 DEF RemovePidfile
<1>5. CASE StartDisplay(p) \/ Listen(p) \/ Spawn(p)
  BY <1>5 DEF StartDisplay, Listen, Spawn
<1>6. CASE TakeSignal(p) \/ Deadline(p)
  BY <1>6 DEF TakeSignal, Deadline
<1>7. CASE GraceEnds(p) \/ Reap(p)
  BY <1>7 DEF GraceEnds, Reap
<1>8. CASE StopDisplay(p) \/ OwnershipGuard(p)
  BY <1>8 DEF StopDisplay, OwnershipGuard
<1>9. CASE StopRead(p) \/ StopAlive(p)
  BY <1>9 DEF StopRead, StopAlive
<1>10. CASE PollFile(p) \/ PollAlive(p) \/ GiveUp(p) \/ StopDrop(p)
  BY <1>10 DEF PollFile, PollAlive, GiveUp, StopDrop
<1>11. CASE StatusRead(p) \/ StatusAlive(p) \/ Leave(p)
  BY <1>11 DEF StatusRead, StatusAlive, Leave
<1>12. CASE Launch(p) \/ ForeignEnds(p)
  BY <1>12 DEF Launch, ForeignEnds
<1>13. CASE ChildExits(p) \/ Interrupt(p) \/ AssertionEnds(p)
  BY <1>13 DEF ChildExits, Interrupt, AssertionEnds
<1> QED
  BY <1>1, <1>2, <1>3, <1>4, <1>5, <1>6, <1>7, <1>8, <1>9, <1>10, <1>11, <1>12, <1>13
  DEF CommandStep, EnvironmentStep

-----------------------------------------------------------------------------
(* No stop ever finds a live holder.                                       *)

\* A stop has no other beside it, and relies on the pidfile as it is; whoever
\* that names is the hold, or has ended; so stop goes no further.
OneStop     == \A p, q \in PID : pc[p] \in Stopping /\ pc[q] \in Stopping => p = q
SeenOnFile  == \A p \in PID : pc[p] = "stopAlive" => file = Record(seen[p], TRUE)
NoImpostor  == \A p \in PID : file = Record(p, TRUE) => pc[p] \in Owning \cup {"none"}
NoneToSeize == \A p \in PID : pc[p] \notin PastHolder

StopInv == OneStop /\ SeenOnFile /\ NoImpostor /\ NoneToSeize

\* What any step of the commands does to these.
Shifts(p, l) ==
  /\ Moves(p, l)
  /\ pc[p] \in Owning => l \in Owning \cup {"none"}
  /\ pc[p] = "none" /\ l # "none" => Launch(p) /\ Spared(p)
  /\ l = "stopAlive" =>
       \/ pc[p] = "stopAlive" /\ seen'[p] = seen[p]
       \/ pc[p] = "stopRead" /\ file = Record(seen'[p], TRUE)
  /\ l \in PastHolder => \/ pc[p] \in PastHolder
                         \/ pc[p] = "stopAlive" /\ pc[seen[p]] # "none"
  /\ file' = file \/ pc[p] \in Starting \cup Owning \cup (Stopping \ {"stopRead", "stopAlive"})
  /\ \/ file' = file
     \/ \A q \in PID : file' # Record(q, TRUE)
     \/ pc[p] = "write" /\ file' = Record(p, TRUE) /\ l \in {"engage", "none"}

LEMMA MovedShifts ==
  ASSUME HoldsTypeOK, NEW p \in PID, Moved(p)
  PROVE  \E l : Shifts(p, l)
<1> USE DEF Shifts, Moves, PastHolder, Starting, Acquiring, Owning, Engaging, Catching, Waiting,
            Releasing, Stopping, HoldsTypeOK, Goto, Exit, Step, Awaken
<1>f. /\ \A q \in PID : NoFile # Record(q, TRUE) /\ Record(p, FALSE) # Record(q, TRUE)
      /\ readHold # Nobody => file = Record(readHold, TRUE)
  BY DEF NoFile, Record, Files, readHold
<1>1. CASE Create(p)
  BY <1>1, <1>f DEF Create
<1>2. CASE Write(p)
  BY <1>2 DEF Write, WriteRecord
<1>3. CASE Inspect(p) \/ CheckHolder(p)
  BY <1>3 DEF Inspect, CheckHolder
<1>4. CASE RemovePidfile(p)
  BY <1>4, <1>f DEF RemovePidfile
<1>5. CASE StartDisplay(p) \/ Listen(p) \/ Spawn(p)
  BY <1>5 DEF StartDisplay, Listen, Spawn
<1>6. CASE TakeSignal(p) \/ Deadline(p)
  BY <1>6 DEF TakeSignal, Deadline
<1>7. CASE GraceEnds(p) \/ Reap(p)
  BY <1>7 DEF GraceEnds, Reap
<1>8. CASE StopDisplay(p) \/ OwnershipGuard(p)
  BY <1>8 DEF StopDisplay, OwnershipGuard
<1>9. CASE StopRead(p)
  BY <1>9, <1>f DEF StopRead
<1>10. CASE StopAlive(p)
  BY <1>10 DEF StopAlive, processAlive
<1>11. CASE PollFile(p) \/ PollAlive(p) \/ GiveUp(p)
  BY <1>11 DEF PollFile, PollAlive, GiveUp
<1>12. CASE StatusRead(p) \/ StatusAlive(p) \/ Leave(p)
  BY <1>12 DEF StatusRead, StatusAlive, Leave
<1>13. CASE AnyKeeper(p)
  BY <1>13 DEF AnyKeeper, FlagRead, EngageReturns, DisengageReturns
<1>14. CASE StopEnds(p)
  BY <1>14, <1>f DEF StopEnds, StopDrop
<1>15. CASE Launch(p) /\ Spared(p)
  BY <1>15 DEF Launch
<1>16. CASE ForeignEnds(p) \/ Crash(p)
  BY <1>16 DEF ForeignEnds, Crash
<1>17. CASE ChildExits(p) \/ Interrupt(p) \/ AssertionEnds(p)
  BY <1>17 DEF ChildExits, Interrupt, AssertionEnds
<1> QED
  BY <1>1, <1>2, <1>3, <1>4, <1>5, <1>6, <1>7, <1>8, <1>9, <1>10, <1>11, <1>12, <1>13, <1>14,
     <1>15, <1>16, <1>17 DEF Moved, CommandStep, EnvironmentStep

LEMMA StopInvStep ==
  ASSUME Orderly(user), TypeInv, Slots, StopsUnheld, StopInv, [Next]_vars
  PROVE  StopInv'
<1>t. HoldsTypeOK /\ StartsAlone /\ OneStop /\ SeenOnFile /\ NoImpostor /\ NoneToSeize
  BY DEF TypeInv, Slots, StopInv
<1>u. "reuse" \notin user.may /\ "stops" \notin user.may
  BY DEF Orderly
<1>1. CASE UNCHANGED holdVars
  BY <1>1, <1>t DEF holdVars, StopInv, OneStop, SeenOnFile, NoImpostor, NoneToSeize
<1>2. ASSUME NEW p \in PID, Moved(p) PROVE StopInv'
  <2>1. PICK l : Shifts(p, l)
    BY <1>2, <1>t, MovedShifts
  <2>m. /\ pc'[p] = l
        /\ \A q \in PID \ {p} : pc'[q] = pc[q] /\ seen'[q] = seen[q]
    BY <2>1 DEF Shifts, Moves
  <2>2. OneStop'
    <3>1. ASSUME pc'[p] \in Stopping, NEW q \in PID \ {p}, pc[q] \in Stopping PROVE FALSE
      <4>1. CASE pc[p] \in Stopping
        BY <3>1, <4>1, <1>t DEF OneStop
      <4>2. CASE pc[p] \notin Stopping
        <5>1. Spared(p) /\ pc[p] = "none" /\ pc'[p] = "stopRead"
          BY <1>2, <1>t, <3>1, <4>2, StoppingGrow
        <5> QED
          BY <3>1, <5>1, <1>u DEF Spared
      <4> QED
        BY <4>1, <4>2
    <3> QED
      BY <3>1, <2>m, <1>t DEF OneStop
  <2>3. NoneToSeize'
    <3>1. pc[p] = "stopAlive" => pc[seen[p]] = "none"
      <4> SUFFICES ASSUME pc[p] = "stopAlive" PROVE pc[seen[p]] = "none"
        OBVIOUS
      <4>1. seen[p] \in PID
        BY DEF TypeInv, ReliesOnPid, Relying
      <4>2. pc[seen[p]] \in Owning \cup {"none"}
        BY <4>1, <1>t DEF SeenOnFile, NoImpostor
      <4> QED
        BY <4>1, <4>2 DEF StopsUnheld, Stopping
    <3> QED
      BY <3>1, <2>1, <2>m, <1>t DEF Shifts, NoneToSeize
  <2>4. SeenOnFile'
    <3>1. ASSUME NEW q \in PID, pc[q] \in {"stopRead", "stopAlive"}, file' # file PROVE p = q
      <4>1. pc[q] \in Stopping
        BY <3>1 DEF Stopping
      <4>2. pc[p] \in Starting \cup Owning \cup Stopping
        BY <3>1, <2>1 DEF Shifts
      <4> QED
        BY <4>1, <4>2, <1>t DEF StartsAlone, StopsUnheld, OneStop
    <3>2. pc[p] \in {"stopRead", "stopAlive"} /\ pc'[p] = "stopAlive" => file' = file
      BY <2>1 DEF Shifts, Starting, Acquiring, Owning, Engaging, Catching, Waiting, Releasing
    <3>3. ASSUME NEW q \in PID, pc'[q] = "stopAlive" PROVE file' = Record(seen'[q], TRUE)
      <4>1. CASE q = p
        BY <3>2, <3>3, <4>1, <2>1, <2>m, <1>t DEF Shifts, SeenOnFile
      <4>2. CASE q # p
        BY <3>1, <3>3, <4>2, <2>m, <1>t DEF SeenOnFile
      <4> QED
        BY <4>1, <4>2
    <3> QED
      BY <3>3 DEF SeenOnFile
  <2>5. NoImpostor'
    <3> SUFFICES ASSUME NEW q \in PID, file' = Record(q, TRUE) PROVE pc'[q] \in Owning \cup {"none"}
      BY DEF NoImpostor
    <3>1. CASE file' = file
      <4>1. pc[q] \in Owning \cup {"none"}
        BY <3>1, <1>t DEF NoImpostor
      <4>2. CASE q # p
        BY <4>1, <4>2, <2>m
      <4>3. CASE q = p /\ pc[p] \in Owning
        BY <4>3, <2>1, <2>m DEF Shifts
      <4>4. CASE q = p /\ pc[p] = "none"
        <5>1. readHold = p
          BY <3>1, <4>4 DEF Record, readHold
        <5> QED
          BY <4>4, <5>1, <2>1, <2>m, <1>u DEF Shifts, Spared
      <4> QED
        BY <4>1, <4>2, <4>3, <4>4
    <3>2. CASE file' = Record(p, TRUE) /\ l \in {"engage", "none"}
      BY <3>2, <2>m DEF Record, Owning, Engaging
    <3> QED
      BY <3>1, <3>2, <2>1 DEF Shifts
  <2> QED
    BY <2>2, <2>3, <2>4, <2>5 DEF StopInv
<1> QED
  BY <1>1, <1>2, CommandsMove

-----------------------------------------------------------------------------
(* The setting.                                                            *)

\* At most one process is inside the keeper, holds, or relies on the setting
\* being put back.
LEMMA Exclusive ==
  ASSUME Slots, StopsUnheld, StopInv, NEW p \in PID, NEW q \in PID,
         pc[p] \in AtLever, pc[q] \in AtLever \cup Held \cup Clean
  PROVE  p = q
<1> USE DEF AtLever, Disengaging, Held, Clean, Starting, Acquiring, Engaging, Catching, Waiting,
            Releasing, Stopping, Owning, Owners, Unheld, PastHolder
<1>s. SlotRecorded /\ WriterOwnsFile /\ StartsAlone /\ UnheldIsTrue /\ OneStop /\ NoneToSeize
  BY DEF Slots, StopInv
<1>1. CASE pc[p] \in Owning /\ pc[q] \in Owning
  BY <1>1, <1>s DEF SlotRecorded, Record
<1>2. CASE pc[p] \in Owning /\ pc[q] \notin Owning
  <2>1. pc[q] \notin Unheld /\ pc[q] \notin Stopping
    BY <1>2, <1>s DEF UnheldIsTrue, StopsUnheld
  <2>2. pc[q] \notin {"write", "unwrite"}
    BY <1>2, <1>s DEF SlotRecorded, WriterOwnsFile, Record
  <2> QED
    BY <1>2, <2>1, <2>2
<1>3. CASE pc[p] \notin Owning /\ pc[q] \in Owning
  BY <1>3, <1>s DEF UnheldIsTrue, NoneToSeize
<1>4. CASE pc[p] \notin Owning /\ pc[q] \notin Owning
  <2>1. pc[p] \in {"reclaimDisengage", "clearDisengage"}
    BY <1>4, <1>s DEF NoneToSeize
  <2>2. pc[q] \in Starting \cup Stopping
    BY <1>4
  <2>3. CASE pc[p] = "reclaimDisengage"
    BY <2>2, <2>3, <1>s DEF StartsAlone
  <2>4. CASE pc[p] = "clearDisengage" /\ pc[q] \in Starting
    BY <2>4, <1>s DEF StartsAlone
  <2>5. CASE pc[p] = "clearDisengage" /\ pc[q] \in Stopping
    BY <2>5, <1>s DEF OneStop
  <2> QED
    BY <2>1, <2>2, <2>3, <2>4, <2>5
<1> QED
  BY <1>1, <1>2, <1>3, <1>4

\* The setting is the user's own and in force; or a hold's.
Own        == lid = user.lid /\ applied = user.lid
Overridden == prev = user.lid /\ lid = Both(0) /\ applied = Both(0)

\* Outside a restore that has begun to write, the flag read is right about the
\* setting, and what disengage needs is written down.
Quiet == Own \/ (prev = user.lid /\ lid.ac = 0)

Midway(p) == pc[p] \in Disengaging /\ call[p].at \in {"dc", "drop", "apply"}

\* What a process inside engage or disengage can rely on.
EngageKnows(c) ==
  /\ c.at \in {"idle", "save", "ac"} => Own
  /\ c.at = "save" => c.put = user.lid
  /\ c.at \in {"ac", "dc", "apply"} => prev = user.lid
  /\ c.at \in {"ac", "dc"} => c.put = Both(0) /\ ~c.saved
  /\ c.at = "dc" => lid.ac = 0
  /\ c.at = "apply" => lid = Both(0)
  /\ c.at # "drop"

DisengageKnows(c) ==
  /\ c.at \in {"idle", "ac", "dc"} => prev = user.lid
  /\ c.at \in {"ac", "dc"} => c.put = user.lid
  /\ c.at = "dc" => lid.ac = user.lid.ac
  /\ c.at \in {"drop", "apply"} => lid = user.lid
  /\ c.at # "save"
  /\ file # NoFile

Knows(p) ==
  /\ call[p].at # "idle" => pc[p] \in AtLever
  /\ pc[p] = "engage" => EngageKnows(call[p])
  /\ pc[p] \in Disengaging => DisengageKnows(call[p])

LeverInv ==
  /\ \A p \in PID : Knows(p)
  /\ Quiet \/ \E p \in PID : Midway(p)
  /\ \A p \in PID : pc[p] \in Held => Overridden
  /\ \A p \in PID : pc[p] \in Clean => Own
  /\ file = NoFile => Own

\* Everything that is invariant for an orderly user.
Orders ==
  /\ user \in Users /\ Orderly(user)
  /\ TypeInv /\ LeverType /\ Slots /\ StopsUnheld /\ StopInv
  /\ LeverInv

LEMMA OrdersFacts ==
  ASSUME Dependable, Orders
  PROVE  /\ HoldsTypeOK /\ SlotRecorded /\ StartsAlone /\ UnheldIsTrue /\ NoneToSeize
         /\ Orderly(user)
         /\ user.lid \in Lid /\ user.lid.ac # 0 /\ user.may \subseteq {"outlived", "kill"}
         /\ lid \in Lid /\ applied \in Lid /\ call \in [PID -> Call]
         /\ \A p \in PID : Knows(p)
         /\ Quiet \/ \E p \in PID : Midway(p)
         /\ \A p \in PID : pc[p] \in Held => Overridden
         /\ \A p \in PID : pc[p] \in Clean => Own
         /\ file = NoFile => Own
BY UsersAssumption DEF Orderly, Orders, TypeInv, Slots, StopInv, LeverType, LeverInv

\* The flag read of a start or a stop that found no live hold.
Looking == {"reclaimFlag", "clearFlag"}

LEMMA LookingIsQuiet ==
  ASSUME Dependable, Orders, NEW p \in PID, pc[p] \in Looking
  PROVE  Quiet /\ (lid.ac # 0 => Own) /\ (lid.ac = 0 => prev = user.lid /\ file # NoFile)
<1>1. ASSUME NEW q \in PID, Midway(q) PROVE FALSE
  <2>1. pc[q] \in Disengaging /\ pc[q] \notin PastHolder
    BY <1>1, OrdersFacts DEF Midway, NoneToSeize
  <2>2. pc[q] \notin Owning
    BY OrdersFacts DEF UnheldIsTrue, Looking, Unheld
  <2>3. pc[q] \in {"reclaimDisengage", "clearDisengage"}
    BY <2>1, <2>2 DEF Disengaging, PastHolder, Owning, Engaging, Catching, Releasing
  <2>4. p # q /\ pc[p] \in Starting \cup Stopping /\ pc[q] \in Starting \cup Stopping
    BY <2>3 DEF Looking, Starting, Acquiring, Stopping
  <2>5. pc[p] \in Stopping /\ pc[q] \in Stopping
    BY <2>4, OrdersFacts DEF StartsAlone
  <2> QED
    BY <2>4, <2>5 DEF Orders, StopInv, OneStop
<1>2. Quiet
  BY <1>1, OrdersFacts
<1> QED
  BY <1>2, OrdersFacts DEF Quiet, Own

\* A step of the commands that calls no keeper.
LEMMA LidCommandStep ==
  ASSUME Dependable, Orders, NEW p \in PID, UNCHANGED <<lever, call>>,
         \/ CommandStep(p) \/ GiveUp(p) \/ EnvironmentStep(p) \/ StopDrop(p)
         \/ QueryFlag(p)
  PROVE  LeverInv'
<1>t. /\ HoldsTypeOK /\ NoneToSeize /\ SlotRecorded
      /\ call \in [PID -> Call] /\ pc[p] \notin PastHolder
  BY OrdersFacts DEF NoneToSeize
<1>u. user' = user /\ lid' = lid /\ applied' = applied /\ prev' = prev /\ call' = call
  BY DEF lever
<1> HIDE DEF lever
<1>1. \E l : /\ Moves(p, l)
             /\ pc[p] \notin AtLever
             /\ l = "engage" => Own
             /\ l \in Disengaging => prev = user.lid /\ file' # NoFile
             /\ l \in Held => pc[p] \in Held
             /\ l \in Clean => Own
             /\ file' = NoFile => Own
             /\ file' = NoFile => file = NoFile \/ pc[p] \in Clean
  <2>1. CASE QueryFlag(p)
    <3>1. FlagRead(p, lid.ac = 0)
      BY <2>1 DEF QueryFlag, Dependable
    <3>2. /\ pc[p] \in Looking \cup {"statusFlag"}
          /\ file' = file
          /\ \/ /\ pc[p] \in Looking /\ lid.ac = 0
                /\ Moves(p, "reclaimDisengage") \/ Moves(p, "clearDisengage")
             \/ /\ pc[p] \in Looking /\ lid.ac # 0
                /\ Moves(p, "reclaimRemove") \/ Moves(p, "tidyRemove")
             \/ Moves(p, "sayStranded") \/ Moves(p, "sayNormal")
      BY <3>1, <1>t DEF FlagRead, Looking, PastHolder, Goto, Step, Moves, HoldsTypeOK
    <3>3. /\ pc[p] \in Looking /\ lid.ac # 0 => Own
          /\ pc[p] \in Looking /\ lid.ac = 0 => prev = user.lid /\ file # NoFile
      BY LookingIsQuiet
    <3>4. file' = NoFile => file = NoFile /\ Own
      BY <3>2, OrdersFacts
    <3>5. pc[p] \notin AtLever
      BY <3>2 DEF AtLever, Looking, Disengaging
    <3>6. PICK l \in {"reclaimDisengage", "clearDisengage", "reclaimRemove", "tidyRemove",
                     "sayStranded", "sayNormal"} :
            /\ Moves(p, l)
            /\ l \in Disengaging => pc[p] \in Looking /\ lid.ac = 0
            /\ l \in Clean => pc[p] \in Looking /\ lid.ac # 0
      BY <3>2 DEF Disengaging, Clean
    <3>7. l # "engage" /\ l \notin Held
      BY <3>6 DEF Held, Waiting
    <3> QED
      BY <3>2, <3>3, <3>4, <3>5, <3>6, <3>7
  <2>2. CASE ~QueryFlag(p)
    <3>1. PICK l : Leads(p, l)
      BY <2>2, <1>t, CommandLeads
    <3>2. pc[p] = "own" => prev = user.lid /\ file # NoFile
      BY <1>t, OrdersFacts, PIDAssumption
      DEF Held, Overridden, SlotRecorded, Owners, Owning, Catching, Releasing, Record, NoFile
    <3>3. pc[p] = "write" => Own
      BY OrdersFacts DEF Clean
    <3> QED
      BY <3>1, <3>2, <3>3, <1>t, OrdersFacts DEF Leads
  <2> QED
    BY <2>1, <2>2
<1>2. PICK l : /\ Moves(p, l)
               /\ pc[p] \notin AtLever
               /\ l = "engage" => Own
               /\ l \in Disengaging => prev = user.lid /\ file' # NoFile
               /\ l \in Held => pc[p] \in Held
               /\ l \in Clean => Own
               /\ file' = NoFile => Own
               /\ file' = NoFile => file = NoFile \/ pc[p] \in Clean
  BY <1>1
<1>m. pc'[p] = l /\ \A q \in PID \ {p} : pc'[q] = pc[q]
  BY <1>2 DEF Moves
<1>o. (Own' <=> Own) /\ (Overridden' <=> Overridden) /\ (Quiet' <=> Quiet)
  BY <1>u DEF Own, Overridden, Quiet
<1>3. ASSUME NEW q \in PID PROVE Knows(q)'
  <2>1. CASE q = p
    <3>1. call[p].at = "idle"
      BY <1>2, OrdersFacts DEF Knows
    <3> QED
      BY <2>1, <3>1, <1>2, <1>m, <1>o, <1>u DEF Knows, EngageKnows, DisengageKnows
  <2>2. CASE q # p
    <3>1. Knows(q)
      BY OrdersFacts
    <3>2. pc[q] \in Disengaging => file' # NoFile
      <4> SUFFICES ASSUME pc[q] \in Disengaging, file' = NoFile PROVE FALSE
        OBVIOUS
      <4>1. file # NoFile
        BY <3>1 DEF Knows, DisengageKnows
      <4>2. pc[p] \in Clean /\ pc[q] \in AtLever
        BY <1>2, <4>1 DEF AtLever
      <4> QED
        BY <2>2, <4>2, Exclusive DEF Orders
    <3> QED
      BY <2>2, <3>1, <3>2, <1>m, <1>o, <1>u DEF Knows, EngageKnows, DisengageKnows
  <2> QED
    BY <2>1, <2>2
<1>4. Quiet' \/ \E q \in PID : Midway(q)'
  BY <1>2, <1>m, <1>o, <1>u, OrdersFacts DEF Midway, AtLever
<1>5. \A q \in PID : pc'[q] \in Held => Overridden'
  BY <1>2, <1>m, <1>o, OrdersFacts
<1>6. \A q \in PID : pc'[q] \in Clean => Own'
  BY <1>2, <1>m, <1>o, OrdersFacts
<1>7. file' = NoFile => Own'
  BY <1>2, <1>o
<1> QED
  BY <1>3, <1>4, <1>5, <1>6, <1>7 DEF LeverInv

\* A process is killed: never halfway through a restore.
LEMMA LidKill ==
  ASSUME Dependable, Orders, NEW p \in PID, Kill(p), UNCHANGED lever
  PROVE  LeverInv'
<1>u. /\ user' = user /\ lid' = lid /\ applied' = applied /\ prev' = prev
      /\ file' = file /\ call' = [call EXCEPT ![p] = Idle]
      /\ pc' = [pc EXCEPT ![p] = "none"]
  BY DEF lever, Kill, Crash
<1>t. pc \in [PID -> Label] /\ call \in [PID -> Call]
  BY OrdersFacts DEF HoldsTypeOK
<1>n. "none" \notin AtLever \cup Held \cup Clean
  BY DEF AtLever, Disengaging, Held, Waiting, Clean
<1>o. (Own' <=> Own) /\ (Overridden' <=> Overridden) /\ (Quiet' <=> Quiet)
  BY <1>u DEF Own, Overridden, Quiet
<1>1. ~Midway(p)
  <2>1. pc[p] = "engage" \/ call[p].at \in {"idle", "ac"}
    BY OrdersFacts DEF Kill
  <2> QED
    BY <2>1 DEF Midway, Disengaging
<1>2. \A q \in PID : Knows(q)'
  <2>1. Knows(p)'
    BY <1>u, <1>t, <1>n DEF Knows, Idle, AtLever
  <2>2. ASSUME NEW q \in PID, q # p PROVE Knows(q)'
    <3>1. Knows(q) /\ pc'[q] = pc[q] /\ call'[q] = call[q]
      BY <2>2, <1>u, <1>t, OrdersFacts
    <3> QED
      BY <3>1, <1>u, <1>o DEF Knows, EngageKnows, DisengageKnows
  <2> QED
    BY <2>1, <2>2
<1>3. Quiet' \/ \E q \in PID : Midway(q)'
  BY <1>1, <1>u, <1>t, <1>o, OrdersFacts DEF Midway
<1> QED
  BY <1>2, <1>3, <1>u, <1>t, <1>n, <1>o, OrdersFacts DEF LeverInv

\* While p is in a keeper call, only what p knows and does next matters.
LEMMA LidKeep ==
  ASSUME Dependable, Orders, NEW p \in PID, pc[p] \in AtLever,
         \A q \in PID \ {p} : pc'[q] = pc[q] /\ call'[q] = call[q],
         file' = file, Knows(p)',
         Quiet' \/ Midway(p)',
         pc'[p] \in Held => Overridden',
         pc'[p] \in Clean => Own'
  PROVE  LeverInv'
<1>1. \A q \in PID \ {p} : pc[q] \notin AtLever \cup Held \cup Clean
  BY Exclusive DEF Orders
<1>2. ASSUME NEW q \in PID, q # p PROVE Knows(q)'
  <2>1. pc'[q] \notin AtLever /\ call'[q].at = "idle"
    BY <1>1, <1>2, OrdersFacts DEF Knows
  <2> QED
    BY <2>1 DEF Knows, AtLever
<1>3. file # NoFile
  <2>1. CASE pc[p] = "engage"
    BY <2>1, OrdersFacts, PIDAssumption DEF SlotRecorded, Owners, Owning, Engaging, Record, NoFile
  <2>2. CASE pc[p] \in Disengaging
    BY <2>2, OrdersFacts DEF Knows, DisengageKnows
  <2> QED
    BY <2>1, <2>2 DEF AtLever
<1> QED
  BY <1>1, <1>2, <1>3 DEF LeverInv

\* What p, about to take a step of engage or disengage, finds there.
LEMMA InsideCall ==
  ASSUME Dependable, Orders, NEW p \in PID, PowercfgStep(p)
  PROVE  \/ pc[p] = "engage" /\ EngageKnows(call[p]) /\ Quiet
         \/ /\ pc[p] \in Disengaging \ PastHolder
            /\ DisengageKnows(call[p])
            /\ call[p].at \in {"idle", "ac"} => Quiet
<1>1. pc[p] \in AtLever \ PastHolder
  <2>1. pc[p] \in AtLever \cup {"stopHolder"}
    BY OrdersFacts DEF PowercfgStep, QueryLid, SavePrev, LoadPrev, SetAC, SetDC, DropPrev,
                       Activate, Knows, Restoring, AtLever
  <2> QED
    BY <2>1, OrdersFacts DEF NoneToSeize, PastHolder
<1>2. \A q \in PID : Midway(q) => q = p
  BY <1>1, Exclusive DEF Orders, Midway, AtLever
<1>3. ~Midway(p) => Quiet
  BY <1>2, OrdersFacts
<1> QED
  BY <1>1, <1>3, OrdersFacts DEF Midway, Knows, AtLever, Disengaging

\* engage, one powercfg call or file access at a time.
LEMMA LidEngageStep ==
  ASSUME Dependable, Orders, NEW p \in PID, PowercfgStep(p), pc[p] = "engage"
  PROVE  LeverInv'
<1>i. EngageKnows(call[p]) /\ Quiet
  BY InsideCall DEF Disengaging
<1>t. /\ pc \in [PID -> Label] /\ call \in [PID -> Call] /\ pc[p] \in AtLever
      /\ lid \in Lid /\ user.lid \in Lid
  BY OrdersFacts DEF HoldsTypeOK, AtLever
<1>h. /\ "engage" \notin Disengaging \cup Held \cup Clean
      /\ "abortDisengage" \in Disengaging /\ "abortDisengage" \notin Held \cup Clean
      /\ "display" \in Held /\ "display" \notin Disengaging \cup Clean
      /\ "engage" \in AtLever
  BY DEF Disengaging, Held, Waiting, Clean, AtLever
<1>f. file # NoFile
  BY OrdersFacts, PIDAssumption DEF SlotRecorded, Owners, Owning, Engaging, Record, NoFile
<1>r. ASSUME NEW ok \in BOOLEAN, Returns(p, ok)
      PROVE  /\ file' = file
             /\ pc' = [pc EXCEPT ![p] = IF ok THEN "display" ELSE "abortDisengage"]
             /\ call' = [call EXCEPT ![p] = Idle]
  BY <1>r DEF Returns, EngageReturns, DisengageReturns, Goto, Step
\* engage fails after the setting was written down: the abort restores it.
<1>x. ASSUME Returns(p, FALSE), UNCHANGED lever, call[p].at \in {"ac", "dc", "apply"}
      PROVE  LeverInv'
  <2>1. /\ \A q \in PID \ {p} : pc'[q] = pc[q] /\ call'[q] = call[q]
        /\ file' = file /\ pc'[p] = "abortDisengage" /\ call'[p] = Idle
    BY <1>x, <1>r, <1>t
  <2>2. prev' = user'.lid /\ Quiet'
    BY <1>x, <1>i DEF EngageKnows, lever, Quiet, Own
  <2>3. Knows(p)'
    BY <2>1, <2>2, <1>h, <1>f DEF Knows, DisengageKnows, Idle
  <2> QED
    BY <2>1, <2>2, <2>3, <1>t, <1>h, LidKeep
\* engage goes on to its next call.
<1>g. ASSUME NEW c \in Call, Goes(p, c)
      PROVE  /\ \A q \in PID \ {p} : pc'[q] = pc[q] /\ call'[q] = call[q]
             /\ file' = file /\ pc'[p] = "engage" /\ call'[p] = c
             /\ Quiet' /\ EngageKnows(call[p])' => LeverInv'
  <2>1. /\ \A q \in PID \ {p} : pc'[q] = pc[q] /\ call'[q] = call[q]
        /\ file' = file /\ pc'[p] = "engage" /\ call'[p] = c
    BY <1>g, <1>t DEF Goes, holdVars
  <2>2. ASSUME Quiet', EngageKnows(call[p])' PROVE LeverInv'
    <3>1. Knows(p)'
      BY <2>1, <2>2, <1>h DEF Knows
    <3> QED
      BY <2>1, <2>2, <3>1, <1>t, <1>h, LidKeep
  <2> QED
    BY <2>1, <2>2
<1>1. CASE QueryLid(p)
  <2> DEFINE c == [at |-> "save", put |-> lid, saved |-> FALSE]
  <2>1. Goes(p, c) /\ UNCHANGED lever /\ c \in Call
    BY <1>1, <1>t DEF QueryLid, Dependable, Call
  <2>2. call'[p] = c
    BY <2>1, <1>g
  <2>3. Own' /\ lid' = user'.lid /\ lid' = lid
    BY <1>1, <1>i, <2>1 DEF QueryLid, EngageKnows, Own, lever
  <2>4. Quiet' /\ EngageKnows(call[p])'
    BY <2>2, <2>3 DEF Quiet, EngageKnows
  <2> QED
    BY <2>1, <2>4, <1>g
<1>2. CASE SavePrev(p)
  <2> DEFINE c == [at |-> "ac", put |-> Both(0), saved |-> FALSE]
  <2>1. Goes(p, c) /\ prev' = call[p].put /\ UNCHANGED <<user, lid, applied>> /\ c \in Call
    BY <1>2, LidTypes DEF SavePrev, Dependable, Call
  <2>2. call'[p] = c
    BY <2>1, <1>g
  <2>3. Own' /\ prev' = user'.lid
    BY <1>2, <1>i, <2>1 DEF SavePrev, EngageKnows, Own
  <2>4. Quiet' /\ EngageKnows(call[p])'
    BY <2>2, <2>3 DEF Quiet, EngageKnows
  <2> QED
    BY <2>1, <2>4, <1>g
<1>3. CASE SetAC(p)
  <2>1. CASE Goes(p, [call[p] EXCEPT !.at = "dc"]) /\ lid' = [lid EXCEPT !.ac = call[p].put.ac]
    <3> DEFINE c == [call[p] EXCEPT !.at = "dc"]
    <3>1. call[p] \in Call /\ call[p].at = "ac" /\ UNCHANGED <<user, applied, prev>>
      BY <1>3, <1>t DEF SetAC
    <3>2. c \in Call /\ c.at = "dc" /\ c.put = Both(0) /\ ~c.saved
      BY <3>1, <1>i DEF Call, EngageKnows
    <3>3. call'[p] = c
      BY <2>1, <3>2, <1>g
    <3>4. prev' = user'.lid /\ lid'.ac = 0
      BY <2>1, <3>1, <1>i, <1>t DEF EngageKnows, Both, Lid
    <3>5. Quiet' /\ EngageKnows(call[p])'
      BY <3>2, <3>3, <3>4 DEF Quiet, EngageKnows
    <3> QED
      BY <2>1, <3>2, <3>5, <1>g
  <2>2. CASE Fails(p) /\ UNCHANGED lid
    BY <1>3, <2>2, <1>x DEF SetAC, Fails, lever
  <2> QED
    BY <1>3, <2>1, <2>2 DEF SetAC
<1>4. CASE SetDC(p)
  <2>0. call[p] \in Call /\ call[p].at = "dc" /\ UNCHANGED <<user, applied, prev>>
        /\ ~call[p].saved
    BY <1>4, <1>t, <1>i DEF SetDC, EngageKnows
  <2>1. CASE Goes(p, [call[p] EXCEPT !.at = "apply"]) /\ lid' = [lid EXCEPT !.dc = call[p].put.dc]
    <3> DEFINE c == [call[p] EXCEPT !.at = "apply"]
    <3>2. c \in Call /\ c.at = "apply"
      BY <2>0 DEF Call
    <3>3. call'[p] = c
      BY <2>1, <3>2, <1>g
    <3>4. prev' = user'.lid /\ lid' = Both(0) /\ lid'.ac = 0
      BY <2>0, <2>1, <1>i, <1>t DEF EngageKnows, Both, Lid
    <3>5. Quiet' /\ EngageKnows(call[p])'
      BY <3>2, <3>3, <3>4 DEF Quiet, EngageKnows
    <3> QED
      BY <2>1, <3>2, <3>5, <1>g
  <2>2. CASE Fails(p) /\ UNCHANGED lid
    BY <2>0, <2>2, <1>x DEF Fails, lever
  <2> QED
    BY <1>4, <2>0, <2>1, <2>2 DEF SetDC
<1>5. CASE Activate(p)
  <2>0. call[p].at = "apply" /\ UNCHANGED <<user, lid, prev>>
    BY <1>5 DEF Activate
  <2>1. CASE Returns(p, TRUE) /\ applied' = lid
    <3>1. /\ \A q \in PID \ {p} : pc'[q] = pc[q] /\ call'[q] = call[q]
          /\ file' = file /\ pc'[p] = "display" /\ call'[p] = Idle
      BY <2>1, <1>r, <1>t
    <3>2. Overridden' /\ Quiet'
      BY <2>0, <2>1, <1>i DEF EngageKnows, Overridden, Quiet, Both
    <3>3. Knows(p)'
      BY <3>1, <1>h DEF Knows, Idle
    <3> QED
      BY <3>1, <3>2, <3>3, <1>t, <1>h, LidKeep
  <2>2. CASE Fails(p) /\ UNCHANGED applied
    BY <2>0, <2>2, <1>x DEF Fails, lever
  <2> QED
    BY <1>5, <2>1, <2>2 DEF Activate
<1>6. ~LoadPrev(p) /\ ~DropPrev(p)
  BY <1>i DEF LoadPrev, DropPrev, Restoring, Disengaging, EngageKnows
<1> QED
  BY <1>1, <1>2, <1>3, <1>4, <1>5, <1>6 DEF PowercfgStep

\* disengage: what was saved is put back, and then forgotten.
LEMMA LidDisengageStep ==
  ASSUME Dependable, Orders, NEW p \in PID, PowercfgStep(p), pc[p] # "engage"
  PROVE  LeverInv'
<1>i. /\ pc[p] \in Disengaging \ PastHolder
      /\ DisengageKnows(call[p])
      /\ call[p].at \in {"idle", "ac"} => Quiet
  BY InsideCall
<1>t. /\ pc \in [PID -> Label] /\ call \in [PID -> Call] /\ pc[p] \in AtLever
      /\ lid \in Lid /\ user.lid \in Lid /\ file # NoFile
  BY <1>i, OrdersFacts DEF HoldsTypeOK, AtLever, DisengageKnows
<1>c. call[p] \in Call
  BY <1>t
<1>n. ~Fails(p)
  BY <1>i DEF Fails, Dependable, Disengaging
\* It goes on to its next call.
<1>g. ASSUME NEW c \in Call, Goes(p, c), Quiet' \/ c.at \in {"dc", "drop", "apply"},
             DisengageKnows(c)'
      PROVE  LeverInv'
  <2>1. /\ \A q \in PID \ {p} : pc'[q] = pc[q] /\ call'[q] = call[q]
        /\ file' = file /\ pc'[p] = pc[p] /\ call'[p] = c
    BY <1>g, <1>t DEF Goes, holdVars
  <2>2. Knows(p)'
    BY <2>1, <1>g, <1>i, <1>t DEF Knows, DisengageKnows, Disengaging
  <2>3. Quiet' \/ Midway(p)'
    BY <2>1, <1>g, <1>i DEF Midway
  <2>4. pc'[p] \notin Held \cup Clean
    BY <2>1, <1>i DEF Disengaging, Held, Waiting, Clean
  <2> QED
    BY <2>1, <2>2, <2>3, <2>4, <1>t, LidKeep
<1>1. CASE LoadPrev(p)
  <2>1. PICK c : /\ Goes(p, c)
                 /\ c = [at |-> "ac", put |-> IF prev = NoPrev THEN Default ELSE prev,
                         saved |-> prev # NoPrev]
    BY <1>1 DEF LoadPrev
  <2>2. prev = user.lid /\ Quiet /\ UNCHANGED lever /\ file' = file
    BY <1>1, <1>i, <2>1 DEF LoadPrev, DisengageKnows, Goes, holdVars
  <2>3. c.at = "ac" /\ c.put = user.lid /\ c \in Call
    BY <2>1, <2>2, <1>t, LidTypes DEF Call
  <2>4. Quiet' /\ DisengageKnows(c)'
    BY <2>2, <2>3, <1>t DEF Quiet, Own, DisengageKnows, lever
  <2> QED
    BY <2>1, <2>3, <2>4, <1>g
<1>2. CASE SetAC(p)
  <2>1. PICK c : Goes(p, c) /\ c = [call[p] EXCEPT !.at = "dc"]
    BY <1>2, <1>n DEF SetAC
  <2>2. /\ lid' = [lid EXCEPT !.ac = user.lid.ac] /\ UNCHANGED <<user, applied, prev>>
        /\ file' = file /\ prev = user.lid /\ call[p].put = user.lid
    BY <1>2, <1>n, <1>i, <2>1 DEF SetAC, DisengageKnows, Goes, holdVars
  <2>3. c.at = "dc" /\ c.put = user.lid /\ c \in Call
    BY <2>1, <2>2, <1>c DEF Call
  <2>4. lid'.ac = user.lid.ac
    BY <2>2, <1>t DEF Lid
  <2>5. DisengageKnows(c)'
    BY <2>2, <2>3, <2>4, <1>t DEF DisengageKnows
  <2> QED
    BY <2>1, <2>3, <2>5, <1>g
<1>3. CASE SetDC(p)
  <2>1. PICK c : /\ Goes(p, c)
                 /\ c = [call[p] EXCEPT !.at = IF call[p].saved THEN "drop" ELSE "apply"]
    BY <1>3, <1>n DEF SetDC
  <2>2. /\ lid' = [lid EXCEPT !.dc = user.lid.dc] /\ UNCHANGED <<user, applied, prev>>
        /\ file' = file /\ lid.ac = user.lid.ac
    BY <1>3, <1>n, <1>i, <2>1 DEF SetDC, DisengageKnows, Goes, holdVars
  <2>3. c.at \in {"drop", "apply"} /\ c \in Call
    BY <2>1, <1>c DEF Call
  <2>4. lid' = user.lid
    BY <2>2, <1>t DEF Lid
  <2>5. DisengageKnows(c)'
    BY <2>2, <2>3, <2>4, <1>t DEF DisengageKnows
  <2> QED
    BY <2>1, <2>3, <2>5, <1>g
<1>4. CASE DropPrev(p)
  <2>1. PICK c : Goes(p, c) /\ c = [call[p] EXCEPT !.at = "apply"]
    BY <1>4 DEF DropPrev
  <2>2. lid' = user'.lid /\ file' = file
    BY <1>4, <1>i, <2>1 DEF DropPrev, DisengageKnows, Goes, holdVars
  <2>3. c.at = "apply" /\ c \in Call
    BY <2>1, <1>c DEF Call
  <2>4. DisengageKnows(c)'
    BY <2>2, <2>3, <1>t DEF DisengageKnows
  <2> QED
    BY <2>1, <2>3, <2>4, <1>g
<1>5. CASE Activate(p)
  <2>1. Returns(p, TRUE) /\ Own' /\ file' = file
    BY <1>5, <1>n, <1>i DEF Activate, DisengageKnows, Own, Returns, EngageReturns,
                            DisengageReturns, Disengaging
  <2>2. PICK l \in Clean : pc' = [pc EXCEPT ![p] = l]
    BY <2>1, <1>i DEF Returns, EngageReturns, DisengageReturns, Goto, Step, Disengaging,
                      PastHolder, Clean
  <2>3. /\ \A q \in PID \ {p} : pc'[q] = pc[q] /\ call'[q] = call[q]
        /\ pc'[p] = l /\ call'[p] = Idle
    BY <2>1, <2>2, <1>t DEF Returns
  <2>4. Knows(p)' /\ pc'[p] \notin Held
    BY <2>2, <2>3 DEF Knows, Idle, Clean, Held, Waiting, Disengaging
  <2> QED
    BY <2>1, <2>3, <2>4, <1>t, LidKeep DEF Quiet
<1>6. ~QueryLid(p) /\ ~SavePrev(p)
  BY <1>i DEF QueryLid, SavePrev, DisengageKnows, Disengaging
<1> QED
  BY <1>1, <1>2, <1>3, <1>4, <1>5, <1>6 DEF PowercfgStep

-----------------------------------------------------------------------------
LEMMA UserStays == ASSUME [Next]_vars PROVE user' = user
BY DEF Next, vars, lever, PowercfgStep, QueryLid, SavePrev, LoadPrev, SetAC, SetDC, DropPrev, Activate

LEMMA OrdersStep ==
  ASSUME Dependable, Orders, [Next]_vars
  PROVE  Orders'
<1>1. user' \in Users /\ Orderly(user')
  BY UserStays DEF Orders
<1>2. TypeInv' /\ LeverType' /\ Slots' /\ StopsUnheld'
  BY CommandTypes, LeverTypeStep, WindowsStep, SlotStep, StopEndsSlots, StopsUnheldStep
  DEF Orders, Dependable, Orderly, Slots
<1>3. StopInv'
  BY StopInvStep DEF Orders
<1>4. LeverInv'
  <2>1. CASE UNCHANGED vars
    BY <2>1 DEF vars, holdVars, lever, Orders, LeverInv, Knows, EngageKnows, DisengageKnows, Quiet,
                Midway, Own, Overridden
  <2>2. ASSUME NEW p \in PID, PowercfgStep(p) PROVE LeverInv'
    BY <2>2, LidEngageStep, LidDisengageStep
  <2>3. ASSUME NEW p \in PID, Kill(p), UNCHANGED lever PROVE LeverInv'
    BY <2>3, LidKill
  <2>4. ASSUME NEW p \in PID, UNCHANGED <<lever, call>>,
               \/ CommandStep(p) \/ QueryFlag(p) \/ StopDrop(p) \/ GiveUp(p)
               \/ EnvironmentStep(p) /\ Spared(p)
        PROVE  LeverInv'
    BY <2>4, LidCommandStep
  <2> QED
    BY <2>1, <2>2, <2>3, <2>4 DEF Next
<1> QED
  BY <1>1, <1>2, <1>3, <1>4 DEF Orders

LEMMA OrdersInvariant == ASSUME Dependable PROVE Spec => [](Orderly(user) => Orders)
<1>1. WindowsInit => (Orderly(user) => Orders)
  <2> SUFFICES ASSUME WindowsInit, Orderly(user) PROVE Orders
    OBVIOUS
  <2>1. /\ \A p \in PID : pc[p] = "none" /\ call[p] = Idle
        /\ file = NoFile /\ user \in Users /\ Own
    BY DEF WindowsInit, Init, Own
  <2>2. TypeInv /\ LeverType
    BY FileTypes, LidTypes, UsersAssumption
    DEF WindowsInit, Init, TypeInv, HoldsTypeOK, ReliesOnPid, Relying, Label, LeverType
  <2>3. Slots /\ StopsUnheld
    BY <2>1 DEF Slots, SlotRecorded, WriterOwnsFile, StartsAlone, UnheldIsTrue, SeenIsOwner,
                StopsUnheld, Owners, Owning, Engaging, Catching, Waiting, Releasing, Starting,
                Acquiring, Unheld, Relying, Stopping
  <2>4. StopInv
    BY <2>1 DEF StopInv, OneStop, SeenOnFile, NoImpostor, NoneToSeize, Stopping, PastHolder
  <2>5. LeverInv
    BY <2>1 DEF LeverInv, Knows, Quiet, Idle, AtLever, Disengaging, Held, Waiting, Clean
  <2> QED
    BY <2>1, <2>2, <2>3, <2>4, <2>5 DEF Orders
<1>2. (Orderly(user) => Orders) /\ [Next]_vars => (Orderly(user) => Orders)'
  BY OrdersStep, UserStays DEF Orderly
<1> QED
  BY <1>1, <1>2, PTL DEF Spec

\* While the setting is not the user's own, what disengage would put back is ...
LEMMA OrdersRecoverable == ASSUME Dependable, Orders PROVE Recoverable
<1> SUFFICES ASSUME lid # user.lid PROVE prev = user.lid /\ prev # NoPrev
  BY DEF Recoverable
<1>1. prev = user.lid
  <2>1. CASE Quiet
    BY <2>1 DEF Quiet, Own
  <2>2. CASE \E p \in PID : Midway(p)
    BY <2>2, OrdersFacts DEF Midway, Knows, DisengageKnows
  <2> QED
    BY <2>1, <2>2, OrdersFacts
<1> QED
  BY <1>1, OrdersFacts, LidTypes

\* ... once no command is left and no pidfile, the setting is the user's own;
\* after stop the machine sleeps; and until its own release a hold holds.
LEMMA OrdersGiveBack ==
  ASSUME Dependable, Orders
  PROVE  SettingReturns /\ StopSleeps /\ HoldHolds
BY OrdersFacts DEF Orderly, SettingReturns, StopSleeps, HoldHolds, Own, Overridden, Clean
=============================================================================
