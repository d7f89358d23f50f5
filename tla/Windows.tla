------------------------------ MODULE Windows ------------------------------
(***************************************************************************)
(* lidspeculum on Windows: the commands of Holds with the keeper of        *)
(* keeper_windows.go and the `stop` of proc_windows.go.  The lever is the  *)
(* user's own setting, what closing the lid does on AC and on battery (DC) *)
(* in the current power scheme, so a hold has to put back what it found.   *)
(* It writes that down in a file, `prev`; one powercfg call, file access   *)
(* or /setactive is one step.                                              *)
(***************************************************************************)
EXTENDS Holds, Naturals

CONSTANT Users  \* the users of this instance

\* What may happen to a user.
Mishaps ==
  {"live",     \* runs stop on a hold that is alive
   "stops",    \* runs two stops at a time
   "outlived", \* starts a hold while one that stop went past is still alive
   "reuse",    \* the pid on record goes to another process once its owner ended
   "kill",     \* a command is killed, though not once a restore has begun
   "torn"}     \* ... nor spared then

Index   == 0..3  \* do nothing, sleep, hibernate, shut down
Lid     == [ac : Index, dc : Index]
Both(v) == [ac |-> v, dc |-> v]
Default == Both(1)
NoPrev  == Both(4)  \* no file, or one that loadPrev does not accept

ASSUME UsersAssumption == Users \subseteq [lid : Lid, may : SUBSET Mishaps]

VARIABLES
  user,     \* who uses the machine, and the setting they chose
  lid,      \* the setting in the current scheme, which powercfg /query reads
  applied,  \* the setting in force since the last /setactive
  prev,     \* what the prev file holds
  call      \* how far each process is inside engage or disengage

lever == <<user, lid, applied, prev>>
vars  == <<holdVars, lever, call>>

Idle == [at |-> "idle", put |-> Default, saved |-> FALSE]
Call == [at : {"idle", "save", "ac", "dc", "drop", "apply"}, put : Lid, saved : BOOLEAN]

WindowsInit ==
  /\ Init
  /\ user \in Users
  /\ lid = user.lid /\ applied = user.lid
  /\ prev = NoPrev
  /\ call = [p \in PID |-> Idle]

-----------------------------------------------------------------------------
(* engage and disengage.  stopHolder disengages too, instead of asking the *)
(* holder to.                                                              *)

Restoring == Disengaging \cup {"stopHolder"}

Goes(p, c) == call' = [call EXCEPT ![p] = c] /\ UNCHANGED holdVars

\* The keeper call p is in returns.
Returns(p, ok) ==
  /\ call' = [call EXCEPT ![p] = Idle]
  /\ \/ EngageReturns(p, ok)
     \/ DisengageReturns(p, ok)
     \/ /\ pc[p] = "stopHolder"
        /\ IF ok THEN Step(p, "stopDrop", seen[p]) ELSE Exit(p)
        /\ UNCHANGED file

\* powercfg reports an error: the call ends there, with what it did so far.
Fails(p) ==
  /\ (IF pc[p] = "engage" THEN "engage" ELSE "disengage") \in Faults
  /\ Returns(p, FALSE)

\* engage: no change to the setting before it is read ...
QueryLid(p) ==
  /\ pc[p] = "engage" /\ call[p].at = "idle"
  /\ \/ Goes(p, [at |-> "save", put |-> lid, saved |-> FALSE])
     \/ "query" \in Faults /\ Returns(p, FALSE)
  /\ UNCHANGED lever

\* Mutant: engage does not write the setting down.
SavePrev_Skipped(p) ==
  /\ call[p].at = "save"
  /\ Goes(p, [at |-> "ac", put |-> Both(0), saved |-> FALSE])
  /\ UNCHANGED lever
\* ... and written down.  A write that fails may leave the file cut short.
SavePrev(p) ==
  /\ call[p].at = "save"
  /\ \/ /\ prev' = call[p].put
        /\ Goes(p, [at |-> "ac", put |-> Both(0), saved |-> FALSE])
     \/ /\ "save" \in Faults
        /\ prev' \in {prev, NoPrev}
        /\ Returns(p, FALSE)
  /\ UNCHANGED <<user, lid, applied>>

\* Mutant: disengage forgets to look for saved settings.
LoadPrev_Default(p) ==
  /\ pc[p] \in Restoring /\ call[p].at = "idle"
  /\ Goes(p, [at |-> "ac", put |-> Default, saved |-> FALSE])
  /\ UNCHANGED lever
\* disengage puts back what was saved or, with nothing saved, the default.
LoadPrev(p) ==
  /\ pc[p] \in Restoring /\ call[p].at = "idle"
  /\ Goes(p, [at |-> "ac", put |-> IF prev = NoPrev THEN Default ELSE prev,
              saved |-> prev # NoPrev])
  /\ UNCHANGED lever

SetAC(p) ==
  /\ call[p].at = "ac"
  /\ \/ /\ lid' = [lid EXCEPT !.ac = call[p].put.ac]
        /\ Goes(p, [call[p] EXCEPT !.at = "dc"])
     \/ Fails(p) /\ UNCHANGED lid
  /\ UNCHANGED <<user, applied, prev>>

\* Saved settings, once put back, are forgotten.
SetDC(p) ==
  /\ call[p].at = "dc"
  /\ \/ /\ lid' = [lid EXCEPT !.dc = call[p].put.dc]
        /\ Goes(p, [call[p] EXCEPT !.at = IF call[p].saved THEN "drop" ELSE "apply"])
     \/ Fails(p) /\ UNCHANGED lid
  /\ UNCHANGED <<user, applied, prev>>

DropPrev(p) ==
  /\ call[p].at = "drop"
  /\ prev' \in {NoPrev} \cup (IF "remove" \in Faults THEN {prev} ELSE {})
  /\ Goes(p, [call[p] EXCEPT !.at = "apply"])
  /\ UNCHANGED <<user, lid, applied>>

\* Mutant: disengage writes the setting back but does not put it in force.
Activate_Once(p) ==
  /\ call[p].at = "apply" /\ Returns(p, TRUE)
  /\ applied' = IF pc[p] = "engage" THEN lid ELSE applied
  /\ UNCHANGED <<user, lid, prev>>
Activate(p) ==
  /\ call[p].at = "apply"
  /\ \/ applied' = lid /\ Returns(p, TRUE)
     \/ Fails(p) /\ UNCHANGED applied
  /\ UNCHANGED <<user, lid, prev>>

PowercfgStep(p) ==
  \/ QueryLid(p) \/ SavePrev(p) \/ LoadPrev(p)
  \/ SetAC(p) \/ SetDC(p) \/ DropPrev(p) \/ Activate(p)

-----------------------------------------------------------------------------
(* The rest of the platform.                                               *)

\* Doing nothing on AC counts as an override, whoever chose it; what the
\* battery does is not looked at.
QueryFlag(p) ==
  \/ FlagRead(p, lid.ac = 0)
  \/ "query" \in Faults /\ FlagRead(p, FALSE)

\* stopHolder removes the pidfile of the hold it disengaged.
StopDrop(p) ==
  /\ pc[p] = "stopDrop"
  /\ \/ file' = NoFile /\ Step(p, "poll", seen[p])
     \/ "remove" \in Faults /\ Exit(p) /\ UNCHANGED file

\* What a user to whom some mishap does not happen does not do.
Spared(p) ==
  pc[p] = "none" /\ pc'[p] # "none" =>
    /\ "reuse" \in user.may \/ readHold # p
    /\ pc'[p] = "create" => "outlived" \in user.may \/ \A q \in Owners : readHold = q
    /\ pc'[p] = "stopRead" =>
         /\ "live" \in user.may \/ Owners = {}
         /\ "stops" \in user.may \/ \A q \in PID : pc[q] \notin Stopping

Kill(p) ==
  /\ "kill" \in user.may
  /\ "torn" \in user.may \/ pc[p] = "engage" \/ call[p].at \in {"idle", "ac"}
  /\ Crash(p)
  /\ call' = [call EXCEPT ![p] = Idle]

Next ==
  \E p \in PID :
    \/ PowercfgStep(p)
    \/ /\ \/ CommandStep(p) \/ QueryFlag(p) \/ StopDrop(p) \/ GiveUp(p)
          \/ EnvironmentStep(p) /\ Spared(p)
       /\ UNCHANGED <<lever, call>>
    \/ Kill(p) /\ UNCHANGED lever

Spec == WindowsInit /\ [][Next]_vars

-----------------------------------------------------------------------------
TypeOK ==
  /\ HoldsTypeOK
  /\ user \in Users
  /\ lid \in Lid /\ applied \in Lid
  /\ prev \in Lid \cup {NoPrev}
  /\ call \in [PID -> Call]

\* engage, on saving first: "a later disengage with no saved prev ... would
\* silently destroy" the user's setting.  While the setting is not the user's
\* own, what disengage would put back is.
Recoverable ==
  lid # user.lid => user.lid = IF prev = NoPrev THEN Default ELSE prev

\* "disengage can put them back exactly": with no command left and no pidfile
\* to clean up after, the setting is the user's own again, and in force.
SettingReturns ==
  file = NoFile /\ (\A p \in PID : pc[p] \in {"none", "foreign"})
    => lid = user.lid /\ applied = user.lid

\* stopHolder: "the machine sleeps normally" is achieved at once, although
\* the hold that stop went past is still running and may itself be releasing.
StopSleeps == \A p \in PID : pc[p] = "stopped" => applied.ac # 0

\* A hold whose user leaves it alone has the lid ignored, on AC and on
\* battery, from the return of engage until its own release.
HoldHolds ==
  "live" \notin user.may
    => \A p \in PID : pc[p] \in Held => applied = Both(0)

\* Nobody but stop takes the lid from a hold, and a stop that found a live hold
\* takes it from that one: no start reclaims it, no release of another hold and
\* no stop of a reused pid restores under it.
TakenByStop ==
  [][\A q \in PID :
       pc[q] \in Held /\ applied' # applied
       => \E p \in PID : /\ call'[p] # call[p]
                         /\ pc[p] \in Stopping
                         /\ pc[p] = "stopHolder" => seen[p] = q]_vars

\* stopHolder, on the hold that stop leaves running: "when it next exits it
\* will try to disengage again, which is harmless".
SecondReleaseHarmless ==
  [][\A p \in PID :
       /\ pc[p] = "relDisengage" /\ call'[p] # call[p]
       /\ file = NoFile /\ lid = user.lid
       => UNCHANGED lid]_vars

\* A start that cannot read or save the setting "refuses to engage rather than
\* risk changing your setting blindly".
RefusalHarmless ==
  [][\A p \in PID :
       pc[p] = "abortDisengage" /\ call'[p] # call[p] /\ lid = user.lid => UNCHANGED lid]_vars
=============================================================================
