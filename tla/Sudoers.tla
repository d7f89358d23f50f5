------------------------------ MODULE Sudoers ------------------------------
(***************************************************************************)
(* `authorize` and `revoke` (keeper_darwin.go, main.go): the sudoers rule  *)
(* that lets a hold run its two pmset commands without a password.  Every  *)
(* change to the rule goes through sudo, which may be refused; the rest of *)
(* the sudoers set belongs to the administrator and may change meanwhile.  *)
(*                                                                         *)
(* sudo, install, rm and visudo are external: sudo runs unless some file   *)
(* of the set does not parse, and `visudo -c` may also object to a set     *)
(* sudo still works with (a wrong owner or mode).                          *)
(***************************************************************************)
CONSTANTS
  Cmd,     \* invocations of authorize and revoke
  Serial,  \* TRUE: the user runs one of them at a time
  Faults   \* what may go wrong, a subset of FaultKinds

FaultKinds ==
  {"temp",    \* the temporary file cannot be created or written
   "short",   \* closing it fails unnoticed: part of it never reaches the disk
   "sudo",    \* sudo refuses (no password), or the command it runs fails
   "edit",    \* the administrator edits other sudoers files
   "kill"}    \* Ctrl-C: neither authorize nor revoke catches it

ASSUME FaultsAssumption == Serial \in BOOLEAN /\ Faults \subseteq FaultKinds

VARIABLES
  rule,   \* what sudoersPath holds
  others, \* the rest of the set
  pc,     \* where each command is, or what it has said
  tmp     \* the temporary file of each command

vars == <<rule, others, pc, tmp>>

\* "comment" parses but grants nothing: a rule file cut off above the rule.
Contents == {"absent", "good", "comment", "malformed"}
Others   == {"clean", "doubtful", "broken"}
Working  == {"create", "validate", "install", "recheck", "rollback", "remove"}
Said     == {"cancelled", "invalid", "failed", "rolledBack", "authorized", "revoked"}

SudoRuns  == rule # "malformed" /\ others # "broken"
SetPasses == rule # "malformed" /\ others = "clean"

Init ==
  /\ rule = "absent" /\ others = "clean"
  /\ pc = [c \in Cmd |-> "none"]
  /\ tmp = [c \in Cmd |-> "absent"]

Goto(c, l) == pc' = [pc EXCEPT ![c] = l] /\ UNCHANGED others

\* The command ends, removing its temporary file if it has made one.
Say(c, l) == Goto(c, l) /\ tmp' = [tmp EXCEPT ![c] = "absent"]

-----------------------------------------------------------------------------
\* Without -y the user may answer the prompt with anything but yes.
Start(c) ==
  /\ pc[c] = "none"
  /\ Serial => \A d \in Cmd : pc[d] = "none"
  /\ pc' \in {[pc EXCEPT ![c] = l] : l \in {"create", "remove", "cancelled"}}
  /\ UNCHANGED <<rule, others, tmp>>

\* os.CreateTemp and WriteString; the error of Close is not looked at.
CreateTemp(c) ==
  /\ pc[c] = "create"
  /\ \/ /\ Goto(c, "validate")
        /\ \E t \in IF "short" \in Faults THEN {"good", "comment", "malformed"} ELSE {"good"} :
             tmp' = [tmp EXCEPT ![c] = t]
     \/ "temp" \in Faults /\ Say(c, "failed")
  /\ UNCHANGED rule

\* Mutant: the temporary file is installed unchecked.
Validate_Skipped(c) ==
  pc[c] = "validate" /\ Goto(c, "install") /\ UNCHANGED <<rule, tmp>>
\* visudo -cf on the temporary file, before it goes anywhere near /etc.
Validate(c) ==
  /\ pc[c] = "validate"
  /\ \/ tmp[c] # "malformed" /\ Goto(c, "install") /\ UNCHANGED tmp
     \/ tmp[c] = "malformed" /\ Say(c, "invalid")
  /\ UNCHANGED rule

\* sudo refuses or fails, and leaves the rule alone.
KeepRule == (~SudoRuns \/ "sudo" \in Faults) /\ UNCHANGED rule

Install(c) ==
  /\ pc[c] = "install"
  /\ \/ SudoRuns /\ rule' = tmp[c] /\ Goto(c, "recheck") /\ UNCHANGED tmp
     \/ KeepRule /\ Say(c, "failed")

\* visudo -c on the whole set, the rule now live.
Recheck(c) ==
  /\ pc[c] = "recheck"
  /\ \/ SudoRuns /\ SetPasses /\ Say(c, "authorized")
     \/ /\ ~SetPasses \/ "sudo" \in Faults
        /\ Goto(c, "rollback") /\ UNCHANGED tmp
  /\ UNCHANGED rule

\* rm -f, whose result only revoke looks at.
RemoveRule == SudoRuns /\ rule' = "absent"

Rollback(c) ==
  pc[c] = "rollback" /\ Say(c, "rolledBack") /\ (RemoveRule \/ KeepRule)

Revoke(c) ==
  /\ pc[c] = "remove"
  /\ \/ RemoveRule /\ Say(c, "revoked")
     \/ KeepRule /\ Say(c, "failed")

Leave(c) ==
  /\ pc[c] \in Said
  /\ Goto(c, "none")
  /\ UNCHANGED <<rule, tmp>>

\* The temporary file of a killed command stays behind.
Kill(c) ==
  /\ "kill" \in Faults
  /\ pc[c] \in Working
  /\ Goto(c, "none")
  /\ UNCHANGED <<rule, tmp>>

\* The administrator, by another way than sudo if need be.
Edit ==
  /\ "edit" \in Faults
  /\ others' \in Others \ {others}
  /\ UNCHANGED <<rule, pc, tmp>>

Next ==
  \/ \E c \in Cmd : \/ Start(c) \/ CreateTemp(c) \/ Validate(c) \/ Install(c)
                    \/ Recheck(c) \/ Rollback(c) \/ Revoke(c) \/ Leave(c)
                    \/ Kill(c)
  \/ Edit

Spec == Init /\ [][Next]_vars

-----------------------------------------------------------------------------
TypeOK ==
  /\ rule \in Contents /\ others \in Others
  /\ pc \in [Cmd -> Working \cup Said \cup {"none"}]
  /\ tmp \in [Cmd -> Contents]

\* Lockout safety: "a malformed file under /etc/sudoers.d breaks all of sudo",
\* so none is ever placed there, whatever reached the temporary file and
\* however many commands overlap.
LockoutSafe == rule # "malformed"

\* Why: what is about to be installed has been validated.
Validated == \A c \in Cmd : pc[c] = "install" => tmp[c] # "malformed"
=============================================================================
