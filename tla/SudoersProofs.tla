---------------------------- MODULE SudoersProofs ----------------------------
(***************************************************************************)
(* Lockout safety of authorize, for any number of overlapping commands.    *)
(***************************************************************************)
EXTENDS Sudoers, TLAPS

Inv == TypeOK /\ LockoutSafe /\ Validated

\* No run of authorize and revoke, overlapping, refused, killed or raced by
\* the administrator, ever places a malformed file in the sudoers directory.
THEOREM NeverLockedOut == Spec => []LockoutSafe
<1> USE DEF Contents, Others, Working, Said
<1>1. Init => Inv
  BY DEF Init, Inv, TypeOK, LockoutSafe, Validated
<1>2. Inv /\ [Next]_vars => Inv'
  <2> SUFFICES ASSUME Inv, [Next]_vars PROVE Inv'
    OBVIOUS
  <2>i. TypeOK /\ LockoutSafe /\ Validated
    BY DEF Inv
  <2>1. CASE UNCHANGED vars
    BY <2>1, <2>i DEF vars, Inv, TypeOK, LockoutSafe, Validated
  <2>2. ASSUME NEW c \in Cmd, Start(c) PROVE Inv'
    BY <2>2, <2>i DEF Start, Inv, TypeOK, LockoutSafe, Validated
  <2>3. ASSUME NEW c \in Cmd, CreateTemp(c) PROVE Inv'
    <3>1. LockoutSafe'
      BY <2>3, <2>i DEF CreateTemp, LockoutSafe
    <3>2. TypeOK'
      BY <2>3, <2>i DEF CreateTemp, Goto, Say, TypeOK
    <3>3. Validated'
      BY <2>3, <2>i DEF CreateTemp, Goto, Say, TypeOK, Validated
    <3> QED
      BY <3>1, <3>2, <3>3 DEF Inv
  <2>4. ASSUME NEW c \in Cmd, Validate(c) PROVE Inv'
    BY <2>4, <2>i DEF Validate, Goto, Say, Inv, TypeOK, LockoutSafe, Validated
  <2>5. ASSUME NEW c \in Cmd, Install(c) PROVE Inv'
    <3>1. rule' \in Contents \ {"malformed"}
      BY <2>5, <2>i DEF Install, KeepRule, TypeOK, LockoutSafe, Validated
    <3>2. (TypeOK /\ Validated)'
      BY <2>5, <2>i, <3>1 DEF Install, Goto, Say, TypeOK, Validated
    <3> QED
      BY <3>1, <3>2 DEF Inv, LockoutSafe
  <2>6. ASSUME NEW c \in Cmd, Recheck(c) PROVE Inv'
    BY <2>6, <2>i DEF Recheck, Goto, Say, Inv, TypeOK, LockoutSafe, Validated
  <2>7. ASSUME NEW c \in Cmd, Rollback(c) \/ Revoke(c) PROVE Inv'
    BY <2>7, <2>i DEF Rollback, Revoke, RemoveRule, KeepRule, Goto, Say, Inv, TypeOK,
                      LockoutSafe, Validated
  <2>8. ASSUME NEW c \in Cmd, Leave(c) \/ Kill(c) PROVE Inv'
    BY <2>8, <2>i DEF Leave, Kill, Goto, Inv, TypeOK, LockoutSafe, Validated
  <2>9. CASE Edit
    BY <2>9, <2>i DEF Edit, Inv, TypeOK, LockoutSafe, Validated
  <2> QED
    BY <2>1, <2>2, <2>3, <2>4, <2>5, <2>6, <2>7, <2>8, <2>9 DEF Next
<1>3. Inv => LockoutSafe
  BY DEF Inv
<1> QED
  BY <1>1, <1>2, <1>3, PTL DEF Spec
=============================================================================
