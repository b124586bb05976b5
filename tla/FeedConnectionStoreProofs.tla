---------------------- MODULE FeedConnectionStoreProofs ----------------------
(***************************************************************************)
(* Proofs about FeedConnectionStore, for any instances and lists of        *)
(* connections, with the Keychain or without: its copies are sound, and it *)
(* implements ProfileRegister.                                             *)
(***************************************************************************)
EXTENDS FeedConnectionStore, TLAPS

Updating(i) == step[i] \in {"updating", "adding"}

\* BackupAgrees, also while the Keychain is being updated: the update under way
\* is of the list in the file.
AgreesMeanwhile ==
    Keychain /\ file \in Profiles /\ ~missed =>
        IF \E i \in Instances : Updating(i)
        THEN \A i \in Instances : Updating(i) => connections[i] = file
        ELSE backup = file

IInv == TypeOK /\ BackupWasSaved /\ AgreesMeanwhile

-----------------------------------------------------------------------------
\* The store starts sound.
LEMMA InitSound == Init => IInv
  BY ProfilesAssumption, KeychainAssumption
     DEF Init, IInv, TypeOK, BackupWasSaved, AgreesMeanwhile, Busy, Updating

\* Every step keeps types and keeps what was never saved out of both copies.
LEMMA StepSaved == TypeOK /\ BackupWasSaved /\ [Next]_vars => TypeOK' /\ BackupWasSaved'
<1> SUFFICES ASSUME TypeOK, BackupWasSaved, [Next]_vars PROVE TypeOK' /\ BackupWasSaved'
  OBVIOUS
<1> USE ProfilesAssumption, KeychainAssumption DEF TypeOK, BackupWasSaved, Busy
<1>load. Load \in Profiles
  BY DEF Load
<1>1. ASSUME NEW i \in Instances, NEW readable \in BOOLEAN, Start(i, readable)
      PROVE  TypeOK' /\ BackupWasSaved'
  BY <1>1, <1>load DEF Start
<1>2. ASSUME NEW i \in Instances, NEW p \in Profiles, AcceptSettings(i, p)
      PROVE  TypeOK' /\ BackupWasSaved'
  BY <1>2 DEF AcceptSettings
<1>3. ASSUME NEW i \in Instances, WriteFails(i) PROVE TypeOK' /\ BackupWasSaved'
  BY <1>3 DEF WriteFails
<1>4. ASSUME NEW i \in Instances, Commit(i) PROVE TypeOK' /\ BackupWasSaved'
  BY <1>4 DEF Commit
<1>5. ASSUME NEW i \in Instances, Update(i) PROVE TypeOK' /\ BackupWasSaved'
  BY <1>5 DEF Update, BackedUp
<1>6. ASSUME NEW i \in Instances, AddItem(i) PROVE TypeOK' /\ BackupWasSaved'
  BY <1>6 DEF AddItem, BackedUp
<1>7. ASSUME NEW i \in Instances, BackupFails(i) PROVE TypeOK' /\ BackupWasSaved'
  BY <1>7 DEF BackupFails
<1>8. ASSUME NEW i \in Instances, Stop(i) PROVE TypeOK' /\ BackupWasSaved'
  BY <1>8 DEF Stop
<1>9. ASSUME NEW left \in {Absent, Garbled}, Damage(left) PROVE TypeOK' /\ BackupWasSaved'
  BY <1>9 DEF Damage
<1>10. CASE UNCHANGED vars
  BY <1>10 DEF vars
<1> QED
  BY <1>1, <1>2, <1>3, <1>4, <1>5, <1>6, <1>7, <1>8, <1>9, <1>10 DEF Next

\* Only a whole, undisturbed update of the Keychain counts as one.
LEMMA StepAgrees == IInv /\ [Next]_vars => AgreesMeanwhile'
<1> SUFFICES ASSUME IInv, [Next]_vars PROVE AgreesMeanwhile'
  OBVIOUS
<1> USE ProfilesAssumption, KeychainAssumption DEF IInv, TypeOK, AgreesMeanwhile, Updating, Busy
<1>1. ASSUME NEW i \in Instances, NEW readable \in BOOLEAN, Start(i, readable)
      PROVE  AgreesMeanwhile'
  BY <1>1 DEF Start
<1>2. ASSUME NEW i \in Instances, NEW p \in Profiles, AcceptSettings(i, p)
      PROVE  AgreesMeanwhile'
  BY <1>2 DEF AcceptSettings
<1>3. ASSUME NEW i \in Instances, WriteFails(i) PROVE AgreesMeanwhile'
  BY <1>3 DEF WriteFails
<1>4. ASSUME NEW i \in Instances, Commit(i) PROVE AgreesMeanwhile'
  BY <1>4 DEF Commit
<1>5. ASSUME NEW i \in Instances, Update(i) PROVE AgreesMeanwhile'
  <2>1. CASE backup = Absent
    BY <1>5, <2>1 DEF Update
  <2>2. CASE backup # Absent
    BY <1>5, <2>2 DEF Update, BackedUp
  <2> QED
    BY <2>1, <2>2
<1>6. ASSUME NEW i \in Instances, AddItem(i) PROVE AgreesMeanwhile'
  BY <1>6 DEF AddItem, BackedUp
<1>7. ASSUME NEW i \in Instances, BackupFails(i) PROVE AgreesMeanwhile'
  BY <1>7 DEF BackupFails
<1>8. ASSUME NEW i \in Instances, Stop(i) PROVE AgreesMeanwhile'
  BY <1>8 DEF Stop
<1>9. ASSUME NEW left \in {Absent, Garbled}, Damage(left) PROVE AgreesMeanwhile'
  BY <1>9 DEF Damage
<1>10. CASE UNCHANGED vars
  BY <1>10 DEF vars
<1> QED
  BY <1>1, <1>2, <1>3, <1>4, <1>5, <1>6, <1>7, <1>8, <1>9, <1>10 DEF Next

\* The invariant the two theorems rest on.
THEOREM Invariance == Spec => []IInv
<1>1. IInv /\ [Next]_vars => IInv'
  BY StepSaved, StepAgrees DEF IInv
<1> QED
  BY InitSound, <1>1, PTL DEF Spec

\* The file and the Keychain hold only lists that were saved whole, and the same
\* one unless an update of the Keychain failed, was cut off or overlapped another.
THEOREM BackupsAreSound == Spec => []BackupIsSound
<1>1. IInv => BackupIsSound
  BY DEF IInv, BackupIsSound, TypeOK, BackupAgrees, AgreesMeanwhile, Updating, Busy
<1> QED
  BY Invariance, <1>1, PTL

-----------------------------------------------------------------------------
(* The refinement *)

\* A step of the store is a step of the register, or none.
LEMMA StepOfRegister == IInv /\ [Next]_vars => [Register!Next]_(Register!vars)
<1> SUFFICES ASSUME IInv, [Next]_vars PROVE [Register!Next]_(Register!vars)
  OBVIOUS
<1> USE ProfilesAssumption, KeychainAssumption
    DEF IInv, TypeOK, BackupWasSaved, Busy, Load, Register!vars
<1>1. ASSUME NEW i \in Instances, NEW readable \in BOOLEAN, Start(i, readable)
      PROVE  Register!Next
  <2>1. Register!Start(i)
    BY <1>1 DEF Start, Register!Start
  <2> QED
    BY <2>1 DEF Register!Next
<1>2. ASSUME NEW i \in Instances, NEW p \in Profiles, AcceptSettings(i, p)
      PROVE  Register!Next
  <2>1. Register!Edit(i)
    BY <1>2 DEF AcceptSettings, Register!Edit
  <2> QED
    BY <2>1 DEF Register!Next
<1>3. ASSUME NEW i \in Instances, WriteFails(i) PROVE UNCHANGED Register!vars
  BY <1>3 DEF WriteFails
<1>4. ASSUME NEW i \in Instances, Commit(i) PROVE Register!Next
  <2>1. Register!Save(i)
    BY <1>4 DEF Commit, Register!Save
  <2> QED
    BY <2>1 DEF Register!Next
<1>5. ASSUME NEW i \in Instances, step[i] \in {"updating", "adding"},
             backup' = connections[i], UNCHANGED <<file, connections, saved>>
      PROVE  Register!Recover \/ UNCHANGED Register!vars
  <2>1. CASE file \in Profiles
    BY <1>5, <2>1
  <2>2. CASE file \notin Profiles
    BY <1>5, <2>2 DEF Register!Recover
  <2> QED
    BY <2>1, <2>2
<1>6. ASSUME NEW i \in Instances, Update(i) \/ AddItem(i)
      PROVE  Register!Next \/ UNCHANGED Register!vars
  <2>1. CASE UNCHANGED <<file, backup, connections, saved>>
    BY <2>1
  <2>2. CASE backup' = connections[i] /\ UNCHANGED <<file, connections, saved>>
    BY <1>5, <1>6, <2>2 DEF Update, AddItem, Register!Next
  <2> QED
    BY <1>6, <2>1, <2>2 DEF Update, AddItem, BackedUp
<1>7. ASSUME NEW i \in Instances, BackupFails(i) PROVE UNCHANGED Register!vars
  BY <1>7 DEF BackupFails
<1>8. ASSUME NEW i \in Instances, Stop(i) PROVE Register!Next
  <2>1. Register!Stop(i)
    BY <1>8 DEF Stop, Register!Stop
  <2> QED
    BY <2>1 DEF Register!Next
<1>9. ASSUME NEW left \in {Absent, Garbled}, Damage(left) PROVE Register!Next
  <2>1. Register!Damage
    BY <1>9 DEF Damage, Register!Damage
  <2> QED
    BY <2>1 DEF Register!Next
<1>10. CASE UNCHANGED vars
  BY <1>10 DEF vars
<1> QED
  BY <1>1, <1>2, <1>3, <1>4, <1>6, <1>7, <1>8, <1>9, <1>10 DEF Next

\* The file, its copy in the Keychain and the crashes between their updates are
\* one register: a start reads the list saved last, or after damage an earlier
\* one or none.
THEOREM StoreIsRegister == Spec => ImplementsRegister
<1>1. Init => Register!Init
  BY ProfilesAssumption, KeychainAssumption DEF Init, Load, Register!Init
<1> QED
  BY <1>1, Invariance, StepOfRegister, PTL DEF Spec, ImplementsRegister, Register!Spec
=============================================================================
