------------------------- MODULE FeedConnectionStore -------------------------
(***************************************************************************)
(* tc::FeedConnectionStore and the Keychain behind it: the list of         *)
(* connections is one JSON file, replaced as a whole by QSaveFile, with a  *)
(* copy in the Keychain when the program is built with the backup.         *)
(*                                                                         *)
(* A save is several calls of the system; between any two of them the      *)
(* instance may be killed, another instance of the program may save, and   *)
(* the user may delete or damage the file.                                 *)
(***************************************************************************)
EXTENDS FiniteSets

CONSTANTS
    Instances,  \* running copies of the program
    Profiles,   \* lists of connections
    Empty,      \* the empty one
    Absent,     \* no file, no item, no instance
    Garbled,    \* a file that is no list
    Keychain    \* whether TC_ENABLE_KEYCHAIN_BACKUP is defined

ASSUME ProfilesAssumption ==
    Empty \in Profiles /\ Absent \notin Profiles /\ Garbled \notin Profiles /\ Absent # Garbled
ASSUME KeychainAssumption == Keychain \in BOOLEAN

VARIABLES
    file,          \* feed-connections.json
    backup,        \* the item in the Keychain
    connections,   \* MainWindow::connections_ of each instance
    step,          \* how far its save is
    saved,         \* history: every list that was ever in the file
    missed         \* history: an update of the Keychain failed, was cut off, or overlapped another

vars == <<file, backup, connections, step, saved, missed>>

\* Faulty variant: the backup comes first.
LoadBackup ==
    IF Keychain /\ backup # Absent THEN backup
    ELSE IF file \in Profiles THEN file ELSE Empty

\* load: a file that is no list is an empty one.
Load ==
    CASE file \in Profiles -> file
      [] file = Garbled -> Empty
      [] OTHER -> IF Keychain /\ backup # Absent THEN backup ELSE Empty

-----------------------------------------------------------------------------
\* loadConnections; a file, or an item, that cannot be read gives a message and
\* nothing else.
Start(i, readable) ==
    /\ connections[i] = Absent
    /\ connections' = [connections EXCEPT ![i] = IF readable THEN Load ELSE Empty]
    /\ UNCHANGED <<file, backup, step, saved, missed>>

Busy(i) == step[i] # "idle"

\* showFeedSettings, accepted: the list is used, and its save begins.
AcceptSettings(i, p) ==
    /\ connections[i] # Absent /\ ~Busy(i)
    /\ connections' = [connections EXCEPT ![i] = p]
    /\ step' = [step EXCEPT ![i] = "writing"]
    /\ UNCHANGED <<file, backup, saved, missed>>

\* Faulty variant: the backup is written although the file was not.
FailedOnly(i) ==
    /\ step[i] = "writing"
    /\ step' = [step EXCEPT ![i] = IF Keychain THEN "updating" ELSE "idle"]
    /\ UNCHANGED <<file, backup, connections, saved, missed>>

\* No directory, no file, a short write or no commit: save returns false.
WriteFails(i) ==
    /\ step[i] = "writing"
    /\ step' = [step EXCEPT ![i] = "idle"]
    /\ UNCHANGED <<file, backup, connections, saved, missed>>

\* QSaveFile::commit replaces the file.
Commit(i) ==
    /\ step[i] = "writing"
    /\ file' = connections[i]
    /\ saved' = saved \cup {connections[i]}
    /\ step' = [step EXCEPT ![i] = IF Keychain THEN "updating" ELSE "idle"]
    /\ missed' = (missed \/ \E j \in Instances \ {i} : step[j] \in {"updating", "adding"})
    /\ UNCHANGED <<backup, connections>>

BackedUp(i) ==
    /\ backup' = connections[i]
    /\ missed' = (file # connections[i]
                    \/ \E j \in Instances \ {i} : step[j] \in {"updating", "adding"})
    /\ step' = [step EXCEPT ![i] = "idle"]

\* SecItemUpdate
Update(i) ==
    /\ step[i] = "updating"
    /\ IF backup = Absent
       THEN step' = [step EXCEPT ![i] = "adding"] /\ UNCHANGED <<backup, missed>>
       ELSE BackedUp(i)
    /\ UNCHANGED <<file, connections, saved>>

\* SecItemAdd refuses an item that is there by now.
AddItem(i) ==
    /\ step[i] = "adding" /\ backup = Absent
    /\ BackedUp(i)
    /\ UNCHANGED <<file, connections, saved>>

\* The access policy, the update or the addition fails; save returns true.
BackupFails(i) ==
    /\ step[i] \in {"updating", "adding"}
    /\ step' = [step EXCEPT ![i] = "idle"]
    /\ missed' = TRUE
    /\ UNCHANGED <<file, backup, connections, saved>>

\* Quit, or killed wherever it is.
Stop(i) ==
    /\ connections[i] # Absent
    /\ connections' = [connections EXCEPT ![i] = Absent]
    /\ step' = [step EXCEPT ![i] = "idle"]
    /\ missed' = (missed \/ step[i] \in {"updating", "adding"})
    /\ UNCHANGED <<file, backup, saved>>

\* The user, or another program, deletes the file or damages it.
Damage(left) ==
    /\ file \in Profiles
    /\ file' = left
    /\ UNCHANGED <<backup, connections, step, saved, missed>>

-----------------------------------------------------------------------------
Init ==
    /\ file = Absent /\ backup = Absent
    /\ connections = [i \in Instances |-> Absent]
    /\ step = [i \in Instances |-> "idle"]
    /\ saved = {} /\ missed = FALSE

Next ==
    \/ \E i \in Instances :
        \/ \E readable \in BOOLEAN : Start(i, readable)
        \/ \E p \in Profiles : AcceptSettings(i, p)
        \/ WriteFails(i) \/ Commit(i)
        \/ Update(i) \/ AddItem(i) \/ BackupFails(i)
        \/ Stop(i)
    \/ \E left \in {Absent, Garbled} : Damage(left)

Spec == Init /\ [][Next]_vars

-----------------------------------------------------------------------------
(* What holds *)

TypeOK ==
    /\ file \in Profiles \cup {Absent, Garbled}
    /\ backup \in Profiles \cup {Absent}
    /\ connections \in [Instances -> Profiles \cup {Absent}]
    /\ step \in [Instances -> {"idle", "writing", "updating", "adding"}]
    /\ saved \subseteq Profiles /\ missed \in BOOLEAN
    /\ \A i \in Instances : Busy(i) => connections[i] # Absent
    /\ ~Keychain => \A i \in Instances : step[i] \in {"idle", "writing"}

(***************************************************************************)
(* What is in the file and in the Keychain was saved as it is: a list that *)
(* could not be written to the file, or was written in part, is in         *)
(* neither.  With no save under way the Keychain holds what the file       *)
(* holds, unless an update of it failed, was cut off or overlapped         *)
(* another.                                                                *)
(***************************************************************************)
BackupWasSaved ==
    /\ backup \in saved \cup {Absent}
    /\ file \in Profiles => file \in saved
    /\ \A i \in Instances : step[i] \in {"updating", "adding"} => connections[i] \in saved

BackupAgrees ==
    Keychain /\ file \in Profiles /\ ~missed /\ (\A i \in Instances : ~Busy(i)) => backup = file

BackupIsSound == TypeOK /\ BackupWasSaved /\ BackupAgrees

(***************************************************************************)
(* The store is a register: a start reads the list saved last, whole,      *)
(* whatever instance saved it and wherever one was killed; when the file   *)
(* was damaged, one saved earlier or none.                                 *)
(***************************************************************************)
Register ==
    INSTANCE ProfileRegister WITH value <- Load, intact <- file \in Profiles, past <- saved
ImplementsRegister == Register!Spec
=============================================================================
