--------------------------- MODULE ProfileRegister ---------------------------
(***************************************************************************)
(* What the store of feed connections promises: one value, which an        *)
(* instance of the program reads when it starts and replaces when it       *)
(* saves, whole and at once.  Only damage from outside takes a value away, *)
(* and it leaves a value that was saved earlier, or none.                  *)
(***************************************************************************)
CONSTANTS
    Instances,  \* running copies of the program
    Profiles,   \* lists of connections
    Empty,      \* the empty one
    Absent      \* no list: the instance is not running

VARIABLES
    value,        \* what a start reads
    intact,       \* whether nothing damaged it since it was saved
    past,         \* every value that was ever saved
    connections   \* what each instance has

Init ==
    /\ value = Empty /\ ~intact /\ past = {}
    /\ connections = [i \in Instances |-> Absent]

\* A start that cannot read has nothing.
Start(i) ==
    /\ connections[i] = Absent
    /\ connections' = [connections EXCEPT ![i] = value]
       \/ connections' = [connections EXCEPT ![i] = Empty]
    /\ UNCHANGED <<value, intact, past>>

Edit(i) ==
    /\ connections[i] # Absent
    /\ \E p \in Profiles : connections' = [connections EXCEPT ![i] = p]
    /\ UNCHANGED <<value, intact, past>>

Save(i) ==
    /\ connections[i] # Absent
    /\ value' = connections[i] /\ intact' = TRUE /\ past' = past \cup {connections[i]}
    /\ UNCHANGED connections

Stop(i) ==
    /\ connections' = [connections EXCEPT ![i] = Absent]
    /\ UNCHANGED <<value, intact, past>>

\* What is left may change again while it is being recovered.
Damage ==
    /\ intact' = FALSE
    /\ value' \in past \cup {Empty}
    /\ UNCHANGED <<past, connections>>

Recover ==
    /\ ~intact /\ value' \in past \cup {Empty}
    /\ UNCHANGED <<intact, past, connections>>

Next ==
    \/ \E i \in Instances : Start(i) \/ Edit(i) \/ Save(i) \/ Stop(i)
    \/ Damage \/ Recover

vars == <<value, intact, past, connections>>

Spec == Init /\ [][Next]_vars
=============================================================================
