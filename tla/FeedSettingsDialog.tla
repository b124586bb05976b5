------------------------- MODULE FeedSettingsDialog -------------------------
(***************************************************************************)
(* tc::FeedSettingsDialog: a list of connections, a form that shows one of *)
(* them, and the rule that the form is saved into the connection it shows  *)
(* before another is shown.                                                *)
(*                                                                         *)
(* The list is a QListWidget whose currentRowChanged is connected to       *)
(* selectConnection: setCurrentRow emits it when the row changes, and so   *)
(* does clear when a row was current, while the items are still there.     *)
(* Handlers run to their end on the one thread, with those calls inside.   *)
(***************************************************************************)
EXTENDS Naturals, Sequences, SequencesExt

CONSTANTS
    Ids,         \* identities a connection can be given
    Names,       \* names that can be typed
    Empty,       \* the empty name
    Default,     \* the name a connection without one is given
    Settings,    \* the other fields of the form, taken together
    Fresh,       \* those of a new connection
    Legacy,      \* settings that leave a field empty the form has a default for,
    Completed,   \*   and the same with the default
    Incomplete,  \* settings that lack a field a session needs
    Simulated,   \* settings of the simulated feed
    Nothing,     \* no settings, no form
    Typed,       \* bound: forms that are typed
    MaxPosted    \* bound: snapshots on the way to the test dialog

ASSUME IdsAssumption == Ids # {}
ASSUME NamesAssumption == Default \in Names /\ Empty \notin Names
ASSUME SettingsAssumption ==
    /\ {Fresh, Legacy, Completed} \subseteq Settings /\ Legacy \notin {Fresh, Completed}
    /\ Incomplete \subseteq Settings /\ Simulated \subseteq Settings /\ Nothing \notin Settings
ASSUME PostedAssumption == MaxPosted \in Nat
ASSUME TypedAssumption == Typed \subseteq [name: Names \cup {Empty}, settings: Settings]

VARIABLES
    d,        \* the dialog
    test,     \* the test dialog over it
    meant,    \* history: what the user last saw or typed for each connection
    spoiled   \* history: connections that were given the form of another

Test == INSTANCE ConnectionTestDialog WITH t <- test, Feeds <- Settings

NoForm == [name |-> Empty, settings |-> Nothing]
Forms == [name: Names \cup {Empty}, settings: Settings] \cup {NoForm}
Connections == [id: Ids, form: Forms]

(***************************************************************************)
(* connections and selected are members (connections_ and selectedIndex_,  *)
(* 0 for none); items and row are the list's, form what the fields show,   *)
(* enabled whether they are; result is that of exec.                       *)
(***************************************************************************)
Dialog == [
    connections: Seq(Connections), selected: Nat,
    items: Seq(Names \cup {Empty}), row: Nat,
    form: Forms, enabled: BOOLEAN,
    result: {"open", "accepted", "rejected"} ]

IdsOf(k) == {k.connections[i].id : i \in DOMAIN k.connections}

\* What the fields show of a connection, and what is read back from them.
Shown(form) == [form EXCEPT !.settings = IF @ = Legacy THEN Completed ELSE @]
Stored(form) == [form EXCEPT !.name = IF @ = Empty THEN Default ELSE @]

-----------------------------------------------------------------------------
(* Members of the class *)

SaveCurrentForm(k) ==
    IF k.selected \notin DOMAIN k.connections THEN k
    ELSE [k EXCEPT !.connections[k.selected].form = Stored(k.form),
                   !.items = IF k.selected \in DOMAIN @
                             THEN [@ EXCEPT ![k.selected] = Stored(k.form).name]
                             ELSE @]

LoadSelectedConnection(k) ==
    IF k.selected \in DOMAIN k.connections
    THEN [k EXCEPT !.form = Shown(k.connections[k.selected].form), !.enabled = TRUE]
    ELSE [k EXCEPT !.form = NoForm, !.enabled = FALSE]

\* Faulty variant: the form is loaded over what was typed.
SelectedUnsaved(k, index) ==
    IF index = k.selected THEN k
    ELSE LoadSelectedConnection([k EXCEPT !.selected = index])

SelectConnection(k, index) ==
    IF index = k.selected THEN k
    ELSE LoadSelectedConnection([SaveCurrentForm(k) EXCEPT !.selected = index])

\* QListWidget: the row changes, and the change is signalled.
SetCurrentRow(k, row) ==
    IF row = k.row THEN k ELSE SelectConnection([k EXCEPT !.row = row], row)

\* Faulty variant: the list is filled with what was there before it was cleared.
RebuiltEarly(k) ==
    [SetCurrentRow(k, 0) EXCEPT
        !.items = [i \in DOMAIN k.connections |-> k.connections[i].form.name]]

RebuildConnectionList(k) ==
    LET cleared == SetCurrentRow(k, 0)
    IN  [cleared EXCEPT
            !.items = [i \in DOMAIN cleared.connections |-> cleared.connections[i].form.name]]

Blank(id) == [id |-> id, form |-> [name |-> Default, settings |-> Fresh]]

AddConnection(k, id) ==
    LET saved == SaveCurrentForm(k)
        pushed == [saved EXCEPT !.connections = Append(@, Blank(id)),
                                !.selected = Len(k.connections) + 1]
        rebuilt == RebuildConnectionList(pushed)
    IN  LoadSelectedConnection(SetCurrentRow(rebuilt, rebuilt.selected))

\* The list is rebuilt with the form of the removed connection still shown.
RemoveSelectedConnection(k) ==
    LET left == RemoveAt(k.connections, k.selected)
        cut == [k EXCEPT !.connections = left,
                         !.selected = IF @ > Len(left) THEN Len(left) ELSE @]
        rebuilt == RebuildConnectionList(cut)
    IN  LoadSelectedConnection(SetCurrentRow(rebuilt, rebuilt.selected))

-----------------------------------------------------------------------------
(* The user *)

Usable == d.result = "open" /\ test.feed = Nothing

\* currentRowChanged, by a click or a key
ChooseRow(row) ==
    /\ Usable /\ row \in DOMAIN d.items /\ row # d.row
    /\ d' = SetCurrentRow(d, row)
    /\ UNCHANGED <<test, meant, spoiled>>

Type(form) ==
    /\ Usable /\ d.enabled /\ form # d.form
    /\ d' = [d EXCEPT !.form = form]
    /\ meant' = [meant EXCEPT ![d.connections[d.selected].id] = form]
    /\ spoiled' = spoiled \ {d.connections[d.selected].id}
    /\ UNCHANGED test

\* The identity is a new UUID.
ClickAdd(id) ==
    /\ Usable /\ id \notin DOMAIN meant
    /\ d' = AddConnection(d, id)
    /\ meant' = [x \in DOMAIN meant \cup {id} |-> IF x = id THEN Blank(id).form ELSE meant[x]]
    /\ spoiled' = IF d.row = 0 THEN spoiled ELSE spoiled \cup {id}
    /\ UNCHANGED test

ClickRemove ==
    /\ Usable /\ d.enabled
    /\ d' = RemoveSelectedConnection(d)
    /\ spoiled' = LET left == RemoveAt(d.connections, d.selected)
                      heir == IF d.selected > Len(left) THEN Len(left) ELSE d.selected
                  IN  IF left = <<>> THEN spoiled ELSE spoiled \cup {left[heir].id}
    /\ UNCHANGED <<test, meant>>

\* Faulty variant: the connection is tested as it was before.
TestedUnsaved ==
    /\ Usable
    /\ test' = IF d.selected \in DOMAIN d.connections
               THEN Test!Opened(d.connections[d.selected].form.settings) ELSE test
    /\ UNCHANGED <<d, meant, spoiled>>

\* testCurrentConnection: the connection is saved, and tested as saved.
TestCurrentConnection ==
    /\ Usable
    /\ d' = SaveCurrentForm(d)
    /\ test' = IF d.selected \in DOMAIN d.connections
               THEN Test!Opened(d'.connections[d.selected].form.settings) ELSE test
    /\ UNCHANGED <<meant, spoiled>>

Accept ==
    /\ Usable
    /\ d' = [SaveCurrentForm(d) EXCEPT !.result = "accepted"]
    /\ UNCHANGED <<test, meant, spoiled>>

Reject ==
    /\ Usable
    /\ d' = [d EXCEPT !.result = "rejected"]
    /\ UNCHANGED <<test, meant, spoiled>>

TestStep == Test!Step /\ UNCHANGED <<d, meant, spoiled>>

-----------------------------------------------------------------------------
\* The constructor: a list that is empty is given a blank connection, and the
\* first row is chosen.
Opening(connections) ==
    LET filled == IF connections = <<>> THEN <<Blank(CHOOSE id \in Ids : TRUE)>> ELSE connections
        made == [connections |-> filled, selected |-> 0, items |-> <<>>, row |-> 0,
                 form |-> NoForm, enabled |-> FALSE, result |-> "open"]
    IN  SetCurrentRow(RebuildConnectionList(made), 1)

\* What can be saved of earlier: identities are unique, names are not empty.
Saved ==
    {<<>>} \cup
    { [i \in DOMAIN ids |-> [id |-> ids[i], form |-> forms[i]]] :
        ids \in {s \in [1..2 -> Ids] : s[1] # s[2]},
        forms \in [1..2 -> [name: {Default}, settings: {Completed, Legacy}]] }

Init ==
    /\ \E connections \in Saved : d = Opening(connections)
    /\ meant = [x \in IdsOf(d) |->
                   d.connections[CHOOSE i \in DOMAIN d.connections : d.connections[i].id = x].form]
    /\ spoiled = {}
    /\ Test!Init

Next ==
    \/ \E row \in DOMAIN d.items : ChooseRow(row)
    \/ \E form \in Typed : Type(form)
    \/ \E id \in Ids : ClickAdd(id)
    \/ ClickRemove
    \/ TestCurrentConnection
    \/ Accept \/ Reject
    \/ TestStep

vars == <<d, test, meant, spoiled>>

Spec == Init /\ [][Next]_vars

\* The event loop delivers what was posted and runs what is due.
FairSpec ==
    /\ Spec
    /\ WF_vars(TestStep /\ Test!Deliver)
    /\ WF_vars(TestStep /\ \E outcome \in {"opens", "fails", "refused"} : Test!StartTest(outcome))

-----------------------------------------------------------------------------
(* What holds *)

TypeOK ==
    /\ d \in Dialog /\ test \in Test!Dialog
    /\ DOMAIN meant \subseteq Ids /\ \A id \in DOMAIN meant : meant[id] \in Forms
    /\ spoiled \subseteq DOMAIN meant

(***************************************************************************)
(* Between two clicks the row that is current is the connection the form   *)
(* is saved into, the list shows the names of the connections in their     *)
(* order, and no two connections share an identity (the main window finds  *)
(* them by it).                                                            *)
(***************************************************************************)
RowIsSelected ==
    /\ TypeOK
    /\ d.row = d.selected /\ d.selected \in 0..Len(d.connections)
    /\ d.enabled <=> d.selected # 0
    /\ Len(d.items) = Len(d.connections)
    /\ \A i \in DOMAIN d.items : d.items[i] = d.connections[i].form.name
    /\ IsInjective([i \in DOMAIN d.connections |-> d.connections[i].id])

\* Forms that only differ in what showing and saving fill in.
Settled(form) == Stored(Shown(form))

(***************************************************************************)
(* What was typed for a connection is kept while others are chosen, added, *)
(* removed and tested, and accepted at the end, except for connections     *)
(* that were spoiled: those that were added with a row current, or took    *)
(* the place of a removed one, and not typed over since.                   *)
(***************************************************************************)
TypingIsKept ==
    d.result # "rejected" =>
        \A i \in DOMAIN d.connections :
            LET c == d.connections[i]
                now == IF i = d.selected /\ d.result = "open" THEN d.form ELSE c.form
            IN  c.id \notin spoiled => Settled(now) = Settled(meant[c.id])

(***************************************************************************)
(* What is tested is what the form shows, typed a moment ago or not, and   *)
(* it stays so until the test is closed.                                   *)
(***************************************************************************)
TestedIsShown ==
    test.feed # Nothing =>
        /\ d.result = "open" /\ d.selected \in DOMAIN d.connections
        /\ test.feed = d.form.settings

GlyphIsEarned == Test!GlyphIsEarned
TestEnds == Test!TestEnds

=============================================================================
