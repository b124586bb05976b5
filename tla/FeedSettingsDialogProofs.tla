---------------------- MODULE FeedSettingsDialogProofs ----------------------
(***************************************************************************)
(* Proofs about FeedSettingsDialog and the test dialog over it, for any    *)
(* identities, names, settings, typed forms and bound: the row is the      *)
(* connection the form is saved into, what was typed is kept, what is      *)
(* tested is what is shown, and a success is that of a session.            *)
(*                                                                         *)
(* A call of the dialog runs signals inside: each helper is first shown to *)
(* return a dialog written out in full, and the steps then only compare    *)
(* lists of connections.                                                   *)
(***************************************************************************)
EXTENDS FeedSettingsDialog, SequenceTheorems, TLAPS

\* Forms that fields can show, and connections with such a form.
Real == [name: Names \cup {Empty}, settings: Settings]
Conn == [id: Ids, form: Real]

NamesOf(cs) == [i \in DOMAIN cs |-> cs[i].form.name]
Put(cs, i, form) == [cs EXCEPT ![i].form = form]
Distinct(cs) == \A i, j \in DOMAIN cs : cs[i].id = cs[j].id => i = j

\* The dialog, and the dialog between two clicks: its list, its row, its form.
Full(cs, selected, ns, row, form, on, result) ==
    [connections |-> cs, selected |-> selected, items |-> ns, row |-> row,
     form |-> form, enabled |-> on, result |-> result]

On(cs, sel, ns, row, form, result) == Full(cs, sel, ns, row, form, TRUE, result)
Off(cs, sel, ns, row, form, result) == Full(cs, sel, ns, row, form, FALSE, result)

At(cs, row, form, result) == Full(cs, row, NamesOf(cs), row, form, row # 0, result)

Results == {"open", "accepted", "rejected"}

\* The list, the row and the form agree.
Sound(k) ==
    /\ k = At(k.connections, k.row, k.form, k.result)
    /\ k.connections \in Seq(Conn) /\ k.row \in 0..Len(k.connections) /\ k.result \in Results
    /\ IF k.row = 0 THEN k.form = NoForm ELSE k.form \in Real
    /\ Distinct(k.connections)

\* The list of a dialog whose form is saved, whatever is selected.
Held(cs, sel, form) == IF sel \in DOMAIN cs THEN Put(cs, sel, Stored(form)) ELSE cs

\* The connections as they would be if the form were saved now.
SavedOf(k) == Held(k.connections, k.row, k.form)

\* What a list of connections shows now, with the form in place of one of them.
Now(k, i) == IF i = k.row /\ k.result = "open" THEN k.form ELSE k.connections[i].form

\* Every connection is one the history knows, and as the user last saw it, or spoiled.
Remembered(k, m, sp) ==
    /\ DOMAIN m \subseteq Ids /\ \A id \in DOMAIN m : m[id] \in Forms
    /\ sp \subseteq DOMAIN m
    /\ \A i \in DOMAIN k.connections : k.connections[i].id \in DOMAIN m
    /\ k.result # "rejected" =>
          \A i \in DOMAIN k.connections :
             k.connections[i].id \notin sp => Settled(Now(k, i)) = Settled(m[k.connections[i].id])

DialogInv == Sound(d) /\ Remembered(d, meant, spoiled)

\* A label is delivered in the order it was posted, and the last is the flag.
Told(k) ==
    /\ k \in Test!Dialog
    /\ k.connected \/ k.shown = "success" => k.wasLive
    /\ \A i \in DOMAIN k.posted : k.posted[i] => k.wasLive

TestInv ==
    /\ Told(test)
    /\ test.posted # <<>> => test.posted[Len(test.posted)] = test.connected
    /\ test.shown = "error" /\ test.posted = <<>> /\ test.connected => test.timer = "fired"

IInv == DialogInv /\ TestInv /\ TestedIsShown

-----------------------------------------------------------------------------
(* Forms and lists *)

\* Saving and showing fill in, and fill in once.
LEMMA FormFacts ==
    ASSUME NEW f \in Real
    PROVE  /\ Stored(f) \in Real /\ Shown(f) \in Real
           /\ Stored(f).settings = f.settings
           /\ Settled(Stored(f)) = Settled(f) /\ Settled(Shown(f)) = Settled(f)
  BY NamesAssumption, SettingsAssumption DEF Real, Stored, Shown, Settled

\* A blank connection is one.
LEMMA BlankIsOne == ASSUME NEW id \in Ids PROVE Blank(id) \in Conn /\ Blank(id).id = id
  BY NamesAssumption, SettingsAssumption DEF Blank, Conn, Real

\* The names of a list are a list.
LEMMA NamesFacts ==
    ASSUME NEW cs \in Seq(Conn)
    PROVE  /\ DOMAIN cs = 1..Len(cs) /\ NamesOf(cs) \in Seq(Names \cup {Empty})
           /\ DOMAIN NamesOf(cs) = DOMAIN cs /\ Len(NamesOf(cs)) = Len(cs)
<1>1. /\ Len(cs) \in Nat /\ DOMAIN cs = 1..Len(cs)
      /\ \A i \in 1..Len(cs) : cs[i] \in Conn
  BY LenProperties, ElementOfSeq
<1>2. NamesOf(cs) \in [1..Len(cs) -> Names \cup {Empty}]
  BY <1>1 DEF NamesOf, Conn, Real
<1> QED
  BY <1>1, <1>2, SeqDef DEF NamesOf

\* Putting a form into a list changes that form only.
LEMMA PutFacts ==
    ASSUME NEW cs \in Seq(Conn), NEW i \in DOMAIN cs, NEW f \in Real
    PROVE  /\ Put(cs, i, f) \in Seq(Conn)
           /\ Len(Put(cs, i, f)) = Len(cs) /\ DOMAIN Put(cs, i, f) = DOMAIN cs
           /\ \A j \in DOMAIN cs :
                 /\ Put(cs, i, f)[j].id = cs[j].id
                 /\ Put(cs, i, f)[j].form = IF j = i THEN f ELSE cs[j].form
<1>1. /\ Len(cs) \in Nat /\ DOMAIN cs = 1..Len(cs)
      /\ \A j \in 1..Len(cs) : cs[j] \in Conn
  BY LenProperties, ElementOfSeq
<1> DEFINE c == [cs[i] EXCEPT !.form = f]
<1>2. c \in Conn /\ c.id = cs[i].id /\ c.form = f
  BY <1>1 DEF Conn
<1>3. Put(cs, i, f) = [cs EXCEPT ![i] = c]
  BY DEF Put
<1>4. /\ Put(cs, i, f) \in Seq(Conn) /\ Len(Put(cs, i, f)) = Len(cs)
      /\ \A j \in 1..Len(cs) : Put(cs, i, f)[j] = IF j = i THEN c ELSE cs[j]
  BY <1>1, <1>2, <1>3, ExceptSeq
<1>5. DOMAIN Put(cs, i, f) = DOMAIN cs
  BY <1>3
<1> QED
  BY <1>1, <1>2, <1>4, <1>5

\* And its name.
LEMMA PutNames ==
    ASSUME NEW cs \in Seq(Conn), NEW i \in DOMAIN cs, NEW f \in Real
    PROVE  NamesOf(Put(cs, i, f)) = [NamesOf(cs) EXCEPT ![i] = f.name]
<1> DEFINE p == Put(cs, i, f)
<1>1. /\ DOMAIN p = DOMAIN cs
      /\ \A j \in DOMAIN cs : p[j].form = IF j = i THEN f ELSE cs[j].form
  BY PutFacts
<1> HIDE DEF p
<1>2. [j \in DOMAIN p |-> p[j].form.name] =
         [[j \in DOMAIN cs |-> cs[j].form.name] EXCEPT ![i] = f.name]
  BY <1>1
<1> QED
  BY <1>2 DEF p, NamesOf

\* Lists of one length with the same identities are distinct together.
LEMMA SameIds ==
    ASSUME NEW cs, NEW ds, DOMAIN ds = DOMAIN cs, \A i \in DOMAIN cs : ds[i].id = cs[i].id,
           Distinct(cs)
    PROVE  Distinct(ds)
  BY DEF Distinct

-----------------------------------------------------------------------------
(* What the members of the class return, for a dialog written out *)

\* The changes of two fields that the class makes.
WithItems(k, cs, ns) == [k EXCEPT !.connections = cs, !.items = ns]
WithSelected(k, cs, sel) == [k EXCEPT !.connections = cs, !.selected = sel]
WithForm(k, form, on) == [k EXCEPT !.form = form, !.enabled = on]

\* Two fields are changed as one after the other.
LEMMA ExceptTwo ==
    ASSUME NEW k, NEW x, NEW y
    PROVE  /\ \A m : m = [k EXCEPT !.connections = x] =>
                  /\ [k EXCEPT !.connections = x, !.items = y] = [m EXCEPT !.items = y]
                  /\ [k EXCEPT !.connections = x, !.selected = y] = [m EXCEPT !.selected = y]
           /\ \A m : m = [k EXCEPT !.form = x] =>
                  [k EXCEPT !.form = x, !.enabled = y] = [m EXCEPT !.enabled = y]
  OBVIOUS

\* Two fields of a dialog written out.
LEMMA FullTwo ==
    ASSUME NEW cs, NEW sel, NEW ns, NEW row, NEW form, NEW on, NEW result, NEW x, NEW y
    PROVE  /\ WithItems(Full(cs, sel, ns, row, form, on, result), x, y) =
                  Full(x, sel, y, row, form, on, result)
           /\ WithSelected(Full(cs, sel, ns, row, form, on, result), x, y) =
                  Full(x, y, ns, row, form, on, result)
           /\ WithForm(Full(cs, sel, ns, row, form, on, result), x, y) =
                  Full(cs, sel, ns, row, x, y, result)
<1> DEFINE k == Full(cs, sel, ns, row, form, on, result)
           m == Full(x, sel, ns, row, form, on, result)
           n == Full(cs, sel, ns, row, x, on, result)
<1>1. m = [k EXCEPT !.connections = x] /\ n = [k EXCEPT !.form = x]
  BY DEF Full
<1>2. [m EXCEPT !.items = y] = Full(x, sel, y, row, form, on, result)
  BY DEF Full
<1>3. [m EXCEPT !.selected = y] = Full(x, y, ns, row, form, on, result)
  BY DEF Full
<1>4. [n EXCEPT !.enabled = y] = Full(cs, sel, ns, row, x, y, result)
  BY DEF Full
<1> HIDE DEF k, m, n
<1>5. WithItems(k, x, y) = [m EXCEPT !.items = y]
  BY <1>1, ExceptTwo DEF WithItems
<1>6. WithSelected(k, x, y) = [m EXCEPT !.selected = y]
  BY <1>1, ExceptTwo DEF WithSelected
<1>7. WithForm(k, x, y) = [n EXCEPT !.enabled = y]
  BY <1>1, ExceptTwo DEF WithForm
<1> QED
  BY <1>2, <1>3, <1>4, <1>5, <1>6, <1>7 DEF k

\* The fields of a dialog written out.
LEMMA FullFields ==
    ASSUME NEW cs, NEW sel, NEW ns, NEW row, NEW form, NEW on, NEW result,
           NEW k, k = Full(cs, sel, ns, row, form, on, result)
    PROVE  /\ k.connections = cs /\ k.selected = sel /\ k.items = ns /\ k.row = row
           /\ k.form = form /\ k.enabled = on /\ k.result = result
  BY DEF Full

LEMMA LoadIs ==
    ASSUME NEW cs, NEW sel, NEW ns, NEW row, NEW form, NEW on, NEW result
    PROVE  LoadSelectedConnection(Full(cs, sel, ns, row, form, on, result)) =
             IF sel \in DOMAIN cs THEN On(cs, sel, ns, row, Shown(cs[sel].form), result)
             ELSE Off(cs, sel, ns, row, NoForm, result)
<1> DEFINE k == Full(cs, sel, ns, row, form, on, result)
           yes == TRUE
           no == FALSE
<1>1. k.connections = cs /\ k.selected = sel
  BY DEF Full
<1> HIDE DEF yes, no
<1>2. WithForm(k, Shown(cs[sel].form), yes) =
         Full(cs, sel, ns, row, Shown(cs[sel].form), yes, result)
  BY FullTwo
<1>3. WithForm(k, NoForm, no) = Full(cs, sel, ns, row, NoForm, no, result)
  BY FullTwo
<1> HIDE DEF k
<1>4. LoadSelectedConnection(k) =
         IF sel \in DOMAIN cs THEN WithForm(k, Shown(cs[sel].form), yes) ELSE WithForm(k, NoForm, no)
  BY <1>1 DEF LoadSelectedConnection, WithForm, yes, no
<1>5. On(cs, sel, ns, row, Shown(cs[sel].form), result) =
         Full(cs, sel, ns, row, Shown(cs[sel].form), yes, result)
  BY DEF On, yes
<1>6. Off(cs, sel, ns, row, NoForm, result) = Full(cs, sel, ns, row, NoForm, no, result)
  BY DEF Off, no
<1> QED
  BY <1>2, <1>3, <1>4, <1>5, <1>6 DEF k

\* The names of a list after the form was saved.
NewNames(ns, sel, form) ==
    IF sel \in DOMAIN ns THEN [ns EXCEPT ![sel] = Stored(form).name] ELSE ns

LEMMA SaveIs ==
    ASSUME NEW cs, NEW sel, NEW ns, NEW row, NEW form, NEW on, NEW result
    PROVE  SaveCurrentForm(Full(cs, sel, ns, row, form, on, result)) =
             IF sel \notin DOMAIN cs THEN Full(cs, sel, ns, row, form, on, result)
             ELSE Full(Put(cs, sel, Stored(form)), sel, NewNames(ns, sel, form), row, form, on, result)
<1> DEFINE k == Full(cs, sel, ns, row, form, on, result)
           p == Put(cs, sel, Stored(form))
           n == NewNames(ns, sel, form)
<1>1. k.connections = cs /\ k.selected = sel /\ k.items = ns /\ k.form = form
  BY DEF Full
<1>2. WithItems(k, p, n) = Full(p, sel, n, row, form, on, result)
  BY FullTwo
<1>3. CASE sel \notin DOMAIN cs
  BY <1>1, <1>3 DEF SaveCurrentForm
<1>4. CASE sel \in DOMAIN cs
  <2> HIDE DEF k
  <2>1. SaveCurrentForm(k) = WithItems(k, p, n)
    BY <1>1, <1>4 DEF SaveCurrentForm, Put, NewNames, WithItems
  <2> QED
    BY <1>2, <1>4, <2>1 DEF k
<1> QED
  BY <1>3, <1>4

HeldNames(cs, ns, sel, form) == IF sel \in DOMAIN cs THEN NewNames(ns, sel, form) ELSE ns

LEMMA SelectIs ==
    ASSUME NEW cs, NEW sel, NEW ns, NEW row, NEW form, NEW on, NEW result, NEW index, index # sel
    PROVE  SelectConnection(Full(cs, sel, ns, row, form, on, result), index) =
             LoadSelectedConnection(
               Full(Held(cs, sel, form), index, HeldNames(cs, ns, sel, form), row, form, on, result))
<1> DEFINE k == Full(cs, sel, ns, row, form, on, result)
           h == Held(cs, sel, form)
           n == HeldNames(cs, ns, sel, form)
<1>1. k.selected = sel
  BY DEF Full
<1>2. SaveCurrentForm(k) = Full(h, sel, n, row, form, on, result)
  <2>1. CASE sel \in DOMAIN cs
    <3>1. h = Put(cs, sel, Stored(form)) /\ n = NewNames(ns, sel, form)
      BY <2>1 DEF Held, HeldNames
    <3> HIDE DEF h, n
    <3> QED
      BY <2>1, <3>1, SaveIs
  <2>2. CASE sel \notin DOMAIN cs
    <3>1. h = cs /\ n = ns
      BY <2>2 DEF Held, HeldNames
    <3> HIDE DEF h, n
    <3> QED
      BY <2>2, <3>1, SaveIs
  <2> QED
    BY <2>1, <2>2
<1>3. [Full(h, sel, n, row, form, on, result) EXCEPT !.selected = index] =
         Full(h, index, n, row, form, on, result)
  BY DEF Full
<1> HIDE DEF k
<1> QED
  BY <1>1, <1>2, <1>3 DEF SelectConnection, k

LEMMA RowIs ==
    ASSUME NEW cs, NEW sel, NEW ns, NEW row, NEW form, NEW on, NEW result, NEW r, r # row
    PROVE  SetCurrentRow(Full(cs, sel, ns, row, form, on, result), r) =
             SelectConnection(Full(cs, sel, ns, r, form, on, result), r)
<1> DEFINE k == Full(cs, sel, ns, row, form, on, result)
<1>1. k.row = row
  BY DEF Full
<1>2. [k EXCEPT !.row = r] = Full(cs, sel, ns, r, form, on, result)
  BY DEF Full
<1> HIDE DEF k
<1> QED
  BY <1>1, <1>2 DEF SetCurrentRow, k

LEMMA SameRow ==
    ASSUME NEW cs, NEW sel, NEW ns, NEW row, NEW form, NEW on, NEW result
    PROVE  SetCurrentRow(Full(cs, sel, ns, row, form, on, result), row) =
             Full(cs, sel, ns, row, form, on, result)
<1> DEFINE k == Full(cs, sel, ns, row, form, on, result)
<1>1. k.row = row
  BY DEF Full
<1> HIDE DEF k
<1> QED
  BY <1>1 DEF SetCurrentRow, k

\* Clearing a list without a current row signals nothing.
LEMMA RebuildQuietly ==
    ASSUME NEW cs, NEW sel, NEW ns, NEW form, NEW on, NEW result
    PROVE  RebuildConnectionList(Full(cs, sel, ns, 0, form, on, result)) =
             Full(cs, sel, NamesOf(cs), 0, form, on, result)
<1> DEFINE k == Full(cs, sel, ns, 0, form, on, result)
<1>1. k.connections = cs
  BY DEF Full
<1>2. [k EXCEPT !.items = NamesOf(cs)] = Full(cs, sel, NamesOf(cs), 0, form, on, result)
  BY DEF Full
<1>3. SetCurrentRow(k, 0) = k
  BY SameRow
<1> HIDE DEF k
<1>4. RebuildConnectionList(k) = [k EXCEPT !.items = NamesOf(cs)]
  BY <1>1, <1>3 DEF RebuildConnectionList, NamesOf
<1> QED
  BY <1>2, <1>4 DEF k

\* With one, the form is saved into the connection selected, and none is then.
LEMMA RebuildLoudly ==
    ASSUME NEW cs, NEW sel, NEW ns, NEW row, NEW form, NEW on, NEW result,
           row # 0, sel # 0, 0 \notin DOMAIN Held(cs, sel, form)
    PROVE  RebuildConnectionList(Full(cs, sel, ns, row, form, on, result)) =
             Off(Held(cs, sel, form), 0, NamesOf(Held(cs, sel, form)), 0, NoForm, result)
<1> DEFINE k == Full(cs, sel, ns, row, form, on, result)
           h == Held(cs, sel, form)
           n == HeldNames(cs, ns, sel, form)
           m == Off(h, 0, n, 0, NoForm, result)
<1>1. SetCurrentRow(k, 0) = SelectConnection(Full(cs, sel, ns, 0, form, on, result), 0)
  BY RowIs
<1>2. SelectConnection(Full(cs, sel, ns, 0, form, on, result), 0) =
         LoadSelectedConnection(Full(h, 0, n, 0, form, on, result))
  BY SelectIs
<1>3. LoadSelectedConnection(Full(h, 0, n, 0, form, on, result)) = m
  <2> HIDE DEF h, n
  <2> QED
    BY LoadIs DEF h
<1>4. m.connections = h
  BY DEF Full, Off
<1>5. [m EXCEPT !.items = NamesOf(h)] = Off(h, 0, NamesOf(h), 0, NoForm, result)
  <2> DEFINE no == FALSE
  <2>1. /\ m = Full(h, 0, n, 0, NoForm, no, result)
        /\ Off(h, 0, NamesOf(h), 0, NoForm, result) = Full(h, 0, NamesOf(h), 0, NoForm, no, result)
    BY DEF Off
  <2> HIDE DEF no, m
  <2>2. [Full(h, 0, n, 0, NoForm, no, result) EXCEPT !.items = NamesOf(h)] =
           Full(h, 0, NamesOf(h), 0, NoForm, no, result)
    BY DEF Full
  <2> QED
    BY <2>1, <2>2
<1> HIDE DEF k, m, h
<1>6. RebuildConnectionList(k) = [m EXCEPT !.items = NamesOf(h)]
  BY <1>1, <1>2, <1>3, <1>4 DEF RebuildConnectionList, NamesOf
<1> QED
  BY <1>5, <1>6 DEF k, h

-----------------------------------------------------------------------------
(* What they return for a dialog between two clicks *)

\* What a dialog that is sound would save is a list with the same identities.
LEMMA SavedFacts ==
    ASSUME NEW k, Sound(k)
    PROVE  /\ SavedOf(k) \in Seq(Conn) /\ Len(SavedOf(k)) = Len(k.connections)
           /\ DOMAIN SavedOf(k) = DOMAIN k.connections
           /\ \A i \in DOMAIN k.connections : SavedOf(k)[i].id = k.connections[i].id
           /\ \A i \in DOMAIN k.connections :
                 SavedOf(k)[i].form = IF i = k.row THEN Stored(k.form) ELSE k.connections[i].form
           /\ Distinct(SavedOf(k))
<1>1. /\ k.connections \in Seq(Conn) /\ DOMAIN k.connections = 1..Len(k.connections)
      /\ Len(k.connections) \in Nat /\ k.row \in 0..Len(k.connections) /\ Distinct(k.connections)
  BY LenProperties DEF Sound
<1>2. CASE k.row = 0
  BY <1>1, <1>2 DEF SavedOf, Held
<1>3. CASE k.row # 0
  <2>1. k.row \in DOMAIN k.connections /\ Stored(k.form) \in Real
    BY <1>1, <1>3, FormFacts DEF Sound
  <2>2. SavedOf(k) = Put(k.connections, k.row, Stored(k.form))
    BY <2>1 DEF SavedOf, Held
  <2> DEFINE cs == k.connections
             i == k.row
             f == Stored(k.form)
             p == Put(cs, i, f)
  <2>0. cs \in Seq(Conn) /\ i \in DOMAIN cs /\ f \in Real
    BY <1>1, <2>1
  <2> HIDE DEF cs, i, f
  <2>9. /\ p \in Seq(Conn) /\ Len(p) = Len(cs) /\ DOMAIN p = DOMAIN cs
        /\ \A j \in DOMAIN cs :
              /\ p[j].id = cs[j].id
              /\ p[j].form = IF j = i THEN f ELSE cs[j].form
    BY <2>0, PutFacts
  <2> HIDE DEF p
  <2>3. /\ p \in Seq(Conn) /\ Len(p) = Len(k.connections) /\ DOMAIN p = DOMAIN k.connections
        /\ \A j \in DOMAIN k.connections :
              /\ p[j].id = k.connections[j].id
              /\ p[j].form = IF j = k.row THEN Stored(k.form) ELSE k.connections[j].form
    BY <2>9 DEF cs, i, f
  <2>4. Distinct(p)
    BY <1>1, <2>3, SameIds
  <2>5. SavedOf(k) = p
    BY <2>2 DEF p, cs, i, f
  <2> QED
    BY <2>3, <2>4, <2>5
<1> QED
  BY <1>2, <1>3

\* The fields of a sound dialog.
LEMMA SoundFields ==
    ASSUME NEW k, Sound(k)
    PROVE  /\ k.selected = k.row /\ k.items = NamesOf(k.connections)
           /\ k.enabled = (k.row # 0)
           /\ Len(k.connections) \in Nat /\ DOMAIN k.connections = 1..Len(k.connections)
           /\ k.row \in 0..Len(k.connections)
           /\ k.row # 0 => k.row \in DOMAIN k.connections /\ k.form \in Real
<1>1. k = At(k.connections, k.row, k.form, k.result)
  BY DEF Sound
<1>2. k.selected = k.row /\ k.items = NamesOf(k.connections) /\ k.enabled = (k.row # 0)
  <2> DEFINE on == k.row # 0
             ns == NamesOf(k.connections)
  <2>1. k = Full(k.connections, k.row, ns, k.row, k.form, on, k.result)
    BY <1>1 DEF At
  <2> HIDE DEF on, ns
  <2>2. k.selected = k.row /\ k.items = ns /\ k.enabled = on
    BY <2>1, FullFields
  <2> QED
    BY <2>2 DEF on, ns
<1>3. Len(k.connections) \in Nat /\ DOMAIN k.connections = 1..Len(k.connections)
  BY LenProperties DEF Sound
<1> QED
  BY <1>2, <1>3 DEF Sound

\* None is current: the fields are empty and the form is off.
LEMMA AtNone ==
    ASSUME NEW cs, NEW result
    PROVE  Off(cs, 0, NamesOf(cs), 0, NoForm, result) = At(cs, 0, NoForm, result)
<1>1. (0 # 0) = FALSE
  OBVIOUS
<1> QED
  BY <1>1 DEF At, Full, On, Off

\* One is.
LEMMA AtSome ==
    ASSUME NEW cs, NEW row, row # 0, NEW form, NEW result
    PROVE  On(cs, row, NamesOf(cs), row, form, result) = At(cs, row, form, result)
<1>1. (row # 0) = TRUE
  OBVIOUS
<1> QED
  BY <1>1 DEF At, Full, On, Off

\* The names of a list whose form is saved are those of the list and the form.
LEMMA HeldNamesFacts ==
    ASSUME NEW k, Sound(k)
    PROVE  HeldNames(k.connections, NamesOf(k.connections), k.row, k.form) = NamesOf(SavedOf(k))
<1> DEFINE cs == k.connections
           i == k.row
           f == Stored(k.form)
<1>1. cs \in Seq(Conn) /\ (i # 0 => i \in DOMAIN cs /\ f \in Real) /\ 0 \notin DOMAIN cs
  BY SoundFields, FormFacts DEF Sound
<1>2. SavedOf(k) = IF i \in DOMAIN cs THEN Put(cs, i, f) ELSE cs
  BY DEF SavedOf, Held
<1>3. HeldNames(cs, NamesOf(cs), i, k.form) =
         IF i \in DOMAIN cs THEN NewNames(NamesOf(cs), i, k.form) ELSE NamesOf(cs)
  BY DEF HeldNames
<1>4. NewNames(NamesOf(cs), i, k.form) =
         IF i \in DOMAIN NamesOf(cs) THEN [NamesOf(cs) EXCEPT ![i] = f.name] ELSE NamesOf(cs)
  BY DEF NewNames
<1> HIDE DEF cs, i, f
<1>5. DOMAIN NamesOf(cs) = DOMAIN cs
  BY <1>1, NamesFacts
<1>6. i \in DOMAIN cs => NamesOf(Put(cs, i, f)) = [NamesOf(cs) EXCEPT ![i] = f.name]
  BY <1>1, PutNames
<1> QED
  BY <1>1, <1>2, <1>3, <1>4, <1>5, <1>6 DEF cs, i

\* Saving the form changes the list only, and its names with it.
LEMMA SaveAt ==
    ASSUME NEW k, Sound(k)
    PROVE  SaveCurrentForm(k) = At(SavedOf(k), k.row, k.form, k.result)
<1> DEFINE cs == k.connections
           ns == NamesOf(cs)
           on == k.row # 0
           h == SavedOf(k)
<1>1. k = Full(cs, k.row, ns, k.row, k.form, on, k.result)
  BY DEF Sound, At
<1>2. h = Held(cs, k.row, k.form) /\ HeldNames(cs, ns, k.row, k.form) = NamesOf(h)
  BY HeldNamesFacts DEF SavedOf
<1>3. At(h, k.row, k.form, k.result) = Full(h, k.row, NamesOf(h), k.row, k.form, on, k.result)
  BY DEF At
<1> HIDE DEF cs, ns, on, h
<1>4. SaveCurrentForm(Full(cs, k.row, ns, k.row, k.form, on, k.result)) =
         Full(h, k.row, NamesOf(h), k.row, k.form, on, k.result)
  <2>1. CASE k.row \in DOMAIN cs
    <3>1. h = Put(cs, k.row, Stored(k.form)) /\ NewNames(ns, k.row, k.form) = NamesOf(h)
      BY <1>2, <2>1 DEF Held, HeldNames
    <3> QED
      BY <2>1, <3>1, SaveIs
  <2>2. CASE k.row \notin DOMAIN cs
    <3>1. h = cs /\ ns = NamesOf(h)
      BY <1>2, <2>2 DEF Held, HeldNames
    <3> QED
      BY <2>2, <3>1, SaveIs
  <2> QED
    BY <2>1, <2>2
<1> QED
  BY <1>1, <1>3, <1>4 DEF h

\* A choice saves the form shown and shows that of the row.
LEMMA ChooseAt ==
    ASSUME NEW k, Sound(k), NEW row \in DOMAIN k.connections, row # k.row
    PROVE  SetCurrentRow(k, row) = At(SavedOf(k), row, Shown(SavedOf(k)[row].form), k.result)
<1> DEFINE cs == k.connections
           ns == NamesOf(cs)
           on == k.row # 0
           h == SavedOf(k)
<1>1. k = Full(cs, k.row, ns, k.row, k.form, on, k.result)
  BY DEF Sound, At
<1>2. h = Held(cs, k.row, k.form) /\ HeldNames(cs, ns, k.row, k.form) = NamesOf(h)
  BY HeldNamesFacts DEF SavedOf
<1>3. row \in DOMAIN h /\ row # 0
  BY SoundFields, SavedFacts
<1>4. On(h, row, NamesOf(h), row, Shown(h[row].form), k.result) =
         At(h, row, Shown(h[row].form), k.result)
  BY <1>3, AtSome
<1> HIDE DEF cs, ns, on, h
<1>5. SetCurrentRow(Full(cs, k.row, ns, k.row, k.form, on, k.result), row) =
         SelectConnection(Full(cs, k.row, ns, row, k.form, on, k.result), row)
  BY RowIs
<1>6. SelectConnection(Full(cs, k.row, ns, row, k.form, on, k.result), row) =
         LoadSelectedConnection(Full(h, row, NamesOf(h), row, k.form, on, k.result))
  BY <1>2, SelectIs
<1>7. LoadSelectedConnection(Full(h, row, NamesOf(h), row, k.form, on, k.result)) =
         On(h, row, NamesOf(h), row, Shown(h[row].form), k.result)
  BY <1>3, LoadIs
<1> QED
  BY <1>1, <1>4, <1>5, <1>6, <1>7 DEF h

\* A dialog with no row current stays so when its fields are loaded.
LEMMA OffStaysOff ==
    ASSUME NEW cs, 0 \notin DOMAIN cs, NEW form, NEW on, NEW result,
           NEW k, k = Full(cs, 0, NamesOf(cs), 0, form, on, result)
    PROVE  LoadSelectedConnection(SetCurrentRow(k, k.selected)) = At(cs, 0, NoForm, result)
<1>1. k.selected = 0
  BY FullFields
<1>2. SetCurrentRow(k, 0) = k
  BY SameRow
<1>3. LoadSelectedConnection(k) = Off(cs, 0, NamesOf(cs), 0, NoForm, result)
  BY LoadIs
<1> QED
  BY <1>1, <1>2, <1>3, AtNone

\* A connection added while none is current is chosen and shown.
LEMMA AddToNone ==
    ASSUME NEW k, Sound(k), NEW id \in Ids, k.row = 0
    PROVE  AddConnection(k, id) =
             At(Append(k.connections, Blank(id)), Len(k.connections) + 1,
                Shown(Blank(id).form), k.result)
<1> DEFINE cs == k.connections
           ns == NamesOf(cs)
           on == k.row # 0
           a == Append(cs, Blank(id))
           n == Len(cs) + 1
<1>1. k = Full(cs, 0, ns, 0, k.form, on, k.result)
  BY DEF Sound, At
<1>2. SaveCurrentForm(k) = k
  <2>1. SavedOf(k) = cs
    BY SoundFields DEF SavedOf, Held
  <2> QED
    BY <2>1, SaveAt DEF Sound
<1>3. n # 0 /\ n \in DOMAIN a /\ a[n] = Blank(id)
  BY SoundFields, BlankIsOne DEF Sound
<1>4. On(a, n, NamesOf(a), n, Shown(Blank(id).form), k.result) =
         At(a, n, Shown(Blank(id).form), k.result)
  BY <1>3, AtSome
<1> HIDE DEF ns, on, a, n
<1>5. WithSelected(k, a, n) = Full(a, n, ns, 0, k.form, on, k.result)
  BY <1>1, FullTwo
<1>6. RebuildConnectionList(Full(a, n, ns, 0, k.form, on, k.result)) =
         Full(a, n, NamesOf(a), 0, k.form, on, k.result)
  BY RebuildQuietly
<1> DEFINE r == Full(a, n, NamesOf(a), 0, k.form, on, k.result)
<1>7. r.selected = n
  BY FullFields
<1>8. SetCurrentRow(r, n) = Full(a, n, NamesOf(a), n, k.form, on, k.result)
  <2>1. SetCurrentRow(r, n) = SelectConnection(Full(a, n, NamesOf(a), n, k.form, on, k.result), n)
    BY <1>3, RowIs
  <2>2. Full(a, n, NamesOf(a), n, k.form, on, k.result).selected = n
    BY FullFields
  <2> QED
    BY <2>1, <2>2 DEF SelectConnection
<1>9. LoadSelectedConnection(Full(a, n, NamesOf(a), n, k.form, on, k.result)) =
         On(a, n, NamesOf(a), n, Shown(Blank(id).form), k.result)
  BY <1>3, LoadIs
<1>10. AddConnection(k, id) = LET rebuilt == RebuildConnectionList(WithSelected(k, a, n))
                              IN  LoadSelectedConnection(SetCurrentRow(rebuilt, rebuilt.selected))
  BY <1>2 DEF AddConnection, WithSelected, a, n
<1> HIDE DEF r
<1> QED
  BY <1>4, <1>5, <1>6, <1>7, <1>8, <1>9, <1>10 DEF r, a, n

\* The list of a connection added with a row current: it has the form shown.
AddedOver(k, id) ==
    Put(Append(SavedOf(k), Blank(id)), Len(k.connections) + 1, Stored(k.form))

LEMMA AddToSome ==
    ASSUME NEW k, Sound(k), NEW id \in Ids, k.row # 0
    PROVE  AddConnection(k, id) = At(AddedOver(k, id), 0, NoForm, k.result)
<1> DEFINE h == SavedOf(k)
           on == k.row # 0
           a == Append(h, Blank(id))
           n == Len(k.connections) + 1
           p == AddedOver(k, id)
<1>1. SaveCurrentForm(k) = Full(h, k.row, NamesOf(h), k.row, k.form, on, k.result)
  BY SaveAt DEF At
<1>2. /\ n # 0 /\ n \in DOMAIN a /\ a \in Seq(Conn)
      /\ Stored(k.form) \in Real
  BY SavedFacts, SoundFields, BlankIsOne, FormFacts
<1>3. Held(a, n, k.form) = p
  BY <1>2 DEF Held, AddedOver
<1>4. 0 \notin DOMAIN p
  <2>1. DOMAIN p = DOMAIN a /\ DOMAIN a = 1..Len(a) /\ Len(a) \in Nat
    <3> HIDE DEF a, n
    <3>1. DOMAIN Held(a, n, k.form) = DOMAIN a
      BY <1>2, PutFacts DEF Held
    <3> QED
      BY <1>2, <1>3, <3>1, LenProperties
  <2> QED
    BY <2>1
<1> HIDE DEF h, on, a, n, p
<1>5. WithSelected(Full(h, k.row, NamesOf(h), k.row, k.form, on, k.result), a, n) =
         Full(a, n, NamesOf(h), k.row, k.form, on, k.result)
  BY FullTwo
<1>6. RebuildConnectionList(Full(a, n, NamesOf(h), k.row, k.form, on, k.result)) =
         Off(p, 0, NamesOf(p), 0, NoForm, k.result)
  BY <1>2, <1>3, <1>4, RebuildLoudly
<1> DEFINE s == Full(h, k.row, NamesOf(h), k.row, k.form, on, k.result)
           r == Off(p, 0, NamesOf(p), 0, NoForm, k.result)
<1>7. s.connections = h
  BY FullFields
<1>8. LoadSelectedConnection(SetCurrentRow(r, r.selected)) = At(p, 0, NoForm, k.result)
  <2> DEFINE no == FALSE
  <2>1. r = Full(p, 0, NamesOf(p), 0, NoForm, no, k.result)
    BY DEF Off
  <2> HIDE DEF no, r
  <2> QED
    BY <1>4, <2>1, OffStaysOff
<1> HIDE DEF s, r
<1>9. AddConnection(k, id) = LET rebuilt == RebuildConnectionList(WithSelected(s, a, n))
                             IN  LoadSelectedConnection(SetCurrentRow(rebuilt, rebuilt.selected))
  BY <1>1, <1>7 DEF AddConnection, WithSelected, a, n, s
<1> QED
  BY <1>5, <1>6, <1>8, <1>9 DEF r, s, p

\* A list without one of its members.
LEMMA RemoveFacts ==
    ASSUME NEW cs \in Seq(Conn), NEW i \in DOMAIN cs
    PROVE  LET left == RemoveAt(cs, i)
           IN  /\ left \in Seq(Conn) /\ Len(left) = Len(cs) - 1
               /\ DOMAIN left = 1..Len(left)
               /\ \A j \in 1..Len(left) : left[j] = IF j < i THEN cs[j] ELSE cs[j + 1]
<1> DEFINE front == SubSeq(cs, 1, i - 1)
           back == SubSeq(cs, i + 1, Len(cs))
           left == RemoveAt(cs, i)
<1>1. /\ Len(cs) \in Nat /\ DOMAIN cs = 1..Len(cs) /\ i \in 1..Len(cs)
      /\ \A j \in 1..Len(cs) : cs[j] \in Conn
  BY LenProperties, ElementOfSeq
<1>2. /\ front \in Seq(Conn) /\ Len(front) = i - 1
      /\ \A j \in 1..(i - 1) : front[j] = cs[j]
  <2>1. \A j \in 1..(i - 1) : cs[j] \in Conn
    BY <1>1
  <2>2. /\ front \in Seq(Conn) /\ Len(front) = IF 1 <= i - 1 THEN (i - 1) - 1 + 1 ELSE 0
        /\ \A j \in 1..((i - 1) - 1 + 1) : front[j] = cs[1 + j - 1]
    BY <1>1, <2>1, SubSeqProperties
  <2> HIDE DEF front
  <2> QED
    BY <1>1, <2>2
<1>3. /\ back \in Seq(Conn) /\ Len(back) = Len(cs) - i
      /\ \A j \in 1..(Len(cs) - i) : back[j] = cs[i + j]
  <2>1. \A j \in (i + 1)..Len(cs) : cs[j] \in Conn
    BY <1>1
  <2>2. /\ back \in Seq(Conn) /\ Len(back) = IF i + 1 <= Len(cs) THEN Len(cs) - (i + 1) + 1 ELSE 0
        /\ \A j \in 1..(Len(cs) - (i + 1) + 1) : back[j] = cs[(i + 1) + j - 1]
    BY <1>1, <2>1, SubSeqProperties
  <2> HIDE DEF back
  <2>3. \A j \in 1..(Len(cs) - i) : back[j] = cs[i + j]
    <3>1. TAKE j \in 1..(Len(cs) - i)
    <3>2. j \in 1..(Len(cs) - (i + 1) + 1) /\ (i + 1) + j - 1 = i + j
      BY <1>1
    <3>3. back[j] = cs[(i + 1) + j - 1]
      BY <2>2, <3>2
    <3> QED
      BY <3>2, <3>3
  <2>4. Len(back) = Len(cs) - i
    BY <1>1, <2>2
  <2> QED
    BY <2>2, <2>3, <2>4
<1>4. left = front \o back
  BY DEF RemoveAt
<1> HIDE DEF front, back, left
<1>5. /\ left \in Seq(Conn) /\ Len(left) = Len(front) + Len(back)
      /\ \A j \in 1..(Len(front) + Len(back)) :
            left[j] = IF j <= Len(front) THEN front[j] ELSE back[j - Len(front)]
  BY <1>2, <1>3, <1>4, ConcatProperties
<1>6. Len(left) = Len(cs) - 1 /\ DOMAIN left = 1..Len(left)
  BY <1>1, <1>2, <1>3, <1>5, LenProperties
<1>7. ASSUME NEW j \in 1..Len(left) PROVE left[j] = IF j < i THEN cs[j] ELSE cs[j + 1]
  <2>1. j \in 1..(Len(front) + Len(back)) /\ Len(front) = i - 1 /\ i \in Nat /\ j \in Nat
    BY <1>1, <1>2, <1>3, <1>5
  <2>2. left[j] = IF j <= Len(front) THEN front[j] ELSE back[j - Len(front)]
    BY <1>5, <2>1
  <2>3. CASE j < i
    BY <1>2, <2>1, <2>2, <2>3
  <2>4. CASE ~(j < i)
    <3>1. j - Len(front) \in 1..(Len(cs) - i) /\ i + (j - Len(front)) = j + 1
      BY <1>1, <1>3, <2>1, <2>4
    <3>2. back[j - Len(front)] = cs[i + (j - Len(front))]
      BY <1>3, <3>1
    <3>3. ~(j <= Len(front))
      BY <2>1, <2>4
    <3>4. left[j] = cs[j + 1]
      BY <2>2, <3>1, <3>2, <3>3, Zenon
    <3> QED
      BY <2>4, <3>4, Zenon
  <2> QED
    BY <2>3, <2>4
<1> QED
  BY <1>5, <1>6, <1>7 DEF left

\* The list that is left, with the form shown saved into the heir.
LeftOf(k) == RemoveAt(k.connections, k.row)
HeirOf(k) == IF k.row > Len(LeftOf(k)) THEN Len(LeftOf(k)) ELSE k.row

LEMMA RemoveIs ==
    ASSUME NEW k, Sound(k), k.row # 0
    PROVE  RemoveSelectedConnection(k) =
             At(Held(LeftOf(k), HeirOf(k), k.form), 0, NoForm, k.result)
<1> DEFINE cs == k.connections
           ns == NamesOf(cs)
           on == k.row # 0
           left == LeftOf(k)
           heir == HeirOf(k)
           p == Held(left, heir, k.form)
<1>1. k = Full(cs, k.row, ns, k.row, k.form, on, k.result) /\ k.selected = k.row
  BY SoundFields DEF Sound, At
<1>2. /\ cs \in Seq(Conn) /\ k.row \in 1..Len(cs) /\ Len(cs) \in Nat
      /\ left \in Seq(Conn) /\ Len(left) = Len(cs) - 1 /\ DOMAIN left = 1..Len(left)
  BY SoundFields, RemoveFacts DEF Sound, LeftOf
<1>3. heir \in 0..Len(left) /\ (heir = 0 <=> left = <<>>)
  <2>1. heir = IF k.row > Len(left) THEN Len(left) ELSE k.row
    BY DEF HeirOf
  <2>2. Len(left) = 0 <=> left = <<>>
    BY <1>2, EmptySeq
  <2>3. heir \in 0..Len(left) /\ (heir = 0 <=> Len(left) = 0)
    <3> DEFINE n == Len(cs)
               l == Len(left)
               row == k.row
    <3>1. n \in Nat /\ l = n - 1 /\ row \in 1..n /\ heir = IF row > l THEN l ELSE row
      BY <1>2, <2>1
    <3> HIDE DEF n, l, row, heir
    <3>2. heir \in 0..l /\ (heir = 0 <=> l = 0)
      BY <3>1
    <3> QED
      BY <3>2 DEF l
  <2> QED
    BY <2>2, <2>3, Zenon
<1>4. Stored(k.form) \in Real
  BY <1>2, SoundFields, FormFacts
<1>5. 0 \notin DOMAIN p
  <2>1. p = IF heir \in DOMAIN left THEN Put(left, heir, Stored(k.form)) ELSE left
    BY DEF Held
  <2> HIDE DEF left, heir, p
  <2>2. ASSUME heir \in DOMAIN left PROVE DOMAIN p = DOMAIN left
    <3> DEFINE f == Stored(k.form)
    <3>1. p = Put(left, heir, f)
      BY <2>1, <2>2
    <3>2. left \in Seq(Conn) /\ f \in Real
      BY <1>2, <1>4
    <3> HIDE DEF f
    <3>3. DOMAIN Put(left, heir, f) = DOMAIN left
      BY <2>2, <3>2, PutFacts, ZenonT(60)
    <3> QED
      BY <3>1, <3>3
  <2>3. ASSUME heir \notin DOMAIN left PROVE DOMAIN p = DOMAIN left
    BY <2>1, <2>3
  <2> QED
    BY <1>2, <2>2, <2>3
<1>6. RemoveSelectedConnection(k) =
         LET rebuilt == RebuildConnectionList(WithSelected(k, left, heir))
         IN  LoadSelectedConnection(SetCurrentRow(rebuilt, rebuilt.selected))
  <2>1. RemoveAt(k.connections, k.selected) = left
    BY <1>1 DEF LeftOf
  <2>2. heir = IF k.selected > Len(left) THEN Len(left) ELSE k.selected
    BY <1>1 DEF HeirOf
  <2> HIDE DEF left, heir
  <2> QED
    BY <2>1, <2>2 DEF RemoveSelectedConnection, WithSelected
<1> HIDE DEF cs, ns, on, left, heir, p
<1>7. WithSelected(k, left, heir) = Full(left, heir, ns, k.row, k.form, on, k.result)
  BY <1>1, FullTwo
<1>8. CASE left = <<>>
  <2>1. heir = 0 /\ p = left
    BY <1>2, <1>3, <1>8 DEF Held, p
  <2> DEFINE m == Full(left, 0, ns, 0, k.form, on, k.result)
             r == Full(left, 0, NamesOf(left), 0, k.form, on, k.result)
  <2>2. m.selected = 0
    BY FullFields
  <2>3. SetCurrentRow(Full(left, 0, ns, k.row, k.form, on, k.result), 0) = SelectConnection(m, 0)
    BY <1>2, RowIs
  <2>4. SelectConnection(m, 0) = m
    <3> HIDE DEF m
    <3> QED
      BY <2>2 DEF SelectConnection
  <2>5. m.connections = left
    BY FullFields
  <2>6. [m EXCEPT !.items = NamesOf(left)] = r
    BY DEF Full
  <2> HIDE DEF m, r
  <2>7. RebuildConnectionList(Full(left, 0, ns, k.row, k.form, on, k.result)) = r
    BY <2>3, <2>4, <2>5, <2>6 DEF RebuildConnectionList, NamesOf
  <2>8. LoadSelectedConnection(SetCurrentRow(r, r.selected)) = At(left, 0, NoForm, k.result)
    BY <1>5, <2>1, OffStaysOff DEF r
  <2> QED
    BY <1>6, <1>7, <2>1, <2>7, <2>8 DEF p, left, heir
<1>9. CASE left # <<>>
  <2>1. Held(left, heir, k.form) = p
    BY DEF p
  <2>2. RebuildConnectionList(Full(left, heir, ns, k.row, k.form, on, k.result)) =
           Off(p, 0, NamesOf(p), 0, NoForm, k.result)
    BY <1>2, <1>3, <1>5, <1>9, <2>1, RebuildLoudly
  <2> DEFINE r == Off(p, 0, NamesOf(p), 0, NoForm, k.result)
             no == FALSE
  <2>3. r = Full(p, 0, NamesOf(p), 0, NoForm, no, k.result)
    BY DEF Off
  <2> HIDE DEF no, r
  <2>4. LoadSelectedConnection(SetCurrentRow(r, r.selected)) = At(p, 0, NoForm, k.result)
    BY <1>5, <2>3, OffStaysOff
  <2> QED
    BY <1>6, <1>7, <2>2, <2>4 DEF r, p, left, heir
<1> QED
  BY <1>8, <1>9

-----------------------------------------------------------------------------
(* The dialog *)

\* A dialog written out is sound if its list is.
LEMMA AtSound ==
    ASSUME NEW cs \in Seq(Conn), NEW row \in 0..Len(cs), NEW form, NEW result \in Results,
           IF row = 0 THEN form = NoForm ELSE form \in Real, Distinct(cs),
           NEW k, k = At(cs, row, form, result)
    PROVE  /\ Sound(k)
           /\ k.connections = cs /\ k.row = row /\ k.form = form /\ k.result = result
<1> DEFINE on == row # 0
           ns == NamesOf(cs)
<1>1. k = Full(cs, row, ns, row, form, on, result)
  BY DEF At
<1> HIDE DEF on, ns
<1>2. k.connections = cs /\ k.row = row /\ k.form = form /\ k.result = result
  BY <1>1, FullFields
<1> QED
  BY <1>2 DEF Sound

\* Saving and showing keep what is remembered.
LEMMA SaveRemembers ==
    ASSUME NEW k, Sound(k), k.result = "open", NEW m, NEW sp, Remembered(k, m, sp),
           NEW row \in 0..Len(k.connections),
           NEW form, IF row = 0 THEN form = NoForm
                     ELSE form \in Real /\ Settled(form) = Settled(SavedOf(k)[row].form),
           NEW result \in Results, NEW l, l = At(SavedOf(k), row, form, result)
    PROVE  Sound(l) /\ Remembered(l, m, sp)
<1> DEFINE h == SavedOf(k)
           cs == k.connections
<1>1. /\ h \in Seq(Conn) /\ Len(h) = Len(cs) /\ DOMAIN h = DOMAIN cs /\ Distinct(h)
      /\ \A i \in DOMAIN cs : h[i].id = cs[i].id
      /\ \A i \in DOMAIN cs : h[i].form = IF i = k.row THEN Stored(k.form) ELSE cs[i].form
  BY SavedFacts
<1>2. k.row # 0 => Settled(Stored(k.form)) = Settled(k.form)
  BY SoundFields, FormFacts
<1>3. Len(cs) \in Nat /\ DOMAIN cs = 1..Len(cs)
  BY SoundFields
<1> HIDE DEF h, cs
<1>4. /\ Sound(l)
      /\ l.connections = h /\ l.row = row /\ l.form = form /\ l.result = result
  <2>1. row \in 0..Len(h) /\ l = At(h, row, form, result)
    BY <1>1 DEF h, cs
  <2>2. IF row = 0 THEN form = NoForm ELSE form \in Real
    OBVIOUS
  <2> QED
    BY <1>1, <2>1, <2>2, AtSound
<1>5. ASSUME NEW i \in DOMAIN cs, cs[i].id \notin sp
      PROVE  Settled(h[i].form) = Settled(m[cs[i].id])
  <2>1. Settled(Now(k, i)) = Settled(m[cs[i].id])
    BY <1>5 DEF Remembered, cs
  <2> QED
    BY <1>1, <1>2, <1>3, <1>5, <2>1 DEF Now, cs
<1>6. ASSUME NEW i \in DOMAIN h, h[i].id \notin sp
      PROVE  Settled(Now(l, i)) = Settled(m[h[i].id])
  <2>1. Settled(h[i].form) = Settled(m[h[i].id])
    BY <1>1, <1>5, <1>6
  <2>2. CASE i = row
    BY <1>1, <1>3, <1>4, <2>1, <2>2 DEF Now, h
  <2>3. CASE i # row
    BY <1>4, <2>1, <2>3 DEF Now
  <2> QED
    BY <2>2, <2>3
<1> QED
  BY <1>1, <1>4, <1>6 DEF Remembered, cs

\* A click on a row.
LEMMA ChooseKeeps ==
    ASSUME DialogInv, NEW row \in DOMAIN d.items, ChooseRow(row)
    PROVE  DialogInv'
<1>1. /\ Sound(d) /\ Remembered(d, meant, spoiled) /\ d.result = "open"
      /\ row # d.row /\ d' = SetCurrentRow(d, row) /\ meant' = meant /\ spoiled' = spoiled
  BY DEF DialogInv, ChooseRow, Usable
<1>2. row \in DOMAIN d.connections /\ row \in 1..Len(d.connections)
  <2>1. d.items = NamesOf(d.connections) /\ DOMAIN d.connections = 1..Len(d.connections)
    BY <1>1, SoundFields
  <2>2. DOMAIN NamesOf(d.connections) = DOMAIN d.connections
    BY DEF NamesOf
  <2> QED
    BY <2>1, <2>2
<1> DEFINE f == SavedOf(d)[row].form
<1>3. d' = At(SavedOf(d), row, Shown(f), d.result)
  BY <1>1, <1>2, ChooseAt
<1>4. f \in Real
  <2> DEFINE h == SavedOf(d)
  <2>1. h \in Seq(Conn) /\ row \in 1..Len(h)
    BY <1>1, <1>2, SavedFacts
  <2> HIDE DEF h
  <2>2. h[row] \in Conn
    BY <2>1, ElementOfSeq
  <2> QED
    BY <2>2 DEF h, Conn
<1>5. Shown(f) \in Real /\ Settled(Shown(f)) = Settled(f)
  BY <1>4, FormFacts
<1>6. Sound(d') /\ Remembered(d', meant, spoiled)
  <2>1. row \in 0..Len(d.connections) /\ row # 0 /\ d.result \in Results
    BY <1>1, <1>2, SoundFields DEF Sound
  <2> HIDE DEF f
  <2> QED
    BY <1>1, <1>3, <1>5, <2>1, SaveRemembers DEF f
<1> QED
  BY <1>1, <1>6 DEF DialogInv

\* What is typed is meant for the connection whose row is current.
LEMMA TypeKeeps ==
    ASSUME DialogInv, NEW form \in Typed, Type(form)
    PROVE  DialogInv'
<1> DEFINE cs == d.connections
           row == d.row
           x == cs[row].id
           ns == NamesOf(cs)
           on == row # 0
<1>1. /\ Sound(d) /\ Remembered(d, meant, spoiled) /\ d.result = "open" /\ d.enabled
      /\ d' = [d EXCEPT !.form = form]
      /\ meant' = [meant EXCEPT ![d.connections[d.selected].id] = form]
      /\ spoiled' = spoiled \ {d.connections[d.selected].id}
  BY DEF DialogInv, Type, Usable
<1>2. /\ row # 0 /\ row \in DOMAIN cs /\ row \in 1..Len(cs) /\ d.selected = row
      /\ cs \in Seq(Conn) /\ Distinct(cs) /\ DOMAIN cs = 1..Len(cs)
  BY <1>1, SoundFields DEF Sound
<1>3. form \in Real /\ form \in Forms
  BY TypedAssumption DEF Real, Forms
<1>4. d' = At(cs, row, form, "open")
  <2>1. d = Full(cs, row, ns, row, d.form, on, d.result)
    BY <1>1 DEF Sound, At
  <2>2. At(cs, row, form, "open") = Full(cs, row, ns, row, form, on, d.result)
    BY <1>1 DEF At
  <2> HIDE DEF cs, row, ns, on
  <2>3. [Full(cs, row, ns, row, d.form, on, d.result) EXCEPT !.form = form] =
           Full(cs, row, ns, row, form, on, d.result)
    BY DEF Full
  <2>4. [d EXCEPT !.form = form] = Full(cs, row, ns, row, form, on, d.result)
    BY <2>1, <2>3
  <2> QED
    BY <1>1, <2>2, <2>4
<1>5. meant' = [meant EXCEPT ![x] = form] /\ spoiled' = spoiled \ {x}
  BY <1>1, <1>2
<1>6. /\ DOMAIN meant \subseteq Ids /\ \A id \in DOMAIN meant : meant[id] \in Forms
      /\ spoiled \subseteq DOMAIN meant
      /\ \A i \in DOMAIN cs : cs[i].id \in DOMAIN meant
      /\ \A i \in DOMAIN cs : cs[i].id \notin spoiled => Settled(Now(d, i)) = Settled(meant[cs[i].id])
  BY <1>1 DEF Remembered
<1> HIDE DEF cs
<1>7. /\ Sound(d')
      /\ d'.connections = cs /\ d'.row = row /\ d'.form = form /\ d'.result = "open"
  <2>1. row \in 0..Len(cs) /\ "open" \in Results
    BY <1>2 DEF Results
  <2> HIDE DEF row
  <2> QED
    BY <1>2, <1>3, <1>4, <2>1, AtSound
<1>8. ASSUME NEW i \in DOMAIN cs, cs[i].id \notin spoiled'
      PROVE  Settled(Now(d', i)) = Settled(meant'[cs[i].id])
  <2>1. CASE i = row
    BY <1>2, <1>5, <1>6, <1>7, <2>1 DEF Now
  <2>2. CASE i # row
    <3>1. cs[i].id # x
      BY <1>2, <2>2 DEF Distinct
    <3>2. cs[i].id \notin spoiled /\ meant'[cs[i].id] = meant[cs[i].id]
      BY <1>5, <1>6, <1>8, <3>1
    <3>3. Now(d', i) = cs[i].form /\ Now(d, i) = cs[i].form
      BY <1>7, <2>2 DEF Now, cs
    <3> QED
      BY <1>6, <3>2, <3>3
  <2> QED
    BY <2>1, <2>2
<1>9. /\ DOMAIN meant' = DOMAIN meant /\ \A id \in DOMAIN meant' : meant'[id] \in Forms
      /\ spoiled' \subseteq DOMAIN meant'
  BY <1>3, <1>5, <1>6
<1> QED
  BY <1>6, <1>7, <1>8, <1>9 DEF DialogInv, Remembered

\* A connection is added: to a list without a current row as it is, to another
\* with the form of the one that was current.
LEMMA AddKeeps ==
    ASSUME DialogInv, NEW id \in Ids, ClickAdd(id)
    PROVE  DialogInv'
<1> DEFINE cs == d.connections
           h == SavedOf(d)
           n == Len(cs) + 1
           b == Blank(id)
<1>1. /\ Sound(d) /\ Remembered(d, meant, spoiled) /\ d.result = "open" /\ id \notin DOMAIN meant
      /\ d' = AddConnection(d, id)
      /\ meant' = [x \in DOMAIN meant \cup {id} |-> IF x = id THEN Blank(id).form ELSE meant[x]]
      /\ spoiled' = IF d.row = 0 THEN spoiled ELSE spoiled \cup {id}
  BY DEF DialogInv, ClickAdd, Usable
<1>2. /\ cs \in Seq(Conn) /\ Distinct(cs) /\ DOMAIN cs = 1..Len(cs) /\ Len(cs) \in Nat
      /\ d.row # 0 => d.row \in DOMAIN cs /\ d.form \in Real
  BY <1>1, SoundFields DEF Sound
<1>3. /\ h \in Seq(Conn) /\ Len(h) = Len(cs) /\ DOMAIN h = DOMAIN cs /\ Distinct(h)
      /\ \A i \in DOMAIN cs : h[i].id = cs[i].id
      /\ \A i \in DOMAIN cs : h[i].form = IF i = d.row THEN Stored(d.form) ELSE cs[i].form
  BY <1>1, SavedFacts
<1>4. b \in Conn /\ b.id = id /\ b.form \in Real /\ b.form \in Forms
  BY BlankIsOne DEF Conn, Real, Forms
<1>5. /\ DOMAIN meant \subseteq Ids /\ \A x \in DOMAIN meant : meant[x] \in Forms
      /\ spoiled \subseteq DOMAIN meant
      /\ \A i \in DOMAIN cs : cs[i].id \in DOMAIN meant
      /\ \A i \in DOMAIN cs : cs[i].id \notin spoiled => Settled(Now(d, i)) = Settled(meant[cs[i].id])
  BY <1>1 DEF Remembered
<1>6. /\ DOMAIN meant' = DOMAIN meant \cup {id} /\ meant'[id] = b.form
      /\ \A x \in DOMAIN meant : meant'[x] = meant[x]
      /\ DOMAIN meant' \subseteq Ids /\ \A x \in DOMAIN meant' : meant'[x] \in Forms
      /\ spoiled' \subseteq DOMAIN meant' /\ spoiled \subseteq spoiled'
  BY <1>1, <1>4, <1>5
<1>7. ASSUME NEW i \in DOMAIN cs, cs[i].id \notin spoiled
      PROVE  Settled(h[i].form) = Settled(meant'[cs[i].id])
  <2>1. d.row # 0 => Settled(Stored(d.form)) = Settled(d.form)
    BY <1>2, FormFacts
  <2>2. Settled(Now(d, i)) = Settled(meant[cs[i].id])
    BY <1>5, <1>7
  <2> QED
    BY <1>1, <1>2, <1>3, <1>5, <1>6, <1>7, <2>1, <2>2 DEF Now, cs
<1> DEFINE a == Append(h, b)
<1>8. /\ a \in Seq(Conn) /\ Len(a) = n /\ DOMAIN a = 1..n /\ a[n] = b
      /\ \A i \in DOMAIN cs : a[i] = h[i]
  BY <1>2, <1>3, <1>4
<1> HIDE DEF cs, h, a, b
<1>9. Distinct(a)
  <2>1. \A i \in DOMAIN cs : a[i].id # id
    BY <1>1, <1>3, <1>5, <1>8
  <2> QED
    BY <1>2, <1>3, <1>4, <1>8, <2>1 DEF Distinct
<1>10. CASE d.row = 0
  <2>1. d' = At(Append(cs, b), n, Shown(b.form), "open") /\ h = cs
    BY <1>1, <1>2, <1>10, AddToNone DEF b, cs, h, SavedOf, Held
  <2>2. d' = At(a, n, Shown(b.form), "open")
    BY <2>1 DEF a
  <2>3. Shown(b.form) \in Real /\ Settled(Shown(b.form)) = Settled(b.form)
    BY <1>4, FormFacts
  <2>4. /\ Sound(d') /\ d'.connections = a /\ d'.row = n
        /\ d'.form = Shown(b.form) /\ d'.result = "open"
    <3>1. n \in 0..Len(a) /\ n # 0 /\ "open" \in Results
      BY <1>2, <1>8 DEF Results
    <3> HIDE DEF n
    <3> QED
      BY <1>8, <1>9, <2>2, <2>3, <3>1, AtSound
  <2>5. ASSUME NEW i \in DOMAIN a, a[i].id \notin spoiled'
        PROVE  Settled(Now(d', i)) = Settled(meant'[a[i].id])
    <3>1. CASE i = n
      BY <1>4, <1>6, <1>8, <2>3, <2>4, <3>1 DEF Now
    <3>2. CASE i # n
      <4>1. i \in DOMAIN cs /\ a[i] = h[i] /\ h[i].id = cs[i].id /\ cs[i].id \notin spoiled
        BY <1>2, <1>3, <1>6, <1>8, <2>5, <3>2
      <4>2. Now(d', i) = h[i].form
        BY <2>4, <3>2, <4>1 DEF Now
      <4> QED
        BY <1>7, <4>1, <4>2
    <3> QED
      BY <3>1, <3>2
  <2>6. \A i \in DOMAIN a : a[i].id \in DOMAIN meant'
    BY <1>2, <1>3, <1>4, <1>5, <1>6, <1>8
  <2> QED
    BY <1>6, <2>4, <2>5, <2>6 DEF DialogInv, Remembered
<1>11. CASE d.row # 0
  <2> DEFINE f == Stored(d.form)
             p == Put(a, n, f)
  <2>1. d' = At(p, 0, NoForm, "open")
    BY <1>1, <1>11, AddToSome DEF AddedOver, a, h, cs, b
  <2>2. n \in DOMAIN a /\ f \in Real
    BY <1>2, <1>8, <1>11, FormFacts
  <2> HIDE DEF f, n
  <2>3. /\ p \in Seq(Conn) /\ Len(p) = Len(a) /\ DOMAIN p = DOMAIN a
        /\ \A j \in DOMAIN a : p[j].id = a[j].id /\ (j # n => p[j].form = a[j].form)
    BY <1>8, <2>2, PutFacts, SMTT(30)
  <2> HIDE DEF p
  <2>4. Distinct(p)
    BY <1>9, <2>3, SameIds
  <2>5. Sound(d') /\ d'.connections = p /\ d'.row = 0 /\ d'.form = NoForm /\ d'.result = "open"
    <3>1. 0 \in 0..Len(p) /\ "open" \in Results
      BY <1>8, <2>3, LenProperties DEF Results
    <3> QED
      BY <2>1, <2>3, <2>4, <3>1, AtSound
  <2>6. ASSUME NEW i \in DOMAIN p, p[i].id \notin spoiled'
        PROVE  Settled(Now(d', i)) = Settled(meant'[p[i].id])
    <3>1. i # n
      BY <1>1, <1>4, <1>8, <1>11, <2>3, <2>6
    <3>2. i \in DOMAIN cs
      BY <1>2, <1>8, <2>3, <3>1 DEF n
    <3>3. Now(d', i) = h[i].form /\ p[i].id = cs[i].id /\ cs[i].id \notin spoiled
      <4>1. i # 0
        BY <1>2, <3>2
      <4> QED
        BY <1>3, <1>6, <1>8, <2>3, <2>5, <2>6, <3>1, <3>2, <4>1 DEF Now
    <3> QED
      BY <1>7, <3>2, <3>3
  <2>7. \A i \in DOMAIN p : p[i].id \in DOMAIN meant'
    <3>1. \A i \in DOMAIN a : i = n \/ i \in DOMAIN cs
      BY <1>2, <1>8 DEF n
    <3> QED
      BY <1>3, <1>4, <1>5, <1>6, <1>8, <2>3, <3>1
  <2> QED
    BY <1>6, <2>5, <2>6, <2>7 DEF DialogInv, Remembered
<1> QED
  BY <1>10, <1>11

\* A connection is removed, and the form it showed goes to its heir.
LEMMA RemoveKeeps ==
    ASSUME DialogInv, ClickRemove
    PROVE  DialogInv'
<1> DEFINE cs == d.connections
           left == LeftOf(d)
           heir == HeirOf(d)
           f == Stored(d.form)
           p == Held(left, heir, d.form)
<1>1. /\ Sound(d) /\ Remembered(d, meant, spoiled) /\ d.result = "open" /\ d.enabled
      /\ d' = RemoveSelectedConnection(d) /\ meant' = meant
      /\ d.selected = d.row
      /\ spoiled' = LET l == RemoveAt(d.connections, d.selected)
                        r == IF d.selected > Len(l) THEN Len(l) ELSE d.selected
                    IN  IF l = <<>> THEN spoiled ELSE spoiled \cup {l[r].id}
  BY SoundFields DEF DialogInv, ClickRemove, Usable
<1>2. /\ cs \in Seq(Conn) /\ Distinct(cs) /\ DOMAIN cs = 1..Len(cs) /\ Len(cs) \in Nat
      /\ d.row \in DOMAIN cs /\ d.row # 0 /\ f \in Real
  BY <1>1, SoundFields, FormFacts DEF Sound
<1>3. spoiled' = IF left = <<>> THEN spoiled ELSE spoiled \cup {left[heir].id}
  BY <1>1 DEF LeftOf, HeirOf
<1>4. d' = At(p, 0, NoForm, "open")
  BY <1>1, <1>2, RemoveIs
<1>5. /\ left \in Seq(Conn) /\ Len(left) = Len(cs) - 1 /\ DOMAIN left = 1..Len(left)
      /\ \A j \in 1..Len(left) : left[j] = IF j < d.row THEN cs[j] ELSE cs[j + 1]
  BY <1>2, RemoveFacts DEF LeftOf
<1>6. heir = IF d.row > Len(left) THEN Len(left) ELSE d.row
  BY DEF HeirOf
<1>7. p = IF heir \in DOMAIN left THEN Put(left, heir, f) ELSE left
  BY DEF Held
<1>8. /\ DOMAIN meant \subseteq Ids /\ \A x \in DOMAIN meant : meant[x] \in Forms
      /\ spoiled \subseteq DOMAIN meant
      /\ \A i \in DOMAIN cs : cs[i].id \in DOMAIN meant
      /\ \A i \in DOMAIN cs : cs[i].id \notin spoiled => Settled(Now(d, i)) = Settled(meant[cs[i].id])
  BY <1>1 DEF Remembered
<1> HIDE DEF cs, left, heir, f, p
<1>9. ASSUME NEW j \in DOMAIN left
      PROVE  \E i \in DOMAIN cs : i # d.row /\ left[j] = cs[i] /\ (i = IF j < d.row THEN j ELSE j + 1)
  BY <1>2, <1>5
<1>10. Distinct(left)
  <2> SUFFICES ASSUME NEW i \in DOMAIN left, NEW j \in DOMAIN left, left[i].id = left[j].id
               PROVE  i = j
    BY DEF Distinct
  <2>1. PICK x \in DOMAIN cs : left[i] = cs[x] /\ (x = IF i < d.row THEN i ELSE i + 1)
    BY <1>9
  <2>2. PICK y \in DOMAIN cs : left[j] = cs[y] /\ (y = IF j < d.row THEN j ELSE j + 1)
    BY <1>9
  <2>3. x = y
    BY <1>2, <2>1, <2>2 DEF Distinct
  <2> QED
    BY <1>2, <1>5, <2>1, <2>2, <2>3
<1>11. /\ p \in Seq(Conn) /\ Len(p) = Len(left) /\ DOMAIN p = DOMAIN left
       /\ \A j \in DOMAIN left : p[j].id = left[j].id /\ (j # heir => p[j].form = left[j].form)
  <2>1. CASE heir \in DOMAIN left
    <3> DEFINE q == Put(left, heir, f)
    <3>1. p = q
      BY <1>7, <2>1
    <3>2. /\ q \in Seq(Conn) /\ Len(q) = Len(left) /\ DOMAIN q = DOMAIN left
          /\ \A j \in DOMAIN left : q[j].id = left[j].id /\ (j # heir => q[j].form = left[j].form)
      <4>1. left \in Seq(Conn) /\ f \in Real
        BY <1>2, <1>5
      <4>2. /\ q \in Seq(Conn) /\ Len(q) = Len(left) /\ DOMAIN q = DOMAIN left
            /\ \A j \in DOMAIN left :
                  q[j].id = left[j].id /\ q[j].form = IF j = heir THEN f ELSE left[j].form
        BY <2>1, <4>1, PutFacts
      <4> HIDE DEF q
      <4> QED
        BY <4>2
    <3> HIDE DEF q
    <3> QED
      BY <3>1, <3>2
  <2>2. CASE heir \notin DOMAIN left
    BY <1>5, <1>7, <2>2
  <2> QED
    BY <2>1, <2>2
<1>12. Distinct(p)
  BY <1>10, <1>11, SameIds
<1>13. Sound(d') /\ d'.connections = p /\ d'.row = 0 /\ d'.form = NoForm /\ d'.result = "open"
  <2>1. 0 \in 0..Len(p) /\ "open" \in Results
    BY <1>11, LenProperties DEF Results
  <2> QED
    BY <1>4, <1>11, <1>12, <2>1, AtSound
<1>14. left # <<>> => heir \in DOMAIN left
  <2>1. left # <<>> => Len(left) # 0
    BY <1>5, EmptySeq
  <2> QED
    BY <1>2, <1>5, <1>6, <2>1
<1>15. ASSUME NEW j \in DOMAIN p, p[j].id \notin spoiled'
       PROVE  Settled(Now(d', j)) = Settled(meant'[p[j].id])
  <2>1. PICK i \in DOMAIN cs : i # d.row /\ left[j] = cs[i]
    BY <1>9, <1>11
  <2>2. left # <<>>
    BY <1>5, <1>11
  <2>3. j # heir /\ cs[i].id \notin spoiled
    BY <1>3, <1>11, <1>15, <2>1, <2>2
  <2>4. Now(d', j) = cs[i].form /\ Now(d, i) = cs[i].form /\ p[j].id = cs[i].id
    <3>1. j # 0
      BY <1>5, <1>11
    <3> QED
      BY <1>11, <1>13, <2>1, <2>3, <3>1 DEF Now, cs
  <2> QED
    BY <1>1, <1>8, <2>3, <2>4
<1>16. /\ spoiled' \subseteq DOMAIN meant'
       /\ \A j \in DOMAIN p : p[j].id \in DOMAIN meant'
  <2>1. \A j \in DOMAIN left : left[j].id \in DOMAIN meant
    BY <1>8, <1>9
  <2> QED
    BY <1>1, <1>3, <1>8, <1>11, <1>14, <2>1
<1> QED
  BY <1>1, <1>8, <1>13, <1>15, <1>16 DEF DialogInv, Remembered

\* A test, the end and the test dialog's own steps.
LEMMA RestKeeps ==
    ASSUME DialogInv, TestCurrentConnection \/ Accept \/ Reject \/ TestStep \/ UNCHANGED vars
    PROVE  DialogInv'
<1> DEFINE h == SavedOf(d)
           ns == NamesOf(d.connections)
           on == d.row # 0
<1>1. Sound(d) /\ Remembered(d, meant, spoiled)
  BY DEF DialogInv
<1>2. d.row # 0 => Settled(d.form) = Settled(h[d.row].form) /\ d.form \in Real
  <2>1. d.row # 0 => h[d.row].form = Stored(d.form) /\ d.form \in Real
    BY <1>1, SavedFacts, SoundFields
  <2> QED
    BY <2>1, FormFacts
<1>3. /\ d.row \in 0..Len(d.connections) /\ d.result \in Results
      /\ IF d.row = 0 THEN d.form = NoForm ELSE d.form \in Real
  BY <1>1 DEF Sound
<1>4. SaveCurrentForm(d) = At(h, d.row, d.form, d.result)
  BY <1>1, SaveAt
<1>5. CASE TestCurrentConnection
  <2>1. d' = At(h, d.row, d.form, d.result) /\ meant' = meant /\ spoiled' = spoiled
        /\ d.result = "open"
    BY <1>4, <1>5 DEF TestCurrentConnection, Usable
  <2>2. Sound(d') /\ Remembered(d', meant, spoiled)
    BY <1>1, <1>2, <1>3, <2>1, SaveRemembers
  <2> QED
    BY <2>1, <2>2 DEF DialogInv
<1>6. CASE Accept
  <2>1. /\ d' = [SaveCurrentForm(d) EXCEPT !.result = "accepted"]
        /\ meant' = meant /\ spoiled' = spoiled /\ d.result = "open"
    BY <1>6 DEF Accept, Usable
  <2>2. d' = At(h, d.row, d.form, "accepted")
    <3> DEFINE hn == NamesOf(h)
    <3>1. /\ SaveCurrentForm(d) = Full(h, d.row, hn, d.row, d.form, on, d.result)
          /\ At(h, d.row, d.form, "accepted") = Full(h, d.row, hn, d.row, d.form, on, "accepted")
      BY <1>4 DEF At
    <3> HIDE DEF h, hn, on
    <3>2. [Full(h, d.row, hn, d.row, d.form, on, d.result) EXCEPT !.result = "accepted"] =
             Full(h, d.row, hn, d.row, d.form, on, "accepted")
      BY DEF Full
    <3> QED
      BY <2>1, <3>1, <3>2
  <2>3. "accepted" \in Results
    BY DEF Results
  <2>4. Sound(d') /\ Remembered(d', meant, spoiled)
    BY <1>1, <1>2, <1>3, <2>1, <2>2, <2>3, SaveRemembers
  <2> QED
    BY <2>1, <2>4 DEF DialogInv
<1>7. CASE Reject
  <2> DEFINE cs == d.connections
  <2>1. /\ d' = [d EXCEPT !.result = "rejected"] /\ meant' = meant /\ spoiled' = spoiled
    BY <1>7 DEF Reject
  <2>2. d' = At(cs, d.row, d.form, "rejected")
    <3>1. /\ d = Full(cs, d.row, ns, d.row, d.form, on, d.result)
          /\ At(cs, d.row, d.form, "rejected") = Full(cs, d.row, ns, d.row, d.form, on, "rejected")
      BY <1>1 DEF At, Sound
    <3> HIDE DEF cs, ns, on
    <3>2. [Full(cs, d.row, ns, d.row, d.form, on, d.result) EXCEPT !.result = "rejected"] =
             Full(cs, d.row, ns, d.row, d.form, on, "rejected")
      BY DEF Full
    <3>3. [d EXCEPT !.result = "rejected"] = Full(cs, d.row, ns, d.row, d.form, on, "rejected")
      BY <3>1, <3>2
    <3> QED
      BY <2>1, <3>1, <3>3
  <2>3. Sound(d') /\ d'.connections = cs /\ d'.result = "rejected"
    <3>1. cs \in Seq(Conn) /\ Distinct(cs) /\ "rejected" \in Results
      BY <1>1 DEF Sound, Results
    <3> QED
      BY <1>3, <2>2, <3>1, AtSound
  <2> QED
    BY <1>1, <2>1, <2>3 DEF DialogInv, Remembered
<1>8. CASE TestStep \/ UNCHANGED vars
  <2>1. d' = d /\ meant' = meant /\ spoiled' = spoiled
    BY <1>8 DEF TestStep, vars
  <2> QED
    BY <1>1, <2>1 DEF DialogInv
<1> QED
  BY <1>5, <1>6, <1>7, <1>8

\* Every step of the dialog keeps what it shows and what was meant together.
LEMMA DialogStep == DialogInv /\ [Next]_vars => DialogInv'
  BY ChooseKeeps, TypeKeeps, AddKeeps, RemoveKeeps, RestKeeps DEF Next

-----------------------------------------------------------------------------
(* The test dialog *)

\* A snapshot that is posted comes last, and has the flag.
LEMMA PostFacts ==
    ASSUME NEW k, Told(k)
    PROVE  /\ Told(Test!Post(k))
           /\ Test!Post(k).posted # <<>>
           /\ Test!Post(k).posted[Len(Test!Post(k).posted)] = k.connected
           /\ Test!Post(k).connected = k.connected /\ Test!Post(k).wasLive = k.wasLive
           /\ Test!Post(k).feed = k.feed
<1> DEFINE q == Append(k.posted, k.connected)
           n == Test!Post(k)
<1>1. /\ k \in Test!Dialog /\ k.posted \in Seq(BOOLEAN) /\ k.connected \in BOOLEAN
      /\ Len(k.posted) \in Nat /\ DOMAIN k.posted = 1..Len(k.posted)
  BY LenProperties DEF Told, Test!Dialog
<1>2. /\ q \in Seq(BOOLEAN) /\ q # <<>> /\ Len(q) = Len(k.posted) + 1
      /\ q[Len(q)] = k.connected /\ DOMAIN q = 1..Len(q)
      /\ \A i \in DOMAIN k.posted : q[i] = k.posted[i]
  BY <1>1
<1> HIDE DEF q
<1>3. n = [k EXCEPT !.posted = q]
  BY DEF Test!Post, q
<1>4. /\ n \in Test!Dialog /\ n.posted = q /\ n.connected = k.connected
      /\ n.wasLive = k.wasLive /\ n.feed = k.feed /\ n.shown = k.shown
  BY <1>1, <1>2, <1>3 DEF Test!Dialog
<1> HIDE DEF n
<1>5. \A i \in DOMAIN q : q[i] => k.wasLive
  BY <1>1, <1>2 DEF Told
<1>6. Told(n)
  BY <1>4, <1>5 DEF Told
<1> QED
  BY <1>2, <1>4, <1>6 DEF n

\* Changes of the link, before it is posted, and of what is shown after.
LEMMA LinkFacts ==
    ASSUME NEW k, Told(k), NEW link \in {"Off", "Connecting", "Live", "Lost", "Failed"}
    PROVE  /\ Told([k EXCEPT !.link = link]) /\ [k EXCEPT !.link = link].feed = k.feed
           /\ [k EXCEPT !.link = link].connected = k.connected
           /\ LET l == [k EXCEPT !.link = link, !.connected = FALSE]
              IN  Told(l) /\ l.feed = k.feed
           /\ LET l == [k EXCEPT !.link = link, !.connected = TRUE, !.wasLive = TRUE]
              IN  Told(l) /\ l.feed = k.feed /\ l.wasLive = TRUE
<1>1. Told([k EXCEPT !.link = link]) /\ [k EXCEPT !.link = link].feed = k.feed
      /\ [k EXCEPT !.link = link].connected = k.connected
  BY DEF Told, Test!Dialog
<1>2. LET l == [k EXCEPT !.link = link, !.connected = FALSE]
      IN  Told(l) /\ l.feed = k.feed
  BY DEF Told, Test!Dialog
<1>3. LET l == [k EXCEPT !.link = link, !.connected = TRUE, !.wasLive = TRUE]
      IN  Told(l) /\ l.feed = k.feed /\ l.wasLive = TRUE
  BY DEF Told, Test!Dialog
<1> QED
  BY <1>1, <1>2, <1>3

\* The test starts, and says how it went or waits.
LEMMA StartSound ==
    ASSUME TestInv, NEW outcome \in {"opens", "fails", "refused"}, Test!StartTest(outcome)
    PROVE  TestInv' /\ test'.feed = test.feed
<1>0. Told(test) /\ test.feed # Nothing
  BY DEF TestInv, Test!StartTest
<1>1. CASE test.feed \in Simulated
  <2> DEFINE l == [test EXCEPT !.link = "Live", !.connected = TRUE, !.wasLive = TRUE]
             n == Test!Post(l)
  <2>1. test' = [n EXCEPT !.shown = "success"]
    BY <1>1 DEF Test!StartTest
  <2>2. Told(l) /\ l.feed = test.feed /\ l.wasLive = TRUE
    BY <1>0, LinkFacts, ZenonT(60)
  <2> HIDE DEF l
  <2>3. /\ Told(n) /\ n.posted # <<>> /\ n.posted[Len(n.posted)] = n.connected
        /\ n.wasLive = TRUE /\ n.feed = test.feed
    BY <2>2, PostFacts
  <2> HIDE DEF n
  <2>4. /\ Told(test') /\ test'.posted = n.posted /\ test'.connected = n.connected
        /\ test'.feed = n.feed
    BY <2>1, <2>3 DEF Told, Test!Dialog
  <2> QED
    BY <2>3, <2>4 DEF TestInv
<1>2. CASE test.feed \notin Simulated /\ outcome = "opens"
  <2> DEFINE l == [test EXCEPT !.link = "Connecting"]
             n == Test!Post(l)
  <2>1. test' = [n EXCEPT !.timer = "armed"]
    BY <1>2 DEF Test!StartTest
  <2>2. Told(l) /\ l.feed = test.feed
    BY <1>0, LinkFacts, ZenonT(60)
  <2> HIDE DEF l
  <2>3. /\ Told(n) /\ n.posted # <<>> /\ n.posted[Len(n.posted)] = n.connected
        /\ n.feed = test.feed
    BY <2>2, PostFacts
  <2> HIDE DEF n
  <2>4. /\ Told(test') /\ test'.posted = n.posted /\ test'.connected = n.connected
        /\ test'.feed = n.feed
    BY <2>1, <2>3 DEF Told, Test!Dialog
  <2> QED
    BY <2>3, <2>4 DEF TestInv
<1>3. CASE test.feed \notin Simulated /\ outcome # "opens"
  <2> DEFINE l == [test EXCEPT !.link = "Failed"]
             m == Test!Post(l)
             n == Test!Post(m)
  <2>1. test' = IF outcome = "fails" THEN [n EXCEPT !.timer = "armed"] ELSE [n EXCEPT !.shown = "error"]
    BY <1>3 DEF Test!StartTest
  <2>2. Told(l) /\ l.feed = test.feed
    BY <1>0, LinkFacts, ZenonT(60)
  <2> HIDE DEF l
  <2>3. Told(m) /\ m.feed = test.feed
    BY <2>2, PostFacts
  <2> HIDE DEF m
  <2>4. /\ Told(n) /\ n.posted # <<>> /\ n.posted[Len(n.posted)] = n.connected
        /\ n.feed = test.feed
    BY <2>3, PostFacts
  <2> HIDE DEF n
  <2>5. /\ Told(test') /\ test'.posted = n.posted /\ test'.connected = n.connected
        /\ test'.feed = n.feed
    BY <2>1, <2>4 DEF Told, Test!Dialog
  <2> QED
    BY <2>4, <2>5 DEF TestInv
<1> QED
  BY <1>1, <1>2, <1>3

\* A step of the test dialog tells only of sessions that were.
LEMMA TestStepSound ==
    ASSUME TestInv, TestStep
    PROVE  TestInv' /\ (test'.feed = test.feed \/ test'.feed = Nothing)
<1>0. /\ test.posted \in Seq(BOOLEAN) /\ Len(test.posted) \in Nat
      /\ test \in Test!Dialog /\ Told(test)
      /\ DOMAIN test.posted = 1..Len(test.posted)
  BY LenProperties DEF TestInv, Told, Test!Dialog
<1>1. ASSUME NEW outcome \in {"opens", "fails", "refused"}, Test!StartTest(outcome)
      PROVE  TestInv' /\ test'.feed = test.feed
  BY <1>1, StartSound
<1>2. ASSUME NEW l, Told(l), l.feed = test.feed, test' = Test!Post(l)
      PROVE  TestInv' /\ test'.feed = test.feed
  <2>1. /\ Told(test') /\ test'.posted # <<>> /\ test'.posted[Len(test'.posted)] = test'.connected
        /\ test'.feed = test.feed
    BY <1>2, PostFacts
  <2> QED
    BY <2>1 DEF TestInv
<1>3. CASE Test!GoLive
  BY <1>0, <1>2, <1>3, LinkFacts, ZenonT(60) DEF Test!GoLive
<1>4. CASE Test!Lose
  BY <1>0, <1>2, <1>4, LinkFacts, ZenonT(60) DEF Test!Lose
<1>5. CASE Test!Retry
  BY <1>0, <1>2, <1>5, LinkFacts, ZenonT(60) DEF Test!Retry
<1>6. CASE Test!Break
  BY <1>0, <1>2, <1>6, LinkFacts, ZenonT(60) DEF Test!Break
<1>7. CASE Test!Deliver
  <2> DEFINE q == Tail(test.posted)
             first == Head(test.posted)
             shown == IF first THEN "success" ELSE "error"
  <2>1. /\ first \in BOOLEAN /\ first = test.posted[1] /\ 1 \in DOMAIN test.posted
        /\ q \in Seq(BOOLEAN) /\ Len(q) = Len(test.posted) - 1 /\ DOMAIN q = 1..Len(q)
        /\ \A i \in 1..Len(q) : q[i] = test.posted[i + 1]
        /\ q = <<>> => Len(test.posted) = 1
    <3>1. test.posted # <<>>
      BY <1>7 DEF Test!Deliver
    <3>2. /\ q \in Seq(BOOLEAN) /\ Len(q) = Len(test.posted) - 1
          /\ \A i \in 1..Len(q) : q[i] = test.posted[i + 1]
      BY <1>0, <3>1, HeadTailProperties
    <3>3. first \in BOOLEAN /\ first = test.posted[1]
      BY <1>0, <3>1, HeadTailProperties
    <3>4. Len(test.posted) # 0
      BY <1>0, <3>1, EmptySeq
    <3> HIDE DEF q, first
    <3>5. DOMAIN q = 1..Len(q) /\ (q = <<>> => Len(q) = 0)
      BY <3>2, LenProperties, EmptySeq
    <3> QED
      BY <1>0, <3>2, <3>3, <3>4, <3>5
  <2>2. test' = [test EXCEPT !.posted = q, !.shown = shown]
    BY <1>7 DEF Test!Deliver
  <2> HIDE DEF q, first, shown
  <2>3. /\ test' \in Test!Dialog /\ test'.posted = q /\ test'.shown = shown
        /\ test'.connected = test.connected /\ test'.wasLive = test.wasLive
        /\ test'.feed = test.feed
    BY <1>0, <2>1, <2>2 DEF Test!Dialog, shown
  <2>4. first => test.wasLive
    BY <1>0, <2>1 DEF Told
  <2>5. \A i \in DOMAIN q : q[i] => test.wasLive
    BY <1>0, <2>1 DEF Told
  <2>6. Told(test')
    BY <1>0, <2>3, <2>4, <2>5 DEF Told, shown
  <2>7. test'.posted # <<>> => test'.posted[Len(test'.posted)] = test'.connected
    BY <1>0, <2>1, <2>3 DEF TestInv
  <2>8. test'.posted = <<>> => first = test.connected
    BY <1>0, <2>1, <2>3 DEF TestInv
  <2> QED
    BY <2>3, <2>6, <2>7, <2>8 DEF TestInv, shown
<1>8. CASE Test!TimeOut
  <2>1. /\ test' \in Test!Dialog /\ test'.posted = test.posted /\ test'.timer = "fired"
        /\ test'.connected = test.connected /\ test'.wasLive = test.wasLive
        /\ test'.feed = test.feed /\ test'.shown \in {test.shown, "error"}
    BY <1>0, <1>8 DEF Test!TimeOut, Test!Dialog
  <2> QED
    BY <1>0, <2>1 DEF TestInv, Told
<1>9. CASE Test!Close
  <2>1. test' = Test!Closed
    BY <1>9 DEF Test!Close
  <2> QED
    BY <2>1 DEF TestInv, Told, Test!Closed, Test!Dialog
<1> QED
  BY <1>1, <1>3, <1>4, <1>5, <1>6, <1>7, <1>8, <1>9 DEF TestStep, Test!Step

-----------------------------------------------------------------------------
(* The invariant *)

\* The dialog is opened with a list that is sound.
LEMMA OpeningSound ==
    ASSUME NEW connections \in Saved
    PROVE  LET k == Opening(connections)
           IN  /\ Sound(k) /\ k.result = "open" /\ k.row = 1
               /\ k.form = Shown(k.connections[1].form)
<1> DEFINE cs == IF connections = <<>> THEN <<Blank(CHOOSE id \in Ids : TRUE)>> ELSE connections
           no == FALSE
           ns == NamesOf(cs)
           f == Shown(cs[1].form)
<1>1. cs \in Seq(Conn) /\ 1 \in DOMAIN cs /\ Distinct(cs) /\ 1 \in 1..Len(cs)
  <2>1. CASE connections = <<>>
    <3>1. (CHOOSE id \in Ids : TRUE) \in Ids
      BY IdsAssumption
    <3> QED
      BY <2>1, <3>1, BlankIsOne DEF Distinct
  <2>2. CASE connections # <<>>
    <3>1. PICK ids \in {s \in [1..2 -> Ids] : s[1] # s[2]},
               forms \in [1..2 -> [name: {Default}, settings: {Completed, Legacy}]] :
                 connections = [i \in DOMAIN ids |-> [id |-> ids[i], form |-> forms[i]]]
      BY <2>2 DEF Saved
    <3>2. connections \in [1..2 -> Conn]
      BY <3>1, NamesAssumption, SettingsAssumption DEF Conn, Real
    <3>3. connections \in Seq(Conn) /\ Len(connections) = 2
      <4>1. connections \in UNION {[1..n -> Conn] : n \in Nat}
        BY <3>2
      <4>2. connections \in Seq(Conn)
        BY <4>1, SeqDef
      <4>3. Len(connections) \in Nat /\ DOMAIN connections = 1..Len(connections)
        BY <4>2, LenProperties
      <4>4. DOMAIN connections = 1..2
        BY <3>2
      <4>5. Len(connections) = 2
        <5> DEFINE n == Len(connections)
        <5>1. n \in Nat /\ 1..n = 1..2
          BY <4>3, <4>4
        <5> HIDE DEF n
        <5>2. 2 \in 1..n /\ ~(3 \in 1..n)
          BY <5>1
        <5> QED
          BY <5>1, <5>2 DEF n
      <4> QED
        BY <4>2, <4>5
    <3>4. Distinct(connections)
      <4>1. /\ ids[1] # ids[2] /\ DOMAIN connections = 1..2
            /\ connections[1].id = ids[1] /\ connections[2].id = ids[2]
        BY <3>1
      <4> QED
        BY <4>1 DEF Distinct
    <3> QED
      BY <2>2, <3>2, <3>3, <3>4
  <2> QED
    BY <2>1, <2>2
<1>2. f \in Real
  <2> HIDE DEF cs
  <2>1. cs[1] \in Conn
    BY <1>1, ElementOfSeq
  <2> QED
    BY <2>1, FormFacts DEF Conn
<1>3. Opening(connections) = SetCurrentRow(RebuildConnectionList(Full(cs, 0, <<>>, 0, NoForm, no, "open")), 1)
  BY DEF Opening, Full
<1> HIDE DEF cs, ns, no, f
<1>4. RebuildConnectionList(Full(cs, 0, <<>>, 0, NoForm, no, "open")) = Full(cs, 0, ns, 0, NoForm, no, "open")
  BY RebuildQuietly DEF ns
<1>5. At(cs, 0, NoForm, "open") = Full(cs, 0, ns, 0, NoForm, no, "open")
  <2>1. Off(cs, 0, NamesOf(cs), 0, NoForm, "open") = At(cs, 0, NoForm, "open")
    BY AtNone
  <2>2. Off(cs, 0, NamesOf(cs), 0, NoForm, "open") = Full(cs, 0, ns, 0, NoForm, no, "open")
    BY DEF Off, ns, no
  <2> QED
    BY <2>1, <2>2
<1> DEFINE k == At(cs, 0, NoForm, "open")
<1>6. /\ Sound(k) /\ k.connections = cs /\ k.row = 0 /\ k.form = NoForm /\ k.result = "open"
  <2>1. 0 \in 0..Len(cs) /\ "open" \in Results
    BY <1>1, LenProperties DEF Results
  <2> HIDE DEF k
  <2>2. k = At(cs, 0, NoForm, "open")
    BY DEF k
  <2> QED
    BY <1>1, <2>1, <2>2, AtSound
<1> HIDE DEF k
<1>7. SavedOf(k) = cs
  BY <1>1, <1>6, LenProperties DEF SavedOf, Held
<1>8. SetCurrentRow(k, 1) = At(cs, 1, f, "open")
  BY <1>1, <1>6, <1>7, ChooseAt DEF f
<1>9. Opening(connections) = At(cs, 1, f, "open")
  BY <1>3, <1>4, <1>5, <1>8 DEF k
<1>10. /\ Sound(Opening(connections)) /\ Opening(connections).connections = cs
       /\ Opening(connections).row = 1 /\ Opening(connections).form = f
       /\ Opening(connections).result = "open"
  <2>1. 1 \in 0..Len(cs) /\ 1 # 0 /\ "open" \in Results
    BY <1>1, LenProperties DEF Results
  <2> QED
    BY <1>1, <1>2, <1>9, <2>1, AtSound
<1> QED
  BY <1>10 DEF f

\* The settings start sound.
LEMMA InitSound == Init => IInv
<1> SUFFICES ASSUME Init PROVE IInv
  OBVIOUS
<1> DEFINE cs == d.connections
<1>1. /\ Sound(d) /\ d.result = "open" /\ d.row = 1 /\ d.form = Shown(cs[1].form)
  BY OpeningSound DEF Init
<1>2. /\ meant = [x \in IdsOf(d) |->
                    cs[CHOOSE i \in DOMAIN cs : cs[i].id = x].form]
      /\ spoiled = {} /\ test = Test!Closed
  BY DEF Init, Test!Init
<1>3. /\ cs \in Seq(Conn) /\ Distinct(cs) /\ DOMAIN cs = 1..Len(cs)
      /\ \A i \in DOMAIN cs : cs[i] \in Conn
  BY <1>1, LenProperties, ElementOfSeq DEF Sound
<1>4. IdsOf(d) = {cs[i].id : i \in DOMAIN cs}
  BY DEF IdsOf
<1> HIDE DEF cs
<1>5. ASSUME NEW i \in DOMAIN cs
      PROVE  cs[i].id \in DOMAIN meant /\ meant[cs[i].id] = cs[i].form /\ cs[i].id \in Ids
  <2> DEFINE j == CHOOSE l \in DOMAIN cs : cs[l].id = cs[i].id
  <2>1. j \in DOMAIN cs /\ cs[j].id = cs[i].id
    BY <1>5
  <2>2. j = i
    BY <1>3, <2>1 DEF Distinct
  <2>3. cs[i].id \in IdsOf(d)
    BY <1>4
  <2> QED
    BY <1>2, <1>3, <2>2, <2>3 DEF Conn
<1>6. /\ DOMAIN meant \subseteq Ids /\ \A id \in DOMAIN meant : meant[id] \in Forms
  <2>1. \A id \in DOMAIN meant : \E i \in DOMAIN cs : id = cs[i].id
    BY <1>2, <1>4
  <2> QED
    BY <1>3, <1>5, <2>1 DEF Conn, Real, Forms
<1>7. ASSUME NEW i \in DOMAIN cs PROVE Settled(Now(d, i)) = Settled(meant[cs[i].id])
  <2>1. Now(d, i) \in {cs[i].form, Shown(cs[i].form)}
    BY <1>1 DEF Now, cs
  <2>2. Settled(Shown(cs[i].form)) = Settled(cs[i].form)
    BY <1>3, FormFacts DEF Conn
  <2> QED
    BY <1>5, <2>1, <2>2
<1>8. DialogInv
  BY <1>1, <1>2, <1>5, <1>6, <1>7 DEF DialogInv, Remembered, cs
<1>9. TestInv
  BY <1>2 DEF TestInv, Told, Test!Closed, Test!Dialog
<1>10. TestedIsShown
  BY <1>2 DEF TestedIsShown, Test!Closed
<1> QED
  BY <1>8, <1>9, <1>10 DEF IInv

\* A test is opened on the form that is shown, and the form waits for its end.
LEMMA TestedStep ==
    ASSUME IInv, [Next]_vars
    PROVE  TestInv' /\ TestedIsShown'
<1>1. Sound(d) /\ TestInv /\ TestedIsShown
  BY DEF IInv, DialogInv
<1>2. CASE TestStep
  <2>1. TestInv' /\ (test'.feed = test.feed \/ test'.feed = Nothing) /\ d' = d
    BY <1>1, <1>2, TestStepSound DEF TestStep
  <2> QED
    BY <1>1, <2>1 DEF TestedIsShown
<1>3. CASE TestCurrentConnection
  <2> DEFINE h == SavedOf(d)
             feed == d.form.settings
  <2>1. /\ d' = At(h, d.row, d.form, d.result) /\ d.result = "open" /\ test.feed = Nothing
        /\ test' = IF d.selected \in DOMAIN d.connections
                   THEN Test!Opened(d'.connections[d.selected].form.settings) ELSE test
    BY <1>1, <1>3, SaveAt DEF TestCurrentConnection, Usable
  <2>2. /\ d.selected = d.row /\ (d.row # 0 <=> d.row \in DOMAIN d.connections)
        /\ (d.row # 0 => d.form \in Real)
    BY <1>1, SoundFields
  <2>3. CASE d.row = 0
    <3>1. test' = test
      BY <2>1, <2>2, <2>3
    <3> QED
      BY <1>1, <2>1, <3>1 DEF TestInv, TestedIsShown
  <2>4. CASE d.row # 0
    <3>1. /\ DOMAIN h = DOMAIN d.connections /\ h[d.row].form = Stored(d.form)
          /\ Stored(d.form).settings = feed /\ feed \in Settings
      BY <1>1, <2>2, <2>4, SavedFacts, FormFacts DEF Real
    <3>2. /\ d'.connections = h /\ d'.form = d.form /\ d'.result = "open" /\ d'.selected = d.row
      <4> DEFINE on == d.row # 0
                 ns == NamesOf(h)
      <4>1. d' = Full(h, d.row, ns, d.row, d.form, on, d.result)
        BY <2>1 DEF At
      <4> HIDE DEF on, ns, h
      <4> QED
        BY <2>1, <4>1, FullFields
    <3> HIDE DEF h, feed
    <3>3. test' = Test!Opened(feed)
      BY <2>1, <2>2, <2>4, <3>1, <3>2
    <3>4. TestInv' /\ test'.feed = feed
      <4> DEFINE shown == IF feed \in Incomplete THEN "error" ELSE "connecting"
      <4>1. /\ test' = [Test!Closed EXCEPT !.feed = feed, !.shown = shown]
            /\ shown \in {"error", "connecting"}
        BY <3>3 DEF Test!Opened
      <4> HIDE DEF shown
      <4> DEFINE k == [Test!Closed EXCEPT !.feed = feed]
      <4>4. k \in Test!Dialog /\ k.feed = feed /\ ~k.connected /\ ~k.wasLive /\ k.posted = <<>>
        <5> DEFINE c == Test!Closed
        <5>1. c \in Test!Dialog /\ ~c.connected /\ ~c.wasLive /\ c.posted = <<>>
          BY DEF Test!Closed, Test!Dialog
        <5> HIDE DEF c
        <5>2. k = [c EXCEPT !.feed = feed]
          BY DEF c
        <5> HIDE DEF k
        <5> QED
          BY <3>1, <5>1, <5>2 DEF Test!Dialog
      <4>3. test' = [k EXCEPT !.shown = shown]
        BY <4>1
      <4> HIDE DEF k
      <4>2. /\ test' \in Test!Dialog /\ test'.feed = feed /\ test'.shown \in {"error", "connecting"}
            /\ ~test'.connected /\ ~test'.wasLive /\ test'.posted = <<>>
        BY <4>1, <4>3, <4>4 DEF Test!Dialog
      <4> QED
        BY <4>2 DEF TestInv, Told
    <3> QED
      BY <2>2, <2>4, <3>1, <3>2, <3>4 DEF TestedIsShown, feed
  <2> QED
    BY <2>3, <2>4
<1>4. CASE ~TestStep /\ ~TestCurrentConnection
  <2>1. test' = test /\ (d' # d => test.feed = Nothing)
    BY <1>4 DEF Next, ChooseRow, Type, ClickAdd, ClickRemove, Accept, Reject, Usable, vars
  <2> QED
    BY <1>1, <2>1 DEF TestInv, TestedIsShown
<1> QED
  BY <1>2, <1>3, <1>4

\* The inductive invariant: the list, its row and the form agree, each
\* connection is as it was meant, and the test is of what is shown.
THEOREM Invariance == Spec => []IInv
<1>1. IInv /\ [Next]_vars => IInv'
  BY DialogStep, TestedStep DEF IInv
<1> QED
  BY <1>1, InitSound, PTL DEF Spec

\* Between two clicks the row is the connection the form is saved into, the
\* names are those of the connections, and identities stay unique.
THEOREM RowIsAlwaysSelected == Spec => []RowIsSelected
<1>1. IInv => RowIsSelected
  <2> SUFFICES ASSUME IInv PROVE RowIsSelected
    OBVIOUS
  <2> DEFINE cs == d.connections
             on == d.row # 0
             ns == NamesOf(cs)
  <2>1. /\ Sound(d) /\ cs \in Seq(Conn) /\ Distinct(cs) /\ d.result \in Results
        /\ d = Full(cs, d.row, ns, d.row, d.form, on, d.result)
        /\ IF d.row = 0 THEN d.form = NoForm ELSE d.form \in Real
    BY DEF IInv, DialogInv, Sound, At
  <2>2. /\ d.selected = d.row /\ d.items = ns /\ d.enabled = on
        /\ Len(cs) \in Nat /\ DOMAIN cs = 1..Len(cs) /\ d.row \in 0..Len(cs)
    BY <2>1, SoundFields
  <2>3. /\ ns \in Seq(Names \cup {Empty}) /\ Len(ns) = Len(cs) /\ DOMAIN ns = DOMAIN cs
    BY <2>1, NamesFacts
  <2>4. \A i \in DOMAIN ns : ns[i] = cs[i].form.name
    BY DEF NamesOf
  <2>5. d.form \in Forms /\ on \in BOOLEAN /\ d.row \in Nat
    BY <2>1, <2>2 DEF Forms, Real
  <2>6. cs \in Seq(Connections)
    <3>1. Conn \subseteq Connections
      BY DEF Conn, Real, Connections, Forms
    <3> QED
      BY <2>1, <3>1, SeqMonotonic
  <2>7. IsInjective([i \in DOMAIN cs |-> cs[i].id])
    BY <2>1 DEF IsInjective, Distinct
  <2>8. /\ test \in Test!Dialog
        /\ DOMAIN meant \subseteq Ids /\ \A id \in DOMAIN meant : meant[id] \in Forms
        /\ spoiled \subseteq DOMAIN meant
    BY DEF IInv, TestInv, Told, DialogInv, Remembered
  <2>9. d \in Dialog
    <3> HIDE DEF cs, on, ns
    <3> QED
      BY <2>1, <2>2, <2>3, <2>5, <2>6 DEF Dialog, Full, Results
  <2> QED
    BY <2>2, <2>3, <2>4, <2>7, <2>8, <2>9 DEF RowIsSelected, TypeOK
<1> QED
  BY <1>1, Invariance, PTL

\* What was typed is kept through every choice, addition, removal, test and the
\* end, but for the connections that were given the form of another.
THEOREM TypingIsAlwaysKept == Spec => []TypingIsKept
<1>1. IInv => TypingIsKept
  <2> SUFFICES ASSUME IInv, d.result # "rejected", NEW i \in DOMAIN d.connections,
                      d.connections[i].id \notin spoiled
               PROVE  Settled(IF i = d.selected /\ d.result = "open" THEN d.form
                              ELSE d.connections[i].form) = Settled(meant[d.connections[i].id])
    BY DEF TypingIsKept
  <2>1. d.selected = d.row
    BY SoundFields DEF IInv, DialogInv
  <2> QED
    BY <2>1 DEF IInv, DialogInv, Remembered, Now
<1> QED
  BY <1>1, Invariance, PTL

\* What is tested is what the form shows until the test is closed.
THEOREM TestedIsAlwaysShown == Spec => []TestedIsShown
<1>1. IInv => TestedIsShown
  BY DEF IInv
<1> QED
  BY <1>1, Invariance, PTL

\* A success is that of a session, and a failure over a session that is up is
\* the timer's.
THEOREM GlyphIsAlwaysEarned == Spec => []GlyphIsEarned
<1>1. IInv => GlyphIsEarned
  BY DEF IInv, TestInv, Told, GlyphIsEarned, Test!GlyphIsEarned
<1> QED
  BY <1>1, Invariance, PTL
=============================================================================
