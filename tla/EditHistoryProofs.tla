-------------------------- MODULE EditHistoryProofs --------------------------
(***************************************************************************)
(* For any number of editors, facts, contents and rows: what edit-fact     *)
(* promises of the edit history.                                           *)
(*                                                                         *)
(* The argument.  The lock admits one editor at a time (Exclusive), so     *)
(* nobody else appends between what an editor reads of the history and the *)
(* row it writes: a pending revert still follows an edit (PendingRevert).  *)
(* While no other tool writes and no append tears, the lock keeps the      *)
(* store as it was loaded too, and the last row of a fact tells both what  *)
(* the fact says and what it said (Followed).                              *)
(***************************************************************************)
EXTENDS EditHistory, TLAPS

(* A store in which every fact is there, and names facts as its parents.   *)
Shaped(s) ==
    /\ s = [i \in Ids |-> s[i]]
    /\ \A i \in Ids :
          /\ s[i] = [core |-> s[i].core, att |-> s[i].att] /\ s[i].core \in Cores
          /\ s[i].att # None => s[i].att.parents \subseteq Ids

Typed ==
    /\ Shaped(store)
    /\ history \in Seq(Row)
    /\ lock \in Editors \cup {None}
    /\ pc \in [Editors -> {"idle", "loaded", "logged", "reverted"}]
    /\ work = [e \in Editors |-> work[e]]
    /\ count \in [rows : Nat, external : Nat, tears : Nat]
    /\ \A e \in Editors : pc[e] # "idle" =>
          /\ lock = e
          /\ Shaped(work[e].loaded) /\ Shaped(work[e].facts)
          /\ pc[e] # "loaded" => work[e].row \in Row

PendingRevert ==
    \A e \in Editors : pc[e] = "reverted" =>
        \A n \in Latest(work[e].row.id) : history[n].op = "edit"

(* No other tool has written, and no append was torn.                      *)
Clean == count.external = 0 /\ count.tears = 0

Logged(e) ==
    LET row == work[e].row
    IN  /\ \E n \in Latest(row.id) : history[n] = row
        /\ row.old = store[row.id].core
        /\ \A i \in Ids : work[e].facts[i].core =
                             (IF i = row.id THEN row.new ELSE store[i].core)

Followed ==
    /\ ~torn
    /\ \A i \in Ids : Undoable(i)
    /\ \A e \in Editors :
          /\ pc[e] \in {"loaded", "logged"} => work[e].loaded = store
          /\ pc[e] = "logged" => Logged(e)
          /\ pc[e] = "reverted" => store[work[e].row.id].core = work[e].row.new

EditInv ==
    /\ Typed /\ RevertedOnce /\ PendingRevert /\ EditSparesChildren
    /\ Clean => Followed

-----------------------------------------------------------------------------
(* Signing a fact anew with another content changes no other.              *)
LEMMA ResignedIs ==
    ASSUME NEW s, Shaped(s), NEW i \in Ids, NEW core \in Cores, NEW key
    PROVE  /\ Shaped(Resigned(s, i, core, key))
           /\ Resigned(s, i, core, key)[i].core = core
           /\ \A j \in Ids \ {i} : Resigned(s, i, core, key)[j] = s[j]
<1> DEFINE edited == [s EXCEPT ![i].core = core]
           att == IF key = None THEN None ELSE Attest(edited, core, ParentsOf(s[i]), key)
           t == [edited EXCEPT ![i].att = att]
<1>1. att # None => att.parents \subseteq Ids
  BY DEF Shaped, Attest, ParentsOf
<1> HIDE DEF att
<1>2. \A c, a : /\ [[core |-> c, att |-> a] EXCEPT !.core = core] = [core |-> core, att |-> a]
                /\ [[core |-> c, att |-> a] EXCEPT !.att = att] = [core |-> c, att |-> att]
  OBVIOUS
<1>3. PICK c, a : s[i] = [core |-> c, att |-> a]
  BY DEF Shaped
<1>4. PICK r : r = [s[i] EXCEPT !.core = core]
  OBVIOUS
<1>5. edited = [s EXCEPT ![i] = r] /\ r = [core |-> core, att |-> a]
  <2>1. edited = [s EXCEPT ![i] = r]
    BY <1>4
  <2>2. r = [core |-> core, att |-> a]
    BY <1>2, <1>3, <1>4
  <2> QED  BY <2>1, <2>2
<1>6. edited = [j \in Ids |-> IF j = i THEN [core |-> core, att |-> a] ELSE s[j]]
  BY <1>5 DEF Shaped
<1> HIDE DEF edited
<1>7. edited[i] = [core |-> core, att |-> a]
  BY <1>6
<1>8. PICK q : q = [edited[i] EXCEPT !.att = att]
  OBVIOUS
<1>9. t = [edited EXCEPT ![i] = q] /\ q = [core |-> core, att |-> att]
  <2>1. t = [edited EXCEPT ![i] = q]
    BY <1>8
  <2>2. q = [core |-> core, att |-> att]
    BY <1>2, <1>7, <1>8
  <2> QED  BY <2>1, <2>2
<1>10. t = [j \in Ids |-> IF j = i THEN [core |-> core, att |-> att] ELSE s[j]]
  BY <1>6, <1>9
<1> HIDE DEF t
<1>11. Shaped(t) /\ t[i].core = core /\ \A j \in Ids \ {i} : t[j] = s[j]
  BY <1>1, <1>10 DEF Shaped
<1> QED  BY <1>11 DEF t, att, edited, Resigned

(* ... and so no verdict on a fact that does not descend from it.          *)
LEMMA SparesOthers ==
    ASSUME NEW s, Shaped(s), NEW i \in Ids, NEW t, \A j \in Ids \ {i} : t[j] = s[j],
           Children(s, i) = {}, NEW j \in Ids \ {i}, s[j] # None, NEW key
    PROVE  Verify(t, t[j], key) = Verify(s, s[j], key)
<1>1. t[j] = s[j]
  OBVIOUS
<1>2. CASE s[j].att = None
  BY <1>1, <1>2 DEF Verify
<1>3. CASE s[j].att # None
  <2>1. i \notin s[j].att.parents /\ s[j].att.parents \subseteq Ids
    BY <1>3 DEF Children, ParentsOf, Shaped
  <2>2. \A q \in s[j].att.parents : t[q] = s[q]
    BY <2>1
  <2>3. ParentCores(t, s[j].att.parents) = ParentCores(s, s[j].att.parents)
    BY <2>2 DEF ParentCores
  <2>4. ParentsMoved(t, s[j].att.parents) = ParentsMoved(s, s[j].att.parents)
    BY <2>2 DEF ParentsMoved
  <2> QED  BY <1>1, <2>3, <2>4 DEF Verify, PayloadNow, SignedPayload, FailStatus
<1> QED  BY <1>2, <1>3

(* A row appended is the last one of its fact, and of no other.            *)
LEMMA Appended ==
    ASSUME history \in Seq(Row), NEW row \in Row, history' = Append(history, row)
    PROVE  /\ history' \in Seq(Row) /\ Len(history') = Len(history) + 1
           /\ history'[Len(history) + 1] = row
           /\ \A n \in DOMAIN history : n \in DOMAIN history' /\ history'[n] = history[n]
           /\ Latest(row.id)' = {Len(history) + 1}
           /\ \A i : i # row.id => Latest(i)' = Latest(i)
<1>1. /\ history' \in Seq(Row) /\ Len(history') = Len(history) + 1 /\ Len(history) \in Nat
      /\ history'[Len(history) + 1] = row /\ DOMAIN history = 1..Len(history)
      /\ DOMAIN history' = 1..(Len(history) + 1)
      /\ \A n \in 1..Len(history) : history'[n] = history[n]
  OBVIOUS
<1>2. Latest(row.id)' = {Len(history) + 1}
  BY <1>1 DEF Latest
<1>3. \A i : i # row.id => Latest(i)' = Latest(i)
  BY <1>1 DEF Latest
<1> QED  BY <1>1, <1>2, <1>3

(* A row of another fact leaves what is known of this one.                 *)
LEMMA StillUndoable ==
    ASSUME history \in Seq(Row), NEW row \in Row, history' = Append(history, row), store' = store,
           NEW j \in Ids, j # row.id, Undoable(j)
    PROVE  Undoable(j)'
<1>1. Latest(j)' = Latest(j)
  BY Appended
<1>2. \A n \in Latest(j) : history'[n] = history[n]
  BY Appended DEF Latest
<1> QED  BY <1>1, <1>2 DEF Undoable

LEMMA LatestOne == \A i, n, m : n \in Latest(i) /\ m \in Latest(i) /\ history \in Seq(Row) => n = m
  BY DEF Latest

LEMMA OnceKept ==
    ASSUME Typed, RevertedOnce, NEW row \in Row,
           history' = history \/ history' = Append(history, row),
           row.op = "revert" => \A n \in Latest(row.id) : history[n].op = "edit"
    PROVE  RevertedOnce' /\ history' \in Seq(Row)
<1>1. history \in Seq(Row) /\ Len(history) \in Nat /\ DOMAIN history = 1..Len(history)
  BY DEF Typed
<1>2. CASE history' = history
  BY <1>1, <1>2 DEF RevertedOnce
<1>3. CASE history' = Append(history, row)
  <2>1. /\ Len(history') = Len(history) + 1 /\ history'[Len(history) + 1] = row
        /\ \A n \in 1..Len(history) : history'[n] = history[n]
        /\ history' \in Seq(Row) /\ DOMAIN history' = 1..(Len(history) + 1)
    BY <1>1, <1>3, Appended
  <2>2. row.op \in {"edit", "revert"}
    BY DEF Row
  <2>3. SUFFICES ASSUME NEW n \in DOMAIN history', NEW m \in DOMAIN history', n < m,
                        history'[n].id = history'[m].id,
                        \A k \in (n + 1)..(m - 1) : history'[k].id # history'[m].id
                 PROVE  history'[n].op = "edit" \/ history'[m].op = "edit"
    BY <2>1 DEF RevertedOnce
  <2>4. CASE m \in 1..Len(history)
    <3>1. n \in 1..Len(history) /\ \A k \in (n + 1)..(m - 1) : history[k].id # history[m].id
      BY <1>1, <2>1, <2>3, <2>4
    <3> QED  BY <1>1, <2>1, <2>3, <2>4, <3>1 DEF RevertedOnce
  <2>5. CASE m = Len(history) + 1
    <3>1. n \in 1..Len(history) /\ history[n].id = row.id
      BY <1>1, <2>1, <2>3, <2>5
    <3>2. \A k \in (n + 1)..Len(history) : history[k].id # row.id
      BY <1>1, <2>1, <2>3, <2>5
    <3>3. n \in Latest(row.id)
      BY <1>1, <3>1, <3>2 DEF Latest
    <3> QED  BY <2>1, <2>2, <2>5, <3>1, <3>3
  <2> QED  BY <1>1, <2>1, <2>3, <2>4, <2>5
<1> QED  BY <1>2, <1>3

(* Whoever has the lock is alone; once it has let go, nobody is at work.   *)
LEMMA Exclusive ==
    ASSUME Typed, NEW e \in Editors
    PROVE  /\ pc[e] # "idle" => \A q \in Editors \ {e} : pc[q] = "idle"
           /\ lock = None => \A q \in Editors : pc[q] = "idle"
  BY EditAssumption DEF Typed, EditAssumption

LEMMA Releasing ==
    ASSUME Typed, NEW e \in Editors, pc[e] # "idle", Release(e),
           Shaped(store'), history' \in Seq(Row), count' \in [rows : Nat, external : Nat, tears : Nat],
           RevertedOnce', Clean' => ~torn' /\ \A i \in Ids : Undoable(i)'
    PROVE  EditInv'
<1>1. pc' = [pc EXCEPT ![e] = "idle"] /\ work' = [work EXCEPT ![e] = Idle] /\ lock' = None
  BY DEF Release, Goto
<1>2. pc' \in [Editors -> {"idle", "loaded", "logged", "reverted"}] /\ work' = [q \in Editors |-> work'[q]]
  BY <1>1 DEF Typed
<1>3. \A q \in Editors : pc'[q] = "idle"
  BY <1>1, Exclusive DEF Typed
<1>4. Typed'
  BY <1>1, <1>2, <1>3 DEF Typed
<1>5. PendingRevert' /\ EditSparesChildren'
  BY <1>3 DEF PendingRevert, EditSparesChildren
<1>6. Clean' => Followed'
  BY <1>3 DEF Followed
<1> QED  BY <1>4, <1>5, <1>6 DEF EditInv

LEMMA CountIs ==
    ASSUME Typed, NEW row, AppendEdit(row)
    PROVE  /\ count' \in [rows : Nat, external : Nat, tears : Nat]
           /\ Clean' => Clean
           /\ history' = history \/ history' = Append(history, row)
           /\ ~torn => history' = Append(history, row)
           /\ ~torn'
  BY DEF AppendEdit, Typed, Clean

LEMMA StopInv == ASSUME EditInv, NEW e \in Editors, Stop(e)  PROVE EditInv'
<1>1. UNCHANGED <<store, history, torn, count>> /\ pc[e] # "idle" /\ Release(e)
  BY DEF Stop
<1>2. RevertedOnce' /\ (Clean' => ~torn' /\ \A i \in Ids : Undoable(i)')
  BY <1>1 DEF EditInv, RevertedOnce, Clean, Followed, Undoable, Latest
<1> QED  BY <1>1, <1>2, Releasing DEF EditInv, Typed

LEMMA OpenInv == ASSUME EditInv, NEW e \in Editors, Open(e)  PROVE EditInv'
<1> DEFINE w == Holding(store, store, None)
<1>1. /\ pc' = [pc EXCEPT ![e] = "loaded"] /\ work' = [work EXCEPT ![e] = w]
      /\ lock = None /\ lock' = e /\ UNCHANGED <<store, history, torn, count>>
  BY DEF Open, Goto
<1>2. w.loaded = store /\ w.facts = store
  BY DEF Holding
<1> HIDE DEF w
<1>3. /\ \A q \in Editors \ {e} : pc'[q] = "idle"
      /\ pc'[e] = "loaded" /\ work'[e].loaded = store /\ work'[e].facts = store
  BY <1>1, <1>2, Exclusive DEF EditInv, Typed
<1>4. pc' \in [Editors -> {"idle", "loaded", "logged", "reverted"}] /\ work' = [q \in Editors |-> work'[q]]
  BY <1>1 DEF EditInv, Typed
<1>5. Typed'
  BY <1>1, <1>3, <1>4 DEF EditInv, Typed
<1>6. PendingRevert' /\ EditSparesChildren' /\ RevertedOnce'
  BY <1>1, <1>3 DEF EditInv, PendingRevert, EditSparesChildren, RevertedOnce
<1>7. Clean' => ~torn' /\ \A i \in Ids : Undoable(i)'
  BY <1>1 DEF EditInv, Clean, Followed, Undoable, Latest
<1>8. Clean' => Followed'
  BY <1>1, <1>3, <1>7 DEF Followed
<1> QED  BY <1>5, <1>6, <1>8 DEF EditInv

LEMMA WriteEditInv == ASSUME EditInv, NEW e \in Editors, WriteEdit(e)  PROVE EditInv'
<1>1. /\ pc[e] = "logged" /\ store' = work[e].facts /\ Release(e)
      /\ UNCHANGED <<history, torn, count>>
  BY DEF WriteEdit
<1>2. Shaped(store') /\ RevertedOnce'
  BY <1>1 DEF EditInv, Typed, RevertedOnce
<1>3. ASSUME Clean'
      PROVE  ~torn' /\ \A i \in Ids : Undoable(i)'
  <2>1. Followed /\ Logged(e) /\ \A i : Latest(i)' = Latest(i)
    BY <1>1, <1>3 DEF EditInv, Clean, Followed, Latest
  <2>2. ASSUME NEW i \in Ids
        PROVE  Undoable(i)'
    BY <1>1, <2>1 DEF Followed, Logged, Undoable
  <2> QED  BY <1>1, <2>1, <2>2 DEF Followed
<1> QED  BY <1>1, <1>2, <1>3, Releasing DEF EditInv, Typed

LEMMA LogRevertInv == ASSUME EditInv, NEW e \in Editors, LogRevert(e)  PROVE EditInv'
<1> DEFINE row == work[e].row
<1>1. pc[e] = "reverted" /\ AppendEdit(row) /\ Release(e) /\ store' = store /\ row \in Row
  BY DEF LogRevert, EditInv, Typed
<1> HIDE DEF row
<1>2. /\ RevertedOnce' /\ history' \in Seq(Row)
      /\ count' \in [rows : Nat, external : Nat, tears : Nat]
  <2>1. \A n \in Latest(row.id) : history[n].op = "edit"
    BY <1>1 DEF EditInv, PendingRevert, row
  <2> QED  BY <1>1, <2>1, OnceKept, CountIs DEF EditInv
<1>3. ASSUME Clean'
      PROVE  ~torn' /\ \A i \in Ids : Undoable(i)'
  <2>1. /\ Followed /\ history' = Append(history, row) /\ store[row.id].core = row.new
        /\ ~torn' /\ history \in Seq(Row)
    BY <1>1, <1>3, CountIs DEF EditInv, Followed, row, Typed
  <2>2. ASSUME NEW i \in Ids
        PROVE  Undoable(i)'
    <3>1. CASE i = row.id
      BY <1>1, <2>1, <3>1, Appended DEF Undoable
    <3>2. CASE i # row.id
      <4>1. Undoable(i)
        BY <2>1 DEF Followed
      <4> QED  BY <1>1, <2>1, <3>2, <4>1, StillUndoable
    <3> QED  BY <3>1, <3>2
  <2> QED  BY <2>1, <2>2
<1> QED  BY <1>1, <1>2, <1>3, Releasing DEF EditInv, Typed

LEMMA TearInv == ASSUME EditInv, NEW e \in Editors, TearAppend(e)  PROVE EditInv'
<1>1. pc[e] # "idle" /\ Release(e) /\ UNCHANGED <<store, history>>
  BY DEF TearAppend, MayEdit, MayRevert
<1>2. count' \in [rows : Nat, external : Nat, tears : Nat] /\ ~Clean'
  BY DEF TearAppend, EditInv, Typed, Clean
<1>3. RevertedOnce'
  BY <1>1 DEF EditInv, RevertedOnce
<1> QED  BY <1>1, <1>2, <1>3, Releasing DEF EditInv, Typed

LEMMA MissingRevertInv ==
    ASSUME EditInv, NEW e \in Editors, NEW i \in Ids, RecordMissingRevert(e, i)
    PROVE  EditInv'
<1> DEFINE core == work[e].loaded[i].core
           row == RowOf(i, "revert", core, core)
<1>1. /\ MayRevert(e, i) /\ AppendEdit(row) /\ Release(e) /\ store' = store /\ pc[e] = "loaded"
      /\ \E n \in Latest(i) : core = history[n].old
  BY DEF RecordMissingRevert, MayRevert
<1>2. row \in Row /\ row.id = i /\ row.old = core /\ row.new = core
  BY <1>1 DEF EditInv, Typed, Shaped, RowOf, Row
<1> HIDE DEF row
<1>3. \A n \in Latest(i) : history[n].op = "edit"
  <2>1. \A n \in Latest(i) : history[n] \in Row
    BY DEF Latest, EditInv, Typed
  <2> QED  BY <1>1, <2>1, LatestOne DEF MayRevert, EditInv, Typed, Row
<1>4. /\ RevertedOnce' /\ history' \in Seq(Row)
      /\ count' \in [rows : Nat, external : Nat, tears : Nat]
  BY <1>1, <1>2, <1>3, OnceKept, CountIs DEF EditInv
<1>5. ASSUME Clean'
      PROVE  ~torn' /\ \A j \in Ids : Undoable(j)'
  <2>1. /\ Followed /\ history' = Append(history, row) /\ work[e].loaded = store
        /\ ~torn' /\ history \in Seq(Row)
    BY <1>1, <1>5, CountIs DEF EditInv, Followed, Typed
  <2>2. ASSUME NEW j \in Ids
        PROVE  Undoable(j)'
    <3>1. CASE j = i
      BY <1>1, <1>2, <2>1, <3>1, Appended DEF Undoable
    <3>2. CASE j # i
      <4>1. Undoable(j) /\ store' = store
        BY <1>1, <2>1 DEF Followed
      <4> QED  BY <1>2, <2>1, <3>2, <4>1, StillUndoable
    <3> QED  BY <3>1, <3>2
  <2> QED  BY <2>1, <2>2
<1> QED  BY <1>1, <1>4, <1>5, Releasing DEF EditInv, Typed

(* A row in hand, and the facts that go with it.                           *)
LEMMA Working ==
    ASSUME EditInv, NEW e \in Editors, pc[e] # "idle", NEW label \in {"logged", "reverted"},
           NEW w, Goto(e, label), work' = [work EXCEPT ![e] = w], lock' = lock,
           Shaped(w.loaded), Shaped(w.facts), w.row \in Row, Shaped(store'), history' \in Seq(Row),
           count' \in [rows : Nat, external : Nat, tears : Nat], RevertedOnce',
           label = "reverted" => \A n \in Latest(w.row.id)' : history'[n].op = "edit",
           label = "logged" => \A i \in Ids \ {w.row.id}, key \in Keys :
              w.loaded[i] # None => Verify(w.facts, w.facts[i], key) = Verify(w.loaded, w.loaded[i], key)
    PROVE  /\ Typed' /\ PendingRevert' /\ EditSparesChildren' /\ RevertedOnce'
           /\ \A q \in Editors \ {e} : pc'[q] = "idle"
           /\ pc'[e] = label /\ work'[e] = w
<1>1. /\ pc' = [pc EXCEPT ![e] = label]
      /\ \A q \in Editors \ {e} : pc[q] = "idle"
  BY Exclusive DEF Goto, EditInv
<1>2. /\ \A q \in Editors \ {e} : pc'[q] = "idle"
      /\ pc'[e] = label /\ work'[e] = w
  BY <1>1 DEF EditInv, Typed
<1>3. pc' \in [Editors -> {"idle", "loaded", "logged", "reverted"}] /\ work' = [q \in Editors |-> work'[q]]
  BY <1>1 DEF EditInv, Typed
<1>4. Typed'
  BY <1>2, <1>3 DEF EditInv, Typed
<1>5. PendingRevert' /\ EditSparesChildren'
  BY <1>2 DEF PendingRevert, EditSparesChildren, Spares
<1> QED  BY <1>2, <1>4, <1>5

LEMMA LogEditInv ==
    ASSUME EditInv, NEW e \in Editors, NEW i \in Ids, NEW core \in Cores,
           NEW key \in Keys \cup {None}, LogEdit(e, i, core, key)
    PROVE  EditInv'
<1> DEFINE facts == work[e].loaded
           row == RowOf(i, "edit", facts[i].core, core)
           edited == Resigned(facts, i, core, key)
           w == Holding(facts, edited, row)
<1>1. /\ MayEdit(e, i) /\ AppendEdit(row) /\ work' = [work EXCEPT ![e] = w]
      /\ Goto(e, "logged") /\ UNCHANGED <<store, lock>> /\ pc[e] = "loaded"
  BY DEF LogEdit, MayEdit
<1>2. Shaped(facts)
  BY <1>1 DEF EditInv, Typed
<1>3. /\ row \in Row /\ row.id = i /\ row.old = facts[i].core /\ row.new = core
      /\ row.op = "edit"
  BY <1>2 DEF Shaped, RowOf, Row
<1>4. /\ Shaped(edited) /\ edited[i].core = core
      /\ \A j \in Ids \ {i} : edited[j] = facts[j]
  BY <1>2, ResignedIs
<1>5. w.loaded = facts /\ w.facts = edited /\ w.row = row
  BY DEF Holding
<1>6. Children(facts, i) = {}
  BY <1>1 DEF MayEdit
<1> HIDE DEF row, edited, w, facts
<1>7. /\ RevertedOnce' /\ history' \in Seq(Row)
      /\ count' \in [rows : Nat, external : Nat, tears : Nat]
  BY <1>1, <1>3, OnceKept, CountIs DEF EditInv
<1>8. \A j \in Ids \ {w.row.id}, k \in Keys :
         w.loaded[j] # None => Verify(w.facts, w.facts[j], k) = Verify(w.loaded, w.loaded[j], k)
  <2>1. w.row.id = i
    BY <1>3, <1>5
  <2>2. ASSUME NEW j \in Ids \ {i}, NEW k \in Keys, facts[j] # None
        PROVE  Verify(edited, edited[j], k) = Verify(facts, facts[j], k)
    BY <1>2, <1>4, <1>6, <2>2, SparesOthers
  <2> QED  BY <1>5, <2>1, <2>2
<1>9. /\ Typed' /\ PendingRevert' /\ EditSparesChildren' /\ RevertedOnce'
      /\ \A q \in Editors \ {e} : pc'[q] = "idle"
      /\ pc'[e] = "logged" /\ work'[e] = w
  <2>1. Shaped(store')
    BY <1>1 DEF EditInv, Typed
  <2> QED  BY <1>1, <1>2, <1>3, <1>4, <1>5, <1>7, <1>8, <2>1, Working
<1>10. ASSUME Clean'
       PROVE  Followed'
  <2>1. /\ Followed /\ history' = Append(history, row) /\ facts = store
        /\ ~torn' /\ history \in Seq(Row)
    BY <1>1, <1>10, CountIs DEF EditInv, Followed, Typed, facts
  <2>2. ASSUME NEW j \in Ids
        PROVE  Undoable(j)'
    <3>1. CASE j = i
      BY <1>1, <1>3, <2>1, <3>1, Appended DEF Undoable
    <3>2. CASE j # i
      <4>1. Undoable(j) /\ store' = store
        BY <1>1, <2>1 DEF Followed
      <4> QED  BY <1>3, <2>1, <3>2, <4>1, StillUndoable
    <3> QED  BY <3>1, <3>2
  <2>3. Logged(e)'
    <3>1. PICK r : r = row
      OBVIOUS
    <3>2. \E n \in Latest(r.id)' : history'[n] = r
      BY <1>3, <2>1, <3>1, Appended
    <3>3. work'[e].row = r /\ work'[e].facts = edited /\ store' = store
      BY <1>1, <1>5, <1>9, <3>1
    <3>4. r.old = store'[r.id].core
      BY <1>3, <2>1, <3>1, <3>3
    <3>5. \A j \in Ids : edited[j].core = (IF j = r.id THEN r.new ELSE store[j].core)
      BY <1>3, <1>4, <2>1, <3>1
    <3> QED  BY <3>2, <3>3, <3>4, <3>5 DEF Logged
  <2>4. work'[e].loaded = store'
    BY <1>1, <1>5, <1>9, <2>1
  <2> QED  BY <1>9, <2>1, <2>2, <2>3, <2>4 DEF Followed
<1> QED  BY <1>9, <1>10 DEF EditInv

LEMMA WriteRevertInv ==
    ASSUME EditInv, NEW e \in Editors, NEW i \in Ids, NEW key \in Keys \cup {None},
           WriteRevert(e, i, key)
    PROVE  EditInv'
<1> DEFINE facts == work[e].loaded
<1>1. PICK n \in Latest(i) :
         /\ facts[i].core = history[n].new
         /\ store' = Resigned(facts, i, history[n].old, key)
         /\ work' = [work EXCEPT ![e] =
                        Holding(facts, Resigned(facts, i, history[n].old, key),
                                RowOf(i, "revert", history[n].new, history[n].old))]
  BY DEF WriteRevert
<1>2. /\ MayRevert(e, i) /\ Goto(e, "reverted") /\ pc[e] = "loaded"
      /\ UNCHANGED <<history, torn, lock, count>>
  BY DEF WriteRevert, MayRevert
<1>3. Shaped(facts) /\ history[n] \in Row /\ history \in Seq(Row)
  BY <1>1, <1>2 DEF EditInv, Typed, Latest
<1> DEFINE old == history[n].old
           row == RowOf(i, "revert", history[n].new, old)
           reverted == Resigned(facts, i, old, key)
           w == Holding(facts, reverted, row)
<1>4. row \in Row /\ row.id = i /\ row.old = history[n].new /\ row.new = old
  BY <1>3 DEF RowOf, Row
<1>5. /\ Shaped(reverted) /\ reverted[i].core = old
      /\ \A j \in Ids \ {i} : reverted[j] = facts[j]
  BY <1>3, ResignedIs DEF Row
<1>6. w.loaded = facts /\ w.facts = reverted /\ w.row = row
  BY DEF Holding
<1>7. store' = reverted /\ work' = [work EXCEPT ![e] = w]
  BY <1>1
<1>8. \A j : Latest(j)' = Latest(j)
  BY <1>2 DEF Latest
<1> HIDE DEF row, reverted, w, facts
<1>9. \A m \in Latest(i) : history[m].op = "edit"
  <2>1. \A m \in Latest(i) : history[m] \in Row
    BY DEF Latest, EditInv, Typed
  <2> QED  BY <1>2, <1>3, <2>1, LatestOne DEF MayRevert, Row
<1>10. RevertedOnce' /\ count' \in [rows : Nat, external : Nat, tears : Nat]
  BY <1>2 DEF EditInv, Typed, RevertedOnce
<1>11. /\ Typed' /\ PendingRevert' /\ EditSparesChildren' /\ RevertedOnce'
       /\ \A q \in Editors \ {e} : pc'[q] = "idle"
       /\ pc'[e] = "reverted" /\ work'[e] = w
  <2>1. PICK v : v = w
    OBVIOUS
  <2>2. v.row.id = i
    BY <1>4, <1>6, <2>1
  <2>3. \A m \in Latest(v.row.id)' : history'[m].op = "edit"
    BY <1>2, <1>8, <1>9, <2>2
  <2>4. Shaped(v.loaded) /\ Shaped(v.facts) /\ v.row \in Row /\ Shaped(store')
    BY <1>3, <1>4, <1>5, <1>6, <1>7, <2>1
  <2>5. history' \in Seq(Row) /\ work' = [work EXCEPT ![e] = v] /\ lock' = lock
    BY <1>2, <1>3, <1>7, <2>1
  <2>6. /\ Typed' /\ PendingRevert' /\ EditSparesChildren' /\ RevertedOnce'
        /\ \A q \in Editors \ {e} : pc'[q] = "idle"
        /\ pc'[e] = "reverted" /\ work'[e] = v
    BY <1>2, <1>10, <2>3, <2>4, <2>5, Working
  <2> QED  BY <2>1, <2>6
<1>12. ASSUME Clean'
       PROVE  Followed'
  <2>1. Followed /\ facts = store
    BY <1>2, <1>12 DEF EditInv, Clean, Followed, facts
  <2>2. ASSUME NEW j \in Ids
        PROVE  Undoable(j)'
    <3>1. CASE j = i
      BY <1>1, <1>2, <1>5, <1>7, <1>8, <3>1 DEF Undoable
    <3>2. CASE j # i
      BY <1>2, <1>5, <1>7, <1>8, <2>1, <3>2 DEF Undoable, Followed
    <3> QED  BY <3>1, <3>2
  <2>3. store'[work'[e].row.id].core = work'[e].row.new
    BY <1>4, <1>5, <1>6, <1>7, <1>11
  <2> QED  BY <1>2, <1>11, <2>1, <2>2, <2>3 DEF Followed
<1> QED  BY <1>11, <1>12 DEF EditInv

LEMMA ExternalInv ==
    ASSUME EditInv, NEW i \in Ids, NEW core \in Cores, NEW key \in Keys, NEW ps \in SUBSET (Ids \ {i}),
           External(i, core, ps, key)
    PROVE  EditInv'
<1>1. /\ store' = [store EXCEPT ![i] = [core |-> core, att |-> Attest(store, core, ps, key)]]
      /\ UNCHANGED <<history, torn, lock, pc, work>>
      /\ count' = [count EXCEPT !.external = @ + 1]
  BY DEF External
<1>2. Attest(store, core, ps, key).parents \subseteq Ids
  BY DEF Attest
<1>3. Shaped(store')
  BY <1>1, <1>2 DEF EditInv, Typed, Shaped
<1>4. count' \in [rows : Nat, external : Nat, tears : Nat] /\ ~Clean'
  BY <1>1 DEF EditInv, Typed, Clean
<1>5. Typed'
  BY <1>1, <1>3, <1>4 DEF EditInv, Typed
<1>6. RevertedOnce' /\ PendingRevert' /\ EditSparesChildren'
  BY <1>1 DEF EditInv, RevertedOnce, PendingRevert, EditSparesChildren, Latest, Spares
<1> QED  BY <1>4, <1>5, <1>6 DEF EditInv

(* EditInv is an inductive invariant of the editors: it holds before the   *)
(* first edit, and every step of an editor, a kill and any other writer of *)
(* the store keeps it.                                                     *)
THEOREM EditInductive == Spec => []EditInv
<1>1. ASSUME Init
      PROVE  EditInv
  <2>1. PICK key \in Keys :
           store = [i \in Ids |->
                      [core |-> Start,
                       att |-> Attest([j \in Ids |-> [core |-> Start, att |-> None]], Start, {}, key)]]
    BY <1>1 DEF Init
  <2>2. Attest([j \in Ids |-> [core |-> Start, att |-> None]], Start, {}, key).parents = {}
    BY DEF Attest
  <2>3. Shaped(store) /\ \A i \in Ids : store[i].core = Start
    BY <2>1, <2>2, EditAssumption DEF Shaped, EditAssumption
  <2>4. history = <<>> /\ \A i : Latest(i) = {}
    BY <1>1 DEF Init, Latest
  <2>5. Typed
    BY <1>1, <2>3, <2>4 DEF Init, Typed
  <2>6. RevertedOnce
    BY <2>4 DEF RevertedOnce
  <2> QED  BY <1>1, <2>3, <2>4, <2>5, <2>6
           DEF Init, EditInv, PendingRevert, EditSparesChildren, Followed, Undoable
<1>2. ASSUME EditInv, [Next]_vars
      PROVE  EditInv'
  <2>1. ASSUME NEW e \in Editors, Editing(e)
        PROVE  EditInv'
    BY <1>2, <2>1, OpenInv, StopInv, WriteEditInv, LogRevertInv, TearInv, WriteRevertInv, LogEditInv,
       MissingRevertInv DEF Editing
  <2>2. ASSUME NEW i \in Ids, NEW core \in Cores, NEW key \in Keys, NEW ps \in SUBSET (Ids \ {i}),
               External(i, core, ps, key)
        PROVE  EditInv'
    BY <1>2, <2>2, ExternalInv
  <2>3. CASE UNCHANGED vars
    BY <1>2, <2>3 DEF vars, EditInv, Typed, RevertedOnce, PendingRevert, EditSparesChildren, Spares,
       Clean, Followed, Undoable, Logged, Latest
  <2> QED  BY <1>2, <2>1, <2>2, <2>3 DEF Next
<1> QED  BY <1>1, <1>2, PTL DEF Spec

-----------------------------------------------------------------------------
(* Whatever an editor dies between, the last row of a fact tells what it   *)
(* says or what a revert restores, while no other tool writes and no       *)
(* append tears (_apply_edit, _revert).                                    *)
THEOREM UndoStaysKnown == Spec => []UndoKnown
<1>1. EditInv => UndoKnown
  BY DEF EditInv, Clean, Followed, UndoKnown
<1> QED  BY <1>1, EditInductive, PTL

(* No change is reverted twice, whoever else writes and whatever tears.    *)
THEOREM RevertsOnce == Spec => []RevertedOnce
<1>1. EditInv => RevertedOnce
  BY DEF EditInv
<1> QED  BY <1>1, EditInductive, PTL

(* An edit turns no other fact suspect.                                    *)
THEOREM EditsSpareChildren == Spec => []EditSparesChildren
<1>1. EditInv => EditSparesChildren
  BY DEF EditInv
<1> QED  BY <1>1, EditInductive, PTL

(* Editors overwrite no content that the history does not hold.            *)
THEOREM EditsLoseNothing == Spec => NothingLost
<1>1. ASSUME EditInv, [Next]_vars, NEW i \in Ids, store'[i].core # store[i].core,
             count'.external = 0, count.tears = 0
      PROVE  \E n \in Latest(i) :
                \/ history[n].old = store[i].core
                \/ history[n].new = store[i].core /\ history[n].old = store'[i].core
  <2>1. ASSUME NEW e \in Editors, WriteEdit(e)
        PROVE  \E n \in Latest(i) : history[n].old = store[i].core
    <3>1. count = count' /\ pc[e] = "logged" /\ store' = work[e].facts
      BY <2>1 DEF WriteEdit
    <3>2. Logged(e)
      BY <1>1, <3>1 DEF EditInv, Clean, Followed
    <3> QED  BY <1>1, <3>1, <3>2 DEF Logged
  <2>2. ASSUME NEW e \in Editors, NEW j \in Ids, NEW key, WriteRevert(e, j, key)
        PROVE  \E n \in Latest(i) : history[n].new = store[i].core /\ history[n].old = store'[i].core
    <3>1. count = count' /\ pc[e] = "loaded" /\ work[e].loaded = store
      BY <1>1, <2>2 DEF WriteRevert, MayRevert, EditInv, Clean, Followed
    <3>2. PICK n \in Latest(j) : /\ store[j].core = history[n].new
                                /\ store' = Resigned(store, j, history[n].old, key)
      BY <2>2, <3>1 DEF WriteRevert
    <3>3. history[n].old \in Cores /\ Shaped(store)
      <4>1. history[n] \in Row /\ Shaped(store)
        BY <1>1, <3>2 DEF EditInv, Typed, Latest
      <4> QED  BY <4>1 DEF Row
    <3>4. store'[j].core = history[n].old /\ \A l \in Ids \ {j} : store'[l] = store[l]
      BY <3>2, <3>3, ResignedIs
    <3> QED  BY <1>1, <3>2, <3>4
  <2>3. ASSUME NEW j \in Ids, NEW core \in Cores, NEW key \in Keys, NEW ps, External(j, core, ps, key)
        PROVE  FALSE
    BY <1>1, <2>3 DEF External, EditInv, Typed
  <2> QED  BY <1>1, <2>1, <2>2, <2>3 DEF Next, Editing, Open, Stop, LogRevert, TearAppend, LogEdit,
           RecordMissingRevert, vars
<1>2. EditInv /\ [Next]_vars =>
         [\A i \in Ids :
          store'[i].core # store[i].core /\ count'.external = 0 /\ count.tears = 0 =>
              \E n \in Latest(i) :
                 \/ history[n].old = store[i].core
                 \/ history[n].new = store[i].core /\ history[n].old = store'[i].core]_vars
  BY <1>1
<1> QED  BY <1>2, EditInductive, PTL DEF Spec, NothingLost

=============================================================================
