----------------------------- MODULE EditHistory -----------------------------
(***************************************************************************)
(* Editing and reverting facts in place (bin/edit-fact.py).  A command     *)
(* holds an advisory lock that only its own kind honours, loads the store, *)
(* and changes one fact in two writes: a row of fact-edits.jsonl and the   *)
(* store, in this order for an edit and in the other for a revert.         *)
(*                                                                         *)
(* Content is the core of a fact (Attestation); the tools that rewrite     *)
(* the store without the lock are External.  An append that fails and      *)
(* cannot be rolled back, or a power loss in it, leaves a torn row with no  *)
(* line feed.  v2 claims and malformed records, which are refused, are     *)
(* left out, and so is the hash that guards a row against corruption.      *)
(***************************************************************************)
EXTENDS Attestation, Integers, Sequences

CONSTANTS
    Editors,        \* processes that run edit-fact
    Start,          \* what every fact says at first
    MaxRows,        \* bound of the model: rows appended
    MaxExternal,    \* bound of the model: writes by other tools
    MaxTorn         \* bound of the model: rows torn

ASSUME EditAssumption == /\ None \notin Ids \cup Editors
                         /\ Start \in Cores
                         /\ {MaxRows, MaxExternal, MaxTorn} \subseteq Nat

VARIABLES
    store,      \* facts.json
    history,    \* the rows load_edits reads back from fact-edits.jsonl
    torn,       \* the file ends in a row without a line feed
    lock,       \* the editor that holds .edit-fact.lock, or None
    pc,         \* pc[e]: where editor e is
    work,       \* work[e]: the facts e loaded, as it changed them, its row
    count       \* rows, writes of other tools and tears so far

vars == <<store, history, torn, lock, pc, work, count>>

Row == [id : Ids, op : {"edit", "revert"}, old : Cores, new : Cores]

ETypeOK ==
    /\ store \in Store
    /\ history \in Seq(Row)
    /\ torn \in BOOLEAN
    /\ lock \in Editors \cup {None}
    /\ pc \in [Editors -> {"idle", "loaded", "logged", "reverted"}]
    /\ \A e \in Editors : pc[e] # "idle" <=> lock = e
    /\ \A e \in Editors : pc[e] # "idle" => work[e].facts \in Store
    /\ \A e \in Editors : pc[e] \in {"logged", "reverted"} => work[e].row \in Row
    /\ Len(history) <= count.rows

Holding(loaded, facts, row) == [loaded |-> loaded, facts |-> facts, row |-> row]

Idle == Holding(None, None, None)

Init ==
    /\ \E key \in Keys :
          LET unsigned == [i \in Ids |-> [core |-> Start, att |-> None]]
          IN  store = [i \in Ids |-> [core |-> Start,
                                     att |-> Attest(unsigned, Start, {}, key)]]
    /\ history = <<>>
    /\ torn = FALSE
    /\ lock = None
    /\ pc = [e \in Editors |-> "idle"]
    /\ work = [e \in Editors |-> Idle]
    /\ count = [rows |-> 0, external |-> 0, tears |-> 0]

-----------------------------------------------------------------------------
(* Where the last row of fact i is, if it has one. *)
Latest(i) ==
    {n \in DOMAIN history : /\ history[n].id = i
                            /\ \A m \in DOMAIN history : history[m].id = i => m <= n}

Children(s, i) == {j \in Ids \ {i} : s[j] # None /\ i \in ParentsOf(s[j])}

(* _resign: with the signing key, or None and the attestation goes. *)
Resigned(s, i, core, key) ==
    LET edited == [s EXCEPT ![i].core = core]
    IN  [edited EXCEPT ![i].att =
            IF key = None THEN None ELSE Attest(edited, core, ParentsOf(s[i]), key)]

RowOf(i, op, old, new) == [id |-> i, op |-> op, old |-> old, new |-> new]

Goto(e, label) == pc' = [pc EXCEPT ![e] = label]

(* The lock goes with the process, whatever ended it. *)
Release(e) ==
    /\ lock' = None
    /\ Goto(e, "idle")
    /\ work' = [work EXCEPT ![e] = Idle]

(* append_edit.  A row appended after a torn one continues its line, which *)
(* is then malformed, so load_edits skips both.                            *)
AppendEdit(row) ==
    /\ count.rows < MaxRows
    /\ count' = [count EXCEPT !.rows = @ + 1]
    /\ history' = IF torn THEN history ELSE Append(history, row)
    /\ torn' = FALSE

(* Slip: the lock is not waited for. *)
OpenUnlocked(e) ==
    /\ pc[e] = "idle"
    /\ lock' = e
    /\ Goto(e, "loaded")
    /\ work' = [work EXCEPT ![e] = Holding(store, store, None)]
    /\ UNCHANGED <<store, history, torn, count>>

Open(e) ==
    /\ lock = None
    /\ lock' = e
    /\ Goto(e, "loaded")
    /\ work' = [work EXCEPT ![e] = Holding(store, store, None)]
    /\ UNCHANGED <<store, history, torn, count>>

(* Refused, failed or killed, before or between the writes. *)
Stop(e) ==
    /\ pc[e] # "idle"
    /\ Release(e)
    /\ UNCHANGED <<store, history, torn, count>>

-----------------------------------------------------------------------------
(* Slip: a fact others descend from is edited. *)
MayEditParent(e, i) == pc[e] = "loaded" /\ work[e].loaded[i] # None

(* _apply_edit: editing a parent would leave its children suspect. *)
MayEdit(e, i) ==
    /\ pc[e] = "loaded"
    /\ work[e].loaded[i] # None
    /\ Children(work[e].loaded, i) = {}

(* Slip: the old content is read after it was replaced. *)
LogEditOfNew(e, i, core, key) ==
    /\ MayEdit(e, i)
    /\ LET facts == work[e].loaded
           row == RowOf(i, "edit", core, core)
       IN  /\ AppendEdit(row)
           /\ work' = [work EXCEPT ![e] = Holding(facts, Resigned(facts, i, core, key), row)]
    /\ Goto(e, "logged")
    /\ UNCHANGED <<store, lock>>

(* The row is logged before the store is written. *)
LogEdit(e, i, core, key) ==
    /\ MayEdit(e, i)
    /\ LET facts == work[e].loaded
           row == RowOf(i, "edit", facts[i].core, core)
       IN  /\ AppendEdit(row)
           /\ work' = [work EXCEPT ![e] = Holding(facts, Resigned(facts, i, core, key), row)]
    /\ Goto(e, "logged")
    /\ UNCHANGED <<store, lock>>

WriteEdit(e) ==
    /\ pc[e] = "logged"
    /\ store' = work[e].facts
    /\ Release(e)
    /\ UNCHANGED <<history, torn, count>>

(* Slip: any last change is undone. *)
MayRevertTwice(e, i) ==
    pc[e] = "loaded" /\ work[e].loaded[i] # None /\ Latest(i) # {}

(* _revert refuses a second revert in a row. *)
MayRevert(e, i) ==
    /\ pc[e] = "loaded"
    /\ work[e].loaded[i] # None
    /\ \E n \in Latest(i) : history[n].op # "revert"

(* The fact is already what it was before its last edit. *)
RecordMissingRevert(e, i) ==
    /\ MayRevert(e, i)
    /\ LET core == work[e].loaded[i].core
       IN  /\ \E n \in Latest(i) : core = history[n].old
           /\ AppendEdit(RowOf(i, "revert", core, core))
    /\ Release(e)
    /\ UNCHANGED store

(* Only what the last edit made is undone. *)
WriteRevert(e, i, key) ==
    /\ MayRevert(e, i)
    /\ \E n \in Latest(i) :
          LET facts == work[e].loaded
              last == history[n]
              reverted == Resigned(facts, i, last.old, key)
          IN  /\ last.old # last.new
              /\ facts[i].core = last.new
              /\ store' = reverted
              /\ work' = [work EXCEPT ![e] =
                             Holding(facts, reverted, RowOf(i, "revert", last.new, last.old))]
    /\ Goto(e, "reverted")
    /\ UNCHANGED <<history, torn, lock, count>>

LogRevert(e) ==
    /\ pc[e] = "reverted"
    /\ AppendEdit(work[e].row)
    /\ Release(e)
    /\ UNCHANGED store

(* An append that fails half way and is not rolled back. *)
TearAppend(e) ==
    /\ \/ \E i \in Ids : MayEdit(e, i) \/ MayRevert(e, i)
       \/ pc[e] = "reverted"
    /\ count.tears < MaxTorn
    /\ count' = [count EXCEPT !.tears = @ + 1]
    /\ torn' = TRUE
    /\ Release(e)
    /\ UNCHANGED <<store, history>>

-----------------------------------------------------------------------------
(* Another tool stores a fact, signed, with the parents it was derived of. *)
External(i, core, ps, key) ==
    /\ count.external < MaxExternal
    /\ count' = [count EXCEPT !.external = @ + 1]
    /\ store' = [store EXCEPT ![i] = [core |-> core, att |-> Attest(store, core, ps, key)]]
    /\ UNCHANGED <<history, torn, lock, pc, work>>

Editing(e) ==
    \/ Open(e) \/ Stop(e) \/ WriteEdit(e) \/ LogRevert(e) \/ TearAppend(e)
    \/ \E i \in Ids :
          \/ \E key \in Keys \cup {None} :
                WriteRevert(e, i, key) \/ \E core \in Cores : LogEdit(e, i, core, key)
          \/ RecordMissingRevert(e, i)

Next ==
    \/ \E e \in Editors : Editing(e)
    \/ \E i \in Ids, core \in Cores, key \in Keys :
          \E ps \in SUBSET (Ids \ {i}) : External(i, core, ps, key)

Spec == Init /\ [][Next]_vars

-----------------------------------------------------------------------------
(* What fact i says is what its last row produced, or what it restores, so *)
(* that a revert is never refused as an out-of-band change.                *)
Undoable(i) ==
    \/ Latest(i) = {} /\ store[i].core = Start
    \/ \E n \in Latest(i) : store[i].core \in {history[n].old, history[n].new}

(* "A crash between the two must never leave an edited store with no revert *)
(* row" (_apply_edit), between whichever two writes, of whichever editors: *)
(* so it is while no other tool writes and no append tears.                *)
UndoKnown ==
    count.external = 0 /\ count.tears = 0 => \A i \in Ids : Undoable(i)

(* Editors overwrite no content that the history does not hold: it was      *)
(* logged before it went, or it gives way to the content logged last.      *)
NothingLost ==
    [][\A i \in Ids :
          store'[i].core # store[i].core /\ count'.external = 0 /\ count.tears = 0 =>
              \E n \in Latest(i) :
                 \/ history[n].old = store[i].core
                 \/ history[n].new = store[i].core /\ history[n].old = store'[i].core]_vars

(* A change is reverted once: of two rows of a fact in a row, one is an     *)
(* edit ("a second revert would re-apply the undone edit", _revert).       *)
RevertedOnce ==
    \A n, m \in DOMAIN history :
        /\ n < m /\ history[n].id = history[m].id
        /\ \A k \in (n + 1)..(m - 1) : history[k].id # history[m].id
        => history[n].op = "edit" \/ history[m].op = "edit"

Spares(e) ==
    \A i \in Ids \ {work[e].row.id}, key \in Keys :
        work[e].loaded[i] # None =>
            Verify(work[e].facts, work[e].facts[i], key)
                = Verify(work[e].loaded, work[e].loaded[i], key)

(* An edit changes the verdict on no other fact: editing a parent would     *)
(* turn its children suspect (_apply_edit).                                *)
EditSparesChildren == \A e \in Editors : pc[e] = "logged" => Spares(e)

=============================================================================
