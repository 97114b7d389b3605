---------------------------- MODULE CustomerFacts ----------------------------
(***************************************************************************)
(* The records of a customer store: the fact list and the revocation       *)
(* events, what an event does to the list, and when the two agree.  Both   *)
(* the abstract memory and the store on disk are written with these.       *)
(***************************************************************************)
EXTENDS Naturals, Sequences

CONSTANTS
    Ids,        \* fact identifiers: the hash of a fact's kind and content
    None,       \* no fact (and, elsewhere, no process, journal or proposal)
    Current     \* the status of a fact that is held and not superseded

ASSUME FactsAssumption == /\ None \notin Ids
                          /\ Current \notin Ids
                          /\ None # Current

(* A fact list: f[i] is None if i is not listed, Current, or the           *)
(* identifier of the fact that superseded i.                               *)
FactList == [Ids -> Ids \cup {None, Current}]

NoFacts == [i \in Ids |-> None]

(* A revocation event: id was corrected by another fact, or forgotten.     *)
Event == [id : Ids, by : Ids \cup {None}]

Events(r) == {r[k] : k \in DOMAIN r}

RevokedIds(r) == {e.id : e \in Events(r)}

-----------------------------------------------------------------------------
(* Effects on the fact list. *)

AddFacts(f, new) == [i \in Ids |-> IF i \in new THEN Current ELSE f[i]]

Supersede(f, i, r) == [f EXCEPT ![i] = r, ![r] = Current]

Erase(f, i) == [f EXCEPT ![i] = None]

AfterEvent(f, e) == IF e.by = None THEN Erase(f, e.id)
                                   ELSE Supersede(f, e.id, e.by)

(* Slip: the replacement may already be listed. *)
EligibleIfListed(f, r, e) ==
    /\ f[e.id] # None
    /\ e.by # None => /\ f[e.id] = Current
                      /\ e.by # e.id
                      /\ e.by \notin RevokedIds(r)

(* An event may be applied: its target is listed, and a correction replaces *)
(* a current fact by one that is neither listed nor revoked.               *)
Eligible(f, r, e) ==
    /\ f[e.id] # None
    /\ e.by # None => /\ f[e.id] = Current
                      /\ e.by # e.id
                      /\ f[e.by] = None
                      /\ e.by \notin RevokedIds(r)

(* The list and the events agree: a forgotten fact is not listed, a revoked *)
(* one is not current, a superseded one has its event, and a correction's  *)
(* replacement is still listed or was itself revoked.                      *)
LifecycleOK(f, r) ==
    /\ \A e \in Events(r) :
          /\ e.by = None => f[e.id] = None
          /\ f[e.id] # Current
          /\ e.by # None => f[e.by] # None \/ e.by \in RevokedIds(r)
    /\ \A i \in Ids : f[i] \in Ids => [id |-> i, by |-> f[i]] \in Events(r)

(* The list `after` is what the event makes of the list `before`. *)
Transition(before, after, e) ==
    /\ before[e.id] # None
    /\ e.by # None => before[e.id] = Current /\ before[e.by] = None
    /\ after = AfterEvent(before, e)

=============================================================================
