----------------------------- MODULE Attestation -----------------------------
(***************************************************************************)
(* Attestations of facts, after bin/_sign.py: what signing a store attaches *)
(* to each fact and which of four verdicts verification reaches.           *)
(*                                                                         *)
(* A hash is the value it is taken of, so a fact's content is its core and *)
(* a signature is the key and the payload it was made with; signatures are *)
(* never forged.  A claim fact (contract v2) is a fact without parents.    *)
(* An attestation of the wrong shape is not modelled.                      *)
(***************************************************************************)

CONSTANTS
    Ids,        \* fact identifiers
    Cores,      \* what a fact can say: content, kind, entity and source
    Keys,       \* signing keys
    None        \* an absent fact, attestation or parent

ASSUME AttestationAssumption == None \notin Cores

(* What a signature covers: the fact, and its parents as they were. *)
Payload == UNION {[core : Cores, parents : [ps -> Cores \cup {None}]] :
                     ps \in SUBSET Ids}

Signature == [key : Keys, payload : Payload]

Attested == [core : Cores, parents : SUBSET Ids, sig : Signature]

Fact == [core : Cores, att : Attested \cup {None}]

Store == [Ids -> Fact \cup {None}]

Verdict == {"valid", "tampered", "unsigned", "parent-suspect"}

-----------------------------------------------------------------------------
(* _parent_hashes: an absent parent hashes its id alone. *)
ParentCores(s, ps) == [p \in ps |-> IF s[p] = None THEN None ELSE s[p].core]

SignedPayload(s, core, ps) == [core |-> core, parents |-> ParentCores(s, ps)]

(* attest_fact *)
Attest(s, core, ps, key) ==
    [core |-> core, parents |-> ps,
     sig |-> [key |-> key, payload |-> SignedPayload(s, core, ps)]]

ParentsOf(f) == IF f.att = None THEN {} ELSE f.att.parents

(* sign_facts: every fact anew, with the parents it already names. *)
SignAll(s, key) ==
    [i \in Ids |-> IF s[i] = None THEN None
                   ELSE [s[i] EXCEPT !.att =
                            Attest(s, s[i].core, ParentsOf(s[i]), key)]]

-----------------------------------------------------------------------------
(* _parent_set_moved: a parent is gone, or is not what it is attested as. *)
ParentsMoved(s, ps) ==
    \E p \in ps : \/ s[p] = None
                  \/ s[p].att # None /\ s[p].core # s[p].att.core

SignatureHolds(sig, key, payload) == sig = [key |-> key, payload |-> payload]

(* The verdict on a signature that does not verify. *)
FailStatus(s, f) ==
    IF ParentsMoved(s, f.att.parents) THEN "parent-suspect" ELSE "tampered"

PayloadNow(s, f) == SignedPayload(s, f.att.core, f.att.parents)

(* The checks verify_fact makes before it looks at the signature. *)
ReachesSignature(f) == f.att # None /\ f.core = f.att.core

(* verify_fact without a cache. *)
Verify(s, f, key) ==
    IF f.att = None THEN "unsigned"
    ELSE IF f.core # f.att.core THEN "tampered"
    ELSE IF SignatureHolds(f.att.sig, key, PayloadNow(s, f)) THEN "valid"
    ELSE FailStatus(s, f)

=============================================================================
