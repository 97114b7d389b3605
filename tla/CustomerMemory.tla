--------------------------- MODULE CustomerMemory ---------------------------
(***************************************************************************)
(* What a customer store promises its owner, whatever crashes and whoever  *)
(* else is using it: a memory of reviewed facts that changes only by       *)
(* importing new facts, by correcting a current fact with a new one, or by *)
(* forgetting a fact, each as one indivisible step, and that never takes   *)
(* back an identifier it has revoked.  CustomerStore implements it with    *)
(* two files, a journal and a lock.                                        *)
(***************************************************************************)
EXTENDS CustomerFacts

VARIABLES
    mem,        \* the fact list
    gone        \* every identifier that was ever corrected or forgotten

mvars == <<mem, gone>>

MTypeOK == /\ mem \in FactList
           /\ gone \subseteq Ids

MInit == /\ mem = NoFacts
         /\ gone = {}

(* A fact may enter the memory only if it is not held and never was revoked. *)
Fresh(i) == mem[i] = None /\ i \notin gone

Import(new) == /\ new # {}
               /\ \A i \in new : Fresh(i)
               /\ mem' = AddFacts(mem, new)
               /\ UNCHANGED gone

Correct(i, r) == /\ mem[i] = Current
                 /\ Fresh(r)
                 /\ mem' = Supersede(mem, i, r)
                 /\ gone' = gone \cup {i}

Forget(i) == /\ mem[i] # None
             /\ mem' = Erase(mem, i)
             /\ gone' = gone \cup {i}

MNext == \/ \E new \in SUBSET Ids : Import(new)
         \/ \E i, r \in Ids : Correct(i, r)
         \/ \E i \in Ids : Forget(i)

MSpec == MInit /\ [][MNext]_mvars

=============================================================================
