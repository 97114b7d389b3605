--------------------------- MODULE CustomerRecall ---------------------------
(***************************************************************************)
(* The UserPromptSubmit hook's recall (bin/_consumer_hooks.py) beside the  *)
(* locked sessions of CustomerStore.  Recall takes no lock: it looks for   *)
(* signs of a publication in progress, stamps the files, reads them,       *)
(* validates what it read, and looks again.  Any doubt ends it without an  *)
(* answer (the adapter fails open).                                        *)
(*                                                                         *)
(* A stamp identifies one version of a file: a file's stamp has changed    *)
(* exactly when the file was replaced since.  The manifest, the public key *)
(* and the purge ledger, stamped and read with the two files, never        *)
(* change.  Ranking and rendering happen on the private copy.              *)
(***************************************************************************)
EXTENDS CustomerStore

VARIABLES
    rpc,        \* the recall's next step
    snap,       \* what it has read: facts.json and revocations.jsonl
    moved,      \* the stamped files that were replaced since
    seen        \* (history) every memory committed since the recall began

reader == <<rpc, snap, moved, seen>>
rvars == <<vars, reader>>

CommittedMemory == [mem |-> Committed, gone |-> Revoked]

RTypeOK ==
    /\ TypeOK
    /\ rpc \in {"idle", "journal", "stampFacts", "stampRevs", "readFacts",
                "readRevs", "validate", "temps", "facts", "revs",
                "journalAgain", "rendered"}
    /\ snap \in GenerationSet
    /\ moved \subseteq {"facts", "revs"}
    /\ seen \subseteq [mem : FactList, gone : SUBSET Ids]

NoSnapshot == [facts |-> NoFacts, revs |-> <<>>]

RInit ==
    /\ Init
    /\ rpc = "idle"
    /\ snap = NoSnapshot
    /\ moved = {}
    /\ seen = {}

-----------------------------------------------------------------------------
(* The recall, in the order of its reads. *)

(* The recall ends without an answer. *)
GiveUp ==
    /\ rpc' = "idle"
    /\ snap' = NoSnapshot
    /\ moved' = {}
    /\ seen' = {}

(* A check either lets the recall go on or ends it. *)
Check(ok, next) ==
    IF ok THEN rpc' = next /\ UNCHANGED <<snap, moved, seen>> ELSE GiveUp

StartRecall ==
    /\ rpc = "idle"
    /\ temps = 0
    /\ rpc' = "journal"
    /\ seen' = {CommittedMemory}
    /\ UNCHANGED <<snap, moved>>

CheckJournal == rpc = "journal" /\ Check(journal = None, "stampFacts")

StampFacts ==
    /\ rpc = "stampFacts"
    /\ rpc' = "stampRevs"
    /\ UNCHANGED <<snap, moved, seen>>

StampRevocations ==
    /\ rpc = "stampRevs"
    /\ rpc' = "readFacts"
    /\ UNCHANGED <<snap, moved, seen>>

ReadFacts ==
    /\ rpc = "readFacts"
    /\ snap' = [snap EXCEPT !.facts = facts]
    /\ rpc' = "readRevs"
    /\ UNCHANGED <<moved, seen>>

ReadRevocations ==
    /\ rpc = "readRevs"
    /\ snap' = [snap EXCEPT !.revs = revs]
    /\ rpc' = "validate"
    /\ UNCHANGED <<moved, seen>>

(* Slip: the two files are not compared with each other. *)
ValidateNothing == rpc = "validate" /\ Check(TRUE, "temps")

Validate == rpc = "validate" /\ Check(LifecycleOK(snap.facts, snap.revs), "temps")

RecheckTemps == rpc = "temps" /\ Check(temps = 0, "facts")

RecheckFacts == rpc = "facts" /\ Check("facts" \notin moved, "revs")

RecheckRevocations == rpc = "revs" /\ Check("revs" \notin moved, "journalAgain")

RecheckJournal == rpc = "journalAgain" /\ Check(journal = None, "rendered")

(* The answer is injected into the prompt; the scratch copy is deleted. *)
EndRecall == rpc = "rendered" /\ GiveUp

RecallStep ==
    /\ \/ StartRecall \/ CheckJournal \/ StampFacts \/ StampRevocations
       \/ ReadFacts \/ ReadRevocations \/ Validate \/ RecheckTemps
       \/ RecheckFacts \/ RecheckRevocations \/ RecheckJournal \/ EndRecall
    /\ UNCHANGED vars

-----------------------------------------------------------------------------
(* A locked session's step, as the recall's stamps will show it. *)

StampTaken(file) ==
    /\ rpc \notin {"idle", "journal", "stampFacts"}
    /\ file = "revs" => rpc # "stampRevs"

StoreStep ==
    /\ Next
    /\ moved' = moved \cup {f \in {"facts", "revs"} :
                               /\ StampTaken(f)
                               /\ \/ f = "facts" /\ facts' # facts
                                  \/ f = "revs" /\ revs' # revs}
    /\ seen' = IF rpc = "idle" THEN seen ELSE seen \cup {CommittedMemory'}
    /\ UNCHANGED <<rpc, snap>>

RNext == RecallStep \/ StoreStep

RSpec == RInit /\ [][RNext]_rvars

-----------------------------------------------------------------------------
(* What a recall answers from was the committed memory at some moment while *)
(* it ran: never a mixture of two versions, never a fact forgotten before  *)
(* it began, although it reads two files without the lock.                 *)
RecallIsLinearizable ==
    rpc = "rendered" =>
        [mem |-> snap.facts, gone |-> RevokedIds(snap.revs)] \in seen

=============================================================================
