---------------------------- MODULE CustomerStore ----------------------------
(***************************************************************************)
(* The customer store of bin/_consumer_store.py: a directory holding       *)
(* facts.json, revocations.jsonl, a queue of saved proposals and, while a  *)
(* correction or an erasure is being carried out, a signed journal.        *)
(*                                                                         *)
(* Each command of bin/consumer-brain.py, and the Stop hook's capture, is  *)
(* a process that takes the store's file lock, loads and validates the     *)
(* directory, performs one operation and exits.  Every change of the disk  *)
(* is one action (a temporary file appearing, a rename, an unlink), so a   *)
(* process may raise or be killed between any two of them.                 *)
(*                                                                         *)
(* Abstractions.  A fact is its identifier and its status: the list order, *)
(* text, evidence, timestamps and signatures are left out (what this store *)
(* signed verifies).  A digest is the value it is taken of: a generation   *)
(* is the pair of contents it hashes.  Temporary files are counted.  Only  *)
(* locked sessions write the store's own files.                            *)
(***************************************************************************)
EXTENDS CustomerFacts, FiniteSets

CONSTANTS
    Procs,          \* the processes that may open the store
    MaxProposals,   \* MAX_PROPOSALS, the capacity of the review queue
    MaxTemps,       \* MAX_TRANSACTION_TEMPS, the leftovers a load tolerates
    MaxFaults       \* bound of the model: crashes, failures, foreign outputs

ASSUME StoreAssumption == /\ None \notin Procs
                          /\ MaxProposals \in Nat \ {0}
                          /\ MaxTemps \in Nat
                          /\ MaxFaults \in Nat

VARIABLES
    facts,      \* facts.json
    revs,       \* revocations.jsonl, a sequence of events
    journal,    \* .customer-journal.json, or None
    temps,      \* number of transaction temporaries in the directory
    proposals,  \* the files of proposals/
    derived,    \* some derived output (vault, sidecar, ...) is present
    lock,       \* holder of .customer.lock, or None
    pc,         \* pc[p]: where process p is in its command
    view,       \* view[p]: the generation p captured when it loaded
    want,       \* want[p]: the proposal p is saving or applying, or None
    faults      \* crashes, failures and foreign outputs so far

disk == <<facts, revs, journal, temps, proposals, derived>>
vars == <<disk, lock, pc, view, want, faults>>

-----------------------------------------------------------------------------
(* Records. *)

GenerationSet == [facts : FactList, revs : Seq(Event)]

(* A proposal offers the facts ids for import if its event is None, and    *)
(* otherwise the event, with the replacement's text in ids.                *)
Proposal == [ids : SUBSET Ids, event : Event \cup {None}, gen : GenerationSet]

Journal == [before : GenerationSet, after : FactList, event : Event]

(* Slip: the generation covers the fact list only. *)
GenerationOfFacts == [facts |-> facts, revs |-> <<>>]

Generation == [facts |-> facts, revs |-> revs]

RecoveryRequired == journal # None \/ temps > 0

(* The journal belongs to the files: facts.json is from before or after    *)
(* the event, revocations.jsonl lacks it or ends with it.                  *)
JournalOK ==
    /\ facts \in {journal.before.facts, journal.after}
    /\ \/ revs = journal.before.revs
       \/ revs = Append(journal.before.revs, journal.event)
    /\ facts = journal.before.facts =>
          Transition(facts, journal.after, journal.event)

(* The files are consistent enough for a session to open the store. *)
Readable == IF journal # None THEN JournalOK ELSE LifecycleOK(facts, revs)

Loadable == temps <= MaxTemps /\ Readable

TypeOK ==
    /\ facts \in FactList
    /\ revs \in Seq(Event)
    /\ journal \in Journal \cup {None}
    /\ temps \in Nat
    /\ proposals \subseteq Proposal
    /\ derived \in BOOLEAN
    /\ lock \in Procs \cup {None}
    /\ pc \in [Procs -> {"idle", "open", "blocked", "saving", "importing",
                         "journaling", "recovering", "revoking", "revoked",
                         "rewriting", "rewritten", "sweeping", "clearing",
                         "retiring"}]
    /\ view \in [Procs -> GenerationSet \cup {None}]
    /\ want \in [Procs -> Proposal \cup {None}]
    /\ faults \in 0..MaxFaults

Init ==
    /\ facts = NoFacts
    /\ revs = <<>>
    /\ journal = None
    /\ temps = 0
    /\ proposals = {}
    /\ derived = FALSE
    /\ lock = None
    /\ pc = [p \in Procs |-> "idle"]
    /\ view = [p \in Procs |-> None]
    /\ want = [p \in Procs |-> None]
    /\ faults = 0

-----------------------------------------------------------------------------
(* Sessions. *)

Goto(p, label) == pc' = [pc EXCEPT ![p] = label]

(* The process exits, or raises: the lock goes with it. *)
EndSession(p) ==
    /\ Goto(p, "idle")
    /\ lock' = None
    /\ view' = [view EXCEPT ![p] = None]
    /\ want' = [want EXCEPT ![p] = None]

(* A temporary file is written beside its destination. *)
Stage(p, label) ==
    /\ Goto(p, label)
    /\ temps' = temps + 1

(* Slip: the lock is not waited for. *)
OpenUnlocked(p) ==
    /\ pc[p] = "idle"
    /\ Loadable
    /\ lock' = p
    /\ view' = [view EXCEPT ![p] = Generation]
    /\ Goto(p, IF RecoveryRequired THEN "blocked" ELSE "open")
    /\ UNCHANGED <<disk, want, faults>>

(* __enter__: wait for the lock, then load and validate the directory. *)
Open(p) ==
    /\ lock = None
    /\ pc[p] = "idle"
    /\ Loadable
    /\ lock' = p
    /\ view' = [view EXCEPT ![p] = Generation]
    /\ Goto(p, IF RecoveryRequired THEN "blocked" ELSE "open")
    /\ UNCHANGED <<disk, want, faults>>

(* status, pending, review; and every command that raises before it writes. *)
Close(p) ==
    /\ pc[p] \in {"open", "blocked"}
    /\ EndSession(p)
    /\ UNCHANGED <<disk, faults>>

(* _ready: no recovery is due and the files are those that were loaded. *)
Ready(p) == pc[p] = "open" /\ view[p] = Generation

-----------------------------------------------------------------------------
(* Saving a proposal. *)

(* Slip: one proposal too many. *)
StartSaveOneMore(p, prop) ==
    /\ prop \notin proposals
    /\ Cardinality(proposals) <= MaxProposals
    /\ Stage(p, "saving")
    /\ want' = [want EXCEPT ![p] = prop]
    /\ UNCHANGED <<facts, revs, journal, proposals, derived, lock, view, faults>>

(* save_proposal and _save_lifecycle from the capacity check on; a file of *)
(* the same digest makes them return without writing.                      *)
StartSave(p, prop) ==
    /\ prop \notin proposals
    /\ Cardinality(proposals) < MaxProposals
    /\ Stage(p, "saving")
    /\ want' = [want EXCEPT ![p] = prop]
    /\ UNCHANGED <<facts, revs, journal, proposals, derived, lock, view, faults>>

ImportProposal(ids) == [ids |-> ids, event |-> None, gen |-> Generation]

Propose(p, found) ==
    /\ Ready(p)
    /\ StartSave(p, ImportProposal(found))

(* The Stop hook leaves out what is already listed or was revoked. *)
Capture(p, found) ==
    LET new == {i \in found : facts[i] = None /\ i \notin RevokedIds(revs)}
    IN  /\ Ready(p)
        /\ new # {}
        /\ StartSave(p, ImportProposal(new))

(* propose_correction takes its replacement from a fresh import proposal   *)
(* of exactly one candidate.                                               *)
ProposeCorrection(p, i, source) ==
    /\ Ready(p)
    /\ source.event = None
    /\ source.gen = view[p]
    /\ \E r \in source.ids :
          LET e == [id |-> i, by |-> r]
          IN  /\ source.ids = {r}
              /\ Eligible(facts, revs, e)
              /\ StartSave(p, [ids |-> {r}, event |-> e, gen |-> Generation])

ProposeForget(p, i) ==
    /\ Ready(p)
    /\ facts[i] # None
    /\ StartSave(p, [ids |-> {}, event |-> [id |-> i, by |-> None],
                     gen |-> Generation])

Publish(p) ==
    /\ pc[p] = "saving"
    /\ proposals' = proposals \cup {want[p]}
    /\ temps' = temps - 1
    /\ EndSession(p)
    /\ UNCHANGED <<facts, revs, journal, derived, faults>>

Discard(p, prop) ==
    /\ Ready(p)
    /\ proposals' = proposals \ {prop}
    /\ EndSession(p)
    /\ UNCHANGED <<facts, revs, journal, temps, derived, faults>>

-----------------------------------------------------------------------------
(* Applying a proposal. *)

(* Slip: the candidates are not compared with the revocations. *)
AdditionsIfUnlisted(prop) == {i \in prop.ids : facts[i] = None}

(* The candidates that are neither listed nor revoked. *)
Additions(prop) ==
    {i \in prop.ids : facts[i] = None /\ i \notin RevokedIds(revs)}

(* Slip: a proposal is applied to whatever generation there is. *)
MayApplyStale(p, prop) == Ready(p)

(* A proposal is applied only to the generation it was made from. *)
MayApply(p, prop) == Ready(p) /\ prop.gen = view[p]

ApplyImport(p, prop) ==
    /\ MayApply(p, prop)
    /\ prop.event = None
    /\ Additions(prop) # {}
    /\ Stage(p, "importing")
    /\ want' = [want EXCEPT ![p] = prop]
    /\ UNCHANGED <<facts, revs, journal, proposals, derived, lock, view, faults>>

ReplaceFacts(p) ==
    /\ pc[p] = "importing"
    /\ view[p] = Generation
    /\ facts' = AddFacts(facts, Additions(want[p]))
    /\ temps' = temps - 1
    /\ EndSession(p)
    /\ UNCHANGED <<revs, journal, proposals, derived, faults>>

ApplyLifecycle(p, prop) ==
    /\ MayApply(p, prop)
    /\ prop.event # None
    /\ ~derived
    /\ Eligible(facts, revs, prop.event)
    /\ LifecycleOK(AfterEvent(facts, prop.event), Append(revs, prop.event))
    /\ Stage(p, "journaling")
    /\ want' = [want EXCEPT ![p] = prop]
    /\ UNCHANGED <<facts, revs, journal, proposals, derived, lock, view, faults>>

(* The rename of the journal commits the operation; recover() carries on. *)
PublishJournal(p) ==
    /\ pc[p] = "journaling"
    /\ journal = None
    /\ journal' = [before |-> view[p],
                   after |-> AfterEvent(view[p].facts, want[p].event),
                   event |-> want[p].event]
    /\ temps' = temps - 1
    /\ Goto(p, "recovering")
    /\ UNCHANGED <<facts, revs, proposals, derived, lock, view, want, faults>>

-----------------------------------------------------------------------------
(* Recovery: also the second half of every correction and erasure. *)

Recover(p) ==
    /\ pc[p] = "blocked"
    /\ Goto(p, "recovering")
    /\ UNCHANGED <<disk, lock, view, want, faults>>

(* Slip: the recovery starts from the revocations every time. *)
ResumeFromStart(p) ==
    /\ pc[p] = "recovering"
    /\ Loadable
    /\ journal # None => ~derived
    /\ view' = [view EXCEPT ![p] = Generation]
    /\ Goto(p, IF journal = None THEN "sweeping" ELSE "revoking")
    /\ UNCHANGED <<disk, lock, want, faults>>

(* The store is loaded again; the files tell where to resume. *)
Resume(p) ==
    /\ pc[p] = "recovering"
    /\ Loadable
    /\ journal # None => ~derived
    /\ view' = [view EXCEPT ![p] = Generation]
    /\ Goto(p, CASE journal = None -> "sweeping"
                 [] journal # None /\ revs = journal.before.revs -> "revoking"
                 [] OTHER -> "rewriting")
    /\ UNCHANGED <<disk, lock, want, faults>>

StageRevocation(p) ==
    /\ pc[p] = "revoking"
    /\ Stage(p, "revoked")
    /\ UNCHANGED <<facts, revs, journal, proposals, derived, lock, view, want, faults>>

ReplaceRevocations(p) ==
    /\ pc[p] = "revoked"
    /\ view[p] = Generation
    /\ revs' = Append(revs, journal.event)
    /\ view' = [view EXCEPT ![p].revs = revs']
    /\ temps' = temps - 1
    /\ Goto(p, "rewriting")
    /\ UNCHANGED <<facts, journal, proposals, derived, lock, want, faults>>

(* facts.json is rewritten unless it already is the journal's. *)
StageRewrite(p) ==
    /\ pc[p] = "rewriting"
    /\ IF facts # journal.after
       THEN Stage(p, "rewritten")
       ELSE Goto(p, "sweeping") /\ UNCHANGED temps
    /\ UNCHANGED <<facts, revs, journal, proposals, derived, lock, view, want, faults>>

RewriteFacts(p) ==
    /\ pc[p] = "rewritten"
    /\ view[p] = Generation
    /\ facts' = journal.after
    /\ view' = [view EXCEPT ![p].facts = facts']
    /\ temps' = temps - 1
    /\ Goto(p, "sweeping")
    /\ UNCHANGED <<revs, journal, proposals, derived, lock, want, faults>>

(* _cleanup_temps: the leftovers are unlinked one by one. *)
SweepTemp(p) ==
    /\ pc[p] = "sweeping"
    /\ temps > 0
    /\ temps' = temps - 1
    /\ UNCHANGED <<facts, revs, journal, proposals, derived, lock, pc, view, want, faults>>

(* Slip: an erasure does not clear the queue. *)
SweptKeepingQueue(p) ==
    /\ pc[p] = "sweeping"
    /\ temps = 0
    /\ IF journal = None
       THEN EndSession(p)
       ELSE Goto(p, "retiring") /\ UNCHANGED <<lock, view, want>>
    /\ UNCHANGED <<disk, faults>>

(* Without a journal that was all; an erasure still clears the queue. *)
Swept(p) ==
    /\ pc[p] = "sweeping"
    /\ temps = 0
    /\ IF journal = None
       THEN EndSession(p)
       ELSE /\ Goto(p, IF journal.event.by = None THEN "clearing" ELSE "retiring")
            /\ UNCHANGED <<lock, view, want>>
    /\ UNCHANGED <<disk, faults>>

ClearProposal(p, prop) ==
    /\ pc[p] = "clearing"
    /\ Cardinality(proposals) <= MaxProposals
    /\ proposals' = proposals \ {prop}
    /\ UNCHANGED <<facts, revs, journal, temps, derived, lock, pc, view, want, faults>>

Cleared(p) ==
    /\ pc[p] = "clearing"
    /\ proposals = {}
    /\ Goto(p, "retiring")
    /\ UNCHANGED <<disk, lock, view, want, faults>>

RetireJournal(p) ==
    /\ pc[p] = "retiring"
    /\ LifecycleOK(facts, revs)
    /\ journal' = None
    /\ EndSession(p)
    /\ UNCHANGED <<facts, revs, temps, proposals, derived, faults>>

-----------------------------------------------------------------------------
(* What goes wrong. *)

HoldsTemp(p) ==
    pc[p] \in {"saving", "importing", "journaling", "revoked", "rewritten"}

(* Slip: the finally clause counts on a temporary file that may not exist. *)
DropTempAlways(p) == temps' = temps - 1

DropTemp(p) == temps' = IF HoldsTemp(p) THEN temps - 1 ELSE temps

(* A check in the middle of a command refuses, or a system call raises: the *)
(* helper's finally clause unlinks its temporary file.                     *)
Refused(p) ==
    \/ /\ pc[p] = "recovering"
       /\ ~Loadable \/ (journal # None /\ derived)
    \/ /\ pc[p] \in {"importing", "revoked", "rewritten"}
       /\ view[p] # Generation
    \/ pc[p] = "journaling" /\ journal # None
    \/ pc[p] = "clearing" /\ Cardinality(proposals) > MaxProposals
    \/ pc[p] = "retiring" /\ ~LifecycleOK(facts, revs)

Refuse(p) ==
    /\ Refused(p)
    /\ DropTemp(p)
    /\ EndSession(p)
    /\ UNCHANGED <<facts, revs, journal, proposals, derived, faults>>

Fault == faults < MaxFaults /\ faults' = faults + 1

Fail(p) ==
    /\ pc[p] # "idle"
    /\ Fault
    /\ DropTemp(p)
    /\ EndSession(p)
    /\ UNCHANGED <<facts, revs, journal, proposals, derived>>

(* The process is killed: its temporary file stays behind. *)
Crash(p) ==
    /\ pc[p] # "idle"
    /\ Fault
    /\ EndSession(p)
    /\ UNCHANGED disk

(* Another tool, which takes no lock, leaves a derived output or removes it. *)
AddDerived ==
    /\ ~derived
    /\ Fault
    /\ derived' = TRUE
    /\ UNCHANGED <<facts, revs, journal, temps, proposals, lock, pc, view, want>>

RemoveDerived ==
    /\ derived
    /\ derived' = FALSE
    /\ UNCHANGED <<facts, revs, journal, temps, proposals, lock, pc, view, want, faults>>

-----------------------------------------------------------------------------
(* A step of the command p is running, once it has decided what to do. *)
Continue(p) ==
    \/ Publish(p) \/ ReplaceFacts(p) \/ PublishJournal(p)
    \/ Resume(p) \/ StageRevocation(p) \/ ReplaceRevocations(p)
    \/ StageRewrite(p) \/ RewriteFacts(p) \/ SweepTemp(p) \/ Swept(p)
    \/ \E prop \in proposals : ClearProposal(p, prop)
    \/ Cleared(p) \/ RetireJournal(p) \/ Refuse(p)

(* What a user, or the Stop hook, may ask of an open store. *)
Command(p) ==
    \/ \E found \in SUBSET Ids \ {{}} : Propose(p, found) \/ Capture(p, found)
    \/ \E i \in Ids, source \in proposals : ProposeCorrection(p, i, source)
    \/ \E i \in Ids : ProposeForget(p, i)
    \/ \E prop \in proposals :
          Discard(p, prop) \/ ApplyImport(p, prop) \/ ApplyLifecycle(p, prop)

Next ==
    \/ \E p \in Procs : \/ Open(p) \/ Close(p) \/ Command(p) \/ Recover(p)
                        \/ Continue(p) \/ Fail(p) \/ Crash(p)
    \/ AddDerived \/ RemoveDerived

Spec == Init /\ [][Next]_vars

-----------------------------------------------------------------------------
(* The memory the store implements.  The journal's rename is the commit     *)
(* point: from then on the operation has happened, finished or not.        *)
Committed == IF journal = None THEN facts ELSE journal.after

Revoked ==
    RevokedIds(revs) \cup (IF journal = None THEN {} ELSE {journal.event.id})

Memory == INSTANCE CustomerMemory WITH mem <- Committed, gone <- Revoked

(* Whatever crashes, the two files, the journal and the lock behave as one  *)
(* memory that changes in single steps and never takes a revoked fact back *)
(* (apply_proposal, _apply_lifecycle and _recover_unchecked together).     *)
ImplementsMemory == Memory!MSpec

(* Wherever a session was interrupted, the next one can validate what it    *)
(* finds: _load never rejects a directory the program itself left behind.  *)
AlwaysReadable == Readable

(* A session acts on what is on disk: nobody wrote between its load and its *)
(* last step (the customer lock, and the re-captures that back it up).     *)
SessionSeesDisk == \A p \in Procs : pc[p] # "idle" => view[p] = Generation

(* However often a recovery is interrupted and repeated, it appends the     *)
(* journal's event once (the comparison with before_revocations).          *)
EventAppendedOnce == \A j, k \in DOMAIN revs : revs[j] = revs[k] => j = k

(* Once an erasure is over no proposal saved before it is left: each could  *)
(* hold a copy of the forgotten text ("clears all saved proposals").       *)
NothingSavedBeforeErasure ==
    journal = None =>
        \A prop \in proposals, e \in Events(revs) :
            e.by = None => e \in Events(prop.gen.revs)

(* The queue never outgrows what _queue_entries accepts: a longer queue     *)
(* would stop every later erasure half way.                                *)
QueueWithinLimit == Cardinality(proposals) <= MaxProposals

Effect(prop) == IF prop.event = None THEN AddFacts(facts, Additions(prop))
                                     ELSE AfterEvent(facts, prop.event)

(* The memory changes only as one saved proposal, made from exactly the     *)
(* generation it changes, says: recovery accepts nothing of its own.       *)
OnlyReviewedChanges ==
    [][Committed' # Committed =>
          \E prop \in proposals : /\ prop.gen = Generation
                                  /\ Committed' = Effect(prop)]_vars

(* A generation never comes back, though a fact list may: a proposal that   *)
(* went stale cannot be applied later (the generation covers both files).  *)
StaleStaysStale ==
    [][\A prop \in proposals \cap proposals' :
          prop.gen # Generation => prop.gen # Generation']_vars

(* Commands run on, foreign outputs are removed in the end, and whoever     *)
(* opens a store that needs recovery does not refuse to run it for ever.   *)
Fairness ==
    /\ WF_vars(\E p \in Procs : Open(p))
    /\ \A p \in Procs : WF_vars(Close(p) \/ Command(p) \/ Recover(p))
    /\ \A p \in Procs : WF_vars(Continue(p))
    /\ SF_vars(\E p \in Procs : Recover(p))
    /\ WF_vars(RemoveDerived)

FairSpec == Spec /\ Fairness

(* An accepted operation is finished and leftovers are cleaned up, after no *)
(* more crashes than the limit on leftovers allows (recover).              *)
RecoveryCompletes == RecoveryRequired ~> ~RecoveryRequired

=============================================================================
