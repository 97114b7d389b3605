------------------------------ MODULE LiveStore ------------------------------
(***************************************************************************)
(* The owner's live store, ~/.nock-brain, and the commands that rewrite it: *)
(* the nightly rebuild (rebuild-store), supersession (supersede-fact,      *)
(* dedup-facts, consolidate-facts and the signed events of _revoke),       *)
(* purge-fact, edit-fact, approve-proposals, ingest-curated-memory, and    *)
(* recall, which hides what a revocation says is dead.  None of them locks *)
(* the store: each loads facts.json, and replaces it later.                *)
(*                                                                         *)
(* A fact is its lifecycle status and whether its text is as mined from    *)
(* the transcripts or edited by hand.  A signing key is at hand, so every  *)
(* event is signed and trusted; history, logs and events are the sets of   *)
(* ids they name.  The artifacts derived of facts.json, which a rebuild    *)
(* exports and a purge scrubs, are left out.                               *)
(***************************************************************************)
EXTENDS Naturals, FiniteSets

CONSTANTS
    Procs,          \* processes, each running one command at a time
    Ids,            \* fact identifiers
    Curated,        \* those of the hand-written memory files
    Modes,          \* how a rebuild may be run: "merge", "replace"
    MaxStarts,      \* bound of the model: commands started
    None            \* no fact; a facts.json that does not parse; no backup

ASSUME LiveAssumption ==
    /\ Curated \subseteq Ids
    /\ Modes \subseteq {"merge", "replace"}
    /\ MaxStarts \in Nat

VARIABLES
    store,      \* facts.json
    purged,     \* purged-ids.jsonl: the tombstones
    edits,      \* fact-edits.jsonl: the ids edited
    revoked,    \* revocations.jsonl: the ids revoked by a signed event
    backup,     \* backup[p]: facts.json as p's rebuild backed it up
    pc,         \* pc[p]: where the command p runs is
    mem,        \* mem[p]: what it holds in memory
    starts,     \* commands started so far
    removed,    \* history: the ids a purge took out of facts.json
    overlapped  \* history: whether two commands ever ran at the same time

disk == <<store, purged, edits, revoked, backup>>
history == <<removed, overlapped>>
vars == <<disk, pc, mem, starts, history>>

Fact == [status : {"current", "superseded"}, text : {"mined", "edited"}]
Facts == [Ids -> Fact \cup {None}]
NoFacts == [i \in Ids |-> None]
Mined == [status |-> "current", text |-> "mined"]

ASSUME NoneIsNothing == None \notin Fact \cup Facts

Present(s) == {i \in Ids : s[i] # None}

(* _facts.load_facts: an unreadable store loads as an empty one. *)
Loaded == IF store = None THEN NoFacts ELSE store

LTypeOK ==
    /\ store \in Facts \cup {None}
    /\ {purged, edits, revoked, removed} \subseteq SUBSET Ids
    /\ \A p \in Procs : backup[p] \in Facts \cup {None}
    /\ pc \in [Procs -> {"idle", "loaded", "marked", "taken", "logged",
                         "mirroring", "extracted", "read", "merged", "passed", "backedup",
                         "truncated", "listed", "answered"}]
    /\ \A p \in Procs : pc[p] # "idle" =>
          /\ mem[p].facts \in Facts
          /\ {mem[p].recent, mem[p].ids} \subseteq SUBSET Ids
    (* A rebuild that ran alone has backed up what it is about to replace. *)
    /\ \A p \in Procs : pc[p] = "backedup" /\ ~overlapped => backup[p] = store
    /\ overlapped \in BOOLEAN
    /\ starts \in 0..MaxStarts

-----------------------------------------------------------------------------
Idle == [facts |-> NoFacts, recent |-> {}, mode |-> "merge", ids |-> {}]

Init ==
    /\ store = [i \in Ids |-> Mined]
    /\ purged = {} /\ edits = {} /\ revoked = {} /\ removed = {}
    /\ backup = [p \in Procs |-> None]
    /\ pc = [p \in Procs |-> "idle"]
    /\ mem = [p \in Procs |-> Idle]
    /\ starts = 0
    /\ overlapped = FALSE

Goto(p, label) == pc' = [pc EXCEPT ![p] = label]

Hold(p, m) == mem' = [mem EXCEPT ![p] = m]

Done(p) == Goto(p, "idle") /\ Hold(p, Idle)

Start(p, label) ==
    /\ pc[p] = "idle"
    /\ overlapped' = (overlapped \/ \E q \in Procs : pc[q] # "idle")
    /\ starts < MaxStarts
    /\ starts' = starts + 1
    /\ Goto(p, label)

(* Refused, failed or killed. *)
Stop(p) ==
    /\ pc[p] # "idle"
    /\ Done(p)
    /\ UNCHANGED <<disk, starts, history>>

Load(p) ==
    /\ Start(p, "loaded")
    /\ Hold(p, [Idle EXCEPT !.facts = Loaded])
    /\ UNCHANGED <<disk, removed>>

-----------------------------------------------------------------------------
(* Supersession: the mark, then its signed event (record_supersessions). *)

Mark(p, i) ==
    /\ pc[p] = "loaded"
    /\ mem[p].facts[i] # None
    /\ store' = [mem[p].facts EXCEPT ![i].status = "superseded"]
    /\ Hold(p, [mem[p] EXCEPT !.ids = {i}])
    /\ Goto(p, "marked")
    /\ UNCHANGED <<purged, edits, revoked, backup, starts, history>>

Revoke(p) ==
    /\ pc[p] = "marked"
    /\ revoked' = revoked \cup mem[p].ids
    /\ Done(p)
    /\ UNCHANGED <<store, purged, edits, backup, starts, history>>

(* _revoke.audit: revoked, and current again. *)
Resurrected(facts) ==
    {i \in Present(facts) : i \in revoked /\ facts[i].status # "superseded"}

Unattested(facts) ==
    {i \in Present(facts) : i \notin revoked /\ facts[i].status = "superseded"}

(* backfill-revocations, maybe stopped half way. *)
Backfill(p) ==
    /\ pc[p] = "loaded"
    /\ Resurrected(mem[p].facts) = {}
    /\ \E minted \in (SUBSET Unattested(mem[p].facts)) \ {{}} :
          revoked' = revoked \cup minted
    /\ Done(p)
    /\ UNCHANGED <<store, purged, edits, backup, starts, history>>

-----------------------------------------------------------------------------
(* purge-fact: the store, then the tombstone. *)

TakeOut(p, i) ==
    /\ pc[p] = "loaded"
    /\ mem[p].facts[i] # None
    /\ store' = [mem[p].facts EXCEPT ![i] = None]
    /\ removed' = removed \cup {i}
    /\ Hold(p, [mem[p] EXCEPT !.ids = {i}])
    /\ Goto(p, "taken")
    /\ UNCHANGED <<purged, edits, revoked, backup, starts, overlapped>>

(* append_tombstones *)
Entomb(p) ==
    /\ pc[p] = "taken"
    /\ purged' = purged \cup mem[p].ids
    /\ Done(p)
    /\ UNCHANGED <<store, edits, revoked, backup, starts, history>>

-----------------------------------------------------------------------------
(* edit-fact, as far as the other commands see it (EditHistory). *)

LogEdit(p, i) ==
    /\ pc[p] = "loaded"
    /\ mem[p].facts[i] # None
    /\ edits' = edits \cup {i}
    /\ Hold(p, [mem[p] EXCEPT !.facts[i].text = "edited"])
    /\ Goto(p, "logged")
    /\ UNCHANGED <<store, purged, revoked, backup, starts, history>>

WriteEdit(p) ==
    /\ pc[p] = "logged"
    /\ store' = mem[p].facts
    /\ Done(p)
    /\ UNCHANGED <<purged, edits, revoked, backup, starts, history>>

(* approve-proposals: a fact whose id the store has is not added twice. *)
Approve(p, i) ==
    /\ pc[p] = "loaded"
    /\ store' = [mem[p].facts EXCEPT ![i] = IF @ = None THEN Mined ELSE @]
    /\ Done(p)
    /\ UNCHANGED <<purged, edits, revoked, backup, starts, history>>

(* ingest-curated-memory: the curated slice becomes what the memory files  *)
(* say now; an unreadable store is refused.                                *)
LoadCurated(p) ==
    /\ store # None
    /\ Start(p, "mirroring")
    /\ Hold(p, [Idle EXCEPT !.facts = store])
    /\ UNCHANGED <<disk, removed>>

IngestCurated(p, files) ==
    /\ pc[p] = "mirroring"
    /\ store' = [i \in Ids |->
                    IF i \notin Curated THEN mem[p].facts[i]
                    ELSE IF i \in files THEN Mined ELSE None]
    /\ Done(p)
    /\ UNCHANGED <<purged, edits, revoked, backup, starts, history>>

-----------------------------------------------------------------------------
(* rebuild-store: a staging store is built from the transcripts and the live *)
(* one, gated, signed, exported, and promoted over the live one.           *)

Extract(p, recent, mode) ==
    /\ Start(p, "extracted")
    /\ Hold(p, [Idle EXCEPT !.recent = recent, !.mode = mode])
    /\ UNCHANGED <<disk, removed>>

(* The live store is read before the tombstones, edits and revocations. *)
ReadLive(p) ==
    /\ pc[p] = "extracted"
    /\ mem[p].mode = "merge"
    /\ store # None
    /\ Hold(p, [mem[p] EXCEPT !.facts = store])
    /\ Goto(p, "read")
    /\ UNCHANGED <<disk, starts, history>>

(* Slip: what was extracted wins. *)
MergeFactsRecentWins(live, recent, protected) ==
    [i \in Ids |-> IF i \in recent THEN Mined ELSE live[i]]

(* merge_facts *)
MergeFacts(live, recent, protected) ==
    [i \in Ids |->
        IF /\ i \in recent
           /\ i \notin protected
           /\ live[i] = None \/ live[i].status # "superseded"
        THEN Mined
        ELSE live[i]]

Merge(p) ==
    /\ pc[p] = "read"
    /\ Hold(p, [mem[p] EXCEPT
                   !.facts = MergeFacts(@, mem[p].recent, purged \cup edits \cup revoked)])
    /\ Goto(p, "merged")
    /\ UNCHANGED <<disk, starts, history>>

(* --replace: the window alone. *)
KeepWindow(p) ==
    /\ pc[p] = "extracted"
    /\ mem[p].mode = "replace"
    /\ Hold(p, [mem[p] EXCEPT
                   !.facts = [i \in Ids |-> IF i \in mem[p].recent THEN Mined ELSE None]])
    /\ Goto(p, "merged")
    /\ UNCHANGED <<disk, starts, history>>

(* health_gate and the anti-amnesia gate. *)
PassGates(p) ==
    /\ pc[p] = "merged"
    /\ Present(mem[p].facts) # {}
    /\ mem[p].mode = "merge" =>
          Cardinality(Present(mem[p].facts)) >= Cardinality(Present(Loaded))
    /\ Goto(p, "passed")
    /\ UNCHANGED <<disk, mem, starts, history>>

(* Slip: staging is moved in without a backup. *)
BackUpNothing(p) ==
    /\ pc[p] = "passed"
    /\ Goto(p, "backedup")
    /\ UNCHANGED <<disk, mem, starts, history>>

BackUp(p) ==
    /\ pc[p] = "passed"
    /\ backup' = [backup EXCEPT ![p] = store]
    /\ Goto(p, "backedup")
    /\ UNCHANGED <<store, purged, edits, revoked, mem, starts, history>>

(* shutil.move copies where it cannot rename: between filesystems. *)
TruncateFacts(p) ==
    /\ pc[p] = "backedup"
    /\ store' = None
    /\ Goto(p, "truncated")
    /\ UNCHANGED <<purged, edits, revoked, backup, mem, starts, history>>

PromoteFacts(p) ==
    /\ pc[p] \in {"backedup", "truncated"}
    /\ store' = mem[p].facts
    /\ Done(p)
    /\ UNCHANGED <<purged, edits, revoked, backup, starts, history>>

-----------------------------------------------------------------------------
(* budget-recall: the facts first, then the revocations. *)

StartRecall(p) ==
    /\ Start(p, "listed")
    /\ Hold(p, [Idle EXCEPT !.facts = Loaded, !.recent = revoked])
    /\ UNCHANGED <<disk, removed>>

(* Slip: the status alone decides. *)
AnswerByStatus(p) ==
    /\ pc[p] = "listed"
    /\ LET facts == mem[p].facts
       IN  Hold(p, [mem[p] EXCEPT
                       !.ids = {i \in Present(facts) : facts[i].status = "current"}])
    /\ Goto(p, "answered")
    /\ UNCHANGED <<disk, starts, history>>

(* _exclude_resurrected, and search without the superseded. *)
Answer(p) ==
    /\ pc[p] = "listed"
    /\ LET facts == mem[p].facts
       IN  Hold(p, [mem[p] EXCEPT
                       !.ids = {i \in Present(facts) \ Resurrected(facts) :
                                   facts[i].status # "superseded"}])
    /\ Goto(p, "answered")
    /\ UNCHANGED <<disk, starts, history>>

-----------------------------------------------------------------------------
Operator(p) ==
    \/ Load(p) \/ Revoke(p) \/ Backfill(p) \/ Entomb(p) \/ WriteEdit(p)
    \/ LoadCurated(p)
    \/ \E files \in SUBSET Curated : IngestCurated(p, files)
    \/ \E i \in Ids : Mark(p, i) \/ TakeOut(p, i) \/ LogEdit(p, i) \/ Approve(p, i)

Rebuild(p) ==
    \/ \E recent \in SUBSET (Ids \ Curated), mode \in Modes : Extract(p, recent, mode)
    \/ ReadLive(p) \/ Merge(p) \/ KeepWindow(p) \/ PassGates(p) \/ BackUp(p)
    \/ TruncateFacts(p) \/ PromoteFacts(p)

Recall(p) == StartRecall(p) \/ Answer(p)

Next == \E p \in Procs : Operator(p) \/ Rebuild(p) \/ Recall(p) \/ Stop(p)

Spec == Init /\ [][Next]_vars

-----------------------------------------------------------------------------
Promoting(p) == pc[p] \in {"backedup", "truncated"} /\ pc'[p] = "idle" /\ store' # store

(* What a write replaces: facts.json, or, where staging is copied over it, *)
(* what the rebuild backed up.                                             *)
Replaced ==
    IF store # None
    THEN {store}
    ELSE {backup[p] : p \in {q \in Procs : Promoting(q)}} \ {None}

(* No command that runs alone undoes what the operator decided: what was    *)
(* superseded stays so, what was edited keeps its text, although the        *)
(* transcripts still say otherwise (merge_facts, N10014).  Of a curated     *)
(* fact the memory file decides; --replace starts from scratch.            *)
DecisionsKept ==
    [][\A old \in Replaced, i \in Ids \ Curated :
          /\ ~overlapped'
          /\ \A p \in Procs : Promoting(p) => mem[p].mode = "merge"
          /\ store' # None /\ old[i] # None /\ store'[i] # None
          => /\ old[i].status = "superseded" => store'[i].status = "superseded"
             /\ old[i].text = "edited" => store'[i].text = "edited"]_vars

(* A rebuild brings none of these facts back. *)
StayAway(ids) ==
    \A p \in Procs :
        Promoting(p) /\ mem[p].mode = "merge" /\ ~overlapped' =>
            \A old \in Replaced, i \in ids : old[i] = None => store'[i] = None

(* A fact with a tombstone does not come back with a rebuild, whenever it   *)
(* is extracted anew (append_tombstones).                                  *)
PurgedStaysAway == [][StayAway(purged)]_vars

(* The same of every fact a purge took out of the store: "append purged ids *)
(* so a later rebuild cannot re-extract them" (append_tombstones).         *)
RemovedStaysAway == [][StayAway(removed)]_vars

(* A fact goes by a purge alone; what a rebuild replaces is in its backup,  *)
(* whenever it dies.  A curated fact goes with its file.                   *)
NothingLost ==
    [][\A i \in Ids \ Curated :
          Loaded[i] # None /\ Loaded'[i] = None /\ ~overlapped' =>
              \/ i \in removed'
              \/ \E p \in Procs : backup[p] # None /\ backup[p][i] = Loaded[i]]_vars

(* Recall never answers with a fact that was revoked before it started,    *)
(* whichever command, alone or not, made it current again                  *)
(* (_exclude_resurrected, N10016).                                         *)
RevokedHidden ==
    \A p \in Procs : pc[p] = "answered" => mem[p].ids \cap mem[p].recent = {}

=============================================================================
