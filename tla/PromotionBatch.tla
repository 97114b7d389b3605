--------------------------- MODULE PromotionBatch ---------------------------
(***************************************************************************)
(* apply-promotion-batch: batches of facts, accepted and hash-chained by a *)
(* server, are added to the live store.  The store with the pending        *)
(* batches is staged in facts.json.applying, signed and verified there,    *)
(* moved over facts.json, and the batches are recorded in                  *)
(* applied-batches.json.                                                   *)
(*                                                                         *)
(* Batch s holds one fact, s, and s is its digest too.  The server is not  *)
(* part of the repository: it builds batches in the order of batch_seq,    *)
(* each with the digest of an earlier one as its parent, and may roll them *)
(* back.                                                                   *)
(***************************************************************************)
EXTENDS Naturals, FiniteSets

CONSTANTS
    Procs,      \* processes: appliers, and other writers of facts.json
    MaxBatch,   \* bound of the model: batches the server builds
    Locals,     \* ids of the facts the other writers may add
    MaxStarts,  \* bound of the model: processes started
    None        \* no candidate file; no batch

ASSUME BatchAssumption ==
    /\ MaxBatch \in Nat \ {0} /\ MaxStarts \in Nat
    /\ Locals \subseteq Nat
    /\ MaxStarts \in Nat

Batches == 1..MaxBatch
Ids == Batches \cup Locals

VARIABLES
    server,     \* server[s]: status and parent digest of batch s
    store,      \* ids of the facts of facts.json
    candidate,  \* facts.json.applying: its facts, and whether they are signed
    applied,    \* applied-batches.json: the batches recorded
    pc,         \* pc[p]: where the process is
    mem,        \* mem[p]: what it read, and the batches it applies
    starts,     \* processes started so far
    moved,      \* history: facts an applier moved into facts.json
    overlapped  \* history: whether two processes ever ran at the same time

files == <<store, candidate, applied>>
history == <<moved, overlapped>>
vars == <<server, files, pc, mem, starts, history>>

Batch == [status : {"built", "rolled_back"}, parent : 0..MaxBatch]
Candidate == [facts : SUBSET Ids, signed : BOOLEAN]

ASSUME NoneIsNothing == None \notin Batch \cup Candidate

BTypeOK ==
    /\ server \in [Batches -> Batch \cup {None}]
    /\ store \subseteq Ids /\ moved \subseteq Batches
    /\ candidate \in Candidate \cup {None}
    /\ applied \subseteq Batches
    /\ pc \in [Procs -> {"idle", "read", "pending", "staged", "signed", "verified",
                         "moved", "collided", "writing"}]
    /\ \A p \in Procs : mem[p].facts \subseteq Ids
                     /\ {mem[p].applied, mem[p].pending} \subseteq SUBSET Batches
    (* What an applier that runs alone moves in is what it staged, signed. *)
    /\ \A p \in Procs : ~overlapped /\ pc[p] = "verified" =>
          candidate = [facts |-> mem[p].facts, signed |-> TRUE]
    /\ starts \in 0..MaxStarts
    /\ overlapped \in BOOLEAN

-----------------------------------------------------------------------------
Idle == [facts |-> {}, applied |-> {}, pending |-> {}]

Init ==
    /\ server = [s \in Batches |-> None]
    /\ store = {} /\ applied = {} /\ moved = {}
    /\ candidate = None
    /\ pc = [p \in Procs |-> "idle"]
    /\ mem = [p \in Procs |-> Idle]
    /\ starts = 0
    /\ overlapped = FALSE

Goto(p, label) == pc' = [pc EXCEPT ![p] = label]

Hold(p, m) == mem' = [mem EXCEPT ![p] = m]

Start(p, label) ==
    /\ pc[p] = "idle"
    /\ overlapped' = (overlapped \/ \E q \in Procs : pc[q] # "idle")
    /\ starts < MaxStarts
    /\ starts' = starts + 1
    /\ Goto(p, label)

-----------------------------------------------------------------------------
(* The server. *)

Built == {s \in Batches : server[s] # None}

Highest(s) == IF s = {} THEN 0 ELSE CHOOSE m \in s : \A n \in s : n <= m

(* The parent is the batch before, rolled back or not, or the last that is *)
(* not rolled back.                                                        *)
Build ==
    LET s == Highest(Built) + 1
    IN  /\ s \in Batches
        /\ \E parent \in {s - 1, Highest({t \in Built : server[t].status = "built"})} :
              server' = [server EXCEPT ![s] = [status |-> "built", parent |-> parent]]
        /\ UNCHANGED <<files, pc, mem, starts, history>>

RollBack(s) ==
    /\ s \in Built
    /\ server' = [server EXCEPT ![s].status = "rolled_back"]
    /\ UNCHANGED <<files, pc, mem, starts, history>>

-----------------------------------------------------------------------------
(* The applier. *)

Read(p) ==
    /\ Start(p, "read")
    /\ Hold(p, [Idle EXCEPT !.facts = store, !.applied = applied])
    /\ UNCHANGED <<server, files, moved>>

(* Slip: the chain may start anywhere (check_chain without its anchor). *)
ChainedFromAnywhere(pending, anchor) ==
    \A s \in pending :
        LET prev == Highest({t \in pending : t < s})
        IN  prev # 0 => server[s].parent = prev

(* check_chain: each pending batch is the child of the one before it, the  *)
(* first of the last one applied, if any is.                               *)
Chained(pending, anchor) ==
    \A s \in pending :
        LET before == {t \in pending : t < s}
            prev == IF before = {} THEN anchor ELSE Highest(before)
        IN  prev # 0 => server[s].parent = prev

(* fetch_batches, check_chain and apply_batch: a fact that is there already *)
(* refuses the whole run.                                                  *)
Fetch(p) ==
    LET pending == {s \in Built : server[s].status = "built"} \ mem[p].applied
    IN  /\ pc[p] = "read"
        /\ pending # {}
        /\ Chained(pending, Highest(mem[p].applied))
        /\ IF pending \cap mem[p].facts # {}
           THEN /\ Goto(p, "collided")
                /\ Hold(p, [mem[p] EXCEPT !.pending = pending])
           ELSE /\ Goto(p, "pending")
                /\ Hold(p, [mem[p] EXCEPT !.pending = pending, !.facts = @ \cup pending])
        /\ UNCHANGED <<server, files, starts, history>>

(* Slip: what a killed run left is signed and verified once more. *)
StageOnce(p) ==
    /\ pc[p] = "pending"
    /\ candidate' = IF candidate = None
                    THEN [facts |-> mem[p].facts, signed |-> FALSE]
                    ELSE candidate
    /\ Goto(p, "staged")
    /\ UNCHANGED <<server, store, applied, mem, starts, history>>

Stage(p) ==
    /\ pc[p] = "pending"
    /\ candidate' = [facts |-> mem[p].facts, signed |-> FALSE]
    /\ Goto(p, "staged")
    /\ UNCHANGED <<server, store, applied, mem, starts, history>>

(* Slip: the live store is signed after the move. *)
SignLater(p) ==
    /\ pc[p] = "staged"
    /\ candidate # None
    /\ Goto(p, "verified")
    /\ UNCHANGED <<server, files, mem, starts, history>>

(* sign-facts, on the candidate. *)
Sign(p) ==
    /\ pc[p] = "staged"
    /\ candidate # None
    /\ candidate' = [candidate EXCEPT !.signed = TRUE]
    /\ Goto(p, "signed")
    /\ UNCHANGED <<server, store, applied, mem, starts, history>>

(* verify-facts --strict *)
Verify(p) ==
    /\ pc[p] = "signed"
    /\ candidate # None
    /\ candidate.signed
    /\ Goto(p, "verified")
    /\ UNCHANGED <<server, files, mem, starts, history>>

Move(p) ==
    /\ pc[p] = "verified"
    /\ candidate # None
    /\ store' = candidate.facts
    /\ candidate' = None
    /\ moved' = moved \cup mem[p].pending
    /\ Goto(p, "moved")
    /\ UNCHANGED <<server, applied, mem, starts, overlapped>>

Record(p) ==
    /\ pc[p] = "moved"
    /\ applied' = mem[p].applied \cup mem[p].pending
    /\ Goto(p, "idle") /\ Hold(p, Idle)
    /\ UNCHANGED <<server, store, candidate, starts, history>>

(* Refused, nothing to apply, or killed. *)
Stop(p) ==
    /\ pc[p] # "idle"
    /\ Goto(p, "idle") /\ Hold(p, Idle)
    /\ UNCHANGED <<server, files, starts, history>>

(* A failing step removes the candidate. *)
Abandon(p) ==
    /\ pc[p] \in {"pending", "staged", "signed", "verified"}
    /\ candidate' = None
    /\ Goto(p, "idle") /\ Hold(p, Idle)
    /\ UNCHANGED <<server, store, applied, starts, history>>

-----------------------------------------------------------------------------
(* Any other tool that adds a fact: it loads the store and replaces it. *)

LoadStore(p) ==
    /\ Start(p, "writing")
    /\ Hold(p, [Idle EXCEPT !.facts = store])
    /\ UNCHANGED <<server, files, moved>>

WriteStore(p, i) ==
    /\ pc[p] = "writing"
    /\ store' = mem[p].facts \cup {i}
    /\ Goto(p, "idle") /\ Hold(p, Idle)
    /\ UNCHANGED <<server, candidate, applied, starts, history>>

-----------------------------------------------------------------------------
Apply(p) ==
    \/ Read(p) \/ Fetch(p) \/ Stage(p) \/ Sign(p) \/ Verify(p) \/ Move(p)
    \/ Record(p) \/ Abandon(p)

Write(p) == LoadStore(p) \/ \E i \in Locals : WriteStore(p, i)

Next ==
    \/ Build
    \/ \E s \in Batches : RollBack(s)
    \/ \E p \in Procs : Apply(p) \/ Write(p) \/ Stop(p)

Spec == Init /\ [][Next]_vars

-----------------------------------------------------------------------------
(* A recorded batch is in the store, whenever an applier that ran alone    *)
(* died and whatever it left behind ("recorded applied only after          *)
(* verification passes").                                                  *)
RecordedInStore == ~overlapped => applied \subseteq store

(* The recorded batches form one chain (check_chain, N10026): each but the *)
(* first is the child of the one recorded before it, across appliers, runs *)
(* and rollbacks.                                                          *)
RecordedChain ==
    \A s \in applied :
        LET prev == Highest({t \in applied : t < s})
        IN  prev # 0 => server[s].parent = prev

(* "Idempotent across reruns via applied-batches.json": no run is refused  *)
(* over a fact that an earlier run moved in.                               *)
RerunsIdempotent ==
    \A p \in Procs : pc[p] = "collided" =>
        (mem[p].pending \cap mem[p].facts) \cap moved = {}

=============================================================================
