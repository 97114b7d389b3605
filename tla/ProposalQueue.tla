---------------------------- MODULE ProposalQueue ----------------------------
(***************************************************************************)
(* The review queue of extracted facts: propose-facts extracts what the    *)
(* transcripts say and queues it, approve-proposals releases and rejects,  *)
(* and extract-facts, the older tool, writes the store directly.  Each      *)
(* reads whole files and later writes whole files, without a lock, and may  *)
(* be killed between any two of them.                                      *)
(***************************************************************************)
EXTENDS Integers, FiniteSets

CONSTANTS
    Tools,      \* processes
    Proposals,  \* ids of what may be extracted
    MaxCommands \* bound: commands started

ASSUME QueueAssumption == MaxCommands \in Nat

VARIABLES
    said,       \* what the transcripts say
    stored,     \* facts.json: how many rows each id has
    queue,      \* proposed-facts.json
    page,       \* proposed-facts.md
    doing,      \* where each process is
    memory,     \* what it holds
    queued, approved, rejected, direct,  \* history: decisions, and what extract-facts wrote
    commands,
    together    \* history: whether two processes ever ran at once

queueVars == <<said, stored, queue, page, doing, memory, queued, approved, rejected,
               direct, commands, together>>

Blank == [store |-> [i \in Proposals |-> 0], queue |-> {}, release |-> {}, remain |-> {}]

QueueTypeOK ==
    /\ said \subseteq Proposals /\ queue \subseteq Proposals /\ page \subseteq Proposals
    /\ stored \in [Proposals -> 0..2]
    /\ doing \in [Tools -> {"idle", "extracting", "appending", "proposing", "merging", "rendering",
                            "deciding", "releasing", "requeueing"}]
    /\ UNION {queued, approved, rejected, direct} \subseteq Proposals
    /\ commands \in 0..MaxCommands /\ together \in BOOLEAN

-----------------------------------------------------------------------------
QueueInit ==
    /\ said \in SUBSET Proposals
    /\ stored = [i \in Proposals |-> 0]
    /\ queue = {} /\ page = {}
    /\ doing = [p \in Tools |-> "idle"] /\ memory = [p \in Tools |-> Blank]
    /\ queued = {} /\ approved = {} /\ rejected = {} /\ direct = {}
    /\ commands = 0 /\ together = FALSE

Command(p, place, held) ==
    /\ doing[p] = "idle" /\ commands < MaxCommands
    /\ doing' = [doing EXCEPT ![p] = place]
    /\ memory' = [memory EXCEPT ![p] = held]
    /\ commands' = commands + 1
    /\ together' = (together \/ \E q \in Tools : doing[q] # "idle")

Then(p, place, held) ==
    /\ doing' = [doing EXCEPT ![p] = place]
    /\ memory' = [memory EXCEPT ![p] = IF place = "idle" THEN Blank ELSE held]
    /\ UNCHANGED <<commands, together>>

Known(store) == {i \in Proposals : store[i] > 0}

(* Slip: what is released is appended, known to the store or not. *)
AddedAgain(store, ids) == [i \in Proposals |-> store[i] + IF i \in ids THEN 1 ELSE 0]

Added(store, ids) ==
    [i \in Proposals |-> store[i] + IF i \in ids \ Known(store) THEN 1 ELSE 0]

Say(i) ==
    /\ i \notin said /\ said' = said \cup {i}
    /\ UNCHANGED <<stored, queue, page, doing, memory, queued, approved, rejected,
                   direct, commands, together>>

-----------------------------------------------------------------------------
(* propose-facts: the store, the queue, and after the extraction both are  *)
(* compared with what was extracted.                                       *)

ProposeStart(p) ==
    /\ Command(p, "proposing", [Blank EXCEPT !.store = stored])
    /\ UNCHANGED <<said, stored, queue, page, queued, approved, rejected, direct>>

ReadQueue(p) ==
    /\ doing[p] = "proposing"
    /\ Then(p, "merging", [memory[p] EXCEPT !.queue = queue])
    /\ UNCHANGED <<said, stored, queue, page, queued, approved, rejected, direct>>

WriteQueue(p) ==
    /\ doing[p] = "merging"
    /\ queue' = memory[p].queue \cup (said \ Known(memory[p].store))
    /\ queued' = queued \cup queue'
    /\ Then(p, "rendering", [memory[p] EXCEPT !.remain = queue'])
    /\ UNCHANGED <<said, stored, page, approved, rejected, direct>>

Render(p) ==
    /\ doing[p] = "rendering"
    /\ page' = memory[p].remain
    /\ Then(p, "idle", Blank)
    /\ UNCHANGED <<said, stored, queue, queued, approved, rejected, direct>>

-----------------------------------------------------------------------------
(* approve-proposals: the operator names what to approve and to reject;    *)
(* what is rejected is rejected, also with --approve-all.                  *)

(* Slip: the queue is rewritten before the store. *)
DecideQueueFirst(p) ==
    \E yes, no \in SUBSET queue :
        /\ yes \cup no # {}
        /\ Command(p, IF yes \ no = {} THEN "rendering" ELSE "deciding",
                   [Blank EXCEPT !.release = yes \ no, !.remain = queue \ (yes \cup no)])
        /\ approved' = approved \cup (yes \ no)
        /\ rejected' = rejected \cup no
        /\ queue' = queue \ (yes \cup no)
        /\ UNCHANGED <<said, stored, page, queued, direct>>

Decide(p) ==
    \E yes, no \in SUBSET queue :
        /\ yes \cup no # {}
        /\ Command(p, IF yes \ no = {} THEN "requeueing" ELSE "deciding",
                   [Blank EXCEPT !.release = yes \ no, !.remain = queue \ (yes \cup no)])
        /\ approved' = approved \cup (yes \ no)
        /\ rejected' = rejected \cup no
        /\ UNCHANGED <<said, stored, queue, page, queued, direct>>

LoadLive(p) ==
    /\ doing[p] = "deciding"
    /\ Then(p, "releasing", [memory[p] EXCEPT !.store = stored])
    /\ UNCHANGED <<said, stored, queue, page, queued, approved, rejected, direct>>

Release(p) ==
    /\ doing[p] = "releasing"
    /\ stored' = Added(memory[p].store, memory[p].release)
    /\ Then(p, "requeueing", memory[p])
    /\ UNCHANGED <<said, queue, page, queued, approved, rejected, direct>>

Requeue(p) ==
    /\ doing[p] = "requeueing"
    /\ queue' = memory[p].remain
    /\ Then(p, "rendering", memory[p])
    /\ UNCHANGED <<said, stored, page, queued, approved, rejected, direct>>

-----------------------------------------------------------------------------
(* extract-facts: what is not stored yet is appended. *)

ExtractStart(p) ==
    /\ Command(p, "extracting", [Blank EXCEPT !.release = said])
    /\ UNCHANGED <<said, stored, queue, page, queued, approved, rejected, direct>>

ExtractLoad(p) ==
    /\ doing[p] = "extracting"
    /\ Then(p, "appending", [memory[p] EXCEPT !.store = stored])
    /\ UNCHANGED <<said, stored, queue, page, queued, approved, rejected, direct>>

ExtractWrite(p) ==
    /\ doing[p] = "appending"
    /\ stored' = Added(memory[p].store, memory[p].release)
    /\ direct' = direct \cup memory[p].release
    /\ Then(p, "idle", Blank)
    /\ UNCHANGED <<said, queue, page, queued, approved, rejected>>

Dies(p) ==
    /\ doing[p] # "idle"
    /\ Then(p, "idle", Blank)
    /\ UNCHANGED <<said, stored, queue, page, queued, approved, rejected, direct>>

-----------------------------------------------------------------------------
QueueNext ==
    \/ \E p \in Tools :
          \/ ProposeStart(p) \/ ReadQueue(p) \/ WriteQueue(p) \/ Render(p)
          \/ Decide(p) \/ LoadLive(p) \/ Release(p) \/ Requeue(p)
          \/ ExtractStart(p) \/ ExtractLoad(p) \/ ExtractWrite(p)
          \/ Dies(p)
    \/ \E i \in Proposals : Say(i)

QueueSpec == QueueInit /\ [][QueueNext]_queueVars

-----------------------------------------------------------------------------
(* While commands run one at a time, killed ones among them, what was once *)
(* queued is queued, stored or rejected: a kill between the store and the  *)
(* queue leaves a proposal in both, never in neither.                      *)
NoProposalLost ==
    ~together => queued \subseteq queue \cup Known(stored) \cup rejected

(* The gate: however commands overlap and die, nothing is in the store that *)
(* nobody approved and extract-facts did not put there, and nothing is in   *)
(* it twice, although a released proposal may be queued and released again. *)
OnlyApproved ==
    \A i \in Proposals : stored[i] > 0 => stored[i] = 1 /\ i \in approved \cup direct

=============================================================================
