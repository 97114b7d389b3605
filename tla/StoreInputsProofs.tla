------------------------- MODULE StoreInputsProofs -------------------------
(***************************************************************************)
(* The four components that feed facts.json, each proved about by itself,  *)
(* for every value of its constants: the review queue of the owner,        *)
(* transcript ingestion, promotion batches, and the two backends with the  *)
(* migration between them; then the successors that the two deduplicating  *)
(* commands leave, the types, and the instance that composes the four.     *)
(* They share no variable; each section states the inductive invariant of  *)
(* one and what follows from it.                                           *)
(***************************************************************************)
EXTENDS MCStoreInputs, Inductions

-----------------------------------------------------------------------------
(* The review queue, for any number of tools, proposals and commands.      *)
(*                                                                         *)
(* The argument.  What a tool holds of the store was once the store, and   *)
(* what it releases was approved (HeldApproved).  While commands run one   *)
(* at a time nobody writes between what a tool reads and what it writes    *)
(* (HeldCurrent), and the tool that decides still has every proposal it    *)
(* found, to release, to keep or rejected (Deciding).                      *)

Memory == [store : [Proposals -> Nat], queue : SUBSET Proposals, release : SUBSET Proposals,
           remain : SUBSET Proposals]

QueueShape ==
    /\ said \subseteq Proposals /\ queue \subseteq Proposals
    /\ stored \in [Proposals -> Nat]
    /\ doing \in [Tools -> {"idle", "extracting", "appending", "proposing", "merging", "rendering",
                            "deciding", "releasing", "requeueing"}]
    /\ memory \in [Tools -> Memory]
    /\ together \in BOOLEAN

(* Every fact of a store is there once, approved or extracted directly.    *)
Permitted(times, decided) == \A i \in Proposals : times[i] > 0 => times[i] = 1 /\ i \in decided

HeldApproved ==
    \A p \in Tools :
        /\ Permitted(memory[p].store, approved \cup direct)
        /\ doing[p] \in {"deciding", "releasing"} => memory[p].release \subseteq approved

HeldCurrent ==
    ~together => \A p \in Tools :
        /\ \A q \in Tools : doing[p] # "idle" /\ doing[q] # "idle" => p = q
        /\ doing[p] \in {"releasing", "appending"} => memory[p].store = stored
        /\ doing[p] = "merging" => memory[p].queue = queue

Deciding ==
    ~together => \A p \in Tools :
        /\ doing[p] \in {"deciding", "releasing"} =>
              queued \subseteq memory[p].remain \cup memory[p].release \cup Known(stored) \cup rejected
        /\ doing[p] = "requeueing" => queued \subseteq memory[p].remain \cup Known(stored) \cup rejected

QueueInv ==
    QueueShape /\ Permitted(stored, approved \cup direct)
    /\ HeldApproved /\ HeldCurrent /\ Deciding /\ NoProposalLost

LEMMA BlankIs == Blank \in Memory /\ Blank.store = [i \in Proposals |-> 0]
  BY DEF Blank, Memory

LEMMA AddedIs ==
    ASSUME NEW s \in [Proposals -> Nat], NEW ids \in SUBSET Proposals, NEW d, Permitted(s, d)
    PROVE  /\ Added(s, ids) \in [Proposals -> Nat]
           /\ Known(Added(s, ids)) = Known(s) \cup ids
           /\ Permitted(Added(s, ids), d \cup ids)
  BY DEF Added, Known, Permitted

Places == {"idle", "extracting", "appending", "proposing", "merging", "rendering", "deciding",
           "releasing", "requeueing"}

(* Who moves on while no two commands ever ran at once is alone.           *)
LEMMA GoesOn ==
    ASSUME QueueInv, NEW p \in Tools, NEW place, NEW h, Then(p, place, h), doing[p] # "idle",
           place = "idle" => h = Blank
    PROVE  /\ doing' = [doing EXCEPT ![p] = place]
           /\ memory' = [memory EXCEPT ![p] = h]
           /\ together' = together /\ together' \in BOOLEAN
           /\ ~together' => ~together /\ \A q \in Tools \ {p} : doing[q] = "idle"
<1>1. together' = together /\ together \in BOOLEAN
  BY DEF Then, QueueInv, QueueShape
<1>2. ~together => \A q \in Tools \ {p} : doing[q] = "idle"
  BY DEF QueueInv, HeldCurrent
<1>3. doing' = [doing EXCEPT ![p] = place] /\ memory' = [memory EXCEPT ![p] = h]
  BY DEF Then
<1> QED  BY <1>1, <1>2, <1>3

LEMMA Begins ==
    ASSUME QueueInv, NEW p \in Tools, NEW place, NEW h, Command(p, place, h)
    PROVE  /\ doing' = [doing EXCEPT ![p] = place]
           /\ memory' = [memory EXCEPT ![p] = h]
           /\ together' \in BOOLEAN
           /\ ~together' => ~together /\ \A q \in Tools \ {p} : doing[q] = "idle"
<1>1. together' = (together \/ \E q \in Tools : doing[q] # "idle")
  BY DEF Command
<1>2. together' \in BOOLEAN
  BY <1>1
<1>3. ~together' => ~together /\ \A q \in Tools : doing[q] = "idle"
  BY <1>1
<1> QED  BY <1>2, <1>3 DEF Command

Moves(p, place, h) ==
    \/ Command(p, place, h)
    \/ Then(p, place, h) /\ doing[p] # "idle" /\ (place = "idle" => h = Blank)

(* One tool goes on to a place with something in hand.                     *)
LEMMA ToolMoves ==
    ASSUME QueueInv, NEW p \in Tools, NEW place \in Places, NEW h \in Memory,
           Moves(p, place, h),
           said' \subseteq Proposals, queue' \subseteq Proposals, stored' \in [Proposals -> Nat],
           approved \subseteq approved', direct \subseteq direct',
           Permitted(stored', approved' \cup direct'), Permitted(h.store, approved' \cup direct'),
           place \in {"deciding", "releasing"} => h.release \subseteq approved',
           ~together =>
              /\ place \in {"releasing", "appending"} => h.store = stored'
              /\ place = "merging" => h.queue = queue'
              /\ place \in {"deciding", "releasing"} =>
                    queued' \subseteq h.remain \cup h.release \cup Known(stored') \cup rejected'
              /\ place = "requeueing" => queued' \subseteq h.remain \cup Known(stored') \cup rejected'
              /\ queued' \subseteq queue' \cup Known(stored') \cup rejected'
    PROVE  QueueInv'
<1>0. /\ doing' = [doing EXCEPT ![p] = place] /\ memory' = [memory EXCEPT ![p] = h]
      /\ together' \in BOOLEAN
      /\ ~together' => ~together /\ \A q \in Tools \ {p} : doing[q] = "idle"
  <2>1. CASE Command(p, place, h)
    BY <2>1, Begins
  <2>2. CASE Then(p, place, h) /\ doing[p] # "idle" /\ (place = "idle" => h = Blank)
    BY <2>2, GoesOn
  <2> QED  BY <2>1, <2>2 DEF Moves
<1>1. /\ doing' \in [Tools -> Places] /\ memory' \in [Tools -> Memory]
      /\ doing'[p] = place /\ memory'[p] = h
      /\ \A q \in Tools \ {p} : doing'[q] = doing[q] /\ memory'[q] = memory[q]
  BY <1>0 DEF QueueInv, QueueShape, Places
<1>2. QueueShape'
  BY <1>0, <1>1 DEF QueueShape, Places
<1>3. HeldApproved'
  <2>1. ASSUME NEW q \in Tools \ {p}
        PROVE  /\ Permitted(memory'[q].store, approved' \cup direct')
               /\ doing'[q] \in {"deciding", "releasing"} => memory'[q].release \subseteq approved'
    BY <1>1 DEF QueueInv, HeldApproved, Permitted
  <2> QED  BY <1>1, <2>1 DEF HeldApproved
<1>4. HeldCurrent'
  <2>1. SUFFICES ASSUME ~together'
                 PROVE  HeldCurrent'
    BY DEF HeldCurrent
  <2>2. ~together /\ \A q \in Tools \ {p} : doing'[q] = "idle"
    BY <1>0, <1>1, <2>1
  <2> QED  BY <1>1, <2>2 DEF HeldCurrent
<1>5. Deciding' /\ NoProposalLost'
  <2>1. SUFFICES ASSUME ~together'
                 PROVE  Deciding' /\ NoProposalLost'
    BY DEF Deciding, NoProposalLost
  <2>2. ~together /\ \A q \in Tools \ {p} : doing'[q] = "idle"
    BY <1>0, <1>1, <2>1
  <2>3. NoProposalLost'
    BY <2>2 DEF NoProposalLost, Known
  <2>4. Deciding'
    BY <1>1, <2>2 DEF Deciding, Known
  <2> QED  BY <2>3, <2>4
<1> QED  BY <1>2, <1>3, <1>4, <1>5 DEF QueueInv

LEMMA TypedMemory ==
    ASSUME QueueInv, NEW p \in Tools
    PROVE  /\ memory[p] \in Memory /\ memory[p].store \in [Proposals -> Nat]
           /\ memory[p].queue \subseteq Proposals /\ memory[p].release \subseteq Proposals
           /\ memory[p].remain \subseteq Proposals
           /\ said \subseteq Proposals /\ queue \subseteq Proposals /\ stored \in [Proposals -> Nat]
           /\ Permitted(memory[p].store, approved \cup direct) /\ Permitted(stored, approved \cup direct)
  BY DEF QueueInv, QueueShape, HeldApproved, Memory

(* Something is in hand, or nothing, and nothing that is kept has changed. *)
LEMMA Idles ==
    ASSUME QueueInv, NEW p \in Tools, NEW place \in {"idle", "extracting", "proposing", "rendering"},
           NEW h \in Memory, Moves(p, place, h),
           Permitted(h.store, approved \cup direct),
           UNCHANGED <<said, stored, queue, queued, approved, rejected, direct>>
    PROVE  QueueInv'
<1>1. /\ said' \subseteq Proposals /\ queue' \subseteq Proposals /\ stored' \in [Proposals -> Nat]
      /\ Permitted(stored', approved' \cup direct') /\ Permitted(h.store, approved' \cup direct')
  BY TypedMemory
<1>2. ~together => queued' \subseteq queue' \cup Known(stored') \cup rejected'
  BY DEF QueueInv, NoProposalLost
<1>3. approved \subseteq approved' /\ direct \subseteq direct'
  OBVIOUS
<1> QED  BY <1>1, <1>2, <1>3, ToolMoves DEF Places

LEMMA ProposeInv ==
    ASSUME QueueInv, NEW p \in Tools, ProposeStart(p) \/ ReadQueue(p) \/ WriteQueue(p) \/ Render(p)
    PROVE  QueueInv'
<1>1. CASE ProposeStart(p)
  <2> DEFINE h == [Blank EXCEPT !.store = stored]
  <2>1. h \in Memory /\ h.store = stored
    BY TypedMemory, BlankIs DEF Blank, Memory
  <2> HIDE DEF h
  <2>2. Moves(p, "proposing", h)
    BY <1>1, <2>1 DEF ProposeStart, Moves, h
  <2> QED  BY <1>1, <2>1, <2>2, TypedMemory, Idles DEF ProposeStart
<1>2. CASE ReadQueue(p)
  <2>0. PICK m \in Memory : m = memory[p]
    BY TypedMemory
  <2> DEFINE h == [m EXCEPT !.queue = queue]
  <2>1. h \in Memory /\ h.queue = queue /\ h.store = m.store
    BY TypedMemory DEF Memory
  <2> HIDE DEF h
  <2>2. Moves(p, "merging", h) /\ doing[p] # "idle"
    BY <2>0, <1>2, <2>1 DEF ReadQueue, Moves, h
  <2>3. UNCHANGED <<said, stored, queue, queued, approved, rejected, direct>>
    BY <1>2 DEF ReadQueue
  <2>4. ~together => queued \subseteq queue \cup Known(stored) \cup rejected
    BY DEF QueueInv, NoProposalLost
  <2> QED  BY <2>0, <2>1, <2>2, <2>3, <2>4, TypedMemory, ToolMoves DEF Places
<1>3. CASE WriteQueue(p)
  <2>0. PICK m \in Memory, q \in SUBSET Proposals : m = memory[p] /\ q = queue'
    BY <1>3, TypedMemory DEF WriteQueue
  <2> DEFINE h == [m EXCEPT !.remain = q]
  <2>1. h \in Memory /\ h.store = m.store
    BY TypedMemory DEF Memory
  <2> HIDE DEF h
  <2>2. Moves(p, "rendering", h) /\ doing[p] = "merging"
    BY <2>0, <1>3, <2>1 DEF WriteQueue, Moves, h
  <2>3. /\ UNCHANGED <<said, stored, approved, rejected, direct>>
        /\ queue' \subseteq Proposals /\ memory[p].queue \subseteq queue' /\ queued' = queued \cup queue'
    BY <1>3, TypedMemory DEF WriteQueue
  <2>4. ~together => queued' \subseteq queue' \cup Known(stored) \cup rejected
    BY <2>2, <2>3 DEF QueueInv, NoProposalLost, HeldCurrent
  <2> QED  BY <2>0, <2>1, <2>2, <2>3, <2>4, TypedMemory, ToolMoves DEF Places
<1>4. CASE Render(p)
  <2>1. PICK h \in Memory : h = Blank /\ Permitted(h.store, approved \cup direct)
    BY BlankIs DEF Permitted
  <2>2. Moves(p, "idle", h) /\ doing[p] # "idle"
    BY <1>4, <2>1 DEF Render, Moves
  <2> QED  BY <1>4, <2>1, <2>2, Idles DEF Render
<1> QED  BY <1>1, <1>2, <1>3, <1>4

LEMMA DecideInv ==
    ASSUME QueueInv, NEW p \in Tools, Decide(p) \/ LoadLive(p) \/ Release(p) \/ Requeue(p)
    PROVE  QueueInv'
<1>1. CASE Decide(p)
  <2>1. PICK yes \in SUBSET queue, no \in SUBSET queue :
           /\ Command(p, IF yes \ no = {} THEN "requeueing" ELSE "deciding",
                         [Blank EXCEPT !.release = yes \ no, !.remain = queue \ (yes \cup no)])
           /\ approved' = approved \cup (yes \ no)
           /\ rejected' = rejected \cup no
           /\ UNCHANGED <<said, stored, queue, page, queued, direct>>
    BY <1>1 DEF Decide
  <2>2. PICK place \in {"requeueing", "deciding"} :
           /\ place = IF yes \ no = {} THEN "requeueing" ELSE "deciding"
    OBVIOUS
  <2> DEFINE h == [Blank EXCEPT !.release = yes \ no, !.remain = queue \ (yes \cup no)]
  <2>3. /\ h \in Memory /\ h.release = yes \ no /\ h.remain = queue \ (yes \cup no)
        /\ h.store = Blank.store
    BY TypedMemory, BlankIs DEF Blank, Memory
  <2> HIDE DEF h
  <2>4. Moves(p, place, h)
    BY <2>1, <2>2 DEF Moves, h
  <2>5. Permitted(h.store, approved' \cup direct') /\ Permitted(stored', approved' \cup direct')
    BY <2>1, <2>3, BlankIs, TypedMemory DEF Permitted
  <2>6. ~together => queued \subseteq queue \cup Known(stored) \cup rejected
    BY DEF QueueInv, NoProposalLost
  <2>7. ~together => /\ queued' \subseteq h.remain \cup h.release \cup Known(stored') \cup rejected'
                     /\ place = "requeueing" => queued' \subseteq h.remain \cup Known(stored') \cup rejected'
                     /\ queued' \subseteq queue' \cup Known(stored') \cup rejected'
    BY <2>1, <2>2, <2>3, <2>6
  <2>8. place \in Places /\ place \notin {"releasing", "appending", "merging"}
    BY <2>2 DEF Places
  <2> QED  BY <2>1, <2>3, <2>4, <2>5, <2>7, <2>8, TypedMemory, ToolMoves
<1>2. CASE LoadLive(p)
  <2>0. PICK m \in Memory : m = memory[p]
    BY TypedMemory
  <2> DEFINE h == [m EXCEPT !.store = stored]
  <2>1. h \in Memory /\ h.store = stored /\ h.release = m.release /\ h.remain = m.remain
    BY TypedMemory DEF Memory
  <2> HIDE DEF h
  <2>2. Moves(p, "releasing", h) /\ doing[p] = "deciding"
    BY <1>2, <2>0, <2>1 DEF LoadLive, Moves, h
  <2>3. UNCHANGED <<said, stored, queue, queued, approved, rejected, direct>>
    BY <1>2 DEF LoadLive
  <2>4. /\ h.release \subseteq approved
        /\ ~together => /\ queued \subseteq h.remain \cup h.release \cup Known(stored) \cup rejected
                        /\ queued \subseteq queue \cup Known(stored) \cup rejected
    BY <2>0, <2>1, <2>2 DEF QueueInv, NoProposalLost, HeldApproved, Deciding
  <2> QED  BY <2>0, <2>1, <2>2, <2>3, <2>4, TypedMemory, ToolMoves DEF Places
<1>3. CASE Release(p)
  <2>1. PICK h \in Memory : h = memory[p]
    BY TypedMemory
  <2>2. Moves(p, "requeueing", h) /\ doing[p] = "releasing" /\ stored' = Added(h.store, h.release)
    BY <1>3, <2>1 DEF Release, Moves
  <2>3. UNCHANGED <<said, queue, queued, approved, rejected, direct>>
    BY <1>3 DEF Release
  <2>4. h.release \subseteq approved
    BY <2>1, <2>2 DEF QueueInv, HeldApproved
  <2>5. /\ stored' \in [Proposals -> Nat] /\ Known(stored') = Known(h.store) \cup h.release
        /\ Permitted(stored', (approved \cup direct) \cup h.release)
    BY <2>1, <2>2, TypedMemory, AddedIs
  <2>6. Permitted(stored', approved' \cup direct')
    BY <2>3, <2>4, <2>5 DEF Permitted
  <2>7. ~together => /\ queued \subseteq h.remain \cup Known(stored') \cup rejected
                     /\ queued \subseteq queue \cup Known(stored') \cup rejected
    BY <2>1, <2>2, <2>5 DEF QueueInv, NoProposalLost, HeldCurrent, Deciding
  <2> QED  BY <2>1, <2>2, <2>3, <2>5, <2>6, <2>7, TypedMemory, ToolMoves DEF Places
<1>4. CASE Requeue(p)
  <2>1. PICK h \in Memory : h = memory[p]
    BY TypedMemory
  <2>2. Moves(p, "rendering", h) /\ doing[p] = "requeueing" /\ queue' = h.remain
    BY <1>4, <2>1 DEF Requeue, Moves
  <2>3. UNCHANGED <<said, stored, queued, approved, rejected, direct>>
    BY <1>4 DEF Requeue
  <2>4. ~together => queued \subseteq h.remain \cup Known(stored) \cup rejected
    BY <2>1, <2>2 DEF QueueInv, Deciding
  <2> QED  BY <2>1, <2>2, <2>3, <2>4, TypedMemory, ToolMoves DEF Places
<1> QED  BY <1>1, <1>2, <1>3, <1>4

LEMMA ExtractInv ==
    ASSUME QueueInv, NEW p \in Tools,
           ExtractStart(p) \/ ExtractLoad(p) \/ ExtractWrite(p) \/ Dies(p)
    PROVE  QueueInv'
<1>1. CASE ExtractStart(p)
  <2> DEFINE h == [Blank EXCEPT !.release = said]
  <2>1. h \in Memory /\ h.store = Blank.store
    BY TypedMemory, BlankIs DEF Blank, Memory
  <2> HIDE DEF h
  <2>2. Moves(p, "extracting", h) /\ Permitted(h.store, approved \cup direct)
    BY <1>1, <2>1, BlankIs DEF ExtractStart, Permitted, Moves, h
  <2> QED  BY <1>1, <2>1, <2>2, Idles DEF ExtractStart
<1>2. CASE ExtractLoad(p)
  <2>0. PICK m \in Memory : m = memory[p]
    BY TypedMemory
  <2> DEFINE h == [m EXCEPT !.store = stored]
  <2>1. h \in Memory /\ h.store = stored
    BY TypedMemory DEF Memory
  <2> HIDE DEF h
  <2>2. Moves(p, "appending", h) /\ doing[p] # "idle"
    BY <2>0, <1>2, <2>1 DEF ExtractLoad, Moves, h
  <2>3. UNCHANGED <<said, stored, queue, queued, approved, rejected, direct>>
    BY <1>2 DEF ExtractLoad
  <2>4. ~together => queued \subseteq queue \cup Known(stored) \cup rejected
    BY DEF QueueInv, NoProposalLost
  <2> QED  BY <2>0, <2>1, <2>2, <2>3, <2>4, TypedMemory, ToolMoves DEF Places
<1>3. CASE ExtractWrite(p)
  <2>1. PICK h \in Memory : h = memory[p]
    BY TypedMemory
  <2>2. PICK b \in Memory : b = Blank
    BY BlankIs
  <2>3. /\ Moves(p, "idle", b) /\ doing[p] = "appending" /\ stored' = Added(h.store, h.release)
        /\ direct' = direct \cup h.release
    BY <1>3, <2>1, <2>2 DEF ExtractWrite, Moves
  <2>4. UNCHANGED <<said, queue, queued, approved, rejected>>
    BY <1>3 DEF ExtractWrite
  <2>5. /\ stored' \in [Proposals -> Nat] /\ Known(stored') = Known(h.store) \cup h.release
        /\ Permitted(stored', (approved \cup direct) \cup h.release)
    BY <2>1, <2>3, TypedMemory, AddedIs
  <2>6. Permitted(stored', approved' \cup direct') /\ Permitted(b.store, approved' \cup direct')
    BY <2>2, <2>3, <2>4, <2>5, BlankIs DEF Permitted
  <2>7. ~together => queued \subseteq queue \cup Known(stored') \cup rejected
    BY <2>1, <2>3, <2>5 DEF QueueInv, NoProposalLost, HeldCurrent
  <2> QED  BY <2>2, <2>3, <2>4, <2>5, <2>6, <2>7, TypedMemory, ToolMoves DEF Places
<1>4. CASE Dies(p)
  <2>1. PICK h \in Memory : h = Blank /\ Permitted(h.store, approved \cup direct)
    BY BlankIs DEF Permitted
  <2>2. Moves(p, "idle", h) /\ doing[p] # "idle"
    BY <1>4, <2>1 DEF Dies, Moves
  <2> QED  BY <1>4, <2>1, <2>2, Idles DEF Dies
<1> QED  BY <1>1, <1>2, <1>3, <1>4

(* QueueInv is kept by every tool of the review queue, killed between any  *)
(* two of its writes.                                                      *)
THEOREM QueueInductive == QueueSpec => []QueueInv
<1>1. ASSUME QueueInit
      PROVE  QueueInv
  <2>1. /\ stored = [i \in Proposals |-> 0] /\ said \subseteq Proposals /\ queue = {} /\ queued = {}
        /\ doing = [p \in Tools |-> "idle"] /\ memory = [p \in Tools |-> Blank] /\ together = FALSE
    BY <1>1 DEF QueueInit
  <2>2. QueueShape
    BY <2>1, BlankIs DEF QueueShape
  <2>3. Permitted(stored, approved \cup direct) /\ HeldApproved
    BY <2>1, BlankIs DEF Permitted, HeldApproved
  <2>4. HeldCurrent /\ Deciding /\ NoProposalLost
    BY <2>1 DEF HeldCurrent, Deciding, NoProposalLost
  <2> QED  BY <2>2, <2>3, <2>4 DEF QueueInv
<1>2. ASSUME QueueInv, [QueueNext]_queueVars
      PROVE  QueueInv'
  <2>1. ASSUME NEW i \in Proposals, Say(i)
        PROVE  QueueInv'
    BY <1>2, <2>1 DEF Say, QueueInv, QueueShape, HeldApproved, HeldCurrent, Deciding, NoProposalLost, Known
  <2>2. CASE UNCHANGED queueVars
    BY <1>2, <2>2 DEF queueVars, QueueInv, QueueShape, HeldApproved, HeldCurrent, Deciding,
       NoProposalLost, Known
  <2> QED  BY <1>2, <2>1, <2>2, ProposeInv, DecideInv, ExtractInv DEF QueueNext
<1> QED  BY <1>1, <1>2, PTL DEF QueueSpec

(* The gate of approve-proposals: however commands overlap and die, what   *)
(* is in the store was approved, or extracted directly, and is there once. *)
THEOREM StoreApproved == QueueSpec => []OnlyApproved
<1>1. QueueInv => OnlyApproved
  BY DEF QueueInv, Permitted, OnlyApproved
<1> QED  BY <1>1, QueueInductive, PTL

(* A proposal is released before it leaves the queue (main): while commands*)
(* run one at a time, a kill between the two loses none.                   *)
THEOREM ProposalsKept == QueueSpec => []NoProposalLost
<1>1. QueueInv => NoProposalLost
  BY DEF QueueInv
<1> QED  BY <1>1, QueueInductive, PTL
-----------------------------------------------------------------------------
(* Ingestion, for any transcripts, calls, texts and keys.                  *)
(*                                                                         *)
(* The argument.  A voice message waits from the moment it is heard until  *)
(* its transcription is promoted or the transcript ends (StillHeard), and  *)
(* only what waits is promoted.  While the events are refined they do not  *)
(* change, the keys are those of the facts, and an event of the user is    *)
(* never the content of a tool's result (OwnWords).                        *)

Heard(s, m) == <<"heard", s, m>>
Promoted(s, m) == <<"promoted", s, m>>

Apart == <<"next">>

LogEntry == {Apart} \cup {Heard(s, m) : s \in Sessions, m \in Media}
               \cup {Promoted(s, m) : s \in Sessions, m \in Media}

IngestShape ==
    /\ events \in Seq(Event) /\ facts \in Seq(Event)
    /\ voices \in [Sessions -> SUBSET Media]
    /\ log \in Seq(LogEntry)
    /\ refined \in Int /\ -1 <= refined /\ refined <= Len(events)

StillHeard ==
    \A s \in Sessions : \A m \in voices[s] :
        \E j \in DOMAIN log :
            /\ log[j] = Heard(s, m)
            /\ \A i \in DOMAIN log : j < i => log[i] # <<"next">> /\ log[i] # Promoted(s, m)

OwnWords ==
    \A k \in DOMAIN events : events[k].actor = "user" => events[k].surface = "text"

KeysSeen == \A key : key \in keys <=> \E n \in DOMAIN facts : key = KeyOf[facts[n].text]

IngestInv == IngestShape /\ StillHeard /\ SpokenOnce /\ OwnWords /\ KeysSeen /\ UserDecides

LEMMA AppendIs ==
    ASSUME NEW S, NEW s \in Seq(S), NEW x \in S
    PROVE  /\ Append(s, x) \in Seq(S) /\ Len(s) \in Nat /\ Len(Append(s, x)) = Len(s) + 1
           /\ DOMAIN s = 1..Len(s) /\ DOMAIN Append(s, x) = 1..(Len(s) + 1)
           /\ Append(s, x)[Len(s) + 1] = x /\ \A k \in 1..Len(s) : Append(s, x)[k] = s[k]
  OBVIOUS

LEMMA EntriesDiffer ==
    ASSUME NEW s, NEW m
    PROVE  /\ Heard(s, m) # <<"next">> /\ Promoted(s, m) # <<"next">>
           /\ Heard(s, m)[1] = "heard" /\ Promoted(s, m)[1] = "promoted" /\ <<"next">>[1] = "next"
           /\ Promoted(s, m)[2] = s /\ Promoted(s, m)[3] = m
           /\ \A t, n : Heard(t, n) # Promoted(s, m)
           /\ \A t, n : Promoted(t, n) = Promoted(s, m) => t = s /\ n = m
  BY DEF Heard, Promoted

(* What is appended to the log, and what it leaves waiting.                *)
LEMMA LogGrows ==
    ASSUME IngestInv, NEW x \in LogEntry, log' = Append(log, x), voices' \in [Sessions -> SUBSET Media],
           \A s \in Sessions : \A m \in voices'[s] :
              x = Heard(s, m) \/ (m \in voices[s] /\ x # <<"next">> /\ x # Promoted(s, m)),
           \A s, m : x = Promoted(s, m) => s \in Sessions /\ m \in voices[s]
    PROVE  log' \in Seq(LogEntry) /\ StillHeard' /\ SpokenOnce'
<1>1. /\ log \in Seq(LogEntry) /\ Len(log) \in Nat /\ DOMAIN log = 1..Len(log)
      /\ log' \in Seq(LogEntry) /\ DOMAIN log' = 1..(Len(log) + 1)
      /\ log'[Len(log) + 1] = x /\ \A k \in 1..Len(log) : log'[k] = log[k]
  BY DEF IngestInv, IngestShape
<1>2. ASSUME NEW s \in Sessions, NEW m \in voices'[s]
      PROVE  \E j \in DOMAIN log' :
                /\ log'[j] = Heard(s, m)
                /\ \A i \in DOMAIN log' : j < i => log'[i] # <<"next">> /\ log'[i] # Promoted(s, m)
  <2>1. CASE x = Heard(s, m)
    BY <1>1, <2>1
  <2>2. CASE x # Heard(s, m)
    <3>1. m \in voices[s] /\ x # <<"next">> /\ x # Promoted(s, m)
      BY <1>2, <2>2
    <3>2. PICK j \in DOMAIN log :
             /\ log[j] = Heard(s, m)
             /\ \A i \in DOMAIN log : j < i => log[i] # <<"next">> /\ log[i] # Promoted(s, m)
      BY <3>1 DEF IngestInv, StillHeard
    <3>3. j \in DOMAIN log' /\ log'[j] = Heard(s, m)
      BY <1>1, <3>2
    <3>4. ASSUME NEW i \in DOMAIN log', j < i
          PROVE  log'[i] # <<"next">> /\ log'[i] # Promoted(s, m)
      <4>1. CASE i \in 1..Len(log)
        BY <1>1, <3>2, <3>4, <4>1
      <4>2. CASE i = Len(log) + 1
        BY <1>1, <3>1, <4>2
      <4> QED  BY <1>1, <4>1, <4>2
    <3> QED  BY <3>3, <3>4
  <2> QED  BY <2>1, <2>2
<1>3. ASSUME NEW k \in DOMAIN log', log'[k][1] = "promoted"
      PROVE  \E j \in 1..(k - 1) :
                /\ log'[j] = <<"heard", log'[k][2], log'[k][3]>>
                /\ \A i \in (j + 1)..(k - 1) : log'[i] # <<"next">> /\ log'[i] # log'[k]
  <2>1. CASE k \in 1..Len(log)
    <3>1. log'[k] = log[k]
      BY <1>1, <2>1
    <3>2. PICK j \in 1..(k - 1) :
             /\ log[j] = <<"heard", log[k][2], log[k][3]>>
             /\ \A i \in (j + 1)..(k - 1) : log[i] # <<"next">> /\ log[i] # log[k]
      BY <1>1, <1>3, <2>1, <3>1 DEF IngestInv, SpokenOnce
    <3>3. \A i \in 1..(k - 1) : log'[i] = log[i]
      BY <1>1, <2>1
    <3>4. log'[j] = <<"heard", log'[k][2], log'[k][3]>>
      BY <3>1, <3>2, <3>3
    <3>5. \A i \in (j + 1)..(k - 1) : log'[i] # <<"next">> /\ log'[i] # log'[k]
      <4>1. ASSUME NEW i \in (j + 1)..(k - 1)
            PROVE  log'[i] = log[i]
        BY <2>1, <3>2, <3>3
      <4> QED  BY <3>1, <3>2, <4>1
    <3> QED  BY <3>2, <3>4, <3>5
  <2>2. CASE k = Len(log) + 1
    <3>1. PICK s \in Sessions, m \in Media : x = Promoted(s, m)
      BY <1>1, <1>3, <2>2, EntriesDiffer DEF LogEntry, Apart
    <3>2. PICK j \in DOMAIN log :
             /\ log[j] = Heard(s, m)
             /\ \A i \in DOMAIN log : j < i => log[i] # <<"next">> /\ log[i] # Promoted(s, m)
      BY <3>1 DEF IngestInv, StillHeard
    <3>3. log'[k] = Promoted(s, m) /\ log'[j] = <<"heard", log'[k][2], log'[k][3]>>
      BY <1>1, <2>2, <3>1, <3>2, EntriesDiffer DEF Heard
    <3>4. ASSUME NEW i \in (j + 1)..(k - 1)
          PROVE  log'[i] # <<"next">> /\ log'[i] # log'[k]
      <4>1. i \in DOMAIN log /\ j < i /\ log'[i] = log[i]
        BY <1>1, <2>2, <3>2
      <4> QED  BY <3>2, <3>3, <4>1
    <3>5. j \in 1..(k - 1)
      BY <1>1, <2>2, <3>2
    <3> QED  BY <3>3, <3>4, <3>5
  <2>3. k \in 1..Len(log) \/ k = Len(log) + 1
    BY <1>1, <1>3
  <2> QED  BY <2>1, <2>2, <2>3
<1> QED  BY <1>1, <1>2, <1>3 DEF StillHeard, SpokenOnce

LEMMA LogKept ==
    ASSUME IngestInv, UNCHANGED <<log, voices>>
    PROVE  voices' \in [Sessions -> SUBSET Media] /\ log' \in Seq(LogEntry) /\ StillHeard' /\ SpokenOnce'
<1>1. voices' \in [Sessions -> SUBSET Media] /\ log' \in Seq(LogEntry)
  BY DEF IngestInv, IngestShape
<1>2. log' = log /\ voices' = voices
  OBVIOUS
<1>3. StillHeard'
  BY <1>2 DEF IngestInv, StillHeard
<1>4. SpokenOnce'
  <2>1. SpokenOnce
    BY DEF IngestInv
  <2>2. SUFFICES ASSUME NEW k \in DOMAIN log', log'[k][1] = "promoted"
                 PROVE  \E j \in 1..(k - 1) :
                           /\ log'[j] = <<"heard", log'[k][2], log'[k][3]>>
                           /\ \A i \in (j + 1)..(k - 1) : log'[i] # <<"next">> /\ log'[i] # log'[k]
    BY DEF SpokenOnce
  <2>3. PICK j \in 1..(k - 1) :
           /\ log[j] = <<"heard", log[k][2], log[k][3]>>
           /\ \A i \in (j + 1)..(k - 1) : log[i] # <<"next">> /\ log[i] # log[k]
    BY <1>2, <2>1, <2>2 DEF SpokenOnce
  <2> QED  BY <1>2, <2>3
<1> QED  BY <1>1, <1>3, <1>4

(* Events are added before any is refined.                                 *)
Adds(actor, surface) ==
    \E text \in Texts, call \in Calls \cup {NoCall} : Emit(actor, surface, text, call)

LEMMA EventsGrow ==
    ASSUME IngestInv, ReadLine,
           \/ events' = events
           \/ \E actor \in {"user", "other"} : Adds(actor, "text")
           \/ Adds("other", "tool_result.content")
    PROVE  /\ events' \in Seq(Event) /\ facts' \in Seq(Event)
           /\ refined' \in Int /\ -1 <= refined' /\ refined' <= Len(events')
           /\ OwnWords' /\ KeysSeen' /\ UserDecides'
<1>1. /\ refined = -1 /\ refined' = refined /\ facts' = facts /\ keys' = keys
      /\ events \in Seq(Event) /\ facts \in Seq(Event)
  BY DEF ReadLine, IngestInv, IngestShape
<1>2. /\ events' \in Seq(Event) /\ Len(events') \in Nat
      /\ \A k \in DOMAIN events : k \in DOMAIN events' /\ events'[k] = events[k]
      /\ \A k \in DOMAIN events' :
            k \in DOMAIN events \/ (events'[k].actor = "user" => events'[k].surface = "text")
  <2>1. CASE events' = events
    BY <1>1, <2>1, AppendIs
  <2>2. CASE events' # events
    <3>1. PICK e \in Event : /\ events' = Append(events, e)
                             /\ e.actor = "user" => e.surface = "text"
      <4>1. PICK actor \in {"user", "other"}, surface \in {"text", "tool_result.content"},
                 text \in Texts, call \in Calls \cup {NoCall} :
               Emit(actor, surface, text, call) /\ (actor = "user" => surface = "text")
        BY <2>2 DEF Adds
      <4> DEFINE e == [actor |-> actor, surface |-> surface, text |-> text, call |-> call]
      <4>2. e \in Event /\ (e.actor = "user" => e.surface = "text")
        BY <4>1 DEF Event
      <4> QED  BY <4>1, <4>2 DEF Emit
    <3>2. /\ events' \in Seq(Event) /\ DOMAIN events' = 1..(Len(events) + 1)
          /\ Len(events) \in Nat /\ DOMAIN events = 1..Len(events) /\ Len(events') = Len(events) + 1
      BY <1>1, <3>1, AppendIs
    <3>3. events'[Len(events) + 1] = e /\ \A k \in 1..Len(events) : events'[k] = events[k]
      BY <1>1, <3>1, AppendIs
    <3>4. \A k \in DOMAIN events' : k \in DOMAIN events \/ events'[k] = e
      BY <3>2, <3>3
    <3>5. \A k \in DOMAIN events : k \in DOMAIN events' /\ events'[k] = events[k]
      BY <3>2, <3>3
    <3>6. Len(events') \in Nat
      BY <3>2
    <3> QED  BY <3>1, <3>2, <3>4, <3>5, <3>6
  <2> QED  BY <2>1, <2>2
<1>3. OwnWords'
  BY <1>2 DEF IngestInv, OwnWords
<1>4. KeysSeen'
  BY <1>1 DEF IngestInv, KeysSeen
<1>5. UserDecides'
  BY <1>1, <1>2 DEF IngestInv, UserDecides
<1> QED  BY <1>1, <1>2, <1>3, <1>4, <1>5

LEMMA SpeakInv ==
    ASSUME IngestInv, NEW text \in Texts,
           \/ AssistantPart(text)
           \/ \E s \in Sessions, m \in Media, frame \in Frames : UserPart(s, m, frame, text)
    PROVE  IngestInv'
<1>1. CASE AssistantPart(text)
  <2>1. ReadLine /\ Adds("other", "text") /\ UNCHANGED <<voices, log>>
    BY <1>1 DEF AssistantPart, Adds
  <2> QED  BY <2>1, LogKept, EventsGrow DEF IngestInv, IngestShape
<1>2. ASSUME NEW s \in Sessions, NEW m \in Media, NEW frame \in Frames, UserPart(s, m, frame, text)
      PROVE  IngestInv'
  <2>1. PICK actor \in {"user", "other"} : actor = Speaker(frame)
    BY DEF Speaker
  <2>2. ReadLine /\ (Adds(actor, "text") \/ events' = events)
    BY <1>2, <2>1 DEF UserPart, Adds
  <2>3. CASE HeardVoice(frame)
    <3>1. PICK x \in LogEntry : x = Heard(s, m)
      BY DEF LogEntry
    <3>2. log' = Append(log, x) /\ voices' = [voices EXCEPT ![s] = @ \cup {m}]
      BY <1>2, <2>3, <3>1 DEF UserPart, Heard
    <3>3. /\ voices' \in [Sessions -> SUBSET Media]
          /\ \A t \in Sessions : \A n \in voices'[t] : n \in voices[t] \/ (t = s /\ n = m)
      <4>1. PICK v \in SUBSET Media : v = voices[s] \cup {m}
        BY DEF IngestInv, IngestShape
      <4>2. voices' = [voices EXCEPT ![s] = v] /\ voices \in [Sessions -> SUBSET Media]
        BY <3>2, <4>1 DEF IngestInv, IngestShape
      <4>3. voices'[s] = v /\ \A t \in Sessions \ {s} : voices'[t] = voices[t]
        BY <4>2
      <4>4. voices' \in [Sessions -> SUBSET Media]
        BY <4>2
      <4> QED  BY <4>1, <4>3, <4>4
    <3>4. x # <<"next">> /\ \A t, n : x # Promoted(t, n)
      BY <3>1, EntriesDiffer
    <3>5. log' \in Seq(LogEntry) /\ StillHeard' /\ SpokenOnce'
      BY <3>1, <3>2, <3>3, <3>4, LogGrows
    <3> QED  BY <2>2, <3>3, <3>5, EventsGrow DEF IngestInv, IngestShape
  <2>4. CASE ~HeardVoice(frame)
    <3>1. UNCHANGED <<voices, log>>
      BY <1>2, <2>4 DEF UserPart
    <3> QED  BY <2>2, <3>1, LogKept, EventsGrow DEF IngestInv, IngestShape
  <2> QED  BY <2>3, <2>4
<1> QED  BY <1>1, <1>2

LEMMA CallInv ==
    ASSUME IngestInv, NEW c \in Calls,
           \/ DeniedCall(c) \/ ResultDenied(c) \/ ResultDropped(c)
           \/ \E s \in Sessions, m \in Media : Call(c, s, m)
    PROVE  IngestInv'
<1>1. ReadLine /\ UNCHANGED <<events, voices, log>>
  BY DEF DeniedCall, ResultDenied, ResultDropped, Call
<1> QED  BY <1>1, LogKept, EventsGrow DEF IngestInv, IngestShape

LEMMA ResultInv ==
    ASSUME IngestInv, NEW c \in Calls, NEW s \in Sessions, NEW text \in Texts,
           Promote(c, s, text) \/ Result(c, s, text)
    PROVE  IngestInv'
<1>1. CASE Result(c, s, text)
  <2>1. ReadLine /\ Adds("other", "tool_result.content") /\ UNCHANGED <<voices, log>>
    BY <1>1 DEF Result, Adds
  <2> QED  BY <2>1, LogKept, EventsGrow DEF IngestInv, IngestShape
<1>2. CASE Promote(c, s, text)
  <2>1. ReadLine /\ Adds("user", "text")
    BY <1>2 DEF Promote, Adds
  <2>2. PICK m \in voices[s] : m = pending[c][2]
    BY <1>2 DEF Promote, Transcribes
  <2>3. m \in Media
    BY <2>2 DEF IngestInv, IngestShape
  <2>4. PICK x \in LogEntry : x = Promoted(s, m)
    BY <2>3 DEF LogEntry
  <2>5. log' = Append(log, x) /\ voices' = [voices EXCEPT ![s] = @ \ {m}]
    BY <1>2, <2>2, <2>4 DEF Promote, Promoted
  <2>6. /\ voices' \in [Sessions -> SUBSET Media]
        /\ \A t \in Sessions : \A n \in voices'[t] : n \in voices[t] /\ ~(t = s /\ n = m)
    <3>1. PICK v \in SUBSET Media : v = voices[s] \ {m}
      BY DEF IngestInv, IngestShape
    <3>2. voices' = [voices EXCEPT ![s] = v] /\ voices \in [Sessions -> SUBSET Media]
      BY <2>5, <3>1 DEF IngestInv, IngestShape
    <3>3. voices'[s] = v /\ \A t \in Sessions \ {s} : voices'[t] = voices[t]
      BY <3>2
    <3>4. voices' \in [Sessions -> SUBSET Media]
      BY <3>2
    <3> QED  BY <3>1, <3>3, <3>4
  <2>7. /\ x # <<"next">>
        /\ \A t, n : x = Promoted(t, n) => t = s /\ n = m
    BY <2>4, EntriesDiffer
  <2>8. log' \in Seq(LogEntry) /\ StillHeard' /\ SpokenOnce'
    BY <2>2, <2>5, <2>6, <2>7, LogGrows
  <2> QED  BY <2>1, <2>6, <2>8, EventsGrow DEF IngestInv, IngestShape
<1> QED  BY <1>1, <1>2

LEMMA TurnInv == ASSUME IngestInv, NextTranscript \/ Ingested  PROVE IngestInv'
<1>1. UNCHANGED <<events, facts, keys>>
  BY DEF NextTranscript, Ingested
<1>2. OwnWords' /\ KeysSeen'
  BY <1>1 DEF IngestInv, OwnWords, KeysSeen
<1>3. refined = -1 /\ refined' \in {-1, 0} /\ Len(events) \in Nat
  BY DEF NextTranscript, Ingested, IngestInv, IngestShape
<1>4. UserDecides'
  BY <1>1, <1>3 DEF IngestInv, UserDecides
<1>5. voices' \in [Sessions -> SUBSET Media] /\ log' \in Seq(LogEntry) /\ StillHeard' /\ SpokenOnce'
  <2>1. CASE NextTranscript
    <3>1. PICK x \in LogEntry : x = <<"next">>
      <4>1. Apart \in LogEntry
        BY DEF LogEntry
      <4> QED  BY <4>1 DEF Apart
    <3>2. log' = Append(log, x) /\ voices' = NoVoices
      BY <2>1, <3>1 DEF NextTranscript
    <3>3. voices' \in [Sessions -> SUBSET Media] /\ \A s \in Sessions : voices'[s] = {}
      BY <3>2 DEF NoVoices
    <3>4. \A s, m : x # Promoted(s, m)
      BY <3>1, EntriesDiffer
    <3> QED  BY <3>2, <3>3, <3>4, LogGrows
  <2>2. CASE Ingested
    BY <2>2, LogKept DEF Ingested
  <2> QED  BY <2>1, <2>2
<1> QED  BY <1>1, <1>2, <1>3, <1>4, <1>5 DEF IngestInv, IngestShape

LEMMA RefineInv == ASSUME IngestInv, Refine  PROVE IngestInv'
<1>1. /\ refined \in Nat /\ refined < Len(events) /\ Len(events) \in Nat /\ refined' = refined + 1
      /\ UNCHANGED <<events, voices, log>>
      /\ events \in Seq(Event) /\ facts \in Seq(Event) /\ DOMAIN events = 1..Len(events)
  BY AppendIs DEF Refine, IngestInv, IngestShape
<1>2. PICK e \in Event : e = events[refined + 1]
  BY <1>1
<1>3. e.actor = "user" => MakesFact(e)
  BY <1>1, <1>2 DEF IngestInv, OwnWords, MakesFact
<1> DEFINE new == MakesFact(e) /\ KeyOf[e.text] \notin keys
<1>4. CASE ~new
  <2>1. facts' = facts /\ keys' = keys
    BY <1>2, <1>4 DEF Refine
  <2>2. e.actor = "user" => \E n \in DOMAIN facts : KeyOf[facts[n].text] = KeyOf[e.text]
    BY <1>3, <1>4 DEF IngestInv, KeysSeen
  <2>3. UserDecides'
    <3>1. ASSUME NEW k \in 1..refined', events[k].actor = "user"
          PROVE  \E n \in DOMAIN facts : KeyOf[facts[n].text] = KeyOf[events[k].text]
      <4>1. CASE k \in 1..refined
        BY <3>1, <4>1 DEF IngestInv, UserDecides
      <4>2. CASE k = refined + 1
        BY <1>2, <2>2, <3>1, <4>2
      <4> QED  BY <1>1, <4>1, <4>2
    <3> QED  BY <1>1, <2>1, <3>1 DEF IngestInv, UserDecides
  <2> QED  BY <1>1, <2>1, <2>3, LogKept DEF IngestInv, IngestShape, OwnWords, KeysSeen
<1>5. CASE new
  <2>1. facts' = Append(facts, e) /\ keys' = keys \cup {KeyOf[e.text]}
    BY <1>2, <1>5 DEF Refine
  <2>2. /\ facts' \in Seq(Event) /\ Len(facts) \in Nat /\ DOMAIN facts = 1..Len(facts)
        /\ DOMAIN facts' = 1..(Len(facts) + 1)
        /\ facts'[Len(facts) + 1] = e /\ \A k \in 1..Len(facts) : facts'[k] = facts[k]
    BY <1>1, <2>1, AppendIs
  <2>3. KeysSeen'
    BY <2>1, <2>2 DEF IngestInv, KeysSeen
  <2>4. \A k \in DOMAIN facts : KeyOf[facts[k].text] # KeyOf[e.text]
    BY <1>5 DEF IngestInv, KeysSeen
  <2>5. ASSUME NEW k \in DOMAIN facts', facts'[k].text \in Authority
        PROVE  \E j \in DOMAIN events : events[j].actor = "user" /\ events[j].text = facts'[k].text
    <3>1. CASE k \in DOMAIN facts
      BY <2>2, <2>5, <3>1 DEF IngestInv, UserDecides
    <3>2. CASE k = Len(facts) + 1
      BY <1>1, <1>2, <1>5, <2>2, <2>5, <3>2 DEF MakesFact
    <3> QED  BY <2>2, <3>1, <3>2
  <2>6. ASSUME NEW k \in 1..refined', events[k].actor = "user"
        PROVE  \E n \in DOMAIN facts' : KeyOf[facts'[n].text] = KeyOf[events[k].text]
    <3>1. CASE k \in 1..refined
      BY <2>2, <2>6, <3>1 DEF IngestInv, UserDecides
    <3>2. CASE k = refined + 1
      BY <1>2, <2>2, <3>2
    <3> QED  BY <1>1, <3>1, <3>2
  <2>7. \A m, n \in DOMAIN facts' : m # n => KeyOf[facts'[m].text] # KeyOf[facts'[n].text]
    BY <2>2, <2>4 DEF IngestInv, UserDecides
  <2>8. UserDecides'
    BY <1>1, <2>5, <2>6, <2>7 DEF UserDecides
  <2> QED  BY <1>1, <2>2, <2>3, <2>8, LogKept DEF IngestInv, IngestShape, OwnWords
<1> QED  BY <1>4, <1>5

(* IngestInv is kept by every record of a transcript, and by the           *)
(* refinement of the events into facts.                                    *)
THEOREM IngestInductive == IngestSpec => []IngestInv
<1>1. ASSUME IngestInit
      PROVE  IngestInv
  <2>1. /\ events = <<>> /\ facts = <<>> /\ log = <<>> /\ refined = -1 /\ keys = {} /\ voices = NoVoices
    BY <1>1 DEF IngestInit
  <2>2. IngestShape
    BY <2>1 DEF IngestShape, NoVoices
  <2>3. StillHeard /\ SpokenOnce
    BY <2>1 DEF StillHeard, SpokenOnce, NoVoices
  <2>4. OwnWords /\ KeysSeen /\ UserDecides
    BY <2>1 DEF OwnWords, KeysSeen, UserDecides
  <2> QED  BY <2>2, <2>3, <2>4 DEF IngestInv
<1>2. ASSUME IngestInv, [IngestNext]_ingestVars
      PROVE  IngestInv'
  <2>1. CASE IngestNext
    BY <1>2, <2>1, SpeakInv, CallInv, ResultInv, TurnInv, RefineInv DEF IngestNext
  <2>2. CASE UNCHANGED ingestVars
    <3>1. UNCHANGED <<events, facts, keys, voices, log, refined>>
      BY <2>2 DEF ingestVars
    <3> QED  BY <1>2, <3>1, LogKept DEF IngestInv, IngestShape, OwnWords, KeysSeen, UserDecides
  <2> QED  BY <1>2, <2>1, <2>2
<1> QED  BY <1>1, <1>2, PTL DEF IngestSpec

(* Of the calls that transcribe one voice message, in any order and in any *)
(* transcript, the result of one becomes the user's words (ingest_file).   *)
THEOREM VoiceSpokenOnce == IngestSpec => []SpokenOnce
<1>1. IngestInv => SpokenOnce
  BY DEF IngestInv
<1> QED  BY <1>1, IngestInductive, PTL

(* Only what the user wrote or spoke becomes a decision, and what he said  *)
(* is a fact unless the same words already were (fact_from_event).         *)
THEOREM OnlyTheUserDecides == IngestSpec => []UserDecides
<1>1. IngestInv => UserDecides
  BY DEF IngestInv
<1> QED  BY <1>1, IngestInductive, PTL
-----------------------------------------------------------------------------
(* A batch is the highest of its set. *)
LEMMA HighestIs ==
    ASSUME NEW S \in SUBSET Batches
    PROVE  /\ S = {} => Highest(S) = 0
           /\ S # {} => Highest(S) \in S /\ \A n \in S : n <= Highest(S)
           /\ Highest(S) \in 0..MaxBatch
<1>1. CASE S = {}
  BY <1>1, BatchAssumption DEF Highest, BatchAssumption
<1>2. CASE S # {}
  <2>0. S \subseteq 1..MaxBatch /\ MaxBatch \in Nat
    BY BatchAssumption DEF Batches, BatchAssumption
  <2> DEFINE T == {k \in Nat : MaxBatch - k \in S}
  <2>1. T \in SUBSET Nat /\ T # {}
    <3>1. PICK n \in S : TRUE
      BY <1>2
    <3>2. n \in Nat /\ MaxBatch - n \in Nat /\ MaxBatch - (MaxBatch - n) = n
      BY <2>0
    <3>3. MaxBatch - n \in T
      BY <3>2
    <3> QED  BY <3>3
  <2>2. PICK x \in T : \A y \in T : x <= y
    <3> HIDE DEF T
    <3> QED  BY <2>1, Least
  <2>3. PICK m \in S : m = MaxBatch - x
    BY <2>2
  <2>4. \A n \in S : n <= m
    <3> TAKE n \in S
    <3>1. n \in Nat /\ MaxBatch - n \in Nat /\ MaxBatch - (MaxBatch - n) = n
      BY <2>0
    <3>2. x <= MaxBatch - n
      BY <2>2, <3>1
    <3> QED  BY <2>0, <2>3, <3>1, <3>2
  <2>5. Highest(S) \in S /\ \A n \in S : n <= Highest(S)
    BY <1>2, <2>4 DEF Highest
  <2>6. \A n \in S : n \in 0..MaxBatch
    BY <2>0
  <2> QED  BY <1>2, <2>5, <2>6
<1> QED  BY <1>1, <1>2

-----------------------------------------------------------------------------
(* Promotion batches, for any number of processes, batches and local facts.*)
(*                                                                         *)
(* The argument.  A parent comes before its child (Linked), so batches that*)
(* check_chain accepts lie after the last one applied, and what is applied *)
(* with them is one chain again (Chains).  A process that runs alone holds *)
(* all of the store, and what it staged is what it moves (RunsAlone).      *)

Mem == [facts : SUBSET Ids, applied : SUBSET Batches, pending : SUBSET Batches]

Labels == {"idle", "read", "pending", "staged", "signed", "verified", "moved", "collided", "writing"}

BatchShape ==
    /\ server \in [Batches -> Batch \cup {None}]
    /\ store \subseteq Ids /\ applied \subseteq Batches
    /\ candidate \in Candidate \cup {None}
    /\ pc \in [Procs -> Labels]
    /\ mem \in [Procs -> Mem]
    /\ overlapped \in BOOLEAN

Linked == \A s \in Built : server[s].parent < s

(* Batches of which each but the first is the child of the one before it.  *)
Chain(S) ==
    /\ S \subseteq Built
    /\ \A s \in S : LET prev == Highest({t \in S : t < s})
                    IN  prev # 0 => server[s].parent = prev

HasFetched(p) == pc[p] \in {"pending", "staged", "signed", "verified", "moved"}

Chains ==
    /\ Chain(applied)
    /\ \A p \in Procs : /\ Chain(mem[p].applied)
                        /\ HasFetched(p) => Chain(mem[p].applied \cup mem[p].pending)

RunsAlone ==
    ~overlapped =>
        /\ applied \subseteq store
        /\ \A p \in Procs :
              /\ \A q \in Procs : pc[p] # "idle" /\ pc[q] # "idle" => p = q
              /\ pc[p] # "idle" => mem[p].applied \subseteq store
              /\ pc[p] \in Labels \ {"idle", "moved", "collided"} => store \subseteq mem[p].facts
              /\ pc[p] \in {"pending", "staged", "signed", "verified"} =>
                    mem[p].pending \subseteq mem[p].facts
              /\ pc[p] \in {"staged", "signed", "verified"} =>
                    candidate # None /\ candidate.facts = mem[p].facts
              /\ pc[p] = "moved" => mem[p].pending \subseteq store

BatchInv == BatchShape /\ Linked /\ Chains /\ RunsAlone

(* Nobody changes a parent, so a chain stays one.                          *)
LEMMA ChainStays ==
    ASSUME \A s \in Built : s \in Built' /\ server'[s].parent = server[s].parent,
           NEW S, Chain(S)
    PROVE  Chain(S)'
  BY DEF Chain

(* What check_chain accepts continues the chain it starts from.            *)
LEMMA ChainContinues ==
    ASSUME BatchShape, Linked, NEW S \in SUBSET Batches, Chain(S), NEW P \in SUBSET Built,
           Chained(P, Highest(S))
    PROVE  Chain(S \cup P)
<1>1. P \in SUBSET Batches /\ S \subseteq Built /\ Built \subseteq Batches
  BY DEF Built, Chain
<1>2. \A n \in Batches : n \in Nat /\ n # 0
  BY BatchAssumption DEF Batches, BatchAssumption
<1>3. \A s \in P, t \in S : t < s
  <2>1. SUFFICES ASSUME P # {}, S # {}
                 PROVE  \A s \in P, t \in S : t < s
    OBVIOUS
  <2>2. PICK f \in P : \A s \in P : f <= s
    <3>1. P \in SUBSET Nat
      BY <1>1, <1>2
    <3> QED  BY <2>1, <3>1, Least
  <2>3. {t \in P : t < f} = {}
    BY <1>1, <1>2, <2>2
  <2>4. Highest(S) \in S /\ \A t \in S : t <= Highest(S)
    BY <2>1, HighestIs
  <2>5. server[f].parent = Highest(S)
    BY <1>2, <2>2, <2>3, <2>4 DEF Chained
  <2>6. Highest(S) < f
    BY <1>1, <2>2, <2>5 DEF Linked
  <2> QED  BY <1>1, <1>2, <2>2, <2>4, <2>6
<1>4. ASSUME NEW s \in S \cup P, Highest({t \in S \cup P : t < s}) # 0
      PROVE  server[s].parent = Highest({t \in S \cup P : t < s})
  <2>1. CASE s \in P
    <3>1. CASE {t \in P : t < s} = {}
      <4>1. {t \in S \cup P : t < s} = S
        BY <1>3, <2>1, <3>1
      <4> QED  BY <1>4, <2>1, <3>1, <4>1 DEF Chained
    <3>2. CASE {t \in P : t < s} # {}
      <4> DEFINE A == {t \in S \cup P : t < s}
                 B == {t \in P : t < s}
      <4>1. A \in SUBSET Batches /\ B \in SUBSET Batches /\ B \subseteq A /\ B # {}
        BY <1>1, <3>2
      <4>2. \A t \in A \ B : t \in S
        OBVIOUS
      <4> HIDE DEF A, B
      <4>3. /\ Highest(A) \in A /\ \A n \in A : n <= Highest(A)
            /\ Highest(B) \in B /\ \A n \in B : n <= Highest(B)
        BY <4>1, HighestIs
      <4>4. Highest(A) \in B
        <5>1. CASE Highest(A) \notin B
          <6>1. Highest(A) \in S /\ Highest(B) \in P
            BY <4>2, <4>3, <5>1 DEF B
          <6>2. Highest(A) < Highest(B) /\ Highest(B) <= Highest(A)
            BY <1>3, <4>1, <4>3, <6>1
          <6> QED  BY <1>1, <1>2, <6>1, <6>2
        <5> QED  BY <5>1
      <4>5. Highest(A) = Highest(B)
        BY <1>2, <4>1, <4>3, <4>4
      <4> QED  BY <1>4, <2>1, <3>2, <4>5 DEF Chained, A, B
    <3> QED  BY <3>1, <3>2
  <2>2. CASE s \in S
    <3>1. {t \in S \cup P : t < s} = {t \in S : t < s}
      BY <1>1, <1>2, <1>3, <2>2
    <3> QED  BY <1>4, <2>2, <3>1 DEF Chain
  <2> QED  BY <2>1, <2>2
<1> QED  BY <1>1, <1>4 DEF Chain

(* One process goes on; the server does not.                               *)
LEMMA ProcMoves ==
    ASSUME BatchInv, NEW p \in Procs, NEW label \in Labels, NEW m \in Mem,
           pc' = [pc EXCEPT ![p] = label], mem' = [mem EXCEPT ![p] = m], server' = server,
           overlapped' \in BOOLEAN,
           ~overlapped' => ~overlapped /\ \A q \in Procs \ {p} : pc[q] = "idle",
           store' \subseteq Ids, applied' \subseteq Batches, candidate' \in Candidate \cup {None},
           Chain(applied'), Chain(m.applied),
           label \in {"pending", "staged", "signed", "verified", "moved"} => Chain(m.applied \cup m.pending),
           ~overlapped =>
              /\ applied' \subseteq store'
              /\ label # "idle" => m.applied \subseteq store'
              /\ label \in Labels \ {"idle", "moved", "collided"} => store' \subseteq m.facts
              /\ label \in {"pending", "staged", "signed", "verified"} => m.pending \subseteq m.facts
              /\ label \in {"staged", "signed", "verified"} =>
                    candidate' # None /\ candidate'.facts = m.facts
              /\ label = "moved" => m.pending \subseteq store'
    PROVE  BatchInv'
<1>1. /\ pc' \in [Procs -> Labels] /\ mem' \in [Procs -> Mem]
      /\ pc'[p] = label /\ mem'[p] = m
      /\ \A q \in Procs \ {p} : pc'[q] = pc[q] /\ mem'[q] = mem[q]
  BY DEF BatchInv, BatchShape
<1>2. BatchShape' /\ Linked'
  BY <1>1 DEF BatchInv, BatchShape, Linked, Built
<1>3. \A S : Chain(S) => Chain(S)'
  BY DEF Chain, Built
<1>4. Chains'
  <2>1. Chain(applied)'
    BY DEF Chain, Built
  <2>2. ASSUME NEW q \in Procs
        PROVE  /\ Chain(mem[q].applied)'
               /\ HasFetched(q)' => Chain(mem[q].applied \cup mem[q].pending)'
    <3>1. PICK a, b : a = mem'[q].applied /\ b = mem'[q].pending
      OBVIOUS
    <3>2. Chain(a) /\ (HasFetched(q)' => Chain(a \cup b))
      BY <1>1, <3>1 DEF BatchInv, Chains, HasFetched
    <3>3. Chain(a)' /\ (HasFetched(q)' => Chain(a \cup b)')
      BY <1>3, <3>2
    <3> QED  BY <3>1, <3>3 DEF Chain, Built
  <2> QED  BY <2>1, <2>2 DEF Chains
<1>5. RunsAlone'
  <2>1. SUFFICES ASSUME ~overlapped'
                 PROVE  RunsAlone'
    BY DEF RunsAlone
  <2>2. ~overlapped /\ \A q \in Procs \ {p} : pc'[q] = "idle"
    BY <1>1, <2>1
  <2> QED  BY <1>1, <2>2 DEF RunsAlone
<1> QED  BY <1>2, <1>4, <1>5 DEF BatchInv

(* Who goes on while no two processes ever ran at once is alone.           *)
LEMMA StaysAlone ==
    ASSUME BatchInv, NEW p \in Procs
    PROVE  /\ overlapped \in BOOLEAN
           /\ pc[p] # "idle" => (~overlapped => \A q \in Procs \ {p} : pc[q] = "idle")
           /\ \A label : Start(p, label) =>
                 /\ overlapped' \in BOOLEAN
                 /\ ~overlapped' => ~overlapped /\ \A q \in Procs \ {p} : pc[q] = "idle"
<1>1. overlapped \in BOOLEAN /\ (pc[p] # "idle" => (~overlapped => \A q \in Procs \ {p} : pc[q] = "idle"))
  BY DEF BatchInv, BatchShape, RunsAlone
<1>2. ASSUME NEW label, Start(p, label)
      PROVE  /\ overlapped' \in BOOLEAN
             /\ ~overlapped' => ~overlapped /\ \A q \in Procs \ {p} : pc[q] = "idle"
  <2>1. overlapped' = (overlapped \/ \E q \in Procs : pc[q] # "idle")
    BY <1>2 DEF Start
  <2> QED  BY <2>1
<1> QED  BY <1>1, <1>2

LEMMA TypedMem ==
    ASSUME BatchInv, NEW p \in Procs
    PROVE  /\ mem[p] \in Mem /\ mem[p].facts \subseteq Ids
           /\ mem[p].applied \subseteq Batches /\ mem[p].pending \subseteq Batches
           /\ Idle \in Mem /\ Idle.facts = {} /\ Idle.applied = {} /\ Idle.pending = {}
           /\ store \subseteq Ids /\ applied \subseteq Batches /\ candidate \in Candidate \cup {None}
           /\ Batches \subseteq Ids
           /\ Chain(applied) /\ Chain({}) /\ Chain(mem[p].applied)
           /\ HasFetched(p) => Chain(mem[p].applied \cup mem[p].pending)
  BY DEF BatchInv, BatchShape, Mem, Idle, Chains, Chain, Ids

LEMMA ComeAndGo ==
    ASSUME BatchInv, NEW p \in Procs, Read(p) \/ LoadStore(p) \/ Stop(p) \/ Abandon(p)
    PROVE  BatchInv'
<1>1. CASE Read(p)
  <2> DEFINE m == [Idle EXCEPT !.facts = store, !.applied = applied]
  <2>1. m \in Mem /\ m.facts = store /\ m.applied = applied
    BY TypedMem DEF Idle, Mem
  <2>2. /\ Start(p, "read") /\ mem' = [mem EXCEPT ![p] = m]
        /\ UNCHANGED <<server, store, candidate, applied>>
    BY <1>1 DEF Read, Hold, files
  <2> HIDE DEF m
  <2>3. pc' = [pc EXCEPT ![p] = "read"]
    BY <2>2 DEF Start, Goto
  <2>4. ~overlapped => applied \subseteq store
    BY DEF BatchInv, RunsAlone
  <2> QED  BY <2>1, <2>2, <2>3, <2>4, StaysAlone, TypedMem, ProcMoves DEF Labels
<1>2. CASE LoadStore(p)
  <2> DEFINE m == [Idle EXCEPT !.facts = store]
  <2>1. m \in Mem /\ m.facts = store /\ m.applied = {}
    BY TypedMem DEF Idle, Mem
  <2>2. /\ Start(p, "writing") /\ mem' = [mem EXCEPT ![p] = m]
        /\ UNCHANGED <<server, store, candidate, applied>>
    BY <1>2 DEF LoadStore, Hold, files
  <2> HIDE DEF m
  <2>3. pc' = [pc EXCEPT ![p] = "writing"]
    BY <2>2 DEF Start, Goto
  <2>4. ~overlapped => applied \subseteq store
    BY DEF BatchInv, RunsAlone
  <2> QED  BY <2>1, <2>2, <2>3, <2>4, StaysAlone, TypedMem, ProcMoves DEF Labels
<1>3. CASE Stop(p) \/ Abandon(p)
  <2>1. /\ pc[p] # "idle" /\ pc' = [pc EXCEPT ![p] = "idle"] /\ mem' = [mem EXCEPT ![p] = Idle]
        /\ UNCHANGED <<server, store, applied, overlapped>> /\ candidate' \in {candidate, None}
    BY <1>3 DEF Stop, Abandon, Goto, Hold, files, history
  <2>2. ~overlapped => applied \subseteq store
    BY DEF BatchInv, RunsAlone
  <2>3. overlapped \in BOOLEAN /\ (~overlapped => \A q \in Procs \ {p} : pc[q] = "idle")
    BY <2>1, StaysAlone
  <2>4. "idle" \in Labels
    BY DEF Labels
  <2>5. candidate' \in Candidate \cup {None}
    BY <2>1, TypedMem
  <2> QED  BY <2>1, <2>2, <2>3, <2>4, <2>5, TypedMem, ProcMoves
<1> QED  BY <1>1, <1>2, <1>3

LEMMA FetchInv == ASSUME BatchInv, NEW p \in Procs, Fetch(p)  PROVE BatchInv'
<1>1. PICK n \in Mem : n = mem[p]
  BY TypedMem
<1> DEFINE fetched == {s \in Built : server[s].status = "built"} \ n.applied
           known == [n EXCEPT !.pending = fetched]
           added == [n EXCEPT !.pending = fetched, !.facts = @ \cup fetched]
<1>2. /\ pc[p] = "read" /\ Chained(fetched, Highest(n.applied))
      /\ \/ Goto(p, "collided") /\ Hold(p, known)
         \/ Goto(p, "pending") /\ Hold(p, added)
      /\ UNCHANGED <<server, store, candidate, applied, overlapped>>
  BY <1>1 DEF Fetch, files, history
<1>3. fetched \subseteq Built /\ Built \subseteq Batches /\ Batches \subseteq Ids
  BY TypedMem DEF Built
<1> HIDE DEF fetched
<1>4. /\ known \in Mem /\ known.applied = n.applied
      /\ added \in Mem /\ added.applied = n.applied
      /\ added.pending = fetched /\ added.facts = n.facts \cup fetched
  BY <1>3 DEF Mem
<1> HIDE DEF known, added
<1>5. Chain(n.applied) /\ n.applied \in SUBSET Batches /\ BatchShape /\ Linked
  BY <1>1, TypedMem DEF BatchInv
<1>6. Chain(n.applied \cup fetched)
  BY <1>2, <1>3, <1>5, ChainContinues
<1>7. /\ overlapped \in BOOLEAN
      /\ ~overlapped => \A q \in Procs \ {p} : pc[q] = "idle"
  BY <1>2, StaysAlone
<1>8. ~overlapped => applied \subseteq store /\ n.applied \subseteq store /\ store \subseteq n.facts
  BY <1>1, <1>2 DEF BatchInv, RunsAlone, Labels
<1>9. CASE Goto(p, "collided") /\ Hold(p, known)
  <2>1. pc' = [pc EXCEPT ![p] = "collided"] /\ mem' = [mem EXCEPT ![p] = known]
    BY <1>9 DEF Goto, Hold
  <2> QED  BY <1>2, <1>4, <1>5, <1>7, <1>8, <2>1, TypedMem, ProcMoves DEF Labels
<1>10. CASE Goto(p, "pending") /\ Hold(p, added)
  <2>1. pc' = [pc EXCEPT ![p] = "pending"] /\ mem' = [mem EXCEPT ![p] = added]
    BY <1>10 DEF Goto, Hold
  <2>2. Chain(added.applied) /\ Chain(added.applied \cup added.pending)
    BY <1>4, <1>5, <1>6
  <2>3. ~overlapped => /\ applied \subseteq store /\ added.applied \subseteq store
                       /\ store \subseteq added.facts /\ added.pending \subseteq added.facts
    BY <1>4, <1>8
  <2> QED  BY <1>2, <1>4, <1>7, <2>1, <2>2, <2>3, TypedMem, ProcMoves DEF Labels
<1> QED  BY <1>2, <1>9, <1>10

LEMMA CandidateInv ==
    ASSUME BatchInv, NEW p \in Procs, Stage(p) \/ Sign(p) \/ Verify(p)
    PROVE  BatchInv'
<1>1. PICK m \in Mem : m = mem[p]
  BY TypedMem
<1>2. PICK label \in {"staged", "signed", "verified"} :
         /\ pc' = [pc EXCEPT ![p] = label]
         /\ pc[p] \in {"pending", "staged", "signed"}
         /\ UNCHANGED <<server, store, applied, mem, overlapped>>
  BY DEF Stage, Sign, Verify, Goto, files, history
<1>3. /\ candidate' \in Candidate
      /\ pc[p] # "pending" => candidate' # None /\ candidate # None /\ candidate'.facts = candidate.facts
      /\ pc[p] = "pending" => candidate'.facts = m.facts
  <2>1. CASE Stage(p)
    <3>1. pc[p] = "pending" /\ candidate' = [facts |-> m.facts, signed |-> FALSE] /\ m.facts \subseteq Ids
      BY <1>1, <2>1, TypedMem DEF Stage
    <3> QED  BY <3>1 DEF Candidate
  <2>2. CASE Sign(p)
    <3>1. PICK c \in Candidate : c = candidate
      BY <2>2, TypedMem DEF Sign
    <3>2. candidate' = [c EXCEPT !.signed = TRUE] /\ pc[p] = "staged" /\ candidate # None
      BY <2>2, <3>1 DEF Sign
    <3>3. candidate' \in Candidate /\ candidate'.facts = c.facts
      BY <3>2 DEF Candidate
    <3> QED  BY <3>1, <3>2, <3>3, NoneIsNothing DEF NoneIsNothing
  <2>3. CASE Verify(p)
    BY <2>3, TypedMem DEF Verify, files
  <2> QED  BY <2>1, <2>2, <2>3
<1>4. mem' = [mem EXCEPT ![p] = m]
  BY <1>1, <1>2 DEF BatchInv, BatchShape
<1>5. /\ overlapped \in BOOLEAN
      /\ ~overlapped => \A q \in Procs \ {p} : pc[q] = "idle"
  BY <1>2, StaysAlone
<1>6. Chain(m.applied) /\ Chain(m.applied \cup m.pending)
  BY <1>1, <1>2, TypedMem DEF HasFetched
<1>7. ~overlapped => /\ applied \subseteq store /\ m.applied \subseteq store
                     /\ store \subseteq m.facts /\ m.pending \subseteq m.facts
                     /\ pc[p] # "pending" => candidate.facts = m.facts
  BY <1>1, <1>2 DEF BatchInv, RunsAlone, Labels
<1>8. candidate' # None /\ (~overlapped => candidate'.facts = m.facts)
  <2>1. candidate' # None
    BY <1>3, NoneIsNothing DEF NoneIsNothing
  <2>2. ASSUME ~overlapped
        PROVE  candidate'.facts = m.facts
    <3>1. pc[p] # "pending" => candidate.facts = m.facts
      BY <1>7, <2>2
    <3> QED  BY <1>3, <3>1
  <2> QED  BY <2>1, <2>2
<1>9. /\ label \in Labels /\ label \notin {"idle", "moved", "collided"}
      /\ candidate' \in Candidate \cup {None} /\ server' = server /\ store' = store
      /\ applied' = applied /\ overlapped' = overlapped /\ pc' = [pc EXCEPT ![p] = label]
  BY <1>2, <1>3 DEF Labels
<1>10. store' \subseteq Ids /\ applied' \subseteq Batches /\ Chain(applied')
  BY <1>9, TypedMem
<1>11. /\ overlapped' \in BOOLEAN
       /\ ~overlapped' => ~overlapped /\ \A q \in Procs \ {p} : pc[q] = "idle"
  BY <1>5, <1>9
<1>12. ASSUME ~overlapped
       PROVE  /\ applied' \subseteq store' /\ m.applied \subseteq store'
              /\ store' \subseteq m.facts /\ m.pending \subseteq m.facts
              /\ candidate' # None /\ candidate'.facts = m.facts
  BY <1>7, <1>8, <1>9, <1>12
<1> QED  BY <1>4, <1>6, <1>9, <1>10, <1>11, <1>12, ProcMoves

LEMMA StoreInv ==
    ASSUME BatchInv, NEW p \in Procs,
           Move(p) \/ Record(p) \/ \E i \in Locals : WriteStore(p, i)
    PROVE  BatchInv'
<1>1. PICK m \in Mem : m = mem[p]
  BY TypedMem
<1>2. CASE Move(p)
  <2>1. PICK c \in Candidate : c = candidate
    BY <1>2, TypedMem DEF Move
  <2>2. /\ pc[p] = "verified" /\ store' = c.facts /\ candidate' = None
        /\ pc' = [pc EXCEPT ![p] = "moved"] /\ UNCHANGED <<server, applied, mem, overlapped>>
    BY <1>2, <2>1 DEF Move, Goto
  <2>3. mem' = [mem EXCEPT ![p] = m] /\ store' \subseteq Ids
    BY <1>1, <2>1, <2>2 DEF BatchInv, BatchShape, Candidate
  <2>4. /\ overlapped \in BOOLEAN
        /\ ~overlapped => \A q \in Procs \ {p} : pc[q] = "idle"
    BY <2>2, StaysAlone
  <2>5. Chain(m.applied) /\ Chain(m.applied \cup m.pending)
    BY <1>1, <2>2, TypedMem DEF HasFetched
  <2>6. ~overlapped => /\ applied \subseteq store /\ m.applied \subseteq store
                       /\ store \subseteq m.facts /\ m.pending \subseteq m.facts
                       /\ c.facts = m.facts
    BY <1>1, <2>1, <2>2 DEF BatchInv, RunsAlone, Labels
  <2> QED  BY <2>2, <2>3, <2>4, <2>5, <2>6, TypedMem, ProcMoves DEF Labels
<1>3. CASE Record(p)
  <2>1. /\ pc[p] = "moved" /\ applied' = m.applied \cup m.pending /\ mem' = [mem EXCEPT ![p] = Idle]
        /\ pc' = [pc EXCEPT ![p] = "idle"] /\ UNCHANGED <<server, store, candidate, overlapped>>
    BY <1>1, <1>3 DEF Record, Goto, Hold, history
  <2>2. /\ overlapped \in BOOLEAN
        /\ ~overlapped => \A q \in Procs \ {p} : pc[q] = "idle"
    BY <2>1, StaysAlone
  <2>3. Chain(applied') /\ applied' \subseteq Batches
    BY <1>1, <2>1, TypedMem DEF HasFetched
  <2>4. ~overlapped => applied' \subseteq store
    BY <1>1, <2>1 DEF BatchInv, RunsAlone
  <2> QED  BY <2>1, <2>2, <2>3, <2>4, TypedMem, ProcMoves DEF Labels
<1>4. ASSUME NEW i \in Locals, WriteStore(p, i)
      PROVE  BatchInv'
  <2>1. /\ pc[p] = "writing" /\ store' = m.facts \cup {i} /\ mem' = [mem EXCEPT ![p] = Idle]
        /\ pc' = [pc EXCEPT ![p] = "idle"] /\ UNCHANGED <<server, applied, candidate, overlapped>>
    BY <1>1, <1>4 DEF WriteStore, Goto, Hold, history
  <2>2. /\ overlapped \in BOOLEAN
        /\ ~overlapped => \A q \in Procs \ {p} : pc[q] = "idle"
    BY <2>1, StaysAlone
  <2>3. store' \subseteq Ids
    BY <1>1, <2>1, TypedMem DEF Ids
  <2>4. ~overlapped => applied \subseteq store'
    BY <1>1, <2>1 DEF BatchInv, RunsAlone, Labels
  <2> QED  BY <2>1, <2>2, <2>3, <2>4, TypedMem, ProcMoves DEF Labels
<1> QED  BY <1>2, <1>3, <1>4

(* The server adds after the highest batch, and never changes a parent.    *)
LEMMA ServerInv ==
    ASSUME BatchInv, Build \/ \E s \in Batches : RollBack(s)
    PROVE  BatchInv'
<1>1. UNCHANGED <<store, candidate, applied, pc, mem, overlapped>>
  BY DEF Build, RollBack, files, history
<1>2. /\ server' \in [Batches -> Batch \cup {None}]
      /\ \A s \in Built : s \in Built' /\ server'[s].parent = server[s].parent
      /\ \A s \in Built' \ Built : server'[s].parent < s
  <2>1. CASE Build
    <3>1. PICK s \in Batches, parent \in Nat :
             /\ s = Highest(Built) + 1
             /\ parent \in {s - 1, Highest({t \in Built : server[t].status = "built"})}
             /\ server' = [server EXCEPT ![s] = [status |-> "built", parent |-> parent]]
      <4>1. PICK s \in Batches : s = Highest(Built) + 1
        BY <2>1 DEF Build
      <4>2. PICK parent \in {s - 1, Highest({t \in Built : server[t].status = "built"})} :
               server' = [server EXCEPT ![s] = [status |-> "built", parent |-> parent]]
        BY <2>1, <4>1 DEF Build
      <4>3. Highest({t \in Built : server[t].status = "built"}) \in Nat /\ s - 1 \in Nat
        BY HighestIs, BatchAssumption DEF Built, Batches, BatchAssumption
      <4> QED  BY <4>1, <4>2, <4>3
    <3>2. parent < s /\ parent \in 0..MaxBatch /\ s \notin Built
      <4> DEFINE B == Built
                 S == {t \in B : server[t].status = "built"}
      <4>1. B \in SUBSET Batches /\ S \in SUBSET Batches /\ S \subseteq B
        BY DEF Built
      <4> HIDE DEF B, S
      <4>2. /\ B = {} => Highest(B) = 0
            /\ B # {} => Highest(B) \in B /\ \A n \in B : n <= Highest(B)
            /\ S = {} => Highest(S) = 0
            /\ S # {} => Highest(S) \in S
            /\ Highest(B) \in 0..MaxBatch /\ Highest(S) \in 0..MaxBatch
        BY <4>1, HighestIs
      <4>3. Highest(S) <= Highest(B)
        BY <4>1, <4>2, BatchAssumption DEF BatchAssumption
      <4>4. s = Highest(B) + 1 /\ parent \in {s - 1, Highest(S)} /\ s \in 1..MaxBatch /\ MaxBatch \in Nat
        BY <3>1, BatchAssumption DEF B, S, Batches, BatchAssumption
      <4>5. s \notin B
        BY <4>2, <4>4
      <4> QED  BY <4>2, <4>3, <4>4, <4>5 DEF B
    <3> DEFINE b == [status |-> "built", parent |-> parent]
    <3>3. b \in Batch /\ b.parent = parent
      BY <3>2 DEF Batch
    <3>4. /\ server' = [server EXCEPT ![s] = b] /\ server \in [Batches -> Batch \cup {None}]
          /\ b # None
      BY <3>1, <3>3, NoneIsNothing DEF BatchInv, BatchShape, NoneIsNothing
    <3> HIDE DEF b
    <3> QED  BY <3>2, <3>3, <3>4 DEF Built
  <2>2. ASSUME NEW s \in Batches, RollBack(s)
        PROVE  /\ server' \in [Batches -> Batch \cup {None}]
               /\ \A t \in Built : t \in Built' /\ server'[t].parent = server[t].parent
               /\ \A t \in Built' \ Built : server'[t].parent < t
    <3>1. PICK b \in Batch : b = server[s]
      BY <2>2 DEF RollBack, Built, BatchInv, BatchShape
    <3> DEFINE r == [b EXCEPT !.status = "rolled_back"]
    <3>2. r \in Batch /\ r.parent = b.parent
      BY DEF Batch
    <3>3. server' = [server EXCEPT ![s] = r] /\ server \in [Batches -> Batch \cup {None}] /\ s \in Built
      BY <2>2, <3>1 DEF RollBack, BatchInv, BatchShape
    <3> HIDE DEF r
    <3>4. r # None
      BY <3>2, NoneIsNothing DEF NoneIsNothing
    <3> QED  BY <3>1, <3>2, <3>3, <3>4 DEF Built
  <2> QED  BY <2>1, <2>2
<1>3. BatchShape'
  BY <1>1, <1>2 DEF BatchInv, BatchShape
<1>4. Linked'
  BY <1>2 DEF BatchInv, Linked
<1>5. Chains'
  <2>1. \A S : Chain(S) => Chain(S)'
    BY <1>2, ChainStays
  <2>2. PICK a, m : a = applied /\ m = mem
    OBVIOUS
  <2>3. Chain(a) /\ \A p \in Procs : Chain(m[p].applied) /\ (HasFetched(p) => Chain(m[p].applied \cup m[p].pending))
    BY <2>2 DEF BatchInv, Chains
  <2>4. Chain(a)' /\ \A p \in Procs : Chain(m[p].applied)' /\ (HasFetched(p) => Chain(m[p].applied \cup m[p].pending)')
    BY <2>1, <2>3
  <2>5. applied' = a /\ mem' = m /\ \A p : HasFetched(p)' = HasFetched(p)
    BY <1>1, <2>2 DEF HasFetched
  <2> QED  BY <2>4, <2>5 DEF Chains, Chain
<1>6. RunsAlone'
  BY <1>1 DEF BatchInv, RunsAlone
<1> QED  BY <1>3, <1>4, <1>5, <1>6 DEF BatchInv

(* BatchInv is kept by every applier, killed or not, by the server and by  *)
(* the other writers of the store.                                         *)
THEOREM BatchInductive == Spec => []BatchInv
<1>1. ASSUME Init
      PROVE  BatchInv
  <2>1. BatchShape /\ Built = {}
    BY <1>1 DEF Init, BatchShape, Labels, Mem, Idle, Built
  <2>2. Linked /\ Chain({})
    BY <2>1 DEF Linked, Chain
  <2>3. Chains
    BY <1>1, <2>2 DEF Init, Chains, HasFetched, Idle
  <2>4. RunsAlone
    BY <1>1 DEF Init, RunsAlone
  <2> QED  BY <2>1, <2>2, <2>3, <2>4 DEF BatchInv
<1>2. ASSUME BatchInv, [Next]_vars
      PROVE  BatchInv'
  <2>1. CASE Next
    BY <1>2, <2>1, ComeAndGo, FetchInv, CandidateInv, StoreInv, ServerInv DEF Next, Apply, Write
  <2>2. CASE UNCHANGED vars
    BY <1>2, <2>2 DEF vars, files, history, BatchInv, BatchShape, Linked, Chains, Chain, Built, RunsAlone,
       HasFetched
  <2> QED  BY <1>2, <2>1, <2>2
<1> QED  BY <1>1, <1>2, PTL DEF Spec

(* While processes run one at a time, a batch that is recorded is in the   *)
(* store, whichever step an applier died at (apply-promotion-batch main).  *)
THEOREM RecordedIsStored == Spec => []RecordedInStore
<1>1. BatchInv => RecordedInStore
  BY DEF BatchInv, RunsAlone, RecordedInStore
<1> QED  BY <1>1, BatchInductive, PTL

(* However appliers overlap, die and are rolled back, what is recorded is  *)
(* one chain of parents and children (check_chain).                        *)
THEOREM RecordedIsChain == Spec => []RecordedChain
<1>1. BatchInv => RecordedChain
  BY DEF BatchInv, Chains, Chain, RecordedChain
<1> QED  BY <1>1, BatchInductive, PTL

-----------------------------------------------------------------------------
(* The backends, for any entries, commands and edits.                      *)
(*                                                                         *)
(* The argument.  No tool makes a record malformed or NaN: what is so was   *)
(* so from the start (NoOdder).  Once the gates have let facts.json through *)
(* and brain.db is there, no row of either is, whoever writes it, so the    *)
(* schema returns every row as it was given (StoredIs).  What is staged is *)
(* what was loaded, and it is compared before it replaces brain.db.        *)

RowsShaped(rows) ==
    /\ rows = [e \in Entries |-> rows[e]]
    /\ \A e \in Entries :
          /\ rows[e] = [status |-> rows[e].status, text |-> rows[e].text, by |-> rows[e].by,
                        reason |-> rows[e].reason, shape |-> rows[e].shape]
          /\ rows[e].shape # "coerced"
          /\ rows[e].status = "absent" => rows[e].shape = "plain"

Sound(rows) == \A e \in Entries : rows[e].shape # "malformed"

Storable(rows) == \A e \in Entries : rows[e].shape # "nan"

NoOdder(rows, base) ==
    \A e \in Entries : rows[e].shape \in {"malformed", "nan"} => rows[e].shape = base[e].shape

BackendInv ==
    /\ RowsShaped(jsonFile)
    /\ dbFile.is = "rows" => RowsShaped(dbFile.rows) /\ Sound(dbFile.rows) /\ Storable(dbFile.rows)
    /\ dbFile.is # "missing" => Sound(jsonFile) /\ Storable(jsonFile)
    /\ migration # "idle" => /\ Sound(jsonFile) /\ RowsShaped(loaded) /\ Sound(loaded)
                             /\ NoOdder(jsonFile, loaded)
    /\ migration = "filled" => staging = Holding(Stored(loaded))
    /\ migration = "verified" => staging = Holding(loaded) /\ Storable(loaded)
    /\ MigrationFaithful

LEMMA HoldingIs == \A rows : Holding(rows).is = "rows" /\ Holding(rows).rows = rows
  BY DEF Holding

LEMMA NoRowsIs == RowsShaped(NoRows) /\ Sound(NoRows) /\ Storable(NoRows)
  BY DEF RowsShaped, Sound, Storable, NoRows

LEMMA NoOdderKeeps ==
    ASSUME NEW rows, NEW base, NoOdder(rows, base)
    PROVE  (Sound(base) => Sound(rows)) /\ (Storable(base) => Storable(rows))
  BY DEF NoOdder, Sound, Storable

(* Superseding, rewording and loading make no record odd.                  *)
LEMMA SupersededIs ==
    ASSUME NEW rows, RowsShaped(rows), NEW map, NEW tool
    PROVE  RowsShaped(Superseded(rows, map, tool)) /\ NoOdder(Superseded(rows, map, tool), rows)
<1> DEFINE new == Superseded(rows, map, tool)
<1>1. new = [e \in Entries |-> new[e]]
  BY DEF Superseded
<1>2. ASSUME NEW e \in Entries
      PROVE  /\ new[e] = [status |-> new[e].status, text |-> new[e].text, by |-> new[e].by,
                          reason |-> new[e].reason, shape |-> new[e].shape]
             /\ new[e].shape = rows[e].shape
             /\ new[e].status \in {rows[e].status, "superseded"}
  <2>1. PICK a, b, c, d, f : rows[e] = [status |-> a, text |-> b, by |-> c, reason |-> d, shape |-> f]
    BY DEF RowsShaped
  <2>2. CASE e \in DOMAIN map
    <3>1. new[e] = [rows[e] EXCEPT !.status = "superseded", !.by = map[e], !.reason = tool]
      BY <2>2 DEF Superseded
    <3> QED  BY <2>1, <3>1
  <2>3. CASE e \notin DOMAIN map
    <3>1. new[e] = rows[e]
      BY <2>3 DEF Superseded
    <3> QED  BY <2>1, <3>1
  <2> QED  BY <2>2, <2>3
<1> HIDE DEF new
<1>3. RowsShaped(new) /\ NoOdder(new, rows)
  BY <1>1, <1>2 DEF RowsShaped, NoOdder
<1> QED  BY <1>3 DEF new

LEMMA RewordedIs ==
    ASSUME NEW rows, RowsShaped(rows), NEW e \in Entries, NEW text
    PROVE  /\ RowsShaped([rows EXCEPT ![e].text = text])
           /\ NoOdder([rows EXCEPT ![e].text = text], rows)
<1>1. PICK a, b, c, d, f : rows[e] = [status |-> a, text |-> b, by |-> c, reason |-> d, shape |-> f]
  BY DEF RowsShaped
<1>2. PICK r : r = [rows[e] EXCEPT !.text = text]
  OBVIOUS
<1>3. r = [status |-> a, text |-> text, by |-> c, reason |-> d, shape |-> f]
  BY <1>1, <1>2
<1>4. PICK new : new = [rows EXCEPT ![e] = r]
  OBVIOUS
<1>5. [rows EXCEPT ![e].text = text] = new
  BY <1>2, <1>4
<1>6. new = [g \in Entries |-> new[g]] /\ new[e] = r /\ \A g \in Entries \ {e} : new[g] = rows[g]
  BY <1>4 DEF RowsShaped
<1>7. RowsShaped(new) /\ NoOdder(new, rows)
  BY <1>1, <1>3, <1>6 DEF RowsShaped, NoOdder
<1> QED  BY <1>5, <1>7

LEMMA ValidIs ==
    ASSUME NEW rows, RowsShaped(rows)
    PROVE  RowsShaped(Valid(rows)) /\ Sound(Valid(rows)) /\ NoOdder(Valid(rows), rows)
<1> DEFINE new == Valid(rows)
<1>1. new = [e \in Entries |-> new[e]]
  BY DEF Valid
<1>2. \A e \in Entries : new[e] = IF rows[e].shape = "malformed" THEN NoRows[e] ELSE rows[e]
  BY DEF Valid
<1> HIDE DEF new
<1>3. RowsShaped(new) /\ Sound(new) /\ NoOdder(new, rows)
  BY <1>1, <1>2, NoRowsIs DEF RowsShaped, Sound, Storable, NoOdder
<1> QED  BY <1>3 DEF new

LEMMA LiveRowsShaped ==
    ASSUME BackendInv
    PROVE  /\ RowsShaped(FileRows) /\ RowsShaped(LiveRows) /\ Selected \in {"json", "sqlite"}
           /\ Selected = "json" => FileRows = jsonFile /\ NoOdder(LiveRows, jsonFile)
           /\ Selected # "json" => /\ dbFile.is # "missing" /\ Sound(jsonFile) /\ Storable(jsonFile)
                                   /\ Sound(LiveRows) /\ Storable(LiveRows)
<1>1. Selected \in {"json", "sqlite"} /\ (Selected # "json" => dbFile.is # "missing")
  BY DEF Selected
<1>2. RowsShaped(FileRows) /\ (Selected = "json" => FileRows = jsonFile)
  BY NoRowsIs DEF BackendInv, FileRows
<1>3. Selected # "json" => Storable(FileRows)
  BY NoRowsIs DEF BackendInv, FileRows
<1>4. RowsShaped(LiveRows) /\ Sound(LiveRows) /\ NoOdder(LiveRows, FileRows)
  BY <1>2, ValidIs DEF LiveRows
<1>5. Selected # "json" => Storable(LiveRows)
  BY <1>3, <1>4, NoOdderKeeps
<1>6. Selected # "json" => Sound(jsonFile) /\ Storable(jsonFile)
  BY <1>1 DEF BackendInv
<1> QED  BY <1>1, <1>2, <1>4, <1>5, <1>6

(* What the schema changes, it changes in a record that was NaN.           *)
LEMMA StoredIs ==
    ASSUME NEW rows, RowsShaped(rows)
    PROVE  Storable(rows) <=> Stored(rows) = rows
<1>1. ASSUME NEW e \in Entries
      PROVE  \E a, b, c, d, f, g :
                /\ rows[e] = [status |-> a, text |-> b, by |-> c, reason |-> d, shape |-> f]
                /\ Stored(rows)[e] = [status |-> a, text |-> b, by |-> c, reason |-> d, shape |-> g]
                /\ f # "coerced" /\ g = RoundTrip(f)
  <2>1. PICK a, b, c, d, f : rows[e] = [status |-> a, text |-> b, by |-> c, reason |-> d, shape |-> f]
    BY DEF RowsShaped
  <2>2. PICK g : g = RoundTrip(f)
    OBVIOUS
  <2>3. Stored(rows)[e] = [rows[e] EXCEPT !.shape = g]
    BY <2>1, <2>2 DEF Stored
  <2>4. f # "coerced"
    BY <2>1 DEF RowsShaped
  <2>5. PICK r : r = [status |-> a, text |-> b, by |-> c, reason |-> d, shape |-> f]
    OBVIOUS
  <2>6. [r EXCEPT !.shape = g] = [status |-> a, text |-> b, by |-> c, reason |-> d, shape |-> g]
    BY <2>5
  <2>7. Stored(rows)[e] = [status |-> a, text |-> b, by |-> c, reason |-> d, shape |-> g]
    BY <2>1, <2>3, <2>5, <2>6
  <2> QED  BY ONLY <2>1, <2>2, <2>4, <2>7
<1>2. \A f : f # "coerced" => (RoundTrip(f) = f <=> f # "nan")
  BY DEF RoundTrip, Conforms
<1>3. \A e \in Entries : Stored(rows)[e] = rows[e] <=> rows[e].shape # "nan"
  <2>1. ASSUME NEW e \in Entries
        PROVE  Stored(rows)[e] = rows[e] <=> rows[e].shape # "nan"
    <3>1. PICK a, b, c, d, f, g :
             /\ rows[e] = [status |-> a, text |-> b, by |-> c, reason |-> d, shape |-> f]
             /\ Stored(rows)[e] = [status |-> a, text |-> b, by |-> c, reason |-> d, shape |-> g]
             /\ f # "coerced" /\ g = RoundTrip(f)
      BY <1>1
    <3>2. g = f <=> f # "nan"
      BY <1>2, <3>1
    <3> QED  BY <3>1, <3>2
  <2> QED  BY <2>1
<1>4. rows = [e \in Entries |-> rows[e]] /\ Stored(rows) = [e \in Entries |-> Stored(rows)[e]]
  BY DEF RowsShaped, Stored
<1>5. Stored(rows) = rows <=> \A e \in Entries : Stored(rows)[e] = rows[e]
  BY <1>4
<1> QED  BY <1>3, <1>5 DEF Storable

LEMMA RewriteInv ==
    ASSUME BackendInv, NEW rows, Rewrite(rows), RowsShaped(rows),
           Selected = "json" => NoOdder(rows, jsonFile),
           Selected # "json" => Sound(rows) /\ Storable(rows),
           UNCHANGED <<staging, migration, loaded>>
    PROVE  BackendInv'
<1>1. CASE Selected = "json"
  <2>1. jsonFile' = rows /\ UNCHANGED <<dbFile, dbWal, dbTruth>>
    BY <1>1 DEF Rewrite
  <2>2. /\ Sound(jsonFile) => Sound(rows)
        /\ Storable(jsonFile) => Storable(rows)
        /\ NoOdder(jsonFile, loaded) => NoOdder(rows, loaded)
    BY <1>1, NoOdderKeeps DEF NoOdder
  <2> QED  BY <2>1, <2>2 DEF BackendInv, MigrationFaithful, Stored
<1>2. CASE Selected # "json"
  <2>1. /\ jsonFile' = jsonFile /\ dbFile' = Holding(rows) /\ dbTruth' = rows
        /\ Sound(rows) /\ Storable(rows) /\ Sound(jsonFile) /\ Storable(jsonFile)
    BY <1>2, LiveRowsShaped, StoredIs DEF Rewrite
  <2>2. dbFile'.is = "rows" /\ dbFile'.rows = rows
    BY <2>1, HoldingIs
  <2>3. MigrationFaithful'
    BY <2>1, <2>2 DEF MigrationFaithful, BackendInv, Sound, RowsShaped
  <2> QED  BY <2>1, <2>2, <2>3 DEF BackendInv, Stored
<1> QED  BY <1>1, <1>2

LEMMA MigrateInv ==
    ASSUME BackendInv,
           Migrate \/ ClearStaging \/ FillStaging \/ VerifyStaging \/ ReplaceDb \/ MigrationStops
    PROVE  BackendInv'
<1>1. CASE Migrate
  <2>1. UNCHANGED <<jsonFile, dbFile, dbWal, staging, dbTruth>> /\ migration = "idle"
    BY <1>1 DEF Migrate, JobsFree
  <2>2. CASE Unfit(jsonFile)
    <3>1. UNCHANGED <<migration, loaded>>
      BY <1>1, <2>2 DEF Migrate
    <3> QED  BY <2>1, <3>1 DEF BackendInv, MigrationFaithful, Stored
  <2>3. CASE ~Unfit(jsonFile)
    <3>1. migration' = "gated" /\ loaded' = jsonFile
      BY <1>1, <2>3 DEF Migrate
    <3>2. Sound(jsonFile)
      BY <2>3 DEF Unfit, Present, Sound, BackendInv, RowsShaped
    <3>3. NoOdder(jsonFile, jsonFile)
      BY DEF NoOdder
    <3> QED  BY <2>1, <3>1, <3>2, <3>3 DEF BackendInv, MigrationFaithful
  <2> QED  BY <2>2, <2>3
<1>2. CASE ClearStaging \/ FillStaging
  <2>1. /\ UNCHANGED <<jsonFile, dbFile, dbWal, dbTruth, loaded>> /\ migration # "idle"
        /\ \/ migration' = "cleared"
           \/ migration' = "filled" /\ staging' = Holding(Stored(loaded))
    BY <1>2 DEF ClearStaging, FillStaging
  <2> QED  BY <2>1 DEF BackendInv, MigrationFaithful, Stored
<1>3. CASE VerifyStaging
  <2>1. /\ UNCHANGED <<jsonFile, dbFile, dbWal, dbTruth, loaded>> /\ migration = "filled"
        /\ IF staging.rows = loaded THEN migration' = "verified" /\ staging' = staging
           ELSE migration' = "refused"
    BY <1>3 DEF VerifyStaging
  <2>2. staging = Holding(Stored(loaded)) /\ staging.rows = Stored(loaded) /\ RowsShaped(loaded)
    BY <2>1, HoldingIs DEF BackendInv
  <2>3. CASE staging.rows = loaded
    <3>1. Storable(loaded) /\ staging = Holding(loaded)
      BY <2>2, <2>3, StoredIs
    <3> QED  BY <2>1, <2>3, <3>1 DEF BackendInv, MigrationFaithful
  <2>4. CASE staging.rows # loaded
    <3>1. \E e \in Entries : loaded[e].shape = "nan"
      BY <2>2, <2>4, StoredIs DEF Storable
    <3> QED  BY <2>1, <2>4, <3>1 DEF BackendInv, MigrationFaithful
  <2> QED  BY <2>3, <2>4
<1>4. CASE ReplaceDb
  <2>1. /\ migration = "verified" /\ migration' = "idle" /\ jsonFile' = jsonFile /\ dbWal' = dbWal
        /\ dbFile' = IF dbWal THEN [is |-> "malformed", rows |-> <<>>] ELSE staging
        /\ dbTruth' = loaded
    BY <1>4 DEF ReplaceDb
  <2>2. /\ staging.is = "rows" /\ staging.rows = loaded /\ RowsShaped(loaded) /\ Sound(loaded)
        /\ Sound(jsonFile) /\ RowsShaped(jsonFile) /\ Storable(loaded) /\ Storable(jsonFile)
    <3>1. NoOdder(jsonFile, loaded) /\ Storable(loaded)
      BY <2>1 DEF BackendInv
    <3> QED  BY <2>1, <3>1, HoldingIs, NoOdderKeeps DEF BackendInv
  <2>3. CASE dbWal
    <3>1. dbFile'.is = "malformed"
      BY <2>1, <2>3
    <3> QED  BY <2>1, <2>2, <2>3, <3>1 DEF BackendInv, MigrationFaithful
  <2>4. CASE ~dbWal
    <3>1. dbFile' = staging
      BY <2>1, <2>4
    <3>2. \A e \in Entries : dbFile'.rows[e].shape \notin {"malformed", "coerced"}
      BY <2>2, <3>1 DEF Sound, RowsShaped
    <3>3. MigrationFaithful'
      BY <2>1, <2>2, <3>1, <3>2 DEF MigrationFaithful
    <3> QED  BY <2>1, <2>2, <3>1, <3>3 DEF BackendInv
  <2> QED  BY <2>3, <2>4
<1>5. CASE MigrationStops
  <2>1. migration' = "idle" /\ UNCHANGED <<jsonFile, dbFile, dbWal, dbTruth>>
    BY <1>5 DEF MigrationStops
  <2> QED  BY <2>1 DEF BackendInv, MigrationFaithful
<1> QED  BY <1>1, <1>2, <1>3, <1>4, <1>5

(* An approval adds a current fact, or loses malformed records, or both.   *)
LEMMA ApprovedIs ==
    ASSUME RowsShaped(jsonFile), NEW e \in Entries, Approve(e)
    PROVE  /\ RowsShaped(jsonFile') /\ NoOdder(jsonFile', jsonFile)
           /\ \A d \in Entries :
                 \/ jsonFile'[d] = Valid(jsonFile)[d]
                 \/ /\ Valid(jsonFile)[d].status = "absent"
                    /\ \E text \in 1..3 :
                          jsonFile'[d] = [status |-> "current", text |-> text, by |-> 0,
                                          reason |-> "none", shape |-> "plain"]
<1>1. PICK rows : rows = Valid(jsonFile)
  OBVIOUS
<1>2. RowsShaped(rows) /\ NoOdder(rows, jsonFile)
  BY <1>1, ValidIs
<1>3. CASE Present(rows, e)
  <2>1. jsonFile' = rows
    BY <1>1, <1>3 DEF Approve
  <2> QED  BY <1>1, <1>2, <2>1
<1>4. CASE ~Present(rows, e)
  <2>1. PICK text \in 1..3 : jsonFile' = [rows EXCEPT ![e] = [NoRows[e] EXCEPT !.status = "current",
                                                                               !.text = text]]
    BY <1>1, <1>4 DEF Approve
  <2>2. PICK r : r = [status |-> "current", text |-> text, by |-> 0, reason |-> "none", shape |-> "plain"]
    OBVIOUS
  <2>3. [NoRows[e] EXCEPT !.status = "current", !.text = text] = r
    <3>1. PICK m, a, b, d, f, s :
              m = NoRows[e] /\ a = "absent" /\ b = 0 /\ d = "none" /\ f = "plain" /\ s = "current"
      OBVIOUS
    <3>2. m = [status |-> a, text |-> b, by |-> b, reason |-> d, shape |-> f]
      BY <3>1 DEF NoRows
    <3>3. PICK n : n = [m EXCEPT !.status = s]
      OBVIOUS
    <3>4. n = [status |-> s, text |-> b, by |-> b, reason |-> d, shape |-> f]
      BY <3>2, <3>3
    <3>5. [n EXCEPT !.text = text] = [status |-> s, text |-> text, by |-> b, reason |-> d, shape |-> f]
      BY <3>4
    <3>6. [m EXCEPT !.status = s, !.text = text] = [[m EXCEPT !.status = s] EXCEPT !.text = text]
      OBVIOUS
    <3> QED  BY <2>2, <3>1, <3>3, <3>5, <3>6
  <2>4. /\ jsonFile' = [d \in Entries |-> jsonFile'[d]]
        /\ jsonFile'[e] = r /\ \A d \in Entries \ {e} : jsonFile'[d] = rows[d]
    BY <1>2, <2>1, <2>3 DEF RowsShaped
  <2>5. RowsShaped(jsonFile')
    BY <1>2, <2>2, <2>4 DEF RowsShaped
  <2>6. NoOdder(jsonFile', jsonFile)
    BY <1>2, <2>2, <2>4 DEF NoOdder
  <2>7. rows[e].status = "absent"
    BY <1>4 DEF Present
  <2> QED  BY <1>1, <2>2, <2>4, <2>5, <2>6, <2>7
<1> QED  BY <1>3, <1>4

LEMMA ToolInv ==
    ASSUME BackendInv,
           \/ Cutover \/ Dedup \/ DryRun \/ Execute
           \/ \E e \in Entries : Approve(e) \/ Edit(e) \/ TimePasses(e)
    PROVE  BackendInv'
<1>1. ASSUME Cutover \/ DryRun \/ \E e \in Entries : TimePasses(e)
      PROVE  BackendInv'
  <2>1. UNCHANGED <<jsonFile, dbFile, dbWal, staging, migration, loaded, dbTruth>>
    BY <1>1 DEF Cutover, DryRun, TimePasses
  <2> QED  BY <2>1 DEF BackendInv, MigrationFaithful, Stored
<1>2. CASE Dedup
  <2>1. PICK rows : /\ rows = Superseded(LiveRows, DuplicatesOf(LiveRows), "dedup") /\ Rewrite(rows)
                    /\ UNCHANGED <<staging, migration, loaded>>
    BY <1>2 DEF Dedup
  <2>2. RowsShaped(rows) /\ NoOdder(rows, LiveRows)
    BY <2>1, LiveRowsShaped, SupersededIs
  <2>3. Selected = "json" => NoOdder(rows, jsonFile)
    BY <2>2, LiveRowsShaped DEF NoOdder
  <2>4. Selected # "json" => Sound(rows) /\ Storable(rows)
    BY <2>2, LiveRowsShaped, NoOdderKeeps
  <2> QED  BY <2>1, <2>2, <2>3, <2>4, RewriteInv
<1>3. CASE Execute
  <2>1. PICK rows : /\ rows = Superseded(jsonFile, Selection(jsonFile), "consolidate")
                    /\ Rewrite(rows) /\ UNCHANGED <<staging, migration, loaded>>
    BY <1>3 DEF Execute
  <2>2. RowsShaped(rows) /\ NoOdder(rows, jsonFile)
    BY <2>1, SupersededIs DEF BackendInv
  <2>3. Selected # "json" => Sound(rows) /\ Storable(rows)
    BY <2>2, LiveRowsShaped, NoOdderKeeps
  <2> QED  BY <2>1, <2>2, <2>3, RewriteInv
<1>4. ASSUME NEW e \in Entries, Edit(e)
      PROVE  BackendInv'
  <2>1. PICK text : /\ Rewrite([jsonFile EXCEPT ![e].text = text]) /\ Selected = "json"
                    /\ UNCHANGED <<staging, migration, loaded>>
    BY <1>4 DEF Edit
  <2>2. RowsShaped(jsonFile)
    BY DEF BackendInv
  <2> QED  BY <2>1, <2>2, RewordedIs, RewriteInv
<1>5. ASSUME NEW e \in Entries, Approve(e)
      PROVE  BackendInv'
  <2>1. UNCHANGED <<dbFile, dbWal, staging, migration, loaded, dbTruth>>
    BY <1>5 DEF Approve
  <2>2. RowsShaped(jsonFile') /\ NoOdder(jsonFile', jsonFile)
    BY <1>5, ApprovedIs DEF BackendInv
  <2>3. /\ Sound(jsonFile) => Sound(jsonFile')
        /\ Storable(jsonFile) => Storable(jsonFile')
        /\ NoOdder(jsonFile, loaded) => NoOdder(jsonFile', loaded)
    BY <2>2, NoOdderKeeps DEF NoOdder
  <2> QED  BY <2>1, <2>2, <2>3 DEF BackendInv, MigrationFaithful, Stored
<1> QED  BY <1>1, <1>2, <1>3, <1>4, <1>5

LEMMA BackendStarts ==
    ASSUME BackendInit
    PROVE  /\ \E text, odd, shape : /\ jsonFile = Fresh(text, odd, shape) /\ shape \in Shape
                                    /\ \A e \in Entries : text[e] \in Nat
           /\ window \in [Entries -> Windows] /\ hasKey \in BOOLEAN
<1>1. ASSUME jsonFile \in PlainRows
      PROVE  \E text, odd, shape : /\ jsonFile = Fresh(text, odd, shape) /\ shape \in Shape
                                   /\ \A e \in Entries : text[e] \in Nat
  <2>1. PICK text \in [Entries -> 1..3] : jsonFile = Fresh(text, {}, "plain")
    BY <1>1 DEF PlainRows
  <2>2. \A e \in Entries : text[e] \in Nat
    OBVIOUS
  <2>3. "plain" \in Shape
    BY DEF Shape
  <2> QED  BY ONLY <2>1, <2>2, <2>3
<1>2. ASSUME jsonFile \in OddRows
      PROVE  \E text, odd, shape : /\ jsonFile = Fresh(text, odd, shape) /\ shape \in Shape
                                   /\ \A e \in Entries : text[e] \in Nat
  <2>1. PICK text : text = [e \in Entries |-> e]
    OBVIOUS
  <2>2. PICK odd, shape : shape \in Shape /\ jsonFile = Fresh(text, odd, shape)
    BY <1>2, <2>1 DEF OddRows
  <2>3. \A e \in Entries : text[e] \in Nat
    BY <2>1, BackendAssumption DEF BackendAssumption
  <2> QED  BY ONLY <2>2, <2>3
<1>3. jsonFile \in OddRows \/ jsonFile \in PlainRows
  BY DEF BackendInit
<1>4. window = [e \in Entries |-> "open"] \/ window \in OneOut
  BY DEF BackendInit
<1>5. window \in [Entries -> Windows]
  BY <1>4 DEF OneOut, Windows
<1>6. TRUE \in BOOLEAN
  OBVIOUS
<1>7. hasKey \in BOOLEAN
  BY <1>6 DEF BackendInit
<1> QED  BY <1>1, <1>2, <1>3, <1>5, <1>7

(* BackendInv is kept by the tools on either backend, by migrations killed *)
(* halfway and by the cutover.                                             *)
THEOREM BackendInductive == BackendSpec => []BackendInv
<1>1. ASSUME BackendInit
      PROVE  BackendInv
  <2>1. /\ dbFile = NoFile /\ dbWal = FALSE /\ migration = "idle"
        /\ \E text, odd, shape : shape \in Shape /\ jsonFile = Fresh(text, odd, shape)
    BY <1>1, BackendStarts DEF BackendInit
  <2>2. dbFile.is = "missing"
    BY <2>1 DEF NoFile
  <2>3. RowsShaped(jsonFile)
    <3>1. PICK text, odd, shape : shape \in Shape /\ jsonFile = Fresh(text, odd, shape)
      BY <2>1
    <3>2. jsonFile = [e \in Entries |-> jsonFile[e]]
      BY <3>1 DEF Fresh
    <3>3. ASSUME NEW e \in Entries
          PROVE  \E a, b, s : /\ jsonFile[e] = [status |-> a, text |-> b, by |-> 0,
                                              reason |-> "none", shape |-> s]
                             /\ s \in Shape /\ (a = "absent" => s = "plain")
      <4>1. CASE \A d \in Entries : d <= e
        <5>1. jsonFile[e] = [status |-> "absent", text |-> 0, by |-> 0, reason |-> "none",
                           shape |-> "plain"]
          BY <3>1, <4>1 DEF Fresh, NoRows
        <5> QED  BY <5>1 DEF Shape
      <4>2. CASE ~(\A d \in Entries : d <= e)
        <5>1. PICK s : s = IF e \in odd THEN shape ELSE "plain"
          OBVIOUS
        <5>2. jsonFile[e] = [status |-> "current", text |-> text[e], by |-> 0, reason |-> "none",
                           shape |-> s]
          BY <3>1, <4>2, <5>1 DEF Fresh
        <5>3. s \in Shape
          BY <3>1, <5>1 DEF Shape
        <5>4. "current" = "absent" => s = "plain"
          OBVIOUS
        <5> WITNESS "current", text[e], s
        <5> QED  BY <5>2, <5>3, <5>4
      <4> QED  BY <4>1, <4>2
    <3>4. ASSUME NEW e \in Entries
          PROVE  /\ jsonFile[e] = [status |-> jsonFile[e].status, text |-> jsonFile[e].text,
                                   by |-> jsonFile[e].by, reason |-> jsonFile[e].reason,
                                   shape |-> jsonFile[e].shape]
                 /\ jsonFile[e].shape # "coerced"
                 /\ jsonFile[e].status = "absent" => jsonFile[e].shape = "plain"
      <4>1. PICK a, b, s : /\ jsonFile[e] = [status |-> a, text |-> b, by |-> 0,
                                           reason |-> "none", shape |-> s]
                           /\ s \in Shape /\ (a = "absent" => s = "plain")
        BY <3>3
      <4>2. s # "coerced"
        BY <4>1 DEF Shape
      <4> QED  BY <4>1, <4>2
    <3> QED  BY <3>2, <3>4 DEF RowsShaped
  <2> QED  BY <2>1, <2>2, <2>3 DEF BackendInv, MigrationFaithful
<1>2. ASSUME BackendInv, [BackendNext]_backendVars
      PROVE  BackendInv'
  <2>1. CASE BackendNext
    BY <1>2, <2>1, MigrateInv, ToolInv DEF BackendNext
  <2>2. CASE UNCHANGED backendVars
    <3>1. UNCHANGED <<jsonFile, dbFile, dbWal, staging, migration, loaded, dbTruth>>
      BY <2>2 DEF backendVars
    <3> QED  BY <1>2, <3>1 DEF BackendInv, MigrationFaithful, Stored
  <2> QED  BY <1>2, <2>1, <2>2
<1> QED  BY <1>1, <1>2, PTL DEF BackendSpec

(* brain.db is what facts.json held when it was last rebuilt, or what a    *)
(* tool wrote since, wherever a migration was killed (run_migration).      *)
THEOREM MigrationIsFaithful == BackendSpec => []MigrationFaithful
<1>1. BackendInv => MigrationFaithful
  BY DEF BackendInv
<1> QED  BY <1>1, BackendInductive, PTL

-----------------------------------------------------------------------------
(* The successors, for any entries, texts and commands.                    *)
(*                                                                         *)
(* The argument.  Both tools map a fact to one that they keep: of a        *)
(* component the least, which is the least of its own component too        *)
(* (ComponentWithin), and of a cluster the greatest, which is in no other  *)
(* cluster (ClustersAre).  So a superseded fact's successor is current, or *)
(* a later command superseded it, or it was malformed and a rewrite lost   *)
(* it (Succeeds); the last not where dedup-facts chose it, which only saw  *)
(* what load_facts did not drop (ChosenLive).  A chain of successors       *)
(* visits no fact twice, so it ends (ChainEnds).  All of this is the case  *)
(* of each of the files and of what a migration has loaded, for it moves   *)
(* with the rows (Succession).                                             *)

Typed(rows) == \A e \in Entries : rows[e].status \in Status /\ rows[e].text \in Nat

LEMMA SubsetsAre ==
    ASSUME NEW S \in SUBSET Entries
    PROVE  IsFiniteSet(S) /\ Cardinality(S) \in Nat /\ S \subseteq Nat
  BY BackendAssumption, FS_Subset, FS_CardinalityType DEF BackendAssumption

Around(rows, S, R) == {d \in S : \E c \in R : Alike(rows[c].text, rows[d].text)}

LEMMA ReachedAre ==
    ASSUME NEW rows, NEW S \in SUBSET Entries, NEW e \in S
    PROVE  /\ Reached(rows, S, e)[0] = {e}
           /\ \A k \in 1..Cardinality(S) :
                 Reached(rows, S, e)[k] = Around(rows, S, Reached(rows, S, e)[k - 1])
<1> DEFINE n == Cardinality(S)
           step == [k \in 1..n |-> [R \in SUBSET S |-> Around(rows, S, R)]]
           reach == CHOOSE f : f = [k \in 0..n |-> IF k = 0 THEN {e} ELSE Around(rows, S, f[k - 1])]
<1>1. n \in Nat
  BY SubsetsAre
<1>2. \E f : f = [k \in 0..n |-> IF k = 0 THEN {e} ELSE Around(rows, S, f[k - 1])]
  <2>1. \A R \in SUBSET S : Around(rows, S, R) \in SUBSET S
    BY DEF Around
  <2> HIDE DEF n
  <2>2. PICK X, x : X = SUBSET S /\ x = {e}
    OBVIOUS
  <2>3. /\ step \in [1..n -> [X -> X]] /\ x \in X
        /\ \A k \in 1..n : \A R \in SUBSET S : step[k][R] = Around(rows, S, R)
    BY <2>1, <2>2
  <2> HIDE DEF step
  <2>4. PICK f : f \in [0..n -> X] /\ f[0] = x /\ \A k \in 1..n : f[k] = step[k][f[k - 1]]
    <3>1. \E f : Iterates(f, n, X, x, step)
      BY <1>1, <2>3, Iterated
    <3> QED  BY <3>1 DEF Iterates
  <2>5. ASSUME NEW k \in 0..n
        PROVE  f[k] = IF k = 0 THEN {e} ELSE Around(rows, S, f[k - 1])
    <3>1. CASE k = 0
      BY <2>2, <2>4, <3>1
    <3>2. CASE k # 0
      <4>1. k \in 1..n /\ k - 1 \in 0..n
        BY <1>1, <3>2
      <4>2. f[k - 1] \in SUBSET S
        BY <2>2, <2>4, <4>1
      <4> QED  BY <2>3, <2>4, <3>2, <4>1, <4>2
    <3> QED  BY <3>1, <3>2
  <2>6. f = [k \in 0..n |-> f[k]]
    BY <2>4
  <2> QED  BY <2>5, <2>6
<1>3. reach = [k \in 0..n |-> IF k = 0 THEN {e} ELSE Around(rows, S, reach[k - 1])]
  BY <1>2
<1>4. Reached(rows, S, e) = reach
  BY DEF Reached, Around
<1> HIDE DEF n, reach
<1>5. reach[0] = {e} /\ \A k \in 1..n : reach[k] = Around(rows, S, reach[k - 1])
  <2>1. 0 \in 0..n /\ \A k \in 1..n : k \in 0..n /\ k # 0
    BY <1>1
  <2> QED  BY <1>3, <2>1
<1> QED  BY <1>4, <1>5 DEF n

(* A component holds all that is like one of its facts: with each step of  *)
(* the walk it either grew or was complete, and it cannot grow for ever.   *)
LEMMA ComponentIs ==
    ASSUME NEW rows, Typed(rows), NEW S \in SUBSET Entries, NEW e \in S
    PROVE  /\ e \in Component(rows, S, e)
           /\ Component(rows, S, e) \subseteq S
           /\ \A c \in Component(rows, S, e), d \in S :
                 Alike(rows[c].text, rows[d].text) => d \in Component(rows, S, e)
<1> DEFINE n == Cardinality(S)
           R == Reached(rows, S, e)
           Closed(C) == \A c \in C, d \in S : Alike(rows[c].text, rows[d].text) => d \in C
           T == {k \in 0..n : /\ e \in R[k] /\ R[k] \subseteq S
                              /\ Closed(R[k]) \/ Cardinality(R[k]) >= k + 1}
<1>1. n \in Nat /\ IsFiniteSet(S)
  BY SubsetsAre
<1>2. /\ R[0] = {e}
      /\ \A k \in 1..n : R[k] = Around(rows, S, R[k - 1])
  BY ReachedAre
<1>3. Component(rows, S, e) = R[n]
  BY DEF Component
<1> HIDE DEF n, R
<1>4. \A c \in S : Alike(rows[c].text, rows[c].text)
  BY DEF Typed, Alike
<1>5. 0 \in T
  <2>0. Cardinality({e}) = 1
    BY FS_Singleton
  <2>1. 0 \in 0..n /\ 1 >= 0 + 1
    BY <1>1
  <2>2. e \in R[0] /\ R[0] \subseteq S /\ Cardinality(R[0]) >= 0 + 1
    BY <1>2, <2>0, <2>1
  <2> HIDE DEF Closed
  <2> QED  BY <2>1, <2>2
<1>6. ASSUME NEW k \in 0..n, k \in T, k # n
      PROVE  k + 1 \in T
  <2>1. k + 1 \in 1..n /\ k + 1 \in 0..n /\ (k + 1) - 1 = k /\ k \in Nat
    BY <1>1, <1>6
  <2>2. e \in R[k] /\ R[k] \subseteq S /\ (Closed(R[k]) \/ Cardinality(R[k]) >= k + 1)
    BY <1>6
  <2>3. R[k + 1] = Around(rows, S, R[k])
    BY <1>2, <2>1
  <2>4. R[k] \subseteq R[k + 1] /\ R[k + 1] \subseteq S
    BY <1>4, <2>2, <2>3 DEF Around
  <2>5. CASE Closed(R[k])
    <3>1. R[k + 1] = R[k]
      BY <2>3, <2>4, <2>5 DEF Around
    <3> QED  BY <2>1, <2>2, <2>5, <3>1
  <2>6. CASE ~Closed(R[k])
    <3>1. PICK d \in R[k + 1] : d \notin R[k]
      BY <2>3, <2>6 DEF Around
    <3>2. IsFiniteSet(R[k]) /\ IsFiniteSet(R[k + 1])
      BY <1>1, <2>2, <2>4, FS_Subset
    <3>3. R[k] \cup {d} \subseteq R[k + 1]
      BY <2>4, <3>1
    <3>4. Cardinality(R[k] \cup {d}) = Cardinality(R[k]) + 1
      BY <3>1, <3>2, FS_AddElement
    <3>5. Cardinality(R[k] \cup {d}) <= Cardinality(R[k + 1])
      BY <3>2, <3>3, FS_Subset
    <3>6. Cardinality(R[k]) \in Nat /\ Cardinality(R[k + 1]) \in Nat
      BY <3>2, FS_CardinalityType
    <3>7. Cardinality(R[k + 1]) >= (k + 1) + 1
      <4>1. Cardinality(R[k]) >= k + 1
        BY <2>2, <2>6
      <4> QED  BY <2>1, <3>4, <3>5, <3>6, <4>1
    <3> QED  BY <2>1, <2>2, <2>4, <3>7
  <2> QED  BY <2>5, <2>6
<1>7. n \in T
  <2> HIDE DEF T
  <2>1. T \in SUBSET (0..n)
    BY DEF T
  <2>2. T = 0..n
    BY <1>1, <1>5, <1>6, <2>1, UpTo
  <2> QED  BY <1>1, <2>2
<1>8. Closed(R[n])
  <2>1. R[n] \subseteq S /\ (Closed(R[n]) \/ Cardinality(R[n]) >= n + 1)
    BY <1>7
  <2>2. IsFiniteSet(R[n]) /\ Cardinality(R[n]) <= n
    BY <1>1, <2>1, FS_Subset DEF n
  <2>3. Cardinality(R[n]) \in Nat
    BY <2>2, FS_CardinalityType
  <2> QED  BY <1>1, <2>1, <2>2, <2>3
<1> QED  BY <1>3, <1>7, <1>8

LEMMA ComponentWithin ==
    ASSUME NEW rows, Typed(rows), NEW S \in SUBSET Entries, NEW e \in S,
           NEW m \in Component(rows, S, e)
    PROVE  Component(rows, S, m) \subseteq Component(rows, S, e)
<1> DEFINE n == Cardinality(S)
           R == Reached(rows, S, m)
           C == Component(rows, S, e)
           T == {k \in 0..n : R[k] \subseteq C}
<1>1. n \in Nat /\ m \in S /\ m \in C
  BY SubsetsAre, ComponentIs
<1>2. /\ R[0] = {m}
      /\ \A k \in 1..n : R[k] = Around(rows, S, R[k - 1])
  BY <1>1, ReachedAre
<1>3. Component(rows, S, m) = R[n]
  BY DEF Component
<1>4. \A c \in C, d \in S : Alike(rows[c].text, rows[d].text) => d \in C
  BY ComponentIs
<1> HIDE DEF n, R, C
<1>5. 0 \in T
  BY <1>1, <1>2
<1>6. ASSUME NEW k \in 0..n, k \in T, k # n
      PROVE  k + 1 \in T
  <2>1. k + 1 \in 1..n /\ k + 1 \in 0..n /\ (k + 1) - 1 = k
    BY <1>1, <1>6
  <2>2. R[k + 1] = Around(rows, S, R[k])
    BY <1>2, <2>1
  <2>3. R[k + 1] \subseteq C
    BY <1>4, <1>6, <2>2 DEF Around
  <2> QED  BY <2>1, <2>3
<1>7. n \in T
  <2> HIDE DEF T
  <2>1. T \in SUBSET (0..n)
    BY DEF T
  <2>2. T = 0..n
    BY <1>1, <1>5, <1>6, <2>1, UpTo
  <2> QED  BY <1>1, <2>2
<1> QED  BY <1>3, <1>7 DEF C

(* What the tools agree to do: a fact that goes has a successor that stays.*)
Replaces(rows, map) ==
    \A e \in DOMAIN map :
        /\ e \in Entries /\ map[e] \in Entries \ DOMAIN map
        /\ rows[map[e]].status = "current"

LEMMA DuplicatesReplaced ==
    ASSUME NEW rows, Typed(rows)
    PROVE  /\ Replaces(rows, DuplicatesOf(rows))
           /\ \A e \in DOMAIN DuplicatesOf(rows) : window[DuplicatesOf(rows)[e]] = "open"
<1> DEFINE Facts == Live(rows)
           Of(e) == Component(rows, Kin(rows, e), e)
           keep == [e \in Facts |-> CHOOSE c \in Of(e) : \A d \in Of(e) : c <= d]
           map == [e \in {d \in DOMAIN keep : keep[d] # d} |-> keep[e]]
<1>1. DuplicatesOf(rows) = map
  BY DEF DuplicatesOf
<1>2. ASSUME NEW e \in Facts
      PROVE  /\ keep[e] \in Facts /\ keep[e] \in Of(e) /\ \A d \in Of(e) : keep[e] <= d
             /\ Kin(rows, keep[e]) = Kin(rows, e)
  <2>1. Kin(rows, e) \in SUBSET Entries /\ e \in Kin(rows, e) /\ Kin(rows, e) \subseteq Facts
    BY DEF Kin, Live
  <2>2. e \in Of(e) /\ Of(e) \subseteq Kin(rows, e)
    BY <2>1, ComponentIs
  <2> HIDE DEF Of
  <2>3. Of(e) \in SUBSET Nat /\ Of(e) # {}
    BY <2>1, <2>2, SubsetsAre
  <2>4. \E c \in Of(e) : \A d \in Of(e) : c <= d
    BY <2>3, Least
  <2>5. keep[e] \in Of(e) /\ \A d \in Of(e) : keep[e] <= d
    BY <2>4
  <2>6. keep[e] \in Kin(rows, e)
    BY <2>2, <2>5
  <2> HIDE DEF keep
  <2>7. Kin(rows, keep[e]) = Kin(rows, e)
    BY <2>6 DEF Kin
  <2> QED  BY <2>1, <2>5, <2>6, <2>7
<1>3. ASSUME NEW e \in Facts
      PROVE  keep[keep[e]] = keep[e]
  <2>1. PICK m \in Facts : m = keep[e]
    BY <1>2
  <2>2. Kin(rows, m) = Kin(rows, e) /\ m \in Of(e) /\ \A d \in Of(e) : m <= d
    BY <1>2, <2>1
  <2>3. keep[m] \in Of(m) /\ \A d \in Of(m) : keep[m] <= d
    BY <1>2
  <2> HIDE DEF keep
  <2>4. Of(m) \subseteq Of(e) /\ m \in Of(m)
    <3>1. Kin(rows, e) \in SUBSET Entries /\ e \in Kin(rows, e) /\ m \in Kin(rows, m)
      BY DEF Kin, Live
    <3> QED  BY <2>2, <3>1, ComponentWithin, ComponentIs
  <2>5. m <= keep[m] /\ keep[m] <= m
    BY <2>2, <2>3, <2>4
  <2>6. m \in Nat /\ keep[m] \in Nat
    <3>1. m \in Entries /\ keep[m] \in Entries
      BY <1>2, <2>1 DEF keep, Live
    <3> QED  BY <3>1, SubsetsAre
  <2> QED  BY <2>1, <2>5, <2>6
<1>4. DOMAIN keep = Facts /\ \A e \in DOMAIN map : e \in Facts /\ map[e] = keep[e]
  OBVIOUS
<1>5. \A e \in Facts : e \in DOMAIN map => keep[e] # e
  OBVIOUS
<1>7. \A e \in Facts : e \in Entries /\ rows[e].status = "current" /\ window[e] = "open"
  BY DEF Live
<1> HIDE DEF keep, map, Facts
<1>6. \A e \in DOMAIN map : e \in Entries /\ keep[e] \in Facts /\ keep[e] \notin DOMAIN map
  BY <1>2, <1>3, <1>4, <1>5, <1>7
<1> QED  BY <1>1, <1>4, <1>6, <1>7 DEF Replaces

LEMMA InOrderIs ==
    ASSUME NEW S \in SUBSET Entries
    PROVE  /\ InOrder(S) \in [1..Cardinality(S) -> S]
           /\ \A j, k \in 1..Cardinality(S) : InOrder(S)[j] = InOrder(S)[k] => j = k
<1> DEFINE n == Cardinality(S)
           order == InOrder(S)
<1>1. n \in Nat /\ \A i \in 0..(n - 1) : \E e \in S : Cardinality({d \in S : d < e}) = i
  BY SubsetsAre, RankIn
<1>2. \A k \in 1..n : order[k] \in S /\ Cardinality({d \in S : d < order[k]}) = k - 1
  <2>1. ASSUME NEW k \in 1..n
        PROVE  order[k] \in S /\ Cardinality({d \in S : d < order[k]}) = k - 1
    <3>1. k - 1 \in 0..(n - 1)
      BY <1>1
    <3>2. \E e \in S : Cardinality({d \in S : d < e}) = k - 1
      BY <1>1, <3>1
    <3>3. order[k] = CHOOSE e \in S : Cardinality({d \in S : d < e}) = k - 1
      BY <2>1 DEF InOrder
    <3> QED  BY <3>2, <3>3
  <2> QED  BY <2>1
<1>3. order = [k \in 1..n |-> order[k]]
  BY DEF InOrder
<1> HIDE DEF n, order
<1>4. order \in [1..n -> S]
  BY <1>2, <1>3
<1>5. \A j, k \in 1..n : order[j] = order[k] => j = k
  <2>1. ASSUME NEW j \in 1..n, NEW k \in 1..n, order[j] = order[k]
        PROVE  j = k
    <3>1. j - 1 = k - 1
      BY <1>2, <2>1
    <3> QED  BY <1>1, <3>1
  <2> QED  BY <2>1
<1> QED  BY <1>4, <1>5 DEF n, order

LEMMA SelectionReplaced ==
    ASSUME NEW rows, Typed(rows)
    PROVE  Replaces(rows, Selection(rows))
<1> DEFINE eligible == {e \in Entries \ Fixed : rows[e].status = "current"}
           listed == [n \in 1..Cardinality(eligible) |->
                        LET e == InOrder(eligible)[n]
                        IN  [id |-> e, alike |-> {d \in Entries : Alike(rows[d].text, rows[e].text)}]]
           C == Clustered(listed)
           clusters == {{f.id : f \in ToSet(c)} : c \in ToSet(C)}
           acted == {c \in clusters : Cardinality({Date(e) : e \in c}) > 1}
           Canonical(c) == CHOOSE e \in c : \A d \in c : d <= e
           map == [e \in UNION {c \ {Canonical(c)} : c \in acted} |->
                      Canonical(CHOOSE c \in acted : e \in c)]
<1>1. Selection(rows) = map
  BY DEF Selection
<1>2. /\ \A c \in clusters : c \subseteq eligible
      /\ \A c, d \in clusters : \A e \in c : e \in d => c = d
  <2>1. PICK n : n = Cardinality(eligible) /\ n \in Nat
    <3>1. eligible \in SUBSET Entries
      OBVIOUS
    <3> QED  BY <3>1, SubsetsAre
  <2>2. PICK F : F = {listed[k] : k \in 1..n}
    OBVIOUS
  <2>3. \A k \in 1..n : listed[k].id = InOrder(eligible)[k]
    BY <2>1
  <2>4. listed \in Seq(F) /\ Len(listed) = n
    <3>1. listed = [k \in 1..n |-> listed[k]]
      BY <2>1
    <3> HIDE DEF listed
    <3>2. listed \in [1..n -> F]
      BY <2>2, <3>1
    <3>3. n \in Nat
      BY <2>1
    <3>4. listed \in Seq(F)
      BY <3>2, <3>3
    <3>5. DOMAIN listed = 1..n
      BY <3>1
    <3> QED  BY <3>3, <3>4, <3>5
  <2>5. /\ \A k \in 1..n : listed[k].id \in eligible
        /\ \A j, k \in 1..n : listed[j].id = listed[k].id => j = k
    <3>1. eligible \in SUBSET Entries
      OBVIOUS
    <3> HIDE DEF listed, eligible
    <3> QED  BY <2>1, <2>3, <3>1, InOrderIs
  <2> HIDE DEF listed
  <2>6. /\ \A l \in DOMAIN C : \A i \in DOMAIN C[l] : \E j \in 1..n : C[l][i] = listed[j]
        /\ \A l, m \in DOMAIN C : \A i \in DOMAIN C[l], j \in DOMAIN C[m] :
              C[l][i].id = C[m][j].id => l = m
    BY <2>4, <2>5, ClustersAre
  <2> HIDE DEF C, eligible
  <2>7. \A c \in clusters : \E l \in DOMAIN C : c = {C[l][i].id : i \in DOMAIN C[l]}
    BY DEF ToSet
  <2> HIDE DEF clusters
  <2>8. \A c \in clusters : c \subseteq eligible
    BY <2>5, <2>6, <2>7
  <2>9. ASSUME NEW c \in clusters, NEW d \in clusters, NEW e \in c, e \in d
        PROVE  c = d
    <3>1. PICK l \in DOMAIN C : c = {C[l][i].id : i \in DOMAIN C[l]}
      BY <2>7
    <3>2. PICK m \in DOMAIN C : d = {C[m][i].id : i \in DOMAIN C[m]}
      BY <2>7
    <3>3. PICK i \in DOMAIN C[l] : e = C[l][i].id
      BY <3>1
    <3>4. PICK j \in DOMAIN C[m] : e = C[m][j].id
      BY <2>9, <3>2
    <3>5. l = m
      <4>1. C[l][i].id = C[m][j].id
        BY <3>3, <3>4
      <4> QED  BY <2>6, <4>1, Zenon
    <3> QED  BY <3>1, <3>2, <3>5
  <2> QED  BY <2>8, <2>9
<1>3. acted \subseteq clusters
  OBVIOUS
<1>4. eligible \subseteq Entries /\ \A e \in eligible : rows[e].status = "current"
  OBVIOUS
<1> HIDE DEF clusters, acted, eligible
<1>5. ASSUME NEW c \in acted, c # {}
      PROVE  Canonical(c) \in c
  <2>1. c \in SUBSET Nat /\ IsFiniteSet(c)
    <3>1. c \in SUBSET Entries
      BY <1>2, <1>3, <1>4
    <3> QED  BY <3>1, SubsetsAre
  <2>2. \E e \in c : \A d \in c : d <= e
    BY <1>5, <2>1, Topmost
  <2> QED  BY <2>2
<1>6. /\ DOMAIN map = UNION {c \ {Canonical(c)} : c \in acted}
      /\ \A e \in DOMAIN map : map[e] = Canonical(CHOOSE c \in acted : e \in c)
  OBVIOUS
<1> HIDE DEF Canonical, map
<1>7. ASSUME NEW e \in DOMAIN map
      PROVE  /\ e \in Entries /\ map[e] \in Entries \ DOMAIN map
             /\ rows[map[e]].status = "current"
  <2>1. \E c \in acted : e \in c
    BY <1>6
  <2>2. PICK c \in acted : e \in c /\ map[e] = Canonical(c)
    <3>1. PICK c : c = CHOOSE d \in acted : e \in d
      OBVIOUS
    <3>2. c \in acted /\ e \in c
      BY <2>1, <3>1
    <3> QED  BY <1>6, <3>1, <3>2
  <2>3. map[e] \in c /\ e \in Entries /\ map[e] \in eligible
    BY <1>2, <1>3, <1>4, <1>5, <2>2
  <2>4. ASSUME map[e] \in DOMAIN map
        PROVE  FALSE
    <3>1. PICK d \in acted : map[e] \in d \ {Canonical(d)}
      BY <1>6, <2>4
    <3>2. c = d
      BY <1>2, <1>3, <2>3, <3>1
    <3> QED  BY <2>2, <3>1, <3>2
  <2> QED  BY <1>4, <2>3, <2>4
<1> QED  BY <1>1, <1>7 DEF Replaces

(* When each fact was superseded: if its successor was superseded too, it  *)
(* was later.                                                              *)
Succeeds(rows, when, now) ==
    \A e \in Entries :
        rows[e].status = "superseded" =>
            /\ when[e] <= now
            /\ rows[e].by \in Entries
            /\ rows[rows[e].by].status = "superseded" => when[e] < when[rows[e].by]

(* dedup-facts chooses among the facts that load_facts lets through and that *)
(* are in effect.                                                          *)
ChosenLive(rows, windows) ==
    \A e \in Entries :
        rows[e].status = "superseded" =>
            /\ rows[e].reason \in {"dedup", "consolidate"}
            /\ rows[e].reason = "dedup" => /\ Present(rows, rows[e].by)
                                           /\ rows[rows[e].by].shape # "malformed"
                                           /\ windows[rows[e].by] # "ahead"

Kept(rows, windows, now) ==
    /\ Typed(rows)
    /\ ChosenLive(rows, windows)
    /\ \E when \in [Entries -> Nat] : Succeeds(rows, when, now)

Succession ==
    /\ jobs \in Nat /\ window \in [Entries -> Windows]
    /\ Kept(jsonFile, window, jobs)
    /\ dbFile.is = "rows" => Kept(dbFile.rows, window, jobs)
    /\ migration # "idle" => Kept(loaded, window, jobs)

(* A command supersedes after every other that did. *)
LEMMA SupersededKept ==
    ASSUME NEW rows, RowsShaped(rows), NEW windows, NEW now \in Nat, Kept(rows, windows, now),
           NEW map, Replaces(rows, map), NEW tool \in {"dedup", "consolidate"},
           tool = "dedup" => \A e \in DOMAIN map : /\ rows[map[e]].shape # "malformed"
                                                   /\ windows[map[e]] # "ahead"
    PROVE  Kept(Superseded(rows, map, tool), windows, now + 1)
<1> DEFINE new == Superseded(rows, map, tool)
<1>1. \A e \in Entries : e \notin DOMAIN map => new[e] = rows[e]
  BY DEF Superseded
<1>2. ASSUME NEW e \in Entries, e \in DOMAIN map
      PROVE  /\ new[e].status = "superseded" /\ new[e].by = map[e] /\ new[e].text = rows[e].text
             /\ new[e].reason = tool /\ new[e].shape = rows[e].shape
  <2>1. PICK a, b, c, d, f : rows[e] = [status |-> a, text |-> b, by |-> c, reason |-> d, shape |-> f]
    BY DEF RowsShaped
  <2>2. new[e] = [rows[e] EXCEPT !.status = "superseded", !.by = map[e], !.reason = tool]
    BY <1>2 DEF Superseded
  <2> HIDE DEF new
  <2> QED  BY <2>1, <2>2
<1> HIDE DEF new
<1>3. Typed(new)
  <2>1. "superseded" \in Status /\ Typed(rows)
    BY DEF Status, Kept
  <2> QED  BY <1>1, <1>2, <2>1 DEF Typed
<1>4. PICK when \in [Entries -> Nat] : Succeeds(rows, when, now)
  BY DEF Kept
<1>5. PICK w : w = [e \in Entries |-> IF e \in DOMAIN map THEN now + 1 ELSE when[e]]
  OBVIOUS
<1>6. w \in [Entries -> Nat]
  BY <1>5
<1>7. ASSUME NEW e \in Entries, new[e].status = "superseded"
      PROVE  /\ w[e] <= now + 1
             /\ new[e].by \in Entries
             /\ new[new[e].by].status = "superseded" => w[e] < w[new[e].by]
  <2>1. CASE e \in DOMAIN map
    <3>1. PICK s : s = new[e].by
      OBVIOUS
    <3>2. s = map[e] /\ s \in Entries /\ s \notin DOMAIN map /\ rows[s].status = "current"
      BY <1>2, <2>1, <3>1 DEF Replaces
    <3>3. new[s].status = "current"
      BY <1>1, <3>2
    <3>4. w[e] = now + 1
      BY <1>5, <2>1
    <3> QED  BY <3>1, <3>2, <3>3, <3>4
  <2>2. CASE e \notin DOMAIN map
    <3>1. PICK s : s = new[e].by
      OBVIOUS
    <3>2. new[e] = rows[e] /\ w[e] = when[e] /\ when[e] \in Nat
      BY <1>1, <1>4, <1>5, <2>2
    <3>3. /\ when[e] <= now /\ s \in Entries
          /\ rows[s].status = "superseded" => when[e] < when[s]
      BY <1>4, <1>7, <3>1, <3>2 DEF Succeeds
    <3>4. CASE s \in DOMAIN map
      <4>1. w[s] = now + 1
        BY <1>5, <3>3, <3>4
      <4> QED  BY <3>1, <3>2, <3>3, <4>1
    <3>5. CASE s \notin DOMAIN map
      <4>1. new[s] = rows[s] /\ w[s] = when[s]
        BY <1>1, <1>5, <3>3, <3>5
      <4> QED  BY <3>1, <3>2, <3>3, <4>1
    <3> QED  BY <3>4, <3>5
  <2> QED  BY <2>1, <2>2
<1>8. Succeeds(new, w, now + 1)
  BY <1>7 DEF Succeeds
<1>9. ASSUME NEW e \in Entries, new[e].status = "superseded"
      PROVE  /\ new[e].reason \in {"dedup", "consolidate"}
             /\ new[e].reason = "dedup" => /\ Present(new, new[e].by)
                                           /\ new[new[e].by].shape # "malformed"
                                           /\ windows[new[e].by] # "ahead"
  <2>1. CASE e \in DOMAIN map
    <3>1. PICK s : s = new[e].by
      OBVIOUS
    <3>2. s = map[e] /\ s \in Entries /\ s \notin DOMAIN map /\ rows[s].status = "current"
      BY <1>2, <2>1, <3>1 DEF Replaces
    <3>3. new[s] = rows[s] /\ new[e].reason = tool
      BY <1>1, <1>2, <2>1, <3>2
    <3> QED  BY <2>1, <3>1, <3>2, <3>3 DEF Present
  <2>2. CASE e \notin DOMAIN map
    <3>1. PICK s : s = new[e].by
      OBVIOUS
    <3>2. new[e] = rows[e]
      BY <1>1, <2>2
    <3>3. /\ s \in Entries /\ rows[e].reason \in {"dedup", "consolidate"}
          /\ rows[e].reason = "dedup" => /\ rows[s].status # "absent" /\ rows[s].shape # "malformed"
                                         /\ windows[s] # "ahead"
      BY <1>4, <1>9, <3>1, <3>2 DEF Kept, ChosenLive, Succeeds, Present
    <3>4. new[s].shape = rows[s].shape /\ new[s].status \in {rows[s].status, "superseded"}
      BY <1>1, <1>2, <3>3
    <3> QED  BY <3>1, <3>2, <3>3, <3>4 DEF Present
  <2> QED  BY <2>1, <2>2
<1>10. ChosenLive(new, windows)
  BY <1>9 DEF ChosenLive
<1> QED  BY <1>3, <1>6, <1>8, <1>10 DEF Kept, new

(* What load_facts drops was chosen by nobody but consolidate-facts. *)
LEMMA ValidKept ==
    ASSUME NEW rows, NEW windows, NEW now, Kept(rows, windows, now)
    PROVE  Kept(Valid(rows), windows, now)
<1> DEFINE new == Valid(rows)
<1>1. \A e \in Entries : IF rows[e].shape = "malformed"
                         THEN new[e].status = "absent" /\ new[e].text = 0
                         ELSE new[e] = rows[e]
  BY DEF Valid, NoRows
<1> HIDE DEF new
<1>2. Typed(new)
  BY <1>1 DEF Kept, Typed, Status
<1>3. PICK when \in [Entries -> Nat] : Succeeds(rows, when, now)
  BY DEF Kept
<1>4. ASSUME NEW e \in Entries, new[e].status = "superseded"
      PROVE  /\ when[e] <= now /\ new[e].by \in Entries
             /\ new[new[e].by].status = "superseded" => when[e] < when[new[e].by]
             /\ new[e].reason \in {"dedup", "consolidate"}
             /\ new[e].reason = "dedup" => /\ Present(new, new[e].by)
                                           /\ new[new[e].by].shape # "malformed"
                                           /\ windows[new[e].by] # "ahead"
  <2>1. PICK s : s = new[e].by
    OBVIOUS
  <2>2. new[e] = rows[e]
    BY <1>1, <1>4
  <2>3. /\ when[e] <= now /\ s \in Entries
        /\ rows[s].status = "superseded" => when[e] < when[s]
    BY <1>3, <1>4, <2>1, <2>2 DEF Succeeds
  <2>4. /\ rows[e].reason \in {"dedup", "consolidate"}
        /\ rows[e].reason = "dedup" => /\ rows[s].status # "absent" /\ rows[s].shape # "malformed"
                                       /\ windows[s] # "ahead"
    BY <1>4, <2>1, <2>2 DEF Kept, ChosenLive, Present
  <2> QED  BY <1>1, <2>1, <2>2, <2>3, <2>4 DEF Present
<1>5. Succeeds(new, when, now) /\ ChosenLive(new, windows)
  BY <1>4 DEF Succeeds, ChosenLive
<1> QED  BY <1>2, <1>3, <1>5 DEF Kept, new

(* So rows stay when texts change, time passes, facts are added. *)
LEMMA KeptStays ==
    ASSUME NEW rows, NEW windows, NEW now \in Nat, Kept(rows, windows, now),
           NEW new, NEW later, NEW next \in {now, now + 1},
           \A e \in Entries :
              /\ later[e] = "ahead" => windows[e] = "ahead"
              /\ new[e].text \in Nat
              /\ \/ /\ new[e].status = rows[e].status /\ new[e].by = rows[e].by
                    /\ new[e].reason = rows[e].reason /\ new[e].shape = rows[e].shape
                 \/ rows[e].status = "absent" /\ new[e].status = "current"
    PROVE  Kept(new, later, next)
<1>1. PICK when \in [Entries -> Nat] : Succeeds(rows, when, now)
  BY DEF Kept
<1>2. Typed(new)
  BY DEF Kept, Typed, Status
<1>3. next \in Nat /\ now <= next
  OBVIOUS
<1>4. ASSUME NEW e \in Entries, new[e].status = "superseded"
      PROVE  /\ when[e] <= next /\ new[e].by \in Entries
             /\ new[new[e].by].status = "superseded" => when[e] < when[new[e].by]
             /\ new[e].reason \in {"dedup", "consolidate"}
             /\ new[e].reason = "dedup" => /\ Present(new, new[e].by)
                                           /\ new[new[e].by].shape # "malformed"
                                           /\ later[new[e].by] # "ahead"
  <2>1. PICK s : s = rows[e].by
    OBVIOUS
  <2>2. /\ rows[e].status = "superseded" /\ new[e].by = s /\ when[e] \in Nat
        /\ new[e].reason = rows[e].reason
    BY <1>4, <2>1
  <2>3. /\ when[e] <= now /\ s \in Entries
        /\ rows[s].status = "superseded" => when[e] < when[s]
    BY <1>1, <2>1, <2>2 DEF Succeeds
  <2>4. /\ rows[e].reason \in {"dedup", "consolidate"}
        /\ rows[e].reason = "dedup" => /\ rows[s].status # "absent" /\ rows[s].shape # "malformed"
                                       /\ windows[s] # "ahead"
    BY <2>1, <2>2 DEF Kept, ChosenLive, Present
  <2>5. when[e] <= next
    BY <1>3, <2>2, <2>3
  <2>6. new[s].status = "superseded" => rows[s].status = "superseded"
    BY <2>3
  <2>7. rows[e].reason = "dedup" => /\ new[s].status # "absent" /\ new[s].shape # "malformed"
                                    /\ later[s] # "ahead"
    BY <2>3, <2>4
  <2> QED  BY <2>2, <2>3, <2>4, <2>5, <2>6, <2>7 DEF Present
<1>5. Succeeds(new, when, next) /\ ChosenLive(new, later)
  BY <1>4 DEF Succeeds, ChosenLive
<1> QED  BY <1>1, <1>2, <1>5 DEF Kept

(* From one to the next of a chain there is one more that was superseded   *)
(* before, and there are not more of those than entries.                   *)
LEMMA ChainEnds ==
    ASSUME NEW rows, NEW windows, NEW now, Kept(rows, windows, now),
           NEW e \in Entries, rows[e].status = "superseded", NEW last,
           last = Heirs(rows, e)[Cardinality(Entries)]
    PROVE  \/ rows[last].status = "current"
           \/ /\ ~Present(rows, last)
              /\ \A d \in Entries : rows[d].status = "superseded" /\ rows[d].by = last
                                       => rows[d].reason = "consolidate"
<1> DEFINE n == Cardinality(Entries)
           Onward(d) == IF rows[d].status = "superseded" THEN rows[d].by ELSE d
           step == [k \in 1..n |-> [d \in Entries |-> Onward(d)]]
           heir == CHOOSE f : f = [k \in 0..n |-> IF k = 0 THEN e ELSE Onward(f[k - 1])]
<1>1. PICK when \in [Entries -> Nat] : Succeeds(rows, when, now)
  BY DEF Kept
<1>2. n \in Nat /\ IsFiniteSet(Entries)
  BY SubsetsAre
<1>3. \A d \in Entries : Onward(d) \in Entries
  BY <1>1 DEF Succeeds
<1>4. \E f : f = [k \in 0..n |-> IF k = 0 THEN e ELSE Onward(f[k - 1])]
  <2> HIDE DEF n, Onward
  <2>1. /\ step \in [1..n -> [Entries -> Entries]]
        /\ \A k \in 1..n : \A d \in Entries : step[k][d] = Onward(d)
    BY <1>3
  <2> HIDE DEF step
  <2>2. \E f : Iterates(f, n, Entries, e, step)
    BY <1>2, <2>1, Iterated
  <2>3. PICK f : f \in [0..n -> Entries] /\ f[0] = e /\ \A k \in 1..n : f[k] = step[k][f[k - 1]]
    BY <2>2 DEF Iterates
  <2>4. ASSUME NEW k \in 0..n
        PROVE  f[k] = IF k = 0 THEN e ELSE Onward(f[k - 1])
    <3>1. CASE k = 0
      BY <2>3, <3>1
    <3>2. CASE k # 0
      <4>1. k \in 1..n /\ k - 1 \in 0..n
        BY <1>2, <3>2
      <4>2. f[k - 1] \in Entries
        BY <2>3, <4>1
      <4> QED  BY <2>1, <2>3, <3>2, <4>1, <4>2
    <3> QED  BY <3>1, <3>2
  <2>5. f = [k \in 0..n |-> f[k]]
    BY <2>3
  <2> QED  BY <2>4, <2>5
<1>5. heir = [k \in 0..n |-> IF k = 0 THEN e ELSE Onward(heir[k - 1])]
  BY <1>4
<1>6. Heirs(rows, e) = heir
  BY DEF Heirs
<1> HIDE DEF n, heir
<1>7. heir[0] = e /\ \A k \in 1..n : heir[k] = Onward(heir[k - 1])
  <2>1. 0 \in 0..n /\ \A k \in 1..n : k \in 0..n /\ k # 0
    BY <1>2
  <2> HIDE DEF Onward
  <2> QED  BY <1>5, <2>1
<1> DEFINE Earlier(d) == {c \in Entries : rows[c].status = "superseded" /\ when[c] < when[d]}
           T == {k \in 0..n : /\ heir[k] \in Entries
                              /\ rows[heir[k]].status = "superseded"
                                    => Cardinality(Earlier(heir[k])) >= k}
<1>8. \A d \in Entries : IsFiniteSet(Earlier(d)) /\ Cardinality(Earlier(d)) \in Nat
  <2>1. \A d \in Entries : Earlier(d) \in SUBSET Entries
    OBVIOUS
  <2> HIDE DEF Earlier
  <2> QED  BY <2>1, SubsetsAre
<1>9. 0 \in T
  <2>1. 0 \in 0..n /\ heir[0] = e
    BY <1>2, <1>7
  <2> HIDE DEF Earlier
  <2>2. Cardinality(Earlier(e)) >= 0
    BY <1>8
  <2> QED  BY <2>1, <2>2
<1>10. ASSUME NEW k \in 0..n, k \in T, k # n
       PROVE  k + 1 \in T
  <2>1. k + 1 \in 1..n /\ k + 1 \in 0..n /\ (k + 1) - 1 = k /\ k \in Nat
    BY <1>2, <1>10
  <2>2. PICK d, s : d = heir[k] /\ s = heir[k + 1]
    OBVIOUS
  <2>3. /\ d \in Entries
        /\ rows[d].status = "superseded" => Cardinality(Earlier(d)) >= k
    BY <1>10, <2>2
  <2>4. s = Onward(d) /\ s \in Entries
    <3> HIDE DEF Onward
    <3> QED  BY <1>3, <1>7, <2>1, <2>2, <2>3
  <2>5. ASSUME rows[s].status = "superseded"
        PROVE  Cardinality(Earlier(s)) >= k + 1
    <3>1. rows[d].status = "superseded" /\ s = rows[d].by
      BY <2>4, <2>5
    <3>2. when[d] < when[s]
      BY <1>1, <2>3, <2>5, <3>1 DEF Succeeds
    <3>3. \A c \in Entries : when[c] \in Nat
      OBVIOUS
    <3>4. Earlier(d) \cup {d} \subseteq Earlier(s) /\ d \notin Earlier(d)
      BY <2>3, <2>4, <3>1, <3>2, <3>3
    <3> HIDE DEF Earlier
    <3>5. Cardinality(Earlier(d) \cup {d}) = Cardinality(Earlier(d)) + 1
      BY <1>8, <2>3, <3>4, FS_AddElement
    <3>6. Cardinality(Earlier(d) \cup {d}) <= Cardinality(Earlier(s))
      BY <1>8, <2>4, <3>4, FS_Subset
    <3>7. Cardinality(Earlier(d)) >= k /\ Cardinality(Earlier(d)) \in Nat /\ Cardinality(Earlier(s)) \in Nat
      BY <1>8, <2>3, <2>4, <3>1
    <3> QED  BY <2>1, <3>5, <3>6, <3>7
  <2> HIDE DEF Earlier
  <2> QED  BY <2>1, <2>2, <2>4, <2>5
<1>11. n \in T
  <2> HIDE DEF T
  <2>1. T \in SUBSET (0..n)
    BY DEF T
  <2>2. T = 0..n
    BY <1>2, <1>9, <1>10, <2>1, UpTo
  <2> QED  BY <1>2, <2>2
<1>12. rows[heir[n]].status # "superseded"
  <2>1. SUFFICES ASSUME rows[heir[n]].status = "superseded"  PROVE FALSE
    OBVIOUS
  <2>2. PICK d \in Entries : d = heir[n] /\ Cardinality(Earlier(d)) >= n
    BY <1>11, <2>1
  <2>3. Earlier(d) \subseteq Entries \ {d}
    <3>1. ~(when[d] < when[d])
      OBVIOUS
    <3> QED  BY <3>1
  <2> HIDE DEF Earlier
  <2>4. IsFiniteSet(Entries \ {d}) /\ Cardinality(Entries \ {d}) = n - 1
    BY <1>2, FS_RemoveElement DEF n
  <2>5. Cardinality(Earlier(d)) <= n - 1
    BY <2>3, <2>4, FS_Subset
  <2> QED  BY <1>2, <1>8, <2>2, <2>5
<1>13. last = heir[n] /\ last \in Entries
  BY <1>6, <1>11 DEF n
<1>14. rows[last].status \in {"current", "absent"}
  BY <1>12, <1>13 DEF Kept, Typed, Status
<1>15. ASSUME rows[last].status = "absent", NEW d \in Entries, rows[d].status = "superseded",
              rows[d].by = last
       PROVE  rows[d].reason = "consolidate"
  BY <1>15 DEF Kept, ChosenLive, Present
<1> QED  BY <1>14, <1>15 DEF Present

(* What a tool writes back is kept if its rows are. *)
LEMMA RewriteKept ==
    ASSUME BackendInv, Succession, NEW rows, RowsShaped(rows), Rewrite(rows),
           Selected # "json" => Storable(rows),
           jobs' \in {jobs, jobs + 1}, Kept(rows, window, jobs'),
           UNCHANGED <<migration, loaded, window>>
    PROVE  Succession'
<1>1. jobs \in Nat /\ jobs' \in Nat /\ window' \in [Entries -> Windows]
  BY DEF Succession
<1>2. ASSUME NEW file, Kept(file, window, jobs)
      PROVE  Kept(file, window, jobs')
  <2>1. \A e \in Entries : file[e].text \in Nat
    BY <1>2 DEF Kept, Typed
  <2> QED  BY <1>1, <1>2, <2>1, KeptStays
<1>3. migration' # "idle" => Kept(loaded', window', jobs')
  BY <1>2 DEF Succession
<1>4. CASE Selected = "json"
  <2>1. jsonFile' = rows /\ dbFile' = dbFile
    BY <1>4 DEF Rewrite
  <2>2. dbFile'.is = "rows" => Kept(dbFile'.rows, window, jobs')
    BY <1>2, <2>1 DEF Succession
  <2> QED  BY <1>1, <1>3, <2>1, <2>2 DEF Succession
<1>5. CASE Selected # "json"
  <2>1. jsonFile' = jsonFile /\ dbFile' = Holding(rows)
    BY <1>5, StoredIs DEF Rewrite
  <2>2. dbFile'.rows = rows
    BY <2>1, HoldingIs
  <2>3. Kept(jsonFile', window, jobs')
    BY <1>2, <2>1 DEF Succession
  <2> QED  BY <1>1, <1>3, <2>2, <2>3 DEF Succession
<1> QED  BY <1>4, <1>5

LEMMA NoRowsKept == \A windows, now : Kept(NoRows, windows, now)
<1>1. \A e \in Entries : NoRows[e].status = "absent" /\ NoRows[e].text = 0
  BY DEF NoRows
<1>2. Typed(NoRows) /\ \A windows : ChosenLive(NoRows, windows)
  BY <1>1 DEF Typed, Status, ChosenLive
<1>3. PICK when : when = [e \in Entries |-> 0]
  OBVIOUS
<1>4. when \in [Entries -> Nat] /\ \A now : Succeeds(NoRows, when, now)
  BY <1>1, <1>3 DEF Succeeds
<1> QED  BY <1>2, <1>4 DEF Kept

LEMMA FileRowsKept ==
    ASSUME Succession
    PROVE  Kept(FileRows, window, jobs) /\ Kept(LiveRows, window, jobs)
<1>1. Kept(FileRows, window, jobs)
  BY NoRowsKept DEF Succession, FileRows
<1> QED  BY <1>1, ValidKept DEF LiveRows

(* In facts.json, in brain.db and in what a migration has loaded alike, the *)
(* successor of a superseded fact is current, or was superseded later, or   *)
(* was a malformed record that consolidate-facts chose: whichever of the   *)
(* two tools runs on whichever backend, and whatever is edited, approved,  *)
(* migrated or cut over between them.                                      *)
THEOREM SuccessionInductive == BackendSpec => []Succession
<1>1. BackendInit => Succession
  <2> SUFFICES ASSUME BackendInit  PROVE Succession
    OBVIOUS
  <2>1. PICK text, odd, shape : /\ jsonFile = Fresh(text, odd, shape)
                                /\ \A e \in Entries : text[e] \in Nat
    BY BackendStarts
  <2>2. \A e \in Entries : /\ jsonFile[e].status \in {"absent", "current"}
                           /\ jsonFile[e].text \in Nat
    <3>1. ASSUME NEW e \in Entries
          PROVE  jsonFile[e].status \in {"absent", "current"} /\ jsonFile[e].text \in Nat
      <4>1. CASE \A d \in Entries : d <= e
        <5>1. jsonFile[e].status = "absent" /\ jsonFile[e].text = 0
          BY <2>1, <4>1 DEF Fresh, NoRows
        <5> QED  BY <5>1
      <4>2. CASE ~(\A d \in Entries : d <= e)
        <5>1. PICK s : jsonFile[e] = [status |-> "current", text |-> text[e], by |-> 0,
                                      reason |-> "none", shape |-> s]
          BY <2>1, <4>2 DEF Fresh
        <5> QED  BY <2>1, <5>1
      <4> QED  BY <4>1, <4>2
    <3> QED  BY <3>1
  <2>3. jobs = 0 /\ dbFile.is # "rows" /\ migration = "idle"
    BY DEF BackendInit, NoFile
  <2>4. Succeeds(jsonFile, [e \in Entries |-> 0], 0)
    BY <2>2 DEF Succeeds
  <2>5. [e \in Entries |-> 0] \in [Entries -> Nat] /\ Typed(jsonFile) /\ ChosenLive(jsonFile, window)
    BY <2>2 DEF Typed, Status, ChosenLive
  <2>6. Kept(jsonFile, window, 0)
    BY <2>4, <2>5 DEF Kept
  <2>7. window \in [Entries -> Windows]
    BY BackendStarts
  <2> QED  BY <2>3, <2>6, <2>7 DEF Succession
<1>2. BackendInv /\ Succession /\ [BackendNext]_backendVars => Succession'
  <2> SUFFICES ASSUME BackendInv, Succession, [BackendNext]_backendVars  PROVE Succession'
    OBVIOUS
  <2>0. /\ jobs \in Nat /\ window \in [Entries -> Windows]
        /\ RowsShaped(jsonFile) /\ Kept(jsonFile, window, jobs)
    BY DEF Succession, BackendInv
  <2>1. ASSUME NEW file, Kept(file, window, jobs), jobs' \in {jobs, jobs + 1},
               \A e \in Entries : window'[e] = "ahead" => window[e] = "ahead"
        PROVE  Kept(file, window', jobs')
    <3>1. \A e \in Entries : file[e].text \in Nat
      BY <2>1 DEF Kept, Typed
    <3> QED  BY <2>0, <2>1, <3>1, KeptStays
  <2>2. ASSUME UNCHANGED <<jsonFile, window>>, jobs' \in {jobs, jobs + 1},
               \/ dbFile' = dbFile
               \/ dbFile'.is # "rows"
               \/ dbFile' = Holding(loaded) /\ migration # "idle",
               \/ migration' = "idle"
               \/ loaded' = jsonFile
               \/ migration # "idle" /\ loaded' = loaded
        PROVE  Succession'
    <3>1. jobs' \in Nat /\ window' \in [Entries -> Windows] /\ Kept(jsonFile', window', jobs')
      BY <2>0, <2>1, <2>2
    <3>2. dbFile'.is = "rows" => Kept(dbFile'.rows, window', jobs')
      <4>1. CASE dbFile' = dbFile
        BY <2>1, <2>2, <4>1 DEF Succession
      <4>2. CASE dbFile' = Holding(loaded) /\ migration # "idle"
        <5>1. dbFile'.rows = loaded /\ Kept(loaded, window, jobs)
          BY <4>2, HoldingIs DEF Succession
        <5> QED  BY <2>1, <2>2, <5>1
      <4> QED  BY <2>2, <4>1, <4>2
    <3>3. migration' # "idle" => Kept(loaded', window', jobs')
      BY <2>0, <2>1, <2>2 DEF Succession
    <3> QED  BY <3>1, <3>2, <3>3 DEF Succession
  <2>3. CASE Migrate
    <3>1. /\ UNCHANGED <<jsonFile, dbFile, window>> /\ jobs' = jobs + 1
          /\ migration = "idle" /\ (migration' = "idle" \/ loaded' = jsonFile)
      BY <2>3 DEF Migrate, JobsFree
    <3> QED  BY <2>2, <3>1
  <2>4. CASE ClearStaging \/ FillStaging \/ VerifyStaging \/ MigrationStops
    <3>1. /\ UNCHANGED <<jsonFile, dbFile, window, jobs>> /\ migration # "idle"
          /\ migration' = "idle" \/ loaded' = loaded
      BY <2>4 DEF ClearStaging, FillStaging, VerifyStaging, MigrationStops
    <3> QED  BY <2>2, <3>1
  <2>5. CASE ReplaceDb
    <3>1. /\ UNCHANGED <<jsonFile, window, jobs>> /\ migration = "verified" /\ migration' = "idle"
          /\ dbFile' = IF dbWal THEN [is |-> "malformed", rows |-> <<>>] ELSE staging
      BY <2>5 DEF ReplaceDb
    <3>2. staging = Holding(loaded)
      BY <3>1 DEF BackendInv
    <3>3. dbFile'.is # "rows" \/ dbFile' = Holding(loaded)
      BY <3>1, <3>2
    <3> QED  BY <2>2, <3>1, <3>3
  <2>6. CASE Cutover \/ DryRun \/ UNCHANGED backendVars
    <3>1. UNCHANGED <<jsonFile, dbFile, window, migration, loaded>> /\ jobs' \in {jobs, jobs + 1}
      BY <2>6 DEF Cutover, DryRun, backendVars
    <3> QED  BY <2>2, <3>1
  <2>7. CASE Dedup
    <3>1. PICK rows : rows = LiveRows
      OBVIOUS
    <3>2. PICK map : map = DuplicatesOf(rows)
      OBVIOUS
    <3>3. PICK new : /\ new = Superseded(rows, map, "dedup") /\ Rewrite(new) /\ jobs' = jobs + 1
                     /\ UNCHANGED <<migration, loaded, window>>
      BY <2>7, <3>1, <3>2 DEF Dedup
    <3>4. RowsShaped(rows) /\ Kept(rows, window, jobs) /\ (Selected # "json" => Storable(rows))
      BY <3>1, LiveRowsShaped, FileRowsKept
    <3>5. Sound(rows)
      BY <3>1, LiveRowsShaped, ValidIs DEF LiveRows
    <3>6. /\ Replaces(rows, map)
          /\ \A e \in DOMAIN map : rows[map[e]].shape # "malformed" /\ window[map[e]] # "ahead"
      <4>1. Typed(rows)
        BY <3>4 DEF Kept
      <4>2. Replaces(rows, map) /\ \A e \in DOMAIN map : window[map[e]] = "open"
        BY <3>2, <4>1, DuplicatesReplaced
      <4> QED  BY <3>5, <4>2 DEF Replaces, Sound
    <3>7. Kept(new, window, jobs')
      BY <2>0, <3>3, <3>4, <3>6, SupersededKept
    <3>8. RowsShaped(new) /\ (Selected # "json" => Storable(new))
      BY <3>3, <3>4, SupersededIs, NoOdderKeeps
    <3> QED  BY <3>3, <3>7, <3>8, RewriteKept
  <2>8. CASE Execute
    <3>1. PICK rows : rows = jsonFile
      OBVIOUS
    <3>2. PICK map : map = Selection(rows)
      OBVIOUS
    <3>3. PICK new : /\ new = Superseded(rows, map, "consolidate") /\ Rewrite(new) /\ jobs' = jobs + 1
                     /\ UNCHANGED <<migration, loaded, window>>
      BY <2>8, <3>1, <3>2 DEF Execute
    <3>4. Replaces(rows, map)
      BY <2>0, <3>1, <3>2, SelectionReplaced DEF Kept
    <3>5. Kept(new, window, jobs')
      BY <2>0, <3>1, <3>3, <3>4, SupersededKept
    <3>6. RowsShaped(new) /\ (Selected # "json" => Storable(new))
      BY <2>0, <3>1, <3>3, LiveRowsShaped, SupersededIs, NoOdderKeeps
    <3> QED  BY <3>3, <3>5, <3>6, RewriteKept
  <2>9. ASSUME NEW e \in Entries, Edit(e)
        PROVE  Succession'
    <3>1. PICK text \in Nat : /\ Rewrite([jsonFile EXCEPT ![e].text = text]) /\ jobs' = jobs
                              /\ UNCHANGED <<migration, loaded, window>> /\ Selected = "json"
      <4>1. PICK text \in 1..3 : Rewrite([jsonFile EXCEPT ![e].text = text])
        BY <2>9 DEF Edit
      <4>2. jobs' = jobs /\ UNCHANGED <<migration, loaded, window>> /\ Selected = "json"
        BY <2>9 DEF Edit
      <4>3. text \in Nat
        OBVIOUS
      <4> QED  BY ONLY <4>1, <4>2, <4>3
    <3>2. PICK new : new = [jsonFile EXCEPT ![e].text = text]
      OBVIOUS
    <3>3. PICK a, b, c, d, f : jsonFile[e] = [status |-> a, text |-> b, by |-> c, reason |-> d, shape |-> f]
      BY <2>0 DEF RowsShaped
    <3>4. PICK r : r = [jsonFile[e] EXCEPT !.text = text]
      OBVIOUS
    <3>5. r.status = a /\ r.by = c /\ r.text = text /\ r.reason = d /\ r.shape = f
      BY <3>3, <3>4
    <3>6. \A g \in Entries : new[g] = IF g = e THEN r ELSE jsonFile[g]
      <4>1. jsonFile = [g \in Entries |-> jsonFile[g]]
        BY <2>0 DEF RowsShaped
      <4> QED  BY <3>2, <3>4, <4>1
    <3>7. \A g \in Entries : /\ new[g].text \in Nat
                             /\ new[g].status = jsonFile[g].status /\ new[g].by = jsonFile[g].by
                             /\ new[g].reason = jsonFile[g].reason /\ new[g].shape = jsonFile[g].shape
      <4>1. \A g \in Entries : jsonFile[g].text \in Nat
        BY <2>0 DEF Kept, Typed
      <4> QED  BY <3>3, <3>5, <3>6, <4>1
    <3>8. Kept(new, window, jobs')
      BY <2>0, <3>1, <3>7, KeptStays
    <3>9. RowsShaped(new)
      BY <2>0, <3>2, RewordedIs
    <3> QED  BY <3>1, <3>2, <3>8, <3>9, RewriteKept
  <2>10. ASSUME NEW e \in Entries, Approve(e)
         PROVE  Succession'
    <3>1. UNCHANGED <<dbFile, migration, loaded, window, jobs>>
      BY <2>10 DEF Approve
    <3>2. PICK rows : rows = Valid(jsonFile) /\ Kept(rows, window, jobs)
      BY <2>0, ValidKept
    <3>3. \A d \in Entries :
             /\ jsonFile'[d].text \in Nat
             /\ \/ /\ jsonFile'[d].status = rows[d].status /\ jsonFile'[d].by = rows[d].by
                   /\ jsonFile'[d].reason = rows[d].reason /\ jsonFile'[d].shape = rows[d].shape
                \/ rows[d].status = "absent" /\ jsonFile'[d].status = "current"
      <4>1. \A d \in Entries : rows[d].text \in Nat
        BY <3>2 DEF Kept, Typed
      <4> QED  BY <2>0, <2>10, <3>2, <4>1, ApprovedIs
    <3>4. Kept(jsonFile', window', jobs')
      BY <2>0, <3>1, <3>2, <3>3, KeptStays
    <3> QED  BY <3>1, <3>4 DEF Succession
  <2>11. ASSUME NEW e \in Entries, TimePasses(e)
         PROVE  Succession'
    <3>1. /\ UNCHANGED <<jsonFile, dbFile, migration, loaded, jobs>>
          /\ \A d \in Entries : window'[d] = "ahead" => window[d] = "ahead"
      <4>1. window' = [window EXCEPT ![e] = IF @ = "ahead" THEN "open" ELSE "past"]
        BY <2>11 DEF TimePasses
      <4>2. UNCHANGED <<jsonFile, dbFile, migration, loaded, jobs>>
        BY <2>11 DEF TimePasses
      <4> QED  BY <2>0, <4>1, <4>2
    <3>2. window' \in [Entries -> Windows]
      BY <2>0, <2>11 DEF TimePasses, Windows
    <3> QED  BY <2>0, <2>1, <3>1, <3>2 DEF Succession
  <2> QED  BY <2>3, <2>4, <2>5, <2>6, <2>7, <2>8, <2>9, <2>10, <2>11 DEF BackendNext
<1> QED  BY <1>1, <1>2, BackendInductive, PTL DEF BackendSpec

(* However dedup-facts, which keeps the oldest, and consolidate-facts,     *)
(* which keeps the latest, edits, approvals, migrations and cutovers       *)
(* alternate, every superseded fact of the selected store leads to a       *)
(* current one: no group is hidden altogether, unless consolidate-facts    *)
(* kept a malformed record that a later tool lost.                         *)
THEOREM OneAlwaysStays == BackendSpec => []OneStays
<1>1. Succession => OneStays
  BY FileRowsKept, ChainEnds DEF OneStays
<1> QED  BY <1>1, SuccessionInductive, PTL

(* What dedup-facts hides gave way to a fact that is still in the store,   *)
(* well-formed, and was in effect: it looks at what load_facts lets        *)
(* through and at windows, and what it chose no later tool drops.          *)
THEOREM AlwaysHiddenForShown == BackendSpec => []HiddenForShown
<1>1. Succession => HiddenForShown
  BY FileRowsKept DEF HiddenForShown, Kept, ChosenLive
<1> QED  BY <1>1, SuccessionInductive, PTL

-----------------------------------------------------------------------------
(* The types.  What the invariants above leave out of them is what decides *)
(* nothing: histories, bounds, the page; so each is kept by the shapes.    *)

QueueHistory ==
    /\ UNION {queued, approved, rejected, direct} \subseteq Proposals /\ page \subseteq Proposals
    /\ commands \in 0..MaxCommands

LEMMA QueueHistoryStays ==
    ASSUME QueueInv, QueueHistory, QueueNext
    PROVE  QueueHistory'
<1>1. /\ \A p \in Tools : /\ memory[p].queue \subseteq Proposals /\ memory[p].release \subseteq Proposals
                          /\ memory[p].remain \subseteq Proposals
      /\ said \subseteq Proposals /\ queue \subseteq Proposals
  BY DEF QueueInv, QueueShape, Memory
<1>2. ASSUME NEW p \in Tools, NEW place, NEW held, Command(p, place, held)
      PROVE  commands' \in 0..MaxCommands
  BY <1>2, QueueAssumption DEF Command, QueueHistory, QueueAssumption
<1>3. ASSUME NEW p \in Tools, NEW place, NEW held, Then(p, place, held)
      PROVE  commands' \in 0..MaxCommands
  BY <1>3 DEF Then, QueueHistory
<1>4. ASSUME NEW p \in Tools,
             \/ ProposeStart(p) \/ ReadQueue(p) \/ LoadLive(p) \/ Release(p) \/ Requeue(p)
             \/ ExtractStart(p) \/ ExtractLoad(p) \/ Dies(p)
      PROVE  QueueHistory'
  <2>1. commands' \in 0..MaxCommands
    BY <1>2, <1>3, <1>4 DEF ProposeStart, ReadQueue, LoadLive, Release, Requeue, ExtractStart,
                           ExtractLoad, Dies
  <2>2. UNCHANGED <<queued, approved, rejected, direct, page>>
    BY <1>4 DEF ProposeStart, ReadQueue, LoadLive, Release, Requeue, ExtractStart, ExtractLoad, Dies
  <2> QED  BY <2>1, <2>2 DEF QueueHistory
<1>5. ASSUME NEW p \in Tools, WriteQueue(p)
      PROVE  QueueHistory'
  <2>1. commands' \in 0..MaxCommands
    BY <1>3, <1>5 DEF WriteQueue
  <2>2. queue' = memory[p].queue \cup (said \ Known(memory[p].store)) /\ queued' = queued \cup queue'
        /\ UNCHANGED <<page, approved, rejected, direct>>
    BY <1>5 DEF WriteQueue
  <2>3. queue' \subseteq Proposals
    BY <1>1, <2>2
  <2> QED  BY <2>1, <2>2, <2>3 DEF QueueHistory
<1>6. ASSUME NEW p \in Tools, Render(p)
      PROVE  QueueHistory'
  <2>1. commands' \in 0..MaxCommands
    BY <1>3, <1>6 DEF Render
  <2>2. page' = memory[p].remain /\ UNCHANGED <<queued, approved, rejected, direct>>
    BY <1>6 DEF Render
  <2> QED  BY <1>1, <2>1, <2>2 DEF QueueHistory
<1>7. ASSUME NEW p \in Tools, Decide(p)
      PROVE  QueueHistory'
  <2>1. PICK yes \in SUBSET queue, no \in SUBSET queue :
           /\ Command(p, IF yes \ no = {} THEN "requeueing" ELSE "deciding",
                      [Blank EXCEPT !.release = yes \ no, !.remain = queue \ (yes \cup no)])
           /\ approved' = approved \cup (yes \ no) /\ rejected' = rejected \cup no
           /\ UNCHANGED <<page, queued, direct>>
    BY <1>7 DEF Decide
  <2>2. commands' \in 0..MaxCommands
    BY <1>2, <2>1
  <2> QED  BY <1>1, <2>1, <2>2 DEF QueueHistory
<1>8. ASSUME NEW p \in Tools, ExtractWrite(p)
      PROVE  QueueHistory'
  <2>1. commands' \in 0..MaxCommands
    BY <1>3, <1>8 DEF ExtractWrite
  <2>2. direct' = direct \cup memory[p].release /\ UNCHANGED <<queued, approved, rejected, page>>
    BY <1>8 DEF ExtractWrite
  <2> QED  BY <1>1, <2>1, <2>2 DEF QueueHistory
<1>9. ASSUME NEW i \in Proposals, Say(i)
      PROVE  QueueHistory'
  BY <1>9 DEF Say, QueueHistory
<1> QED  BY <1>4, <1>5, <1>6, <1>7, <1>8, <1>9 DEF QueueNext

LEMMA QueueTypes == QueueSpec => []QueueTypeOK
<1>1. QueueInit => QueueHistory
  BY QueueAssumption DEF QueueInit, QueueHistory, QueueAssumption
<1>2. QueueInv /\ QueueHistory /\ [QueueNext]_queueVars => QueueHistory'
  BY QueueHistoryStays DEF queueVars, QueueHistory
<1>3. QueueInv /\ QueueHistory => QueueTypeOK
  <2> SUFFICES ASSUME QueueInv, QueueHistory  PROVE QueueTypeOK
    OBVIOUS
  <2>1. stored \in [Proposals -> 0..2]
    <3>1. \A i \in Proposals : stored[i] \in Nat /\ (stored[i] > 0 => stored[i] = 1)
      BY DEF QueueInv, QueueShape, Permitted
    <3>2. \A i \in Proposals : stored[i] \in 0..2
      BY <3>1
    <3> QED  BY <3>2 DEF QueueInv, QueueShape
  <2> QED  BY <2>1 DEF QueueTypeOK, QueueInv, QueueShape, QueueHistory
<1> QED  BY <1>1, <1>2, <1>3, QueueInductive, PTL DEF QueueSpec

CallsKnown ==
    /\ denied \subseteq made /\ made \subseteq Calls /\ DOMAIN pending \subseteq made
    /\ \A c \in DOMAIN pending : pending[c] \in Sessions \X Media
    /\ linesRead \in 0..MaxLines

LEMMA CallsStayKnown ==
    ASSUME CallsKnown, IngestNext
    PROVE  CallsKnown'
<1>1. ReadLine => linesRead' \in 0..MaxLines
  BY IngestAssumption DEF ReadLine, CallsKnown, IngestAssumption
<1>2. \A c : /\ DOMAIN Popped(c) \subseteq made
             /\ \A d \in DOMAIN Popped(c) : Popped(c)[d] \in Sessions \X Media
  BY DEF Popped, CallsKnown
<1>3. ASSUME NEW t \in Texts,
             AssistantPart(t) \/ \E s \in Sessions, m \in Media, frame \in Frames : UserPart(s, m, frame, t)
      PROVE  CallsKnown'
  BY <1>1, <1>3 DEF AssistantPart, UserPart, CallsKnown
<1>4. ASSUME NEW c \in Calls, DeniedCall(c)
      PROVE  CallsKnown'
  BY <1>1, <1>4 DEF DeniedCall, NextCall, CallsKnown
<1>5. ASSUME NEW c \in Calls, ResultDenied(c)
      PROVE  CallsKnown'
  BY <1>1, <1>5 DEF ResultDenied, CallsKnown
<1>6. ASSUME NEW c \in Calls, pending' = Popped(c), UNCHANGED <<denied, made>>, ReadLine
      PROVE  CallsKnown'
  BY <1>1, <1>2, <1>6 DEF CallsKnown
<1>7. ASSUME NEW c \in Calls, NEW s \in Sessions, NEW m \in Media, Call(c, s, m)
      PROVE  CallsKnown'
  <2>1. /\ ReadLine /\ made' = made \cup {c} /\ denied' = denied
        /\ pending' = IF m \in voices[s]
                      THEN [d \in DOMAIN pending \cup {c} |-> IF d = c THEN <<s, m>> ELSE pending[d]]
                      ELSE pending
    BY <1>7 DEF Call, NextCall
  <2>2. DOMAIN pending' \subseteq made' /\ \A d \in DOMAIN pending' : pending'[d] \in Sessions \X Media
    BY <2>1 DEF CallsKnown
  <2> QED  BY <1>1, <2>1, <2>2 DEF CallsKnown
<1>8. ASSUME NextTranscript \/ Ingested \/ Refine
      PROVE  CallsKnown'
  <2>1. /\ linesRead' = linesRead
        /\ \/ denied' = {} /\ made' = {} /\ pending' = <<>>
           \/ UNCHANGED <<denied, made, pending>>
    BY <1>8 DEF NextTranscript, Ingested, Refine
  <2> QED  BY <2>1 DEF CallsKnown
<1>9. ASSUME NEW c \in Calls,
             \/ ResultDropped(c)
             \/ \E s \in Sessions, t \in Texts : Promote(c, s, t) \/ Result(c, s, t)
      PROVE  CallsKnown'
  BY <1>6, <1>9 DEF ResultDropped, Promote, Result
<1> QED  BY <1>3, <1>4, <1>5, <1>7, <1>8, <1>9 DEF IngestNext

LEMMA IngestTypes == IngestSpec => []IngestTypeOK
<1>1. IngestInit => CallsKnown
  BY IngestAssumption DEF IngestInit, CallsKnown, IngestAssumption
<1>2. CallsKnown /\ [IngestNext]_ingestVars => CallsKnown'
  BY CallsStayKnown DEF ingestVars, CallsKnown
<1>3. IngestInv /\ CallsKnown => IngestTypeOK
  <2> SUFFICES ASSUME IngestInv, CallsKnown  PROVE IngestTypeOK
    OBVIOUS
  <2>1. keys \subseteq {KeyOf[t] : t \in Texts}
    <3>1. ASSUME NEW key \in keys
          PROVE  key \in {KeyOf[t] : t \in Texts}
      <4>1. PICK n \in DOMAIN facts : key = KeyOf[facts[n].text]
        BY DEF IngestInv, KeysSeen
      <4>2. facts[n] \in Event
        BY DEF IngestInv, IngestShape
      <4> QED  BY <4>1, <4>2 DEF Event
    <3> QED  BY <3>1
  <2>2. refined \in -1..Len(events)
    BY DEF IngestInv, IngestShape
  <2> QED  BY <2>1, <2>2 DEF IngestTypeOK, CallsKnown, IngestInv, IngestShape
<1> QED  BY <1>1, <1>2, <1>3, IngestInductive, PTL DEF IngestSpec

(* What an applier that runs alone verified, is signed. *)
BatchHistory ==
    /\ moved \subseteq Batches /\ starts \in 0..MaxStarts
    /\ ~overlapped => \A p \in Procs : pc[p] = "verified" => candidate.signed

LEMMA BatchHistoryStays ==
    ASSUME BatchInv, BatchHistory, Next
    PROVE  BatchHistory'
<1>1. ASSUME NEW p \in Procs, NEW label, Start(p, label), label # "verified", candidate' = candidate,
             moved' = moved
      PROVE  BatchHistory'
  <2>1. starts' \in 0..MaxStarts
    BY <1>1, BatchAssumption DEF Start, BatchHistory, BatchAssumption
  <2>2. ASSUME ~overlapped', NEW q \in Procs, pc'[q] = "verified"
        PROVE  FALSE
    <3>1. \A r \in Procs : pc[r] = "idle"
      BY <1>1, <2>2 DEF Start
    <3>2. pc'[q] \in {"idle", label}
      BY <1>1, <3>1 DEF Start, Goto, BatchInv, BatchShape
    <3> QED  BY <1>1, <2>2, <3>2
  <2> QED  BY <1>1, <2>1, <2>2 DEF BatchHistory
<1>2. ASSUME NEW p \in Procs, pc[p] # "idle", NEW label, Goto(p, label),
             moved' \subseteq Batches, UNCHANGED <<starts, overlapped>>,
             label = "verified" /\ ~overlapped => candidate'.signed
      PROVE  BatchHistory'
  <2>1. ASSUME ~overlapped, NEW q \in Procs, pc'[q] = "verified"
        PROVE  candidate'.signed
    <3>1. q = p
      <4>1. SUFFICES ASSUME q # p  PROVE FALSE
        OBVIOUS
      <4>2. pc[q] = "idle" /\ pc'[q] = pc[q]
        BY <1>2, <2>1, <4>1, StaysAlone DEF Goto, BatchInv, BatchShape
      <4> QED  BY <2>1, <4>2
    <3>2. label = "verified"
      BY <1>2, <2>1, <3>1 DEF Goto, BatchInv, BatchShape
    <3> QED  BY <1>2, <2>1, <3>2
  <2>2. starts' = starts /\ overlapped' = overlapped
    BY <1>2
  <2> QED  BY <1>2, <2>1, <2>2 DEF BatchHistory
<1>3. ASSUME UNCHANGED <<candidate, moved, starts, overlapped, pc>>
      PROVE  BatchHistory'
  BY <1>3 DEF BatchHistory
<1>4. ASSUME Build \/ \E s \in Batches : RollBack(s)
      PROVE  BatchHistory'
  <2>1. UNCHANGED <<candidate, moved, starts, overlapped, pc>>
    BY <1>4 DEF Build, RollBack, files, history
  <2> QED  BY <1>3, <2>1
<1>5. ASSUME NEW p \in Procs, Read(p) \/ LoadStore(p)
      PROVE  BatchHistory'
  <2>1. (Start(p, "read") \/ Start(p, "writing")) /\ candidate' = candidate /\ moved' = moved
    BY <1>5 DEF Read, LoadStore, files
  <2> QED  BY <1>1, <2>1
<1>6. ASSUME NEW p \in Procs,
             \/ Fetch(p) \/ Stage(p) \/ Sign(p) \/ Record(p) \/ Stop(p) \/ Abandon(p)
             \/ \E i \in Locals : WriteStore(p, i)
      PROVE  BatchHistory'
  <2>1. /\ pc[p] # "idle"
        /\ \E label : Goto(p, label) /\ label # "verified"
        /\ UNCHANGED <<moved, starts, overlapped>>
    BY <1>6 DEF Fetch, Stage, Sign, Record, Stop, Abandon, WriteStore, files, history
  <2>2. moved' \subseteq Batches
    BY <2>1 DEF BatchHistory
  <2> QED  BY <1>2, <2>1, <2>2
<1>7. ASSUME NEW p \in Procs, Verify(p)
      PROVE  BatchHistory'
  <2>1. /\ pc[p] # "idle" /\ Goto(p, "verified") /\ candidate.signed
        /\ UNCHANGED <<candidate, moved, starts, overlapped>>
    BY <1>7 DEF Verify, files, history
  <2>2. moved' \subseteq Batches /\ candidate'.signed
    BY <2>1 DEF BatchHistory
  <2> QED  BY <1>2, <2>1, <2>2
<1>8. ASSUME NEW p \in Procs, Move(p)
      PROVE  BatchHistory'
  <2>1. /\ pc[p] # "idle" /\ Goto(p, "moved") /\ moved' = moved \cup mem[p].pending
        /\ UNCHANGED <<starts, overlapped>>
    BY <1>8 DEF Move
  <2>2. moved' \subseteq Batches
    BY <2>1, TypedMem DEF BatchHistory
  <2> QED  BY <1>2, <2>1, <2>2
<1> QED  BY <1>4, <1>5, <1>6, <1>7, <1>8 DEF Next, Apply, Write

LEMMA BatchTypes == Spec => []BTypeOK
<1>1. Init => BatchHistory
  BY BatchAssumption DEF Init, BatchHistory, BatchAssumption
<1>2. BatchInv /\ BatchHistory /\ [Next]_vars => BatchHistory'
  BY BatchHistoryStays DEF vars, files, history, BatchHistory
<1>3. BatchInv /\ BatchHistory => BTypeOK
  <2> SUFFICES ASSUME BatchInv, BatchHistory  PROVE BTypeOK
    OBVIOUS
  <2>1. \A p \in Procs : mem[p].facts \subseteq Ids
                         /\ {mem[p].applied, mem[p].pending} \subseteq SUBSET Batches
    BY DEF BatchInv, BatchShape, Mem
  <2>2. ASSUME NEW p \in Procs, ~overlapped, pc[p] = "verified"
        PROVE  candidate = [facts |-> mem[p].facts, signed |-> TRUE]
    <3>1. candidate # None /\ candidate.facts = mem[p].facts
      BY <2>2 DEF BatchInv, RunsAlone
    <3>2. candidate \in Candidate /\ candidate.signed
      BY <2>2, <3>1 DEF BatchInv, BatchShape, BatchHistory
    <3>3. candidate = [facts |-> candidate.facts, signed |-> TRUE]
      BY <3>2 DEF Candidate
    <3> QED  BY <3>1, <3>3
  <2> QED  BY <2>1, <2>2 DEF BTypeOK, BatchInv, BatchShape, BatchHistory, Labels
<1> QED  BY <1>1, <1>2, <1>3, BatchInductive, PTL DEF Spec

(* What a backend holds is rows, each a row that the columns can hold.     *)
FileTyped(f) == f = NoFile \/ f.is = "malformed" \/ (f.is = "rows" /\ f.rows \in Rows)

BackendTyped == BackendTypeOK /\ (migration # "idle" => loaded \in Rows)

Reasons == {"none", "dedup", "consolidate"}

RowType == [status : Status, text : Nat, by : Entries \cup {0}, reason : Reasons,
            shape : Shape \cup {"coerced"}]

LEMMA RowsAre == Rows = [Entries -> RowType]
  BY DEF Rows, RowType, Reasons

LEMMA NewRowsTyped ==
    /\ NoRows \in Rows
    /\ \A e \in Entries, text \in Nat :
          [NoRows[e] EXCEPT !.status = "current", !.text = text] \in RowType
<1>1. ASSUME NEW e \in Entries
      PROVE  NoRows[e] \in RowType
  <2>1. [status |-> "absent", text |-> 0, by |-> 0, reason |-> "none", shape |-> "plain"] \in RowType
    BY DEF RowType, Status, Reasons, Shape
  <2> QED  BY <2>1 DEF NoRows
<1>2. NoRows = [e \in Entries |-> NoRows[e]]
  BY DEF NoRows
<1>3. ASSUME NEW e \in Entries, NEW text \in Nat
      PROVE  [NoRows[e] EXCEPT !.status = "current", !.text = text] \in RowType
  <2>1. PICK r, s : r = NoRows[e] /\ s = "current"
    OBVIOUS
  <2>2. r \in RowType /\ s \in Status
    BY <1>1, <2>1 DEF Status
  <2>3. [r EXCEPT !.status = s, !.text = text] \in RowType
    BY <2>2 DEF RowType
  <2> QED  BY <2>1, <2>3
<1> QED  BY <1>1, <1>2, <1>3, RowsAre

LEMMA RowsTyped ==
    ASSUME NEW rows \in Rows
    PROVE  /\ Typed(rows)
           /\ Stored(rows) \in Rows
           /\ \A map : Replaces(rows, map) =>
                 \A tool \in Reasons : Superseded(rows, map, tool) \in Rows
           /\ Valid(rows) \in Rows
           /\ \A e \in Entries, text \in Nat : [rows EXCEPT ![e].text = text] \in Rows
<1>1. \A e \in Entries : rows[e] \in RowType
  BY RowsAre
<1>2. Typed(rows)
  BY <1>1 DEF Typed, RowType
<1>3. Stored(rows) \in Rows
  <2>1. ASSUME NEW e \in Entries
        PROVE  [rows[e] EXCEPT !.shape = RoundTrip(@)] \in RowType
    <3>1. RoundTrip(rows[e].shape) \in Shape \cup {"coerced"}
      <4>1. rows[e].shape \in Shape \cup {"coerced"}
        BY <1>1 DEF RowType
      <4> QED  BY <4>1 DEF RoundTrip
    <3>2. PICK r, s : r = rows[e] /\ s = RoundTrip(rows[e].shape)
      OBVIOUS
    <3>3. r \in RowType /\ s \in Shape \cup {"coerced"}
      BY <1>1, <3>1, <3>2
    <3>4. [r EXCEPT !.shape = s] \in RowType
      BY <3>3 DEF RowType
    <3> QED  BY <3>2, <3>4
  <2> QED  BY <2>1, RowsAre DEF Stored
<1>4. ASSUME NEW map, Replaces(rows, map), NEW tool \in Reasons
      PROVE  Superseded(rows, map, tool) \in Rows
  <2>1. ASSUME NEW e \in Entries, e \in DOMAIN map
        PROVE  [rows[e] EXCEPT !.status = "superseded", !.by = map[e], !.reason = tool] \in RowType
    <3>1. PICK r, s, b : r = rows[e] /\ s = "superseded" /\ b = map[e]
      OBVIOUS
    <3>2. r \in RowType /\ s \in Status /\ b \in Entries \cup {0}
      BY <1>1, <1>4, <2>1, <3>1 DEF Replaces, Status
    <3>3. [r EXCEPT !.status = s, !.by = b, !.reason = tool] \in RowType
      BY <3>2 DEF RowType
    <3> QED  BY <3>1, <3>3
  <2> QED  BY <1>1, <2>1, RowsAre DEF Superseded
<1>5. ASSUME NEW e \in Entries, NEW text \in Nat
      PROVE  [rows EXCEPT ![e].text = text] \in Rows
  <2>1. PICK r : r = [rows[e] EXCEPT !.text = text]
    OBVIOUS
  <2>2. r \in RowType
    BY <1>1, <2>1 DEF RowType
  <2>3. [rows EXCEPT ![e].text = text] = [rows EXCEPT ![e] = r]
    BY <2>1
  <2>4. [rows EXCEPT ![e] = r] \in [Entries -> RowType]
    BY <2>2, RowsAre
  <2> QED  BY <2>3, <2>4, RowsAre
<1>6. Valid(rows) \in Rows
  <2>1. \A e \in Entries : NoRows[e] \in RowType
    BY NewRowsTyped, RowsAre
  <2> QED  BY <1>1, <2>1, RowsAre DEF Valid
<1> QED  BY <1>2, <1>3, <1>4, <1>5, <1>6

LEMMA LiveRowsTyped == ASSUME BackendTypeOK  PROVE LiveRows \in Rows
<1>1. dbFile.is = "rows" => dbFile.rows \in Rows
  <2>1. dbFile = NoFile \/ dbFile.is = "malformed" \/ (dbFile.is = "rows" /\ dbFile.rows \in Rows)
    BY DEF BackendTypeOK
  <2> QED  BY <2>1 DEF NoFile
<1>2. FileRows \in Rows
  BY <1>1, NewRowsTyped DEF FileRows, BackendTypeOK
<1> QED  BY <1>2, RowsTyped DEF LiveRows

LEMMA RewriteTyped ==
    ASSUME BackendTyped, NEW rows \in Rows, Rewrite(rows), jobs' \in 0..MaxJobs, edits' \in 0..MaxEdits,
           UNCHANGED <<staging, marker, hasKey, migration, loaded, window>>
    PROVE  BackendTyped'
<1>1. CASE Selected = "json"
  <2>1. jsonFile' = rows /\ UNCHANGED <<dbFile, dbWal>>
    BY <1>1 DEF Rewrite
  <2> QED  BY <2>1 DEF BackendTyped, BackendTypeOK
<1>2. CASE Selected # "json"
  <2>1. jsonFile' = jsonFile /\ dbFile' = Holding(Stored(rows)) /\ dbWal' \in {dbWal, TRUE}
    BY <1>2 DEF Rewrite
  <2>2. dbFile'.is = "rows" /\ dbFile'.rows \in Rows
    BY <2>1, HoldingIs, RowsTyped
  <2>3. dbWal' \in BOOLEAN
    BY <2>1 DEF BackendTyped, BackendTypeOK
  <2> QED  BY <2>1, <2>2, <2>3 DEF BackendTyped, BackendTypeOK
<1> QED  BY <1>1, <1>2

LEMMA BackendStaysTyped ==
    ASSUME BackendTyped, BackendNext
    PROVE  BackendTyped'
<1>1. JobsFree /\ jobs' = jobs + 1 => jobs' \in 0..MaxJobs
  BY BackendAssumption DEF JobsFree, BackendTyped, BackendTypeOK, BackendAssumption
<1>2. edits < MaxEdits /\ edits' = edits + 1 => edits' \in 0..MaxEdits
  BY BackendAssumption DEF BackendTyped, BackendTypeOK, BackendAssumption
<1>3. jsonFile \in Rows /\ LiveRows \in Rows /\ jobs \in 0..MaxJobs /\ edits \in 0..MaxEdits
  BY LiveRowsTyped DEF BackendTyped, BackendTypeOK
<1>4. CASE Migrate
  <2>1. /\ jobs' \in 0..MaxJobs
        /\ \/ UNCHANGED <<migration, loaded>>
           \/ migration' = "gated" /\ loaded' = jsonFile
        /\ UNCHANGED <<jsonFile, dbFile, dbWal, staging, marker, hasKey, window, edits>>
    BY <1>1, <1>4 DEF Migrate
  <2> QED  BY <1>3, <2>1 DEF BackendTyped, BackendTypeOK
<1>5. CASE ClearStaging
  <2>1. /\ staging' = NoFile /\ migration = "gated" /\ migration' = "cleared"
        /\ UNCHANGED <<jsonFile, dbFile, dbWal, marker, hasKey, loaded, window, jobs, edits>>
    BY <1>5 DEF ClearStaging
  <2> QED  BY <2>1 DEF BackendTyped, BackendTypeOK
<1>6. CASE FillStaging
  <2>1. /\ migration = "cleared" /\ migration' \in {"cleared", "filled"}
        /\ staging' = Holding(NoRows) \/ staging' = Holding(Stored(loaded))
        /\ UNCHANGED <<jsonFile, dbFile, dbWal, marker, hasKey, loaded, window, jobs, edits>>
    BY <1>6 DEF FillStaging
  <2>2. loaded \in Rows
    BY <2>1 DEF BackendTyped
  <2>3. staging'.is = "rows" /\ staging'.rows \in Rows
    BY <2>1, <2>2, HoldingIs, RowsTyped, NewRowsTyped
  <2> QED  BY <2>1, <2>2, <2>3 DEF BackendTyped, BackendTypeOK
<1>7. CASE VerifyStaging
  <2>1. /\ migration = "filled" /\ migration' \in {"verified", "refused"}
        /\ staging' \in {staging, NoFile}
        /\ UNCHANGED <<jsonFile, dbFile, dbWal, marker, hasKey, loaded, window, jobs, edits>>
    BY <1>7 DEF VerifyStaging
  <2> QED  BY <2>1 DEF BackendTyped, BackendTypeOK
<1>8. CASE ReplaceDb
  <2>1. /\ migration' = "idle" /\ loaded' = <<>> /\ staging' = NoFile
        /\ dbFile' = IF dbWal THEN [is |-> "malformed", rows |-> <<>>] ELSE staging
        /\ UNCHANGED <<jsonFile, dbWal, marker, hasKey, window, jobs, edits>>
    BY <1>8 DEF ReplaceDb
  <2>2. dbFile'.is = "malformed" \/ dbFile' = staging
    BY <2>1
  <2>3. FileTyped(dbFile')
    BY <2>2 DEF BackendTyped, BackendTypeOK, FileTyped
  <2> QED  BY <2>1, <2>3 DEF BackendTyped, BackendTypeOK, FileTyped
<1>9. CASE MigrationStops
  <2>1. /\ migration' = "idle" /\ loaded' = <<>>
        /\ UNCHANGED <<jsonFile, dbFile, dbWal, staging, marker, hasKey, window, jobs, edits>>
    BY <1>9 DEF MigrationStops
  <2> QED  BY <2>1 DEF BackendTyped, BackendTypeOK
<1>10. CASE Cutover
  <2>1. /\ marker' = ~marker /\ jobs' \in 0..MaxJobs
        /\ UNCHANGED <<jsonFile, dbFile, dbWal, staging, hasKey, migration, loaded, window, edits>>
    BY <1>1, <1>10 DEF Cutover
  <2>2. marker' \in BOOLEAN
    BY <2>1
  <2> QED  BY <2>1, <2>2 DEF BackendTyped, BackendTypeOK
<1>11. CASE DryRun
  <2>1. /\ jobs' \in 0..MaxJobs
        /\ UNCHANGED <<jsonFile, dbFile, dbWal, staging, marker, hasKey, migration, loaded, window, edits>>
    BY <1>1, <1>11 DEF DryRun
  <2> QED  BY <2>1 DEF BackendTyped, BackendTypeOK
<1>12. CASE Dedup
  <2>1. PICK rows : rows = LiveRows /\ rows \in Rows
    BY <1>3
  <2>2. /\ Rewrite(Superseded(rows, DuplicatesOf(rows), "dedup")) /\ jobs' \in 0..MaxJobs
        /\ UNCHANGED <<staging, marker, hasKey, migration, loaded, window, edits>>
    BY <1>1, <1>12, <2>1 DEF Dedup
  <2>3. Superseded(rows, DuplicatesOf(rows), "dedup") \in Rows
    BY <2>1, RowsTyped, DuplicatesReplaced DEF Reasons
  <2> QED  BY <1>3, <2>2, <2>3, RewriteTyped
<1>13. CASE Execute
  <2>1. /\ Rewrite(Superseded(jsonFile, Selection(jsonFile), "consolidate")) /\ jobs' \in 0..MaxJobs
        /\ UNCHANGED <<staging, marker, hasKey, migration, loaded, window, edits>>
    BY <1>1, <1>13 DEF Execute
  <2>2. Superseded(jsonFile, Selection(jsonFile), "consolidate") \in Rows
    BY <1>3, RowsTyped, SelectionReplaced DEF Reasons
  <2> QED  BY <1>3, <2>1, <2>2, RewriteTyped
<1>14. ASSUME NEW e \in Entries, Edit(e)
       PROVE  BackendTyped'
  <2>1. PICK text \in 1..3 : Rewrite([jsonFile EXCEPT ![e].text = text])
    BY <1>14 DEF Edit
  <2>2. /\ edits' \in 0..MaxEdits
        /\ UNCHANGED <<staging, marker, hasKey, migration, loaded, window, jobs>>
    BY <1>2, <1>14 DEF Edit
  <2>3. [jsonFile EXCEPT ![e].text = text] \in Rows
    BY <1>3, RowsTyped
  <2> QED  BY <1>3, <2>1, <2>2, <2>3, RewriteTyped
<1>15. ASSUME NEW e \in Entries, Approve(e)
       PROVE  BackendTyped'
  <2>1. /\ edits' \in 0..MaxEdits
        /\ UNCHANGED <<dbFile, dbWal, staging, marker, hasKey, migration, loaded, window, jobs>>
    BY <1>2, <1>15 DEF Approve
  <2>2. PICK rows \in Rows : rows = Valid(jsonFile)
    BY <1>3, RowsTyped
  <2>3. CASE Present(rows, e)
    BY <1>15, <2>1, <2>2, <2>3 DEF Approve, BackendTyped, BackendTypeOK
  <2>4. CASE ~Present(rows, e)
    <3>1. PICK text \in 1..3 :
             jsonFile' = [rows EXCEPT ![e] = [NoRows[e] EXCEPT !.status = "current", !.text = text]]
      BY <1>15, <2>2, <2>4 DEF Approve
    <3>2. PICK r \in RowType : r = [NoRows[e] EXCEPT !.status = "current", !.text = text]
      <4>1. text \in Nat
        OBVIOUS
      <4> QED  BY <4>1, NewRowsTyped
    <3>3. jsonFile' \in Rows
      BY <3>1, <3>2, RowsAre
    <3> QED  BY <2>1, <3>3 DEF BackendTyped, BackendTypeOK
  <2> QED  BY <2>3, <2>4
<1>16. ASSUME NEW e \in Entries, TimePasses(e)
       PROVE  BackendTyped'
  <2>1. /\ window' = [window EXCEPT ![e] = IF @ = "ahead" THEN "open" ELSE "past"]
        /\ edits' \in 0..MaxEdits
        /\ UNCHANGED <<jsonFile, dbFile, dbWal, staging, marker, hasKey, migration, loaded, jobs>>
    BY <1>2, <1>16 DEF TimePasses
  <2>2. window' \in [Entries -> Windows]
    BY <2>1 DEF BackendTyped, BackendTypeOK, Windows
  <2> QED  BY <2>1, <2>2 DEF BackendTyped, BackendTypeOK
<1> QED  BY <1>4, <1>5, <1>6, <1>7, <1>8, <1>9, <1>10, <1>11, <1>12, <1>13, <1>14, <1>15, <1>16
        DEF BackendNext

LEMMA BackendTypes == BackendSpec => []BackendTypeOK
<1>1. BackendInit => BackendTyped
  <2> SUFFICES ASSUME BackendInit  PROVE BackendTyped
    OBVIOUS
  <2>1. PICK text, odd, shape : /\ jsonFile = Fresh(text, odd, shape) /\ shape \in Shape
                                /\ \A e \in Entries : text[e] \in Nat
    BY BackendStarts
  <2>2. ASSUME NEW e \in Entries
        PROVE  jsonFile[e] \in RowType
    <3>1. CASE \A d \in Entries : d <= e
      <4>1. jsonFile[e] = NoRows[e]
        BY <2>1, <3>1 DEF Fresh
      <4> QED  BY <4>1, NewRowsTyped, RowsAre
    <3>2. CASE ~(\A d \in Entries : d <= e)
      <4>1. PICK s : s = IF e \in odd THEN shape ELSE "plain"
        OBVIOUS
      <4>2. jsonFile[e] = [status |-> "current", text |-> text[e], by |-> 0, reason |-> "none",
                           shape |-> s]
        BY <2>1, <3>2, <4>1 DEF Fresh
      <4>3. s \in Shape /\ text[e] \in Nat
        BY <2>1, <4>1 DEF Shape
      <4> QED  BY <4>2, <4>3 DEF RowType, Status, Reasons
    <3> QED  BY <3>1, <3>2
  <2>3. jsonFile \in Rows
    <3>1. jsonFile = [e \in Entries |-> jsonFile[e]]
      BY <2>1 DEF Fresh
    <3> QED  BY <2>2, <3>1, RowsAre
  <2>4. hasKey \in BOOLEAN
    BY BackendStarts
  <2>5. 0 \in 0..MaxJobs /\ 0 \in 0..MaxEdits
    BY BackendAssumption DEF BackendAssumption
  <2>6. window \in [Entries -> Windows]
    BY BackendStarts
  <2> QED  BY <2>3, <2>4, <2>5, <2>6 DEF BackendInit, BackendTyped, BackendTypeOK
<1>2. BackendTyped /\ [BackendNext]_backendVars => BackendTyped'
  <2> SUFFICES ASSUME BackendTyped, [BackendNext]_backendVars  PROVE BackendTyped'
    OBVIOUS
  <2>1. CASE UNCHANGED backendVars
    BY <2>1 DEF backendVars, BackendTyped, BackendTypeOK
  <2> QED  BY <2>1, BackendStaysTyped
<1>3. BackendTyped => BackendTypeOK
  BY DEF BackendTyped
<1> QED  BY <1>1, <1>2, <1>3, PTL DEF BackendSpec

-----------------------------------------------------------------------------
(* The instance.  The components share no variable, so whichever one moves *)
(* the others stutter: a behaviour of MCStoreInputs is one of each, and    *)
(* all that is proved of a component holds in it (InputsSpec).             *)
LEMMA InputsCompose == InputsSpec => Spec /\ BackendSpec /\ QueueSpec /\ IngestSpec
<1>1. InputsInit => Init /\ BackendInit /\ QueueInit /\ IngestInit
  BY DEF InputsInit
<1>2. [InputsNext]_inputVars =>
         /\ [Next]_vars /\ [BackendNext]_backendVars
         /\ [QueueNext]_queueVars /\ [IngestNext]_ingestVars
  BY DEF InputsNext, inputVars
<1> QED  BY <1>1, <1>2, PTL DEF InputsSpec, Spec, BackendSpec, QueueSpec, IngestSpec

(* The batches, both backends, the queue and the log of turns only ever    *)
(* hold what their types admit, whichever tools run (MCStoreInputs).       *)
THEOREM InputsTyped == InputsSpec => []InputsTypeOK
<1>1. BTypeOK /\ BackendTypeOK /\ QueueTypeOK /\ IngestTypeOK => InputsTypeOK
  BY DEF InputsTypeOK
<1> QED  BY <1>1, InputsCompose, BatchTypes, BackendTypes, QueueTypes, IngestTypes, PTL
=============================================================================
