------------------------- MODULE StoreOutputsProofs -------------------------
(***************************************************************************)
(* What is made from the store, each component proved about by itself, for *)
(* every value of its constants: the files derived from facts.json beside  *)
(* the purge (for any commands, facts and writes), the Explorer, and the   *)
(* insights with their lineage (for any store that can be read).           *)
(*                                                                         *)
(* The argument, for the derived files.  Every publication, and every purge*)
(* of insights.json, gives the file a new identity, so an unchanged        *)
(* identity means that nothing was published since it was noted            *)
(* (NotedOutput); and from the comparison to the publication the lock keeps*)
(* every other publisher out (Locked), though not a purge, which changes   *)
(* the identity again.  A purge that was alone throughout finds every file *)
(* as it planned, so what it has swept so far is clean, and nobody writes  *)
(* the removed back into it.                                               *)
(***************************************************************************)
EXTENDS DerivedFiles, Explorer, InsightLineage, Inductions, SequenceTheorems,
        FunctionTheorems, TLAPS

Working(p) == at[p] \in {"noted", "read", "built"}

Publishing(p) == at[p] \in {"compared", "checked"}

Shape ==
    /\ DOMAIN at = Writers /\ at = [p \in Writers |-> at[p]]
    /\ DOMAIN kept = Writers /\ kept = [p \in Writers |-> kept[p]]
    /\ insightsIs \in [id : Nat, pubs : Nat]

HoldsOutput(m) == "output" \in DOMAIN m /\ m.output \in [id : Nat, pubs : Nat]

NotedOutput ==
    \A p \in Writers : Working(p) =>
        /\ HoldsOutput(kept[p])
        /\ kept[p].output.id <= insightsIs.id
        /\ kept[p].output.id = insightsIs.id => kept[p].output.pubs = insightsIs.pubs

Locked ==
    \A p \in Writers : Publishing(p) =>
        outLock = p /\ kept[p].output.pubs = insightsIs.pubs

SynthesisInv == Shape /\ NotedOutput /\ Locked

-----------------------------------------------------------------------------
(* What a step of p leaves alone: the place and memory of everybody else.  *)
LEMMA OthersSame ==
    ASSUME Shape, NEW p \in Writers, NEW place, NEW memory,
           \/ Proceed(p, place, memory)
           \/ Begin(p, place, memory)
    PROVE  /\ at' = [at EXCEPT ![p] = place] /\ DOMAIN at' = Writers
           /\ at' = [q \in Writers |-> at'[q]]
           /\ DOMAIN kept' = Writers /\ kept' = [q \in Writers |-> kept'[q]]
           /\ at'[p] = place
           /\ place # "idle" => kept'[p] = memory
           /\ \A q \in Writers : q # p => at'[q] = at[q] /\ kept'[q] = kept[q]
  BY DEF Shape, Proceed, Begin

(* A step of p that publishes nothing. *)
LEMMA StepKeeps ==
    ASSUME SynthesisInv, NEW p \in Writers, NEW place, NEW memory,
           \/ Proceed(p, place, memory)
           \/ Begin(p, place, memory),
           insightsIs' \in [id : Nat, pubs : Nat],
           insightsIs'.pubs = insightsIs.pubs, insightsIs.id <= insightsIs'.id,
           \A q \in Writers : q # p /\ outLock = q => outLock' = q,
           place \in {"noted", "read", "built"} =>
               /\ HoldsOutput(memory)
               /\ memory.output.id <= insightsIs'.id
               /\ memory.output.id = insightsIs'.id => memory.output.pubs = insightsIs'.pubs,
           place \in {"compared", "checked"} =>
               outLock' = p /\ memory.output.pubs = insightsIs'.pubs
    PROVE  SynthesisInv'
<1>1. Shape
  BY DEF SynthesisInv
<1>2. at'[p] = place /\ (place # "idle" => kept'[p] = memory)
  BY <1>1, OthersSame
<1>3. \A q \in Writers : q # p => at'[q] = at[q] /\ kept'[q] = kept[q]
  BY <1>1, OthersSame
<1>4. Shape'
  BY <1>1, OthersSame DEF Shape
<1>5. NotedOutput'
  <2> SUFFICES ASSUME NEW q \in Writers, Working(q)'
               PROVE  /\ HoldsOutput(kept'[q])
                      /\ kept'[q].output.id <= insightsIs'.id
                      /\ kept'[q].output.id = insightsIs'.id => kept'[q].output.pubs = insightsIs'.pubs
    BY DEF NotedOutput, HoldsOutput
  <2>1. CASE q = p
    <3>1. place \in {"noted", "read", "built"}
      BY <1>2, <2>1 DEF Working
    <3>2. kept'[q] = memory
      BY <1>2, <2>1, <3>1
    <3> QED  BY <3>1, <3>2
  <2>2. CASE q # p
    <3>1. Working(q) /\ kept'[q] = kept[q]
      BY <1>3, <2>2 DEF Working
    <3>2. /\ HoldsOutput(kept[q]) /\ kept[q].output.id <= insightsIs.id
          /\ kept[q].output.id = insightsIs.id => kept[q].output.pubs = insightsIs.pubs
      BY <3>1 DEF SynthesisInv, NotedOutput
    <3>3. kept[q].output.id \in Nat /\ insightsIs.id \in Nat /\ insightsIs'.id \in Nat
      BY <1>1, <3>2 DEF Shape, HoldsOutput
    <3> QED  BY <3>1, <3>2, <3>3
  <2> QED  BY <2>1, <2>2
<1>6. Locked'
  <2> SUFFICES ASSUME NEW q \in Writers, Publishing(q)'
               PROVE  outLock' = q /\ kept'[q].output.pubs = insightsIs'.pubs
    BY DEF Locked
  <2>1. CASE q = p
    BY <1>2, <2>1 DEF Publishing
  <2>2. CASE q # p
    BY <1>3, <2>2 DEF SynthesisInv, Locked, Publishing
  <2> QED  BY <2>1, <2>2
<1> QED  BY <1>4, <1>5, <1>6 DEF SynthesisInv

LEMMA SynthesizeKeeps ==
    ASSUME SynthesisInv, NEW p \in Writers,
           NoteOutput(p) \/ ReadSources(p) \/ Synthesize(p) \/ Compare(p) \/ Outpaced(p) \/ CheckSources(p)
    PROVE  SynthesisInv'
<1>1. insightsIs' = insightsIs /\ insightsIs \in [id : Nat, pubs : Nat]
  BY DEF NoteOutput, ReadSources, Synthesize, Compare, Outpaced, CheckSources, FilesSame,
         SynthesisInv, Shape
<1>2. insightsIs.id \in Nat
  BY <1>1
<1>3. CASE NoteOutput(p)
  <2> DEFINE memory == [Nothing EXCEPT !.output = insightsIs]
  <2>1. HoldsOutput(memory) /\ memory.output = insightsIs
    BY <1>1 DEF HoldsOutput, Nothing
  <2>2. Begin(p, "noted", memory) /\ outLock' = outLock
    BY <1>3 DEF NoteOutput
  <2> HIDE DEF memory
  <2> QED  BY <1>1, <1>2, <2>1, <2>2, StepKeeps
<1>4. CASE ReadSources(p)
  <2> DEFINE memory == [kept[p] EXCEPT !.facts = listed, !.bytes = bytes]
  <2>1. Proceed(p, "read", memory) /\ outLock' = outLock /\ Working(p)
    BY <1>4 DEF ReadSources, Working
  <2>2. HoldsOutput(kept[p])
    BY <2>1 DEF SynthesisInv, NotedOutput
  <2>3. HoldsOutput(memory) /\ memory.output = kept[p].output
    BY <2>2 DEF HoldsOutput
  <2> HIDE DEF memory
  <2>4. /\ memory.output.id <= insightsIs.id
        /\ memory.output.id = insightsIs.id => memory.output.pubs = insightsIs.pubs
    BY <2>1, <2>3 DEF SynthesisInv, NotedOutput
  <2> QED  BY <1>1, <1>2, <2>1, <2>3, <2>4, StepKeeps
<1>5. CASE Synthesize(p)
  <2>1. PICK cites : Proceed(p, "built", [kept[p] EXCEPT !.cites = cites])
    BY <1>5 DEF Synthesize
  <2> DEFINE memory == [kept[p] EXCEPT !.cites = cites]
  <2>2. Proceed(p, "built", memory) /\ outLock' = outLock /\ Working(p)
    BY <1>5, <2>1 DEF Synthesize, Working
  <2>3. HoldsOutput(kept[p])
    BY <2>2 DEF SynthesisInv, NotedOutput
  <2>4. HoldsOutput(memory) /\ memory.output = kept[p].output
    BY <2>3 DEF HoldsOutput
  <2> HIDE DEF memory
  <2>5. /\ memory.output.id <= insightsIs.id
        /\ memory.output.id = insightsIs.id => memory.output.pubs = insightsIs.pubs
    BY <2>2, <2>4 DEF SynthesisInv, NotedOutput
  <2> QED  BY <1>1, <1>2, <2>2, <2>4, <2>5, StepKeeps
<1>6. CASE Compare(p)
  <2>1. Proceed(p, "compared", kept[p]) /\ outLock' = p /\ outLock = Nobody /\ Working(p)
        /\ insightsIs.id = kept[p].output.id
    BY <1>6 DEF Compare, Working
  <2>2. kept[p].output.pubs = insightsIs.pubs
    BY <2>1 DEF SynthesisInv, NotedOutput
  <2>3. \A q \in Writers : outLock # q
    BY <2>1, DerivedAssumption DEF DerivedAssumption
  <2> QED  BY <1>1, <1>2, <2>1, <2>2, <2>3, StepKeeps
<1>7. CASE Outpaced(p)
  <2>1. Proceed(p, "idle", Nothing) /\ outLock' = outLock
    BY <1>7 DEF Outpaced
  <2> QED  BY <1>1, <1>2, <2>1, StepKeeps
<1>8. CASE CheckSources(p)
  <2>1. outLock = p /\ kept[p].output.pubs = insightsIs.pubs
    BY <1>8 DEF CheckSources, SynthesisInv, Locked, Publishing
  <2>2. CASE bytes = kept[p].bytes
    <3>1. Proceed(p, "checked", kept[p]) /\ outLock' = outLock
      BY <1>8, <2>2 DEF CheckSources
    <3> QED  BY <1>1, <1>2, <2>1, <3>1, StepKeeps
  <2>3. CASE bytes # kept[p].bytes
    <3>1. Proceed(p, "idle", Nothing)
      BY <1>8, <2>3 DEF CheckSources
    <3> QED  BY <1>1, <1>2, <2>1, <3>1, StepKeeps
  <2> QED  BY <2>2, <2>3
<1> QED  BY <1>3, <1>4, <1>5, <1>6, <1>7, <1>8

(* The publication itself: whoever still works on older insights will find *)
(* their identity changed, and nobody else holds the lock.                 *)
LEMMA PublishKeeps ==
    ASSUME SynthesisInv, NEW p \in Writers, Publish(p)
    PROVE  SynthesisInv'
<1>1. Shape /\ Proceed(p, "idle", Nothing)
  BY DEF SynthesisInv, Publish
<1>2. insightsIs.id \in Nat /\ insightsIs.pubs \in Nat
  BY <1>1 DEF Shape
<1>3. insightsIs' = [id |-> insightsIs.id + 1, pubs |-> insightsIs.pubs + 1]
  BY DEF Publish
<1>4. at'[p] = "idle" /\ \A q \in Writers : q # p => at'[q] = at[q] /\ kept'[q] = kept[q]
  BY <1>1, OthersSame
<1>5. Shape'
  BY <1>1, <1>2, <1>3, OthersSame DEF Shape
<1>6. NotedOutput'
  <2> SUFFICES ASSUME NEW q \in Writers, Working(q)'
               PROVE  /\ HoldsOutput(kept'[q])
                      /\ kept'[q].output.id <= insightsIs'.id
                      /\ kept'[q].output.id # insightsIs'.id
    BY DEF NotedOutput, HoldsOutput
  <2>1. Working(q) /\ kept'[q] = kept[q]
    BY <1>4 DEF Working
  <2>2. HoldsOutput(kept[q]) /\ kept[q].output.id <= insightsIs.id
    BY <2>1 DEF SynthesisInv, NotedOutput
  <2>3. kept[q].output.id \in Nat
    BY <2>2 DEF HoldsOutput
  <2> QED  BY <1>2, <1>3, <2>1, <2>2, <2>3
<1>7. Locked'
  <2> SUFFICES ASSUME NEW q \in Writers, Publishing(q)'
               PROVE  FALSE
    BY DEF Locked
  <2>1. q # p /\ Publishing(q)
    BY <1>4 DEF Publishing
  <2>2. outLock = q /\ outLock = p
    BY <2>1 DEF SynthesisInv, Locked, Publishing, Publish
  <2> QED  BY <2>1, <2>2
<1> QED  BY <1>5, <1>6, <1>7 DEF SynthesisInv

LEMMA ExportKeeps ==
    ASSUME SynthesisInv, NEW p \in Writers,
           \/ ExportRead(p) \/ WriteGraph(p) \/ WriteVectors(p)
           \/ WriteFactNotes(p) \/ WriteEntityNotes(p)
    PROVE  SynthesisInv'
<1>1. /\ insightsIs' = insightsIs /\ outLock' = outLock
      /\ \E place \in {"graph", "vectors", "mirrors", "links", "idle"}, memory \in {[Nothing EXCEPT !.facts = listed], kept[p], Nothing} :
             Begin(p, place, memory) \/ Proceed(p, place, memory)
  BY DEF ExportRead, WriteGraph, WriteVectors, WriteFactNotes, WriteEntityNotes, FilesSame
<1>2. insightsIs \in [id : Nat, pubs : Nat] /\ insightsIs.id \in Nat
  BY DEF SynthesisInv, Shape
<1>3. PICK place \in {"graph", "vectors", "mirrors", "links", "idle"} :
         \E memory : Begin(p, place, memory) \/ Proceed(p, place, memory)
  BY <1>1
<1>4. PICK memory : Begin(p, place, memory) \/ Proceed(p, place, memory)
  BY <1>3
<1> QED  BY <1>1, <1>2, <1>3, <1>4, StepKeeps

LEMMA PurgeKeeps ==
    ASSUME SynthesisInv, NEW p \in Writers,
           \/ PlanPurge(p) \/ PurgeSidecar(p) \/ PlanInsights(p) \/ PlanGraph(p)
           \/ PurgeStore(p) \/ AppendTombstones(p) \/ Sweep(p) \/ Unlink(p) \/ EndPurge(p) \/ Exit(p)
    PROVE  SynthesisInv'
<1> DEFINE Elsewhere == Places \ {"noted", "read", "built", "compared", "checked"}
<1>1. insightsIs \in [id : Nat, pubs : Nat] /\ insightsIs.id \in Nat /\ insightsIs.pubs \in Nat
  BY DEF SynthesisInv, Shape
<1>2. outLock' = outLock
  BY DEF PlanPurge, PurgeSidecar, PlanInsights, PlanGraph, PurgeStore, AppendTombstones,
         Sweep, Unlink, EndPurge, Exit, FilesSame
<1>3. /\ insightsIs' \in [id : Nat, pubs : Nat]
      /\ insightsIs'.pubs = insightsIs.pubs /\ insightsIs.id <= insightsIs'.id
  <2>1. insightsIs' = insightsIs \/ insightsIs' = [insightsIs EXCEPT !.id = @ + 1]
    BY DEF PlanPurge, PurgeSidecar, PlanInsights, PlanGraph, PurgeStore, AppendTombstones,
           Sweep, Unlink, EndPurge, Exit, FilesSame
  <2> QED  BY <1>1, <2>1
<1>4. \E place \in Elsewhere : \E memory : Begin(p, place, memory) \/ Proceed(p, place, memory)
  <2>1. CASE PlanPurge(p)
    BY <2>1 DEF PlanPurge, Places
  <2>2. CASE PurgeSidecar(p) \/ PlanInsights(p) \/ PlanGraph(p)
    BY <2>2 DEF PurgeSidecar, PlanInsights, PlanGraph, Places
  <2>3. CASE PurgeStore(p) \/ AppendTombstones(p) \/ EndPurge(p) \/ Exit(p)
    BY <2>3 DEF PurgeStore, AppendTombstones, EndPurge, Exit, Places
  <2>4. CASE Sweep(p) \/ Unlink(p)
    BY <2>4 DEF Sweep, Unlink, Places
  <2> QED  BY <2>1, <2>2, <2>3, <2>4
<1>5. PICK place \in Elsewhere : \E memory : Begin(p, place, memory) \/ Proceed(p, place, memory)
  BY <1>4
<1>6. PICK memory : Begin(p, place, memory) \/ Proceed(p, place, memory)
  BY <1>5
<1> QED  BY <1>1, <1>2, <1>3, <1>6, StepKeeps

LEMMA OtherKeeps ==
    ASSUME SynthesisInv
    PROVE  /\ \A p \in Writers : Killed(p) => SynthesisInv'
           /\ \A i \in FactIds : AddFact(i) => SynthesisInv'
           /\ UNCHANGED derivedVars => SynthesisInv'
<1>1. insightsIs \in [id : Nat, pubs : Nat] /\ insightsIs.id \in Nat
  BY DEF SynthesisInv, Shape
<1>2. ASSUME NEW p \in Writers, Killed(p)
      PROVE  SynthesisInv'
  <2>1. Proceed(p, "idle", Nothing) /\ insightsIs' = insightsIs
        /\ \A q \in Writers : q # p /\ outLock = q => outLock' = q
    BY <1>2 DEF Killed, FilesSame
  <2> QED  BY <1>1, <2>1, StepKeeps
<1>3. ASSUME UNCHANGED <<insightsIs, outLock, at, kept>>
      PROVE  SynthesisInv'
  BY <1>3 DEF SynthesisInv, Shape, NotedOutput, HoldsOutput, Locked, Working, Publishing
<1>4. ASSUME NEW i \in FactIds, AddFact(i)
      PROVE  SynthesisInv'
  BY <1>3, <1>4 DEF AddFact
<1>5. UNCHANGED derivedVars => SynthesisInv'
  BY <1>3 DEF derivedVars
<1> QED  BY <1>2, <1>4, <1>5

-----------------------------------------------------------------------------
(* The invariant of publish_insights beside the exporters and purges.      *)
THEOREM SynthesisInductive == DerivedSpec => []SynthesisInv
<1>1. DerivedInit => SynthesisInv
  BY DEF DerivedInit, SynthesisInv, Shape, NotedOutput, Locked, Working, Publishing
<1>2. ASSUME SynthesisInv, [DerivedNext]_derivedVars
      PROVE  SynthesisInv'
  <2>1. ASSUME NEW p \in Writers, DerivedStep(p)
        PROVE  SynthesisInv'
    BY <1>2, <2>1, SynthesizeKeeps, PublishKeeps, ExportKeeps, PurgeKeeps, OtherKeeps
       DEF DerivedStep
  <2> QED  BY <1>2, <2>1, OtherKeeps DEF DerivedNext
<1> QED  BY <1>1, <1>2, PTL DEF DerivedSpec

(* "A slow stale generation cannot replace an intervening publication"     *)
(* (publish_insights), whoever else runs, purges, exports or dies.         *)
THEOREM NewerKept == DerivedSpec => NewerSynthesisKept
<1>1. ASSUME SynthesisInv, [DerivedNext]_derivedVars
      PROVE  [Publication => \E p \in Writers : /\ at[p] = "checked"
                                               /\ kept[p].output.pubs = insightsIs.pubs]_derivedVars
  <2>1. SUFFICES ASSUME DerivedNext, Publication
                 PROVE  \E p \in Writers : /\ at[p] = "checked"
                                           /\ kept[p].output.pubs = insightsIs.pubs
    BY <1>1
  <2>2. insightsIs \in [id : Nat, pubs : Nat]
    BY <1>1 DEF SynthesisInv, Shape
  <2>3. ASSUME NEW p \in Writers, DerivedStep(p)
        PROVE  Publish(p)
    BY <2>1, <2>2, <2>3 DEF DerivedStep, Publication, FilesSame, NoteOutput, ReadSources, Synthesize,
       Compare, Outpaced, CheckSources, ExportRead, WriteGraph, WriteVectors, WriteFactNotes,
       WriteEntityNotes, PlanPurge, PurgeSidecar, PlanInsights, PlanGraph, PurgeStore,
       AppendTombstones, Sweep, Unlink, EndPurge, Exit, Killed
  <2>4. PICK p \in Writers : Publish(p)
    BY <2>1, <2>3 DEF DerivedNext, AddFact, Publication
  <2>5. at[p] = "checked" /\ kept[p].output.pubs = insightsIs.pubs
    BY <1>1, <2>4 DEF Publish, SynthesisInv, Locked, Publishing
  <2> QED  BY <2>5
<1> QED  BY <1>1, SynthesisInductive, PTL DEF DerivedSpec, NewerSynthesisKept

-----------------------------------------------------------------------------
(* The types, with that of what a process holds in memory.                 *)
Memory ==
    [facts : SUBSET FactIds, bytes : Nat, output : [id : Nat, pubs : Nat],
     cites : SUBSET FactIds, gone : SUBSET FactIds, pattern : SUBSET FactIds,
     mirrors : SUBSET FactIds, cut : [Files -> SUBSET FactIds],
     plan : [Files -> SUBSET FactIds], next : 1..6, failed : BOOLEAN]

(* All but a purge that is unlinking mirrors have a file left to sweep.    *)
Fits(place, m) ==
    /\ m \in Memory
    /\ place \notin {"unlinking", "purged"} => m.next \in 1..5

TypeInv ==
    /\ DerivedTypeOK
    /\ kept \in [Writers -> Memory]
    /\ \A p \in Writers : Fits(at[p], kept[p])

Moves(p, place, memory) ==
    \/ Proceed(p, place, memory)
    \/ Begin(p, place, memory) /\ writes' = writes

LEMMA FilesAre ==
    /\ Files = {"events", "notes", "links", "insights", "graph", "vectors", "mirrors"}
    /\ Len(Swept) = 5 /\ DOMAIN Swept = 1..5
    /\ \A k \in 1..5 : Swept[k] \in Files \ {"vectors", "mirrors"}
    /\ \A k, j \in 1..5 : Swept[k] = Swept[j] => k = j
<1>1. Len(Swept) = 5 /\ DOMAIN Swept = 1..5
  BY DEF Swept
<1>2. 1..5 = {1, 2, 3, 4, 5}
  OBVIOUS
<1>3. /\ Swept[1] = "events" /\ Swept[2] = "notes" /\ Swept[3] = "links"
      /\ Swept[4] = "insights" /\ Swept[5] = "graph"
  BY DEF Swept
<1>4. {Swept[n] : n \in DOMAIN Swept} = {"events", "notes", "links", "insights", "graph"}
  BY <1>1, <1>2, <1>3
<1>5. Files = {"events", "notes", "links", "insights", "graph", "vectors", "mirrors"}
  BY <1>4 DEF Files
<1>6. \A k \in 1..5 : Swept[k] \in Files \ {"vectors", "mirrors"}
  BY <1>2, <1>3, <1>5
<1>7. \A k, j \in 1..5 : Swept[k] = Swept[j] => k = j
  BY <1>2, <1>3
<1> QED  BY <1>1, <1>5, <1>6, <1>7

(* What a process may hold at a place.                                     *)
LEMMA NothingFits == \A place : Fits(place, Nothing)
  BY DEF Nothing, Memory, Fits

LEMMA MemoryFits ==
    ASSUME NEW m \in Memory
    PROVE  /\ m.next \in 1..5 => \A place : Fits(place, m)
           /\ Fits("unlinking", m) /\ Fits("purged", m)
           /\ m.facts \subseteq FactIds /\ m.gone \subseteq FactIds
           /\ m.cites \subseteq FactIds /\ m.mirrors \subseteq FactIds
           /\ m.cut \in [Files -> SUBSET FactIds] /\ m.plan \in [Files -> SUBSET FactIds]
           /\ m.next \in 1..6 /\ m.failed \in BOOLEAN
  BY DEF Memory, Fits

LEMMA MemoryChanged ==
    ASSUME NEW m \in Memory
    PROVE  /\ \A S \in SUBSET FactIds : [m EXCEPT !.facts = S] \in Memory
           /\ \A S \in SUBSET FactIds : [m EXCEPT !.facts = S].next = m.next
           /\ \A S \in SUBSET FactIds :
                 /\ [m EXCEPT !.cites = S] \in Memory
                 /\ [m EXCEPT !.cites = S].next = m.next
           /\ \A o \in [id : Nat, pubs : Nat] : /\ [m EXCEPT !.output = o] \in Memory
                                                   /\ [m EXCEPT !.output = o].next = m.next
           /\ \A i, d : [m EXCEPT !.mirrors = @ \ {i}, !.failed = @ \/ ~d] \in Memory
<1>1. \A d : (m.failed \/ ~d) \in BOOLEAN
  OBVIOUS
<1> QED  BY <1>1 DEF Memory

(* A process goes on, or begins, with what fits the place.                 *)
LEMMA StepType ==
    ASSUME TypeInv, NEW p \in Writers, NEW place \in Places, NEW memory,
           Fits(place, memory), Moves(p, place, memory),
           listed' \subseteq FactIds, tombs' \subseteq FactIds, bytes' \in Nat,
           names' \in [Files -> SUBSET FactIds], insightsIs' \in [id : Nat, pubs : Nat],
           outLock' \in Writers \cup {Nobody}
    PROVE  TypeInv'
<1>1. /\ at \in [Writers -> Places] /\ kept \in [Writers -> Memory] /\ raced \in BOOLEAN
      /\ runs \in 0..MaxRuns /\ writes \in 0..MaxWrites /\ MaxRuns \in Nat
  BY DerivedAssumption DEF TypeInv, DerivedTypeOK, DerivedAssumption
<1>2. at' = [at EXCEPT ![p] = place]
  BY DEF Moves, Proceed, Begin
<1>3. kept' = [kept EXCEPT ![p] = memory] \/ kept' = [kept EXCEPT ![p] = Nothing]
  BY DEF Moves, Proceed, Begin
<1>4. at' \in [Writers -> Places] /\ kept' \in [Writers -> Memory]
  BY <1>1, <1>2, <1>3, NothingFits DEF Fits
<1>5. \A q \in Writers : Fits(at'[q], kept'[q])
  BY <1>1, <1>2, <1>3, NothingFits DEF TypeInv
<1>6. runs' \in 0..MaxRuns /\ writes' \in 0..MaxWrites
  BY <1>1 DEF Moves, Proceed, Begin
<1>7. raced' \in BOOLEAN
  BY <1>1, Zenon DEF Moves, Proceed, Begin
<1> QED  BY <1>1, <1>4, <1>5, <1>6, <1>7 DEF TypeInv, DerivedTypeOK

(* The steps that change no file but perhaps the lock.                     *)
LEMMA QuietType ==
    ASSUME TypeInv, NEW p \in Writers,
           NoteOutput(p) \/ ReadSources(p) \/ Synthesize(p) \/ Compare(p) \/ Outpaced(p)
              \/ CheckSources(p) \/ ExportRead(p) \/ EndPurge(p) \/ Exit(p) \/ Killed(p)
    PROVE  TypeInv'
<1> USE DEF Moves
<1>1. /\ kept[p] \in Memory /\ listed \subseteq FactIds /\ bytes \in Nat /\ tombs \subseteq FactIds
      /\ insightsIs \in [id : Nat, pubs : Nat] /\ names \in [Files -> SUBSET FactIds]
  BY DEF TypeInv, DerivedTypeOK
<1>2. /\ listed' = listed /\ tombs' = tombs /\ bytes' = bytes /\ names' = names
      /\ insightsIs' = insightsIs /\ outLock' \in Writers \cup {Nobody}
  BY DEF NoteOutput, ReadSources, Synthesize, Compare, Outpaced, CheckSources, ExportRead,
         EndPurge, Exit, Killed, TypeInv, DerivedTypeOK, FilesSame
<1>3. at[p] \notin {"unlinking", "purged"} => kept[p].next \in 1..5
  BY DEF TypeInv, Fits
<1>4. Nothing \in Memory /\ Nothing.next = 1
  BY NothingFits DEF Nothing, Fits
<1>5. \E place \in Places : \E memory : Fits(place, memory) /\ Moves(p, place, memory)
  <2>1. CASE NoteOutput(p)
    <3> DEFINE memory == [Nothing EXCEPT !.output = insightsIs]
    <3>1. memory \in Memory /\ memory.next = 1
      BY <1>1, <1>4, MemoryChanged
    <3>2. Fits("noted", memory)
      BY <3>1 DEF Fits
    <3> QED  BY <2>1, <3>2 DEF NoteOutput, Places
  <2>2. CASE ReadSources(p)
    <3> DEFINE memory == [kept[p] EXCEPT !.facts = listed, !.bytes = bytes]
    <3>1. memory \in Memory /\ memory.next = kept[p].next
      BY <1>1 DEF Memory
    <3>2. Fits("read", memory)
      BY <1>3, <2>2, <3>1 DEF Fits, ReadSources
    <3> QED  BY <2>2, <3>2 DEF ReadSources, Places
  <2>3. CASE Synthesize(p)
    <3>1. PICK cites \in SUBSET kept[p].facts :
             Proceed(p, "built", [kept[p] EXCEPT !.cites = cites])
      BY <2>3 DEF Synthesize
    <3>2. cites \in SUBSET FactIds
      BY <1>1, MemoryFits
    <3>3. Fits("built", [kept[p] EXCEPT !.cites = cites])
      BY <1>1, <1>3, <2>3, <3>2, MemoryChanged, MemoryFits DEF Synthesize
    <3> QED  BY <3>1, <3>3 DEF Places
  <2>4. CASE Compare(p) \/ CheckSources(p)
    <3>1. Fits("compared", kept[p]) /\ Fits("checked", kept[p]) /\ Fits("idle", Nothing)
      BY <1>1, <1>3, <2>4, MemoryFits, NothingFits DEF Compare, CheckSources
    <3> QED  BY <2>4, <3>1 DEF Compare, CheckSources, Places
  <2>5. CASE ExportRead(p)
    <3> DEFINE memory == [Nothing EXCEPT !.facts = listed]
    <3>1. memory \in Memory /\ memory.next = 1
      BY <1>1, <1>4, MemoryChanged
    <3>2. \A file : Fits(file, memory)
      BY <3>1 DEF Fits
    <3> QED  BY <2>5, <3>2 DEF ExportRead, Places
  <2>6. CASE EndPurge(p)
    BY <1>1, <2>6, MemoryFits DEF EndPurge, Places
  <2>7. CASE Outpaced(p) \/ Exit(p) \/ Killed(p)
    BY <2>7, NothingFits DEF Outpaced, Exit, Killed, Places
  <2> QED  BY <2>1, <2>2, <2>3, <2>4, <2>5, <2>6, <2>7
<1> QED  BY <1>1, <1>2, <1>5, StepType

(* The steps that write a derived file, the store or the tombstones.       *)
LEMMA WriteType ==
    ASSUME TypeInv, NEW p \in Writers,
           Publish(p) \/ WriteGraph(p) \/ WriteVectors(p) \/ WriteFactNotes(p)
              \/ WriteEntityNotes(p) \/ PurgeSidecar(p) \/ PurgeStore(p)
              \/ AppendTombstones(p) \/ Unlink(p)
    PROVE  TypeInv'
<1> USE DEF Moves
<1>1. /\ kept[p] \in Memory /\ listed \subseteq FactIds /\ bytes \in Nat /\ tombs \subseteq FactIds
      /\ insightsIs \in [id : Nat, pubs : Nat] /\ names \in [Files -> SUBSET FactIds]
      /\ outLock \in Writers \cup {Nobody} /\ at \in [Writers -> Places]
  BY DEF TypeInv, DerivedTypeOK
<1>2. /\ kept[p].facts \subseteq FactIds /\ kept[p].gone \subseteq FactIds
      /\ kept[p].cites \subseteq FactIds
      /\ at[p] \notin {"unlinking", "purged"} => kept[p].next \in 1..5
  BY <1>1, MemoryFits DEF TypeInv, Fits
<1>3. \A f \in Files, S \in SUBSET FactIds : [names EXCEPT ![f] = S] \in [Files -> SUBSET FactIds]
  BY <1>1
<1>4. insightsIs' \in [id : Nat, pubs : Nat]
  <2>1. CASE Publish(p)
    BY <1>1, <2>1 DEF Publish
  <2>2. CASE ~Publish(p)
    BY <1>1, <2>2 DEF WriteGraph, WriteVectors, WriteFactNotes, WriteEntityNotes,
       PurgeSidecar, PurgeStore, AppendTombstones, Unlink
  <2> QED  BY <2>1, <2>2
<1>5. bytes' \in Nat /\ listed' \subseteq FactIds
  <2>1. CASE PurgeStore(p)
    BY <1>1, <1>2, <2>1 DEF PurgeStore
  <2>2. CASE ~PurgeStore(p)
    BY <1>1, <2>2 DEF Publish, WriteGraph, WriteVectors, WriteFactNotes, WriteEntityNotes,
       PurgeSidecar, AppendTombstones, Unlink
  <2> QED  BY <2>1, <2>2
<1>6. tombs' \subseteq FactIds /\ outLock' \in Writers \cup {Nobody}
  BY <1>1, <1>2 DEF Publish, WriteGraph, WriteVectors, WriteFactNotes, WriteEntityNotes,
     PurgeSidecar, PurgeStore, AppendTombstones, Unlink
<1>7. names' \in [Files -> SUBSET FactIds]
  <2>1. \A f \in Files : names[f] \subseteq FactIds
    BY <1>1
  <2>2. CASE WriteEntityNotes(p)
    <3>1. PICK stale \in SUBSET (names["links"] \ kept[p].facts) :
             names' = [names EXCEPT !["links"] = kept[p].facts \cup stale]
      BY <2>2 DEF WriteEntityNotes
    <3>2. kept[p].facts \cup stale \subseteq FactIds
      BY <1>2, <2>1, FilesAre
    <3> QED  BY <1>3, <3>1, <3>2, FilesAre
  <2>3. CASE Unlink(p)
    <3>1. PICK i : names' = names \/ names' = [names EXCEPT !["mirrors"] = @ \ {i}]
      BY <2>3 DEF Unlink
    <3>2. names["mirrors"] \ {i} \subseteq FactIds
      BY <2>1, FilesAre
    <3> QED  BY <1>1, <1>3, <3>1, <3>2, FilesAre
  <2>4. CASE Publish(p) \/ WriteGraph(p) \/ WriteVectors(p)
    <3>1. \/ names' = [names EXCEPT !["insights"] = kept[p].cites]
          \/ names' = [names EXCEPT !["graph"] = kept[p].facts]
          \/ names' = [names EXCEPT !["vectors"] = kept[p].facts]
      BY <2>4 DEF Publish, WriteGraph, WriteVectors
    <3>2. /\ {"insights", "graph", "vectors"} \subseteq Files
          /\ kept[p].cites \in SUBSET FactIds /\ kept[p].facts \in SUBSET FactIds
      BY <1>2, FilesAre
    <3>3. PICK f \in Files, S \in SUBSET FactIds : names' = [names EXCEPT ![f] = S]
      BY <3>1, <3>2
    <3> QED  BY <1>3, <3>3
  <2>5. CASE WriteFactNotes(p)
    <3>1. names["mirrors"] \cup kept[p].facts \subseteq FactIds
      BY <1>2, <2>1, FilesAre
    <3> QED  BY <1>3, <2>5, <3>1, FilesAre DEF WriteFactNotes
  <2>6. CASE PurgeSidecar(p)
    <3>1. names["vectors"] \ kept[p].gone \subseteq FactIds
      BY <2>1, FilesAre
    <3> QED  BY <1>3, <2>6, <3>1, FilesAre DEF PurgeSidecar
  <2>7. CASE PurgeStore(p) \/ AppendTombstones(p)
    BY <1>1, <2>7 DEF PurgeStore, AppendTombstones
  <2> QED  BY <2>2, <2>3, <2>4, <2>5, <2>6, <2>7
<1>8. \E place \in Places : \E memory : Fits(place, memory) /\ Moves(p, place, memory)
  <2>1. CASE PurgeSidecar(p) \/ PurgeStore(p) \/ AppendTombstones(p) \/ WriteFactNotes(p)
    <3>1. \A place : Fits(place, kept[p])
      BY <1>1, <1>2, <2>1, MemoryFits
         DEF PurgeSidecar, PurgeStore, AppendTombstones, WriteFactNotes
    <3> QED  BY <2>1, <3>1 DEF PurgeSidecar, PurgeStore, AppendTombstones, WriteFactNotes, Places
  <2>2. CASE Publish(p) \/ WriteGraph(p) \/ WriteVectors(p) \/ WriteEntityNotes(p)
    BY <2>2, NothingFits DEF Publish, WriteGraph, WriteVectors, WriteEntityNotes, Places
  <2>3. CASE Unlink(p)
    <3>1. PICK i \in kept[p].mirrors, deleted \in BOOLEAN :
             Proceed(p, "unlinking", [kept[p] EXCEPT !.mirrors = @ \ {i},
                                                     !.failed = @ \/ ~deleted])
      BY <2>3 DEF Unlink
    <3>2. Fits("unlinking", [kept[p] EXCEPT !.mirrors = @ \ {i}, !.failed = @ \/ ~deleted])
      BY <1>1, MemoryChanged, MemoryFits
    <3> QED  BY <3>1, <3>2 DEF Places
  <2> QED  BY <2>1, <2>2, <2>3
<1> QED  BY <1>4, <1>5, <1>6, <1>7, <1>8, StepType

(* What a purge holds once it has planned.                                 *)
CutOf(i, pattern) ==
    [n \in Files |-> CASE n = "events" -> EventsOut(i, pattern)
                      [] n = "notes" -> NotesOut(i)
                      [] n = "links" -> LinksOut(i)
                      [] OTHER -> {}]

PlanningOf(p, m, i, pattern) ==
    /\ Begin(p, "planned", m)
    /\ m.next = 1 /\ m.failed = FALSE
    /\ m.gone = Removed(i) /\ m.pattern = pattern /\ m.mirrors = StaleMirrors(i)
    /\ m.cut = CutOf(i, pattern)
    /\ m.plan = [n \in Files |-> names[n] \ CutOf(i, pattern)[n]]

LEMMA Planning ==
    ASSUME TypeInv, NEW p \in Writers, PlanPurge(p)
    PROVE  \E m \in Memory, i \in FactIds, pattern \in SUBSET FactIds :
              PlanningOf(p, m, i, pattern)
<1>1. PICK i \in FactIds, byPattern \in BOOLEAN :
         LET pattern == IF byPattern THEN {i} ELSE {}
         IN  Begin(p, "planned",
                   [Nothing EXCEPT !.facts = listed, !.gone = Removed(i),
                                   !.pattern = pattern, !.mirrors = StaleMirrors(i),
                                   !.cut = CutOf(i, pattern),
                                   !.plan = [n \in Files |-> names[n] \ CutOf(i, pattern)[n]]])
  BY DEF PlanPurge, CutOf
<1> DEFINE pattern == IF byPattern THEN {i} ELSE {}
<1>2. /\ listed \subseteq FactIds /\ tombs \subseteq FactIds
      /\ \A n \in Files : names[n] \subseteq FactIds
  BY DEF TypeInv, DerivedTypeOK
<1>3. PICK P \in SUBSET FactIds : P = pattern
  OBVIOUS
<1>4. PICK F \in SUBSET FactIds : F = listed
  BY <1>2
<1>5. PICK G \in SUBSET FactIds : G = Removed(i)
  BY <1>2 DEF Removed
<1>6. PICK M \in SUBSET FactIds : M = StaleMirrors(i)
  BY <1>2, FilesAre DEF StaleMirrors
<1>7. CutOf(i, P) \in [Files -> SUBSET FactIds]
  BY <1>2, FilesAre DEF CutOf, EventsOut, NotesOut, LinksOut
<1>8. PICK C \in [Files -> SUBSET FactIds] : C = CutOf(i, P)
  BY <1>7
<1>9. PICK Q \in [Files -> SUBSET FactIds] : Q = [n \in Files |-> names[n] \ C[n]]
  <2>1. [n \in Files |-> names[n] \ C[n]] \in [Files -> SUBSET FactIds]
    BY <1>2
  <2> QED  BY <2>1
<1>10. PICK N \in Memory : N = Nothing /\ N.next = 1 /\ N.failed = FALSE
  BY NothingFits DEF Fits, Nothing
<1> DEFINE m == [N EXCEPT !.facts = F, !.gone = G, !.pattern = P,
                          !.mirrors = M, !.cut = C, !.plan = Q]
<1>11. /\ m \in Memory /\ m.next = 1 /\ m.failed = FALSE
       /\ m.gone = G /\ m.pattern = P /\ m.mirrors = M /\ m.cut = C /\ m.plan = Q
  BY <1>10 DEF Memory
<1>12. Begin(p, "planned", m)
  BY <1>1, <1>3, <1>4, <1>5, <1>6, <1>8, <1>9, <1>10
<1> HIDE DEF m
<1>13. PlanningOf(p, m, i, P)
  BY <1>5, <1>6, <1>8, <1>9, <1>11, <1>12 DEF PlanningOf
<1> QED  BY <1>11, <1>13

(* The steps that plan, and the sweep that writes what was planned.        *)
LEMMA PlanType ==
    ASSUME TypeInv, NEW p \in Writers,
           PlanPurge(p) \/ PlanInsights(p) \/ PlanGraph(p) \/ Sweep(p)
    PROVE  TypeInv'
<1> USE DEF Moves
<1>1. /\ kept[p] \in Memory /\ listed \subseteq FactIds /\ bytes \in Nat /\ tombs \subseteq FactIds
      /\ insightsIs \in [id : Nat, pubs : Nat] /\ names \in [Files -> SUBSET FactIds]
      /\ outLock \in Writers \cup {Nobody} /\ at \in [Writers -> Places]
  BY DEF TypeInv, DerivedTypeOK
<1>2. /\ kept[p].gone \subseteq FactIds
      /\ kept[p].plan \in [Files -> SUBSET FactIds] /\ kept[p].cut \in [Files -> SUBSET FactIds]
      /\ at[p] \notin {"unlinking", "purged"} => kept[p].next \in 1..5
  BY <1>1, MemoryFits DEF TypeInv, Fits
<1>3. \A f \in Files : names[f] \subseteq FactIds
  BY <1>1
<1>4. /\ listed' = listed /\ tombs' = tombs /\ bytes' = bytes /\ outLock' = outLock
  BY DEF PlanPurge, PlanInsights, PlanGraph, Sweep, FilesSame
<1>5. CASE PlanPurge(p)
  <2>1. PICK memory \in Memory : Begin(p, "planned", memory) /\ memory.next = 1
    BY <1>5, Planning DEF PlanningOf
  <2>2. writes' = writes /\ names' = names /\ insightsIs' = insightsIs
    BY <1>5 DEF PlanPurge, FilesSame
  <2>3. Fits("planned", memory) /\ "planned" \in Places
    BY <2>1 DEF Fits, Places
  <2> QED  BY <1>1, <1>4, <2>1, <2>2, <2>3, StepType
<1>6. CASE PlanInsights(p)
  <2>1. PICK out \in SUBSET names["insights"] :
           Proceed(p, "weighed", [kept[p] EXCEPT !.cut["insights"] = out,
                                                 !.plan["insights"] = names["insights"] \ out])
    BY <1>6 DEF PlanInsights
  <2> DEFINE memory == [kept[p] EXCEPT !.cut["insights"] = out,
                                       !.plan["insights"] = names["insights"] \ out]
  <2>2. out \subseteq FactIds /\ names["insights"] \ out \subseteq FactIds
    BY <1>3, FilesAre
  <2>3. memory \in Memory /\ memory.next = kept[p].next
    BY <1>1, <2>2 DEF Memory
  <2>4. Fits("weighed", memory) /\ "weighed" \in Places
    BY <1>2, <1>6, <2>3 DEF Fits, PlanInsights, Places
  <2>5. Proceed(p, "weighed", memory)
    BY <2>1
  <2>6. names' = names /\ insightsIs' = insightsIs
    BY <1>6 DEF PlanInsights, FilesSame
  <2> HIDE DEF memory
  <2> QED  BY <1>1, <1>4, <2>4, <2>5, <2>6, StepType
<1>7. CASE PlanGraph(p)
  <2> DEFINE out == names["graph"] \cap kept[p].gone
             memory == [kept[p] EXCEPT !.cut["graph"] = out,
                                       !.plan["graph"] = names["graph"] \ out]
  <2>2. out \subseteq FactIds /\ names["graph"] \ out \subseteq FactIds
    BY <1>3, FilesAre
  <2> HIDE DEF out
  <2>3. memory \in Memory /\ memory.next = kept[p].next
    BY <1>1, <2>2 DEF Memory
  <2>4. Fits("replacing", memory) /\ "replacing" \in Places
    BY <1>2, <1>7, <2>3 DEF Fits, PlanGraph, Places
  <2>5. Proceed(p, "replacing", memory)
    BY <1>7 DEF PlanGraph, out
  <2>6. names' = names /\ insightsIs' = insightsIs
    BY <1>7 DEF PlanGraph, FilesSame
  <2> HIDE DEF memory
  <2> QED  BY <1>1, <1>4, <2>4, <2>5, <2>6, StepType
<1>8. CASE Sweep(p)
  <2> DEFINE m == kept[p]
             memory == [m EXCEPT !.next = @ + 1]
             place == IF m.next = Len(Swept) THEN "unlinking" ELSE "sweeping"
  <2>1. m.next \in 1..5
    BY <1>2, <1>8 DEF Sweep
  <2>2. memory \in Memory /\ memory.next = m.next + 1
    BY <1>1, <2>1 DEF Memory
  <2>3. Fits(place, memory) /\ place \in Places
    BY <2>1, <2>2, FilesAre DEF Fits, Places
  <2>4. Proceed(p, place, memory)
    BY <1>8 DEF Sweep
  <2>5. names' = names \/ names' = [names EXCEPT ![Swept[m.next]] = m.plan[Swept[m.next]]]
    BY <1>8 DEF Sweep
  <2>6. Swept[m.next] \in Files
    BY <2>1, FilesAre
  <2>7. m.plan[Swept[m.next]] \subseteq FactIds
    BY <1>2, <2>6
  <2>8. names' \in [Files -> SUBSET FactIds]
    BY <1>1, <2>5, <2>6, <2>7
  <2>9. insightsIs' = insightsIs \/ insightsIs' = [insightsIs EXCEPT !.id = @ + 1]
    BY <1>8 DEF Sweep
  <2>10. insightsIs' \in [id : Nat, pubs : Nat]
    BY <1>1, <2>9
  <2> HIDE DEF memory, place, m
  <2> QED  BY <1>1, <1>4, <2>3, <2>4, <2>8, <2>10, StepType
<1> QED  BY <1>5, <1>6, <1>7, <1>8

(* Every command and every file is of its type.                            *)
THEOREM DerivedTypes == DerivedSpec => []TypeInv
<1>1. ASSUME DerivedInit
      PROVE  TypeInv
  <2>1. Nothing \in Memory /\ Fits("idle", Nothing)
    BY NothingFits DEF Fits
  <2>2. kept \in [Writers -> Memory] /\ \A p \in Writers : Fits(at[p], kept[p])
    BY <1>1, <2>1 DEF DerivedInit
  <2>3. /\ at \in [Writers -> Places] /\ DOMAIN kept = Writers
        /\ runs \in 0..MaxRuns /\ writes \in 0..MaxWrites
    BY <1>1, DerivedAssumption DEF DerivedInit, DerivedAssumption, Places
  <2> QED  BY <1>1, <2>2, <2>3 DEF DerivedInit, TypeInv, DerivedTypeOK
<1>2. ASSUME TypeInv, [DerivedNext]_derivedVars
      PROVE  TypeInv'
  <2>1. ASSUME NEW p \in Writers, DerivedStep(p)
        PROVE  TypeInv'
    BY <1>2, <2>1, QuietType, WriteType, PlanType DEF DerivedStep
  <2>2. ASSUME NEW i \in FactIds, AddFact(i)
        PROVE  TypeInv'
    <3>1. /\ names["events"] \cup {i} \subseteq FactIds /\ names["notes"] \cup {i} \subseteq FactIds
          /\ names \in [Files -> SUBSET FactIds]
      BY <1>2, FilesAre DEF TypeInv, DerivedTypeOK
    <3>2. names' \in [Files -> SUBSET FactIds]
      BY <2>2, <3>1 DEF AddFact
    <3>3. raced' \in BOOLEAN
      BY <1>2, <2>2, Zenon DEF TypeInv, DerivedTypeOK, AddFact
    <3>4. /\ listed' \subseteq FactIds /\ bytes' \in Nat /\ writes' \in 0..MaxWrites
      BY <1>2, <2>2, DerivedAssumption DEF TypeInv, DerivedTypeOK, AddFact, DerivedAssumption
    <3> QED  BY <1>2, <2>2, <3>2, <3>3, <3>4 DEF TypeInv, DerivedTypeOK, AddFact
  <2>3. CASE UNCHANGED derivedVars
    BY <1>2, <2>3 DEF derivedVars, TypeInv, DerivedTypeOK
  <2> QED  BY <1>2, <2>1, <2>2, <2>3 DEF DerivedNext
<1> QED  BY <1>1, <1>2, PTL DEF DerivedSpec

-----------------------------------------------------------------------------
(* A purge.  What it is to take out of a file: what it removed, and of the *)
(* events what its pattern matches, of the links those to the mirrors that *)
(* it deletes.                                                             *)
PurgePlaces == {"planned", "scrubbed", "weighed", "replacing", "marking",
                "sweeping", "unlinking", "purged"}

Target(m, n) ==
    m.gone \cup (CASE n = "events" -> m.pattern [] n = "links" -> m.mirrors [] OTHER -> {})

(* The files whose new contents it has planned, and those it has swept.    *)
PlannedBy(place, n) ==
    /\ n \in {"events", "notes", "links", "insights", "graph"}
    /\ place \in {"planned", "scrubbed"} => n \notin {"insights", "graph"}
    /\ place = "weighed" => n # "graph"

SweptBy(place, m, k) ==
    \/ place \in {"unlinking", "purged"}
    \/ place = "sweeping" /\ k < m.next

(* While it runs alone, what it planned is still true of the files, and no *)
(* file that it has done names what it was to take out; the mirrors that   *)
(* have to go are among those it still holds, unless one could not go.     *)
Purging(place, m, f, t) ==
    /\ ~m.failed => f["mirrors"] \cap (t \cup m.gone) \subseteq m.mirrors
    /\ place # "planned" => f["vectors"] \cap m.gone = {}
    /\ place \notin {"sweeping", "unlinking", "purged"} => m.next = 1
    /\ place \notin {"unlinking", "purged"} =>
          /\ m.plan["links"] \subseteq f["mirrors"]
          /\ \A n \in Files : PlannedBy(place, n) =>
                /\ m.plan[n] \cap Target(m, n) = {}
                /\ m.cut[n] = {} => f[n] \cap Target(m, n) = {}
    /\ \A k \in 1..5 : SweptBy(place, m, k) => f[Swept[k]] \cap Target(m, Swept[k]) = {}
    /\ place = "purged" => m.mirrors = {}

Alone == \A p, q \in Writers : at[p] # "idle" /\ at[q] # "idle" => p = q

(* The vault's links lead to mirrors that are there: what makes a link to  *)
(* a purged fact always one to a mirror that the purge looks for.          *)
PurgeInv ==
    ~raced =>
        /\ Alone
        /\ names["links"] \subseteq names["mirrors"]
        /\ \A p \in Writers : at[p] = "links" => kept[p].facts \subseteq names["mirrors"]
        /\ \A p \in Writers : at[p] \in PurgePlaces => Purging(at[p], kept[p], names, tombs)

(* As long as nobody ran side by side, only the process that moves counts. *)
LEMMA OnlyMover ==
    ASSUME TypeInv, PurgeInv, NEW p \in Writers, NEW place, NEW memory,
           Moves(p, place, memory), Begin(p, place, memory) \/ at[p] # "idle",
           ~raced => names'["links"] \subseteq names'["mirrors"],
           ~raced /\ place = "links" => memory.facts \subseteq names'["mirrors"],
           ~raced /\ place \in PurgePlaces => Purging(place, memory, names', tombs')
    PROVE  PurgeInv'
<1>1. SUFFICES ASSUME ~raced'
               PROVE  PurgeInv'
  BY Zenon DEF PurgeInv
<1>2. at \in [Writers -> Places] /\ kept \in [Writers -> Memory]
  BY DEF TypeInv, DerivedTypeOK
<1>3. ~raced /\ \A q \in Writers \ {p} : at[q] = "idle"
  <2>1. CASE Begin(p, place, memory)
    <3>1. ~(raced \/ Busy # {})
      BY <1>1, <2>1, Zenon DEF Begin
    <3> QED  BY <3>1 DEF Busy
  <2>2. CASE ~Begin(p, place, memory)
    <3>1. raced' = raced /\ at[p] # "idle"
      BY <2>2, Zenon DEF Moves, Proceed
    <3>2. ~raced
      BY <1>1, <3>1, Zenon
    <3>3. Alone
      BY <3>2 DEF PurgeInv
    <3> QED  BY <3>1, <3>2, <3>3 DEF Alone
  <2> QED  BY <2>1, <2>2
<1>4. at'[p] = place /\ (place # "idle" => kept'[p] = memory)
  BY <1>2 DEF Moves, Begin, Proceed
<1>5. \A q \in Writers \ {p} : at'[q] = "idle"
  BY <1>2, <1>3 DEF Moves, Begin, Proceed
<1>6. Alone'
  BY <1>5 DEF Alone
<1>7. \A q \in Writers : at'[q] = "links" => kept'[q].facts \subseteq names'["mirrors"]
  BY <1>3, <1>4, <1>5
<1>8. \A q \in Writers : at'[q] \in PurgePlaces => Purging(at'[q], kept'[q], names', tombs')
  BY <1>3, <1>4, <1>5 DEF PurgePlaces
<1> QED  BY <1>3, <1>6, <1>7, <1>8 DEF PurgeInv

(* The commands that are not a purge.                                      *)
LEMMA OthersPurge ==
    ASSUME TypeInv, PurgeInv, NEW p \in Writers,
           NoteOutput(p) \/ ReadSources(p) \/ Synthesize(p) \/ Compare(p) \/ Outpaced(p)
              \/ CheckSources(p) \/ Publish(p) \/ ExportRead(p) \/ WriteGraph(p) \/ WriteVectors(p)
              \/ WriteFactNotes(p) \/ WriteEntityNotes(p) \/ Exit(p) \/ Killed(p)
    PROVE  PurgeInv'
<1> USE DEF Moves
<1>1. /\ names \in [Files -> SUBSET FactIds] /\ at \in [Writers -> Places]
      /\ \A f \in {"insights", "graph", "vectors", "links", "mirrors"} : f \in Files
  BY FilesAre DEF TypeInv, DerivedTypeOK
<1>2. ~raced => /\ names["links"] \subseteq names["mirrors"]
                /\ at[p] = "links" => kept[p].facts \subseteq names["mirrors"]
  BY DEF PurgeInv
<1>3. CASE WriteFactNotes(p)
  <2>1. /\ names'["mirrors"] = names["mirrors"] \cup kept[p].facts
        /\ names'["links"] = names["links"]
        /\ Proceed(p, "links", kept[p]) /\ at[p] # "idle"
    BY <1>1, <1>3 DEF WriteFactNotes
  <2> QED  BY <1>2, <2>1, OnlyMover DEF PurgePlaces
<1>4. CASE WriteEntityNotes(p)
  <2>1. /\ names'["mirrors"] = names["mirrors"] /\ at[p] = "links"
        /\ names'["links"] \subseteq kept[p].facts \cup names["links"]
        /\ Proceed(p, "idle", Nothing)
    BY <1>1, <1>4 DEF WriteEntityNotes
  <2> QED  BY <1>2, <2>1, OnlyMover DEF PurgePlaces
<1>5. CASE ~WriteFactNotes(p) /\ ~WriteEntityNotes(p)
  <2>1. names'["links"] = names["links"] /\ names'["mirrors"] = names["mirrors"]
    <3>1. names' = names \/ \E S : \/ names' = [names EXCEPT !["insights"] = S]
                                  \/ names' = [names EXCEPT !["graph"] = S]
                                  \/ names' = [names EXCEPT !["vectors"] = S]
      BY <1>5 DEF NoteOutput, ReadSources, Synthesize, Compare, Outpaced, CheckSources, Publish,
         ExportRead, WriteGraph, WriteVectors, Exit, Killed, FilesSame
    <3> QED  BY <1>1, <3>1
  <2>2. \E place, memory :
           /\ Moves(p, place, memory) /\ (Begin(p, place, memory) \/ at[p] # "idle")
           /\ place \notin PurgePlaces \cup {"links"}
    <3>1. CASE NoteOutput(p) \/ ReadSources(p) \/ Compare(p) \/ CheckSources(p)
      BY <3>1 DEF NoteOutput, ReadSources, Compare, CheckSources, PurgePlaces
    <3>2. CASE Synthesize(p)
      BY <3>2 DEF Synthesize, PurgePlaces
    <3>3. CASE ExportRead(p)
      BY <3>3 DEF ExportRead, PurgePlaces
    <3>4. CASE Outpaced(p) \/ Publish(p) \/ WriteGraph(p) \/ WriteVectors(p) \/ Exit(p) \/ Killed(p)
      BY <3>4 DEF Outpaced, Publish, WriteGraph, WriteVectors, Exit, Killed, PurgePlaces
    <3> QED  BY <1>5, <3>1, <3>2, <3>3, <3>4
  <2> QED  BY <1>2, <2>1, <2>2, OnlyMover
<1> QED  BY <1>3, <1>4, <1>5

(* A purge plans.                                                          *)
LEMMA PlanningPurge ==
    ASSUME TypeInv, PurgeInv, NEW p \in Writers,
           PlanPurge(p) \/ PurgeSidecar(p) \/ PlanInsights(p) \/ PlanGraph(p)
    PROVE  PurgeInv'
<1> USE DEF Moves
<1>1. /\ names \in [Files -> SUBSET FactIds] /\ at \in [Writers -> Places]
      /\ kept[p] \in Memory
      /\ Files = {"events", "notes", "links", "insights", "graph", "vectors", "mirrors"}
  BY FilesAre DEF TypeInv, DerivedTypeOK
<1>2. ~raced => /\ names["links"] \subseteq names["mirrors"]
                /\ at[p] \in PurgePlaces => Purging(at[p], kept[p], names, tombs)
  BY DEF PurgeInv
<1>3. tombs' = tombs
  BY DEF PlanPurge, PurgeSidecar, PlanInsights, PlanGraph, FilesSame
<1>4. CASE PlanPurge(p)
  <2>1. PICK m \in Memory, i \in FactIds, pattern \in SUBSET FactIds :
           PlanningOf(p, m, i, pattern)
    BY <1>4, Planning
  <2>2. /\ Begin(p, "planned", m) /\ m.next = 1 /\ m.failed = FALSE
        /\ m.gone = Removed(i) /\ m.pattern = pattern /\ m.mirrors = StaleMirrors(i)
        /\ m.cut = CutOf(i, pattern)
        /\ \A n \in Files : m.plan[n] = names[n] \ m.cut[n]
    BY <2>1 DEF PlanningOf
  <2>3. /\ m.cut["events"] = names["events"] \cap (m.gone \cup m.pattern)
        /\ m.cut["notes"] = names["notes"] \cap m.gone
        /\ m.cut["links"] = names["links"] \cap m.mirrors
        /\ m.mirrors = names["mirrors"] \cap (m.gone \cup tombs)
    BY <1>1, <2>2 DEF CutOf, EventsOut, NotesOut, LinksOut, StaleMirrors
  <2>4. writes' = writes /\ names' = names
    BY <1>4 DEF PlanPurge, FilesSame
  <2>5. ASSUME ~raced
        PROVE  Purging("planned", m, names', tombs')
    <3>1. ASSUME NEW n \in Files, PlannedBy("planned", n)
          PROVE  /\ m.plan[n] \cap Target(m, n) = {}
                 /\ m.cut[n] = {} => names[n] \cap Target(m, n) = {}
      <4>1. n \in {"events", "notes", "links"}
        BY <3>1 DEF PlannedBy
      <4>2. names[n] \cap Target(m, n) = m.cut[n]
        <5>1. CASE n = "events"
          BY <2>3, <5>1 DEF Target
        <5>2. CASE n = "notes"
          BY <2>3, <5>2 DEF Target
        <5>3. CASE n = "links"
          BY <1>2, <2>3, <2>5, <5>3 DEF Target
        <5> QED  BY <4>1, <5>1, <5>2, <5>3
      <4> QED  BY <2>2, <4>2
    <3>2. m.plan["links"] \subseteq names["mirrors"]
      BY <1>1, <1>2, <2>2, <2>5
    <3> QED  BY <1>3, <2>2, <2>3, <2>4, <3>1, <3>2 DEF Purging, SweptBy
  <2> QED  BY <1>2, <2>2, <2>4, <2>5, OnlyMover
<1>5. CASE PurgeSidecar(p)
  <2>1. /\ names'["vectors"] = names["vectors"] \ kept[p].gone
        /\ \A n \in Files \ {"vectors"} : names'[n] = names[n]
        /\ at[p] = "planned" /\ Proceed(p, "scrubbed", kept[p])
    BY <1>1, <1>5 DEF PurgeSidecar
  <2>2. ASSUME ~raced
        PROVE  Purging("scrubbed", kept[p], names', tombs')
    <3>1. Purging("planned", kept[p], names, tombs)
      BY <1>2, <2>1, <2>2 DEF PurgePlaces
    <3>2. \A n \in Files : PlannedBy("scrubbed", n) => PlannedBy("planned", n) /\ n # "vectors"
      BY DEF PlannedBy
    <3> QED  BY <1>1, <1>3, <2>1, <3>1, <3>2 DEF Purging, SweptBy
  <2> QED  BY <1>1, <1>2, <2>1, <2>2, OnlyMover
<1>6. CASE PlanInsights(p)
  <2> DEFINE k == kept[p]
  <2>1. PICK out \in SUBSET names["insights"] :
           /\ names["insights"] \cap k.gone \subseteq out
           /\ Proceed(p, "weighed", [k EXCEPT !.cut["insights"] = out,
                                              !.plan["insights"] = names["insights"] \ out])
    BY <1>6 DEF PlanInsights
  <2> DEFINE m == [k EXCEPT !.cut["insights"] = out,
                            !.plan["insights"] = names["insights"] \ out]
  <2>2. /\ m.gone = k.gone /\ m.pattern = k.pattern /\ m.mirrors = k.mirrors
        /\ m.failed = k.failed /\ m.next = k.next
        /\ m.cut["insights"] = out /\ m.plan["insights"] = names["insights"] \ out
        /\ \A n \in Files \ {"insights"} : m.cut[n] = k.cut[n] /\ m.plan[n] = k.plan[n]
    BY <1>1 DEF Memory
  <2>3. Proceed(p, "weighed", m) /\ names' = names /\ at[p] = "scrubbed"
    BY <1>6, <2>1 DEF PlanInsights, FilesSame
  <2> HIDE DEF m
  <2>4. ASSUME ~raced
        PROVE  Purging("weighed", m, names', tombs')
    <3>1. Purging("scrubbed", k, names, tombs)
      BY <1>2, <2>3, <2>4 DEF PurgePlaces
    <3>2. \A n \in Files : PlannedBy("weighed", n) => PlannedBy("scrubbed", n) \/ n = "insights"
      BY DEF PlannedBy
    <3>3. \A n : Target(m, n) = Target(k, n) /\ Target(m, "insights") = k.gone
      BY <2>2 DEF Target
    <3>4. ASSUME NEW n \in Files, PlannedBy("weighed", n)
          PROVE  /\ m.plan[n] \cap Target(m, n) = {}
                 /\ m.cut[n] = {} => names[n] \cap Target(m, n) = {}
      <4>1. CASE n = "insights"
        BY <2>1, <2>2, <3>3, <4>1
      <4>2. CASE n # "insights"
        BY <2>2, <3>1, <3>2, <3>3, <3>4, <4>2 DEF Purging
      <4> QED  BY <4>1, <4>2
    <3>5. m.plan["links"] = k.plan["links"]
      BY <1>1, <2>2
    <3> QED  BY <1>3, <2>2, <2>3, <3>1, <3>4, <3>5 DEF Purging, SweptBy
  <2> QED  BY <1>2, <2>3, <2>4, OnlyMover
<1>7. CASE PlanGraph(p)
  <2> DEFINE k == kept[p]
             out == names["graph"] \cap k.gone
             m == [k EXCEPT !.cut["graph"] = out, !.plan["graph"] = names["graph"] \ out]
  <2>2. /\ m.gone = k.gone /\ m.pattern = k.pattern /\ m.mirrors = k.mirrors
        /\ m.failed = k.failed /\ m.next = k.next
        /\ m.cut["graph"] = out /\ m.plan["graph"] = names["graph"] \ out
        /\ \A n \in Files \ {"graph"} : m.cut[n] = k.cut[n] /\ m.plan[n] = k.plan[n]
    BY <1>1 DEF Memory
  <2>3. Proceed(p, "replacing", m) /\ names' = names /\ at[p] = "weighed"
    BY <1>7 DEF PlanGraph, FilesSame
  <2> HIDE DEF m
  <2>4. ASSUME ~raced
        PROVE  Purging("replacing", m, names', tombs')
    <3>1. Purging("weighed", k, names, tombs)
      BY <1>2, <2>3, <2>4 DEF PurgePlaces
    <3>2. \A n \in Files : PlannedBy("replacing", n) => PlannedBy("weighed", n) \/ n = "graph"
      BY DEF PlannedBy
    <3>3. \A n : Target(m, n) = Target(k, n) /\ Target(m, "graph") = k.gone
      BY <2>2 DEF Target
    <3>4. ASSUME NEW n \in Files, PlannedBy("replacing", n)
          PROVE  /\ m.plan[n] \cap Target(m, n) = {}
                 /\ m.cut[n] = {} => names[n] \cap Target(m, n) = {}
      <4>1. CASE n = "graph"
        BY <2>2, <3>3, <4>1
      <4>2. CASE n # "graph"
        BY <2>2, <3>1, <3>2, <3>3, <3>4, <4>2 DEF Purging
      <4> QED  BY <4>1, <4>2
    <3>5. m.plan["links"] = k.plan["links"]
      BY <1>1, <2>2
    <3> QED  BY <1>3, <2>2, <2>3, <3>1, <3>4, <3>5 DEF Purging, SweptBy
  <2> QED  BY <1>2, <2>3, <2>4, OnlyMover
<1> QED  BY <1>4, <1>5, <1>6, <1>7

LEMMA FilesSwept == \A n \in Files \ {"vectors", "mirrors"} : \E k \in 1..5 : Swept[k] = n
<1>1. /\ Swept[1] = "events" /\ Swept[2] = "notes" /\ Swept[3] = "links"
      /\ Swept[4] = "insights" /\ Swept[5] = "graph"
  BY DEF Swept
<1> QED  BY <1>1, FilesAre

(* A purge writes what it planned.                                         *)
LEMMA WritingPurge ==
    ASSUME TypeInv, PurgeInv, NEW p \in Writers,
           PurgeStore(p) \/ AppendTombstones(p) \/ Sweep(p) \/ Unlink(p) \/ EndPurge(p)
    PROVE  PurgeInv'
<1> USE DEF Moves
<1> DEFINE k == kept[p]
<1>1. /\ names \in [Files -> SUBSET FactIds] /\ at \in [Writers -> Places] /\ k \in Memory
      /\ Files = {"events", "notes", "links", "insights", "graph", "vectors", "mirrors"}
  BY FilesAre DEF TypeInv, DerivedTypeOK
<1>2. ~raced => /\ names["links"] \subseteq names["mirrors"]
                /\ at[p] \in PurgePlaces => Purging(at[p], k, names, tombs)
  BY DEF PurgeInv
<1>3. CASE PurgeStore(p)
  <2>1. PICK place \in {"sweeping", "marking"} : Proceed(p, place, k)
    BY <1>3 DEF PurgeStore
  <2>2. names' = names /\ tombs' = tombs /\ at[p] = "replacing"
    BY <1>3 DEF PurgeStore
  <2>3. ASSUME ~raced
        PROVE  Purging(place, k, names', tombs')
    <3>1. Purging("replacing", k, names, tombs)
      BY <1>2, <2>2, <2>3 DEF PurgePlaces
    <3>2. k.next = 1
      BY <3>1 DEF Purging
    <3> QED  BY <2>1, <2>2, <3>1, <3>2 DEF Purging, SweptBy, PlannedBy
  <2> QED  BY <1>2, <2>1, <2>2, <2>3, OnlyMover
<1>4. CASE AppendTombstones(p)
  <2>1. /\ Proceed(p, "sweeping", k) /\ at[p] = "marking" /\ names' = names
        /\ tombs' = tombs \cup k.gone
    BY <1>4 DEF AppendTombstones
  <2>2. ASSUME ~raced
        PROVE  Purging("sweeping", k, names', tombs')
    <3>1. Purging("marking", k, names, tombs)
      BY <1>2, <2>1, <2>2 DEF PurgePlaces
    <3>2. k.next = 1 /\ (tombs' \cup k.gone) = (tombs \cup k.gone)
      BY <2>1, <3>1 DEF Purging
    <3> QED  BY <2>1, <3>1, <3>2 DEF Purging, SweptBy, PlannedBy
  <2> QED  BY <1>2, <2>1, <2>2, OnlyMover
<1>5. CASE Sweep(p)
  <2> DEFINE file == Swept[k.next]
             m == [k EXCEPT !.next = @ + 1]
             place == IF k.next = Len(Swept) THEN "unlinking" ELSE "sweeping"
  <2>1. k.next \in 1..5 /\ at[p] = "sweeping"
    BY <1>5 DEF Sweep, TypeInv, Fits
  <2>2. /\ m.gone = k.gone /\ m.pattern = k.pattern /\ m.mirrors = k.mirrors
        /\ m.failed = k.failed /\ m.next = k.next + 1 /\ m.cut = k.cut /\ m.plan = k.plan
    BY <1>1, <2>1 DEF Memory
  <2>3. Proceed(p, place, m) /\ tombs' = tombs
    BY <1>5 DEF Sweep
  <2>4. place = (IF k.next = 5 THEN "unlinking" ELSE "sweeping")
    BY FilesAre
  <2>5. file \in Files \ {"vectors", "mirrors"} /\ \A j \in 1..5 : Swept[j] = file => j = k.next
    BY <2>1, FilesAre
  <2>6. /\ k.cut[file] # {} => names'[file] = k.plan[file]
        /\ k.cut[file] = {} => names'[file] = names[file]
        /\ \A n \in Files \ {file} : names'[n] = names[n]
    BY <1>1, <1>5, <2>5 DEF Sweep
  <2>7. \A n : Target(m, n) = Target(k, n)
    BY <2>2 DEF Target
  <2> HIDE DEF m, place, file
  <2>8. ASSUME ~raced
        PROVE  /\ Purging(place, m, names', tombs')
               /\ names'["links"] \subseteq names'["mirrors"]
    <3>1. Purging("sweeping", k, names, tombs)
      BY <1>2, <2>1, <2>8 DEF PurgePlaces
    <3>2. \A n \in Files \ {"vectors", "mirrors"} : PlannedBy("sweeping", n)
      BY <1>1 DEF PlannedBy
    <3>3. names'[file] \cap Target(k, file) = {}
      BY <2>5, <2>6, <3>1, <3>2 DEF Purging
    <3>4. \A j \in 1..5 : SweptBy(place, m, j) => Swept[j] = file \/ SweptBy("sweeping", k, j)
      BY <2>1, <2>2, <2>4 DEF SweptBy, file
    <3>5. ASSUME NEW j \in 1..5, SweptBy(place, m, j)
          PROVE  names'[Swept[j]] \cap Target(m, Swept[j]) = {}
      <4>1. CASE Swept[j] = file
        BY <2>7, <3>3, <4>1
      <4>2. CASE Swept[j] # file
        <5>1. Swept[j] \in Files \ {file}
          BY <4>2, FilesAre
        <5>2. SweptBy("sweeping", k, j)
          BY <3>4, <3>5, <4>2
        <5> QED  BY <2>6, <2>7, <3>1, <5>1, <5>2 DEF Purging
      <4> QED  BY <4>1, <4>2
    <3>6. ASSUME NEW n \in Files, place = "sweeping", PlannedBy(place, n)
          PROVE  /\ m.plan[n] \cap Target(m, n) = {}
                 /\ m.cut[n] = {} => names'[n] \cap Target(m, n) = {}
      <4>1. CASE n = file
        BY <2>2, <2>6, <2>7, <3>1, <3>3, <3>6, <4>1 DEF Purging
      <4>2. CASE n # file
        BY <2>2, <2>6, <2>7, <3>1, <3>6, <4>2 DEF Purging
      <4> QED  BY <4>1, <4>2
    <3>7. /\ names'["mirrors"] = names["mirrors"] /\ names'["vectors"] = names["vectors"]
          /\ names'["links"] = names["links"] \/ names'["links"] = k.plan["links"]
      BY <1>1, <2>5, <2>6
    <3>8. k.plan["links"] \subseteq names["mirrors"] /\ names'["links"] \subseteq names'["mirrors"]
      BY <1>2, <2>8, <3>1, <3>7 DEF Purging
    <3>9. place \in {"sweeping", "unlinking"}
      BY <2>4
    <3>10. /\ ~m.failed => names'["mirrors"] \cap (tombs' \cup m.gone) \subseteq m.mirrors
           /\ names'["vectors"] \cap m.gone = {}
           /\ m.plan["links"] \subseteq names'["mirrors"]
      BY <2>2, <2>3, <3>1, <3>7, <3>8 DEF Purging
    <3> QED  BY <3>5, <3>6, <3>8, <3>9, <3>10 DEF Purging
  <2> QED  BY <2>1, <2>3, <2>8, <2>4, OnlyMover
<1>6. CASE Unlink(p)
  <2>1. PICK i \in k.mirrors, deleted \in BOOLEAN :
          /\ names' = IF deleted THEN [names EXCEPT !["mirrors"] = @ \ {i}] ELSE names
          /\ Proceed(p, "unlinking", [k EXCEPT !.mirrors = @ \ {i}, !.failed = @ \/ ~deleted])
    BY <1>6 DEF Unlink
  <2> DEFINE m == [k EXCEPT !.mirrors = @ \ {i}, !.failed = @ \/ ~deleted]
  <2>2. /\ m.gone = k.gone /\ m.pattern = k.pattern /\ m.mirrors = k.mirrors \ {i}
        /\ m.failed = (k.failed \/ ~deleted)
    BY <1>1 DEF Memory
  <2>3. Proceed(p, "unlinking", m) /\ tombs' = tombs /\ at[p] = "unlinking"
    BY <1>6, <2>1 DEF Unlink
  <2>4. /\ \A n \in Files \ {"mirrors"} : names'[n] = names[n]
        /\ names["mirrors"] \ {i} \subseteq names'["mirrors"]
        /\ deleted => names'["mirrors"] = names["mirrors"] \ {i}
    BY <1>1, <2>1
  <2>5. \A n : Target(m, n) \subseteq Target(k, n)
    BY <2>2 DEF Target
  <2> HIDE DEF m
  <2>6. ASSUME ~raced
        PROVE  /\ Purging("unlinking", m, names', tombs')
               /\ names'["links"] \subseteq names'["mirrors"]
    <3>1. Purging("unlinking", k, names, tombs)
      BY <1>2, <2>3, <2>6 DEF PurgePlaces
    <3>2. \A j \in 1..5 : names'[Swept[j]] \cap Target(m, Swept[j]) = {}
      BY <2>4, <2>5, <3>1, FilesAre DEF Purging, SweptBy
    <3>3. names["links"] \cap Target(k, "links") = {} /\ i \in Target(k, "links")
      <4>1. PICK j \in 1..5 : Swept[j] = "links"
        BY <1>1, FilesSwept
      <4> QED  BY <2>1, <3>1, <4>1 DEF Purging, SweptBy, Target
    <3>4. names'["links"] = names["links"] /\ names'["vectors"] = names["vectors"]
      BY <1>1, <2>4
    <3>5. names'["links"] \subseteq names'["mirrors"]
      BY <1>2, <2>4, <2>6, <3>3, <3>4
    <3>6. ~m.failed => names'["mirrors"] \cap (tombs' \cup m.gone) \subseteq m.mirrors
      <4>1. ASSUME ~m.failed
            PROVE  ~k.failed /\ deleted
        BY <2>2, <4>1
      <4> QED  BY <2>2, <2>3, <2>4, <3>1, <4>1 DEF Purging
    <3>7. names'["vectors"] \cap m.gone = {}
      BY <2>2, <3>1, <3>4 DEF Purging
    <3> QED  BY <3>2, <3>5, <3>6, <3>7 DEF Purging
  <2> QED  BY <2>3, <2>6, OnlyMover
<1>7. CASE EndPurge(p)
  <2>1. /\ Proceed(p, "purged", k) /\ at[p] = "unlinking" /\ names' = names /\ tombs' = tombs
        /\ k.mirrors = {}
    BY <1>7 DEF EndPurge, FilesSame
  <2>2. ~raced => Purging("purged", k, names', tombs')
    BY <1>2, <2>1 DEF Purging, SweptBy, PurgePlaces
  <2> QED  BY <1>2, <2>1, <2>2, OnlyMover
<1> QED  BY <1>3, <1>4, <1>5, <1>6, <1>7

(* PurgeInv is kept by the sweep of a purge and by whatever synthesizes and*)
(* exports beside it.                                                      *)
THEOREM PurgeInductive == DerivedSpec => []PurgeInv
<1>1. ASSUME DerivedInit
      PROVE  PurgeInv
  BY <1>1, FilesAre DEF DerivedInit, PurgeInv, Alone, PurgePlaces
<1>2. ASSUME TypeInv, PurgeInv, [DerivedNext]_derivedVars
      PROVE  PurgeInv'
  <2>1. ASSUME NEW p \in Writers, DerivedStep(p)
        PROVE  PurgeInv'
    BY <1>2, <2>1, OthersPurge, PlanningPurge, WritingPurge DEF DerivedStep
  <2>2. ASSUME NEW i \in FactIds, AddFact(i), ~raced'
        PROVE  PurgeInv'
    <3>1. ~(raced \/ Busy # {})
      BY <2>2, Zenon DEF AddFact
    <3>2. \A p \in Writers : at[p] = "idle" /\ at'[p] = "idle"
      BY <2>2, <3>1 DEF Busy, AddFact
    <3>3. names'["links"] = names["links"] /\ names'["mirrors"] = names["mirrors"]
      BY <1>2, <2>2, FilesAre DEF AddFact, TypeInv, DerivedTypeOK
    <3> QED  BY <1>2, <3>1, <3>2, <3>3 DEF PurgeInv, Alone, PurgePlaces
  <2>3. CASE UNCHANGED derivedVars
    BY <1>2, <2>3 DEF derivedVars, PurgeInv, Alone
  <2>4. raced' => PurgeInv'
    BY Zenon DEF PurgeInv
  <2> QED  BY <1>2, <2>1, <2>2, <2>3, <2>4 DEF DerivedNext
<1> QED  BY <1>1, <1>2, DerivedTypes, PTL DEF DerivedSpec

(* When commands ran one at a time, however many of them were killed, a    *)
(* purge that reports success left nothing of what it removed in any file, *)
(* no event that its pattern matches, and no mirror of anything purged.     *)
THEOREM PurgeComplete == DerivedSpec => []PurgeLeavesNothing
<1>1. ASSUME PurgeInv
      PROVE  PurgeLeavesNothing
  <2>1. SUFFICES ASSUME NEW p \in Writers, at[p] = "purged", ~raced, ~kept[p].failed
                 PROVE  /\ names["mirrors"] \cap tombs = {}
                        /\ names["events"] \cap kept[p].pattern = {}
                        /\ \A n \in Files : names[n] \cap kept[p].gone = {}
    BY DEF PurgeLeavesNothing
  <2>2. Purging("purged", kept[p], names, tombs)
    BY <1>1, <2>1 DEF PurgeInv, PurgePlaces
  <2>3. /\ names["mirrors"] \cap (tombs \cup kept[p].gone) = {}
        /\ names["vectors"] \cap kept[p].gone = {}
        /\ \A j \in 1..5 : names[Swept[j]] \cap Target(kept[p], Swept[j]) = {}
    BY <2>1, <2>2 DEF Purging, SweptBy
  <2>4. \A n \in Files \ {"vectors", "mirrors"} : names[n] \cap Target(kept[p], n) = {}
    BY <2>3, FilesSwept
  <2>5. names["events"] \cap kept[p].pattern = {}
    BY <2>4, FilesAre DEF Target
  <2>6. \A n \in Files \ {"vectors", "mirrors"} : names[n] \cap kept[p].gone = {}
    BY <2>4 DEF Target
  <2> QED  BY <2>3, <2>5, <2>6
<1> QED  BY <1>1, PurgeInductive, PTL

-----------------------------------------------------------------------------
(* The Explorer, for any threads, files, changes and requests.             *)
(*                                                                         *)
(* The argument.  A version of a file that is there never comes back once  *)
(* it was replaced (Unreturning); so a file whose two stamps agree was the *)
(* same in between, and the instant after the last first stamp lies between*)
(* the two stamps of every file (Capturing).  The lock keeps requests apart*)
(* (OneServed), so the generations on disk are the active one and the one  *)
(* under construction (Generations).                                       *)

Order == CaptureOrder

Now == Len(disks)

Hands == [attempt : {0, 1}, next : 1..Len(Order), before : [Captured -> Nat],
          data : [Captured -> Nat], start : Nat, id : Nat]

ServerPlaces == {"idle", "stamping", "reading", "checking", "building", "previewing"}

ServerShape ==
    /\ disks \in Seq([Captured -> Nat]) /\ disks # <<>> /\ disk = disks[Now]
    /\ serving \in [Threads -> ServerPlaces] /\ held \in [Threads -> Hands]
    /\ lock \in Threads \cup {NoThread} /\ requests \in Nat
    /\ since \in 1..Now /\ snapshot.data \in [Captured -> Nat] /\ snapshot.id \in Nat

Unreturning ==
    \A f \in Captured :
        /\ \A k \in 1..Now : disks[k][f] <= k
        /\ \A i, k, j \in 1..Now :
              i <= k /\ k <= j /\ disks[i][f] = disks[j][f] /\ disks[i][f] # 0
              => disks[k][f] = disks[i][f]

OneServed == \A t \in Threads : serving[t] # "idle" <=> lock = t

Was(f, v, i, j) == \E k \in i..j : disks[k][f] = v

(* The files that a pass over them has come by. *)
Behind(t) == {Order[n] : n \in 1..(held[t].next - 1)}

Stamped(t, k) == \A f \in Captured : Was(f, held[t].before[f], held[t].start, k)

CapturingAt(t, k) ==
    /\ Stamped(t, k)
    /\ serving[t] = "checking" => \A f \in Behind(t) : Was(f, held[t].before[f], k, Now)
    /\ serving[t] = "building" => \A f \in Captured : Was(f, held[t].before[f], k, Now)

Capturing(t) ==
    /\ serving[t] \in {"stamping", "reading", "checking", "building"} => held[t].start \in 1..Now
    /\ serving[t] = "stamping" =>
          \A f \in Behind(t) : Was(f, held[t].before[f], held[t].start, Now)
    /\ serving[t] = "reading" => \A f \in Behind(t) : held[t].data[f] = held[t].before[f]
    /\ serving[t] \in {"checking", "building"} => held[t].data = held[t].before
    /\ serving[t] \in {"reading", "checking", "building"} =>
          \E k \in held[t].start..Now : CapturingAt(t, k)

Generations ==
    /\ snapshot.id <= requests + 1
    /\ lock # NoThread => snapshot.id <= requests
    /\ lock = NoThread => dirs = {snapshot.id}
    /\ \A t \in Threads :
          /\ serving[t] \in {"stamping", "reading", "checking"} =>
                held[t].id = 0 /\ dirs = {snapshot.id}
          /\ serving[t] = "building" =>
                IF held[t].id = 0 THEN dirs = {snapshot.id}
                ELSE held[t].id = requests + 1 /\ dirs = {snapshot.id, held[t].id}
          /\ serving[t] = "previewing" => held[t].id = snapshot.id /\ dirs = {snapshot.id}

Together == \E k \in since..Now : \A f \in Captured : ShownAt(f, k)

ServerInv ==
    ServerShape /\ Unreturning /\ OneServed /\ (\A t \in Threads : Capturing(t)) /\ Generations /\ Together

LEMMA OrderIs ==
    /\ Len(Order) \in Nat \ {0} /\ \A n \in 1..Len(Order) : Order[n] \in Captured
    /\ \A f \in Captured : \E n \in 1..Len(Order) : Order[n] = f
  BY ExplorerAssumption DEF Order, Captured, ToSet

(* A tool replaces or removes a file.                                      *)
LEMMA DiskGrows ==
    ASSUME ServerShape, NEW f \in Captured, Change(f)
    PROVE  /\ Len(disks') = Now + 1 /\ Now \in Nat \ {0}
           /\ disks' \in Seq([Captured -> Nat]) /\ disks' # <<>> /\ disk' = disks'[Now']
           /\ \A k \in 1..Now : disks'[k] = disks[k]
           /\ \A g \in Captured : \/ disks'[Now + 1][g] = disks[Now][g]
                                  \/ disks'[Now + 1][g] \in {0, Now + 1}
           /\ UNCHANGED <<lock, serving, held, snapshot, since, dirs, requests>>
<1>1. PICK v \in {Now + 1, 0} : disk' = [disk EXCEPT ![f] = v]
  BY DEF Change, Now
<1>2. Now \in Nat \ {0} /\ disk \in [Captured -> Nat]
  BY EmptySeq DEF ServerShape, Now
<1>3. v \in Nat
  BY <1>1, <1>2
<1>4. disk' \in [Captured -> Nat] /\ \A g \in Captured : disk'[g] = IF g = f THEN v ELSE disk[g]
  BY <1>1, <1>2, <1>3
<1>5. disks' = Append(disks, disk')
  BY DEF Change
<1>6. /\ disks' \in Seq([Captured -> Nat]) /\ Len(disks') = Now + 1
      /\ disks'[Now + 1] = disk' /\ \A k \in 1..Now : disks'[k] = disks[k]
  BY <1>2, <1>4, <1>5, AppendProperties DEF ServerShape, Now
<1>7. disks' # <<>>
  BY <1>2, <1>6
<1>8. UNCHANGED <<lock, serving, held, snapshot, since, dirs, requests>>
  BY DEF Change, Served
<1>9. \A g \in Captured : \/ disks'[Now + 1][g] = disks[Now][g]
                          \/ disks'[Now + 1][g] \in {0, Now + 1}
  BY <1>1, <1>4, <1>6 DEF ServerShape
<1> QED  BY <1>2, <1>6, <1>7, <1>8, <1>9 DEF Now

LEMMA ChangeInv ==
    ASSUME ServerInv, NEW f \in Captured, Change(f)
    PROVE  ServerInv'
<1> USE DEF ServerInv
<1>1. /\ Now' = Now + 1 /\ Now \in Nat \ {0}
      /\ disks' \in Seq([Captured -> Nat]) /\ disks' # <<>> /\ disk' = disks'[Now']
      /\ \A k \in 1..Now : disks'[k] = disks[k]
      /\ \A g \in Captured : \/ disks'[Now + 1][g] = disks[Now][g]
                             \/ disks'[Now + 1][g] \in {0, Now + 1}
      /\ UNCHANGED <<lock, serving, held, snapshot, since, dirs, requests>>
  BY DiskGrows DEF Now
<1>2. ServerShape'
  BY <1>1 DEF ServerShape
<1>3. \A g \in Captured, k \in 1..Now : disks[k][g] \in Nat /\ disks[k][g] <= k
  <2>1. \A k \in 1..Now : disks[k] \in [Captured -> Nat]
    BY ElementOfSeq DEF ServerShape, Now
  <2> QED  BY <2>1 DEF Unreturning
<1>4. Unreturning'
  <2>1. ASSUME NEW g \in Captured, NEW k \in 1..(Now + 1)
        PROVE  disks'[k][g] <= k
    <3>1. CASE k \in 1..Now
      BY <1>1, <1>3, <3>1
    <3>2. CASE k = Now + 1
      <4>1. disks[Now][g] <= Now /\ disks[Now][g] \in Nat
        BY <1>1, <1>3
      <4>2. disks'[Now + 1][g] \in {disks[Now][g], 0, Now + 1}
        BY <1>1
      <4>3. disks'[Now + 1][g] <= Now + 1
        BY <1>1, <4>1, <4>2
      <4> QED  BY <3>2, <4>3
    <3> QED  BY <1>1, <3>1, <3>2
  <2>2. ASSUME NEW g \in Captured, NEW i \in 1..(Now + 1), NEW k \in 1..(Now + 1), NEW j \in 1..(Now + 1),
               i <= k, k <= j, disks'[i][g] = disks'[j][g], disks'[i][g] # 0
        PROVE  disks'[k][g] = disks'[i][g]
    <3>1. CASE j \in 1..Now
      <4>1. i \in 1..Now /\ k \in 1..Now
        BY <1>1, <2>2, <3>1
      <4>2. disks[i][g] = disks[j][g] /\ disks[i][g] # 0
        BY <1>1, <2>2, <3>1, <4>1
      <4>3. disks[k][g] = disks[i][g]
        BY <2>2, <3>1, <4>1, <4>2 DEF Unreturning
      <4> QED  BY <1>1, <4>1, <4>3
    <3>2. CASE j = Now + 1 /\ k = Now + 1
      BY <2>2, <3>2
    <3>3. CASE j = Now + 1 /\ k \in 1..Now
      <4>1. i \in 1..Now /\ Now \in 1..Now
        BY <1>1, <2>2, <3>3
      <4>2. disks'[i][g] = disks[i][g] /\ disks[i][g] \in Nat /\ disks[i][g] <= i
        BY <1>1, <1>3, <4>1
      <4>3. disks'[Now + 1][g] # Now + 1 /\ disks'[Now + 1][g] # 0
        BY <1>1, <2>2, <3>3, <4>1, <4>2
      <4>4. disks[i][g] = disks[Now][g]
        BY <1>1, <2>2, <3>3, <4>2, <4>3
      <4>5. disks[k][g] = disks[i][g]
        BY <2>2, <3>3, <4>1, <4>2, <4>3, <4>4 DEF Unreturning
      <4> QED  BY <1>1, <3>3, <4>1, <4>5
    <3> QED  BY <1>1, <3>1, <3>2, <3>3
  <2> QED  BY <1>1, <2>1, <2>2 DEF Unreturning
<1>5. ASSUME NEW g, NEW v, NEW i \in 1..Now, NEW k \in i..Now, Was(g, v, i, k)
      PROVE  Was(g, v, i, k)'
  <2>1. PICK n \in i..k : disks[n][g] = v
    BY <1>5 DEF Was
  <2>2. n \in 1..Now
    BY <1>1
  <2>3. disks'[n][g] = v
    BY <1>1, <2>1, <2>2
  <2> QED  BY <2>3 DEF Was
<1>6. ASSUME NEW g, NEW v, NEW i \in 1..Now, Was(g, v, i, Now)
      PROVE  Was(g, v, i, Now)'
  <2>1. PICK k \in i..Now : disks[k][g] = v
    BY <1>6 DEF Was
  <2>2. k \in i..Now' /\ disks'[k][g] = v
    BY <1>1, <2>1
  <2> QED  BY <2>2 DEF Was
<1>7. \A t \in Threads : Capturing(t)'
  <2> SUFFICES ASSUME NEW t \in Threads PROVE Capturing(t)'
    OBVIOUS
  <2>1. serving'[t] = serving[t] /\ held'[t] = held[t] /\ Behind(t)' = Behind(t) /\ Capturing(t)
    BY <1>1 DEF Behind
  <2>2. ASSUME serving[t] \in {"reading", "checking", "building"}
        PROVE  \E k \in held[t].start..Now : CapturingAt(t, k)'
    <3>1. PICK k \in held[t].start..Now : CapturingAt(t, k)
      BY <2>1, <2>2 DEF Capturing
    <3>2. held[t].start \in 1..Now
      BY <2>1, <2>2 DEF Capturing
    <3>3. k \in 1..Now
      BY <1>1, <3>1, <3>2
    <3>4. Stamped(t, k)'
      BY <1>5, <2>1, <3>1, <3>2 DEF CapturingAt, Stamped
    <3>5. CapturingAt(t, k)'
      BY <1>6, <2>1, <3>1, <3>3, <3>4 DEF CapturingAt
    <3> QED  BY <3>1, <3>5
  <2>3. Capturing(t) => held[t].start \in 1..Now
                        \/ serving[t] \notin {"stamping", "reading", "checking", "building"}
    BY DEF Capturing
  <2> QED  BY <1>1, <1>6, <2>1, <2>2, <2>3 DEF Capturing
<1>8. Generations'
  BY <1>1 DEF Generations
<1>9. Together'
  <2>1. PICK k \in since..Now : \A g \in Captured : ShownAt(g, k)
    BY DEF Together
  <2>2. since \in 1..Now /\ k \in 1..Now
    BY <1>1, <2>1 DEF ServerShape
  <2>3. ASSUME NEW g \in Captured PROVE ShownAt(g, k)'
    <3>1. \A i \in 1..Now : ThereAt(g, i)' = ThereAt(g, i)
      BY <1>1 DEF ThereAt
    <3>2. ShownAt(g, k)
      BY <2>1
    <3>3. snapshot' = snapshot /\ since' = since /\ k \in 1..Now
      BY <1>1, <2>2
    <3>4. CASE snapshot.data[g] # 0
      BY <3>1, <3>2, <3>3, <3>4 DEF ShownAt
    <3>5. CASE snapshot.data[g] = 0
      <4>1. PICK i \in since..k : ThereAt(g, i)
        BY <3>2, <3>5 DEF ShownAt
      <4>2. PICK j \in k..Now : ThereAt(g, j)
        BY <3>2, <3>5 DEF ShownAt, Now
      <4>3. ThereAt(g, i)' /\ ThereAt(g, j)' /\ j \in k..Now'
        BY <1>1, <2>2, <3>1, <4>1, <4>2
      <4> QED  BY <3>3, <3>5, <4>1, <4>3 DEF ShownAt, Now
    <3> QED  BY <3>4, <3>5
  <2> QED  BY <1>1, <2>1, <2>3 DEF Together
<1>10. OneServed'
  BY <1>1 DEF OneServed
<1> QED  BY <1>2, <1>4, <1>7, <1>8, <1>9, <1>10

(* One thread goes to a place with something in hand; the others, which    *)
(* wait for the lock, stay idle.                                           *)
GoesTo(t, place, h) ==
    /\ serving[t] # "idle" \/ lock = NoThread
    /\ serving' = [serving EXCEPT ![t] = place]
    /\ held' = [held EXCEPT ![t] = h]
    /\ lock' = IF place = "idle" THEN NoThread ELSE t
    /\ UNCHANGED <<disk, disks>>

LEMMA GoesAlone ==
    ASSUME ServerInv, NEW t \in Threads, NEW place \in ServerPlaces, NEW h \in Hands, GoesTo(t, place, h)
    PROVE  /\ serving' \in [Threads -> ServerPlaces] /\ held' \in [Threads -> Hands]
           /\ lock' \in Threads \cup {NoThread} /\ OneServed'
           /\ serving'[t] = place /\ held'[t] = h
           /\ \A u \in Threads \ {t} : serving'[u] = "idle"
<1>1. serving' \in [Threads -> ServerPlaces] /\ held' \in [Threads -> Hands]
  BY DEF GoesTo, ServerInv, ServerShape
<1>2. /\ serving'[t] = place /\ held'[t] = h
      /\ \A u \in Threads \ {t} : serving'[u] = serving[u]
  BY DEF GoesTo, ServerInv, ServerShape
<1>3. \A u \in Threads \ {t} : serving[u] = "idle"
  BY ExplorerAssumption DEF GoesTo, ServerInv, ServerShape, OneServed
<1>4. lock' \in Threads \cup {NoThread}
  BY DEF GoesTo
<1>5. OneServed'
  BY <1>2, <1>3, ExplorerAssumption DEF OneServed, GoesTo
<1> QED  BY <1>1, <1>2, <1>3, <1>4, <1>5

GenerationsFor(place, h, n, active, there) ==
    /\ active <= n + 1
    /\ place # "idle" => active <= n
    /\ place \in {"idle", "stamping", "reading", "checking", "previewing"} => there = {active}
    /\ place \in {"stamping", "reading", "checking"} => h.id = 0
    /\ place = "building" => IF h.id = 0 THEN there = {active}
                            ELSE h.id = n + 1 /\ there = {active, h.id}
    /\ place = "previewing" => h.id = active

(* Files that do not change do not return.                                 *)
LEMMA SameDisks == ASSUME Unreturning, disks' = disks  PROVE Unreturning'
<1>1. Now' = Now
  BY DEF Now
<1> QED  BY <1>1 DEF Unreturning

LEMMA GoesToInv ==
    ASSUME ServerInv, NEW t \in Threads, NEW place \in ServerPlaces, NEW h \in Hands, GoesTo(t, place, h),
           since' \in 1..Now, snapshot'.id \in Nat, snapshot'.data \in [Captured -> Nat], requests' \in Nat,
           Capturing(t)', Together', GenerationsFor(place, h, requests', snapshot'.id, dirs')
    PROVE  ServerInv'
<1>1. /\ serving' \in [Threads -> ServerPlaces] /\ held' \in [Threads -> Hands]
      /\ lock' \in Threads \cup {NoThread} /\ OneServed'
      /\ serving'[t] = place /\ held'[t] = h
      /\ \A u \in Threads \ {t} : serving'[u] = "idle"
  BY GoesAlone
<1>2. ServerShape'
  BY <1>1 DEF ServerInv, ServerShape, GoesTo, Now
<1>3. Unreturning'
  <2>1. disks' = disks /\ Unreturning
    BY DEF ServerInv, GoesTo
  <2> QED  BY <2>1, SameDisks
<1>4. \A u \in Threads : Capturing(u)'
  BY <1>1 DEF Capturing
<1>5. Generations'
  BY <1>1, ExplorerAssumption DEF Generations, GenerationsFor, GoesTo
<1> QED  BY <1>1, <1>2, <1>3, <1>4, <1>5 DEF ServerInv

LEMMA SameSnapshot ==
    ASSUME ServerInv, UNCHANGED <<disks, snapshot, since>>
    PROVE  Together' /\ since' \in 1..Now /\ snapshot'.data \in [Captured -> Nat] /\ snapshot'.id \in Nat
<1>1. Together'
  BY DEF ServerInv, Together, ShownAt, ThereAt, Now
<1> QED  BY <1>1 DEF ServerInv, ServerShape

LEMMA EmptyHandsType == EmptyHands \in Hands /\ EmptyHands.id = 0
  BY OrderIs DEF EmptyHands, Hands, NoneYet

LEMMA FailInv ==
    ASSUME ServerInv, NEW t \in Threads, serving[t] # "idle", Fail(t), UNCHANGED <<disk, disks>>,
           dirs' = {snapshot.id}
    PROVE  ServerInv'
<1>1. GoesTo(t, "idle", EmptyHands) /\ UNCHANGED <<snapshot, since, requests>>
  BY DEF Fail, GoesTo
<1>2. EmptyHands \in Hands /\ "idle" \in ServerPlaces
  BY EmptyHandsType DEF ServerPlaces
<1>3. serving'[t] = "idle"
  BY <1>1, <1>2, GoesAlone
<1>4. Capturing(t)'
  BY <1>3 DEF Capturing
<1>5. snapshot.id <= requests + 1 /\ requests \in Nat
  BY DEF ServerInv, Generations, ServerShape
<1>6. GenerationsFor("idle", EmptyHands, requests', snapshot'.id, dirs')
  BY <1>1, <1>5 DEF GenerationsFor
<1> QED  BY <1>1, <1>2, <1>4, <1>5, <1>6, SameSnapshot, GoesToInv

LEMMA PassIs ==
    ASSUME ServerInv, NEW t \in Threads
    PROVE  /\ held[t] \in Hands /\ File(t) \in Captured /\ Following(t) \in 1..Len(Order)
           /\ AtLast(t) => Following(t) = 1 /\ \A f \in Captured : f = File(t) \/ f \in Behind(t)
           /\ ~AtLast(t) => {Order[n] : n \in 1..(Following(t) - 1)} = Behind(t) \cup {File(t)}
<1>1. held[t] \in Hands
  BY DEF ServerInv, ServerShape
<1>2. held[t].next \in 1..Len(Order)
  BY <1>1 DEF Hands
<1>3. File(t) \in Captured /\ Following(t) \in 1..Len(Order)
  BY <1>2, OrderIs DEF File, Following, AtLast, Order
<1>4. CASE AtLast(t)
  BY <1>1, <1>2, <1>3, <1>4, OrderIs DEF Following, AtLast, File, Behind, Order
<1>5. CASE ~AtLast(t)
  <2>1. Following(t) - 1 = held[t].next
    BY <1>2, <1>5 DEF Following
  <2>2. 1..held[t].next = (1..(held[t].next - 1)) \cup {held[t].next}
    BY <1>2
  <2> QED  BY <1>1, <1>3, <1>5, <2>1, <2>2 DEF Behind, File, Order
<1> QED  BY <1>4, <1>5

(* A thread that passes over the files holds no generation.                *)
LEMMA PassingHoldsNone ==
    ASSUME ServerInv, NEW t \in Threads, serving[t] \in {"stamping", "reading", "checking"}
    PROVE  /\ held[t].id = 0 /\ dirs = {snapshot.id} /\ snapshot.id <= requests
           /\ snapshot.id \in Nat /\ requests \in Nat /\ held[t].start \in 1..Now /\ Now \in Nat \ {0}
<1>1. lock = t
  BY DEF ServerInv, OneServed
<1>2. Now \in Nat \ {0}
  BY EmptySeq DEF ServerInv, ServerShape, Now
<1> QED  BY <1>1, <1>2, ExplorerAssumption DEF ServerInv, Generations, Capturing, ServerShape

LEMMA DriftInv ==
    ASSUME ServerInv, NEW t \in Threads, serving[t] \in {"reading", "checking"}, Drift(t),
           UNCHANGED <<disk, disks>>
    PROVE  ServerInv'
<1>1. /\ held[t].id = 0 /\ dirs = {snapshot.id} /\ snapshot.id <= requests
      /\ snapshot.id \in Nat /\ requests \in Nat /\ held[t].start \in 1..Now
  BY PassingHoldsNone
<1>2. CASE Fail(t) /\ UNCHANGED dirs
  BY <1>1, <1>2, FailInv
<1>3. CASE ~(Fail(t) /\ UNCHANGED dirs)
  <2>1. PICK m \in Hands : m = held[t]
    BY DEF ServerInv, ServerShape
  <2>2. PICK h : h = [m EXCEPT !.attempt = 1, !.next = 1]
    OBVIOUS
  <2>3. h \in Hands /\ h.id = m.id /\ h.start = m.start /\ h.next = 1
    <3>1. 1 \in 1..Len(Order)
      BY OrderIs
    <3> QED  BY <2>2, <3>1 DEF Hands
  <2>4. GoesTo(t, "stamping", h) /\ UNCHANGED <<snapshot, since, dirs, requests>>
    <3>1. Go(t, "stamping", h) /\ UNCHANGED Served
      BY <1>3, <2>1, <2>2 DEF Drift
    <3> QED  BY <3>1 DEF Go, Served, GoesTo, ServerInv, OneServed
  <2>5. "stamping" \in ServerPlaces
    BY DEF ServerPlaces
  <2>6. serving'[t] = "stamping" /\ held'[t] = h
    BY <2>3, <2>4, <2>5, GoesAlone
  <2>7. Behind(t)' = {}
    BY <2>3, <2>6 DEF Behind
  <2>8. Capturing(t)'
    BY <1>1, <2>1, <2>3, <2>4, <2>6, <2>7 DEF Capturing, GoesTo, Now
  <2>9. GenerationsFor("stamping", h, requests', snapshot'.id, dirs')
    BY <1>1, <2>1, <2>3, <2>4 DEF GenerationsFor
  <2> QED  BY <1>1, <2>3, <2>4, <2>5, <2>8, <2>9, SameSnapshot, GoesToInv DEF GoesTo
<1> QED  BY <1>2, <1>3

LEMMA StampInv ==
    ASSUME ServerInv, NEW t \in Threads, Stamp(t)
    PROVE  ServerInv'
<1>1. /\ held[t].id = 0 /\ dirs = {snapshot.id} /\ snapshot.id <= requests
      /\ snapshot.id \in Nat /\ requests \in Nat /\ held[t].start \in 1..Now /\ Now \in Nat \ {0}
  BY PassingHoldsNone DEF Stamp
<1>2. /\ held[t] \in Hands /\ File(t) \in Captured /\ Following(t) \in 1..Len(Order)
      /\ AtLast(t) => Following(t) = 1 /\ \A f \in Captured : f = File(t) \/ f \in Behind(t)
      /\ ~AtLast(t) => {Order[n] : n \in 1..(Following(t) - 1)} = Behind(t) \cup {File(t)}
  BY PassIs
<1>3. PICK m, F, v, n, h, place :
         /\ m = held[t] /\ F = File(t) /\ v = disk[F] /\ n = Following(t)
         /\ h = [m EXCEPT !.before[F] = v, !.next = n]
         /\ place = IF AtLast(t) THEN "reading" ELSE "stamping"
  OBVIOUS
<1>4. v \in Nat /\ v = disks[Now][F]
  <2>1. disks[Now] \in [Captured -> Nat] /\ disk = disks[Now]
    BY <1>1, ElementOfSeq DEF ServerInv, ServerShape, Now
  <2> QED  BY <1>2, <1>3, <2>1
<1>5. /\ h \in Hands /\ h.next = n /\ h.start = m.start /\ h.id = m.id
      /\ h.before = [m.before EXCEPT ![F] = v]
  <2>1. m \in Hands /\ F \in Captured /\ n \in 1..Len(Order) /\ h = [m EXCEPT !.before[F] = v, !.next = n]
    BY <1>2, <1>3
  <2> QED  BY <1>4, <2>1 DEF Hands
<1>6. GoesTo(t, place, h) /\ UNCHANGED <<snapshot, since, dirs, requests>> /\ serving[t] = "stamping"
  <2>1. Go(t, place, h) /\ UNCHANGED <<disk, disks, snapshot, since, dirs>> /\ serving[t] = "stamping"
    BY <1>3 DEF Stamp, OnTheDisk, Served
  <2>2. place # "idle" /\ lock = t
    BY <1>3, <2>1 DEF ServerInv, OneServed
  <2> QED  BY <2>1, <2>2 DEF Go, GoesTo
<1>7. place \in ServerPlaces
  BY <1>3 DEF ServerPlaces
<1>8. serving'[t] = place /\ held'[t] = h /\ Now' = Now /\ disks' = disks
  BY <1>5, <1>6, <1>7, GoesAlone DEF GoesTo, Now
<1>9. \A f \in Behind(t) \cup {F} : f \in Captured => Was(f, h.before[f], h.start, Now)
  <2>1. m.before \in [Captured -> Nat]
    BY <1>2, <1>3 DEF Hands
  <2>2. \A f \in Behind(t) : Was(f, m.before[f], m.start, Now)
    BY <1>3, <1>6 DEF ServerInv, Capturing
  <2>3. Was(F, v, m.start, Now)
    BY <1>1, <1>3, <1>4 DEF Was
  <2> QED  BY <1>5, <2>1, <2>2, <2>3
<1>10. Capturing(t)'
  <2>1. CASE AtLast(t)
    <3>1. place = "reading" /\ n = 1 /\ Behind(t)' = {}
      BY <1>2, <1>3, <1>5, <1>8, <2>1 DEF Behind
    <3>2. \A f \in Captured : Was(f, h.before[f], h.start, Now)
      BY <1>2, <1>3, <1>9, <2>1
    <3>3. CapturingAt(t, Now)'
      BY <1>8, <3>1, <3>2 DEF CapturingAt, Stamped, Was
    <3> QED  BY <1>1, <1>3, <1>5, <1>8, <3>1, <3>3 DEF Capturing
  <2>2. CASE ~AtLast(t)
    <3>1. place = "stamping" /\ Behind(t)' = Behind(t) \cup {F}
      BY <1>2, <1>3, <1>5, <1>8, <2>2 DEF Behind
    <3>2. Behind(t) \subseteq Captured
      BY <1>2, OrderIs DEF Behind, Hands
    <3>3. \A f \in Behind(t)' : Was(f, h.before[f], h.start, Now)
      BY <1>2, <1>3, <1>9, <3>1, <3>2
    <3> QED  BY <1>1, <1>3, <1>5, <1>8, <3>1, <3>3 DEF Capturing, Was
  <2> QED  BY <2>1, <2>2
<1>11. GenerationsFor(place, h, requests', snapshot'.id, dirs')
  BY <1>1, <1>3, <1>5, <1>6 DEF GenerationsFor
<1> QED  BY <1>1, <1>5, <1>6, <1>7, <1>8, <1>10, <1>11, SameSnapshot, GoesToInv

LEMMA ReadInv ==
    ASSUME ServerInv, NEW t \in Threads, ReadOne(t)
    PROVE  ServerInv'
<1>1. serving[t] = "reading" /\ UNCHANGED <<disk, disks>>
  BY DEF ReadOne, OnTheDisk
<1>2. CASE held[t].before[File(t)] \notin {0, disk[File(t)]}
  <2>1. Drift(t)
    BY <1>2 DEF ReadOne
  <2> QED  BY <1>1, <2>1, DriftInv
<1>3. CASE held[t].before[File(t)] \in {0, disk[File(t)]}
  <2>1. /\ held[t].id = 0 /\ dirs = {snapshot.id} /\ snapshot.id <= requests
        /\ snapshot.id \in Nat /\ requests \in Nat /\ held[t].start \in 1..Now /\ Now \in Nat \ {0}
    BY <1>1, PassingHoldsNone
  <2>2. /\ held[t] \in Hands /\ File(t) \in Captured /\ Following(t) \in 1..Len(Order)
        /\ AtLast(t) => Following(t) = 1 /\ \A f \in Captured : f = File(t) \/ f \in Behind(t)
        /\ ~AtLast(t) => {Order[n] : n \in 1..(Following(t) - 1)} = Behind(t) \cup {File(t)}
    BY PassIs
  <2>3. PICK m, F, v, n, h, place :
           /\ m = held[t] /\ F = File(t) /\ v = m.before[F] /\ n = Following(t)
           /\ h = [m EXCEPT !.data[F] = v, !.next = n]
           /\ place = IF AtLast(t) THEN "checking" ELSE "reading"
    OBVIOUS
  <2>4. m \in Hands /\ F \in Captured /\ n \in 1..Len(Order) /\ h = [m EXCEPT !.data[F] = v, !.next = n]
    BY <2>2, <2>3
  <2>5. v \in Nat
    BY <2>3, <2>4 DEF Hands
  <2>6. /\ h \in Hands /\ h.next = n /\ h.start = m.start /\ h.id = m.id
        /\ h.data = [m.data EXCEPT ![F] = v] /\ h.before = m.before
    BY <2>4, <2>5 DEF Hands
  <2>7. GoesTo(t, place, h) /\ UNCHANGED <<snapshot, since, dirs, requests>>
    <3>1. Go(t, place, h) /\ UNCHANGED <<disk, disks, snapshot, since, dirs>>
      BY <1>3, <2>3 DEF ReadOne, OnTheDisk, Served
    <3>2. place # "idle" /\ lock = t
      BY <1>1, <2>3 DEF ServerInv, OneServed
    <3> QED  BY <1>1, <3>1, <3>2 DEF Go, GoesTo
  <2>8. place \in ServerPlaces
    BY <2>3 DEF ServerPlaces
  <2>9. serving'[t] = place /\ held'[t] = h /\ Now' = Now /\ disks' = disks
    BY <2>6, <2>7, <2>8, GoesAlone DEF GoesTo, Now
  <2>10. \A f \in Behind(t) \cup {F} : f \in Captured => h.data[f] = h.before[f]
    <3>1. m.data \in [Captured -> Nat]
      BY <2>4 DEF Hands
    <3>2. \A f \in Behind(t) : m.data[f] = m.before[f]
      BY <1>1, <2>3 DEF ServerInv, Capturing
    <3> QED  BY <2>3, <2>6, <3>1, <3>2
  <2>11. PICK k \in held[t].start..Now : CapturingAt(t, k)
    BY <1>1 DEF ServerInv, Capturing
  <2>12. Stamped(t, k)'
    BY <2>3, <2>6, <2>9, <2>11 DEF CapturingAt, Stamped, Was
  <2>13. Capturing(t)'
    <3>1. CASE AtLast(t)
      <4>1. place = "checking" /\ n = 1 /\ Behind(t)' = {}
        BY <2>2, <2>3, <2>6, <2>9, <3>1 DEF Behind
      <4>2. \A f \in Captured : h.data[f] = h.before[f]
        BY <2>2, <2>3, <2>10, <3>1
      <4>3. h.data = h.before
        BY <2>6, <4>2 DEF Hands
      <4>4. CapturingAt(t, k)'
        BY <2>9, <2>12, <4>1 DEF CapturingAt
      <4> QED  BY <2>1, <2>3, <2>6, <2>9, <2>11, <4>1, <4>3, <4>4 DEF Capturing
    <3>2. CASE ~AtLast(t)
      <4>1. held'[t].next = Following(t) /\ {Order[j] : j \in 1..(Following(t) - 1)} = Behind(t) \cup {F}
        BY <2>2, <2>3, <2>6, <2>9, <3>2
      <4>2. place = "reading" /\ Behind(t)' = Behind(t) \cup {F}
        BY <2>3, <3>2, <4>1 DEF Behind
      <4>3. Behind(t) \subseteq Captured
        BY <2>2, OrderIs DEF Behind, Hands
      <4>4. \A f \in Behind(t)' : h.data[f] = h.before[f]
        BY <2>4, <2>10, <4>2, <4>3
      <4>5. CapturingAt(t, k)'
        BY <2>9, <2>12, <4>2 DEF CapturingAt
      <4> QED  BY <2>1, <2>3, <2>6, <2>9, <2>11, <4>2, <4>4, <4>5 DEF Capturing
    <3> QED  BY <3>1, <3>2
  <2>14. GenerationsFor(place, h, requests', snapshot'.id, dirs')
    BY <2>1, <2>3, <2>6, <2>7 DEF GenerationsFor
  <2> QED  BY <2>1, <2>6, <2>7, <2>8, <2>9, <2>13, <2>14, SameSnapshot, GoesToInv
<1> QED  BY <1>2, <1>3

LEMMA CheckInv ==
    ASSUME ServerInv, NEW t \in Threads, CheckAgain(t)
    PROVE  ServerInv'
<1>1. serving[t] = "checking" /\ UNCHANGED <<disk, disks>>
  BY DEF CheckAgain, OnTheDisk
<1>2. /\ held[t].id = 0 /\ dirs = {snapshot.id} /\ snapshot.id <= requests
      /\ snapshot.id \in Nat /\ requests \in Nat /\ held[t].start \in 1..Now /\ Now \in Nat \ {0}
  BY <1>1, PassingHoldsNone
<1>3. CASE sqlite /\ held[t].next = 1
  <2>1. Fail(t) /\ UNCHANGED dirs
    BY <1>3 DEF CheckAgain
  <2> QED  BY <1>1, <1>2, <2>1, FailInv
<1>4. CASE ~(sqlite /\ held[t].next = 1) /\ disk[File(t)] # held[t].before[File(t)]
  <2>1. Drift(t)
    BY <1>4 DEF CheckAgain
  <2> QED  BY <1>1, <2>1, DriftInv
<1>5. CASE ~(sqlite /\ held[t].next = 1) /\ disk[File(t)] = held[t].before[File(t)]
  <2>1. /\ held[t] \in Hands /\ File(t) \in Captured /\ Following(t) \in 1..Len(Order)
        /\ AtLast(t) => Following(t) = 1 /\ \A f \in Captured : f = File(t) \/ f \in Behind(t)
        /\ ~AtLast(t) => {Order[n] : n \in 1..(Following(t) - 1)} = Behind(t) \cup {File(t)}
    BY PassIs
  <2>2. PICK m, F, n, h, place :
           /\ m = held[t] /\ F = File(t) /\ n = Following(t) /\ h = [m EXCEPT !.next = n]
           /\ place = IF AtLast(t) THEN "building" ELSE "checking"
    OBVIOUS
  <2>3. m \in Hands /\ F \in Captured /\ n \in 1..Len(Order) /\ h = [m EXCEPT !.next = n]
    BY <2>1, <2>2
  <2>4. /\ h \in Hands /\ h.next = n /\ h.start = m.start /\ h.id = m.id
        /\ h.data = m.data /\ h.before = m.before
    BY <2>3 DEF Hands
  <2>5. GoesTo(t, place, h) /\ UNCHANGED <<snapshot, since, dirs, requests>>
    <3>1. Go(t, place, h) /\ UNCHANGED <<disk, disks, snapshot, since, dirs>>
      BY <1>5, <2>2 DEF CheckAgain, OnTheDisk, Served
    <3>2. place # "idle" /\ lock = t
      BY <1>1, <2>2 DEF ServerInv, OneServed
    <3> QED  BY <1>1, <3>1, <3>2 DEF Go, GoesTo
  <2>6. place \in ServerPlaces
    BY <2>2 DEF ServerPlaces
  <2>7. serving'[t] = place /\ held'[t] = h /\ Now' = Now /\ disks' = disks
    BY <2>4, <2>5, <2>6, GoesAlone DEF GoesTo, Now
  <2>8. PICK k \in held[t].start..Now : CapturingAt(t, k)
    BY <1>1 DEF ServerInv, Capturing
  <2>9. Stamped(t, k)'
    BY <2>2, <2>4, <2>7, <2>8 DEF CapturingAt, Stamped, Was
  <2>10. \A f \in Behind(t) \cup {F} : Was(f, h.before[f], k, Now)
    <3>1. \A f \in Behind(t) : Was(f, m.before[f], k, Now)
      BY <1>1, <2>2, <2>8 DEF CapturingAt
    <3>2. disks[Now][F] = m.before[F]
      BY <1>5, <2>2 DEF ServerInv, ServerShape
    <3>3. k \in 1..Now /\ Now \in k..Now
      BY <1>2, <2>8
    <3>4. Was(F, m.before[F], k, Now)
      BY <3>2, <3>3 DEF Was
    <3> QED  BY <2>4, <3>1, <3>4
  <2>11. h.data = h.before
    BY <1>1, <2>2, <2>4 DEF ServerInv, Capturing
  <2>12. Capturing(t)'
    <3>1. CASE AtLast(t)
      <4>1. place = "building" /\ \A f \in Captured : Was(f, h.before[f], k, Now)
        BY <2>1, <2>2, <2>10, <3>1
      <4>2. CapturingAt(t, k)'
        BY <2>7, <2>9, <4>1 DEF CapturingAt, Was
      <4> QED  BY <1>2, <2>2, <2>4, <2>7, <2>8, <2>11, <4>1, <4>2 DEF Capturing
    <3>2. CASE ~AtLast(t)
      <4>1. place = "checking" /\ Behind(t)' = Behind(t) \cup {F}
        BY <2>1, <2>2, <2>4, <2>7, <3>2 DEF Behind
      <4>2. CapturingAt(t, k)'
        BY <2>7, <2>9, <2>10, <4>1 DEF CapturingAt, Was
      <4> QED  BY <1>2, <2>2, <2>4, <2>7, <2>8, <2>11, <4>1, <4>2 DEF Capturing
    <3> QED  BY <3>1, <3>2
  <2>13. GenerationsFor(place, h, requests', snapshot'.id, dirs')
    BY <1>2, <2>2, <2>4, <2>5 DEF GenerationsFor
  <2> QED  BY <1>2, <2>4, <2>5, <2>6, <2>7, <2>12, <2>13, SameSnapshot, GoesToInv
<1> QED  BY <1>3, <1>4, <1>5

LEMMA RequestInv ==
    ASSUME ServerInv, NEW t \in Threads, Refresh(t) \/ Preview(t) \/ EndPreview(t)
    PROVE  ServerInv'
<1>1. /\ Now \in Nat \ {0} /\ snapshot.id \in Nat /\ requests \in Nat /\ snapshot.id <= requests + 1
      /\ lock = NoThread => dirs = {snapshot.id}
  BY EmptySeq DEF ServerInv, ServerShape, Generations, Now
<1>2. CASE Refresh(t)
  <2>1. PICK m \in Hands : m = EmptyHands
    BY EmptyHandsType
  <2>2. PICK h : h = [m EXCEPT !.start = Now]
    OBVIOUS
  <2>3. h \in Hands /\ h.start = Now /\ h.id = 0 /\ h.next = 1
    <3>1. m.id = 0 /\ m.next = 1
      BY <2>1 DEF EmptyHands
    <3> QED  BY <1>1, <2>2, <3>1 DEF Hands
  <2>4. /\ GoesTo(t, "stamping", h) /\ lock = NoThread /\ requests' = requests + 1
        /\ UNCHANGED <<snapshot, since, dirs>>
    BY <1>2, <2>1, <2>2 DEF Refresh, Request, Served, OnTheDisk, GoesTo, Now
  <2>5. "stamping" \in ServerPlaces
    BY DEF ServerPlaces
  <2>6. serving'[t] = "stamping" /\ held'[t] = h /\ Now' = Now
    BY <2>3, <2>4, <2>5, GoesAlone DEF GoesTo, Now
  <2>7. Capturing(t)'
    <3>1. Behind(t)' = {}
      BY <2>3, <2>6 DEF Behind
    <3> QED  BY <1>1, <2>3, <2>6, <3>1 DEF Capturing
  <2>8. GenerationsFor("stamping", h, requests', snapshot'.id, dirs')
    BY <1>1, <2>3, <2>4 DEF GenerationsFor
  <2>9. UNCHANGED disks /\ requests' \in Nat
    BY <1>1, <2>4 DEF GoesTo
  <2> QED  BY <2>3, <2>4, <2>5, <2>7, <2>8, <2>9, SameSnapshot, GoesToInv
<1>3. CASE Preview(t)
  <2>1. PICK m \in Hands : m = EmptyHands
    BY EmptyHandsType
  <2>2. PICK h : h = [m EXCEPT !.id = snapshot.id]
    OBVIOUS
  <2>3. h \in Hands /\ h.id = snapshot.id
    BY <1>1, <2>2 DEF Hands
  <2>4. /\ GoesTo(t, "previewing", h) /\ lock = NoThread /\ requests' = requests + 1
        /\ UNCHANGED <<snapshot, since, dirs>>
    BY <1>3, <2>1, <2>2 DEF Preview, Request, Served, OnTheDisk, GoesTo
  <2>5. "previewing" \in ServerPlaces
    BY DEF ServerPlaces
  <2>6. serving'[t] = "previewing"
    BY <2>3, <2>4, <2>5, GoesAlone
  <2>7. Capturing(t)'
    BY <2>6 DEF Capturing
  <2>8. GenerationsFor("previewing", h, requests', snapshot'.id, dirs')
    BY <1>1, <2>3, <2>4 DEF GenerationsFor
  <2>9. UNCHANGED disks /\ requests' \in Nat
    BY <1>1, <2>4 DEF GoesTo
  <2> QED  BY <2>3, <2>4, <2>5, <2>7, <2>8, <2>9, SameSnapshot, GoesToInv
<1>4. CASE EndPreview(t)
  <2>1. serving[t] = "previewing" /\ Fail(t) /\ UNCHANGED <<disk, disks, dirs>>
    BY <1>4 DEF EndPreview, OnTheDisk
  <2>2. dirs = {snapshot.id}
    BY <2>1 DEF ServerInv, Generations
  <2> QED  BY <2>1, <2>2, FailInv
<1> QED  BY <1>2, <1>3, <1>4

(* What is captured is what was there, each file between its two stamps.   *)
LEMMA CapturedTogether ==
    ASSUME ServerInv, NEW t \in Threads, serving[t] = "building",
           UNCHANGED disks, since' = held[t].start, snapshot'.data = held[t].data
    PROVE  Together' /\ since' \in 1..Now
<1>1. held[t].start \in 1..Now /\ held[t].data = held[t].before
  BY DEF ServerInv, Capturing
<1>2. PICK k \in held[t].start..Now : CapturingAt(t, k)
  BY DEF ServerInv, Capturing
<1>3. Now \in Nat \ {0} /\ k \in 1..Now /\ Now' = Now
  BY <1>1, <1>2, EmptySeq DEF ServerInv, ServerShape, Now
<1>4. ASSUME NEW f \in Captured
      PROVE  ShownAt(f, k)'
  <2>1. PICK v : v = held[t].before[f]
    OBVIOUS
  <2>2. PICK i \in held[t].start..k : disks[i][f] = v
    BY <1>2, <2>1 DEF CapturingAt, Stamped, Was
  <2>3. PICK j \in k..Now : disks[j][f] = v
    BY <1>2, <2>1 DEF CapturingAt, Was
  <2>4. snapshot'.data[f] = v
    BY <1>1, <2>1
  <2>5. CASE v = 0
    <3>1. ThereAt(f, i)' /\ ThereAt(f, j)'
      BY <2>2, <2>3, <2>4 DEF ThereAt
    <3> QED  BY <1>3, <2>2, <2>3, <2>4, <2>5, <3>1 DEF ShownAt, Now
  <2>6. CASE v # 0
    <3>1. i \in 1..Now /\ j \in 1..Now /\ i <= k /\ k <= j
      BY <1>1, <1>3, <2>2, <2>3
    <3>2. disks[k][f] = v
      BY <1>3, <2>2, <2>3, <2>6, <3>1 DEF ServerInv, Unreturning
    <3> QED  BY <2>4, <2>6, <3>2 DEF ShownAt, ThereAt
  <2> QED  BY <2>5, <2>6
<1>5. k \in since'..Now'
  BY <1>2, <1>3
<1> QED  BY <1>1, <1>4, <1>5 DEF Together

LEMMA BuildingInv ==
    ASSUME ServerInv, NEW t \in Threads, MakeGeneration(t) \/ BuildFails(t) \/ PublishSnapshot(t)
    PROVE  ServerInv'
<1>1. serving[t] = "building" /\ lock = t /\ UNCHANGED <<disk, disks>>
  BY DEF MakeGeneration, BuildFails, PublishSnapshot, OnTheDisk, ServerInv, OneServed
<1>2. /\ Now \in Nat \ {0} /\ snapshot.id \in Nat /\ requests \in Nat /\ snapshot.id <= requests
      /\ held[t] \in Hands /\ held[t].start \in 1..Now
      /\ IF held[t].id = 0 THEN dirs = {snapshot.id}
         ELSE held[t].id = requests + 1 /\ dirs = {snapshot.id, held[t].id}
  BY <1>1, EmptySeq, ExplorerAssumption DEF ServerInv, ServerShape, Generations, Capturing, Now
<1>3. CASE MakeGeneration(t)
  <2>1. PICK m \in Hands : m = held[t]
    BY <1>2
  <2>2. PICK n, h : n = requests + 1 /\ h = [m EXCEPT !.id = n]
    OBVIOUS
  <2>3. /\ h \in Hands /\ h.id = n /\ h.start = m.start /\ h.before = m.before
        /\ h.data = m.data /\ h.next = m.next
    <3>1. n \in Nat
      BY <1>2, <2>2
    <3> QED  BY <2>2, <3>1 DEF Hands
  <2>4. /\ GoesTo(t, "building", h) /\ held[t].id = 0 /\ dirs' = dirs \cup {n}
        /\ UNCHANGED <<snapshot, since, requests>>
    BY <1>1, <1>3, <2>1, <2>2 DEF MakeGeneration, NewGeneration, Go, OnTheDisk, GoesTo
  <2>5. "building" \in ServerPlaces
    BY DEF ServerPlaces
  <2>6. serving'[t] = "building" /\ held'[t] = h /\ Now' = Now
    BY <2>3, <2>4, <2>5, GoesAlone DEF GoesTo, Now
  <2>7. Capturing(t)'
    <3>1. PICK k \in held[t].start..Now : CapturingAt(t, k)
      BY <1>1 DEF ServerInv, Capturing
    <3>2. CapturingAt(t, k)'
      BY <1>1, <2>1, <2>3, <2>6, <3>1 DEF CapturingAt, Stamped, Was
    <3>3. held[t].data = held[t].before
      BY <1>1 DEF ServerInv, Capturing
    <3> QED  BY <1>2, <2>1, <2>3, <2>6, <3>1, <3>2, <3>3 DEF Capturing
  <2>8. GenerationsFor("building", h, requests', snapshot'.id, dirs')
    BY <1>2, <2>2, <2>3, <2>4 DEF GenerationsFor
  <2> QED  BY <1>1, <1>2, <2>3, <2>4, <2>5, <2>7, <2>8, SameSnapshot, GoesToInv
<1>4. CASE BuildFails(t)
  <2>1. held[t].id # 0 /\ dirs' = dirs \ {held[t].id} /\ Fail(t)
    BY <1>4 DEF BuildFails
  <2>2. dirs' = {snapshot.id}
    BY <1>2, <2>1
  <2> QED  BY <1>1, <2>1, <2>2, FailInv
<1>5. CASE PublishSnapshot(t)
  <2>1. /\ GoesTo(t, "idle", EmptyHands) /\ held[t].id # 0
        /\ snapshot'.id = held[t].id /\ snapshot'.data = held[t].data /\ since' = held[t].start
        /\ dirs' = dirs \ {snapshot.id} /\ requests' = requests
    BY <1>1, <1>5 DEF PublishSnapshot, OnTheDisk, GoesTo
  <2>2. EmptyHands \in Hands /\ "idle" \in ServerPlaces
    BY EmptyHandsType DEF ServerPlaces
  <2>3. serving'[t] = "idle"
    BY <2>1, <2>2, GoesAlone
  <2>4. Capturing(t)'
    BY <2>3 DEF Capturing
  <2>5. dirs' = {held[t].id} /\ held[t].id = requests + 1
    BY <1>2, <2>1
  <2>6. GenerationsFor("idle", EmptyHands, requests', snapshot'.id, dirs')
    BY <1>2, <2>1, <2>5 DEF GenerationsFor
  <2>7. snapshot'.id \in Nat /\ snapshot'.data \in [Captured -> Nat] /\ requests' \in Nat
    BY <1>2, <2>1 DEF Hands
  <2>8. Together' /\ since' \in 1..Now
    BY <1>1, <2>1, CapturedTogether
  <2> QED  BY <2>1, <2>2, <2>4, <2>6, <2>7, <2>8, GoesToInv
<1> QED  BY <1>3, <1>4, <1>5

LEMMA SameServer ==
    ASSUME ServerInv, UNCHANGED <<disk, disks, lock, serving, held, snapshot, since, dirs, requests>>
    PROVE  ServerInv'
<1>1. ServerShape'
  BY DEF ServerInv, ServerShape, Now
<1>2. Unreturning'
  BY SameDisks DEF ServerInv
<1>3. OneServed' /\ Generations'
  BY DEF ServerInv, OneServed, Generations
<1>4. Together'
  BY SameSnapshot
<1>5. ASSUME NEW t \in Threads
      PROVE  Capturing(t)'
  <2>1. Capturing(t)
    BY DEF ServerInv
  <2>2. disks' = disks /\ serving' = serving /\ held' = held /\ Now' = Now
    BY DEF Now
  <2>3. \A f, v, i, j : Was(f, v, i, j)' <=> Was(f, v, i, j)
    BY <2>2 DEF Was
  <2>4. Behind(t)' = Behind(t)
    BY <2>2 DEF Behind
  <2>5. \A k : CapturingAt(t, k)' <=> CapturingAt(t, k)
    BY <2>2, <2>3, <2>4 DEF CapturingAt, Stamped
  <2> QED  BY <2>1, <2>2, <2>3, <2>4, <2>5 DEF Capturing
<1> QED  BY <1>1, <1>2, <1>3, <1>4, <1>5 DEF ServerInv

(* ServerInv is kept by every request of the explorer, while the tools of  *)
(* the store replace and remove the files it captures.                     *)
THEOREM ServerInductive == ExplorerSpec => []ServerInv
<1>1. ASSUME ExplorerInit
      PROVE  ServerInv
  <2>1. AllThere \in [Captured -> Nat] /\ \A f \in Captured : AllThere[f] = 1
    BY DEF AllThere
  <2>2. /\ disks \in Seq([Captured -> Nat]) /\ disks # <<>> /\ Now = 1 /\ disks[1] = AllThere
        /\ disk = AllThere
    BY <1>1, <2>1 DEF ExplorerInit, Now
  <2>3. ServerShape
    BY <1>1, <2>1, <2>2, EmptyHandsType DEF ExplorerInit, ServerShape, ServerPlaces
  <2>4. Unreturning
    BY <2>1, <2>2 DEF Unreturning
  <2>5. OneServed /\ \A t \in Threads : Capturing(t)
    BY <1>1, ExplorerAssumption DEF ExplorerInit, OneServed, Capturing
  <2>6. Generations
    BY <1>1, ExplorerAssumption DEF ExplorerInit, Generations
  <2>7. Together
    <3>1. \A f \in Captured : ShownAt(f, 1)
      BY <1>1, <2>1, <2>2 DEF ExplorerInit, ShownAt, ThereAt
    <3> QED  BY <1>1, <2>2, <3>1 DEF ExplorerInit, Together
  <2> QED  BY <2>3, <2>4, <2>5, <2>6, <2>7 DEF ServerInv
<1>2. ASSUME ServerInv, [ExplorerNext]_explorerVars
      PROVE  ServerInv'
  <2>1. CASE \E f \in Captured : Change(f)
    BY <1>2, <2>1, ChangeInv
  <2>2. CASE CutOver \/ \E t \in Threads : Show(t)
    <3>1. UNCHANGED <<disk, disks, lock, serving, held, snapshot, since, dirs, requests>>
      BY <2>2 DEF CutOver, Show, Served, OnTheDisk
    <3> QED  BY <1>2, <3>1, SameServer
  <2>3. ASSUME NEW t \in Threads,
               \/ Refresh(t) \/ Stamp(t) \/ ReadOne(t) \/ CheckAgain(t)
               \/ MakeGeneration(t) \/ BuildFails(t) \/ PublishSnapshot(t)
               \/ Preview(t) \/ EndPreview(t)
        PROVE  ServerInv'
    BY <1>2, <2>3, RequestInv, StampInv, ReadInv, CheckInv, BuildingInv
  <2>4. CASE UNCHANGED explorerVars
    <3>1. UNCHANGED <<disk, disks, lock, serving, held, snapshot, since, dirs, requests>>
      BY <2>4 DEF explorerVars
    <3> QED  BY <1>2, <3>1, SameServer
  <2> QED  BY <1>2, <2>1, <2>2, <2>3, <2>4 DEF ExplorerNext
<1> QED  BY <1>1, <1>2, PTL DEF ExplorerSpec

(* What the Explorer shows together was on disk together, at an instant of *)
(* the refresh that captured it; its previews run on the generation that   *)
(* the page shows (_capture, refresh, preview).                            *)
THEOREM ShownTogether == ExplorerSpec => []SnapshotCoherent
<1>1. ServerInv => SnapshotCoherent
  BY DEF ServerInv, Generations, Together, SnapshotCoherent, Now
<1> QED  BY <1>1, ServerInductive, PTL

-----------------------------------------------------------------------------
(* Insights and their lineage, for any facts with distinct ids.            *)
(*                                                                         *)
(* The argument.  Everything the synthesis orders is a finite set with a   *)
(* strict order, so its list has each element once, in that order          *)
(* (SortedIs).  Hence an occurrence lists all its supporters (OccurrenceIs),*)
(* the events are as many as the identities (EventsAre), the representatives*)
(* are distinct facts (PickedAre), and the sample takes them in turn       *)
(* (TurnsAre, TakenFairly).  The clusters share no fact (ClustersAre), and *)
(* each summary is made of the candidate of its place (LineageInv), from   *)
(* which what the validation recomputes is what was written.               *)

(* A strict order, as what is above each element. *)
Orders(S, above) ==
    /\ DOMAIN above = S
    /\ \A x \in S : above[x] \subseteq S \ {x}
    /\ \A x, y \in S : x # y => x \in above[y] \/ y \in above[x]
    /\ \A x, y \in S : x \in above[y] => above[x] \subseteq above[y]

(* A list of the elements of S, each once, in that order. *)
Lists(list, S, above) ==
    /\ list \in Seq(S) /\ Len(list) = Cardinality(S) /\ Len(list) \in Nat
    /\ \A m, n \in 1..Len(list) : list[m] = list[n] => m = n
    /\ \A x \in S : \E n \in 1..Len(list) : list[n] = x
    /\ \A m, n \in 1..Len(list) : list[m] \in above[list[n]] <=> m < n

LEMMA SortedIs ==
    ASSUME NEW S, IsFiniteSet(S), NEW above, Orders(S, above)
    PROVE  Lists(Sorted(above), S, above)
<1> DEFINE N == Cardinality(S)
           list == Sorted(above)
<1>1. /\ N \in Nat
      /\ \A i \in 0..(N - 1) : \E x \in S : Cardinality(above[x]) = i
      /\ \A x \in S : Cardinality(above[x]) \in 0..(N - 1)
      /\ \A x, y \in S : x \in above[y] => Cardinality(above[x]) < Cardinality(above[y])
  BY Ranking DEF Orders
<1>2. list = [n \in 1..N |-> CHOOSE x \in S : Cardinality(above[x]) = n - 1]
  BY DEF Sorted, Orders
<1> HIDE DEF N, list
<1>3. ASSUME NEW n \in 1..N
      PROVE  list[n] \in S /\ Cardinality(above[list[n]]) = n - 1
  <2>1. n - 1 \in 0..(N - 1)
    BY <1>1
  <2>2. \E x \in S : Cardinality(above[x]) = n - 1
    BY <1>1, <2>1
  <2> QED  BY <1>2, <2>2
<1>4. list \in Seq(S) /\ Len(list) = N
  <2>1. list \in [1..N -> S]
    BY <1>2, <1>3
  <2> QED  BY <1>1, <2>1
<1>5. ASSUME NEW x \in S, NEW y \in S, Cardinality(above[x]) = Cardinality(above[y])
      PROVE  x = y
  <2>1. x \notin above[y] /\ y \notin above[x]
    BY <1>1, <1>5
  <2> QED  BY <2>1 DEF Orders
<1>6. ASSUME NEW m \in 1..N, NEW n \in 1..N, list[m] = list[n]
      PROVE  m = n
  <2>1. m - 1 = n - 1
    BY <1>3, <1>6
  <2> QED  BY <2>1
<1>7. ASSUME NEW x \in S
      PROVE  \E n \in 1..N : list[n] = x
  <2>1. PICK c : c = Cardinality(above[x]) /\ c \in 0..(N - 1)
    BY <1>1
  <2>2. c + 1 \in 1..N /\ (c + 1) - 1 = c
    BY <1>1, <2>1
  <2>3. list[c + 1] \in S /\ Cardinality(above[list[c + 1]]) = c
    BY <1>3, <2>2
  <2>4. list[c + 1] = x
    BY <1>5, <2>1, <2>3
  <2> QED  BY <2>2, <2>4
<1>8. ASSUME NEW m \in 1..N, NEW n \in 1..N
      PROVE  list[m] \in above[list[n]] <=> m < n
  <2>1. /\ list[m] \in S /\ Cardinality(above[list[m]]) = m - 1
        /\ list[n] \in S /\ Cardinality(above[list[n]]) = n - 1
    BY <1>3
  <2>2. ASSUME list[m] \in above[list[n]]
        PROVE  m < n
    <3>1. m - 1 < n - 1
      BY <1>1, <2>1, <2>2
    <3> QED  BY <3>1
  <2>3. ASSUME m < n
        PROVE  list[m] \in above[list[n]]
    <3>1. list[m] # list[n]
      BY <1>6, <2>3
    <3>2. CASE list[n] \in above[list[m]]
      <4>1. n - 1 < m - 1
        BY <1>1, <2>1, <3>2
      <4> QED  BY <2>3, <4>1
    <3> QED  BY <2>1, <3>1, <3>2 DEF Orders
  <2> QED  BY <2>2, <2>3
<1> QED  BY <1>1, <1>4, <1>6, <1>7, <1>8 DEF Lists, N, list

Triple == Nat \X Nat \X Nat

LEMMA AboveIs ==
    ASSUME NEW s \in Triple, NEW t \in Triple
    PROVE  Above(s, t) <=> \/ s[1] > t[1]
                           \/ s[1] = t[1] /\ s[2] > t[2]
                           \/ s[1] = t[1] /\ s[2] = t[2] /\ s[3] > t[3]
<1>1. DOMAIN s = 1..3 /\ DOMAIN t = 1..3
  BY DEF Triple
<1>2. 1..3 = {1, 2, 3} /\ 1..(1 - 1) = {} /\ 1..(2 - 1) = {1} /\ 1..(3 - 1) = {1, 2}
  OBVIOUS
<1>3. Above(s, t) <=> \E n \in {1, 2, 3} : s[n] > t[n] /\ \A m \in 1..(n - 1) : s[m] = t[m]
  BY <1>1, <1>2 DEF Above
<1> QED  BY <1>2, <1>3

LEMMA KeysOrder ==
    ASSUME NEW S, NEW key \in [S -> Triple], \A x, y \in S : key[x] = key[y] => x = y
    PROVE  Orders(S, [x \in S |-> {y \in S : Above(key[y], key[x])}])
<1> DEFINE above == [x \in S |-> {y \in S : Above(key[y], key[x])}]
<1>1. \A x, y \in S : y \in above[x] <=> Above(key[y], key[x])
  OBVIOUS
<1>2. DOMAIN above = S /\ \A x \in S : above[x] \subseteq S
  OBVIOUS
<1> HIDE DEF above
<1>3. \A x \in S : x \notin above[x]
  <2> SUFFICES ASSUME NEW x \in S  PROVE ~Above(key[x], key[x])
    BY <1>1
  <2>1. key[x] \in Triple /\ key[x][1] \in Nat /\ key[x][2] \in Nat /\ key[x][3] \in Nat
    BY DEF Triple
  <2> QED  BY <2>1, AboveIs
<1>4. ASSUME NEW x \in S, NEW y \in S, x # y
      PROVE  x \in above[y] \/ y \in above[x]
  <2>1. PICK s \in Triple, t \in Triple : s = key[x] /\ t = key[y] /\ s # t
    BY <1>4
  <2>2. /\ s[1] \in Nat /\ s[2] \in Nat /\ s[3] \in Nat
        /\ t[1] \in Nat /\ t[2] \in Nat /\ t[3] \in Nat
    BY DEF Triple
  <2>3. s[1] # t[1] \/ s[2] # t[2] \/ s[3] # t[3]
    BY <2>1 DEF Triple
  <2>4. Above(s, t) \/ Above(t, s)
    BY <2>2, <2>3, AboveIs
  <2> QED  BY <1>1, <2>1, <2>4
<1>5. ASSUME NEW x \in S, NEW y \in S, x \in above[y], NEW z \in above[x]
      PROVE  z \in above[y]
  <2>1. PICK s \in Triple, t \in Triple, u \in Triple : s = key[x] /\ t = key[y] /\ u = key[z]
    BY <1>2
  <2>2. Above(s, t) /\ Above(u, s)
    BY <1>1, <1>2, <1>5, <2>1
  <2>3. /\ s[1] \in Nat /\ s[2] \in Nat /\ s[3] \in Nat
        /\ t[1] \in Nat /\ t[2] \in Nat /\ t[3] \in Nat
        /\ u[1] \in Nat /\ u[2] \in Nat /\ u[3] \in Nat
    BY DEF Triple
  <2>4. Above(u, t)
    <3>1. /\ \/ s[1] > t[1]
             \/ s[1] = t[1] /\ s[2] > t[2]
             \/ s[1] = t[1] /\ s[2] = t[2] /\ s[3] > t[3]
          /\ \/ u[1] > s[1]
             \/ u[1] = s[1] /\ u[2] > s[2]
             \/ u[1] = s[1] /\ u[2] = s[2] /\ u[3] > s[3]
      BY <2>2, AboveIs
    <3>2. \/ u[1] > t[1]
          \/ u[1] = t[1] /\ u[2] > t[2]
          \/ u[1] = t[1] /\ u[2] = t[2] /\ u[3] > t[3]
      BY <2>3, <3>1
    <3> QED  BY <3>2, AboveIs
  <2> QED  BY <1>1, <1>2, <2>1, <2>4
<1>6. Orders(S, above)
  BY <1>2, <1>3, <1>4, <1>5 DEF Orders
<1> QED  BY <1>6 DEF above

(* Facts of a store that can be summarised. *)
Group(S) ==
    /\ S \subseteq SourceFact /\ IsFiniteSet(S)
    /\ \A f, g \in S : f.id = g.id => f = g
    /\ \A f \in S : IsFiniteSet(f.events)

Supporters(S, identity) == {f \in S : identity \in Identities(f)}

AllIdentities(S) == UNION {Identities(f) : f \in S}

LEMMA EventIdOf == \A e : EventId(<<"event", {e}, 0>>) = e
<1> SUFFICES ASSUME NEW e  PROVE EventId(<<"event", {e}, 0>>) = e
  OBVIOUS
<1>1. PICK i : i = <<"event", {e}, 0>>
  OBVIOUS
<1>2. i[1] = "event" /\ i[2] = {e}
  BY <1>1
<1>3. (CHOOSE x \in {e} : TRUE) = e
  OBVIOUS
<1> QED  BY <1>1, <1>2, <1>3 DEF EventId

LEMMA IdentitiesAre ==
    ASSUME NEW f \in SourceFact, IsFiniteSet(f.events)
    PROVE  /\ Identities(f) # {} /\ IsFiniteSet(Identities(f))
           /\ \A i \in Identities(f) : EventId(i) \in Nat
           /\ \A i, j \in Identities(f) : EventId(i) = EventId(j) => i = j
<1>1. CASE f.events # {}
  <2>1. Identities(f) = {<<"event", {e}, 0>> : e \in f.events} /\ f.events \subseteq Nat
    BY <1>1 DEF Identities, SourceFact
  <2>2. IsFiniteSet(Identities(f))
    <3>1. [e \in f.events |-> <<"event", {e}, 0>>] \in Surjection(f.events, Identities(f))
      BY <2>1 DEF Surjection
    <3> QED  BY <3>1, FS_Surjection
  <2>3. \A i \in Identities(f) : EventId(i) \in f.events /\ i = <<"event", {EventId(i)}, 0>>
    BY <2>1, EventIdOf
  <2> QED  BY <1>1, <2>1, <2>2, <2>3
<1>2. CASE f.events = {}
  <2>1. PICK i : Identities(f) = {i} /\ i[1] # "event"
    <3>1. CASE f.anchors # {}
      <4>1. PICK i : i = <<"anchor", f.anchors, 0>>
        OBVIOUS
      <4>2. Identities(f) = {i} /\ i[1] = "anchor"
        BY <1>2, <3>1, <4>1 DEF Identities
      <4> QED  BY <4>2
    <3>2. CASE f.anchors = {}
      <4>1. PICK i : i = <<"text", {f.text}, f.date>>
        OBVIOUS
      <4>2. Identities(f) = {i} /\ i[1] = "text"
        BY <1>2, <3>2, <4>1 DEF Identities
      <4> QED  BY <4>2
    <3> QED  BY <3>1, <3>2
  <2>2. EventId(i) = 0 /\ IsFiniteSet({i})
    BY <2>1, FS_Singleton DEF EventId
  <2> QED  BY <2>1, <2>2
<1> QED  BY <1>1, <1>2

(* An occurrence has its supporters, each once and the latest first. *)
LEMMA OccurrenceIs ==
    ASSUME NEW S, Group(S), NEW identity \in AllIdentities(S)
    PROVE  /\ Occurrence(S, identity) = [event |-> EventId(identity), facts |-> Occurrence(S, identity).facts]
           /\ Occurrence(S, identity).facts \in Seq(Supporters(S, identity))
           /\ Len(Occurrence(S, identity).facts) \in Nat \ {0}
           /\ \A f \in Supporters(S, identity) :
                 \E n \in 1..Len(Occurrence(S, identity).facts) : Occurrence(S, identity).facts[n] = f
<1> DEFINE P == Supporters(S, identity)
           key == [f \in P |-> <<f.date, f.confidence, f.id>>]
           above == [f \in P |-> {g \in P : Above(key[g], key[f])}]
           list == Occurrence(S, identity).facts
<1>1. P \subseteq S /\ P \subseteq SourceFact /\ IsFiniteSet(P)
  <2>1. P \subseteq S
    BY DEF Supporters
  <2> QED  BY <2>1, FS_Subset DEF Group
<1>2. P # {}
  BY DEF Supporters, AllIdentities
<1>3. key \in [P -> Triple]
  BY <1>1 DEF Triple, SourceFact
<1>4. \A f, g \in P : key[f] = key[g] => f = g
  BY <1>1 DEF Group
<1>5. Orders(P, above)
  <2> HIDE DEF key, P
  <2> QED  BY <1>3, <1>4, KeysOrder
<1>6. /\ Occurrence(S, identity) = [event |-> EventId(identity), facts |-> list]
      /\ list = Sorted(above)
  <2>1. above = [f \in P |-> {g \in P : Above(<<g.date, g.confidence, g.id>>,
                                              <<f.date, f.confidence, f.id>>)}]
    OBVIOUS
  <2>2. Occurrence(S, identity) = [event |-> EventId(identity), facts |-> Sorted(above)]
    BY <2>1 DEF Occurrence, Supporters
  <2> QED  BY <2>2
<1> HIDE DEF P, key, above, list
<1>7. Lists(list, P, above)
  BY <1>1, <1>5, <1>6, SortedIs
<1>8. Len(list) \in Nat \ {0} /\ list \in Seq(P) /\ \A f \in P : \E n \in 1..Len(list) : list[n] = f
  <2>1. PICK f \in P : TRUE
    BY <1>2
  <2>2. PICK n \in 1..Len(list) : list[n] = f
    BY <1>7, <2>1 DEF Lists
  <2> QED  BY <1>7, <2>2 DEF Lists
<1> QED  BY <1>6, <1>8 DEF P, list

LEMMA EventsAre ==
    ASSUME NEW S, Group(S)
    PROVE  /\ IsFiniteSet(AllIdentities(S))
           /\ Len(SourceEvents(S)) = Cardinality(AllIdentities(S))
           /\ Len(SourceEvents(S)) \in Nat /\ DOMAIN SourceEvents(S) = 1..Len(SourceEvents(S))
           /\ \A n \in 1..Len(SourceEvents(S)) :
                 \E identity \in AllIdentities(S) : SourceEvents(S)[n] = Occurrence(S, identity)
           /\ S # {} => Len(SourceEvents(S)) # 0
<1> DEFINE I == AllIdentities(S)
           events == {Occurrence(S, identity) : identity \in I}
           occur == [identity \in I |-> Occurrence(S, identity)]
           key == [e \in events |-> <<e.facts[1].date, e.facts[1].id, e.event>>]
           above == [e \in events |-> {d \in events : Above(key[d], key[e])}]
           list == SourceEvents(S)
<1>1. IsFiniteSet(I)
  <2>1. IsFiniteSet({Identities(f) : f \in S})
    <3>1. [f \in S |-> Identities(f)] \in Surjection(S, {Identities(f) : f \in S})
      BY DEF Surjection
    <3> QED  BY <3>1, FS_Surjection DEF Group
  <2>2. \A T \in {Identities(f) : f \in S} : IsFiniteSet(T)
    BY IdentitiesAre DEF Group
  <2> QED  BY <2>1, <2>2, FS_UNION DEF AllIdentities
<1>2. ASSUME NEW identity \in I
      PROVE  /\ Occurrence(S, identity).facts[1] \in S
             /\ identity \in Identities(Occurrence(S, identity).facts[1])
             /\ Occurrence(S, identity).event = EventId(identity)
             /\ EventId(identity) \in Nat
  <2>1. PICK list1 : list1 = Occurrence(S, identity).facts
    OBVIOUS
  <2>2. list1 \in Seq(Supporters(S, identity)) /\ Len(list1) \in Nat \ {0}
        /\ Occurrence(S, identity).event = EventId(identity)
    BY <2>1, OccurrenceIs
  <2>3. list1[1] \in Supporters(S, identity)
    BY <2>2
  <2>4. list1[1] \in S /\ identity \in Identities(list1[1])
    BY <2>3 DEF Supporters
  <2>5. EventId(identity) \in Nat
    BY <2>4, IdentitiesAre DEF Group
  <2> QED  BY <2>1, <2>2, <2>4, <2>5
<1>3. ASSUME NEW i \in I, NEW j \in I,
             Occurrence(S, i).facts[1].id = Occurrence(S, j).facts[1].id,
             Occurrence(S, i).event = Occurrence(S, j).event
      PROVE  i = j
  <2>1. PICK f \in S : f = Occurrence(S, i).facts[1] /\ f = Occurrence(S, j).facts[1]
    BY <1>2, <1>3 DEF Group
  <2>2. i \in Identities(f) /\ j \in Identities(f) /\ EventId(i) = EventId(j)
    BY <1>2, <1>3, <2>1
  <2> QED  BY <2>2, IdentitiesAre DEF Group
<1>4. key \in [events -> Triple]
  <2>1. ASSUME NEW e \in events
        PROVE  <<e.facts[1].date, e.facts[1].id, e.event>> \in Triple
    <3>1. PICK i \in I : e = Occurrence(S, i)
      OBVIOUS
    <3>2. e.facts[1] \in SourceFact /\ e.event \in Nat
      BY <1>2, <3>1 DEF Group
    <3> QED  BY <3>2 DEF Triple, SourceFact
  <2> QED  BY <2>1
<1>5. ASSUME NEW d \in events, NEW e \in events, key[d] = key[e]
      PROVE  d = e
  <2>1. PICK i \in I, j \in I : d = Occurrence(S, i) /\ e = Occurrence(S, j)
    OBVIOUS
  <2>2. d.facts[1].id = e.facts[1].id /\ d.event = e.event
    BY <1>5
  <2> QED  BY <1>3, <2>1, <2>2
<1>6. Orders(events, above)
  <2> HIDE DEF events, key
  <2> QED  BY <1>4, <1>5, KeysOrder
<1>7. list = Sorted(above)
  <2>1. above = [e \in events |-> {d \in events : Above(<<d.facts[1].date, d.facts[1].id, d.event>>,
                                                        <<e.facts[1].date, e.facts[1].id, e.event>>)}]
    OBVIOUS
  <2> QED  BY <2>1 DEF SourceEvents, AllIdentities
<1>8. IsFiniteSet(events) /\ Cardinality(events) = Cardinality(I)
  <2>1. occur \in Bijection(I, events)
    <3>1. occur \in [I -> events] /\ \A e \in events : \E i \in I : occur[i] = e
      OBVIOUS
    <3>2. \A i, j \in I : occur[i] = occur[j] => i = j
      BY <1>3
    <3> QED  BY <3>1, <3>2 DEF Bijection, Injection, Surjection, IsInjective
  <2> QED  BY <1>1, <2>1, FS_Bijection DEF ExistsBijection
<1>9. Lists(list, events, above)
  <2> HIDE DEF events, above, list
  <2> QED  BY <1>6, <1>7, <1>8, SortedIs
<1>10. /\ Len(list) = Cardinality(I) /\ Len(list) \in Nat /\ DOMAIN list = 1..Len(list)
       /\ \A n \in 1..Len(list) : list[n] \in events
  <2> HIDE DEF events, above, list, I
  <2> QED  BY <1>8, <1>9 DEF Lists
<1>11. ASSUME S # {}
       PROVE  Len(list) # 0
  <2>1. PICK f \in S : TRUE
    BY <1>11
  <2>2. Identities(f) # {} /\ Identities(f) \subseteq I
    BY <2>1, IdentitiesAre DEF Group, AllIdentities
  <2>3. Cardinality(I) # 0
    BY <1>1, <2>2, FS_EmptySet
  <2> QED  BY <1>10, <2>3
<1>12. \A n \in 1..Len(list) : \E identity \in I : list[n] = Occurrence(S, identity)
  BY <1>10
<1> QED  BY <1>1, <1>10, <1>11, <1>12

(* Facts picked from S, none twice. *)
Distinct(picked, S) ==
    /\ picked \in Seq(S)
    /\ \A m, n \in 1..Len(picked) : picked[m] = picked[n] => m = n

LEMMA RepresentedIs ==
    ASSUME NEW S, NEW picked \in Seq(S), NEW list \in Seq(S)
    PROVE  /\ Represented(picked, list) \in Seq(S)
           /\ Distinct(picked, S) => Distinct(Represented(picked, list), S)
           /\ Len(Represented(picked, list)) >= Len(picked)
           /\ Len(list) # 0 => Len(Represented(picked, list)) # 0
<1> DEFINE fresh == {k \in DOMAIN list : list[k] \notin ToSet(picked)}
           least == CHOOSE k \in fresh : \A l \in fresh : k <= l
           R == Represented(picked, list)
<1>1. /\ Len(picked) \in Nat /\ Len(list) \in Nat /\ DOMAIN list = 1..Len(list)
      /\ DOMAIN picked = 1..Len(picked) /\ ToSet(picked) = {picked[k] : k \in 1..Len(picked)}
      /\ \A k \in 1..Len(list) : list[k] \in S
      /\ \A k \in 1..Len(picked) : picked[k] \in S
  BY DEF ToSet
<1>2. CASE fresh = {}
  <2>1. R = picked
    BY <1>2 DEF Represented
  <2>2. ASSUME Len(list) # 0, Len(picked) = 0
        PROVE  FALSE
    <3>1. 1 \in DOMAIN list /\ ToSet(picked) = {}
      BY <1>1, <2>2
    <3> QED  BY <1>2, <3>1
  <2> HIDE DEF R
  <2> QED  BY <1>1, <2>1, <2>2 DEF R
<1>3. CASE fresh # {}
  <2>1. PICK f : f = list[least]
    OBVIOUS
  <2>2. f \in S /\ f \notin ToSet(picked)
    <3>1. fresh \in SUBSET Nat
      BY <1>1
    <3>2. \E k \in fresh : \A l \in fresh : k <= l
      <4> HIDE DEF fresh
      <4> QED  BY <1>3, <3>1, Least
    <3>3. least \in fresh
      BY <3>2
    <3> QED  BY <1>1, <2>1, <3>3
  <2>3. R = Append(picked, f)
    BY <1>3, <2>1 DEF Represented
  <2> HIDE DEF R
  <2>4. /\ R \in Seq(S) /\ Len(R) = Len(picked) + 1 /\ R[Len(picked) + 1] = f
        /\ \A k \in 1..Len(picked) : R[k] = picked[k]
    BY <1>1, <2>2, <2>3
  <2>5. ASSUME Distinct(picked, S), NEW m \in 1..Len(R), NEW n \in 1..Len(R), R[m] = R[n]
        PROVE  m = n
    <3>1. \A k \in 1..Len(picked) : picked[k] # f
      BY <1>1, <2>2
    <3>2. /\ m \in 1..Len(picked) \/ m = Len(picked) + 1
          /\ n \in 1..Len(picked) \/ n = Len(picked) + 1
      BY <1>1, <2>4
    <3>3. CASE m \in 1..Len(picked) /\ n \in 1..Len(picked)
      BY <2>4, <2>5, <3>3 DEF Distinct
    <3>4. CASE m = Len(picked) + 1 \/ n = Len(picked) + 1
      BY <2>4, <2>5, <3>1, <3>2, <3>4
    <3> QED  BY <3>2, <3>3, <3>4
  <2>6. Distinct(picked, S) => Distinct(R, S)
    BY <2>4, <2>5 DEF Distinct
  <2> QED  BY <1>1, <2>4, <2>6 DEF R
<1> QED  BY <1>2, <1>3

LEMMA PickingsExist ==
    ASSUME NEW S, NEW events, Len(events) \in Nat,
           \A k \in 1..Len(events) : events[k].facts \in Seq(S)
    PROVE  /\ Pickings(events) \in [0..Len(events) -> Seq(S)]
           /\ Pickings(events)[0] = <<>>
           /\ \A k \in 1..Len(events) :
                 Pickings(events)[k] = Represented(Pickings(events)[k - 1], events[k].facts)
<1> DEFINE n == Len(events)
           step == [k \in 1..n |-> [p \in Seq(S) |-> Represented(p, events[k].facts)]]
           after == CHOOSE f : f = [k \in 0..n |-> IF k = 0 THEN <<>>
                                                   ELSE Represented(f[k - 1], events[k].facts)]
<1>1. n \in Nat /\ \A k \in 1..n : events[k].facts \in Seq(S)
  OBVIOUS
<1>2. PICK X, x : X = Seq(S) /\ x = <<>>
  OBVIOUS
<1>3. PICK f : f \in [0..n -> X] /\ f[0] = x
               /\ \A k \in 1..n : f[k] = Represented(f[k - 1], events[k].facts)
  <2> HIDE DEF n
  <2>1. /\ step \in [1..n -> [X -> X]] /\ x \in X
        /\ \A k \in 1..n : \A p \in X : step[k][p] = Represented(p, events[k].facts)
    <3>1. \A k \in 1..n : \A p \in X : Represented(p, events[k].facts) \in X
      BY <1>1, <1>2, RepresentedIs
    <3>2. x \in X
      BY <1>2
    <3> QED  BY <1>2, <3>1, <3>2
  <2> HIDE DEF step
  <2>2. \E f : Iterates(f, n, X, x, step)
    BY <1>1, <2>1, Iterated
  <2>3. PICK f : f \in [0..n -> X] /\ f[0] = x /\ \A k \in 1..n : f[k] = step[k][f[k - 1]]
    BY <2>2 DEF Iterates
  <2>4. ASSUME NEW k \in 1..n
        PROVE  f[k] = Represented(f[k - 1], events[k].facts)
    <3>1. k - 1 \in 0..n
      BY <1>1
    <3>2. f[k - 1] \in X
      BY <2>3, <3>1
    <3> QED  BY <2>1, <2>3, <3>2
  <2> QED  BY <2>3, <2>4
<1>4. \A g : g = [k \in 0..n |-> IF k = 0 THEN <<>> ELSE Represented(g[k - 1], events[k].facts)]
         => g[0] = x /\ \A k \in 1..n : g[k] = Represented(g[k - 1], events[k].facts)
  <2>1. 0 \in 0..n /\ \A k \in 1..n : k \in 0..n /\ k # 0
    BY <1>1
  <2> HIDE DEF n
  <2> QED  BY <1>2, <2>1
<1>5. f = [k \in 0..n |-> IF k = 0 THEN <<>> ELSE Represented(f[k - 1], events[k].facts)]
  <2> HIDE DEF n
  <2>1. ASSUME NEW k \in 0..n
        PROVE  f[k] = IF k = 0 THEN <<>> ELSE Represented(f[k - 1], events[k].facts)
    <3>1. k = 0 \/ (k \in 1..n /\ k # 0)
      BY <1>1
    <3> QED  BY <1>2, <1>3, <3>1
  <2>2. f = [k \in 0..n |-> f[k]]
    BY <1>3
  <2> QED  BY <2>1, <2>2
<1>6. after = [k \in 0..n |-> IF k = 0 THEN <<>> ELSE Represented(after[k - 1], events[k].facts)]
  BY <1>5
<1>7. Pickings(events) = after
  BY DEF Pickings
<1> HIDE DEF n, after
<1>8. after[0] = x /\ \A k \in 1..n : after[k] = Represented(after[k - 1], events[k].facts)
  BY <1>4, <1>6
<1>9. after \in [0..n -> X]
  <2> DEFINE T == {k \in 0..n : after[k] \in X}
  <2>1. 0 \in T
    BY <1>1, <1>3, <1>8
  <2>2. ASSUME NEW k \in 0..n, k \in T, k # n
        PROVE  k + 1 \in T
    <3>1. k + 1 \in 1..n /\ k + 1 \in 0..n /\ (k + 1) - 1 = k
      BY <1>1, <2>2
    <3>2. after[k + 1] = Represented(after[k], events[k + 1].facts) /\ after[k] \in X
      BY <1>8, <2>2, <3>1
    <3>3. after[k + 1] \in X
      BY <1>1, <1>2, <3>1, <3>2, RepresentedIs
    <3> QED  BY <3>1, <3>3
  <2> HIDE DEF T
  <2>3. T = 0..n
    <3>1. T \in SUBSET (0..n)
      BY DEF T
    <3> QED  BY <1>1, <2>1, <2>2, <3>1, UpTo
  <2>4. \A k \in 0..n : after[k] \in X
    BY <2>3 DEF T
  <2>5. after = [k \in 0..n |-> after[k]]
    BY <1>6
  <2> QED  BY <2>4, <2>5
<1> QED  BY <1>2, <1>7, <1>8, <1>9 DEF n

(* What is picked of a group is of it, no fact twice, and not nothing. *)
LEMMA PickedAre ==
    ASSUME NEW S, Group(S)
    PROVE  /\ Distinct(Picked(SourceEvents(S)), S)
           /\ S # {} => Len(Picked(SourceEvents(S))) # 0
<1> DEFINE events == SourceEvents(S)
           n == Len(events)
           after == Pickings(events)
           T == {k \in 0..n : Distinct(after[k], S) /\ (k # 0 => Len(after[k]) # 0)}
<1>1. n \in Nat /\ \A k \in 1..n : events[k].facts \in Seq(S) /\ Len(events[k].facts) \in Nat \ {0}
  <2>1. ASSUME NEW k \in 1..n
        PROVE  events[k].facts \in Seq(S) /\ Len(events[k].facts) \in Nat \ {0}
    <3>1. PICK i \in AllIdentities(S) : events[k] = Occurrence(S, i)
      BY EventsAre
    <3>2. PICK list : list = events[k].facts
      OBVIOUS
    <3>3. list \in Seq(Supporters(S, i)) /\ Len(list) \in Nat \ {0}
      BY <3>1, <3>2, OccurrenceIs
    <3>4. Supporters(S, i) \subseteq S
      BY DEF Supporters
    <3>5. list \in Seq(S)
      BY <3>3, <3>4
    <3> QED  BY <3>2, <3>3, <3>5
  <2> QED  BY <2>1, EventsAre
<1>2. /\ after \in [0..n -> Seq(S)] /\ after[0] = <<>>
      /\ \A k \in 1..n : after[k] = Represented(after[k - 1], events[k].facts)
  <2> HIDE DEF events
  <2> QED  BY <1>1, PickingsExist
<1>3. Picked(events) = after[n]
  BY DEF Picked
<1> HIDE DEF events, n, after
<1>4. 0 \in T
  BY <1>1, <1>2 DEF Distinct
<1>5. ASSUME NEW k \in 0..n, k \in T, k # n
      PROVE  k + 1 \in T
  <2>1. k + 1 \in 1..n /\ k + 1 \in 0..n /\ (k + 1) - 1 = k
    BY <1>1, <1>5
  <2>2. after[k + 1] = Represented(after[k], events[k + 1].facts)
    BY <1>2, <2>1
  <2>3. /\ after[k] \in Seq(S) /\ Distinct(after[k], S) /\ events[k + 1].facts \in Seq(S)
        /\ Len(events[k + 1].facts) # 0
    BY <1>1, <1>2, <1>5, <2>1
  <2>4. Distinct(after[k + 1], S) /\ Len(after[k + 1]) # 0
    BY <2>2, <2>3, RepresentedIs
  <2> QED  BY <2>1, <2>4
<1>6. T = 0..n
  <2> HIDE DEF T
  <2>1. T \in SUBSET (0..n)
    BY DEF T
  <2> QED  BY <1>1, <1>4, <1>5, <2>1, UpTo
<1>7. Distinct(after[n], S) /\ (n # 0 => Len(after[n]) # 0)
  <2>1. n \in T
    BY <1>1, <1>6
  <2> QED  BY <2>1
<1>8. S # {} => n # 0
  BY EventsAre DEF events, n
<1> QED  BY <1>3, <1>7, <1>8 DEF events

Dated(picked, d) == {k \in 1..Len(picked) : picked[k].date = d}

Earlier(picked) ==
    [k \in 1..Len(picked) |->
        {j \in 1..Len(picked) :
            \/ Round(picked, j) < Round(picked, k)
            \/ Round(picked, j) = Round(picked, k) /\ picked[j].date > picked[k].date}]

(* Facts of one date are taken in different rounds, in the order picked. *)
LEMMA RoundIs ==
    ASSUME NEW picked \in Seq(SourceFact)
    PROVE  /\ \A d : IsFiniteSet(Dated(picked, d)) /\ Dated(picked, d) \in SUBSET Nat
           /\ \A k \in 1..Len(picked) :
                 /\ picked[k].date \in Nat
                 /\ Round(picked, k) \in Nat
                 /\ Round(picked, k) = Cardinality({j \in Dated(picked, picked[k].date) : j < k})
           /\ \A j, k \in 1..Len(picked) :
                 j < k /\ picked[j].date = picked[k].date => Round(picked, j) < Round(picked, k)
<1> DEFINE n == Len(picked)
           Before(k) == {j \in 1..n : j < k /\ picked[j].date = picked[k].date}
<1>1. n \in Nat /\ DOMAIN picked = 1..n /\ IsFiniteSet(1..n)
  <2>1. n \in Nat /\ DOMAIN picked = 1..n
    OBVIOUS
  <2>2. 1 \in Int /\ n \in Int
    BY <2>1
  <2> QED  BY <2>1, <2>2, FS_Interval
<1>2. \A k \in 1..n : picked[k].date \in Nat
  <2>1. \A k \in 1..n : picked[k] \in SourceFact
    OBVIOUS
  <2> QED  BY <2>1 DEF SourceFact
<1>3. ASSUME NEW d
      PROVE  IsFiniteSet(Dated(picked, d)) /\ Dated(picked, d) \in SUBSET Nat
  <2>1. Dated(picked, d) \subseteq 1..n
    BY DEF Dated
  <2>2. IsFiniteSet(Dated(picked, d))
    BY <1>1, <2>1, FS_Subset
  <2> QED  BY <1>1, <2>1, <2>2
<1>4. ASSUME NEW k \in 1..n
      PROVE  /\ Round(picked, k) = Cardinality(Before(k))
             /\ Before(k) = {j \in Dated(picked, picked[k].date) : j < k}
             /\ IsFiniteSet(Before(k)) /\ Round(picked, k) \in Nat
  <2>1. Round(picked, k) = Cardinality(Before(k))
    BY <1>1 DEF Round
  <2>2. IsFiniteSet(Before(k)) /\ Cardinality(Before(k)) \in Nat
    <3>1. Before(k) \subseteq 1..n
      OBVIOUS
    <3>2. IsFiniteSet(Before(k))
      BY <1>1, <3>1, FS_Subset
    <3> QED  BY <3>2, FS_CardinalityType
  <2>3. Before(k) = {j \in Dated(picked, picked[k].date) : j < k}
    BY DEF Dated
  <2> QED  BY <2>1, <2>2, <2>3
<1>5. ASSUME NEW j \in 1..n, NEW k \in 1..n, j < k, picked[j].date = picked[k].date
      PROVE  Round(picked, j) < Round(picked, k)
  <2>1. j \notin Before(j) /\ Before(j) \cup {j} \subseteq Before(k)
    <3>1. \A i \in Before(j) : i \in 1..n /\ i < k /\ picked[i].date = picked[k].date
      BY <1>1, <1>5
    <3>2. j \in Before(k) /\ ~(j < j)
      BY <1>1, <1>5
    <3> QED  BY <3>1, <3>2
  <2> HIDE DEF Before
  <2>2. Cardinality(Before(j) \cup {j}) = Cardinality(Before(j)) + 1
    BY <1>4, <2>1, FS_AddElement
  <2>3. Cardinality(Before(j) \cup {j}) <= Cardinality(Before(k))
    BY <1>4, <2>1, FS_Subset
  <2>4. Cardinality(Before(j)) \in Nat /\ Cardinality(Before(k)) \in Nat
    BY <1>4
  <2>5. Cardinality(Before(j)) < Cardinality(Before(k))
    BY <2>2, <2>3, <2>4
  <2> QED  BY <1>4, <2>5
<1> QED  BY <1>2, <1>3, <1>4, <1>5

LEMMA TurnsAre ==
    ASSUME NEW picked \in Seq(SourceFact)
    PROVE  /\ Lists(Turns(picked), 1..Len(picked), Earlier(picked))
           /\ Len(Turns(picked)) = Len(picked)
<1> DEFINE n == Len(picked)
           above == Earlier(picked)
           R == [k \in 1..n |-> Round(picked, k)]
           D == [k \in 1..n |-> picked[k].date]
<1>1. n \in Nat /\ DOMAIN picked = 1..n /\ IsFiniteSet(1..n) /\ Cardinality(1..n) = n
  <2>1. n \in Nat /\ DOMAIN picked = 1..n
    OBVIOUS
  <2>2. 1 \in Int /\ n \in Int
    BY <2>1
  <2>3. IsFiniteSet(1..n) /\ Cardinality(1..n) = IF 1 > n THEN 0 ELSE n - 1 + 1
    BY <2>2, FS_Interval
  <2> QED  BY <2>1, <2>3
<1>2. /\ \A k \in 1..n : R[k] \in Nat /\ D[k] \in Nat
      /\ \A j, k \in 1..n : j < k /\ D[j] = D[k] => R[j] < R[k]
  BY RoundIs
<1>3. /\ DOMAIN above = 1..n
      /\ \A k \in 1..n : above[k] = {j \in 1..n : R[j] < R[k] \/ (R[j] = R[k] /\ D[j] > D[k])}
  BY DEF Earlier
<1>4. Turns(picked) = Sorted(above)
  BY <1>1 DEF Turns, Earlier
<1> HIDE DEF above, R, D, n
<1>5. \A k \in 1..n : above[k] \subseteq (1..n) \ {k}
  <2> SUFFICES ASSUME NEW k \in 1..n  PROVE k \notin above[k]
    BY <1>3
  <2> QED  BY <1>2, <1>3
<1>6. ASSUME NEW j \in 1..n, NEW k \in 1..n, j # k
      PROVE  j \in above[k] \/ k \in above[j]
  <2>1. R[j] # R[k] \/ D[j] # D[k]
    <3>1. (j < k \/ k < j)
      BY <1>1, <1>6
    <3> QED  BY <1>2, <3>1
  <2>2. R[j] < R[k] \/ R[k] < R[j] \/ (R[j] = R[k] /\ (D[j] > D[k] \/ D[k] > D[j]))
    BY <1>2, <2>1
  <2> QED  BY <1>3, <2>2
<1>7. ASSUME NEW j \in 1..n, NEW k \in 1..n, j \in above[k], NEW i \in above[j]
      PROVE  i \in above[k]
  <2>1. /\ R[j] < R[k] \/ (R[j] = R[k] /\ D[j] > D[k])
        /\ R[i] < R[j] \/ (R[i] = R[j] /\ D[i] > D[j])
        /\ i \in 1..n
    BY <1>3, <1>7
  <2>2. /\ R[i] \in Nat /\ R[j] \in Nat /\ R[k] \in Nat
        /\ D[i] \in Nat /\ D[j] \in Nat /\ D[k] \in Nat
    BY <1>2, <2>1
  <2>3. R[i] < R[k] \/ (R[i] = R[k] /\ D[i] > D[k])
    BY <2>1, <2>2
  <2> QED  BY <1>3, <2>1, <2>3
<1>8. Orders(1..n, above)
  BY <1>3, <1>5, <1>6, <1>7 DEF Orders
<1>9. Lists(Turns(picked), 1..n, above)
  BY <1>1, <1>4, <1>8, SortedIs
<1> QED  BY <1>1, <1>9 DEF Lists, n, above

(* The sample: distinct facts of the group, taken in turn. *)
LEMMA InputsAre ==
    ASSUME NEW S, Group(S), NEW picked, picked = Picked(SourceEvents(S)),
           NEW inputs, inputs = RepresentativeInputs(SourceEvents(S))
    PROVE  /\ Distinct(picked, S) /\ Len(picked) \in Nat /\ (S # {} => Len(picked) # 0)
           /\ Len(inputs) = (IF Len(picked) < MaxInputs THEN Len(picked) ELSE MaxInputs)
           /\ Distinct(inputs, S)
           /\ \A n \in 1..Len(inputs) : Turns(picked)[n] \in 1..Len(picked)
                                        /\ inputs[n] = picked[Turns(picked)[n]]
<1> DEFINE t == Turns(picked)
           m == IF Len(picked) < MaxInputs THEN Len(picked) ELSE MaxInputs
<1>1. Distinct(picked, S) /\ (S # {} => Len(picked) # 0)
  BY PickedAre
<1>2. picked \in Seq(SourceFact) /\ Len(picked) \in Nat
  BY <1>1 DEF Distinct, Group
<1>3. m \in Nat /\ m <= Len(picked)
  BY <1>2, LineageAssumption DEF LineageAssumption
<1>4. Lists(t, 1..Len(picked), Earlier(picked)) /\ Len(t) = Len(picked)
  BY <1>2, TurnsAre
<1>5. inputs = [n \in 1..m |-> picked[t[n]]]
  BY DEF RepresentativeInputs
<1> HIDE DEF t, m
<1>6. ASSUME NEW n \in 1..m
      PROVE  t[n] \in 1..Len(picked) /\ inputs[n] = picked[t[n]] /\ inputs[n] \in S
  <2>1. n \in 1..Len(t)
    BY <1>2, <1>3, <1>4
  <2>2. t[n] \in 1..Len(picked)
    BY <2>1, <1>4 DEF Lists
  <2> QED  BY <1>1, <1>5, <2>2 DEF Distinct
<1>7. inputs \in Seq(S) /\ Len(inputs) = m
  <2>1. inputs \in [1..m -> S]
    BY <1>5, <1>6
  <2> QED  BY <1>3, <2>1
<1>8. ASSUME NEW j \in 1..m, NEW k \in 1..m, inputs[j] = inputs[k]
      PROVE  j = k
  <2>1. t[j] = t[k]
    BY <1>1, <1>6, <1>8 DEF Distinct
  <2>2. j \in 1..Len(t) /\ k \in 1..Len(t)
    BY <1>2, <1>3, <1>4
  <2> QED  BY <1>4, <2>1, <2>2 DEF Lists
<1> QED  BY <1>1, <1>2, <1>6, <1>7, <1>8 DEF Distinct, m, t

(* Whoever takes facts in turn takes of a date that has facts left at most *)
(* one less than of another, and of a later date not less than of this.    *)
LEMMA TakenFairly ==
    ASSUME NEW picked \in Seq(SourceFact), NEW Q \in SUBSET (1..Len(picked)),
           \A k \in Q : Earlier(picked)[k] \subseteq Q,
           NEW d \in Nat, NEW e \in Nat,
           Cardinality(Q \cap Dated(picked, d)) < Cardinality(Dated(picked, d))
    PROVE  Cardinality(Q \cap Dated(picked, e))
              <= Cardinality(Q \cap Dated(picked, d)) + IF e > d THEN 1 ELSE 0
<1> DEFINE P(x) == Dated(picked, x)
           c(x) == Cardinality(Q \cap P(x))
           Up(x, k) == {j \in P(x) : j < k}
<1>1. ASSUME NEW x
      PROVE  /\ IsFiniteSet(P(x)) /\ P(x) \in SUBSET Nat
             /\ P(x) = {k \in 1..Len(picked) : picked[k].date = x}
             /\ IsFiniteSet(Q \cap P(x)) /\ c(x) \in Nat /\ Q \cap P(x) \in SUBSET Nat
  <2>1. IsFiniteSet(P(x)) /\ P(x) \in SUBSET Nat
    BY RoundIs
  <2>2. P(x) = {k \in 1..Len(picked) : picked[k].date = x}
    BY DEF Dated
  <2>3. IsFiniteSet(Q \cap P(x))
    BY <2>1, FS_Intersection
  <2>4. c(x) \in Nat
    BY <2>3, FS_CardinalityType
  <2> QED  BY <2>1, <2>2, <2>3, <2>4
<1>2. ASSUME NEW x, NEW k \in P(x)
      PROVE  /\ k \in 1..Len(picked) /\ picked[k].date = x /\ k \in Nat
             /\ Round(picked, k) = Cardinality(Up(x, k)) /\ Round(picked, k) \in Nat
  <2>1. k \in 1..Len(picked) /\ picked[k].date = x /\ k \in Nat
    BY <1>1, <1>2
  <2> QED  BY <2>1, RoundIs
<1>3. ASSUME NEW j \in 1..Len(picked), NEW k \in Q,
             \/ Round(picked, j) < Round(picked, k)
             \/ Round(picked, j) = Round(picked, k) /\ picked[j].date > picked[k].date
      PROVE  j \in Q
  <2>1. k \in 1..Len(picked) /\ j \in Earlier(picked)[k]
    BY <1>3 DEF Earlier
  <2> QED  BY <2>1
<1> HIDE DEF P, Up
<1>4. ASSUME NEW x, NEW k \in Q \cap P(x)
      PROVE  Up(x, k) \subseteq Q \cap P(x)
  <2> SUFFICES ASSUME NEW j \in P(x), j < k  PROVE j \in Q
    BY DEF Up
  <2>1. Round(picked, j) < Round(picked, k)
    BY <1>2, RoundIs
  <2> QED  BY <1>2, <1>3, <2>1
<1>5. PICK a \in P(d) : Round(picked, a) = c(d) /\ a \notin Q
  <2>1. Cardinality(P(d)) \in Nat /\ c(d) \in 0..(Cardinality(P(d)) - 1)
    <3>1. Cardinality(P(d)) \in Nat
      BY <1>1, FS_CardinalityType
    <3>2. c(d) < Cardinality(P(d)) /\ c(d) \in Nat
      BY <1>1 DEF P
    <3> QED  BY <3>1, <3>2
  <2>2. PICK a \in P(d) : Cardinality({l \in P(d) : l < a}) = c(d)
    BY <1>1, <2>1, RankIn
  <2>3. Round(picked, a) = c(d) /\ Cardinality(Up(d, a)) = c(d)
    BY <1>2, <2>2 DEF Up
  <2>4. ASSUME a \in Q
        PROVE  FALSE
    <3>1. Up(d, a) \subseteq Q \cap P(d)
      BY <1>4, <2>4
    <3>2. a \notin Up(d, a) /\ Up(d, a) \cup {a} \subseteq Q \cap P(d)
      <4>1. ~(a < a)
        BY <1>2
      <4> QED  BY <2>4, <3>1, <4>1 DEF Up
    <3>3. IsFiniteSet(Up(d, a))
      BY <1>1, <3>1, FS_Subset
    <3>4. Cardinality(Up(d, a) \cup {a}) = c(d) + 1
      BY <2>3, <3>2, <3>3, FS_AddElement
    <3>5. Cardinality(Up(d, a) \cup {a}) <= c(d)
      BY <1>1, <3>2, FS_Subset
    <3>6. c(d) \in Nat
      BY <1>1
    <3> HIDE DEF c
    <3> QED  BY <3>4, <3>5, <3>6
  <2> QED  BY <2>3, <2>4
<1>6. PICK b : b = c(d) + (IF e > d THEN 1 ELSE 0) /\ b \in Nat
  <2>1. c(d) \in Nat
    BY <1>1
  <2> HIDE DEF c
  <2> QED  BY <2>1
<1>7. ASSUME c(e) > b
      PROVE  FALSE
  <2>1. PICK y \in Q \cap P(e) : Cardinality({l \in Q \cap P(e) : l < y}) = b
    <3>1. Cardinality(Q \cap P(e)) \in Nat /\ b \in 0..(Cardinality(Q \cap P(e)) - 1)
      <4>1. c(e) \in Nat
        BY <1>1
      <4>2. c(e) > b
        BY <1>7
      <4>3. c(e) = Cardinality(Q \cap P(e))
        OBVIOUS
      <4> HIDE DEF c
      <4> QED  BY <1>6, <4>1, <4>2, <4>3
    <3>2. IsFiniteSet(Q \cap P(e)) /\ Q \cap P(e) \in SUBSET Nat
      BY <1>1
    <3> QED  BY <3>1, <3>2, RankIn
  <2>2. {l \in Q \cap P(e) : l < y} = Up(e, y)
    BY <1>4 DEF Up
  <2>3. Round(picked, y) = b /\ picked[y].date = e /\ y \in 1..Len(picked)
    BY <1>2, <2>1, <2>2
  <2>4. Round(picked, a) = c(d) /\ picked[a].date = d /\ a \in 1..Len(picked) /\ a \notin Q /\ c(d) \in Nat
    BY <1>1, <1>2, <1>5
  <2> HIDE DEF c
  <2>5. CASE e > d
    <3>1. Round(picked, a) < Round(picked, y)
      BY <1>6, <2>3, <2>4, <2>5
    <3> QED  BY <1>3, <2>1, <2>4, <3>1
  <2>6. CASE d > e
    <3>1. Round(picked, a) = Round(picked, y) /\ picked[a].date > picked[y].date
      BY <1>6, <2>3, <2>4, <2>6
    <3> QED  BY <1>3, <2>1, <2>4, <3>1
  <2>7. CASE d = e
    <3>1. Round(picked, a) = Round(picked, y) /\ picked[a].date = picked[y].date
      BY <1>6, <2>3, <2>4, <2>7
    <3>2. a = y
      <4>1. a < y \/ y < a \/ a = y
        BY <1>2, <1>5, <2>1
      <4>2. Round(picked, a) \in Nat
        BY <2>4
      <4> QED  BY <2>3, <2>4, <3>1, <4>1, <4>2, RoundIs
    <3> QED  BY <2>1, <2>4, <3>2
  <2> QED  BY <2>5, <2>6, <2>7
<1>8. c(e) \in Nat
  BY <1>1
<1>9. c(e) <= b
  <2> HIDE DEF c
  <2> QED  BY <1>6, <1>7, <1>8
<1> QED  BY <1>6, <1>9 DEF P

(* Of a date as many facts are sampled as positions of it are taken.       *)
FactsAt(picked, Q) == {picked[k] : k \in Q}

OfDate(T, d) == {f \in T : f.date = d}

LEMMA CountOn ==
    ASSUME NEW S, NEW picked, Distinct(picked, S), NEW Q \in SUBSET (1..Len(picked)), NEW d
    PROVE  /\ IsFiniteSet(FactsAt(picked, Q))
           /\ Cardinality(FactsAt(picked, Q)) = Cardinality(Q)
           /\ Cardinality(OfDate(FactsAt(picked, Q), d)) = Cardinality(Q \cap Dated(picked, d))
<1>1. IsFiniteSet(1..Len(picked))
  <2>1. 1 \in Int /\ Len(picked) \in Int
    BY DEF Distinct
  <2> QED  BY <2>1, FS_Interval
<1>2. ASSUME NEW T \in SUBSET (1..Len(picked))
      PROVE  IsFiniteSet(FactsAt(picked, T)) /\ Cardinality(FactsAt(picked, T)) = Cardinality(T)
  <2> DEFINE U == FactsAt(picked, T)
             f == [k \in T |-> picked[k]]
  <2>1. f \in [T -> U] /\ \A u \in U : \E k \in T : f[k] = u
    BY DEF FactsAt
  <2>2. \A j, k \in T : f[j] = f[k] => j = k
    BY DEF Distinct
  <2> HIDE DEF f, U
  <2>3. f \in Bijection(T, U)
    BY <2>1, <2>2 DEF Bijection, Injection, Surjection, IsInjective
  <2>4. IsFiniteSet(T)
    BY <1>1, FS_Subset
  <2>5. IsFiniteSet(U) /\ Cardinality(U) = Cardinality(T)
    BY <2>3, <2>4, FS_Bijection DEF ExistsBijection
  <2> QED  BY <2>5 DEF U
<1>3. OfDate(FactsAt(picked, Q), d) = FactsAt(picked, Q \cap Dated(picked, d))
  <2>1. Q \cap Dated(picked, d) = {k \in Q : picked[k].date = d}
    BY DEF Dated
  <2> QED  BY <2>1 DEF OfDate, FactsAt
<1>4. Q \cap Dated(picked, d) \in SUBSET (1..Len(picked))
  OBVIOUS
<1> QED  BY <1>2, <1>3, <1>4

(* What is sampled, of what could be: all or the cap, and no date unfairly. *)
LEMMA SampleIs ==
    ASSUME NEW S, Group(S), NEW picked, picked = Picked(SourceEvents(S)),
           NEW inputs, inputs = RepresentativeInputs(SourceEvents(S)),
           NEW sample, sample = ToSet(inputs), NEW pool, pool = ToSet(picked)
    PROVE  /\ Cardinality(sample) = IF Cardinality(pool) < MaxInputs THEN Cardinality(pool) ELSE MaxInputs
           /\ sample \subseteq pool /\ pool \subseteq S
           /\ \A d, e \in Nat :
                 Cardinality(OfDate(sample, d)) < Cardinality(OfDate(pool, d))
                 => Cardinality(OfDate(sample, e))
                       <= Cardinality(OfDate(sample, d)) + IF e > d THEN 1 ELSE 0
<1> DEFINE t == Turns(picked)
           m == Len(inputs)
           Q == {t[n] : n \in 1..m}
           D == 1..Len(picked)
<1>1. /\ Distinct(picked, S) /\ Len(picked) \in Nat
      /\ m = (IF Len(picked) < MaxInputs THEN Len(picked) ELSE MaxInputs)
      /\ Distinct(inputs, S)
      /\ \A n \in 1..m : t[n] \in D /\ inputs[n] = picked[t[n]]
  BY InputsAre
<1>2. m \in Nat /\ m <= Len(picked)
  BY <1>1, LineageAssumption DEF LineageAssumption
<1>3. picked \in Seq(SourceFact) /\ picked \in Seq(S) /\ inputs \in Seq(S)
  BY <1>1 DEF Distinct, Group
<1>4. Lists(t, D, Earlier(picked)) /\ Len(t) = Len(picked)
  BY <1>3, TurnsAre
<1>5. Q \in SUBSET D
  BY <1>1
<1>6. sample = FactsAt(picked, Q) /\ pool = FactsAt(picked, D)
  <2>1. DOMAIN inputs = 1..m /\ DOMAIN picked = D
    BY <1>3
  <2>2. pool = FactsAt(picked, D)
    BY <2>1 DEF ToSet, FactsAt
  <2>3. sample = {inputs[n] : n \in 1..m}
    BY <2>1 DEF ToSet
  <2>4. {inputs[n] : n \in 1..m} = {picked[t[n]] : n \in 1..m}
    BY <1>1
  <2>5. {picked[t[n]] : n \in 1..m} = FactsAt(picked, Q)
    BY DEF FactsAt
  <2> QED  BY <2>2, <2>3, <2>4, <2>5
<1>7. ASSUME NEW k \in Q, NEW j \in Earlier(picked)[k]
      PROVE  j \in Q
  <2>1. PICK b \in 1..m : k = t[b]
    OBVIOUS
  <2>2. j \in D
    BY <1>5 DEF Earlier
  <2>3. PICK a \in 1..Len(t) : t[a] = j
    BY <1>4, <2>2 DEF Lists
  <2>4. b \in 1..Len(t)
    BY <1>2, <1>4
  <2>5. a < b
    BY <1>4, <1>7, <2>1, <2>3, <2>4 DEF Lists
  <2>6. a \in 1..m
    BY <1>2, <2>3, <2>5
  <2> QED  BY <2>3, <2>6
<1>8. Cardinality(Q) = m /\ Cardinality(D) = Len(picked)
  <2>1. IsFiniteSet(1..m) /\ Cardinality(1..m) = m /\ Cardinality(D) = Len(picked)
    <3>1. 1 \in Int /\ m \in Int /\ Len(picked) \in Int
      BY <1>1, <1>2
    <3>2. /\ IsFiniteSet(1..m) /\ Cardinality(1..m) = IF 1 > m THEN 0 ELSE m - 1 + 1
          /\ Cardinality(1..Len(picked)) = IF 1 > Len(picked) THEN 0 ELSE Len(picked) - 1 + 1
      BY <3>1, FS_Interval
    <3> QED  BY <1>1, <1>2, <3>2
  <2>2. [n \in 1..m |-> t[n]] \in Bijection(1..m, Q)
    <3>1. \A i, n \in 1..m : t[i] = t[n] => i = n
      <4>1. \A n \in 1..m : n \in 1..Len(t)
        BY <1>1, <1>2, <1>4
      <4> QED  BY <1>4, <4>1 DEF Lists
    <3> HIDE DEF t
    <3> QED  BY <3>1 DEF Bijection, Injection, Surjection, IsInjective
  <2>3. Cardinality(Q) = Cardinality(1..m)
    BY <2>1, <2>2, FS_Bijection DEF ExistsBijection
  <2> QED  BY <2>1, <2>3
<1> HIDE DEF t, Q, m
<1>9. /\ Cardinality(sample) = m /\ Cardinality(pool) = Len(picked)
      /\ \A d : /\ Cardinality(OfDate(sample, d)) = Cardinality(Q \cap Dated(picked, d))
                /\ Cardinality(OfDate(pool, d)) = Cardinality(Dated(picked, d))
  <2>1. \A d : /\ Cardinality(FactsAt(picked, Q)) = Cardinality(Q)
               /\ Cardinality(OfDate(FactsAt(picked, Q), d)) = Cardinality(Q \cap Dated(picked, d))
    BY <1>1, <1>5, CountOn
  <2>2. \A d : /\ Cardinality(FactsAt(picked, D)) = Cardinality(D)
               /\ Cardinality(OfDate(FactsAt(picked, D), d)) = Cardinality(D \cap Dated(picked, d))
    <3>1. PICK A \in SUBSET (1..Len(picked)) : A = D
      OBVIOUS
    <3> HIDE DEF D
    <3>2. \A d : /\ Cardinality(FactsAt(picked, A)) = Cardinality(A)
                 /\ Cardinality(OfDate(FactsAt(picked, A), d)) = Cardinality(A \cap Dated(picked, d))
      <4> SUFFICES ASSUME NEW d
                   PROVE  /\ Cardinality(FactsAt(picked, A)) = Cardinality(A)
                          /\ Cardinality(OfDate(FactsAt(picked, A), d))
                                = Cardinality(A \cap Dated(picked, d))
        OBVIOUS
      <4>1. A \in SUBSET (1..Len(picked)) /\ Distinct(picked, S)
        BY <1>1
      <4> HIDE <3>1
      <4> QED  BY <4>1, CountOn
    <3> QED  BY <3>1, <3>2
  <2>3. \A d : D \cap Dated(picked, d) = Dated(picked, d)
    BY DEF Dated
  <2> QED  BY <1>6, <1>8, <2>1, <2>2, <2>3
<1>10. ASSUME NEW d \in Nat, NEW e \in Nat,
              Cardinality(Q \cap Dated(picked, d)) < Cardinality(Dated(picked, d))
       PROVE  Cardinality(Q \cap Dated(picked, e))
                 <= Cardinality(Q \cap Dated(picked, d)) + IF e > d THEN 1 ELSE 0
  BY <1>3, <1>5, <1>7, <1>10, TakenFairly
<1>11. sample \subseteq pool /\ pool \subseteq S
  BY <1>3, <1>5, <1>6 DEF FactsAt
<1>12. ASSUME NEW d \in Nat, NEW e \in Nat,
              Cardinality(OfDate(sample, d)) < Cardinality(OfDate(pool, d))
       PROVE  Cardinality(OfDate(sample, e))
                 <= Cardinality(OfDate(sample, d)) + IF e > d THEN 1 ELSE 0
  <2>1. /\ Cardinality(OfDate(sample, d)) = Cardinality(Q \cap Dated(picked, d))
        /\ Cardinality(OfDate(sample, e)) = Cardinality(Q \cap Dated(picked, e))
        /\ Cardinality(OfDate(pool, d)) = Cardinality(Dated(picked, d))
    BY <1>9
  <2> QED  BY <1>10, <1>12, <2>1
<1>13. Cardinality(sample) = IF Cardinality(pool) < MaxInputs THEN Cardinality(pool) ELSE MaxInputs
  BY <1>1, <1>9
<1> QED  BY <1>11, <1>12, <1>13

(* The identities of a group: what its facts cite, where they point who    *)
(* cite nothing, and what those say, on a date, that do neither.           *)
CitedBy(S) == UNION {f.events : f \in S}
AnchorsOf(S) == {f.anchors : f \in {g \in S : g.events = {} /\ g.anchors # {}}}
TextsOf(S) == {<<f.text, f.date>> : f \in {g \in S : g.events = {} /\ g.anchors = {}}}

LEMMA TagsDiffer ==
    /\ \A e, x : <<"event", e, x>>[1] = "event" /\ <<"event", e, x>>[2] = e
    /\ \A e, x : <<"anchor", e, x>>[1] = "anchor" /\ <<"anchor", e, x>>[2] = e
    /\ \A e, x : /\ <<"text", e, x>>[1] = "text" /\ <<"text", e, x>>[2] = e
                 /\ <<"text", e, x>>[3] = x
  OBVIOUS

LEMMA Counting ==
    ASSUME NEW S, Group(S)
    PROVE  Cardinality(AllIdentities(S))
              = Cardinality(CitedBy(S)) + Cardinality(AnchorsOf(S)) + Cardinality(TextsOf(S))
<1> DEFINE cited == [e \in CitedBy(S) |-> <<"event", {e}, 0>>]
           anchored == [a \in AnchorsOf(S) |-> <<"anchor", a, 0>>]
           said == [p \in TextsOf(S) |-> <<"text", {p[1]}, p[2]>>]
           A == {cited[e] : e \in CitedBy(S)}
           B == {anchored[a] : a \in AnchorsOf(S)}
           C == {said[p] : p \in TextsOf(S)}
<1>1. /\ \A e \in CitedBy(S) : cited[e][1] = "event" /\ cited[e][2] = {e}
      /\ \A a \in AnchorsOf(S) : anchored[a][1] = "anchor" /\ anchored[a][2] = a
      /\ \A p \in TextsOf(S) : said[p][1] = "text" /\ said[p][2] = {p[1]} /\ said[p][3] = p[2]
  BY TagsDiffer
<1>2. \A i \in A : i[1] = "event"
  BY <1>1
<1>3. \A i \in B : i[1] = "anchor"
  BY <1>1
<1>4. \A i \in C : i[1] = "text"
  BY <1>1
<1>5. A \cap B = {} /\ (A \cup B) \cap C = {}
  <2> HIDE DEF A, B, C
  <2> QED  BY <1>2, <1>3, <1>4
<1>6. AllIdentities(S) = (A \cup B) \cup C
  <2>1. ASSUME NEW f \in S
        PROVE  Identities(f) \subseteq (A \cup B) \cup C
    <3>1. CASE f.events # {}
      <4>1. ASSUME NEW e \in f.events
            PROVE  <<"event", {e}, 0>> \in A
        <5>1. e \in CitedBy(S)
          BY DEF CitedBy
        <5>2. cited[e] = <<"event", {e}, 0>>
          BY <5>1
        <5> QED  BY <5>1, <5>2
      <4>2. Identities(f) = {<<"event", {e}, 0>> : e \in f.events}
        BY <3>1 DEF Identities
      <4> HIDE DEF A, B, C
      <4> QED  BY <4>1, <4>2
    <3>2. CASE f.events = {} /\ f.anchors # {}
      <4>1. f.anchors \in AnchorsOf(S)
        BY <3>2 DEF AnchorsOf
      <4>2. Identities(f) = {<<"anchor", f.anchors, 0>>}
        BY <3>2 DEF Identities
      <4>3. anchored[f.anchors] = <<"anchor", f.anchors, 0>> /\ anchored[f.anchors] \in B
        BY <4>1
      <4> HIDE DEF A, B, C
      <4> QED  BY <4>2, <4>3
    <3>3. CASE f.events = {} /\ f.anchors = {}
      <4>1. PICK p : p = <<f.text, f.date>> /\ p \in TextsOf(S)
        BY <3>3 DEF TextsOf
      <4>2. p[1] = f.text /\ p[2] = f.date
        BY <4>1
      <4>3. Identities(f) = {<<"text", {f.text}, f.date>>}
        BY <3>3 DEF Identities
      <4>4. said[p] = <<"text", {f.text}, f.date>> /\ said[p] \in C
        BY <4>1, <4>2
      <4> HIDE DEF A, B, C
      <4> QED  BY <4>3, <4>4
    <3> QED  BY <3>1, <3>2, <3>3
  <2>2. ASSUME NEW e \in CitedBy(S)
        PROVE  cited[e] \in AllIdentities(S)
    <3>1. PICK f \in S : e \in f.events
      BY DEF CitedBy
    <3>2. cited[e] = <<"event", {e}, 0>>
      OBVIOUS
    <3>3. Identities(f) = {<<"event", {x}, 0>> : x \in f.events}
      BY <3>1 DEF Identities
    <3>4. cited[e] \in Identities(f)
      BY <3>1, <3>2, <3>3
    <3> QED  BY <3>4 DEF AllIdentities
  <2>3. ASSUME NEW a \in AnchorsOf(S)
        PROVE  anchored[a] \in AllIdentities(S)
    <3>1. PICK f \in S : f.events = {} /\ f.anchors # {} /\ a = f.anchors
      BY DEF AnchorsOf
    <3>2. Identities(f) = {<<"anchor", a, 0>>}
      BY <3>1 DEF Identities
    <3>3. anchored[a] \in Identities(f)
      BY <3>2
    <3> QED  BY <3>3 DEF AllIdentities
  <2>4. ASSUME NEW p \in TextsOf(S)
        PROVE  said[p] \in AllIdentities(S)
    <3>1. PICK f \in S : f.events = {} /\ f.anchors = {} /\ p = <<f.text, f.date>>
      BY DEF TextsOf
    <3>2. p[1] = f.text /\ p[2] = f.date
      BY <3>1
    <3>3. Identities(f) = {<<"text", {f.text}, f.date>>}
      BY <3>1 DEF Identities
    <3>4. said[p] \in Identities(f)
      BY <3>2, <3>3
    <3> QED  BY <3>4 DEF AllIdentities
  <2>5. AllIdentities(S) \subseteq (A \cup B) \cup C
    <3> HIDE DEF A, B, C
    <3> QED  BY <2>1 DEF AllIdentities
  <2>6. A \subseteq AllIdentities(S) /\ B \subseteq AllIdentities(S) /\ C \subseteq AllIdentities(S)
    <3> HIDE DEF cited, anchored, said
    <3> QED  BY <2>2, <2>3, <2>4
  <2> HIDE DEF A, B, C
  <2> QED  BY <2>5, <2>6
<1>7. IsFiniteSet(A) /\ IsFiniteSet(B) /\ IsFiniteSet(C)
  <2> HIDE DEF A, B, C
  <2>1. IsFiniteSet(AllIdentities(S))
    BY EventsAre
  <2> QED  BY <1>6, <2>1, FS_Subset
<1> HIDE DEF cited, anchored, said
<1>8. Cardinality(A) = Cardinality(CitedBy(S))
  <2>1. \A d, e \in CitedBy(S) : cited[d] = cited[e] => d = e
    <3>1. \A d, e : {d} = {e} => d = e
      OBVIOUS
    <3> QED  BY <1>1, <3>1
  <2>2. PICK T : T = CitedBy(S)
    OBVIOUS
  <2>3. cited \in Bijection(T, A)
    <3>1. DOMAIN cited = T /\ cited = [e \in T |-> cited[e]]
      BY <2>2 DEF cited
    <3> QED  BY <2>1, <2>2, <3>1 DEF Bijection, Injection, Surjection, IsInjective
  <2> HIDE DEF A
  <2>4. ExistsBijection(A, T)
    BY <2>3, Fun_ExistsBijSymmetric DEF ExistsBijection
  <2> QED  BY <1>7, <2>2, <2>4, FS_Bijection
<1>9. Cardinality(B) = Cardinality(AnchorsOf(S))
  <2>1. \A d, e \in AnchorsOf(S) : anchored[d] = anchored[e] => d = e
    BY <1>1
  <2>2. PICK T : T = AnchorsOf(S)
    OBVIOUS
  <2>3. anchored \in Bijection(T, B)
    <3>1. DOMAIN anchored = T /\ anchored = [e \in T |-> anchored[e]]
      BY <2>2 DEF anchored
    <3> QED  BY <2>1, <2>2, <3>1 DEF Bijection, Injection, Surjection, IsInjective
  <2> HIDE DEF B
  <2>4. ExistsBijection(B, T)
    BY <2>3, Fun_ExistsBijSymmetric DEF ExistsBijection
  <2> QED  BY <1>7, <2>2, <2>4, FS_Bijection
<1>10. Cardinality(C) = Cardinality(TextsOf(S))
  <2>1. ASSUME NEW p \in TextsOf(S), NEW q \in TextsOf(S), said[p] = said[q]
        PROVE  p = q
    <3>1. {p[1]} = {q[1]} /\ p[2] = q[2]
      BY <1>1, <2>1
    <3>2. p[1] = q[1]
      BY <3>1
    <3>3. PICK f, g : p = <<f.text, f.date>> /\ q = <<g.text, g.date>>
      BY DEF TextsOf
    <3> QED  BY <3>1, <3>2, <3>3
  <2>2. PICK T : T = TextsOf(S)
    OBVIOUS
  <2>3. said \in Bijection(T, C)
    <3>1. DOMAIN said = T /\ said = [e \in T |-> said[e]]
      BY <2>2 DEF said
    <3> QED  BY <2>1, <2>2, <3>1 DEF Bijection, Injection, Surjection, IsInjective
  <2> HIDE DEF C
  <2>4. ExistsBijection(C, T)
    BY <2>3, Fun_ExistsBijSymmetric DEF ExistsBijection
  <2> QED  BY <1>7, <2>2, <2>4, FS_Bijection
<1> HIDE DEF A, B, C
<1>11. IsFiniteSet(A \cup B) /\ Cardinality(A \cup B) = Cardinality(A) + Cardinality(B)
  <2>1. IsFiniteSet(A \cup B) /\ Cardinality(A \cup B) = Cardinality(A) + Cardinality(B) - Cardinality(A \cap B)
    BY <1>7, FS_Union
  <2>2. Cardinality(A \cap B) = 0 /\ Cardinality(A) \in Nat /\ Cardinality(B) \in Nat
    BY <1>5, <1>7, FS_EmptySet, FS_CardinalityType
  <2> QED  BY <2>1, <2>2
<1>12. Cardinality((A \cup B) \cup C) = Cardinality(A \cup B) + Cardinality(C)
  <2>1. Cardinality((A \cup B) \cup C)
           = Cardinality(A \cup B) + Cardinality(C) - Cardinality((A \cup B) \cap C)
    BY <1>7, <1>11, FS_Union
  <2>2. /\ Cardinality((A \cup B) \cap C) = 0
        /\ Cardinality(A \cup B) \in Nat /\ Cardinality(C) \in Nat
    BY <1>5, <1>7, <1>11, FS_EmptySet, FS_CardinalityType
  <2> QED  BY <2>1, <2>2
<1> QED  BY <1>6, <1>8, <1>9, <1>10, <1>11, <1>12

LEMMA NumbersOrder ==
    ASSUME NEW S \in SUBSET Nat
    PROVE  Orders(S, [n \in S |-> {m \in S : m < n}])
<1> DEFINE above == [n \in S |-> {m \in S : m < n}]
<1>1. DOMAIN above = S /\ \A n \in S : n \in Nat /\ above[n] = {m \in S : m < n}
  OBVIOUS
<1> HIDE DEF above
<1>2. \A n \in S : above[n] \subseteq S \ {n}
  BY <1>1
<1>3. ASSUME NEW m \in S, NEW n \in S, m # n
      PROVE  m \in above[n] \/ n \in above[m]
  <2>1. m < n \/ n < m
    BY <1>1, <1>3
  <2> QED  BY <1>1, <2>1
<1>4. ASSUME NEW m \in S, NEW n \in S, m \in above[n], NEW l \in above[m]
      PROVE  l \in above[n]
  <2>1. m < n /\ l < m /\ l \in S
    BY <1>1, <1>4
  <2>2. l < n
    BY <1>1, <2>1
  <2> QED  BY <1>1, <2>1, <2>2
<1>5. Orders(S, above)
  BY <1>1, <1>2, <1>3, <1>4 DEF Orders
<1> QED  BY <1>5 DEF above

(* The strongest first, the earlier first of equals.                       *)
LEMMA StrengthOrders ==
    ASSUME NEW S \in SUBSET Nat, NEW s \in [S -> Nat]
    PROVE  Orders(S, [n \in S |-> {m \in S : s[m] > s[n] \/ (s[m] = s[n] /\ m < n)}])
<1> DEFINE above == [n \in S |-> {m \in S : s[m] > s[n] \/ (s[m] = s[n] /\ m < n)}]
<1>1. /\ DOMAIN above = S
      /\ \A n \in S : /\ n \in Nat /\ s[n] \in Nat
                      /\ above[n] = {m \in S : s[m] > s[n] \/ (s[m] = s[n] /\ m < n)}
  OBVIOUS
<1> HIDE DEF above
<1>2. \A n \in S : above[n] \subseteq S \ {n}
  <2> SUFFICES ASSUME NEW n \in S  PROVE n \notin above[n] /\ above[n] \subseteq S
    OBVIOUS
  <2>1. ~(s[n] > s[n]) /\ ~(n < n)
    BY <1>1
  <2> QED  BY <1>1, <2>1
<1>3. ASSUME NEW m \in S, NEW n \in S, m # n
      PROVE  m \in above[n] \/ n \in above[m]
  <2>1. (m < n \/ n < m) /\ (s[m] > s[n] \/ s[n] > s[m] \/ s[m] = s[n])
    BY <1>1, <1>3
  <2> QED  BY <1>1, <2>1
<1>4. ASSUME NEW m \in S, NEW n \in S, m \in above[n], NEW l \in above[m]
      PROVE  l \in above[n]
  <2>1. /\ s[m] > s[n] \/ (s[m] = s[n] /\ m < n)
        /\ s[l] > s[m] \/ (s[l] = s[m] /\ l < m)
        /\ l \in S
    BY <1>1, <1>4
  <2>2. s[l] \in Nat /\ s[m] \in Nat /\ s[n] \in Nat /\ l \in Nat /\ m \in Nat /\ n \in Nat
    BY <1>1, <2>1
  <2>3. s[l] > s[n] \/ (s[l] = s[n] /\ l < n)
    BY <2>1, <2>2
  <2> QED  BY <1>1, <2>1, <2>3
<1>5. Orders(S, above)
  BY <1>1, <1>2, <1>3, <1>4 DEF Orders
<1> QED  BY <1>5 DEF above

(* A cluster that can be summarised: some facts of the store, all of them  *)
(* active, and another cluster has none of them.                           *)
Usable(cluster, facts) ==
    /\ Group(ToSet(cluster))
    /\ ToSet(cluster) \subseteq ToSet(facts)
    /\ \A f \in ToSet(cluster) : f.active

LEMMA StoreIsGroup ==
    ASSUME NEW facts, Readable(facts), NEW S \in SUBSET ToSet(facts)
    PROVE  Group(S)
<1>1. facts \in Seq(SourceFact) /\ DOMAIN facts = 1..Len(facts) /\ Len(facts) \in Nat
  BY DEF Readable
<1>2. \A f \in S : \E n \in 1..Len(facts) : f = facts[n]
  BY <1>1 DEF ToSet
<1>3. S \subseteq SourceFact
  BY <1>1, <1>2
<1>4. IsFiniteSet(ToSet(facts))
  <2>1. facts \in Surjection(1..Len(facts), ToSet(facts))
    <3>1. facts \in [1..Len(facts) -> ToSet(facts)]
      <4>1. \A n \in 1..Len(facts) : facts[n] \in ToSet(facts)
        BY <1>1 DEF ToSet
      <4>2. facts = [n \in 1..Len(facts) |-> facts[n]]
        BY <1>1
      <4> QED  BY <4>1, <4>2
    <3>2. \A f \in ToSet(facts) : \E n \in 1..Len(facts) : facts[n] = f
      BY <1>1 DEF ToSet
    <3> QED  BY <3>1, <3>2 DEF Surjection
  <2>2. IsFiniteSet(1..Len(facts))
    <3>1. 1 \in Int /\ Len(facts) \in Int
      BY <1>1
    <3> QED  BY <3>1, FS_Interval
  <2> QED  BY <2>1, <2>2, FS_Surjection
<1>5. IsFiniteSet(S)
  BY <1>4, FS_Subset
<1>6. \A f, g \in S : f.id = g.id => f = g
  BY <1>1, <1>2 DEF Readable
<1>7. \A f \in S : IsFiniteSet(f.events)
  BY <1>1, <1>2 DEF Readable
<1> QED  BY <1>3, <1>5, <1>6, <1>7 DEF Group

LEMMA CandidatesAre ==
    ASSUME NEW facts, Readable(facts)
    PROVE  /\ Len(Candidates(facts)) \in Nat
           /\ DOMAIN Candidates(facts) = 1..Len(Candidates(facts))
           /\ \A n \in 1..Len(Candidates(facts)) :
                 /\ Usable(Candidates(facts)[n], facts)
                 /\ ToSet(Candidates(facts)[n]) # {}
           /\ \A m, n \in 1..Len(Candidates(facts)) :
                 m # n => ToSet(Candidates(facts)[m]) \cap ToSet(Candidates(facts)[n]) = {}
<1> DEFINE active == {n \in DOMAIN facts : facts[n].active}
           earlier == [n \in active |-> {m \in active : m < n}]
           order == Sorted(earlier)
           chosen == [n \in DOMAIN order |-> facts[order[n]]]
           clusters == Clustered(chosen)
           strength == [n \in DOMAIN clusters |-> Len(SourceEvents(ToSet(clusters[n])))]
           enough == {n \in DOMAIN clusters : strength[n] >= MinEvents}
           above == [n \in enough |->
                       {m \in enough : strength[m] > strength[n]
                                       \/ (strength[m] = strength[n] /\ m < n)}]
           rank == Sorted(above)
<1>1. Candidates(facts) = [n \in DOMAIN rank |-> clusters[rank[n]]]
  BY DEF Candidates
<1>2. /\ facts \in Seq(SourceFact) /\ DOMAIN facts = 1..Len(facts) /\ Len(facts) \in Nat
      /\ \A m, n \in 1..Len(facts) : facts[m].id = facts[n].id => m = n
  BY DEF Readable
<1>3. Lists(order, active, earlier)
  <2>1. active \subseteq 1..Len(facts) /\ active \in SUBSET Nat
    BY <1>2
  <2>2. IsFiniteSet(active)
    <3>1. 1 \in Int /\ Len(facts) \in Int
      BY <1>2
    <3>2. IsFiniteSet(1..Len(facts))
      BY <3>1, FS_Interval
    <3> QED  BY <2>1, <3>2, FS_Subset
  <2> HIDE DEF active
  <2>3. Orders(active, earlier)
    BY <2>1, NumbersOrder
  <2> HIDE DEF earlier
  <2> QED  BY <2>2, <2>3, SortedIs
<1>4. /\ DOMAIN order = 1..Len(order) /\ Len(order) \in Nat
      /\ \A n \in 1..Len(order) : order[n] \in 1..Len(facts) /\ facts[order[n]].active
      /\ \A m, n \in 1..Len(order) : order[m] = order[n] => m = n
  <2>1. \A n \in active : n \in 1..Len(facts) /\ facts[n].active
    BY <1>2
  <2> HIDE DEF active, earlier, order
  <2> QED  BY <1>3, <2>1 DEF Lists
<1> HIDE DEF active, earlier, order
<1>5. /\ chosen \in Seq(SourceFact) /\ Len(chosen) = Len(order)
      /\ \A n \in 1..Len(chosen) : chosen[n] \in ToSet(facts) /\ chosen[n].active
      /\ \A m, n \in 1..Len(chosen) : chosen[m].id = chosen[n].id => m = n
  <2>1. \A n \in 1..Len(order) : chosen[n] = facts[order[n]] /\ chosen[n] \in SourceFact
    BY <1>2, <1>4
  <2>2. chosen \in [1..Len(order) -> SourceFact]
    BY <1>4, <2>1
  <2> HIDE DEF chosen
  <2>3. chosen \in Seq(SourceFact) /\ Len(chosen) = Len(order)
    BY <1>4, <2>2
  <2>4. \A n \in 1..Len(order) : chosen[n] \in ToSet(facts) /\ chosen[n].active
    BY <1>2, <1>4, <2>1 DEF ToSet
  <2>5. \A m, n \in 1..Len(order) : chosen[m].id = chosen[n].id => m = n
    BY <1>2, <1>4, <2>1
  <2> QED  BY <2>3, <2>4, <2>5
<1> HIDE DEF chosen
<1>6. clusters \in Seq(Seq(SourceFact))
  <2>1. Len(chosen) \in 0..Len(chosen)
    BY <1>4, <1>5
  <2> QED  BY <1>5, <2>1, ClustersExist DEF Clustered
<1>7. /\ \A l \in DOMAIN clusters : \A i \in DOMAIN clusters[l] :
            \E j \in 1..Len(chosen) : clusters[l][i] = chosen[j]
      /\ \A l, m \in DOMAIN clusters :
            \A i \in DOMAIN clusters[l], j \in DOMAIN clusters[m] :
               clusters[l][i].id = clusters[m][j].id => l = m
  BY <1>5, ClustersAre
<1> HIDE DEF clusters
<1>8. ASSUME NEW l \in DOMAIN clusters
      PROVE  Usable(clusters[l], facts)
  <2>1. \A f \in ToSet(clusters[l]) : \E j \in 1..Len(chosen) : f = chosen[j]
    BY <1>7 DEF ToSet
  <2>2. ToSet(clusters[l]) \in SUBSET ToSet(facts) /\ \A f \in ToSet(clusters[l]) : f.active
    BY <1>5, <2>1
  <2>3. Group(ToSet(clusters[l]))
    BY <2>2, StoreIsGroup
  <2> QED  BY <2>2, <2>3 DEF Usable
<1>9. ASSUME NEW l \in DOMAIN clusters, NEW m \in DOMAIN clusters, l # m
      PROVE  ToSet(clusters[l]) \cap ToSet(clusters[m]) = {}
  BY <1>7, <1>9 DEF ToSet
<1>10. strength \in [DOMAIN clusters -> Nat]
  <2>1. \A l \in DOMAIN clusters : Len(SourceEvents(ToSet(clusters[l]))) \in Nat
    BY <1>8, EventsAre DEF Usable
  <2> QED  BY <2>1
<1>11. ASSUME NEW l \in DOMAIN clusters, strength[l] # 0
       PROVE  ToSet(clusters[l]) # {}
  <2>1. ASSUME ToSet(clusters[l]) = {}
        PROVE  strength[l] = 0
    <3>1. AllIdentities(ToSet(clusters[l])) = {}
      BY <2>1 DEF AllIdentities
    <3>2. Len(SourceEvents(ToSet(clusters[l]))) = Cardinality(AllIdentities(ToSet(clusters[l])))
      BY <1>8, EventsAre DEF Usable
    <3> QED  BY <3>1, <3>2, FS_EmptySet
  <2> QED  BY <1>11, <2>1
<1> HIDE DEF strength
<1>12. Lists(rank, enough, above)
  <2>1. enough \subseteq 1..Len(clusters) /\ enough \in SUBSET Nat /\ Len(clusters) \in Nat
    <3>1. DOMAIN clusters = 1..Len(clusters) /\ Len(clusters) \in Nat
      BY <1>6
    <3> QED  BY <3>1
  <2>2. IsFiniteSet(enough)
    <3>1. 1 \in Int /\ Len(clusters) \in Int
      BY <2>1
    <3>2. IsFiniteSet(1..Len(clusters))
      BY <3>1, FS_Interval
    <3> HIDE DEF enough
    <3> QED  BY <2>1, <3>2, FS_Subset
  <2>3. PICK s \in [enough -> Nat] : \A n \in enough : s[n] = strength[n]
    <3>1. [n \in enough |-> strength[n]] \in [enough -> Nat]
      BY <1>10
    <3> QED  BY <3>1
  <2> HIDE DEF enough
  <2>4. above = [n \in enough |-> {m \in enough : s[m] > s[n] \/ (s[m] = s[n] /\ m < n)}]
    <3>1. \A n \in enough : {m \in enough : s[m] > s[n] \/ (s[m] = s[n] /\ m < n)}
                             = {m \in enough : strength[m] > strength[n]
                                               \/ (strength[m] = strength[n] /\ m < n)}
      BY <2>3
    <3> QED  BY <3>1
  <2>5. Orders(enough, above)
    BY <2>1, <2>4, StrengthOrders
  <2> HIDE DEF above
  <2> QED  BY <2>2, <2>5, SortedIs
<1>13. \A l \in enough : l \in DOMAIN clusters /\ strength[l] # 0
  BY <1>10, LineageAssumption DEF LineageAssumption
<1> HIDE DEF enough, above, rank
<1>14. /\ DOMAIN rank = 1..Len(rank) /\ Len(rank) \in Nat
       /\ \A n \in 1..Len(rank) : rank[n] \in enough
       /\ \A m, n \in 1..Len(rank) : rank[m] = rank[n] => m = n
  BY <1>12 DEF Lists
<1>15. PICK C : C = Candidates(facts)
  OBVIOUS
<1>16. /\ Len(C) \in Nat /\ DOMAIN C = 1..Len(C) /\ Len(C) = Len(rank)
       /\ \A n \in 1..Len(C) : C[n] = clusters[rank[n]]
  <2>1. C = [n \in 1..Len(rank) |-> clusters[rank[n]]]
    BY <1>1, <1>14, <1>15
  <2> QED  BY <1>14, <2>1
<1>17. \A n \in 1..Len(C) : Usable(C[n], facts) /\ ToSet(C[n]) # {}
  BY <1>8, <1>11, <1>13, <1>14, <1>16
<1>18. ASSUME NEW m \in 1..Len(C), NEW n \in 1..Len(C), m # n
       PROVE  ToSet(C[m]) \cap ToSet(C[n]) = {}
  <2>1. /\ rank[m] # rank[n] /\ rank[m] \in DOMAIN clusters /\ rank[n] \in DOMAIN clusters
    BY <1>13, <1>14, <1>16, <1>18
  <2> QED  BY <1>9, <1>16, <2>1
<1> QED  BY <1>15, <1>16, <1>17, <1>18

(* Names of the parts of an insight, as Summary makes it of a cluster. *)
EventsOf(cluster) == SourceEvents(ToSet(cluster))
SampleOf(cluster) == RepresentativeInputs(EventsOf(cluster))
IdsOf(S) == {f.id : f \in S}
DatesOf(S) == {f.date : f \in S}
Verbatim(S, quotes) == {f.id : f \in {g \in S : ~g.long /\ g.text \in quotes}}
LatestDate(S) == CHOOSE d \in DatesOf(S) : \A f \in S : f.date <= d

LEMMA SummaryIs ==
    ASSUME NEW cluster, NEW quotes, NEW by, NEW s, s = Summary(cluster, quotes, by)
    PROVE  /\ s.sources = IdsOf(ToSet(cluster))
           /\ DOMAIN s.inputs = DOMAIN SampleOf(cluster)
           /\ \A n \in DOMAIN SampleOf(cluster) :
                 LET f == SampleOf(cluster)[n]
                 IN  /\ s.inputs[n] = f.id
                     /\ s.receipts[n] = [text |-> f.text, long |-> f.long, date |-> f.date]
           /\ s.inputs = [n \in DOMAIN SampleOf(cluster) |-> SampleOf(cluster)[n].id]
           /\ s.covered = Verbatim(ToSet(SampleOf(cluster)), quotes)
           /\ s.quotes = quotes
           /\ s.recurrence = Len(EventsOf(cluster))
           /\ s.events = EventLineage(EventsOf(cluster))
           /\ s.latest = LatestDate(ToSet(cluster))
  BY DEF Summary, EventsOf, SampleOf, IdsOf, DatesOf, Verbatim, LatestDate

LEMMA LatestIs ==
    ASSUME NEW S, Group(S), S # {}
    PROVE  /\ \A f \in S : f.date <= LatestDate(S)
           /\ \E f \in S : f.date = LatestDate(S)
<1>1. DatesOf(S) \in SUBSET Nat /\ DatesOf(S) # {}
  BY DEF DatesOf, Group, SourceFact
<1>2. IsFiniteSet(DatesOf(S))
  <2>1. [f \in S |-> f.date] \in Surjection(S, DatesOf(S))
    BY DEF Surjection, DatesOf
  <2> QED  BY <2>1, FS_Surjection DEF Group
<1>3. PICK d \in DatesOf(S) : \A e \in DatesOf(S) : e <= d
  BY <1>1, <1>2, Topmost
<1>4. \A f \in S : f.date <= d
  BY <1>3 DEF DatesOf
<1>5. LatestDate(S) \in DatesOf(S) /\ \A f \in S : f.date <= LatestDate(S)
  BY <1>4 DEF LatestDate
<1> QED  BY <1>5 DEF DatesOf

(* An id names one fact of the store. *)
FactsNamed(ids) == {FactOf(i) : i \in ids}

LEMMA NamesAre ==
    ASSUME Group(ToSet(sources)), NEW S \in SUBSET ToSet(sources)
    PROVE  /\ \A f \in ToSet(sources) : FactOf(f.id) = f
           /\ FactsNamed(IdsOf(S)) = S
<1>1. ASSUME NEW f \in ToSet(sources)
      PROVE  FactOf(f.id) = f
  <2>1. \A g \in ToSet(sources) : g.id = f.id => g = f
    BY DEF Group
  <2> QED  BY <2>1 DEF FactOf
<1>2. FactsNamed(IdsOf(S)) = {FactOf(f.id) : f \in S}
  BY DEF FactsNamed, IdsOf
<1>3. {FactOf(f.id) : f \in S} = {f : f \in S}
  BY <1>1
<1> QED  BY <1>1, <1>2, <1>3

(* A summary of a usable cluster passes the validation. *)
LEMMA SummaryValidates ==
    ASSUME Readable(sources), NEW cluster, Usable(cluster, sources), ToSet(cluster) # {},
           NEW quotes, NEW by, NEW s, s = Summary(cluster, quotes, by)
    PROVE  Validates(s)
<1> DEFINE S == ToSet(cluster)
           inputs == SampleOf(cluster)
<1>1. Group(S) /\ S \in SUBSET ToSet(sources) /\ S # {} /\ Group(ToSet(sources))
  BY StoreIsGroup DEF Usable
<1>2. /\ Distinct(inputs, S)
      /\ Len(inputs) \in 1..MaxInputs
  <2>1. PICK picked : picked = Picked(SourceEvents(S))
    OBVIOUS
  <2>2. /\ Distinct(inputs, S) /\ Len(picked) \in Nat /\ Len(picked) # 0
        /\ Len(inputs) = IF Len(picked) < MaxInputs THEN Len(picked) ELSE MaxInputs
    <3> HIDE DEF S
    <3>1. inputs = RepresentativeInputs(SourceEvents(S))
      BY DEF SampleOf, EventsOf, S
    <3> HIDE DEF inputs
    <3> QED  BY <1>1, <2>1, <3>1, InputsAre
  <2> HIDE DEF inputs
  <2> QED  BY <2>2, LineageAssumption DEF LineageAssumption
<1>3. /\ s.sources = IdsOf(S)
      /\ DOMAIN s.inputs = DOMAIN inputs
      /\ \A n \in DOMAIN inputs :
            /\ s.inputs[n] = inputs[n].id
            /\ s.receipts[n] = [text |-> inputs[n].text, long |-> inputs[n].long,
                                date |-> inputs[n].date]
      /\ s.inputs = [n \in DOMAIN inputs |-> inputs[n].id]
      /\ s.covered = Verbatim(ToSet(inputs), quotes)
      /\ s.quotes = quotes
      /\ s.recurrence = Len(SourceEvents(S))
      /\ s.events = EventLineage(SourceEvents(S))
      /\ s.latest = LatestDate(S)
  BY SummaryIs DEF EventsOf
<1> HIDE DEF S, inputs
<1>4. /\ \A f \in ToSet(sources) : FactOf(f.id) = f
      /\ {FactOf(i) : i \in s.sources} = S
  BY <1>1, <1>3, NamesAre DEF FactsNamed
<1>5. /\ DOMAIN inputs = 1..Len(inputs) /\ Len(inputs) \in Nat
      /\ \A n \in DOMAIN inputs : inputs[n] \in S /\ inputs[n] \in ToSet(sources)
      /\ \A m, n \in DOMAIN inputs : inputs[m] = inputs[n] => m = n
  BY <1>1, <1>2 DEF Distinct
<1>6. s.sources # {} /\ s.sources \subseteq {f.id : f \in ToSet(sources)}
  BY <1>1, <1>3 DEF IdsOf
<1>7. Len(s.inputs) \in 1..MaxInputs
  <2>1. DOMAIN s.inputs = 1..Len(inputs)
    BY <1>3, <1>5
  <2>2. Len(s.inputs) = Len(inputs)
    BY <1>3, <1>5, <2>1
  <2> QED  BY <1>2, <2>2
<1>8. IsInjective(s.inputs)
  <2>1. \A f, g \in S : f.id = g.id => f = g
    BY <1>1 DEF Group
  <2>2. \A m, n \in DOMAIN inputs : inputs[m].id = inputs[n].id => m = n
    BY <1>5, <2>1
  <2> QED  BY <1>3, <2>2 DEF IsInjective
<1>9. ToSet(s.inputs) \subseteq s.sources
  BY <1>3, <1>5 DEF ToSet, IdsOf
<1>10. s.covered \subseteq ToSet(s.inputs)
  BY <1>3 DEF ToSet, Verbatim
<1>11. ASSUME NEW n \in DOMAIN s.inputs
       PROVE  LET f == FactOf(s.inputs[n])
              IN  /\ s.receipts[n] = [text |-> f.text, long |-> f.long, date |-> f.date]
                  /\ f.id \in s.covered => ~f.long /\ f.text \in s.quotes
  <2>1. PICK f : f = inputs[n] /\ f \in S /\ f \in ToSet(sources)
    BY <1>3, <1>5
  <2>2. FactOf(s.inputs[n]) = f
    BY <1>3, <1>4, <2>1
  <2>3. s.receipts[n] = [text |-> f.text, long |-> f.long, date |-> f.date]
    BY <1>3, <2>1
  <2>4. ASSUME f.id \in s.covered
        PROVE  ~f.long /\ f.text \in s.quotes
    <3>1. PICK g \in ToSet(inputs) : g.id = f.id /\ ~g.long /\ g.text \in quotes
      BY <1>3, <2>4 DEF Verbatim
    <3>2. g \in S
      BY <1>5 DEF ToSet
    <3>3. g = f
      BY <1>1, <2>1, <3>1, <3>2 DEF Group
    <3> QED  BY <1>3, <3>1, <3>3
  <2> QED  BY <2>2, <2>3, <2>4
<1>12. /\ s.recurrence = Len(SourceEvents({FactOf(i) : i \in s.sources}))
       /\ s.events = EventLineage(SourceEvents({FactOf(i) : i \in s.sources}))
  BY <1>3, <1>4
<1>13. /\ \A i \in s.sources : FactOf(i).date <= s.latest
       /\ \E i \in s.sources : FactOf(i).date = s.latest
  <2>1. (\A f \in S : f.date <= s.latest) /\ \E f \in S : f.date = s.latest
    BY <1>1, <1>3, LatestIs
  <2>2. \A i \in s.sources : FactOf(i) \in S
    BY <1>4
  <2>3. \A f \in S : f.id \in s.sources /\ FactOf(f.id) = f
    BY <1>1, <1>3, <1>4 DEF IdsOf
  <2> QED  BY <2>1, <2>2, <2>3
<1> QED  BY <1>6, <1>7, <1>8, <1>9, <1>10, <1>11, <1>12, <1>13 DEF Validates

-----------------------------------------------------------------------------
(* The summaries are made of the candidates, in their order. *)
Quotable(cluster) == Excerpts(cluster) \cup SUBSET {f.text : f \in ToSet(cluster)}

Written(cluster) == {Summary(cluster, quotes, by) :
                        quotes \in Quotable(cluster), by \in {"heuristic", "llm"}}

AllWritten(facts) == UNION {Written(Candidates(facts)[n]) : n \in 1..Len(Candidates(facts))}

LineageInv ==
    /\ \E family \in Sources : sources \in family
    /\ summaries \in Seq(AllWritten(sources))
    /\ Len(summaries) <= Len(Candidates(sources))
    /\ \A n \in 1..Len(summaries) : summaries[n] \in Written(Candidates(sources)[n])

LEMMA SourcesAreReadable ==
    ASSUME \E family \in Sources : sources \in family
    PROVE  Readable(sources)
  BY LineageAssumption DEF LineageAssumption

LEMMA InitLineage == LineageInit => LineageInv
<1> SUFFICES ASSUME LineageInit  PROVE LineageInv
  OBVIOUS
<1>1. (\E family \in Sources : sources \in family) /\ summaries = <<>>
  BY DEF LineageInit
<1>2. Len(Candidates(sources)) \in Nat
  BY <1>1, SourcesAreReadable, CandidatesAre
<1>3. Len(summaries) = 0 /\ summaries \in Seq(AllWritten(sources))
  BY <1>1
<1> QED  BY <1>1, <1>2, <1>3 DEF LineageInv

LEMMA NextLineage == LineageInv /\ [LineageNext]_lineageVars => LineageInv'
<1> SUFFICES ASSUME LineageInv, [LineageNext]_lineageVars
             PROVE  LineageInv'
  OBVIOUS
<1>1. CASE UNCHANGED lineageVars
  BY <1>1 DEF LineageInv, lineageVars
<1>2. CASE Summarize
  <2> DEFINE C == Candidates(sources)
             n == Len(summaries) + 1
  <2>1. /\ summaries \in Seq(AllWritten(sources)) /\ Len(summaries) \in Nat
        /\ \A m \in 1..Len(summaries) : summaries[m] \in Written(C[m])
        /\ \E family \in Sources : sources \in family
    BY DEF LineageInv
  <2>2. sources' = sources /\ n <= Len(C)
    BY <1>2 DEF Summarize
  <2>3. Len(C) \in Nat /\ DOMAIN C = 1..Len(C)
    BY <2>1, SourcesAreReadable, CandidatesAre
  <2>4. n \in 1..Len(C)
    BY <2>1, <2>2, <2>3
  <2>5. PICK w \in Written(C[n]) : summaries' = Append(summaries, w)
    <3>1. CASE \E quotes \in Excerpts(C[n]) :
                  summaries' = Append(summaries, Summary(C[n], quotes, "heuristic"))
      <4>1. PICK quotes \in Excerpts(C[n]) :
                    summaries' = Append(summaries, Summary(C[n], quotes, "heuristic"))
        BY <3>1
      <4>2. Summary(C[n], quotes, "heuristic") \in Written(C[n])
        BY DEF Written, Quotable
      <4> QED  BY <4>1, <4>2
    <3>2. CASE \E quotes \in SUBSET {f.text : f \in ToSet(C[n])} :
                  summaries' = Append(summaries, Summary(C[n], quotes, "llm"))
      <4>1. PICK quotes \in SUBSET {f.text : f \in ToSet(C[n])} :
                    summaries' = Append(summaries, Summary(C[n], quotes, "llm"))
        BY <3>2
      <4>2. Summary(C[n], quotes, "llm") \in Written(C[n])
        BY DEF Written, Quotable
      <4> QED  BY <4>1, <4>2
    <3> QED  BY <1>2, <3>1, <3>2 DEF Summarize
  <2>6. w \in AllWritten(sources)
    BY <2>4, <2>5 DEF AllWritten
  <2> HIDE DEF C, n
  <2>7. /\ summaries' \in Seq(AllWritten(sources)) /\ Len(summaries') = n
        /\ summaries'[n] = w /\ \A m \in 1..Len(summaries) : summaries'[m] = summaries[m]
    BY <2>1, <2>5, <2>6 DEF n
  <2>8. \A m \in 1..n : m = n \/ m \in 1..Len(summaries)
    BY <2>1 DEF n
  <2>9. \A m \in 1..n : summaries'[m] \in Written(C[m])
    BY <2>1, <2>5, <2>7, <2>8
  <2>10. C' = Candidates(sources') /\ Candidates(sources') = C
    BY <2>2 DEF C
  <2> QED  BY <2>1, <2>2, <2>7, <2>9, <2>10 DEF LineageInv, C
<1> QED  BY <1>1, <1>2 DEF LineageNext

(* Summarize: each insight is a summary of the candidate of its place, of  *)
(* the facts that were read; the theorems below rest on this.              *)
THEOREM LineageInductive == LineageSpec => []LineageInv
<1>1. LineageInit => LineageInv
  BY InitLineage
<1>2. LineageInv /\ [LineageNext]_lineageVars => LineageInv'
  BY NextLineage
<1> QED  BY <1>1, <1>2, PTL DEF LineageSpec

(* What an insight of the invariant was made of. *)
LEMMA MadeOf ==
    ASSUME LineageInv, NEW n \in DOMAIN summaries
    PROVE  \E cluster, quotes, by :
              /\ cluster = Candidates(sources)[n] /\ n \in 1..Len(Candidates(sources))
              /\ summaries[n] = Summary(cluster, quotes, by)
              /\ Usable(cluster, sources) /\ ToSet(cluster) # {}
<1>1. Readable(sources)
  BY SourcesAreReadable DEF LineageInv
<1>2. n \in 1..Len(summaries) /\ Len(summaries) \in Nat /\ Len(summaries) <= Len(Candidates(sources))
  BY DEF LineageInv
<1>3. n \in 1..Len(Candidates(sources))
  BY <1>1, <1>2, CandidatesAre
<1>4. PICK cluster : cluster = Candidates(sources)[n]
  OBVIOUS
<1>5. Usable(cluster, sources) /\ ToSet(cluster) # {}
  BY <1>1, <1>3, <1>4, CandidatesAre
<1>6. PICK quotes, by : summaries[n] = Summary(cluster, quotes, by)
  <2>1. summaries[n] \in Written(cluster)
    BY <1>2, <1>4 DEF LineageInv
  <2> QED  BY <2>1 DEF Written
<1> QED  BY <1>3, <1>4, <1>5, <1>6

LEMMA LineageIsValid == LineageInv => OwnLineageValid
<1> SUFFICES ASSUME LineageInv  PROVE OwnLineageValid
  OBVIOUS
<1>1. Readable(sources) /\ Group(ToSet(sources))
  BY SourcesAreReadable, StoreIsGroup DEF LineageInv
<1>2. ASSUME NEW n \in DOMAIN summaries
      PROVE  /\ Validates(summaries[n])
             /\ summaries[n].sources = IdsOf(ToSet(Candidates(sources)[n]))
             /\ n \in 1..Len(Candidates(sources))
             /\ \A i \in summaries[n].sources : FactOf(i).active
  <2>1. PICK cluster, quotes, by :
              /\ cluster = Candidates(sources)[n] /\ n \in 1..Len(Candidates(sources))
              /\ summaries[n] = Summary(cluster, quotes, by)
              /\ Usable(cluster, sources) /\ ToSet(cluster) # {}
    BY MadeOf
  <2>2. Validates(summaries[n])
    BY <1>1, <2>1, SummaryValidates
  <2>3. summaries[n].sources = IdsOf(ToSet(cluster))
    BY <2>1 DEF Summary, IdsOf
  <2>4. FactsNamed(IdsOf(ToSet(cluster))) = ToSet(cluster)
    BY <1>1, <2>1, NamesAre DEF Usable
  <2>5. \A i \in summaries[n].sources : FactOf(i) \in ToSet(cluster)
    BY <2>3, <2>4 DEF FactsNamed
  <2> QED  BY <2>1, <2>2, <2>3, <2>5 DEF Usable
<1>3. ASSUME NEW m \in DOMAIN summaries, NEW n \in DOMAIN summaries, m # n
      PROVE  summaries[m].sources \cap summaries[n].sources = {}
  <2>1. PICK A, B : A = ToSet(Candidates(sources)[m]) /\ B = ToSet(Candidates(sources)[n])
    OBVIOUS
  <2>2. A \cap B = {}
    BY <1>1, <1>2, <1>3, <2>1, CandidatesAre
  <2>3. A \subseteq ToSet(sources) /\ B \subseteq ToSet(sources)
    BY <1>1, <1>2, <2>1, CandidatesAre DEF Usable
  <2>4. \A f \in A : \A g \in B : f.id # g.id
    BY <1>1, <2>2, <2>3 DEF Group
  <2>5. summaries[m].sources = IdsOf(A) /\ summaries[n].sources = IdsOf(B)
    BY <1>2, <2>1
  <2> QED  BY <2>4, <2>5 DEF IdsOf
<1> QED  BY <1>2, <1>3 DEF OwnLineageValid

LEMMA SampleWasFair == LineageInv => SampleIsFair
<1> SUFFICES ASSUME LineageInv, NEW n \in DOMAIN summaries
             PROVE  LET cluster == {FactOf(i) : i \in summaries[n].sources}
                        inputs == {FactOf(i) : i \in ToSet(summaries[n].inputs)}
                        pool == ToSet(Picked(SourceEvents(cluster)))
                        On(S, d) == Cardinality({f \in S : f.date = d})
                    IN  /\ Cardinality(inputs) = IF Cardinality(pool) < MaxInputs
                                                 THEN Cardinality(pool) ELSE MaxInputs
                        /\ \A f, g \in pool :
                              On(inputs, f.date) < On(pool, f.date) =>
                                  On(inputs, g.date) <= On(inputs, f.date)
                                                        + IF g.date > f.date THEN 1 ELSE 0
                        /\ summaries[n].recurrence =
                               Cardinality(UNION {f.events : f \in cluster})
                               + Cardinality({f.anchors : f \in {g \in cluster : g.events = {}
                                                                                /\ g.anchors # {}}})
                               + Cardinality({<<f.text, f.date>> :
                                                 f \in {g \in cluster : g.events = {}
                                                                        /\ g.anchors = {}}})
  BY DEF SampleIsFair
<1>1. Readable(sources) /\ Group(ToSet(sources))
  BY SourcesAreReadable, StoreIsGroup DEF LineageInv
<1>2. PICK cluster, quotes, by :
              /\ cluster = Candidates(sources)[n] /\ n \in 1..Len(Candidates(sources))
              /\ summaries[n] = Summary(cluster, quotes, by)
              /\ Usable(cluster, sources) /\ ToSet(cluster) # {}
  BY MadeOf
<1>3. PICK S, inputs, sample, pool, picked :
         /\ S = ToSet(cluster) /\ inputs = SampleOf(cluster) /\ sample = ToSet(inputs)
         /\ picked = Picked(SourceEvents(S)) /\ pool = ToSet(picked)
  OBVIOUS
<1>4. Group(S) /\ S \in SUBSET ToSet(sources) /\ inputs = RepresentativeInputs(SourceEvents(S))
  BY <1>2, <1>3 DEF Usable, SampleOf, EventsOf
<1>5. /\ Cardinality(sample) = IF Cardinality(pool) < MaxInputs THEN Cardinality(pool) ELSE MaxInputs
      /\ sample \subseteq pool /\ pool \subseteq S
      /\ \A d, e \in Nat :
            Cardinality(OfDate(sample, d)) < Cardinality(OfDate(pool, d))
            => Cardinality(OfDate(sample, e))
                  <= Cardinality(OfDate(sample, d)) + IF e > d THEN 1 ELSE 0
  BY <1>3, <1>4, SampleIs
<1>6. /\ summaries[n].sources = IdsOf(S)
      /\ summaries[n].inputs = [k \in DOMAIN inputs |-> inputs[k].id]
      /\ summaries[n].recurrence = Len(SourceEvents(S))
  BY <1>2, <1>3, SummaryIs DEF EventsOf
<1>7. {FactOf(i) : i \in summaries[n].sources} = S
  <2>1. FactsNamed(IdsOf(S)) = S
    BY <1>1, <1>4, NamesAre
  <2> QED  BY <1>6, <2>1 DEF FactsNamed
<1>8. {FactOf(i) : i \in ToSet(summaries[n].inputs)} = sample
  <2>1. ToSet(summaries[n].inputs) = IdsOf(sample)
    BY <1>3, <1>6 DEF ToSet, IdsOf
  <2>2. sample \in SUBSET ToSet(sources)
    BY <1>4, <1>5
  <2>3. FactsNamed(IdsOf(sample)) = sample
    BY <1>1, <2>2, NamesAre
  <2> QED  BY <2>1, <2>3 DEF FactsNamed
<1>9. summaries[n].recurrence =
         Cardinality(UNION {f.events : f \in S})
         + Cardinality({f.anchors : f \in {g \in S : g.events = {} /\ g.anchors # {}}})
         + Cardinality({<<f.text, f.date>> : f \in {g \in S : g.events = {} /\ g.anchors = {}}})
  <2>1. Len(SourceEvents(S)) = Cardinality(AllIdentities(S))
    BY <1>4, EventsAre
  <2>2. Cardinality(AllIdentities(S))
           = Cardinality(CitedBy(S)) + Cardinality(AnchorsOf(S)) + Cardinality(TextsOf(S))
    BY <1>4, Counting
  <2> QED  BY <1>6, <2>1, <2>2 DEF CitedBy, AnchorsOf, TextsOf
<1>10. ASSUME NEW f \in pool, NEW g \in pool,
              Cardinality({h \in sample : h.date = f.date}) < Cardinality({h \in pool : h.date = f.date})
       PROVE  Cardinality({h \in sample : h.date = g.date})
                 <= Cardinality({h \in sample : h.date = f.date}) + IF g.date > f.date THEN 1 ELSE 0
  <2>1. f.date \in Nat /\ g.date \in Nat
    BY <1>4, <1>5 DEF Group, SourceFact
  <2> QED  BY <1>5, <1>10, <2>1 DEF OfDate
<1> QED  BY <1>3, <1>5, <1>7, <1>8, <1>9, <1>10

(* synthesize_cluster, validate_insights: for any store whose ids are      *)
(* distinct, what is synthesized passes the validation before signing and   *)
(* the one after, and no two insights claim one fact or an inactive one.   *)
THEOREM LineageValid == LineageSpec => []OwnLineageValid
<1>1. LineageSpec => []LineageInv
  BY LineageInductive
<1>2. LineageInv => OwnLineageValid
  BY LineageIsValid
<1> QED  BY <1>1, <1>2, PTL

(* representative_inputs, source_events: the sample is full or has all     *)
(* there is, favours no date by more than the last round, and recurrence   *)
(* counts each distinct occurrence once, whatever the facts.               *)
THEOREM SampledFairly == LineageSpec => []SampleIsFair
<1>1. LineageSpec => []LineageInv
  BY LineageInductive
<1>2. LineageInv => SampleIsFair
  BY SampleWasFair
<1> QED  BY <1>1, <1>2, PTL

=============================================================================
