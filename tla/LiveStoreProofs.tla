--------------------------- MODULE LiveStoreProofs ---------------------------
(***************************************************************************)
(* For any number of processes and facts: what the commands on the live    *)
(* store keep.                                                             *)
(*                                                                         *)
(* The argument.  As long as no two commands overlapped at most one is     *)
(* under way (Alone), so nothing it read has changed since: what it holds  *)
(* is a version of the file that keeps every decision of the operator in   *)
(* it (Kept) and, once a rebuild has merged, brings back nothing that has a *)
(* tombstone (Merged).  That merge_facts keeps the text of an edited fact  *)
(* rests on the edit log: every edited text, wherever it is, is of a fact  *)
(* that the log names (EditsKnown).                                        *)
(***************************************************************************)
EXTENDS LiveStore, TLAPS

Labels == {"idle", "loaded", "marked", "taken", "logged", "mirroring", "extracted", "read",
           "merged", "passed", "backedup", "truncated", "listed", "answered"}

Held == [facts : Facts, recent : SUBSET Ids, mode : {"merge", "replace"}, ids : SUBSET Ids]

Typed ==
    /\ store \in Facts \cup {None}
    /\ purged \subseteq Ids /\ edits \subseteq Ids /\ revoked \subseteq Ids /\ removed \subseteq Ids
    /\ backup \in [Procs -> Facts \cup {None}]
    /\ pc \in [Procs -> Labels]
    /\ mem \in [Procs -> Held]
    /\ overlapped \in BOOLEAN
    /\ starts \in 0..MaxStarts

-----------------------------------------------------------------------------
LEMMA IdleHeld == Idle \in Held /\ NoFacts \in Facts /\ Mined \in Fact /\ Idle.facts = NoFacts
  BY DEF Idle, Held, NoFacts, Facts, Mined, Fact

LEMMA LoadedFacts == Typed => Loaded \in Facts
  BY IdleHeld DEF Typed, Loaded

(* What becomes of one fact.                                               *)
LEMMA FactChanged ==
    ASSUME NEW f \in Facts, NEW i \in Ids
    PROVE  /\ f[i] # None => [f EXCEPT ![i].status = "superseded"] \in Facts
           /\ f[i] # None => [f EXCEPT ![i].text = "edited"] \in Facts
           /\ [f EXCEPT ![i] = None] \in Facts
           /\ [f EXCEPT ![i] = IF @ = None THEN Mined ELSE @] \in Facts
  BY IdleHeld DEF Facts, Fact

-----------------------------------------------------------------------------
(* Of what the operator decided about old, new keeps all, and every fact.  *)
Kept(old, new) ==
    \A i \in Ids : old[i] # None =>
        /\ new[i] # None
        /\ old[i].status = "superseded" => new[i].status = "superseded"
        /\ old[i].text = "edited" => new[i].text = "edited"

(* ... and brings back nothing that has a tombstone.                       *)
Merged(old, new, tombs) ==
    Kept(old, new) /\ \A i \in tombs : old[i] = None => new[i] = None

(* What a command that runs alone holds, by the store, the backup it made  *)
(* and the tombstones.                                                     *)
Local(label, m, s, b, tombs) ==
    /\ label = "loaded" => m.facts = (IF s = None THEN NoFacts ELSE s)
    /\ label \in {"mirroring", "read"} => s # None /\ m.facts = s
    /\ label = "read" => m.mode = "merge"
    /\ label = "logged" /\ s # None => Kept(s, m.facts)
    /\ label \in {"merged", "passed", "backedup"} /\ m.mode = "merge" =>
          s # None /\ Merged(s, m.facts, tombs)
    /\ label = "backedup" => b = s
    /\ label = "truncated" => s = None
    /\ label = "truncated" /\ m.mode = "merge" => b # None /\ Merged(b, m.facts, tombs)

Alone == \A p, q \in Procs : pc[p] # "idle" /\ pc[q] # "idle" => p = q

AloneInv ==
    ~overlapped => Alone /\ \A p \in Procs : Local(pc[p], mem[p], store, backup[p], purged)

(* Every edited text, on disk or in memory, is of a fact the log names.    *)
Known(facts, log) == \A i \in Ids : facts[i] # None /\ facts[i].text = "edited" => i \in log

EditsKnown ==
    /\ store # None => Known(store, edits)
    /\ \A p \in Procs : Known(mem[p].facts, edits)

(* Recall reads the revocations after the facts, and they only grow.       *)
RecallInv ==
    \A p \in Procs :
        /\ pc[p] = "listed" => mem[p].recent \subseteq revoked
        /\ pc[p] = "answered" => mem[p].ids \cap mem[p].recent = {}

LiveInv == AloneInv /\ EditsKnown /\ RecallInv

(* A process comes to another place, and may hold other things there.      *)
Comes(p, label, m) ==
    /\ Goto(p, label)
    /\ mem' = [mem EXCEPT ![p] = m]

(* What a step of one process has to show.                                 *)
LEMMA StepInv ==
    ASSUME Typed, LiveInv, NEW p \in Procs, NEW label \in Labels, NEW m \in Held, Comes(p, label, m),
           \/ pc[p] # "idle" /\ overlapped' = overlapped /\ starts' = starts
           \/ Start(p, label),
           store' \in Facts \cup {None}, purged' \subseteq Ids, removed' \subseteq Ids,
           edits \subseteq edits', edits' \subseteq Ids, revoked \subseteq revoked', revoked' \subseteq Ids,
           backup' \in [Procs -> Facts \cup {None}],
           ~overlapped => Local(label, m, store', backup'[p], purged'),
           store' # None => Known(store', edits'), Known(m.facts, edits'),
           label = "listed" => m.recent \subseteq revoked',
           label = "answered" => m.ids \cap m.recent = {}
    PROVE  Typed' /\ LiveInv'
<1>1. /\ pc \in [Procs -> Labels] /\ mem \in [Procs -> Held] /\ starts \in 0..MaxStarts
      /\ overlapped \in BOOLEAN /\ MaxStarts \in Nat
  BY LiveAssumption DEF Typed, LiveAssumption
<1>2. pc' = [pc EXCEPT ![p] = label] /\ mem' = [mem EXCEPT ![p] = m]
  BY DEF Comes, Goto
<1>3. overlapped' \in BOOLEAN
  BY <1>1, Zenon DEF Start
<1>4. starts' \in 0..MaxStarts
  BY <1>1 DEF Start
<1>5. pc' \in [Procs -> Labels] /\ mem' \in [Procs -> Held]
  BY <1>1, <1>2
<1>6. Typed'
  BY <1>3, <1>4, <1>5 DEF Typed
<1>7. ASSUME ~overlapped'
      PROVE  /\ Alone'
             /\ \A q \in Procs : Local(pc'[q], mem'[q], store', backup'[q], purged')
  <2>1. ~overlapped /\ \A q \in Procs \ {p} : pc[q] = "idle"
    <3>1. CASE Start(p, label)
      <4>1. ~(overlapped \/ \E q \in Procs : pc[q] # "idle")
        BY <1>7, <3>1, Zenon DEF Start
      <4> QED  BY <4>1
    <3>2. CASE pc[p] # "idle" /\ overlapped' = overlapped
      <4>1. ~overlapped
        BY <1>7, <3>2, Zenon
      <4> QED  BY <3>2, <4>1 DEF LiveInv, AloneInv, Alone
    <3> QED  BY <3>1, <3>2
  <2>2. \A q \in Procs \ {p} : pc'[q] = "idle"
    BY <1>1, <1>2, <2>1
  <2>3. Alone'
    BY <2>2 DEF Alone
  <2>4. pc'[p] = label /\ mem'[p] = m
    BY <1>1, <1>2
  <2> QED  BY <2>1, <2>2, <2>3, <2>4 DEF Local
<1>8. AloneInv'
  BY <1>7, Zenon DEF AloneInv
<1>9. EditsKnown'
  BY <1>1, <1>2 DEF LiveInv, EditsKnown, Known
<1>10. RecallInv'
  BY <1>1, <1>2 DEF LiveInv, RecallInv
<1> QED  BY <1>6, <1>8, <1>9, <1>10 DEF LiveInv

-----------------------------------------------------------------------------
LEMMA TypeFacts ==
    ASSUME Typed, LiveInv, NEW p \in Procs
    PROVE  /\ store \in Facts \cup {None} /\ backup \in [Procs -> Facts \cup {None}]
           /\ purged \subseteq Ids /\ edits \subseteq Ids /\ revoked \subseteq Ids /\ removed \subseteq Ids
           /\ mem[p] \in Held /\ mem[p].facts \in Facts /\ mem[p].ids \subseteq Ids
           /\ mem[p].recent \subseteq Ids /\ mem[p].mode \in {"merge", "replace"}
           /\ Known(mem[p].facts, edits) /\ (store # None => Known(store, edits))
           /\ Known(NoFacts, edits) /\ Known(Idle.facts, edits)
           /\ ~overlapped => Local(pc[p], mem[p], store, backup[p], purged)
           /\ Known(Loaded, edits)
<1>1. Known(NoFacts, edits) /\ NoFacts = Idle.facts
  BY IdleHeld DEF Known, NoFacts
<1> QED  BY <1>1 DEF Typed, Held, LiveInv, AloneInv, EditsKnown, Loaded

(* A command begins with what it reads.                                    *)
LEMMA BeginInv ==
    ASSUME Typed, LiveInv, NEW p \in Procs,
           \/ Load(p) \/ LoadCurated(p) \/ StartRecall(p)
           \/ \E recent \in SUBSET (Ids \ Curated), mode \in Modes : Extract(p, recent, mode)
    PROVE  Typed' /\ LiveInv'
<1>0. PICK N \in Held : N = Idle
  BY IdleHeld
<1>1. /\ store' = store /\ purged' = purged /\ edits' = edits /\ revoked' = revoked
      /\ backup' = backup /\ removed' = removed
  BY DEF Load, LoadCurated, StartRecall, Extract, disk
<1>2. PICK label \in {"loaded", "mirroring", "listed", "extracted"}, m \in Held :
         /\ Start(p, label) /\ Comes(p, label, m)
         /\ label = "loaded" => m.facts = Loaded
         /\ label = "mirroring" => store # None /\ m.facts = store
         /\ label = "listed" => m.recent = revoked
         /\ Known(m.facts, edits)
  <2>1. CASE Load(p)
    <3> DEFINE m == [N EXCEPT !.facts = Loaded]
    <3>1. m \in Held /\ m.facts = Loaded
      BY <1>0, LoadedFacts DEF Held
    <3> QED  BY <1>0, <2>1, <3>1, TypeFacts DEF Load, Start, Hold, Comes
  <2>2. CASE LoadCurated(p)
    <3> DEFINE m == [N EXCEPT !.facts = store]
    <3>1. m \in Held /\ m.facts = store
      BY <1>0, <2>2, TypeFacts DEF LoadCurated, Held
    <3> QED  BY <1>0, <2>2, <3>1, TypeFacts DEF LoadCurated, Start, Hold, Comes
  <2>3. CASE StartRecall(p)
    <3> DEFINE m == [N EXCEPT !.facts = Loaded, !.recent = revoked]
    <3>1. m \in Held /\ m.facts = Loaded /\ m.recent = revoked
      BY <1>0, LoadedFacts DEF Held, Typed
    <3> QED  BY <1>0, <2>3, <3>1, TypeFacts DEF StartRecall, Start, Hold, Comes
  <2>4. CASE \E recent \in SUBSET (Ids \ Curated), mode \in Modes : Extract(p, recent, mode)
    <3>1. PICK recent \in SUBSET Ids, mode \in {"merge", "replace"} : Extract(p, recent, mode)
      BY <2>4, LiveAssumption DEF LiveAssumption
    <3> DEFINE m == [N EXCEPT !.recent = recent, !.mode = mode]
    <3>2. m \in Held /\ m.facts = N.facts
      BY <1>0, <3>1 DEF Held
    <3> QED  BY <1>0, <3>1, <3>2, TypeFacts DEF Extract, Start, Hold, Comes
  <2> QED  BY <2>1, <2>2, <2>3, <2>4
<1>3. Local(label, m, store', backup'[p], purged')
  BY <1>1, <1>2 DEF Local, Loaded
<1> QED  BY <1>1, <1>2, <1>3, StepInv, TypeFacts DEF Labels

(* A step that leaves facts.json as it is.                                 *)
LEMMA QuietInv ==
    ASSUME Typed, LiveInv, NEW p \in Procs,
           \/ Stop(p) \/ Revoke(p) \/ Backfill(p) \/ Entomb(p) \/ ReadLive(p) \/ KeepWindow(p)
           \/ PassGates(p) \/ BackUp(p) \/ Answer(p)
    PROVE  Typed' /\ LiveInv'
<1>0. mem[p] \in Held /\ store \in Facts \cup {None}
  BY DEF Typed
<1>1. PICK label \in {"idle", "read", "merged", "passed", "backedup", "answered"}, m \in Held :
         /\ Comes(p, label, m)
         /\ label = "read" => store # None /\ m.facts = store /\ m.mode = "merge"
         /\ label = "merged" => m.mode = "replace"
         /\ label = "passed" => pc[p] = "merged" /\ m = mem[p]
         /\ label = "backedup" => pc[p] = "passed" /\ m = mem[p] /\ backup'[p] = store
         /\ label = "answered" => m.ids \cap m.recent = {}
         /\ Known(m.facts, edits)
  <2>1. CASE Stop(p) \/ Revoke(p) \/ Backfill(p) \/ Entomb(p)
    BY <2>1, IdleHeld, TypeFacts DEF Stop, Revoke, Backfill, Entomb, Done, Hold, Comes
  <2>2. CASE ReadLive(p)
    <3> DEFINE m == [mem[p] EXCEPT !.facts = store]
    <3>1. m \in Held /\ m.facts = store /\ m.mode = mem[p].mode
      BY <1>0, <2>2 DEF ReadLive, Held
    <3> QED  BY <2>2, <3>1, TypeFacts DEF ReadLive, Hold, Comes
  <2>3. CASE KeepWindow(p)
    <3> DEFINE f == [i \in Ids |-> IF i \in mem[p].recent THEN Mined ELSE None]
    <3>1. f \in Facts /\ Known(f, edits)
      BY IdleHeld DEF Facts, Known, Mined
    <3> HIDE DEF f
    <3> DEFINE m == [mem[p] EXCEPT !.facts = f]
    <3>2. m \in Held /\ m.facts = f /\ m.mode = mem[p].mode
      BY <1>0, <3>1 DEF Held
    <3> QED  BY <2>3, <3>1, <3>2 DEF KeepWindow, Hold, Comes, f
  <2>4. CASE PassGates(p) \/ BackUp(p)
    <3>1. mem' = [mem EXCEPT ![p] = mem[p]]
      BY <2>4 DEF PassGates, BackUp, Typed
    <3>2. BackUp(p) => backup'[p] = store
      BY DEF BackUp, Typed
    <3> QED  BY <2>4, <3>1, <3>2, TypeFacts DEF PassGates, BackUp, Comes
  <2>5. CASE Answer(p)
    <3> DEFINE S == {i \in Present(mem[p].facts) \ Resurrected(mem[p].facts) :
                        mem[p].facts[i].status # "superseded"}
    <3>1. S \in SUBSET Ids /\ S \cap revoked = {}
      BY DEF Present, Resurrected
    <3>2. mem[p].recent \subseteq revoked
      BY <2>5 DEF Answer, LiveInv, RecallInv
    <3> HIDE DEF S
    <3> DEFINE m == [mem[p] EXCEPT !.ids = S]
    <3>3. m \in Held /\ m.ids = S /\ m.recent = mem[p].recent /\ m.facts = mem[p].facts
      BY <1>0, <3>1 DEF Held
    <3> QED  BY <2>5, <3>1, <3>2, <3>3, TypeFacts DEF Answer, Hold, Comes, S
  <2> QED  BY <2>1, <2>2, <2>3, <2>4, <2>5
<1>2. /\ store' = store /\ edits' = edits /\ removed' = removed /\ starts' = starts
      /\ overlapped' = overlapped /\ pc[p] # "idle"
  BY DEF Stop, Revoke, Backfill, Entomb, ReadLive, KeepWindow, PassGates, BackUp, Answer,
     disk, history
<1>3. revoked \subseteq revoked' /\ revoked' \subseteq Ids
  BY TypeFacts DEF Stop, Revoke, Backfill, Entomb, ReadLive, KeepWindow, PassGates, BackUp, Answer,
     disk, Unattested, Present
<1>4. purged' \subseteq Ids /\ (label # "idle" => purged' = purged)
  BY <1>1, TypeFacts DEF Stop, Revoke, Backfill, Entomb, ReadLive, KeepWindow, PassGates, BackUp,
     Answer, disk, Goto, Comes, Done, Typed
<1>5. backup' \in [Procs -> Facts \cup {None}]
  BY TypeFacts DEF Stop, Revoke, Backfill, Entomb, ReadLive, KeepWindow, PassGates, BackUp,
     Answer, disk
<1>6. ~overlapped => Local(label, m, store', backup'[p], purged')
  BY <1>1, <1>2, <1>4, TypeFacts DEF Local
<1> QED  BY <1>1, <1>2, <1>3, <1>4, <1>5, <1>6, StepInv, TypeFacts DEF Labels

(* What a merge, an edit and a mark make of the facts they hold.           *)
LEMMA MergeKeeps ==
    ASSUME NEW live \in Facts, NEW recent \in SUBSET Ids, NEW log \in SUBSET Ids,
           NEW tombs \in SUBSET Ids, NEW dead \in SUBSET Ids, Known(live, log)
    PROVE  LET merged == MergeFacts(live, recent, tombs \cup log \cup dead)
           IN  merged \in Facts /\ Merged(live, merged, tombs) /\ Known(merged, log)
<1>1. MergeFacts(live, recent, tombs \cup log \cup dead) \in Facts
  BY IdleHeld DEF MergeFacts, Facts
<1>2. Mined # None /\ Mined.text # "edited"
  BY NoneIsNothing, IdleHeld DEF Mined
<1> QED  BY <1>1, <1>2 DEF MergeFacts, Merged, Kept, Known

LEMMA ChangeKeeps ==
    ASSUME NEW f \in Facts, NEW i \in Ids, f[i] # None, NEW log, Known(f, log)
    PROVE  /\ [f EXCEPT ![i].text = "edited"] \in Facts
           /\ Kept(f, [f EXCEPT ![i].text = "edited"])
           /\ Known([f EXCEPT ![i].text = "edited"], log \cup {i})
           /\ [f EXCEPT ![i].status = "superseded"] \in Facts
           /\ Kept(f, [f EXCEPT ![i].status = "superseded"])
           /\ Known([f EXCEPT ![i].status = "superseded"], log)
<1>1. f[i] \in Fact /\ f \in [Ids -> Fact \cup {None}]
  BY DEF Facts
<1>2. [f[i] EXCEPT !.text = "edited"] \in Fact /\ [f[i] EXCEPT !.status = "superseded"] \in Fact
  BY <1>1 DEF Fact
<1>3. /\ [f[i] EXCEPT !.text = "edited"].status = f[i].status
      /\ [f[i] EXCEPT !.status = "superseded"].text = f[i].text
      /\ [f[i] EXCEPT !.text = "edited"].text = "edited"
      /\ [f[i] EXCEPT !.status = "superseded"].status = "superseded"
  BY <1>1 DEF Fact
<1>4. /\ [f[i] EXCEPT !.text = "edited"] # None
      /\ [f[i] EXCEPT !.status = "superseded"] # None
  BY <1>2, NoneIsNothing
<1>5. ASSUME NEW g \in Fact, g # None
      PROVE  /\ [f EXCEPT ![i] = g] \in Facts
             /\ \A j \in Ids : [f EXCEPT ![i] = g][j] = (IF j = i THEN g ELSE f[j])
  BY <1>1 DEF Facts
<1>6. PICK g \in Fact : g = [f[i] EXCEPT !.text = "edited"]
  BY <1>2
<1>7. [f EXCEPT ![i].text = "edited"] = [f EXCEPT ![i] = g]
  BY <1>6
<1>8. PICK h \in Fact : h = [f[i] EXCEPT !.status = "superseded"]
  BY <1>2
<1>9. [f EXCEPT ![i].status = "superseded"] = [f EXCEPT ![i] = h]
  BY <1>8
<1>10. /\ g.status = f[i].status /\ g.text = "edited" /\ g # None
       /\ h.status = "superseded" /\ h.text = f[i].text /\ h # None
  BY <1>3, <1>4, <1>6, <1>8
<1>11. /\ [f EXCEPT ![i] = g] \in Facts /\ Kept(f, [f EXCEPT ![i] = g])
       /\ Known([f EXCEPT ![i] = g], log \cup {i})
  BY <1>5, <1>10 DEF Kept, Known
<1>12. /\ [f EXCEPT ![i] = h] \in Facts /\ Kept(f, [f EXCEPT ![i] = h])
       /\ Known([f EXCEPT ![i] = h], log)
  BY <1>5, <1>10 DEF Kept, Known
<1> QED  BY <1>7, <1>9, <1>11, <1>12

(* A step that changes the facts it holds, or writes them.                 *)
LEMMA RewriteInv ==
    ASSUME Typed, LiveInv, NEW p \in Procs,
           \/ Merge(p) \/ WriteEdit(p) \/ TruncateFacts(p) \/ PromoteFacts(p)
           \/ \E files \in SUBSET Curated : IngestCurated(p, files)
           \/ \E i \in Ids : Mark(p, i) \/ TakeOut(p, i) \/ LogEdit(p, i) \/ Approve(p, i)
    PROVE  Typed' /\ LiveInv'
<1>1. /\ mem[p] \in Held /\ mem[p].facts \in Facts /\ store \in Facts \cup {None}
      /\ backup \in [Procs -> Facts \cup {None}] /\ Known(mem[p].facts, edits)
      /\ store # None => Known(store, edits)
      /\ purged \subseteq Ids /\ edits \subseteq Ids /\ revoked \subseteq Ids
      /\ removed \subseteq Ids /\ mem[p].recent \subseteq Ids
      /\ mem \in [Procs -> Held]
  BY TypeFacts DEF Typed
<1>2. /\ purged' = purged /\ revoked' = revoked /\ backup' = backup
      /\ edits \subseteq edits' /\ edits' \subseteq Ids /\ removed' \subseteq Ids
      /\ starts' = starts /\ overlapped' = overlapped /\ pc[p] # "idle"
  BY <1>1 DEF Merge, WriteEdit, TruncateFacts, PromoteFacts, IngestCurated, Mark, TakeOut, LogEdit,
     Approve, disk, history
<1>3. \E label \in Labels \ {"listed", "answered"}, m \in Held :
         /\ Comes(p, label, m) /\ Known(m.facts, edits')
         /\ store' \in Facts \cup {None} /\ (store' # None => Known(store', edits'))
         /\ ~overlapped => Local(label, m, store', backup'[p], purged')
  <2>1. CASE Merge(p)
    <3> DEFINE f == MergeFacts(mem[p].facts, mem[p].recent, purged \cup edits \cup revoked)
               m == [mem[p] EXCEPT !.facts = f]
    <3>1. f \in Facts /\ Merged(mem[p].facts, f, purged) /\ Known(f, edits)
      BY <1>1, MergeKeeps
    <3>2. Hold(p, m)
      BY <2>1 DEF Merge
    <3> HIDE DEF f
    <3>3. m \in Held /\ m.facts = f
      BY <1>1, <3>1 DEF Held
    <3>4. pc[p] = "read" /\ Comes(p, "merged", m) /\ store' = store /\ edits' = edits
      BY <2>1, <3>2 DEF Merge, Hold, Comes, disk
    <3>5. ~overlapped => Local("merged", m, store', backup'[p], purged')
      BY <1>2, <3>1, <3>3, <3>4, TypeFacts DEF Local
    <3> QED  BY <1>1, <3>1, <3>3, <3>4, <3>5 DEF Labels
  <2>2. CASE WriteEdit(p) \/ PromoteFacts(p)
    BY <1>1, <1>2, <2>2, IdleHeld, TypeFacts
       DEF WriteEdit, PromoteFacts, Done, Hold, Comes, Local, Labels
  <2>3. CASE TruncateFacts(p)
    <3>1. Comes(p, "truncated", mem[p]) /\ pc[p] = "backedup" /\ store' = None /\ edits' = edits
      BY <1>1, <2>3 DEF TruncateFacts, Comes
    <3>2. ~overlapped => Local("truncated", mem[p], store', backup'[p], purged')
      BY <1>2, <3>1, TypeFacts DEF Local
    <3> QED  BY <1>1, <3>1, <3>2 DEF Labels
  <2>4. CASE \E files \in SUBSET Curated : IngestCurated(p, files)
    <3>1. PICK files \in SUBSET Curated : IngestCurated(p, files)
      BY <2>4
    <3>2. store' \in Facts /\ edits' = edits
      BY <1>1, <3>1, IdleHeld DEF IngestCurated, Facts
    <3>3. Known(store', edits')
      BY <1>1, <3>1 DEF IngestCurated, Known, Mined
    <3>4. Comes(p, "idle", Idle)
      BY <3>1 DEF IngestCurated, Done, Hold, Comes
    <3>5. Known(Idle.facts, edits')
      BY <3>2, TypeFacts
    <3> QED  BY <3>2, <3>3, <3>4, <3>5, IdleHeld DEF Local, Labels
  <2>5. CASE \E i \in Ids : Mark(p, i)
    <3>1. PICK i \in Ids : Mark(p, i)
      BY <2>5
    <3> DEFINE m == [mem[p] EXCEPT !.ids = {i}]
    <3>2. m \in Held /\ m.facts = mem[p].facts
      BY <1>1 DEF Held
    <3>3. Comes(p, "marked", m) /\ edits' = edits
      BY <3>1 DEF Mark, Hold, Comes
    <3>4. store' \in Facts /\ Known(store', edits')
      BY <1>1, <3>1, ChangeKeeps DEF Mark
    <3> HIDE DEF m
    <3> QED  BY <1>1, <3>2, <3>3, <3>4 DEF Local, Labels
  <2>6. CASE \E i \in Ids : TakeOut(p, i)
    <3>1. PICK i \in Ids : TakeOut(p, i)
      BY <2>6
    <3> DEFINE m == [mem[p] EXCEPT !.ids = {i}]
    <3>2. m \in Held /\ m.facts = mem[p].facts
      BY <1>1 DEF Held
    <3>3. Comes(p, "taken", m) /\ edits' = edits
      BY <3>1 DEF TakeOut, Hold, Comes
    <3>4. store' \in Facts /\ Known(store', edits')
      BY <1>1, <3>1 DEF TakeOut, Facts, Known
    <3> HIDE DEF m
    <3> QED  BY <1>1, <3>2, <3>3, <3>4 DEF Local, Labels
  <2>7. CASE \E i \in Ids : LogEdit(p, i)
    <3>1. PICK i \in Ids : LogEdit(p, i)
      BY <2>7
    <3> DEFINE f == [mem[p].facts EXCEPT ![i].text = "edited"]
               m == [mem[p] EXCEPT !.facts[i].text = "edited"]
    <3>2. f \in Facts /\ Kept(mem[p].facts, f) /\ Known(f, edits \cup {i})
      BY <1>1, <3>1, ChangeKeeps DEF LogEdit
    <3>3. m = [mem[p] EXCEPT !.facts = f]
      OBVIOUS
    <3>4. Comes(p, "logged", m) /\ edits' = edits \cup {i} /\ store' = store /\ pc[p] = "loaded"
      BY <3>1 DEF LogEdit, Hold, Comes
    <3> HIDE DEF f, m
    <3>5. m \in Held /\ m.facts = f
      BY <1>1, <3>2, <3>3 DEF Held
    <3>6. ~overlapped => Local("logged", m, store', backup'[p], purged')
      BY <3>2, <3>4, <3>5, TypeFacts DEF Local
    <3>7. store # None => Known(store, edits')
      BY <1>1, <3>4 DEF Known
    <3> QED  BY <1>1, <3>2, <3>4, <3>5, <3>6, <3>7 DEF Labels
  <2>8. CASE \E i \in Ids : Approve(p, i)
    <3>1. PICK i \in Ids : Approve(p, i)
      BY <2>8
    <3>2. store' \in Facts /\ Known(store', edits') /\ edits' = edits
      BY <1>1, <3>1, IdleHeld DEF Approve, Facts, Known, Mined
    <3>3. Comes(p, "idle", Idle)
      BY <3>1 DEF Approve, Done, Hold, Comes
    <3>4. Known(Idle.facts, edits')
      BY <3>2, TypeFacts
    <3> QED  BY <3>2, <3>3, <3>4, IdleHeld DEF Local, Labels
  <2> QED  BY <2>1, <2>2, <2>3, <2>4, <2>5, <2>6, <2>7, <2>8
<1> QED  BY <1>1, <1>2, <1>3, StepInv

(* The types and LiveInv are kept by every command on the live store,      *)
(* killed or not, and by rebuilds, curators, appliers and edits beside it. *)
THEOREM LiveInductive == Spec => [](Typed /\ LiveInv)
<1>1. ASSUME Init
      PROVE  Typed /\ LiveInv
  <2>1. Typed
    <3>1. store \in Facts
      BY <1>1, IdleHeld DEF Init, Facts
    <3>2. starts \in 0..MaxStarts
      BY <1>1, LiveAssumption DEF Init, LiveAssumption
    <3>3. mem \in [Procs -> Held]
      BY <1>1, IdleHeld DEF Init
    <3> QED  BY <1>1, <3>1, <3>2, <3>3 DEF Init, Typed, Labels
  <2>2. Known(store, edits) /\ \A p \in Procs : Known(mem[p].facts, edits)
    BY <1>1, IdleHeld DEF Init, Known, Mined, NoFacts
  <2> QED  BY <1>1, <2>1, <2>2 DEF Init, LiveInv, AloneInv, Alone, Local, EditsKnown, RecallInv
<1>2. ASSUME Typed, LiveInv, [Next]_vars
      PROVE  Typed' /\ LiveInv'
  <2>1. ASSUME NEW p \in Procs, Operator(p) \/ Rebuild(p) \/ Recall(p) \/ Stop(p)
        PROVE  Typed' /\ LiveInv'
    BY <1>2, <2>1, BeginInv, QuietInv, RewriteInv DEF Operator, Rebuild, Recall
  <2>2. CASE UNCHANGED vars
    <3>1. /\ store' = store /\ purged' = purged /\ edits' = edits /\ revoked' = revoked
          /\ backup' = backup /\ pc' = pc /\ mem' = mem /\ starts' = starts
          /\ removed' = removed /\ overlapped' = overlapped
      BY <2>2 DEF vars, disk, history
    <3>2. Typed'
      BY <1>2, <3>1 DEF Typed
    <3>3. LiveInv'
      BY <1>2, <3>1 DEF LiveInv, AloneInv, Alone, EditsKnown, RecallInv
    <3> QED  BY <3>2, <3>3
  <2> QED  BY <1>2, <2>1, <2>2 DEF Next
<1> QED  BY <1>1, <1>2, PTL DEF Spec

(* Recall answers with no fact that was revoked when it began, whoever     *)
(* rewrote the store since (_exclude_resurrected).                         *)
THEOREM RevokedStaysHidden == Spec => []RevokedHidden
<1>1. LiveInv => RevokedHidden
  BY DEF LiveInv, RecallInv, RevokedHidden
<1> QED  BY <1>1, LiveInductive, PTL

-----------------------------------------------------------------------------
(* Who writes the store.                                                   *)
Writes(p) ==
    \/ WriteEdit(p) \/ TruncateFacts(p) \/ PromoteFacts(p)
    \/ \E files \in SUBSET Curated : IngestCurated(p, files)
    \/ \E i \in Ids : Mark(p, i) \/ TakeOut(p, i) \/ Approve(p, i)

LEMMA Writer ==
    ASSUME Typed, LiveInv, [Next]_vars, store' # store
    PROVE  \E p \in Procs :
              /\ Writes(p) /\ overlapped' = overlapped
              /\ \A q \in Procs : Promoting(q) => q = p /\ PromoteFacts(p)
<1>1. PICK p \in Procs : Operator(p) \/ Rebuild(p) \/ Recall(p) \/ Stop(p)
  BY DEF Next, vars, disk
<1>2. Writes(p)
  BY <1>1 DEF Operator, Rebuild, Recall, Stop, Load, Revoke, Backfill, Entomb, LoadCurated, LogEdit,
     Extract, ReadLive, Merge, KeepWindow, PassGates, BackUp, StartRecall, Answer, disk, Writes
<1>3. overlapped' = overlapped
  BY <1>2 DEF Writes, WriteEdit, TruncateFacts, PromoteFacts, IngestCurated, Mark, TakeOut, Approve,
     history
<1>4. \A q \in Procs \ {p} : pc'[q] = pc[q]
  BY <1>2 DEF Writes, WriteEdit, TruncateFacts, PromoteFacts, IngestCurated, Mark, TakeOut, Approve,
     Done, Goto, Typed
<1>5. pc[p] \in {"backedup", "truncated"} /\ pc'[p] = "idle" => PromoteFacts(p)
  BY <1>2 DEF Writes, WriteEdit, TruncateFacts, IngestCurated, Mark, TakeOut, Approve, Goto, Typed
<1> QED  BY <1>2, <1>3, <1>4, <1>5 DEF Promoting

(* What a write replaces is what its command, running alone, had read or   *)
(* backed up.                                                              *)
LEMMA Replacing ==
    ASSUME Typed, LiveInv, NEW p \in Procs, Writes(p),
           \A q \in Procs : Promoting(q) => q = p /\ PromoteFacts(p),
           ~overlapped, NEW old \in Replaced
    PROVE  /\ old \in Facts
           /\ \/ store # None /\ old = store
              \/ store = None /\ PromoteFacts(p) /\ pc[p] = "truncated" /\ old = backup[p]
<1>1. ~overlapped => Local(pc[p], mem[p], store, backup[p], purged)
  BY TypeFacts
<1>2. CASE store # None
  BY <1>2, TypeFacts DEF Replaced
<1>3. CASE store = None
  <2>1. Promoting(p) /\ old = backup[p] /\ old # None
    BY <1>3 DEF Replaced
  <2>2. pc[p] = "backedup" => backup[p] = store
    BY <1>1 DEF Local
  <2> QED  BY <1>3, <2>1, <2>2, TypeFacts DEF Promoting
<1> QED  BY <1>2, <1>3

(* A rebuild that ran alone and merged promotes what keeps every decision  *)
(* and brings back nothing that has a tombstone.                           *)
LEMMA PromotedMerged ==
    ASSUME Typed, LiveInv, NEW p \in Procs, PromoteFacts(p), mem[p].mode = "merge",
           \A q \in Procs : Promoting(q) => q = p /\ PromoteFacts(p),
           ~overlapped, NEW old \in Replaced
    PROVE  Merged(old, store', purged)
<1>1. Local(pc[p], mem[p], store, backup[p], purged)
  BY TypeFacts
<1>2. store' = mem[p].facts /\ pc[p] \in {"backedup", "truncated"} /\ Writes(p)
  BY DEF PromoteFacts, Writes
<1>3. \/ pc[p] = "backedup" /\ old = store
      \/ pc[p] = "truncated" /\ old = backup[p]
  <2>1. pc[p] = "truncated" => store = None
    BY <1>1 DEF Local
  <2> QED  BY <1>2, <2>1, Replacing
<1> QED  BY <1>1, <1>2, <1>3 DEF Local

(* No command that runs alone undoes what the operator decided: what was    *)
(* superseded stays so, what was edited keeps its text (merge_facts).      *)
THEOREM OperatorDecides == Spec => DecisionsKept
<1>1. ASSUME Typed, LiveInv, [Next]_vars, NEW old \in Replaced, NEW i \in Ids \ Curated,
             ~overlapped', \A p \in Procs : Promoting(p) => mem[p].mode = "merge",
             store' # None, old[i] # None, store'[i] # None
      PROVE  /\ old[i].status = "superseded" => store'[i].status = "superseded"
             /\ old[i].text = "edited" => store'[i].text = "edited"
  <2>1. CASE store' = store
    BY <1>1, <2>1 DEF Replaced
  <2>2. CASE store' # store
    <3>1. PICK p \in Procs : /\ Writes(p) /\ overlapped' = overlapped
                            /\ \A q \in Procs : Promoting(q) => q = p /\ PromoteFacts(p)
      BY <1>1, <2>2, Writer
    <3>2. ~overlapped
      BY <1>1, <3>1, Zenon
    <3>3. Local(pc[p], mem[p], store, backup[p], purged) /\ mem[p].facts \in Facts
      BY <1>1, <3>2, TypeFacts
    <3>4. CASE PromoteFacts(p)
      <4>1. Promoting(p)
        BY <1>1, <2>2, <3>4 DEF Promoting, PromoteFacts, Done, Goto, Typed
      <4>2. Merged(old, store', purged)
        BY <1>1, <3>1, <3>2, <3>4, <4>1, PromotedMerged
      <4> QED  BY <1>1, <4>2 DEF Merged, Kept
    <3>5. CASE ~PromoteFacts(p)
      <4>1. store # None /\ old = store
        BY <1>1, <3>1, <3>2, <3>5, Replacing
      <4>2. CASE WriteEdit(p)
        BY <1>1, <3>3, <4>1, <4>2 DEF WriteEdit, Local, Kept
      <4>3. CASE \E files \in SUBSET Curated : IngestCurated(p, files)
        BY <1>1, <3>3, <4>1, <4>3 DEF IngestCurated, Local
      <4>4. CASE \E j \in Ids : Mark(p, j)
        <5>1. PICK j \in Ids : Mark(p, j)
          BY <4>4
        <5>2. mem[p].facts = store
          BY <3>3, <4>1, <5>1 DEF Mark, Local
        <5>3. Known(mem[p].facts, edits)
          BY <1>1, TypeFacts
        <5>4. Kept(store, store')
          BY <3>3, <5>1, <5>2, <5>3, ChangeKeeps DEF Mark
        <5> QED  BY <1>1, <4>1, <5>4 DEF Kept
      <4>5. CASE \E j \in Ids : TakeOut(p, j) \/ Approve(p, j)
        BY <1>1, <3>3, <4>1, <4>5 DEF TakeOut, Approve, Local, Facts
      <4>6. ~TruncateFacts(p)
        BY <1>1 DEF TruncateFacts
      <4> QED  BY <3>1, <3>5, <4>2, <4>3, <4>4, <4>5, <4>6 DEF Writes
    <3> QED  BY <3>4, <3>5
  <2> QED  BY <2>1, <2>2
<1>2. Typed /\ LiveInv /\ [Next]_vars =>
         [\A old \in Replaced, i \in Ids \ Curated :
          /\ ~overlapped'
          /\ \A p \in Procs : Promoting(p) => mem[p].mode = "merge"
          /\ store' # None /\ old[i] # None /\ store'[i] # None
          => /\ old[i].status = "superseded" => store'[i].status = "superseded"
             /\ old[i].text = "edited" => store'[i].text = "edited"]_vars
  BY <1>1
<1> QED  BY <1>2, LiveInductive, PTL DEF Spec, DecisionsKept

(* A fact with a tombstone does not come back with a rebuild.              *)
THEOREM TombstonesHold == Spec => PurgedStaysAway
<1>1. ASSUME Typed, LiveInv, [Next]_vars
      PROVE  StayAway(purged)
  <2>1. SUFFICES ASSUME NEW p \in Procs, Promoting(p), mem[p].mode = "merge", ~overlapped',
                        NEW old \in Replaced, NEW i \in purged, old[i] = None
                 PROVE  store'[i] = None
    BY DEF StayAway
  <2>2. PICK r \in Procs : /\ Writes(r) /\ overlapped' = overlapped
                          /\ \A q \in Procs : Promoting(q) => q = r /\ PromoteFacts(r)
    BY <1>1, <2>1, Writer DEF Promoting
  <2>3. r = p /\ PromoteFacts(p)
    BY <2>1, <2>2
  <2>4. ~overlapped
    BY <2>1, <2>2, Zenon
  <2>5. Merged(old, store', purged)
    BY <1>1, <2>1, <2>2, <2>3, <2>4, PromotedMerged
  <2> QED  BY <2>1, <2>5 DEF Merged
<1>2. Typed /\ LiveInv /\ [Next]_vars => [StayAway(purged)]_vars
  BY <1>1
<1> QED  BY <1>2, LiveInductive, PTL DEF Spec, PurgedStaysAway

(* A fact goes by a purge alone; what a rebuild replaces is in its backup, *)
(* whenever it dies.                                                       *)
THEOREM NoFactLost == Spec => NothingLost
<1>1. ASSUME Typed, LiveInv, [Next]_vars, NEW i \in Ids \ Curated,
             Loaded[i] # None, Loaded'[i] = None, ~overlapped'
      PROVE  \/ i \in removed'
             \/ \E p \in Procs : backup[p] # None /\ backup[p][i] = Loaded[i]
  <2>1. store # None /\ Loaded = store
    BY <1>1 DEF Loaded, NoFacts
  <2>2. store' # store
    BY <1>1 DEF Loaded
  <2>3. PICK p \in Procs : Writes(p) /\ overlapped' = overlapped
    BY <1>1, <2>2, Writer
  <2>4. ~overlapped
    BY <1>1, <2>3, Zenon
  <2>5. /\ Local(pc[p], mem[p], store, backup[p], purged) /\ mem[p].facts \in Facts
        /\ store \in Facts /\ None \notin Facts /\ i \in Ids
    BY <1>1, <2>1, <2>4, TypeFacts, NoneIsNothing
  <2>6. CASE TruncateFacts(p) \/ PromoteFacts(p)
    <3>1. pc[p] = "backedup"
      BY <2>1, <2>5, <2>6 DEF TruncateFacts, PromoteFacts, Local
    <3>2. backup[p] = store
      BY <2>5, <3>1 DEF Local
    <3> QED  BY <2>1, <3>2
  <2>7. CASE WriteEdit(p)
    <3>1. Kept(store, store') /\ store' \in Facts
      BY <2>1, <2>5, <2>7 DEF WriteEdit, Local
    <3> QED  BY <1>1, <2>1, <2>5, <3>1 DEF Kept, Loaded
  <2>8. CASE \E files \in SUBSET Curated : IngestCurated(p, files)
    <3>1. store' # None
      BY <2>5, <2>8, IdleHeld DEF IngestCurated, Facts
    <3> QED  BY <1>1, <2>1, <2>5, <2>8, <3>1 DEF IngestCurated, Local, Loaded
  <2>9. CASE \E j \in Ids : Mark(p, j)
    <3>1. PICK j \in Ids : Mark(p, j)
      BY <2>9
    <3>2. mem[p].facts = store
      BY <2>1, <2>5, <3>1 DEF Mark, Local
    <3>3. Kept(store, store') /\ store' \in Facts
      BY <2>5, <3>1, <3>2, ChangeKeeps DEF Mark, Known
    <3> QED  BY <1>1, <2>1, <2>5, <3>3 DEF Kept, Loaded
  <2>10. CASE \E j \in Ids : TakeOut(p, j)
    <3>1. PICK j \in Ids : TakeOut(p, j)
      BY <2>10
    <3>2. mem[p].facts = store /\ store' = [store EXCEPT ![j] = None] /\ store' \in Facts
      BY <2>1, <2>5, <3>1 DEF TakeOut, Local, Facts
    <3>3. i = j
      BY <1>1, <2>1, <2>5, <3>2 DEF Loaded, Facts
    <3> QED  BY <3>1, <3>3 DEF TakeOut
  <2>11. CASE \E j \in Ids : Approve(p, j)
    <3>1. PICK j \in Ids : Approve(p, j)
      BY <2>11
    <3>2. mem[p].facts = store /\ store' = [store EXCEPT ![j] = IF @ = None THEN Mined ELSE @]
      BY <2>1, <2>5, <3>1 DEF Approve, Local
    <3>3. store' \in Facts /\ store'[i] = store[i]
      BY <2>1, <2>5, <3>2, IdleHeld, <1>1 DEF Facts
    <3> QED  BY <1>1, <2>1, <2>5, <3>3 DEF Loaded
  <2> QED  BY <2>3, <2>6, <2>7, <2>8, <2>9, <2>10, <2>11 DEF Writes
<1>2. Typed /\ LiveInv /\ [Next]_vars =>
         [\A i \in Ids \ Curated :
          Loaded[i] # None /\ Loaded'[i] = None /\ ~overlapped' =>
              \/ i \in removed'
              \/ \E p \in Procs : backup[p] # None /\ backup[p][i] = Loaded[i]]_vars
  BY <1>1
<1> QED  BY <1>2, LiveInductive, PTL DEF Spec, NothingLost

=============================================================================
