------------------------- MODULE CustomerStoreProofs -------------------------
(***************************************************************************)
(* Theorems about CustomerStore and CustomerRecall, for any number of      *)
(* processes, facts, proposals, leftovers and faults: the types, the       *)
(* lock's guarantee, and that every directory an interrupted program leaves *)
(* behind can be read and recovered; then the review queue; then the hook   *)
(* that recalls without the lock.                                          *)
(*                                                                         *)
(* The argument.  The lock makes every session sequential (Exclusion), so  *)
(* what a session found out when it decided on an operation still holds at *)
(* each of its writes (Decided).  The journal, once renamed into place,    *)
(* describes a legal operation on the generation that was there            *)
(* (JournalLegal), and the files are at one of three points of carrying it *)
(* out, which the recovering session knows (Position, Progress).           *)
(***************************************************************************)
EXTENDS CustomerRecall, FiniteSetTheorems, TLAPS

(* At most one process is in a session: the one that holds the lock, and    *)
(* the generation it loaded is the one on disk.                            *)
Exclusion ==
    \A p \in Procs : pc[p] # "idle" => lock = p /\ view[p] = Generation

(* A process that is writing a temporary file accounts for one of them. *)
TempHeld == \A p \in Procs : HoldsTemp(p) => temps > 0

(* No journal exists while a session saves or applies a proposal. *)
NoJournalYet ==
    \A p \in Procs : pc[p] \in {"open", "saving", "importing", "journaling"}
                        => journal = None

(* What was checked when the session chose its proposal. *)
Decided ==
    \A p \in Procs :
        /\ pc[p] \in {"saving", "importing", "journaling"} => want[p] \in Proposal
        /\ pc[p] = "journaling" =>
              /\ want[p].event # None
              /\ Eligible(facts, revs, want[p].event)
              /\ LifecycleOK(AfterEvent(facts, want[p].event),
                             Append(revs, want[p].event))

WithEvent == Append(journal.before.revs, journal.event)

JournalLegal ==
    journal # None =>
        /\ Eligible(journal.before.facts, journal.before.revs, journal.event)
        /\ journal.after = AfterEvent(journal.before.facts, journal.event)
        /\ LifecycleOK(journal.after, WithEvent)

(* The event is appended before the list is rewritten. *)
Position ==
    IF journal = None
    THEN LifecycleOK(facts, revs)
    ELSE \/ facts = journal.before.facts /\ revs = journal.before.revs
         \/ facts = journal.before.facts /\ revs = WithEvent
         \/ facts = journal.after /\ revs = WithEvent

(* Where the recovering session is, the files are. *)
Progress ==
    \A p \in Procs :
        /\ pc[p] \in {"revoking", "revoked", "rewriting", "rewritten",
                      "clearing", "retiring"} => journal # None
        /\ pc[p] \in {"revoking", "revoked"} => revs = journal.before.revs
        /\ pc[p] \in {"rewriting", "rewritten"} => revs = WithEvent
        /\ pc[p] \in {"sweeping", "clearing", "retiring"} /\ journal # None =>
              revs = WithEvent /\ facts = journal.after

IInv == /\ TypeOK
        /\ Exclusion
        /\ TempHeld
        /\ NoJournalYet
        /\ Decided
        /\ JournalLegal
        /\ Position
        /\ Progress

-----------------------------------------------------------------------------
USE StoreAssumption, FactsAssumption

(* The effects of an operation on the fact list are fact lists. *)
LEMMA EffectTypes ==
    ASSUME NEW f \in FactList
    PROVE  /\ \A new \in SUBSET Ids : AddFacts(f, new) \in FactList
           /\ \A e \in Event : AfterEvent(f, e) \in FactList
  BY DEF FactList, AddFacts, AfterEvent, Supersede, Erase, Event

(* The commands of Next, each as an alternative of its own. *)
LEMMA NextCases ==
    ASSUME Next
    PROVE  \/ \E p \in Procs :
              \/ Open(p)
              \/ Close(p)
              \/ Publish(p)
              \/ ReplaceFacts(p)
              \/ PublishJournal(p)
              \/ Recover(p)
              \/ Resume(p)
              \/ StageRevocation(p)
              \/ ReplaceRevocations(p)
              \/ StageRewrite(p)
              \/ RewriteFacts(p)
              \/ SweepTemp(p)
              \/ Swept(p)
              \/ Cleared(p)
              \/ RetireJournal(p)
              \/ Refuse(p)
              \/ Fail(p)
              \/ Crash(p)
              \/ \E found \in SUBSET Ids : Propose(p, found) \/ Capture(p, found)
              \/ \E i \in Ids, source \in proposals : ProposeCorrection(p, i, source)
              \/ \E i \in Ids : ProposeForget(p, i)
              \/ \E prop \in proposals :
                    \/ Discard(p, prop) \/ ApplyImport(p, prop)
                    \/ ApplyLifecycle(p, prop) \/ ClearProposal(p, prop)
           \/ AddDerived \/ RemoveDerived
  BY DEF Next, Command, Continue

-----------------------------------------------------------------------------
(* Types. *)
LEMMA GenerationType == TypeOK => Generation \in GenerationSet
  BY DEF TypeOK, Generation, GenerationSet

LEMMA TypeStep ==
    ASSUME IInv, [Next]_vars
    PROVE  TypeOK'
  <1> USE DEF TypeOK, disk
  <1>0. TypeOK /\ TempHeld /\ Exclusion /\ Decided /\ Progress
    BY DEF IInv
  <1>1. ASSUME NEW p \in Procs, Open(p)
        PROVE  TypeOK'
    BY <1>0, <1>1, GenerationType, EffectTypes DEF Open, Goto, TempHeld, HoldsTemp
  <1>2. ASSUME NEW p \in Procs, Close(p)
        PROVE  TypeOK'
    BY <1>0, <1>2, GenerationType, EffectTypes DEF Close, EndSession, Goto, TempHeld, HoldsTemp
  <1>3. ASSUME NEW p \in Procs, Publish(p)
        PROVE  TypeOK'
    <2>1. temps > 0 /\ want[p] \in Proposal
      BY <1>0, <1>3 DEF Publish, TempHeld, HoldsTemp, Decided
    <2>2. QED
      BY <1>3, <2>1, <1>0 DEF Publish, EndSession, Goto
  <1>4. ASSUME NEW p \in Procs, ReplaceFacts(p)
        PROVE  TypeOK'
    <2>1. temps > 0
      BY <1>0, <1>4 DEF ReplaceFacts, TempHeld, HoldsTemp
    <2>2. want[p] \in Proposal
      BY <1>0, <1>4 DEF ReplaceFacts, Decided
    <2>3. Additions(want[p]) \in SUBSET Ids
      BY <2>2 DEF Additions, Proposal
    <2>4. facts' \in FactList
      BY <1>0, <1>4, <2>3, EffectTypes DEF ReplaceFacts
    <2>5. QED
      BY <1>0, <1>4, <2>1, <2>4 DEF ReplaceFacts, EndSession, Goto
  <1>5. ASSUME NEW p \in Procs, PublishJournal(p)
        PROVE  TypeOK'
    <2>1. temps > 0
      BY <1>0, <1>5 DEF PublishJournal, TempHeld, HoldsTemp
    <2>2. want[p] \in Proposal /\ want[p].event # None
      BY <1>0, <1>5 DEF PublishJournal, Decided
    <2>3. want[p].event \in Event
      BY <2>2 DEF Proposal
    <2>4. view[p] \in GenerationSet /\ view[p].facts \in FactList
      BY <1>0, <1>5, GenerationType DEF PublishJournal, Exclusion, GenerationSet
    <2>5. journal' \in Journal
      BY <1>5, <2>3, <2>4, EffectTypes DEF PublishJournal, Journal
    <2>6. QED
      BY <1>0, <1>5, <2>1, <2>5 DEF PublishJournal, Goto
  <1>6. ASSUME NEW p \in Procs, Recover(p)
        PROVE  TypeOK'
    BY <1>0, <1>6, GenerationType, EffectTypes DEF Recover, Goto, TempHeld, HoldsTemp
  <1>7. ASSUME NEW p \in Procs, Resume(p)
        PROVE  TypeOK'
    BY <1>0, <1>7, GenerationType, EffectTypes DEF Resume, Goto, TempHeld, HoldsTemp
  <1>8. ASSUME NEW p \in Procs, StageRevocation(p)
        PROVE  TypeOK'
    BY <1>0, <1>8, GenerationType, EffectTypes DEF StageRevocation, Stage, Goto, TempHeld, HoldsTemp
  <1>9. ASSUME NEW p \in Procs, ReplaceRevocations(p)
        PROVE  TypeOK'
    <2>1. temps > 0 /\ journal \in Journal
      BY <1>0, <1>9 DEF ReplaceRevocations, TempHeld, HoldsTemp, Progress
    <2>2. revs' \in Seq(Event)
      BY <1>0, <1>9, <2>1 DEF ReplaceRevocations, Journal
    <2>3. view[p] \in GenerationSet
      BY <1>0, <1>9, GenerationType DEF ReplaceRevocations, Exclusion
    <2>4. view' \in [Procs -> GenerationSet \cup {None}]
      BY <1>0, <1>9, <2>2, <2>3 DEF ReplaceRevocations, GenerationSet
    <2>5. QED
      BY <1>0, <1>9, <2>1, <2>2, <2>4 DEF ReplaceRevocations, Goto
  <1>10. ASSUME NEW p \in Procs, StageRewrite(p)
        PROVE  TypeOK'
    BY <1>0, <1>10, GenerationType, EffectTypes DEF StageRewrite, Stage, Goto, TempHeld, HoldsTemp
  <1>11. ASSUME NEW p \in Procs, RewriteFacts(p)
        PROVE  TypeOK'
    <2>1. temps > 0 /\ journal \in Journal
      BY <1>0, <1>11 DEF RewriteFacts, TempHeld, HoldsTemp, Progress
    <2>2. facts' \in FactList
      BY <1>11, <2>1 DEF RewriteFacts, Journal
    <2>3. view[p] \in GenerationSet
      BY <1>0, <1>11, GenerationType DEF RewriteFacts, Exclusion
    <2>4. view' \in [Procs -> GenerationSet \cup {None}]
      BY <1>0, <1>11, <2>2, <2>3 DEF RewriteFacts, GenerationSet
    <2>5. QED
      BY <1>0, <1>11, <2>1, <2>2, <2>4 DEF RewriteFacts, Goto
  <1>12. ASSUME NEW p \in Procs, SweepTemp(p)
        PROVE  TypeOK'
    BY <1>0, <1>12, GenerationType, EffectTypes DEF SweepTemp, TempHeld, HoldsTemp
  <1>13. ASSUME NEW p \in Procs, Swept(p)
        PROVE  TypeOK'
    BY <1>0, <1>13, GenerationType, EffectTypes DEF Swept, EndSession, Goto, TempHeld, HoldsTemp
  <1>14. ASSUME NEW p \in Procs, Cleared(p)
        PROVE  TypeOK'
    BY <1>0, <1>14, GenerationType, EffectTypes DEF Cleared, Goto, TempHeld, HoldsTemp
  <1>15. ASSUME NEW p \in Procs, RetireJournal(p)
        PROVE  TypeOK'
    BY <1>0, <1>15, GenerationType, EffectTypes DEF RetireJournal, EndSession, Goto, TempHeld, HoldsTemp
  <1>16. ASSUME NEW p \in Procs, Refuse(p)
        PROVE  TypeOK'
    BY <1>0, <1>16, GenerationType, EffectTypes DEF Refuse, DropTemp, EndSession, Goto, TempHeld, HoldsTemp
  <1>17. ASSUME NEW p \in Procs, Fail(p)
        PROVE  TypeOK'
    BY <1>0, <1>17, GenerationType, EffectTypes DEF Fail, Fault, DropTemp, EndSession, Goto, TempHeld, HoldsTemp
  <1>18. ASSUME NEW p \in Procs, Crash(p)
        PROVE  TypeOK'
    BY <1>0, <1>18, GenerationType, EffectTypes DEF Crash, Fault, EndSession, Goto, TempHeld, HoldsTemp
  <1>19. ASSUME NEW p \in Procs, NEW found \in SUBSET Ids, Propose(p, found)
        PROVE  TypeOK'
    BY <1>0, <1>19, GenerationType, EffectTypes DEF Propose, StartSave, Stage, Goto, ImportProposal, Ready, Proposal, Event
  <1>20. ASSUME NEW p \in Procs, NEW found \in SUBSET Ids, Capture(p, found)
        PROVE  TypeOK'
    BY <1>0, <1>20, GenerationType, EffectTypes DEF Capture, StartSave, Stage, Goto, ImportProposal, Ready, Proposal, Event
  <1>21. ASSUME NEW p \in Procs, NEW i \in Ids, NEW source \in proposals, ProposeCorrection(p, i, source)
        PROVE  TypeOK'
    BY <1>0, <1>21, GenerationType, EffectTypes DEF ProposeCorrection, StartSave, Stage, Goto, Ready, Proposal, Event
  <1>22. ASSUME NEW p \in Procs, NEW i \in Ids, ProposeForget(p, i)
        PROVE  TypeOK'
    BY <1>0, <1>22, GenerationType, EffectTypes DEF ProposeForget, StartSave, Stage, Goto, Ready, Proposal, Event
  <1>23. ASSUME NEW p \in Procs, NEW prop \in proposals, Discard(p, prop)
        PROVE  TypeOK'
    BY <1>0, <1>23, GenerationType, EffectTypes DEF Discard, EndSession, Goto, Proposal, Event
  <1>24. ASSUME NEW p \in Procs, NEW prop \in proposals, ApplyImport(p, prop)
        PROVE  TypeOK'
    BY <1>0, <1>24, GenerationType, EffectTypes DEF ApplyImport, Stage, Goto, Proposal, Event
  <1>25. ASSUME NEW p \in Procs, NEW prop \in proposals, ApplyLifecycle(p, prop)
        PROVE  TypeOK'
    BY <1>0, <1>25, GenerationType, EffectTypes DEF ApplyLifecycle, Stage, Goto, Proposal, Event
  <1>26. ASSUME NEW p \in Procs, NEW prop \in proposals, ClearProposal(p, prop)
        PROVE  TypeOK'
    BY <1>0, <1>26, GenerationType, EffectTypes DEF ClearProposal, Proposal, Event
  <1>27. CASE AddDerived
    BY <1>0, <1>27 DEF AddDerived, Fault
  <1>28. CASE RemoveDerived
    BY <1>0, <1>28 DEF RemoveDerived
  <1>29. CASE UNCHANGED vars
    BY <1>0, <1>29 DEF vars
  <1>30. QED
    BY <1>1, <1>2, <1>3, <1>4, <1>5, <1>6, <1>7, <1>8, <1>9, <1>10, <1>11, <1>12, <1>13, <1>14, <1>15, <1>16, <1>17, <1>18, <1>19, <1>20, <1>21, <1>22, <1>23, <1>24, <1>25, <1>26, <1>27, <1>28, <1>29, NextCases

-----------------------------------------------------------------------------
(* Sessions. *)

(* p's session ends and the three files are as they were. *)
Ends(p) == /\ pc[p] # "idle"
           /\ EndSession(p)
           /\ UNCHANGED <<facts, revs, journal>>

(* p starts to write a proposal, or the list with a proposal's additions. *)
Chooses(p) ==
    /\ pc[p] = "open"
    /\ \E label \in {"saving", "importing"} : Stage(p, label)
    /\ \E prop \in Proposal : want' = [want EXCEPT ![p] = prop]
    /\ UNCHANGED <<facts, revs, journal, lock, view>>

(* No session moves and the three files are as they were. *)
Rests == UNCHANGED <<facts, revs, journal, lock, pc, view, want>>

(* Every step is one of these: most change neither session nor files. *)
LEMMA StepShape ==
    ASSUME TypeOK, [Next]_vars
    PROVE  \/ \E p \in Procs :
              \/ Open(p) \/ Ends(p) \/ Chooses(p)
              \/ \E prop \in proposals : ApplyLifecycle(p, prop)
              \/ ReplaceFacts(p) \/ PublishJournal(p)
              \/ Recover(p) \/ Resume(p)
              \/ StageRevocation(p) \/ ReplaceRevocations(p)
              \/ StageRewrite(p) \/ RewriteFacts(p)
              \/ SweepTemp(p) \/ Swept(p) \/ Cleared(p) \/ RetireJournal(p)
           \/ Rests /\ UNCHANGED temps
  <1> USE DEF disk
  <1>1. ASSUME NEW p \in Procs,
               Close(p) \/ Publish(p) \/ Refuse(p) \/ Fail(p) \/ Crash(p)
                 \/ \E prop \in proposals : Discard(p, prop)
        PROVE  Ends(p)
    BY <1>1 DEF Ends, Close, Publish, Refuse, Refused, Fail, Crash, Discard, Ready
  <1>2. Generation \in GenerationSet
    BY GenerationType
  <1>3. ASSUME NEW p \in Procs, NEW found \in SUBSET Ids,
               Propose(p, found) \/ Capture(p, found)
        PROVE  Chooses(p)
    <2>1. \A new \in SUBSET Ids : ImportProposal(new) \in Proposal
      BY <1>2 DEF ImportProposal, Proposal
    <2>2. QED
      BY <1>3, <2>1 DEF Chooses, Propose, Capture, StartSave, Ready
  <1>4. ASSUME NEW p \in Procs, NEW i \in Ids, NEW source \in proposals,
               ProposeCorrection(p, i, source)
        PROVE  Chooses(p)
    <2>1. source.ids \in SUBSET Ids
      BY DEF TypeOK, Proposal
    <2>2. PICK r \in source.ids :
             StartSave(p, [ids |-> {r}, event |-> [id |-> i, by |-> r],
                           gen |-> Generation])
      BY <1>4 DEF ProposeCorrection
    <2>3. [ids |-> {r}, event |-> [id |-> i, by |-> r], gen |-> Generation]
             \in Proposal
      BY <1>2, <2>1 DEF Proposal, Event
    <2>4. QED
      BY <1>4, <2>2, <2>3 DEF Chooses, ProposeCorrection, StartSave, Ready
  <1>5. ASSUME NEW p \in Procs, NEW i \in Ids, ProposeForget(p, i)
        PROVE  Chooses(p)
    <2>1. [ids |-> {}, event |-> [id |-> i, by |-> None], gen |-> Generation]
             \in Proposal
      BY <1>2 DEF Proposal, Event
    <2>2. QED
      BY <1>5, <2>1 DEF Chooses, ProposeForget, StartSave, Ready
  <1>6. ASSUME NEW p \in Procs, NEW prop \in proposals, ApplyImport(p, prop)
        PROVE  Chooses(p)
    BY <1>6 DEF Chooses, ApplyImport, MayApply, Ready, TypeOK
  <1>7. ASSUME NEW p \in Procs, NEW prop \in proposals, ClearProposal(p, prop)
        PROVE  Rests /\ UNCHANGED temps
    BY <1>7 DEF Rests, ClearProposal
  <1>8. AddDerived \/ RemoveDerived \/ UNCHANGED vars => Rests /\ UNCHANGED temps
    BY DEF Rests, AddDerived, RemoveDerived, vars
  <1>9. QED
    BY <1>1, <1>3, <1>4, <1>5, <1>6, <1>7, <1>8, NextCases

(* While p is in a session every other process is idle. *)
LEMMA Alone ==
    ASSUME Exclusion, NEW p \in Procs, pc[p] # "idle",
           NEW q \in Procs, q # p
    PROVE  pc[q] = "idle"
  BY DEF Exclusion

(* When a session ends no process is in one. *)
LEMMA AllIdle ==
    ASSUME TypeOK, Exclusion, NEW p \in Procs, pc[p] # "idle", EndSession(p)
    PROVE  \A q \in Procs : pc'[q] = "idle"
  BY Alone DEF EndSession, Goto, TypeOK

LEMMA ExclusionStep ==
    ASSUME IInv, [Next]_vars
    PROVE  Exclusion'
  <1> USE DEF Exclusion, disk
  <1>0. TypeOK /\ Exclusion
    BY DEF IInv
  <1>1. ASSUME NEW p \in Procs, Open(p)
        PROVE  Exclusion'
    BY <1>0, <1>1 DEF Open, Goto, TypeOK, Generation
  <1>2. ASSUME NEW p \in Procs, Ends(p) \/ ReplaceFacts(p) \/ RetireJournal(p)
        PROVE  Exclusion'
    BY <1>0, <1>2, AllIdle DEF Ends, ReplaceFacts, RetireJournal
  <1>3. ASSUME NEW p \in Procs, pc[p] # "idle", NEW label, Goto(p, label),
               UNCHANGED <<facts, revs, lock, view>>
        PROVE  Exclusion'
    BY <1>0, <1>3, Alone DEF Goto, Generation, TypeOK
  <1>4. ASSUME NEW p \in Procs,
               \/ Chooses(p) \/ PublishJournal(p) \/ Recover(p) \/ Cleared(p)
               \/ StageRevocation(p) \/ StageRewrite(p)
               \/ \E prop \in proposals : ApplyLifecycle(p, prop)
        PROVE  Exclusion'
    BY <1>3, <1>4 DEF Chooses, PublishJournal, Recover, StageRevocation,
         StageRewrite, Cleared, ApplyLifecycle, MayApply, Ready, Stage
  <1>5. ASSUME NEW p \in Procs, Resume(p)
        PROVE  Exclusion'
    BY <1>0, <1>5, Alone DEF Resume, Goto, Generation, TypeOK
  <1>6. ASSUME NEW p \in Procs, ReplaceRevocations(p)
        PROVE  Exclusion'
    <2>1. view'[p] = [view[p] EXCEPT !.revs = revs'] /\ facts' = facts
      BY <1>0, <1>6 DEF ReplaceRevocations, TypeOK
    <2>2. view'[p] = Generation'
      <3>1. view[p] = [facts |-> facts, revs |-> revs]
        BY <1>6 DEF ReplaceRevocations, Generation
      <3>2. view'[p] = [facts |-> facts, revs |-> revs']
        BY <2>1, <3>1
      <3>3. QED
        BY <2>1, <3>2 DEF Generation
    <2>3. QED
      BY <1>0, <1>6, <2>2, Alone DEF ReplaceRevocations, Goto, TypeOK
  <1>7. ASSUME NEW p \in Procs, RewriteFacts(p)
        PROVE  Exclusion'
    BY <1>0, <1>7, Alone DEF RewriteFacts, Goto, Generation, TypeOK
  <1>8. ASSUME NEW p \in Procs, Swept(p)
        PROVE  Exclusion'
    BY <1>0, <1>3, <1>8, AllIdle DEF Swept
  <1>9. ASSUME Rests \/ \E p \in Procs : SweepTemp(p)
        PROVE  Exclusion'
    BY <1>0, <1>9 DEF Rests, SweepTemp, Generation
  <1>10. QED
    BY <1>0, <1>1, <1>2, <1>4, <1>5, <1>6, <1>7, <1>8, <1>9, StepShape

LEMMA TempHeldStep ==
    ASSUME IInv, [Next]_vars
    PROVE  TempHeld'
  <1> USE DEF TempHeld, HoldsTemp, disk
  <1>0. TypeOK /\ Exclusion /\ TempHeld
    BY DEF IInv
  <1>1. ASSUME NEW p \in Procs, Ends(p) \/ ReplaceFacts(p) \/ RetireJournal(p)
        PROVE  TempHeld'
    BY <1>0, <1>1, AllIdle DEF Ends, ReplaceFacts, RetireJournal
  <1>2. ASSUME NEW p \in Procs, pc[p] # "idle", NEW label, Stage(p, label)
        PROVE  TempHeld'
    BY <1>0, <1>2, Alone DEF Stage, Goto, TypeOK
  <1>3. ASSUME NEW p \in Procs, pc[p] # "idle", NEW label, Goto(p, label),
               label \notin {"saving", "importing", "journaling", "revoked",
                             "rewritten"}
        PROVE  TempHeld'
    BY <1>0, <1>3, Alone DEF Goto, TypeOK
  <1>4. ASSUME NEW p \in Procs, Open(p)
        PROVE  TempHeld'
    BY <1>0, <1>4 DEF Open, Goto, TypeOK
  <1>5. ASSUME NEW p \in Procs,
               \/ Chooses(p) \/ StageRevocation(p)
               \/ \E prop \in proposals : ApplyLifecycle(p, prop)
        PROVE  TempHeld'
    BY <1>2, <1>5 DEF Chooses, StageRevocation, ApplyLifecycle, MayApply, Ready
  <1>6. ASSUME NEW p \in Procs,
               \/ PublishJournal(p) \/ Recover(p) \/ Resume(p)
               \/ ReplaceRevocations(p) \/ RewriteFacts(p) \/ Cleared(p)
        PROVE  TempHeld'
    BY <1>3, <1>6 DEF PublishJournal, Recover, Resume, ReplaceRevocations,
         RewriteFacts, Cleared
  <1>7. ASSUME NEW p \in Procs, StageRewrite(p)
        PROVE  TempHeld'
    BY <1>2, <1>3, <1>7 DEF StageRewrite
  <1>8. ASSUME NEW p \in Procs, Swept(p)
        PROVE  TempHeld'
    BY <1>0, <1>3, <1>8, AllIdle DEF Swept
  <1>9. ASSUME NEW p \in Procs, SweepTemp(p)
        PROVE  TempHeld'
    BY <1>0, <1>9, Alone DEF SweepTemp
  <1>10. CASE Rests /\ UNCHANGED temps
    BY <1>0, <1>10 DEF Rests
  <1>11. QED
    BY <1>0, <1>1, <1>4, <1>5, <1>6, <1>7, <1>8, <1>9, <1>10, StepShape

LEMMA NoJournalYetStep ==
    ASSUME IInv, [Next]_vars
    PROVE  NoJournalYet'
  <1> USE DEF NoJournalYet, disk
  <1>0. TypeOK /\ Exclusion /\ NoJournalYet
    BY DEF IInv
  <1>1. ASSUME NEW p \in Procs, Ends(p) \/ ReplaceFacts(p) \/ RetireJournal(p)
        PROVE  NoJournalYet'
    BY <1>0, <1>1, AllIdle DEF Ends, ReplaceFacts, RetireJournal
  <1>2. ASSUME NEW p \in Procs, Open(p)
        PROVE  NoJournalYet'
    BY <1>0, <1>2 DEF Open, Goto, RecoveryRequired, TypeOK
  <1>3. ASSUME NEW p \in Procs,
               Chooses(p) \/ \E prop \in proposals : ApplyLifecycle(p, prop)
        PROVE  NoJournalYet'
    BY <1>0, <1>3 DEF Chooses, ApplyLifecycle, MayApply, Ready, Stage, Goto,
         TypeOK
  <1>4. ASSUME NEW p \in Procs, pc[p] # "idle", NEW label, Goto(p, label),
               label \notin {"open", "saving", "importing", "journaling"}
        PROVE  NoJournalYet'
    BY <1>0, <1>4, Alone DEF Goto, TypeOK
  <1>5. ASSUME NEW p \in Procs,
               \/ PublishJournal(p) \/ Recover(p) \/ Resume(p)
               \/ StageRevocation(p) \/ ReplaceRevocations(p)
               \/ StageRewrite(p) \/ RewriteFacts(p) \/ Cleared(p)
        PROVE  NoJournalYet'
    BY <1>4, <1>5 DEF PublishJournal, Recover, Resume, StageRevocation,
         ReplaceRevocations, StageRewrite, RewriteFacts, Cleared, Stage
  <1>6. ASSUME NEW p \in Procs, Swept(p)
        PROVE  NoJournalYet'
    BY <1>0, <1>4, <1>6, AllIdle DEF Swept
  <1>7. ASSUME Rests \/ \E p \in Procs : SweepTemp(p)
        PROVE  NoJournalYet'
    BY <1>0, <1>7 DEF Rests, SweepTemp
  <1>8. QED
    BY <1>0, <1>1, <1>2, <1>3, <1>5, <1>6, <1>7, StepShape

LEMMA DecidedStep ==
    ASSUME IInv, [Next]_vars
    PROVE  Decided'
  <1> USE DEF Decided, disk
  <1>0. TypeOK /\ Exclusion /\ Decided
    BY DEF IInv
  <1>1. ASSUME NEW p \in Procs, Ends(p) \/ ReplaceFacts(p) \/ RetireJournal(p)
        PROVE  Decided'
    BY <1>0, <1>1, AllIdle DEF Ends, ReplaceFacts, RetireJournal
  <1>2. ASSUME NEW p \in Procs, Open(p)
        PROVE  Decided'
    BY <1>0, <1>2 DEF Open, Goto, TypeOK
  <1>3. ASSUME NEW p \in Procs, Chooses(p)
        PROVE  Decided'
    BY <1>0, <1>3, Alone DEF Chooses, Stage, Goto, TypeOK
  <1>4. ASSUME NEW p \in Procs, NEW prop \in proposals, ApplyLifecycle(p, prop)
        PROVE  Decided'
    <2>1. /\ prop \in Proposal
          /\ want'[p] = prop
          /\ UNCHANGED <<facts, revs>>
      BY <1>0, <1>4 DEF ApplyLifecycle, TypeOK
    <2>2. /\ prop.event # None
          /\ Eligible(facts, revs, prop.event)
          /\ LifecycleOK(AfterEvent(facts, prop.event), Append(revs, prop.event))
      BY <1>4 DEF ApplyLifecycle
    <2>3. \A q \in Procs : q # p => pc'[q] = "idle"
      BY <1>0, <1>4, Alone DEF ApplyLifecycle, MayApply, Ready, Stage, Goto, TypeOK
    <2>4. QED
      BY <2>1, <2>2, <2>3
  <1>5. ASSUME NEW p \in Procs, pc[p] # "idle", NEW label, Goto(p, label),
               label \notin {"saving", "importing", "journaling"}
        PROVE  Decided'
    BY <1>0, <1>5, Alone DEF Goto, TypeOK
  <1>6. ASSUME NEW p \in Procs,
               \/ PublishJournal(p) \/ Recover(p) \/ Resume(p)
               \/ StageRevocation(p) \/ ReplaceRevocations(p)
               \/ StageRewrite(p) \/ RewriteFacts(p) \/ Cleared(p)
        PROVE  Decided'
    BY <1>5, <1>6 DEF PublishJournal, Recover, Resume, StageRevocation,
         ReplaceRevocations, StageRewrite, RewriteFacts, Cleared, Stage
  <1>7. ASSUME NEW p \in Procs, Swept(p)
        PROVE  Decided'
    BY <1>0, <1>5, <1>7, AllIdle DEF Swept
  <1>8. ASSUME Rests \/ \E p \in Procs : SweepTemp(p)
        PROVE  Decided'
    BY <1>0, <1>8 DEF Rests, SweepTemp
  <1>9. QED
    BY <1>0, <1>1, <1>2, <1>3, <1>4, <1>6, <1>7, <1>8, StepShape

-----------------------------------------------------------------------------
(* The files. *)

(* Importing facts that are neither listed nor revoked keeps the list and   *)
(* the events in agreement.                                                *)
LEMMA AddFactsLifecycle ==
    ASSUME NEW f \in FactList, NEW r \in Seq(Event), LifecycleOK(f, r),
           NEW new \in SUBSET Ids,
           \A i \in new : f[i] = None /\ i \notin RevokedIds(r)
    PROVE  LifecycleOK(AddFacts(f, new), r)
  <1> DEFINE g == AddFacts(f, new)
  <1>1. \A e \in Events(r) : e \in Event /\ e.id \notin new
    BY DEF Events, RevokedIds
  <1>2. \A i \in Ids : g[i] = IF i \in new THEN Current ELSE f[i]
    BY DEF AddFacts
  <1>3. \A e \in Events(r) : g[e.id] = f[e.id]
    BY <1>1, <1>2 DEF Event
  <1>4. \A e \in Events(r) :
           e.by # None /\ f[e.by] # None => g[e.by] # None
    BY <1>1, <1>2 DEF Event
  <1>5. \A i \in Ids : g[i] \in Ids => g[i] = f[i]
    BY <1>2
  <1>6. QED
    BY <1>3, <1>4, <1>5 DEF LifecycleOK

LEMMA JournalLegalStep ==
    ASSUME IInv, [Next]_vars
    PROVE  JournalLegal'
  <1> USE DEF JournalLegal, WithEvent, disk
  <1>0. TypeOK /\ Exclusion /\ Decided /\ JournalLegal
    BY DEF IInv
  <1>1. ASSUME UNCHANGED journal
        PROVE  JournalLegal'
    BY <1>0, <1>1
  <1>2. ASSUME NEW p \in Procs, PublishJournal(p)
        PROVE  JournalLegal'
    <2>1. view[p].facts = facts /\ view[p].revs = revs
      BY <1>0, <1>2 DEF PublishJournal, Exclusion, Generation
    <2>2. /\ journal'.before.facts = facts
          /\ journal'.before.revs = revs
          /\ journal'.event = want[p].event
          /\ journal'.after = AfterEvent(facts, want[p].event)
      BY <1>2, <2>1 DEF PublishJournal
    <2>3. /\ Eligible(facts, revs, want[p].event)
          /\ LifecycleOK(AfterEvent(facts, want[p].event),
                         Append(revs, want[p].event))
      BY <1>0, <1>2 DEF PublishJournal, Decided
    <2>4. QED
      BY <2>2, <2>3
  <1>3. ASSUME NEW p \in Procs, RetireJournal(p)
        PROVE  JournalLegal'
    BY <1>3 DEF RetireJournal
  <1>4. ASSUME NEW p \in Procs,
               \/ Open(p) \/ Ends(p) \/ Chooses(p) \/ ReplaceFacts(p)
               \/ \E prop \in proposals : ApplyLifecycle(p, prop)
               \/ Recover(p) \/ Resume(p)
               \/ StageRevocation(p) \/ ReplaceRevocations(p)
               \/ StageRewrite(p) \/ RewriteFacts(p)
               \/ SweepTemp(p) \/ Swept(p) \/ Cleared(p)
        PROVE  UNCHANGED journal
    BY <1>4 DEF Open, Ends, Chooses, ReplaceFacts, ApplyLifecycle, Recover,
         Resume, StageRevocation, ReplaceRevocations, StageRewrite,
         RewriteFacts, SweepTemp, Swept, Cleared
  <1>5. Rests => UNCHANGED journal
    BY DEF Rests
  <1>6. QED
    BY <1>0, <1>1, <1>2, <1>3, <1>4, <1>5, StepShape

LEMMA PositionStep ==
    ASSUME IInv, [Next]_vars
    PROVE  Position'
  <1> USE DEF Position, WithEvent, disk
  <1>0. TypeOK /\ Exclusion /\ NoJournalYet /\ Decided /\ Position /\ Progress
    BY DEF IInv
  <1>1. ASSUME UNCHANGED <<facts, revs, journal>>
        PROVE  Position'
    BY <1>0, <1>1
  <1>2. ASSUME NEW p \in Procs, ReplaceFacts(p)
        PROVE  Position'
    <2>1. journal = None /\ want[p] \in Proposal
      BY <1>0, <1>2 DEF ReplaceFacts, NoJournalYet, Decided
    <2>2. Additions(want[p]) \in SUBSET Ids
      BY <2>1 DEF Additions, Proposal
    <2>3. LifecycleOK(facts', revs)
      BY <1>0, <1>2, <2>1, <2>2, AddFactsLifecycle
         DEF ReplaceFacts, Additions, TypeOK
    <2>4. QED
      BY <1>2, <2>1, <2>3 DEF ReplaceFacts
  <1>3. ASSUME NEW p \in Procs, PublishJournal(p)
        PROVE  Position'
    <2>1. LifecycleOK(facts, revs)
      BY <1>0, <1>3 DEF PublishJournal
    <2>2. journal'.before.facts = facts /\ journal'.before.revs = revs
      BY <1>0, <1>3 DEF PublishJournal, Exclusion, Generation
    <2>3. QED
      BY <1>3, <2>1, <2>2 DEF PublishJournal
  <1>4. ASSUME NEW p \in Procs, ReplaceRevocations(p)
        PROVE  Position'
    BY <1>0, <1>4 DEF ReplaceRevocations, Progress
  <1>5. ASSUME NEW p \in Procs, RewriteFacts(p)
        PROVE  Position'
    BY <1>0, <1>5 DEF RewriteFacts, Progress, WithEvent
  <1>6. ASSUME NEW p \in Procs, RetireJournal(p)
        PROVE  Position'
    BY <1>6 DEF RetireJournal
  <1>7. ASSUME NEW p \in Procs,
               \/ Open(p) \/ Ends(p) \/ Chooses(p)
               \/ \E prop \in proposals : ApplyLifecycle(p, prop)
               \/ Recover(p) \/ Resume(p)
               \/ StageRevocation(p) \/ StageRewrite(p)
               \/ SweepTemp(p) \/ Swept(p) \/ Cleared(p)
        PROVE  UNCHANGED <<facts, revs, journal>>
    BY <1>7 DEF Open, Ends, Chooses, ApplyLifecycle, Recover, Resume,
         StageRevocation, StageRewrite, SweepTemp, Swept, Cleared
  <1>8. Rests => UNCHANGED <<facts, revs, journal>>
    BY DEF Rests
  <1>9. QED
    BY <1>0, <1>1, <1>2, <1>3, <1>4, <1>5, <1>6, <1>7, <1>8, StepShape

LEMMA ProgressStep ==
    ASSUME IInv, [Next]_vars
    PROVE  Progress'
  <1> USE DEF Progress, WithEvent, disk
  <1>0. TypeOK /\ Exclusion /\ Position /\ Progress
    BY DEF IInv
  <1>1. ASSUME NEW p \in Procs, Ends(p) \/ ReplaceFacts(p) \/ RetireJournal(p)
        PROVE  Progress'
    BY <1>0, <1>1, AllIdle DEF Ends, ReplaceFacts, RetireJournal
  <1>2. ASSUME NEW p \in Procs, Open(p)
        PROVE  Progress'
    BY <1>0, <1>2 DEF Open, Exclusion, Goto, TypeOK
  <1>3. ASSUME NEW p \in Procs, pc[p] # "idle", NEW label, Goto(p, label),
               label \in {"saving", "importing", "journaling", "recovering"}
        PROVE  Progress'
    BY <1>0, <1>3, Alone DEF Goto, TypeOK
  <1>4. ASSUME NEW p \in Procs,
               \/ Chooses(p) \/ PublishJournal(p) \/ Recover(p)
               \/ \E prop \in proposals : ApplyLifecycle(p, prop)
        PROVE  Progress'
    BY <1>3, <1>4 DEF Chooses, ApplyLifecycle, MayApply, Ready, PublishJournal,
         Recover, Stage
  <1>5. ASSUME NEW p \in Procs, Resume(p)
        PROVE  Progress'
    BY <1>0, <1>5, Alone DEF Resume, Position, Goto, TypeOK
  <1>6. ASSUME NEW p \in Procs, StageRevocation(p)
        PROVE  Progress'
    BY <1>0, <1>6, Alone DEF StageRevocation, Stage, Goto, TypeOK
  <1>7. ASSUME NEW p \in Procs, ReplaceRevocations(p)
        PROVE  Progress'
    BY <1>0, <1>7, Alone DEF ReplaceRevocations, Goto, TypeOK
  <1>8. ASSUME NEW p \in Procs, StageRewrite(p)
        PROVE  Progress'
    BY <1>0, <1>8, Alone DEF StageRewrite, Stage, Goto, TypeOK
  <1>9. ASSUME NEW p \in Procs, RewriteFacts(p)
        PROVE  Progress'
    BY <1>0, <1>9, Alone DEF RewriteFacts, Goto, TypeOK
  <1>10. ASSUME NEW p \in Procs, Swept(p)
         PROVE  Progress'
    <2>1. CASE journal = None
      BY <1>0, <1>10, <2>1, AllIdle DEF Swept
    <2>2. CASE journal # None
      BY <1>0, <1>10, <2>2, Alone DEF Swept, Goto, TypeOK
    <2>3. QED
      BY <2>1, <2>2
  <1>11. ASSUME NEW p \in Procs, Cleared(p)
         PROVE  Progress'
    BY <1>0, <1>11, Alone DEF Cleared, Goto, TypeOK
  <1>12. ASSUME Rests \/ \E p \in Procs : SweepTemp(p)
         PROVE  Progress'
    BY <1>0, <1>12 DEF Rests, SweepTemp
  <1>13. QED
    BY <1>0, <1>1, <1>2, <1>4, <1>5, <1>6, <1>7, <1>8, <1>9, <1>10, <1>11,
       <1>12, StepShape

-----------------------------------------------------------------------------
LEMMA InitIInv == Init => IInv
  <1> SUFFICES ASSUME Init PROVE IInv
    OBVIOUS
  <1> USE DEF Init
  <1>1. NoFacts \in FactList /\ <<>> \in Seq(Event)
    BY DEF NoFacts, FactList
  <1>2. TypeOK
    <2>1. /\ pc = [p \in Procs |-> "idle"]
          /\ view = [p \in Procs |-> None]
          /\ want = [p \in Procs |-> None]
      OBVIOUS
    <2>2. faults \in 0..MaxFaults /\ temps \in Nat
      BY DEF StoreAssumption
    <2>3. view \in [Procs -> GenerationSet \cup {None}]
      BY <2>1
    <2>4. want \in [Procs -> Proposal \cup {None}]
      BY <2>1
    <2>5. derived \in BOOLEAN /\ proposals \subseteq Proposal
      OBVIOUS
    <2>6. QED
      BY <1>1, <2>1, <2>2, <2>3, <2>4, <2>5 DEF TypeOK
  <1>3. LifecycleOK(NoFacts, <<>>)
    <2>1. Events(<<>>) = {}
      BY DEF Events
    <2>2. \A i \in Ids : NoFacts[i] \notin Ids
      BY DEF NoFacts
    <2>3. QED
      BY <2>1, <2>2 DEF LifecycleOK
  <1>4. QED
    BY <1>2, <1>3 DEF IInv, Exclusion, TempHeld, HoldsTemp, NoJournalYet, Decided,
       JournalLegal, Position, Progress

(* No step of a session, no kill and no recovery breaks a part of IInv.    *)
LEMMA StepKeeps ==
    ASSUME IInv, [Next]_vars
    PROVE  IInv'
  BY TypeStep, ExclusionStep, TempHeldStep, NoJournalYetStep, DecidedStep,
     JournalLegalStep, PositionStep, ProgressStep DEF IInv

(* IInv is an inductive invariant of the store: it holds of the initial    *)
(* directory, and every step of every command keeps it.                    *)
THEOREM Inductive == Spec => []IInv
  <1>1. IInv /\ [Next]_vars => IInv'
    BY StepKeeps
  <1>2. QED
    BY InitIInv, <1>1, PTL DEF Spec

(* Every variable keeps its type: in particular no command ever unlinks a   *)
(* temporary file it does not have, and every signed journal holds an       *)
(* event and the two generations around it (TypeOK).                       *)
THEOREM TypeCorrect == Spec => []TypeOK
  <1>1. IInv => TypeOK
    BY DEF IInv
  <1>2. QED
    BY Inductive, <1>1, PTL

(* A session acts on what is on disk, however many processes open the store *)
(* (__enter__'s lock; the re-captures before each write never refuse).     *)
THEOREM SessionsSeeDisk == Spec => []SessionSeesDisk
  <1>1. IInv => SessionSeesDisk
    BY DEF IInv, Exclusion, SessionSeesDisk
  <1>2. QED
    BY Inductive, <1>1, PTL

(* Wherever the program was interrupted the directory validates: the two    *)
(* files agree, or the journal explains how they differ (_load).           *)
THEOREM DirectoryReadable == Spec => []AlwaysReadable
  <1>1. IInv => AlwaysReadable
    <2> SUFFICES ASSUME IInv PROVE Readable
      BY DEF AlwaysReadable
    <2>1. CASE journal = None
      BY <2>1 DEF IInv, Position, Readable
    <2>2. CASE journal # None
      <3>1. facts = journal.before.facts =>
               Transition(facts, journal.after, journal.event)
        BY <2>2 DEF IInv, JournalLegal, Eligible, Transition
      <3>2. QED
        BY <2>2, <3>1 DEF IInv, Position, WithEvent, JournalOK, Readable
    <2>3. QED
      BY <2>1, <2>2
  <1>2. QED
    BY Inductive, <1>1, PTL

-----------------------------------------------------------------------------
(***************************************************************************)
(* The store implements CustomerMemory, and no event is appended twice.    *)
(*                                                                         *)
(* The argument.  Two steps commit: the rename of the list with imported   *)
(* facts, and the rename of the journal.  At each the session still sees   *)
(* what it decided on (IInv).  The steps that carry a journal out, in a    *)
(* session or in a recovery, change neither the committed list nor the     *)
(* revoked identifiers: the journal promised both.                         *)
(***************************************************************************)
LEMMA AppendEvents ==
    ASSUME NEW r \in Seq(Event), NEW e \in Event
    PROVE  /\ Events(Append(r, e)) = Events(r) \cup {e}
           /\ RevokedIds(Append(r, e)) = RevokedIds(r) \cup {e.id}
  <1>1. Events(Append(r, e)) = Events(r) \cup {e}
    <2> DEFINE s == Append(r, e)
    <2>1. /\ DOMAIN s = DOMAIN r \cup {Len(r) + 1}
          /\ \A k \in DOMAIN r : s[k] = r[k]
          /\ s[Len(r) + 1] = e
      OBVIOUS
    <2> HIDE DEF s
    <2>2. QED
      BY <2>1 DEF Events
  <1>2. QED
    BY <1>1 DEF RevokedIds

LEMMA InitRefines == Init => Memory!MInit
  <1> SUFFICES ASSUME Init PROVE Memory!MInit
    OBVIOUS
  <1>1. Events(<<>>) = {}
    BY DEF Events
  <1>2. RevokedIds(<<>>) = {}
    BY <1>1 DEF RevokedIds
  <1>3. QED
    BY <1>2 DEF Init, Memory!MInit, Committed, Revoked, NoFacts, Memory!NoFacts

(* The rename of the list is Import, or nothing if nothing is new. *)
LEMMA ImportRefines ==
    ASSUME IInv, NEW p \in Procs, ReplaceFacts(p)
    PROVE  Memory!MNext \/ UNCHANGED <<Committed, Revoked>>
  <1> DEFINE new == Additions(want[p])
  <1>1. journal = None /\ want[p] \in Proposal
    BY DEF IInv, ReplaceFacts, NoJournalYet, Decided
  <1>2. /\ facts' = AddFacts(facts, new)
        /\ UNCHANGED <<revs, journal>>
    BY DEF ReplaceFacts
  <1>3. new \in SUBSET Ids /\ \A i \in new : facts[i] = None /\ i \notin RevokedIds(revs)
    BY <1>1 DEF Additions, Proposal
  <1>4. /\ Committed = facts /\ Committed' = facts'
        /\ Revoked = RevokedIds(revs) /\ Revoked' = Revoked
    BY <1>1, <1>2 DEF Committed, Revoked
  <1>5. facts \in FactList
    BY DEF IInv, TypeOK
  <1> HIDE DEF new
  <1>6. CASE new = {}
    BY <1>2, <1>4, <1>5, <1>6 DEF AddFacts, FactList
  <1>7. CASE new # {}
    <2>1. Memory!Import(new)
      BY <1>2, <1>3, <1>4, <1>7 DEF Memory!Import, Memory!Fresh, AddFacts,
         Memory!AddFacts
    <2>2. QED
      BY <1>3, <2>1 DEF Memory!MNext
  <1>8. QED
    BY <1>6, <1>7

(* The rename of the journal is Correct or Forget.  (Were None a journal,   *)
(* it would be nothing at all.)                                            *)
LEMMA JournalRefines ==
    ASSUME IInv, NEW p \in Procs, PublishJournal(p)
    PROVE  Memory!MNext \/ UNCHANGED <<Committed, Revoked>>
  <1> DEFINE e == want[p].event
  <1>1. view[p].facts = facts
    BY DEF IInv, PublishJournal, Exclusion, Generation
  <1>2. /\ journal = None
        /\ journal'.after = AfterEvent(facts, e)
        /\ journal'.event = e
        /\ UNCHANGED <<facts, revs>>
    BY <1>1 DEF PublishJournal
  <1>3. e \in Event /\ Eligible(facts, revs, e)
    BY DEF IInv, PublishJournal, Decided, Proposal
  <1>4. e.id \in Ids /\ e.by \in Ids \cup {None}
    BY <1>3 DEF Event
  <1> HIDE DEF e
  <1>5. CASE journal' = None
    BY <1>2, <1>5 DEF Committed, Revoked
  <1>6. CASE journal' # None
    <2>1. /\ Committed = facts /\ Committed' = AfterEvent(facts, e)
          /\ Revoked = RevokedIds(revs) /\ Revoked' = Revoked \cup {e.id}
      BY <1>2, <1>6 DEF Committed, Revoked
    <2>2. CASE e.by = None
      <3>1. Memory!Forget(e.id)
        BY <1>3, <2>1, <2>2 DEF Memory!Forget, Eligible, AfterEvent, Erase,
           Memory!Erase
      <3>2. QED
        BY <1>4, <3>1 DEF Memory!MNext
    <2>3. CASE e.by # None
      <3>1. Memory!Correct(e.id, e.by)
        BY <1>3, <2>1, <2>3 DEF Memory!Correct, Memory!Fresh, Eligible, AfterEvent,
           Supersede, Memory!Supersede
      <3>2. QED
        BY <1>4, <2>3, <3>1 DEF Memory!MNext
    <2>4. QED
      BY <2>2, <2>3
  <1>7. QED
    BY <1>5, <1>6

(* The steps of a recovery are stutters of the memory. *)
LEMMA RecoveryRefines ==
    ASSUME IInv, NEW p \in Procs,
           ReplaceRevocations(p) \/ RewriteFacts(p) \/ RetireJournal(p)
    PROVE  UNCHANGED <<Committed, Revoked>>
  <1>1. journal # None /\ journal \in Journal
    BY DEF IInv, TypeOK, Progress, ReplaceRevocations, RewriteFacts, RetireJournal
  <1>2. journal.before.revs \in Seq(Event) /\ journal.event \in Event /\ revs \in Seq(Event)
    BY <1>1 DEF IInv, TypeOK, Journal, GenerationSet
  <1>3. CASE ReplaceRevocations(p)
    BY <1>1, <1>2, <1>3, AppendEvents DEF ReplaceRevocations, Committed, Revoked
  <1>4. CASE RewriteFacts(p)
    BY <1>1, <1>4 DEF RewriteFacts, Committed, Revoked
  <1>5. CASE RetireJournal(p)
    <2>1. facts = journal.after /\ revs = WithEvent
      BY <1>1, <1>5 DEF IInv, Progress, RetireJournal
    <2>2. journal.event.id \in RevokedIds(revs)
      BY <1>2, <2>1, AppendEvents DEF WithEvent
    <2>3. QED
      BY <1>1, <1>5, <2>1, <2>2 DEF RetireJournal, Committed, Revoked
  <1>6. QED
    BY <1>3, <1>4, <1>5

LEMMA StepRefines ==
    ASSUME IInv, [Next]_vars
    PROVE  [Memory!MNext]_<<Committed, Revoked>>
  <1>1. TypeOK
    BY DEF IInv
  <1>2. ASSUME UNCHANGED <<facts, revs, journal>>
        PROVE  UNCHANGED <<Committed, Revoked>>
    BY <1>2 DEF Committed, Revoked
  <1>3. ASSUME NEW p \in Procs,
               \/ Open(p) \/ Ends(p) \/ Chooses(p)
               \/ \E prop \in proposals : ApplyLifecycle(p, prop)
               \/ Recover(p) \/ Resume(p)
               \/ StageRevocation(p) \/ StageRewrite(p)
               \/ SweepTemp(p) \/ Swept(p) \/ Cleared(p)
        PROVE  UNCHANGED <<facts, revs, journal>>
    BY <1>3 DEF disk, Open, Ends, Chooses, ApplyLifecycle, Recover, Resume,
         StageRevocation, StageRewrite, SweepTemp, Swept, Cleared
  <1>4. Rests => UNCHANGED <<facts, revs, journal>>
    BY DEF Rests
  <1>5. QED
    BY <1>1, <1>2, <1>3, <1>4, StepShape, ImportRefines, JournalRefines,
       RecoveryRefines

(* Files, journal, queue and lock behave as one memory, whatever crashes    *)
(* and however many commands and hooks run: every commit is an import, a    *)
(* correction or a forgetting of CustomerMemory, every other step changes   *)
(* nothing the owner can see, and a revoked fact never returns             *)
(* (apply_proposal, _apply_lifecycle and _recover_unchecked).              *)
THEOREM StoreImplementsMemory == Spec => ImplementsMemory
  <1>1. IInv /\ [Next]_vars => [Memory!MNext]_Memory!mvars
    BY StepRefines DEF Memory!mvars
  <1>2. QED
    BY Inductive, InitRefines, <1>1, PTL DEF Spec, ImplementsMemory, Memory!MSpec

-----------------------------------------------------------------------------
(* The review queue: every change of the memory is a saved proposal made   *)
(* from the generation it changes, no event is appended twice, the queue   *)
(* keeps its limit, a proposal that went stale stays so, and an erasure    *)
(* leaves no proposal from before it.                                      *)
(*                                                                         *)
(* The argument adds to IInv, first (RInv), that the proposal being        *)
(* applied is still in the queue and still fits the files (Chosen), that a *)
(* journal's event is none of those before it (EventNew), and that a       *)
(* session saving a proposal left room for it (Queue).  Then (EInv): a     *)
(* proposal is saved with the generation of its session (SavedFresh), the  *)
(* queue may be ignorant of the event under way only (QueueKnows), the     *)
(* journal of an erasure outlives the queue (ClearedFirst), and            *)
(* generations are ordered, by the number of events and then by the facts  *)
(* listed, with every proposal's at or before the one on disk (Ordered).   *)

USE StoreAssumption, FactsAssumption

Chosen ==
    \A p \in Procs :
        pc[p] \in {"importing", "journaling"} =>
            /\ want[p] \in proposals
            /\ want[p].gen = Generation
            /\ pc[p] = "importing" => want[p].event = None

EventNew == journal # None => journal.event \notin Events(journal.before.revs)

Queue ==
    /\ IsFiniteSet(proposals)
    /\ Cardinality(proposals) <= MaxProposals
    /\ \A p \in Procs : pc[p] = "saving" => Cardinality(proposals) < MaxProposals

-----------------------------------------------------------------------------
(* A session that is not at the rename of what it chose: no process is. *)
LEMMA ChosenElsewhere ==
    ASSUME IInv, NEW p \in Procs, pc[p] # "idle",
           \A q \in Procs : q # p => pc'[q] = pc[q],
           pc'[p] \notin {"importing", "journaling"}
    PROVE  Chosen'
  BY Alone DEF Chosen, IInv

LEMMA ChosenStep ==
    ASSUME IInv, Chosen, [Next]_vars
    PROVE  Chosen'
  <1> USE DEF disk
  <1>0. TypeOK /\ Exclusion
    BY DEF IInv
  <1>1. ASSUME NEW p \in Procs, Open(p)
        PROVE  Chosen'
    <2>1. \A q \in Procs : pc[q] = "idle"
      BY <1>0, <1>1 DEF Open, Exclusion
    <2>2. \A q \in Procs : pc'[q] \notin {"importing", "journaling"}
      BY <1>0, <1>1, <2>1 DEF Open, Goto, TypeOK
    <2>3. QED
      BY <2>2 DEF Chosen
  <1>2. ASSUME NEW p \in Procs, NEW prop \in proposals,
               ApplyImport(p, prop) \/ ApplyLifecycle(p, prop)
        PROVE  Chosen'
    <2>1. /\ pc[p] = "open" /\ view[p] = Generation
          /\ prop.gen = view[p]
          /\ want'[p] = prop
          /\ UNCHANGED <<facts, revs, proposals>>
      BY <1>0, <1>2 DEF ApplyImport, ApplyLifecycle, MayApply, Ready, TypeOK
    <2>2. /\ \A q \in Procs : q # p => pc'[q] = "idle"
          /\ pc'[p] = "importing" => prop.event = None
      BY <1>0, <1>2, <2>1, Alone DEF ApplyImport, ApplyLifecycle, Stage, Goto, TypeOK
    <2>3. QED
      BY <2>1, <2>2 DEF Chosen, Generation
  <1>3. ASSUME NEW p \in Procs, pc[p] # "idle", NEW label, Goto(p, label),
               label \notin {"importing", "journaling"}
        PROVE  Chosen'
    BY <1>0, <1>3, ChosenElsewhere DEF Goto, TypeOK
  <1>4. ASSUME NEW p \in Procs,
               \/ Close(p) \/ Publish(p) \/ ReplaceFacts(p) \/ RetireJournal(p)
               \/ Refuse(p) \/ Fail(p) \/ Crash(p)
               \/ \E prop \in proposals : Discard(p, prop)
        PROVE  Chosen'
    BY <1>3, <1>4 DEF Close, Publish, ReplaceFacts, RetireJournal, Refuse,
         Refused, Fail, Crash, Discard, Ready, EndSession
  <1>5. ASSUME NEW p \in Procs,
               \/ PublishJournal(p) \/ Recover(p) \/ Resume(p)
               \/ StageRevocation(p) \/ ReplaceRevocations(p)
               \/ StageRewrite(p) \/ RewriteFacts(p) \/ Swept(p) \/ Cleared(p)
        PROVE  Chosen'
    BY <1>3, <1>5 DEF PublishJournal, Recover, Resume, StageRevocation,
         ReplaceRevocations, StageRewrite, RewriteFacts, Swept, Cleared, Stage,
         EndSession
  <1>6. ASSUME NEW p \in Procs,
               SweepTemp(p) \/ \E prop \in proposals : ClearProposal(p, prop)
        PROVE  Chosen'
    BY <1>6, ChosenElsewhere DEF SweepTemp, ClearProposal
  <1>7. ASSUME NEW p \in Procs, NEW prop, Ready(p), StartSave(p, prop)
        PROVE  Chosen'
    BY <1>3, <1>7 DEF Ready, StartSave, Stage
  <1>8. ASSUME NEW p \in Procs,
               \/ \E found \in SUBSET Ids : Propose(p, found) \/ Capture(p, found)
               \/ \E i \in Ids, source \in proposals : ProposeCorrection(p, i, source)
               \/ \E i \in Ids : ProposeForget(p, i)
        PROVE  Chosen'
    BY <1>7, <1>8 DEF Propose, Capture, ProposeCorrection, ProposeForget
  <1>9. ASSUME AddDerived \/ RemoveDerived \/ UNCHANGED vars
        PROVE  Chosen'
    BY <1>9 DEF Chosen, Generation, AddDerived, RemoveDerived, vars
  <1>10. QED
    BY <1>1, <1>2, <1>4, <1>5, <1>6, <1>8, <1>9, NextCases

-----------------------------------------------------------------------------
(* An event the files lack: its target is listed, or current. *)
LEMMA EligibleNew ==
    ASSUME NEW f, NEW r, NEW e, LifecycleOK(f, r), Eligible(f, r, e)
    PROVE  e \notin Events(r)
  BY DEF LifecycleOK, Eligible

LEMMA EventNewStep ==
    ASSUME IInv, EventNew, [Next]_vars
    PROVE  EventNew'
  <1> USE DEF EventNew, disk
  <1>0. TypeOK
    BY DEF IInv
  <1>1. ASSUME UNCHANGED journal
        PROVE  EventNew'
    BY <1>1
  <1>2. ASSUME NEW p \in Procs, PublishJournal(p)
        PROVE  EventNew'
    <2>1. /\ journal'.before.revs = revs
          /\ journal'.event = want[p].event
      BY <1>2 DEF IInv, PublishJournal, Exclusion, Generation
    <2>2. LifecycleOK(facts, revs) /\ Eligible(facts, revs, want[p].event)
      BY <1>2 DEF IInv, PublishJournal, Position, Decided
    <2>3. QED
      BY <2>1, <2>2, EligibleNew
  <1>3. ASSUME NEW p \in Procs, RetireJournal(p)
        PROVE  EventNew'
    BY <1>3 DEF RetireJournal
  <1>4. ASSUME NEW p \in Procs,
               \/ Open(p) \/ Ends(p) \/ Chooses(p) \/ ReplaceFacts(p)
               \/ \E prop \in proposals : ApplyLifecycle(p, prop)
               \/ Recover(p) \/ Resume(p)
               \/ StageRevocation(p) \/ ReplaceRevocations(p)
               \/ StageRewrite(p) \/ RewriteFacts(p)
               \/ SweepTemp(p) \/ Swept(p) \/ Cleared(p)
        PROVE  UNCHANGED journal
    BY <1>4 DEF Open, Ends, Chooses, ReplaceFacts, ApplyLifecycle, Recover,
         Resume, StageRevocation, ReplaceRevocations, StageRewrite,
         RewriteFacts, SweepTemp, Swept, Cleared
  <1>5. Rests => UNCHANGED journal
    BY DEF Rests
  <1>6. QED
    BY <1>0, <1>1, <1>2, <1>3, <1>4, <1>5, StepShape

LEMMA OnceStep ==
    ASSUME IInv, EventNew, EventAppendedOnce, [Next]_vars
    PROVE  EventAppendedOnce'
  <1> USE DEF EventAppendedOnce, disk
  <1>0. TypeOK
    BY DEF IInv
  <1>1. ASSUME UNCHANGED revs
        PROVE  EventAppendedOnce'
    BY <1>1
  <1>2. ASSUME NEW p \in Procs, ReplaceRevocations(p)
        PROVE  EventAppendedOnce'
    <2>1. /\ journal \in Journal
          /\ journal.event \notin Events(revs)
          /\ revs \in Seq(Event)
          /\ revs' = Append(revs, journal.event)
      BY <1>2 DEF IInv, TypeOK, Progress, EventNew, ReplaceRevocations
    <2>2. journal.event \in Event
      BY <2>1 DEF Journal
    <2>3. \A k \in DOMAIN revs : revs[k] # journal.event
      BY <2>1 DEF Events
    <2>4. QED
      BY <2>1, <2>2, <2>3
  <1>3. ASSUME NEW p \in Procs,
               \/ Open(p) \/ Ends(p) \/ Chooses(p) \/ ReplaceFacts(p)
               \/ \E prop \in proposals : ApplyLifecycle(p, prop)
               \/ PublishJournal(p) \/ Recover(p) \/ Resume(p)
               \/ StageRevocation(p) \/ StageRewrite(p) \/ RewriteFacts(p)
               \/ SweepTemp(p) \/ Swept(p) \/ Cleared(p) \/ RetireJournal(p)
        PROVE  UNCHANGED revs
    BY <1>3 DEF Open, Ends, Chooses, ReplaceFacts, ApplyLifecycle, Recover,
         PublishJournal, Resume, StageRevocation, StageRewrite, RewriteFacts,
         SweepTemp, Swept, Cleared, RetireJournal
  <1>4. Rests => UNCHANGED revs
    BY DEF Rests
  <1>5. QED
    BY <1>0, <1>1, <1>2, <1>3, <1>4, StepShape

-----------------------------------------------------------------------------
(* Most steps add no proposal and begin to save none. *)
NoNewProposal ==
    /\ proposals' \subseteq proposals
    /\ \A p \in Procs : pc'[p] = "saving" => pc[p] = "saving"

(* A session starts to save a proposal made from the generation it sees. *)
Saves(p, prop) == Ready(p) /\ prop.gen = Generation /\ StartSave(p, prop)

LEMMA QueueShape ==
    ASSUME TypeOK, [Next]_vars
    PROVE  \/ NoNewProposal
           \/ \E p \in Procs : Publish(p) \/ \E prop \in Proposal : Saves(p, prop)
  <1> USE DEF NoNewProposal, disk
  <1>1. ASSUME NEW p \in Procs, NEW label, label # "saving", Goto(p, label),
               proposals' \subseteq proposals
        PROVE  NoNewProposal
    BY <1>1 DEF Goto, TypeOK
  <1>2. ASSUME NEW p \in Procs,
               \/ Open(p) \/ Close(p) \/ ReplaceFacts(p) \/ PublishJournal(p)
               \/ Recover(p) \/ Resume(p) \/ StageRevocation(p)
               \/ ReplaceRevocations(p) \/ StageRewrite(p) \/ RewriteFacts(p)
        PROVE  NoNewProposal
    BY <1>1, <1>2 DEF Open, Close, ReplaceFacts, PublishJournal, Recover,
         Resume, StageRevocation, ReplaceRevocations, StageRewrite,
         RewriteFacts, Stage, EndSession
  <1>3. ASSUME NEW p \in Procs,
               \/ Swept(p) \/ Cleared(p) \/ RetireJournal(p)
               \/ Refuse(p) \/ Fail(p) \/ Crash(p)
        PROVE  NoNewProposal
    BY <1>1, <1>3 DEF Swept, Cleared, RetireJournal, Refuse, Fail, Crash, EndSession
  <1>4. ASSUME NEW p \in Procs, NEW prop \in proposals,
               Discard(p, prop) \/ ApplyImport(p, prop) \/ ApplyLifecycle(p, prop)
        PROVE  NoNewProposal
    BY <1>1, <1>4 DEF Discard, ApplyImport, ApplyLifecycle, Stage, EndSession
  <1>5. ASSUME NEW p \in Procs,
               SweepTemp(p) \/ \E prop \in proposals : ClearProposal(p, prop)
        PROVE  NoNewProposal
    BY <1>5 DEF SweepTemp, ClearProposal
  <1>6. Generation \in GenerationSet
    BY GenerationType
  <1>7. ASSUME NEW p \in Procs, NEW found \in SUBSET Ids,
               Propose(p, found) \/ Capture(p, found)
        PROVE  \E prop \in Proposal : Saves(p, prop)
    <2>1. \A new \in SUBSET Ids : ImportProposal(new) \in Proposal
      BY <1>6 DEF ImportProposal, Proposal
    <2>2. QED
      BY <1>7, <2>1 DEF Propose, Capture, ImportProposal, Saves
  <1>8. ASSUME NEW p \in Procs, NEW i \in Ids, NEW source \in proposals,
               ProposeCorrection(p, i, source)
        PROVE  \E prop \in Proposal : Saves(p, prop)
    <2>1. source.ids \in SUBSET Ids
      BY DEF TypeOK, Proposal
    <2>2. PICK r \in source.ids :
             StartSave(p, [ids |-> {r}, event |-> [id |-> i, by |-> r],
                           gen |-> Generation])
      BY <1>8 DEF ProposeCorrection
    <2>3. [ids |-> {r}, event |-> [id |-> i, by |-> r], gen |-> Generation]
             \in Proposal
      BY <1>6, <2>1 DEF Proposal, Event
    <2>4. Ready(p)
      BY <1>8 DEF ProposeCorrection
    <2>5. QED
      BY <2>2, <2>3, <2>4 DEF Saves
  <1>9. ASSUME NEW p \in Procs, NEW i \in Ids, ProposeForget(p, i)
        PROVE  \E prop \in Proposal : Saves(p, prop)
    <2>1. [ids |-> {}, event |-> [id |-> i, by |-> None], gen |-> Generation]
             \in Proposal
      BY <1>6 DEF Proposal, Event
    <2>2. QED
      BY <1>9, <2>1 DEF ProposeForget, Saves
  <1>10. AddDerived \/ RemoveDerived \/ UNCHANGED vars => NoNewProposal
    BY DEF AddDerived, RemoveDerived, vars
  <1>11. QED
    BY <1>2, <1>3, <1>4, <1>5, <1>7, <1>8, <1>9, <1>10, NextCases

LEMMA QueueStep ==
    ASSUME IInv, Queue, [Next]_vars
    PROVE  Queue'
  <1> USE DEF Queue
  <1>0. TypeOK /\ Exclusion /\ MaxProposals \in Nat
    BY DEF IInv, StoreAssumption
  <1>1. Cardinality(proposals) \in Nat
    BY FS_CardinalityType
  <1>2. CASE NoNewProposal
    <2>1. /\ IsFiniteSet(proposals')
          /\ Cardinality(proposals') <= Cardinality(proposals)
          /\ Cardinality(proposals') \in Nat
      BY <1>2, FS_Subset, FS_CardinalityType DEF NoNewProposal
    <2>2. QED
      BY <1>0, <1>1, <1>2, <2>1 DEF NoNewProposal
  <1>3. ASSUME NEW p \in Procs, Publish(p)
        PROVE  Queue'
    <2>1. Cardinality(proposals) < MaxProposals
      BY <1>3 DEF Publish
    <2>2. /\ IsFiniteSet(proposals')
          /\ \/ Cardinality(proposals') = Cardinality(proposals)
             \/ Cardinality(proposals') = Cardinality(proposals) + 1
      BY <1>3, FS_AddElement DEF Publish
    <2>3. \A q \in Procs : pc'[q] = "idle"
      BY <1>0, <1>3, AllIdle DEF Publish
    <2>4. QED
      BY <1>0, <1>1, <2>1, <2>2, <2>3
  <1>4. ASSUME NEW p \in Procs, NEW prop \in Proposal, Saves(p, prop)
        PROVE  Queue'
    BY <1>4 DEF Saves, StartSave
  <1>5. QED
    BY <1>0, <1>2, <1>3, <1>4, QueueShape

-----------------------------------------------------------------------------
RInv == IInv /\ Chosen /\ EventNew /\ EventAppendedOnce /\ Queue

LEMMA InitRInv == Init => RInv
  <1> SUFFICES ASSUME Init PROVE RInv
    OBVIOUS
  <1>1. Chosen /\ EventNew /\ EventAppendedOnce
    BY DEF Init, Chosen, EventNew, EventAppendedOnce
  <1>2. Queue
    <2>1. proposals = {} /\ \A p \in Procs : pc[p] = "idle"
      BY DEF Init
    <2>2. IsFiniteSet({}) /\ Cardinality({}) = 0
      BY FS_EmptySet
    <2>3. QED
      BY <2>1, <2>2 DEF Queue, StoreAssumption
  <1>3. QED
    BY <1>1, <1>2, InitIInv DEF RInv

(* RInv, which adds to IInv what was reviewed, is inductive too. *)
THEOREM ReviewInductive == Spec => []RInv
  <1>1. RInv /\ [Next]_vars => RInv'
    BY TypeStep, ExclusionStep, TempHeldStep, NoJournalYetStep, DecidedStep,
       JournalLegalStep, PositionStep, ProgressStep, ChosenStep, EventNewStep,
       OnceStep, QueueStep DEF RInv, IInv
  <1>2. QED
    BY InitRInv, <1>1, PTL DEF Spec

(* However often a recovery is interrupted and repeated, it appends the     *)
(* journal's event once (_recover_unchecked).                              *)
THEOREM AppendedOnce == Spec => []EventAppendedOnce
  <1>1. RInv => EventAppendedOnce
    BY DEF RInv
  <1>2. QED
    BY ReviewInductive, <1>1, PTL

(* The queue never outgrows what _queue_entries accepts, so an erasure can  *)
(* always clear it (save_proposal's capacity check, under the lock).       *)
THEOREM QueueBounded == Spec => []QueueWithinLimit
  <1>1. RInv => QueueWithinLimit
    BY DEF RInv, Queue, QueueWithinLimit
  <1>2. QED
    BY ReviewInductive, <1>1, PTL

Reviewed ==
    Committed' # Committed =>
        \E prop \in proposals : /\ prop.gen = Generation
                                /\ Committed' = Effect(prop)

LEMMA ReviewedStep ==
    ASSUME RInv, [Next]_vars
    PROVE  Reviewed
  <1> USE DEF disk
  <1>0. IInv /\ TypeOK /\ Chosen
    BY DEF RInv, IInv
  <1>1. ASSUME UNCHANGED <<Committed, Revoked>>
        PROVE  Reviewed
    BY <1>1 DEF Reviewed
  <1>2. ASSUME NEW p \in Procs, ReplaceFacts(p)
        PROVE  Reviewed
    <2>1. /\ want[p] \in proposals
          /\ want[p].gen = Generation
          /\ want[p].event = None
      BY <1>0, <1>2 DEF Chosen, ReplaceFacts
    <2>2. Committed' = AddFacts(facts, Additions(want[p]))
      BY <1>0, <1>2 DEF IInv, NoJournalYet, ReplaceFacts, Committed
    <2>3. QED
      BY <2>1, <2>2 DEF Reviewed, Effect
  <1>3. ASSUME NEW p \in Procs, PublishJournal(p)
        PROVE  Reviewed
    <2>1. want[p] \in proposals /\ want[p].gen = Generation
      BY <1>0, <1>3 DEF Chosen, PublishJournal
    <2>2. want[p].event # None /\ view[p].facts = facts
      BY <1>0, <1>3 DEF IInv, Decided, Exclusion, PublishJournal, Generation
    <2>3. /\ journal' = None => Committed' = Committed
          /\ journal' # None => Committed' = AfterEvent(facts, want[p].event)
      BY <1>3, <2>2 DEF PublishJournal, Committed
    <2>4. QED
      BY <2>1, <2>2, <2>3 DEF Reviewed, Effect
  <1>4. ASSUME UNCHANGED <<facts, revs, journal>>
        PROVE  UNCHANGED <<Committed, Revoked>>
    BY <1>4 DEF Committed, Revoked
  <1>5. ASSUME NEW p \in Procs,
               \/ Open(p) \/ Ends(p) \/ Chooses(p)
               \/ \E prop \in proposals : ApplyLifecycle(p, prop)
               \/ Recover(p) \/ Resume(p)
               \/ StageRevocation(p) \/ StageRewrite(p)
               \/ SweepTemp(p) \/ Swept(p) \/ Cleared(p)
        PROVE  UNCHANGED <<facts, revs, journal>>
    BY <1>5 DEF Open, Ends, Chooses, ApplyLifecycle, Recover, Resume,
         StageRevocation, StageRewrite, SweepTemp, Swept, Cleared
  <1>6. Rests => UNCHANGED <<facts, revs, journal>>
    BY DEF Rests
  <1>7. QED
    BY <1>0, <1>1, <1>2, <1>3, <1>4, <1>5, <1>6, StepShape, RecoveryRefines

(* The memory changes only as one saved proposal, made from exactly the     *)
(* generation it changes, says: whatever crashed in between, a recovery     *)
(* adds nothing of its own (apply_proposal, _recover_unchecked).           *)
THEOREM ReviewedOnly == Spec => OnlyReviewedChanges
  <1>1. RInv /\ [Next]_vars => [Reviewed]_vars
    BY ReviewedStep
  <1>2. QED
    BY ReviewInductive, <1>1, PTL DEF Spec, OnlyReviewedChanges, Reviewed

-----------------------------------------------------------------------------
(* What the queue may hold. *)

SavedFresh == \A p \in Procs : pc[p] = "saving" => want[p].gen = Generation

(* Every saved proposal was made after the erasures of r. *)
Knows(r) ==
    \A prop \in proposals, e \in Events(r) :
        e.by = None => e \in Events(prop.gen.revs)

(* The events and the facts from before the operation under way. *)
RevsBefore == IF journal = None THEN revs ELSE journal.before.revs
FactsBefore == IF journal = None THEN facts ELSE journal.before.facts

QueueKnows == Knows(RevsBefore)

ClearedFirst ==
    \A p \in Procs :
        pc[p] = "retiring" /\ journal.event.by = None => proposals = {}

Grown(f, g) == \A i \in Ids : f[i] # None => g[i] = f[i]

(* Generation g is one the files had at f and r, or before. *)
AtOrBefore(g, f, r) ==
    \/ Len(g.revs) < Len(r)
    \/ g.revs = r /\ Grown(g.facts, f)

Ordered == \A prop \in proposals : AtOrBefore(prop.gen, FactsBefore, RevsBefore)

EInv == RInv /\ SavedFresh /\ QueueKnows /\ ClearedFirst /\ Ordered

-----------------------------------------------------------------------------
(* While a session saves, and no proposal is new, nothing of it changes. *)
LEMMA SavingRests ==
    ASSUME IInv, [Next]_vars, NoNewProposal,
           NEW q \in Procs, pc'[q] = "saving"
    PROVE  Rests
  <1> USE DEF disk
  <1>0. TypeOK /\ Exclusion /\ pc[q] = "saving" /\ lock = q
    BY DEF IInv, NoNewProposal, Exclusion
  <1>1. ASSUME NEW p \in Procs, Open(p)
        PROVE  FALSE
    BY <1>0, <1>1 DEF Open, FactsAssumption, StoreAssumption
  <1>2. ASSUME NEW p \in Procs, pc[p] # "idle"
        PROVE  p = q
    BY <1>0, <1>2 DEF Exclusion
  <1>3. ASSUME NEW p \in Procs, Ends(p)
        PROVE  FALSE
    BY <1>0, <1>3, AllIdle DEF Ends
  <1>4. ASSUME NEW p \in Procs,
               \/ Chooses(p) \/ \E prop \in proposals : ApplyLifecycle(p, prop)
               \/ ReplaceFacts(p) \/ PublishJournal(p)
               \/ Recover(p) \/ Resume(p)
               \/ StageRevocation(p) \/ ReplaceRevocations(p)
               \/ StageRewrite(p) \/ RewriteFacts(p)
               \/ SweepTemp(p) \/ Swept(p) \/ Cleared(p) \/ RetireJournal(p)
        PROVE  pc[p] \notin {"idle", "saving"}
    BY <1>4 DEF Chooses, ApplyLifecycle, MayApply, Ready, ReplaceFacts,
         PublishJournal, Recover, Resume, StageRevocation, ReplaceRevocations,
         StageRewrite, RewriteFacts, SweepTemp, Swept, Cleared, RetireJournal
  <1>5. QED
    BY <1>0, <1>1, <1>2, <1>3, <1>4, StepShape

LEMMA SavedFreshStep ==
    ASSUME IInv, SavedFresh, [Next]_vars
    PROVE  SavedFresh'
  <1> USE DEF SavedFresh
  <1>0. TypeOK /\ Exclusion
    BY DEF IInv
  <1>1. CASE NoNewProposal
    <2> SUFFICES ASSUME NEW q \in Procs, pc'[q] = "saving"
                 PROVE  want'[q].gen = Generation'
      OBVIOUS
    <2>1. Rests
      BY <1>1, SavingRests
    <2>2. QED
      BY <2>1 DEF Rests, Generation
  <1>2. ASSUME NEW p \in Procs, Publish(p)
        PROVE  SavedFresh'
    BY <1>0, <1>2, AllIdle DEF Publish
  <1>3. ASSUME NEW p \in Procs, NEW prop \in Proposal, Saves(p, prop)
        PROVE  SavedFresh'
    <2>1. /\ prop.gen = Generation
          /\ want'[p] = prop
          /\ Generation' = Generation
      BY <1>0, <1>3 DEF Saves, StartSave, Generation, TypeOK
    <2>2. \A q \in Procs : q # p => pc'[q] = "idle"
      BY <1>0, <1>3, Alone DEF Saves, Ready, StartSave, Stage, Goto, TypeOK
    <2>3. QED
      BY <2>1, <2>2
  <1>4. QED
    BY <1>0, <1>1, <1>2, <1>3, QueueShape

(* An erasure's session clears the queue before it retires the journal. *)
LEMMA ClearedFirstStep ==
    ASSUME IInv, ClearedFirst, [Next]_vars
    PROVE  ClearedFirst'
  <1> USE DEF ClearedFirst, disk
  <1>0. TypeOK /\ Exclusion
    BY DEF IInv
  <1>1. ASSUME NEW p \in Procs, Ends(p) \/ ReplaceFacts(p) \/ RetireJournal(p)
        PROVE  ClearedFirst'
    BY <1>0, <1>1, AllIdle DEF Ends, ReplaceFacts, RetireJournal
  <1>2. ASSUME NEW p \in Procs, Open(p)
        PROVE  ClearedFirst'
    BY <1>0, <1>2 DEF Open, Exclusion, Goto, TypeOK
  <1>3. ASSUME NEW p \in Procs, pc[p] # "idle", NEW label, Goto(p, label),
               label # "retiring"
        PROVE  ClearedFirst'
    BY <1>0, <1>3, Alone DEF Goto, TypeOK
  <1>4. ASSUME NEW p \in Procs,
               \/ Chooses(p) \/ PublishJournal(p) \/ Recover(p) \/ Resume(p)
               \/ \E prop \in proposals : ApplyLifecycle(p, prop)
               \/ StageRevocation(p) \/ ReplaceRevocations(p)
               \/ StageRewrite(p) \/ RewriteFacts(p)
        PROVE  ClearedFirst'
    BY <1>3, <1>4 DEF Chooses, PublishJournal, Recover, Resume, ApplyLifecycle,
         MayApply, Ready, StageRevocation, ReplaceRevocations, StageRewrite,
         RewriteFacts, Stage
  <1>5. ASSUME NEW p \in Procs, Swept(p)
        PROVE  ClearedFirst'
    <2>1. CASE journal = None
      BY <1>0, <1>5, <2>1, AllIdle DEF Swept
    <2>2. CASE journal # None
      <3>1. \A q \in Procs : q # p => pc'[q] = "idle"
        BY <1>0, <1>5, <2>2, Alone DEF Swept, Goto, TypeOK
      <3>2. pc'[p] = "retiring" => journal'.event.by # None
        BY <1>0, <1>5, <2>2 DEF Swept, Goto, TypeOK
      <3>3. QED
        BY <3>1, <3>2
    <2>3. QED
      BY <2>1, <2>2
  <1>6. ASSUME NEW p \in Procs, Cleared(p)
        PROVE  ClearedFirst'
    BY <1>0, <1>6, Alone DEF Cleared, Goto, TypeOK
  <1>7. ASSUME NEW p \in Procs, SweepTemp(p)
        PROVE  ClearedFirst'
    BY <1>7 DEF SweepTemp
  <1>8. CASE Rests
    <2> SUFFICES ASSUME NEW q \in Procs, pc'[q] = "retiring",
                        journal'.event.by = None
                 PROVE  proposals' = {}
      OBVIOUS
    <2>1. proposals = {} /\ pc[q] = "retiring"
      BY <1>8 DEF Rests
    <2>2. CASE NoNewProposal
      BY <2>1, <2>2 DEF NoNewProposal
    <2>3. ASSUME NEW p \in Procs, Publish(p)
          PROVE  FALSE
      BY <1>0, <2>1, <2>3, Alone DEF Publish
    <2>4. ASSUME NEW p \in Procs, NEW prop \in Proposal, Saves(p, prop)
          PROVE  UNCHANGED proposals
      BY <2>4 DEF Saves, StartSave
    <2>5. QED
      BY <1>0, <2>1, <2>2, <2>3, <2>4, QueueShape
  <1>9. QED
    BY <1>0, <1>1, <1>2, <1>4, <1>5, <1>6, <1>7, <1>8, StepShape

-----------------------------------------------------------------------------
(* What the operation under way starts from changes in three ways. *)
LEMMA BeforeShape ==
    ASSUME IInv, [Next]_vars
    PROVE  \/ UNCHANGED <<RevsBefore, FactsBefore>>
           \/ \E p \in Procs : ReplaceFacts(p) \/ RetireJournal(p)
  <1> USE DEF RevsBefore, FactsBefore, disk
  <1>0. TypeOK
    BY DEF IInv
  <1>1. ASSUME UNCHANGED <<facts, revs, journal>>
        PROVE  UNCHANGED <<RevsBefore, FactsBefore>>
    BY <1>1
  <1>2. ASSUME NEW p \in Procs, PublishJournal(p)
        PROVE  UNCHANGED <<RevsBefore, FactsBefore>>
    <2>1. view[p].facts = facts /\ view[p].revs = revs
      BY <1>2 DEF IInv, PublishJournal, Exclusion, Generation
    <2>2. /\ journal'.before.facts = facts
          /\ journal'.before.revs = revs
      BY <1>2, <2>1 DEF PublishJournal
    <2>3. QED
      BY <1>2, <2>2 DEF PublishJournal
  <1>3. ASSUME NEW p \in Procs, ReplaceRevocations(p) \/ RewriteFacts(p)
        PROVE  UNCHANGED <<RevsBefore, FactsBefore>>
    BY <1>3 DEF IInv, Progress, ReplaceRevocations, RewriteFacts
  <1>4. ASSUME NEW p \in Procs,
               \/ Open(p) \/ Ends(p) \/ Chooses(p)
               \/ \E prop \in proposals : ApplyLifecycle(p, prop)
               \/ Recover(p) \/ Resume(p)
               \/ StageRevocation(p) \/ StageRewrite(p)
               \/ SweepTemp(p) \/ Swept(p) \/ Cleared(p)
        PROVE  UNCHANGED <<facts, revs, journal>>
    BY <1>4 DEF Open, Ends, Chooses, ApplyLifecycle, Recover, Resume,
         StageRevocation, StageRewrite, SweepTemp, Swept, Cleared
  <1>5. Rests => UNCHANGED <<facts, revs, journal>>
    BY DEF Rests
  <1>6. QED
    BY <1>0, <1>1, <1>2, <1>3, <1>4, <1>5, StepShape

(* A new proposal comes while no operation is under way, and is of now. *)
LEMMA PublishShape ==
    ASSUME EInv, NEW p \in Procs, Publish(p)
    PROVE  /\ RevsBefore = revs /\ FactsBefore = facts
           /\ UNCHANGED <<RevsBefore, FactsBefore>>
           /\ proposals' = proposals \cup {want[p]}
           /\ want[p].gen.revs = revs /\ want[p].gen.facts = facts
  BY DEF EInv, RInv, IInv, NoJournalYet, SavedFresh, Generation, Publish,
         RevsBefore, FactsBefore

(* No other step adds a proposal. *)
LEMMA OtherShape ==
    ASSUME EInv, [Next]_vars, ~\E p \in Procs : Publish(p)
    PROVE  proposals' \subseteq proposals
  <1>1. TypeOK
    BY DEF EInv, RInv, IInv
  <1>2. QED
    BY <1>1, QueueShape DEF NoNewProposal, Saves, StartSave

(* The journal goes when both files are as it says. *)
LEMMA RetireShape ==
    ASSUME EInv, NEW p \in Procs, RetireJournal(p)
    PROVE  /\ journal # None /\ journal \in Journal
           /\ RevsBefore = journal.before.revs
           /\ RevsBefore' = Append(journal.before.revs, journal.event)
           /\ journal.event.by = None => proposals = {}
           /\ UNCHANGED proposals
  BY DEF EInv, RInv, IInv, TypeOK, Progress, WithEvent, ClearedFirst,
         RetireJournal, RevsBefore

LEMMA QueueKnowsStep ==
    ASSUME EInv, [Next]_vars
    PROVE  QueueKnows'
  <1>0. IInv /\ QueueKnows
    BY DEF EInv, RInv
  <1>1. ASSUME NEW p \in Procs, Publish(p)
        PROVE  QueueKnows'
    BY <1>0, <1>1, PublishShape DEF QueueKnows, Knows
  <1>2. ASSUME UNCHANGED RevsBefore, proposals' \subseteq proposals
        PROVE  QueueKnows'
    BY <1>0, <1>2 DEF QueueKnows, Knows
  <1>3. ASSUME NEW p \in Procs, ReplaceFacts(p)
        PROVE  UNCHANGED RevsBefore
    BY <1>0, <1>3 DEF IInv, NoJournalYet, ReplaceFacts, RevsBefore
  <1>4. ASSUME NEW p \in Procs, RetireJournal(p)
        PROVE  QueueKnows'
    <2>1. /\ journal.before.revs \in Seq(Event)
          /\ journal.event \in Event
      BY <1>4, RetireShape DEF Journal, GenerationSet
    <2>2. Events(RevsBefore') = Events(RevsBefore) \cup {journal.event}
      <3>1. Events(Append(journal.before.revs, journal.event))
               = Events(journal.before.revs) \cup {journal.event}
        BY <2>1, AppendEvents
      <3>2. QED
        BY <1>4, <3>1, RetireShape
    <2>3. \A e \in Events(RevsBefore'), prop \in proposals' :
             e.by = None => e \in Events(prop.gen.revs)
      BY <1>0, <1>4, <2>2, RetireShape DEF QueueKnows, Knows
    <2>4. QED
      BY <2>3 DEF QueueKnows, Knows, Events
  <1>5. QED
    BY <1>0, <1>1, <1>2, <1>3, <1>4, BeforeShape, OtherShape

LEMMA OrderedStep ==
    ASSUME EInv, [Next]_vars
    PROVE  Ordered'
  <1>0. IInv /\ TypeOK /\ Ordered
    BY DEF EInv, RInv, IInv
  <1>1. ASSUME NEW p \in Procs, Publish(p)
        PROVE  Ordered'
    BY <1>0, <1>1, PublishShape DEF Ordered, AtOrBefore, Grown
  <1>2. ASSUME UNCHANGED <<RevsBefore, FactsBefore>>, proposals' \subseteq proposals
        PROVE  Ordered'
    BY <1>0, <1>2 DEF Ordered, AtOrBefore
  <1>3. ASSUME NEW p \in Procs, ReplaceFacts(p)
        PROVE  Ordered'
    <2>1. /\ journal = None /\ journal' = None
          /\ facts' = AddFacts(facts, Additions(want[p]))
          /\ UNCHANGED <<revs, proposals>>
      BY <1>0, <1>3 DEF IInv, NoJournalYet, ReplaceFacts
    <2>2. Grown(facts, facts')
      BY <2>1 DEF Grown, AddFacts, Additions
    <2>3. \A f \in FactList : Grown(f, facts) => Grown(f, facts')
      BY <2>2 DEF Grown
    <2>4. \A prop \in proposals : prop.gen.facts \in FactList
      BY <1>0 DEF TypeOK, Proposal, GenerationSet
    <2>5. /\ RevsBefore = revs /\ RevsBefore' = revs
          /\ FactsBefore = facts /\ FactsBefore' = facts'
      BY <2>1 DEF RevsBefore, FactsBefore
    <2>6. \A prop \in proposals' : AtOrBefore(prop.gen, facts', revs)
      BY <1>0, <2>1, <2>3, <2>4, <2>5 DEF Ordered, AtOrBefore
    <2>7. QED
      BY <2>5, <2>6 DEF Ordered, AtOrBefore
  <1>4. ASSUME NEW p \in Procs, RetireJournal(p)
        PROVE  Ordered'
    <2>1. /\ journal.before.revs \in Seq(Event)
          /\ journal.event \in Event
      BY <1>4, RetireShape DEF Journal, GenerationSet
    <2>2. Len(RevsBefore') = Len(RevsBefore) + 1 /\ Len(RevsBefore) \in Nat
      BY <1>4, <2>1, RetireShape
    <2>3. \A prop \in proposals : prop.gen.revs \in Seq(Event)
      BY <1>0 DEF TypeOK, Proposal, GenerationSet
    <2>4. \A prop \in proposals : Len(prop.gen.revs) < Len(RevsBefore')
      BY <1>0, <2>2, <2>3 DEF Ordered, AtOrBefore
    <2>5. QED
      BY <1>4, <2>4, RetireShape DEF Ordered, AtOrBefore
  <1>5. QED
    BY <1>0, <1>1, <1>2, <1>3, <1>4, BeforeShape, OtherShape

LEMMA InitEInv == Init => EInv
  <1>1. Init => /\ SavedFresh /\ QueueKnows /\ ClearedFirst /\ Ordered
    BY DEF Init, SavedFresh, QueueKnows, Knows, ClearedFirst, Ordered
  <1>2. QED
    BY <1>1, InitRInv DEF EInv

(* EInv, which adds to RInv what the queue may hold, is inductive. *)
THEOREM ErasureInductive == Spec => []EInv
  <1>1. EInv /\ [Next]_vars => EInv'
    BY TypeStep, ExclusionStep, TempHeldStep, NoJournalYetStep, DecidedStep,
       JournalLegalStep, PositionStep, ProgressStep, ChosenStep, EventNewStep,
       OnceStep, QueueStep, SavedFreshStep, QueueKnowsStep, ClearedFirstStep,
       OrderedStep DEF EInv, RInv, IInv
  <1>2. QED
    BY InitEInv, <1>1, PTL DEF Spec

(* Once an erasure is over no proposal saved before it is left, wherever    *)
(* the erasure and its recoveries were interrupted (_clear_proposals in    *)
(* _recover_unchecked, before the journal goes).                           *)
THEOREM ErasureLeavesNothing == Spec => []NothingSavedBeforeErasure
  <1>1. EInv => NothingSavedBeforeErasure
    BY DEF EInv, QueueKnows, Knows, RevsBefore, NothingSavedBeforeErasure
  <1>2. QED
    BY ErasureInductive, <1>1, PTL

Stale ==
    \A prop \in proposals \cap proposals' :
        prop.gen # Generation => prop.gen # Generation'

LEMMA StaleStep ==
    ASSUME EInv, [Next]_vars
    PROVE  Stale
  <1> USE DEF disk
  <1>0. IInv /\ TypeOK /\ Ordered
    BY DEF EInv, RInv, IInv
  <1>1. ASSUME UNCHANGED <<facts, revs>>
        PROVE  Stale
    BY <1>1 DEF Stale, Generation
  <1>2. ASSUME NEW p \in Procs, ReplaceFacts(p)
        PROVE  Stale
    <2> SUFFICES ASSUME NEW prop \in proposals, prop.gen = Generation'
                 PROVE  prop.gen = Generation
      BY DEF Stale
    <2>1. /\ journal = None
          /\ facts' = AddFacts(facts, Additions(want[p]))
          /\ UNCHANGED revs
      BY <1>0, <1>2 DEF IInv, NoJournalYet, ReplaceFacts
    <2>2. prop.gen.revs = revs /\ prop.gen.facts = facts'
      BY <2>1 DEF Generation
    <2>3. revs \in Seq(Event) /\ facts \in FactList
      BY <1>0 DEF TypeOK
    <2>4. Grown(facts', facts)
      BY <1>0, <2>1, <2>2, <2>3 DEF Ordered, AtOrBefore, RevsBefore, FactsBefore
    <2>5. \A i \in Ids : facts'[i] = facts[i]
      BY <2>1, <2>4 DEF Grown, AddFacts, Additions
    <2>6. facts' = [i \in Ids |-> facts'[i]]
      BY <2>1 DEF AddFacts
    <2>7. facts = [i \in Ids |-> facts[i]]
      BY <2>3 DEF FactList
    <2>8. QED
      BY <2>1, <2>5, <2>6, <2>7 DEF Generation
  <1>3. ASSUME NEW p \in Procs, ReplaceRevocations(p) \/ RewriteFacts(p)
        PROVE  Stale
    <2>1. /\ journal # None /\ journal \in Journal
          /\ revs' = Append(journal.before.revs, journal.event)
      BY <1>0, <1>3 DEF IInv, TypeOK, Progress, WithEvent, ReplaceRevocations,
         RewriteFacts
    <2>2. /\ journal.before.revs \in Seq(Event)
          /\ journal.event \in Event
      BY <2>1 DEF Journal, GenerationSet
    <2>3. Len(revs') = Len(RevsBefore) + 1 /\ Len(RevsBefore) \in Nat
      BY <2>1, <2>2 DEF RevsBefore
    <2>4. \A prop \in proposals : prop.gen.revs \in Seq(Event)
      BY <1>0 DEF TypeOK, Proposal, GenerationSet
    <2>5. \A prop \in proposals : Len(prop.gen.revs) # Len(revs')
      BY <1>0, <2>3, <2>4 DEF Ordered, AtOrBefore
    <2>6. \A prop \in proposals : prop.gen # Generation'
      BY <2>5 DEF Generation
    <2>7. QED
      BY <2>6 DEF Stale
  <1>4. ASSUME NEW p \in Procs,
               \/ Open(p) \/ Ends(p) \/ Chooses(p)
               \/ \E prop \in proposals : ApplyLifecycle(p, prop)
               \/ PublishJournal(p) \/ Recover(p) \/ Resume(p)
               \/ StageRevocation(p) \/ StageRewrite(p)
               \/ SweepTemp(p) \/ Swept(p) \/ Cleared(p) \/ RetireJournal(p)
        PROVE  UNCHANGED <<facts, revs>>
    BY <1>4 DEF Open, Ends, Chooses, ApplyLifecycle, PublishJournal, Recover,
         Resume, StageRevocation, StageRewrite, SweepTemp, Swept, Cleared,
         RetireJournal
  <1>5. Rests => UNCHANGED <<facts, revs>>
    BY DEF Rests
  <1>6. QED
    BY <1>0, <1>1, <1>2, <1>3, <1>4, <1>5, StepShape

(* A generation never comes back: a proposal that went stale cannot be      *)
(* applied later, though the fact list it was made from may return         *)
(* (_apply_proposal's comparison with the digests of both files).          *)
THEOREM StaleForEver == Spec => StaleStaysStale
  <1>1. EInv /\ [Next]_vars => [Stale]_vars
    BY StaleStep
  <1>2. QED
    BY ErasureInductive, <1>1, PTL DEF Spec, StaleStaysStale, Stale

-----------------------------------------------------------------------------
(* Recall without the lock (CustomerRecall).                               *)
(*                                                                         *)
(* The argument.  After the first look for a journal, every pair of files  *)
(* that agree with each other was the committed memory at some moment of   *)
(* the recall: without a journal it is now, and the journal's own earlier  *)
(* files were when it was written (SeenBefore); between its two renames    *)
(* they do not agree.  What was read is what is on disk until the stamps   *)
(* show otherwise (Copied), so when the first stamp is looked at again the *)
(* pair that was validated is on disk, or the second stamp will differ.    *)

Answer(f, r) == [mem |-> f, gone |-> RevokedIds(r)]

SeenNow == rpc # "idle" => CommittedMemory \in seen

SeenBefore ==
    rpc \notin {"idle", "journal"} /\ journal # None =>
        Answer(journal.before.facts, journal.before.revs) \in seen

Copied ==
    /\ snap = [facts |-> snap.facts, revs |-> snap.revs]
    /\ rpc \in {"readRevs", "validate", "temps", "facts"} /\ "facts" \notin moved => snap.facts = facts
    /\ rpc \in {"validate", "temps", "facts", "revs"} /\ "revs" \notin moved => snap.revs = revs
    /\ rpc \in {"temps", "facts", "revs"} => LifecycleOK(snap.facts, snap.revs)

Answered ==
    /\ rpc = "revs" /\ "revs" \notin moved => Answer(snap.facts, snap.revs) \in seen
    /\ rpc \in {"journalAgain", "rendered"} => Answer(snap.facts, snap.revs) \in seen

RecallInv == IInv /\ SeenNow /\ SeenBefore /\ Copied /\ Answered

(* Files that agree were the committed memory since the recall began.      *)
LEMMA AgreeingSeen ==
    ASSUME IInv, SeenNow, SeenBefore, rpc \notin {"idle", "journal"}, LifecycleOK(facts, revs)
    PROVE  Answer(facts, revs) \in seen
  <1>1. CASE journal = None
    <2>1. CommittedMemory = Answer(facts, revs)
      BY <1>1 DEF CommittedMemory, Answer, Committed, Revoked
    <2>2. QED
      BY <2>1 DEF SeenNow
  <1>2. CASE journal # None
    <2>1. /\ journal.before.revs \in Seq(Event) /\ journal.event \in Event
          /\ journal.after = AfterEvent(journal.before.facts, journal.event)
          /\ Eligible(journal.before.facts, journal.before.revs, journal.event)
      BY <1>2 DEF IInv, TypeOK, Journal, GenerationSet, JournalLegal
    <2>2. /\ Events(WithEvent) = Events(journal.before.revs) \cup {journal.event}
          /\ RevokedIds(WithEvent) = RevokedIds(journal.before.revs) \cup {journal.event.id}
      BY <2>1, AppendEvents DEF WithEvent
    <2>3. CASE facts = journal.before.facts /\ revs = journal.before.revs
      BY <1>2, <2>3 DEF SeenBefore
    <2>4. CASE facts = journal.before.facts /\ revs = WithEvent
      <3>1. journal.event \in Events(revs)
        BY <2>2, <2>4
      <3>2. facts[journal.event.id] # Current
            /\ (journal.event.by = None => facts[journal.event.id] = None)
        BY <3>1 DEF LifecycleOK
      <3>3. QED
        BY <2>1, <2>4, <3>2 DEF Eligible
    <2>5. CASE facts = journal.after /\ revs = WithEvent
      <3>1. Committed = facts /\ Revoked = RevokedIds(revs)
        BY <1>2, <2>2, <2>5 DEF Committed, Revoked
      <3>2. QED
        BY <3>1 DEF SeenNow, CommittedMemory, Answer
    <2>6. QED
      BY <1>2, <2>3, <2>4, <2>5 DEF IInv, Position
  <1>3. QED
    BY <1>1, <1>2

LEMMA RecallStepInv ==
    ASSUME RecallInv, RecallStep
    PROVE  RecallInv'
  <1>1. UNCHANGED vars /\ UNCHANGED <<facts, revs, journal, temps>> /\ CommittedMemory' = CommittedMemory
    BY DEF RecallStep, vars, disk, CommittedMemory, Committed, Revoked
  <1>2. IInv'
    BY <1>1, StepKeeps DEF RecallInv
  <1>3. CASE rpc' = "idle" /\ snap' = NoSnapshot
    BY <1>2, <1>3 DEF RecallInv, SeenNow, SeenBefore, Copied, Answered, NoSnapshot
  <1>4. CASE StartRecall
    <2>1. /\ rpc = "idle" /\ rpc' = "journal" /\ CommittedMemory \in seen' /\ snap' = snap
      BY <1>4 DEF StartRecall
    <2>2. QED
      BY <1>1, <1>2, <2>1 DEF RecallInv, SeenNow, SeenBefore, Copied, Answered
  <1>5. ASSUME UNCHANGED <<snap, moved, seen>>, rpc \notin {"idle", "journal"},
               \/ rpc = "stampFacts" /\ rpc' = "stampRevs"
               \/ rpc = "stampRevs" /\ rpc' = "readFacts"
               \/ rpc = "validate" /\ rpc' = "temps" /\ LifecycleOK(snap.facts, snap.revs)
               \/ rpc = "temps" /\ rpc' = "facts"
               \/ rpc = "revs" /\ rpc' = "journalAgain" /\ "revs" \notin moved
               \/ rpc = "journalAgain" /\ rpc' = "rendered"
        PROVE  RecallInv'
    BY <1>1, <1>2, <1>5 DEF RecallInv, SeenNow, SeenBefore, Copied, Answered
  <1>6. CASE CheckJournal /\ journal = None
    <2>1. rpc' = "stampFacts" /\ rpc = "journal" /\ UNCHANGED <<snap, moved, seen>>
      BY <1>6 DEF CheckJournal, Check
    <2>2. QED
      BY <1>1, <1>2, <1>6, <2>1 DEF RecallInv, SeenNow, SeenBefore, Copied, Answered
  <1>7. CASE ReadFacts
    <2>1. /\ rpc = "readFacts" /\ rpc' = "readRevs" /\ UNCHANGED <<moved, seen>>
          /\ snap' = [facts |-> facts, revs |-> snap.revs]
      BY <1>7 DEF ReadFacts, RecallInv, Copied
    <2>2. QED
      BY <1>1, <1>2, <2>1 DEF RecallInv, SeenNow, SeenBefore, Copied, Answered
  <1>8. CASE ReadRevocations
    <2>1. /\ rpc = "readRevs" /\ rpc' = "validate" /\ UNCHANGED <<moved, seen>>
          /\ snap' = [facts |-> snap.facts, revs |-> revs]
      BY <1>8 DEF ReadRevocations, RecallInv, Copied
    <2>2. QED
      BY <1>1, <1>2, <2>1 DEF RecallInv, SeenNow, SeenBefore, Copied, Answered
  <1>9. CASE RecheckFacts /\ "facts" \notin moved
    <2>1. rpc = "facts" /\ rpc' = "revs" /\ UNCHANGED <<snap, moved, seen>>
      BY <1>9 DEF RecheckFacts, Check
    <2>2. ASSUME "revs" \notin moved
          PROVE  Answer(snap.facts, snap.revs) \in seen
      <3>1. snap.facts = facts /\ snap.revs = revs /\ LifecycleOK(snap.facts, snap.revs)
        BY <1>9, <2>1, <2>2 DEF RecallInv, Copied
      <3>2. QED
        BY <2>1, <3>1, AgreeingSeen DEF RecallInv
    <2>3. QED
      BY <1>1, <1>2, <2>1, <2>2 DEF RecallInv, SeenNow, SeenBefore, Copied, Answered
  <1>10. QED
    BY <1>3, <1>4, <1>5, <1>6, <1>7, <1>8, <1>9 DEF RecallStep, CheckJournal, StampFacts,
       StampRevocations, Validate, RecheckTemps, RecheckFacts, RecheckRevocations,
       RecheckJournal, EndRecall, Check, GiveUp

(* A journal is written from the files that it says were before it.        *)
LEMMA JournalFrom ==
    ASSUME IInv, Next
    PROVE  \/ journal' \in {journal, None}
           \/ journal = None /\ journal'.before = Generation
  <1>1. ASSUME NEW p \in Procs, PublishJournal(p)
        PROVE  journal = None /\ journal'.before = Generation
    BY <1>1 DEF IInv, Exclusion, PublishJournal
  <1>2. ASSUME NEW p \in Procs,
               \/ Open(p) \/ Ends(p) \/ Chooses(p)
               \/ \E prop \in proposals : ApplyLifecycle(p, prop)
               \/ ReplaceFacts(p) \/ Recover(p) \/ Resume(p)
               \/ StageRevocation(p) \/ ReplaceRevocations(p)
               \/ StageRewrite(p) \/ RewriteFacts(p)
               \/ SweepTemp(p) \/ Swept(p) \/ Cleared(p) \/ RetireJournal(p)
        PROVE  journal' \in {journal, None}
    BY <1>2 DEF disk, Open, Ends, Chooses, ApplyLifecycle, ReplaceFacts, Recover, Resume,
       StageRevocation, ReplaceRevocations, StageRewrite, RewriteFacts, SweepTemp, Swept,
       Cleared, RetireJournal
  <1>3. Rests => journal' \in {journal, None}
    BY DEF Rests
  <1>4. QED
    BY <1>1, <1>2, <1>3, StepShape DEF IInv

LEMMA StoreStepInv ==
    ASSUME RecallInv, StoreStep
    PROVE  RecallInv'
  <1>1. /\ Next /\ UNCHANGED <<rpc, snap>>
        /\ rpc # "idle" => seen' = seen \cup {CommittedMemory'}
        /\ \A f \in {"facts", "revs"} : f \notin moved' => f \notin moved
        /\ StampTaken("facts") /\ "facts" \notin moved' => facts' = facts
        /\ StampTaken("revs") /\ "revs" \notin moved' => revs' = revs
    BY DEF StoreStep
  <1>2. IInv'
    BY <1>1, StepKeeps DEF RecallInv
  <1>3. SeenNow'
    BY <1>1 DEF SeenNow
  <1>4. SeenBefore'
    <2>1. SUFFICES ASSUME rpc \notin {"idle", "journal"}, journal' # None
                   PROVE  Answer(journal'.before.facts, journal'.before.revs) \in seen
      BY <1>1 DEF SeenBefore
    <2>2. CASE journal' = journal
      BY <2>1, <2>2 DEF RecallInv, SeenBefore
    <2>3. CASE journal = None /\ journal'.before = Generation
      <3>1. Answer(facts, revs) = CommittedMemory
        BY <2>3 DEF Answer, CommittedMemory, Committed, Revoked
      <3>2. journal'.before.facts = facts /\ journal'.before.revs = revs
        BY <2>3 DEF Generation
      <3>3. QED
        BY <2>1, <3>1, <3>2 DEF RecallInv, SeenNow
    <2>4. QED
      BY <1>1, <2>1, <2>2, <2>3, JournalFrom DEF RecallInv
  <1>5. Copied'
    <2>1. rpc \in {"readRevs", "validate", "temps", "facts"} => StampTaken("facts")
      BY DEF StampTaken
    <2>2. rpc \in {"validate", "temps", "facts", "revs"} => StampTaken("revs")
      BY DEF StampTaken
    <2>3. QED
      BY <1>1, <2>1, <2>2 DEF RecallInv, Copied
  <1>6. Answered'
    BY <1>1 DEF RecallInv, Answered
  <1>7. QED
    BY <1>2, <1>3, <1>4, <1>5, <1>6 DEF RecallInv

(* RecallInv holds of the store beside a lock-free recall, from the first  *)
(* directory on: no step of a session nor of the recall breaks it.         *)
THEOREM RecallInductive == RSpec => []RecallInv
  <1>1. ASSUME RInit
        PROVE  RecallInv
    <2>1. Init /\ rpc = "idle" /\ snap = NoSnapshot
      BY <1>1 DEF RInit
    <2>2. IInv
      BY <2>1, InitIInv
    <2>3. QED
      BY <2>1, <2>2 DEF RecallInv, SeenNow, SeenBefore, Copied, Answered, NoSnapshot
  <1>2. ASSUME RecallInv, [RNext]_rvars
        PROVE  RecallInv'
    <2>1. CASE RNext
      BY <1>2, <2>1, RecallStepInv, StoreStepInv DEF RNext
    <2>2. CASE UNCHANGED rvars
      <3>1. /\ UNCHANGED vars /\ UNCHANGED <<facts, revs, journal, temps>>
            /\ UNCHANGED <<rpc, snap, moved, seen>>
        BY <2>2 DEF rvars, reader, vars, disk
      <3>2. IInv' /\ CommittedMemory' = CommittedMemory
        BY <1>2, <3>1, StepKeeps DEF RecallInv, CommittedMemory, Committed, Revoked
      <3>3. QED
        BY <1>2, <3>1, <3>2 DEF RecallInv, SeenNow, SeenBefore, Copied, Answered
    <2>3. QED
      BY <1>2, <2>1, <2>2
  <1>3. QED
    BY <1>1, <1>2, PTL DEF RSpec

(* A hook that recalls beside any number of sessions, without their lock,  *)
(* answers from what was the committed memory at a moment while it ran     *)
(* (_consumer_hooks recall).                                               *)
THEOREM RecallLinearizable == RSpec => []RecallIsLinearizable
  <1>1. RecallInv => RecallIsLinearizable
    BY DEF RecallInv, Answered, Answer, RecallIsLinearizable
  <1>2. QED
    BY <1>1, RecallInductive, PTL
=============================================================================
