---------------------------- MODULE DerivedFiles ----------------------------
(***************************************************************************)
(* The files derived from the live store, and who writes them: synthesize  *)
(* publishes insights by a compare and swap under its own lock, exporters  *)
(* rewrite graph, vectors and vault from a snapshot, and purge-fact takes a *)
(* fact out of the store and then out of every file.  Commands run side by *)
(* side and are killed anywhere; only publications exclude each other.     *)
(***************************************************************************)
EXTENDS Integers, Sequences, FiniteSets

CONSTANTS
    Writers,    \* processes
    FactIds,    \* fact identifiers
    Nobody,     \* no process
    MaxRuns,    \* bound: commands started
    MaxSideBySide, \* bound: commands started when two of them run side by side
    MaxWrites   \* bound: facts that other tools add

ASSUME DerivedAssumption ==
    /\ Nobody \notin Writers
    /\ {MaxRuns, MaxSideBySide, MaxWrites} \subseteq Nat

(* The files, by the facts they name: the lines of events.jsonl, the       *)
(* session notes, the facts the insights cite, graph.json, the vectors, the *)
(* vault's mirror of each fact and the vault's links to those mirrors.     *)
Swept == <<"events", "notes", "links", "insights", "graph">>

Files == {Swept[n] : n \in DOMAIN Swept} \cup {"vectors", "mirrors"}

VARIABLES
    listed,    \* the facts in the store
    bytes,     \* which bytes the store file holds: counts its rewrites
    names,     \* the facts each derived file names
    insightsIs, \* insights.json: its identity, and publications so far
    tombs,     \* tombstones.jsonl
    outLock,   \* who holds the synthesis lock
    at,        \* where each process is
    kept,      \* what each process holds in memory
    runs, writes,
    raced      \* history: whether two commands ever ran side by side

derivedVars == <<listed, bytes, names, insightsIs, tombs, outLock, at, kept,
                 runs, writes, raced>>

Nothing == [facts |-> {}, bytes |-> 0, output |-> [id |-> 0, pubs |-> 0],
            cites |-> {}, gone |-> {}, pattern |-> {}, mirrors |-> {},
            cut |-> [n \in Files |-> {}], plan |-> [n \in Files |-> {}],
            next |-> 1, failed |-> FALSE]

Places == {"idle",
           "noted", "read", "built", "compared", "checked",               \* synthesize
           "graph", "vectors", "mirrors", "links",                        \* exporters
           "planned", "scrubbed", "weighed", "replacing", "marking",
           "sweeping", "unlinking", "purged"}

DerivedTypeOK ==
    /\ listed \subseteq FactIds /\ tombs \subseteq FactIds
    /\ bytes \in Nat /\ runs \in 0..MaxRuns /\ writes \in 0..MaxWrites
    /\ names \in [Files -> SUBSET FactIds]
    /\ insightsIs \in [id : Nat, pubs : Nat]
    /\ outLock \in Writers \cup {Nobody}
    /\ at \in [Writers -> Places]
    /\ DOMAIN kept = Writers
    /\ raced \in BOOLEAN

-----------------------------------------------------------------------------
DerivedInit ==
    /\ listed \in SUBSET FactIds
    /\ bytes = 1
    /\ names = [n \in Files |-> listed]
    /\ insightsIs = [id |-> 1, pubs |-> 1]
    /\ tombs = {} /\ outLock = Nobody
    /\ at = [p \in Writers |-> "idle"] /\ kept = [p \in Writers |-> Nothing]
    /\ runs = 0 /\ writes = 0
    /\ raced = FALSE

Busy == {p \in Writers : at[p] # "idle"}

Begin(p, place, memory) ==
    /\ at[p] = "idle" /\ runs < MaxRuns
    /\ raced \/ Busy # {} => runs < MaxSideBySide
    /\ at' = [at EXCEPT ![p] = place]
    /\ kept' = [kept EXCEPT ![p] = memory]
    /\ runs' = runs + 1
    /\ raced' = (raced \/ Busy # {})

Proceed(p, place, memory) ==
    /\ at' = [at EXCEPT ![p] = place]
    /\ kept' = [kept EXCEPT ![p] = IF place = "idle" THEN Nothing ELSE memory]
    /\ UNCHANGED <<runs, writes, raced>>

FilesSame == UNCHANGED <<listed, bytes, names, insightsIs, tombs>>

(* Some tool adds a fact: it was ingested, noted and stored. *)
AddFact(i) ==
    /\ i \notin listed \cup tombs
    /\ writes < MaxWrites
    /\ listed' = listed \cup {i}
    /\ bytes' = bytes + 1
    /\ names' = [names EXCEPT !["events"] = @ \cup {i}, !["notes"] = @ \cup {i}]
    /\ writes' = writes + 1
    /\ raced' = (raced \/ Busy # {})
    /\ UNCHANGED <<insightsIs, tombs, outLock, at, kept, runs>>

(* A command is killed; the kernel drops its lock. *)
Killed(p) ==
    /\ at[p] # "idle"
    /\ Proceed(p, "idle", Nothing)
    /\ outLock' = IF outLock = p THEN Nobody ELSE outLock
    /\ FilesSame

-----------------------------------------------------------------------------
(* synthesize: publish_insights. *)

NoteOutput(p) ==
    /\ outLock = Nobody
    /\ Begin(p, "noted", [Nothing EXCEPT !.output = insightsIs])
    /\ FilesSame /\ UNCHANGED <<outLock, writes>>

ReadSources(p) ==
    /\ at[p] = "noted"
    /\ Proceed(p, "read", [kept[p] EXCEPT !.facts = listed, !.bytes = bytes])
    /\ FilesSame /\ UNCHANGED outLock

(* The slow part: clustering, the model, signing and verifying.            *)
Synthesize(p) ==
    /\ at[p] = "read"
    /\ \E cites \in SUBSET kept[p].facts :
          Proceed(p, "built", [kept[p] EXCEPT !.cites = cites])
    /\ FilesSame /\ UNCHANGED outLock

(* Slip: the lock is released once the output was compared. *)
CompareUnlocked(p) ==
    /\ at[p] = "built" /\ outLock = Nobody
    /\ insightsIs.id = kept[p].output.id
    /\ Proceed(p, "compared", kept[p])
    /\ FilesSame /\ UNCHANGED outLock

Compare(p) ==
    /\ at[p] = "built" /\ outLock = Nobody
    /\ insightsIs.id = kept[p].output.id
    /\ Proceed(p, "compared", kept[p])
    /\ outLock' = p
    /\ FilesSame

(* "stale synthesis generation: output changed" *)
Outpaced(p) ==
    /\ at[p] = "built" /\ outLock = Nobody
    /\ insightsIs.id # kept[p].output.id
    /\ Proceed(p, "idle", Nothing)
    /\ FilesSame /\ UNCHANGED outLock

(* before_replace: the store file still has the bytes that were read. *)
CheckSources(p) ==
    /\ at[p] = "compared"
    /\ IF bytes = kept[p].bytes
       THEN Proceed(p, "checked", kept[p]) /\ UNCHANGED outLock
       ELSE Proceed(p, "idle", Nothing) /\ outLock' = Nobody
    /\ FilesSame

Publish(p) ==
    /\ at[p] = "checked"
    /\ names' = [names EXCEPT !["insights"] = kept[p].cites]
    /\ insightsIs' = [id |-> insightsIs.id + 1, pubs |-> insightsIs.pubs + 1]
    /\ outLock' = Nobody
    /\ Proceed(p, "idle", Nothing)
    /\ UNCHANGED <<listed, bytes, tombs>>

-----------------------------------------------------------------------------
(* export-graph, embed-facts (sync_sidecar prunes what the snapshot lacks) *)
(* and export-obsidian (which overwrites notes and deletes none).          *)

ExportRead(p) ==
    \E file \in {"graph", "vectors", "mirrors"} :
        /\ Begin(p, file, [Nothing EXCEPT !.facts = listed])
        /\ FilesSame /\ UNCHANGED <<outLock, writes>>

WriteGraph(p) ==
    /\ at[p] = "graph"
    /\ names' = [names EXCEPT !["graph"] = kept[p].facts]
    /\ Proceed(p, "idle", Nothing)
    /\ UNCHANGED <<listed, bytes, insightsIs, tombs, outLock>>

WriteVectors(p) ==
    /\ at[p] = "vectors"
    /\ names' = [names EXCEPT !["vectors"] = kept[p].facts]
    /\ Proceed(p, "idle", Nothing)
    /\ UNCHANGED <<listed, bytes, insightsIs, tombs, outLock>>

WriteFactNotes(p) ==
    /\ at[p] = "mirrors"
    /\ names' = [names EXCEPT !["mirrors"] = @ \cup kept[p].facts]
    /\ Proceed(p, "links", kept[p])
    /\ UNCHANGED <<listed, bytes, insightsIs, tombs, outLock>>

(* The note of an entity that no fact mentions any more stays.             *)
WriteEntityNotes(p) ==
    /\ at[p] = "links"
    /\ \E stale \in SUBSET (names["links"] \ kept[p].facts) :
          names' = [names EXCEPT !["links"] = kept[p].facts \cup stale]
    /\ Proceed(p, "idle", Nothing)
    /\ UNCHANGED <<listed, bytes, insightsIs, tombs, outLock>>

-----------------------------------------------------------------------------
(* purge-fact --apply.  All but the vectors is planned first; what is      *)
(* written later are the contents planned.                                 *)

Removed(i) == listed \cap {i}

(* The events of what is removed now, and those that the pattern matches.  *)
EventsOut(i, pattern) == names["events"] \cap (Removed(i) \cup pattern)

NotesOut(i) == names["notes"] \cap Removed(i)

(* Slip: only the mirror of what is removed now is looked for. *)
MirrorOfRemoved(i) == names["mirrors"] \cap Removed(i)

(* The mirrors of whatever has a tombstone, too. *)
StaleMirrors(i) == names["mirrors"] \cap (Removed(i) \cup tombs)

LinksOut(i) == names["links"] \cap StaleMirrors(i)

PlanPurge(p) ==
    \E i \in FactIds, byPattern \in BOOLEAN :
        LET pattern == IF byPattern THEN {i} ELSE {}
            cut == [n \in Files |-> CASE n = "events" -> EventsOut(i, pattern)
                                     [] n = "notes" -> NotesOut(i)
                                     [] n = "links" -> LinksOut(i)
                                     [] OTHER -> {}]
        IN  /\ Begin(p, "planned",
                     [Nothing EXCEPT !.facts = listed, !.gone = Removed(i),
                                     !.pattern = pattern, !.mirrors = StaleMirrors(i),
                                     !.cut = cut, !.plan = [n \in Files |-> names[n] \ cut[n]]])
            /\ FilesSame /\ UNCHANGED <<outLock, writes>>

(* The vectors go while the rest is still being planned. *)
PurgeSidecar(p) ==
    /\ at[p] = "planned"
    /\ names' = [names EXCEPT !["vectors"] = @ \ kept[p].gone]
    /\ Proceed(p, "scrubbed", kept[p])
    /\ UNCHANGED <<listed, bytes, insightsIs, tombs, outLock>>

(* An insight that cites the fact, or quotes the pattern, goes whole, with *)
(* what else it cites.                                                     *)
PlanInsights(p) ==
    /\ at[p] = "scrubbed"
    /\ LET m == kept[p]
       IN  \E out \in SUBSET names["insights"] :
              /\ names["insights"] \cap m.gone \subseteq out
              /\ out # {} => out \cap (m.gone \cup m.pattern) # {}
              /\ Proceed(p, "weighed", [m EXCEPT !.cut["insights"] = out,
                                                 !.plan["insights"] = names["insights"] \ out])
    /\ FilesSame /\ UNCHANGED outLock

PlanGraph(p) ==
    /\ at[p] = "weighed"
    /\ LET out == names["graph"] \cap kept[p].gone
       IN  Proceed(p, "replacing", [kept[p] EXCEPT !.cut["graph"] = out,
                                                   !.plan["graph"] = names["graph"] \ out])
    /\ FilesSame /\ UNCHANGED outLock

(* "Zero-match must not rewrite" *)
PurgeStore(p) ==
    /\ at[p] = "replacing"
    /\ IF kept[p].gone = {}
       THEN Proceed(p, "sweeping", kept[p]) /\ UNCHANGED <<listed, bytes>>
       ELSE /\ listed' = kept[p].facts \ kept[p].gone
            /\ bytes' = bytes + 1
            /\ Proceed(p, "marking", kept[p])
    /\ UNCHANGED <<names, insightsIs, tombs, outLock>>

AppendTombstones(p) ==
    /\ at[p] = "marking"
    /\ tombs' = tombs \cup kept[p].gone
    /\ Proceed(p, "sweeping", kept[p])
    /\ UNCHANGED <<listed, bytes, names, insightsIs, outLock>>

(* The next file, if anything is to be taken out of it. *)
Sweep(p) ==
    /\ at[p] = "sweeping"
    /\ LET m == kept[p]
           file == Swept[m.next]
           dirty == m.cut[file] # {}
       IN  /\ names' = IF dirty THEN [names EXCEPT ![file] = m.plan[file]] ELSE names
           /\ insightsIs' = IF dirty /\ file = "insights"
                            THEN [insightsIs EXCEPT !.id = @ + 1]
                            ELSE insightsIs
           /\ Proceed(p, IF m.next = Len(Swept) THEN "unlinking" ELSE "sweeping",
                      [m EXCEPT !.next = @ + 1])
    /\ UNCHANGED <<listed, bytes, tombs, outLock>>

(* One mirror is deleted, or cannot be. *)
Unlink(p) ==
    /\ at[p] = "unlinking"
    /\ \E i \in kept[p].mirrors, deleted \in BOOLEAN :
          /\ names' = IF deleted THEN [names EXCEPT !["mirrors"] = @ \ {i}] ELSE names
          /\ Proceed(p, "unlinking", [kept[p] EXCEPT !.mirrors = @ \ {i},
                                                     !.failed = @ \/ ~deleted])
    /\ UNCHANGED <<listed, bytes, insightsIs, tombs, outLock>>

EndPurge(p) ==
    /\ at[p] = "unlinking" /\ kept[p].mirrors = {}
    /\ Proceed(p, "purged", kept[p])
    /\ FilesSame /\ UNCHANGED outLock

Exit(p) ==
    /\ at[p] = "purged"
    /\ Proceed(p, "idle", Nothing)
    /\ FilesSame /\ UNCHANGED outLock

-----------------------------------------------------------------------------
DerivedStep(p) ==
    \/ NoteOutput(p) \/ ReadSources(p) \/ Synthesize(p)
    \/ Compare(p) \/ Outpaced(p) \/ CheckSources(p) \/ Publish(p)
    \/ ExportRead(p) \/ WriteGraph(p) \/ WriteVectors(p) \/ WriteFactNotes(p) \/ WriteEntityNotes(p)
    \/ PlanPurge(p) \/ PurgeSidecar(p) \/ PlanInsights(p) \/ PlanGraph(p) \/ PurgeStore(p) \/ AppendTombstones(p)
    \/ Sweep(p) \/ Unlink(p) \/ EndPurge(p) \/ Exit(p)
    \/ Killed(p)

DerivedNext ==
    \/ \E p \in Writers : DerivedStep(p)
    \/ \E i \in FactIds : AddFact(i)

DerivedSpec == DerivedInit /\ [][DerivedNext]_derivedVars

-----------------------------------------------------------------------------
Publication == insightsIs'.pubs # insightsIs.pubs

(* "A slow stale generation cannot replace an intervening publication":    *)
(* between the start of a run of synthesize and its publication nobody     *)
(* else publishes, whoever else writes and dies meanwhile.                 *)
NewerSynthesisKept ==
    [][Publication => \E p \in Writers : /\ at[p] = "checked"
                                        /\ kept[p].output.pubs = insightsIs.pubs]_derivedVars

(* When commands ran one at a time, killed ones among them, a purge that   *)
(* reports success leaves no mirror of anything purged so far, no event    *)
(* that its pattern matches and, of the fact it removed itself, nothing in *)
(* any file.                                                               *)
PurgeLeavesNothing ==
    \A p \in Writers :
        at[p] = "purged" /\ ~raced /\ ~kept[p].failed =>
            /\ names["mirrors"] \cap tombs = {}
            /\ names["events"] \cap kept[p].pattern = {}
            /\ \A n \in Files : names[n] \cap kept[p].gone = {}

=============================================================================
