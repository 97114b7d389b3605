--------------------------- MODULE MCStoreOutputs ---------------------------
(***************************************************************************)
(* One instance for the four modules of what is made from the live store:  *)
(* the recall of a question, the lineage of insights, the derived files and *)
(* the Explorer's snapshots.  They share no state, so a behaviour moves one *)
(* of them, the focus, and the other three stay where they started.        *)
(***************************************************************************)
EXTENDS MCRecallSelect, DerivedFiles, InsightLineage, Explorer

VARIABLE focus

outputVars == <<focus, selectVars, derivedVars, lineageVars, explorerVars>>

(* One cluster: occurrences, dates and anchors. *)
Occurrences ==
    {[n \in 1..3 |-> [id |-> n, date |-> d[n], confidence |-> 1, events |-> e[n],
                      anchors |-> IF n = 1 THEN {} ELSE a, text |-> IF n = 2 THEN 1 ELSE n,
                      long |-> n = 1, alike |-> 1..3, active |-> TRUE]] :
        d \in [1..3 -> 1..2], e \in [1..3 -> {{}, {1}, {2}, {1, 2}}], a \in {{}, {5}}}

(* Several clusters: overlaps, the order of the store, an inactive fact. *)
Overlaps ==
    {[n \in 1..4 |-> [id |-> order[n], date |-> order[n] % 2, confidence |-> 1,
                      events |-> {order[n]}, anchors |-> {}, text |-> n, long |-> FALSE,
                      alike |-> {m \in 1..4 : m = order[n] \/ {m, order[n]} \in pairs},
                      active |-> order[n] # idle]] :
        order \in {<<1, 2, 3, 4>>, <<3, 1, 4, 2>>},
        pairs \in SUBSET {{1, 2}, {2, 3}, {3, 4}, {1, 4}}, idle \in {0, 2}}

Readings == {Occurrences, Overlaps}

Order == <<"facts", "insights", "revocations">>

Symmetry == Permutations(Writers) \cup Permutations(FactIds)

-----------------------------------------------------------------------------
Recalling == focus = "recall"

OutputsInit ==
    /\ focus \in {"recall", "lineage", "derived", "explorer"}
    /\ ExplorerInit
    /\ IF Recalling THEN SelectInit
       ELSE input = Plain /\ asked = Ask(input) /\ PackInit
    /\ IF focus = "lineage" THEN LineageInit ELSE sources = <<>> /\ summaries = <<>>
    /\ DerivedInit
    /\ focus # "derived" => listed = {}

OutputsNext ==
    /\ UNCHANGED focus
    /\ \/ Recalling /\ SelectNext /\ UNCHANGED <<derivedVars, lineageVars, explorerVars>>
       \/ focus = "lineage" /\ LineageNext /\ UNCHANGED <<selectVars, derivedVars, explorerVars>>
       \/ focus = "derived" /\ DerivedNext /\ UNCHANGED <<selectVars, lineageVars, explorerVars>>
       \/ focus = "explorer" /\ ExplorerNext /\ UNCHANGED <<selectVars, derivedVars, lineageVars>>

OutputsSpec == OutputsInit /\ [][OutputsNext]_outputVars

=============================================================================
