---------------------------- MODULE RecallSelect ----------------------------
(***************************************************************************)
(* select_recall of budget-recall, whole: what RecallRank finds and        *)
(* orders, RecallPack packs.                                               *)
(***************************************************************************)
EXTENDS RecallRank

CONSTANTS
    Inputs  \* the stores and the questions asked of them: sets of inputs

ASSUME InputsAssumption == \A family \in Inputs : family \subseteq Input

VARIABLES
    input   \* the store and the question

selectVars == <<input, packVars>>

SelectInit ==
    /\ \E family \in Inputs : input \in family
    /\ asked = Ask(input)
    /\ PackInit

SelectNext == PackNext /\ UNCHANGED input

SelectSpec == SelectInit /\ [][SelectNext]_selectVars

-----------------------------------------------------------------------------
(* A current row that is searched beside i revokes the revision of i.      *)
Revoked(i) ==
    \E S \in {FactPeers(input), InsightPeers(input)} :
        i \in S /\ RevokedRevision(input, S, i)

(* What the Explorer shows a row of the same files as (_build). *)
Lifecycle(in, i) ==
    LET row == in.item[i]
    IN  CASE row.status = "superseded" -> "superseded"
          [] row.status # "superseded" /\ in.key /\ i \in Facts /\ row.dead -> "revoked"
          [] row.status # "superseded" /\ ~(in.key /\ i \in Facts /\ row.dead) ->
                IF CurrentlyValid(in, i) THEN "current" ELSE "inactive"

(* Whatever way a row was found, by its words, by its vector or as a       *)
(* neighbour in the graph, what was tampered with, is below the confidence *)
(* floor or another agent's is not injected, nor, unless the history was   *)
(* asked for, what the Explorer does not show as current; what was revoked *)
(* by an event never is; without those two tiers, neither is a revoked     *)
(* revision.                                                               *)
HiddenStaysHidden ==
    \A i \in ToSet(included) :
        LET row == input.item[i]
        IN  /\ row.ours /\ row.sure
            /\ input.key => row.proof # "tampered"
            /\ input.strict => input.key /\ row.proof = "valid"
            /\ ~input.history => Lifecycle(input, i) = "current"
            /\ Lifecycle(input, i) # "revoked"
            /\ ~input.semantic /\ ~input.graph => ~Revoked(i)

(* "A current claim that revokes a peer revision hides that peer" (N10022), *)
(* however the peer was found.                                             *)
RevokedRevisionHidden == \A i \in ToSet(included) : ~Revoked(i)

=============================================================================
