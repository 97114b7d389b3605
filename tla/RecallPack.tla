----------------------------- MODULE RecallPack -----------------------------
(***************************************************************************)
(* The packing of budget-recall's results into the token budget            *)
(* (select_recall): reserved slots are paid for in advance, then insights  *)
(* and facts are taken in order while they fit; an insight that does not   *)
(* fit is left out, a fact that does not fit ends the walk, and a fact     *)
(* that an included insight holds in full is left to it.                   *)
(***************************************************************************)
EXTENDS Integers, Sequences, SequencesExt

CONSTANTS
    Facts, Insights,  \* ids of the rows that may be found
    Header            \* tokens of the header line

Items == Facts \cup Insights

(* A row is found once: the rows of a store differ in their ids. *)
Question ==
    {q \in [results : Seq(Items), reserved : SUBSET Facts, cost : [Items -> Nat],
            covers : [Items -> SUBSET Facts], budget : Nat] : IsInjective(q.results)}

ASSUME PackAssumption ==
    /\ Facts \cap Insights = {}
    /\ Header \in Nat

VARIABLES
    asked,      \* the question: its results in order, what is reserved, the costs
    phase,      \* where the packing is
    place,      \* position in the results
    used,       \* tokens_used
    committed,  \* the reserved rows that are paid for, in order
    included,   \* the rows that will be injected, in order
    covered,    \* the facts an included insight stands for
    truncated   \* whether something did not fit

packVars == <<asked, phase, place, used, committed, included, covered, truncated>>

PackTypeOK ==
    /\ asked \in Question
    /\ phase \in {"reserve", "fill", "tail", "done"}
    /\ place \in 1..(Len(asked.results) + 1)
    /\ used \in Nat
    /\ committed \in Seq(Items) /\ included \in Seq(Items)
    /\ covered \subseteq Facts
    /\ truncated \in BOOLEAN

-----------------------------------------------------------------------------
PackInit ==
    /\ asked \in Question
    /\ phase = IF asked.reserved = {} THEN "fill" ELSE "reserve"
    /\ place = 1
    /\ used = Header
    /\ committed = <<>> /\ included = <<>>
    /\ covered = {}
    /\ truncated = FALSE

RowLeft == place <= Len(asked.results)

Row == asked.results[place]

Fits(row) == used + asked.cost[row] <= asked.budget

(* The pass over the reserved rows, which stops at the first that does not *)
(* fit.                                                                    *)

PassOver ==
    /\ phase = "reserve" /\ RowLeft
    /\ Row \notin asked.reserved
    /\ place' = place + 1
    /\ UNCHANGED <<asked, phase, used, committed, included, covered, truncated>>

(* Slip: a reserved slot is promised and not paid for. *)
CommitUnpaid ==
    /\ phase = "reserve" /\ RowLeft
    /\ Row \in asked.reserved /\ Fits(Row)
    /\ committed' = Append(committed, Row)
    /\ place' = place + 1
    /\ UNCHANGED <<asked, phase, used, included, covered, truncated>>

Commit ==
    /\ phase = "reserve" /\ RowLeft
    /\ Row \in asked.reserved /\ Fits(Row)
    /\ committed' = Append(committed, Row)
    /\ used' = used + asked.cost[Row]
    /\ place' = place + 1
    /\ UNCHANGED <<asked, phase, included, covered, truncated>>

EndReserve ==
    /\ phase = "reserve"
    /\ RowLeft => Row \in asked.reserved /\ ~Fits(Row)
    /\ phase' = "fill"
    /\ place' = 1
    /\ UNCHANGED <<asked, used, committed, included, covered, truncated>>

(* The walk that fills the rest of the budget. *)

PaidFor == Row \in ToSet(committed)

TakePaid ==
    /\ phase = "fill" /\ RowLeft
    /\ PaidFor
    /\ included' = Append(included, Row)
    /\ place' = place + 1
    /\ UNCHANGED <<asked, phase, used, committed, covered, truncated>>

SkipCovered ==
    /\ phase = "fill" /\ RowLeft
    /\ ~PaidFor
    /\ Row \in Facts \cap covered
    /\ place' = place + 1
    /\ UNCHANGED <<asked, phase, used, committed, included, covered, truncated>>

Wanted == ~PaidFor /\ Row \notin Facts \cap covered

Take ==
    /\ phase = "fill" /\ RowLeft
    /\ Wanted /\ Fits(Row)
    /\ included' = Append(included, Row)
    /\ used' = used + asked.cost[Row]
    /\ covered' = covered \cup asked.covers[Row]
    /\ place' = place + 1
    /\ UNCHANGED <<asked, phase, committed, truncated>>

(* Slip: an insight stands for its sources although it is left out. *)
OmitAndCover ==
    /\ phase = "fill" /\ RowLeft
    /\ Wanted /\ ~Fits(Row)
    /\ Row \in Insights
    /\ truncated' = TRUE
    /\ covered' = covered \cup asked.covers[Row]
    /\ place' = place + 1
    /\ UNCHANGED <<asked, phase, used, committed, included>>

OmitInsight ==
    /\ phase = "fill" /\ RowLeft
    /\ Wanted /\ ~Fits(Row)
    /\ Row \in Insights
    /\ truncated' = TRUE
    /\ place' = place + 1
    /\ UNCHANGED <<asked, phase, used, committed, included, covered>>

Truncate ==
    /\ phase = "fill" /\ RowLeft
    /\ Wanted /\ ~Fits(Row)
    /\ Row \in Facts
    /\ truncated' = TRUE
    /\ phase' = "tail"
    /\ UNCHANGED <<asked, place, used, committed, included, covered>>

EndFill ==
    /\ phase = "fill" /\ ~RowLeft
    /\ phase' = "tail"
    /\ UNCHANGED <<asked, place, used, committed, included, covered, truncated>>

(* Slip: what was paid for and not reached is dropped. *)
DropTail ==
    /\ phase = "tail"
    /\ phase' = "done"
    /\ UNCHANGED <<asked, place, used, committed, included, covered, truncated>>

(* What was paid for past the truncation point is appended, in order. *)
AppendPaid ==
    /\ phase = "tail" /\ committed # <<>>
    /\ included' = IF Head(committed) \in ToSet(included) THEN included
                   ELSE Append(included, Head(committed))
    /\ committed' = Tail(committed)
    /\ UNCHANGED <<asked, phase, place, used, covered, truncated>>

EndTail ==
    /\ phase = "tail" /\ committed = <<>>
    /\ phase' = "done"
    /\ UNCHANGED <<asked, place, used, committed, included, covered, truncated>>

PackNext ==
    \/ PassOver \/ Commit \/ EndReserve
    \/ TakePaid \/ SkipCovered \/ Take \/ OmitInsight \/ Truncate \/ EndFill
    \/ AppendPaid \/ EndTail

PackSpec == PackInit /\ [][PackNext]_packVars

-----------------------------------------------------------------------------
(* What the wanted ones of the rows of s cost, up to each row and in all.  *)
Cost(i, wanted) == IF i \in wanted THEN asked.cost[i] ELSE 0

Costs(s, wanted) ==
    LET sum[n \in 0..Len(s)] == IF n = 0 THEN 0 ELSE sum[n - 1] + Cost(s[n], wanted)
    IN  sum

TotalCost(s, wanted) == Costs(s, wanted)[Len(s)]

(* No answer exceeds the budget, but for the header of an empty one. *)
WithinBudget == used <= asked.budget \/ used = Header

NoneTwice == IsInjective(included)

(* What is injected keeps to the budget: the tokens counted, the reserved  *)
(* ones paid for in advance included, are those of the rows injected, no   *)
(* row is injected twice, and no answer exceeds the budget.                *)
BudgetKept ==
    /\ WithinBudget
    /\ NoneTwice
    /\ phase = "done" => used = Header + TotalCost(included, Items)

(* "Reserved slots are guaranteed": when the budget holds them all, all of *)
(* them are injected, whatever the walk meets before it reaches them.      *)
ReservedGuaranteed ==
    phase = "done" /\ Header + TotalCost(asked.results, asked.reserved) <= asked.budget =>
        ToSet(asked.results) \cap asked.reserved \subseteq ToSet(included)

(* A fact that was found is injected, or an insight that is injected holds *)
(* it, or the walk ended before it at a fact that does not fit: an insight *)
(* that is left out costs no source its place.                             *)
NothingLostToSummary ==
    phase = "done" =>
        /\ \A k \in 1..Len(asked.results) :
              LET row == asked.results[k]
              IN  row \in Facts /\ k < place =>
                      \/ row \in ToSet(included)
                      \/ \E i \in ToSet(included) : row \in asked.covers[i]
        /\ RowLeft => Row \in Facts /\ ~Fits(Row)

=============================================================================
