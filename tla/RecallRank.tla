----------------------------- MODULE RecallRank -----------------------------
(***************************************************************************)
(* budget-recall's candidates: which facts and insights select_recall may  *)
(* inject for one question, and in which order.  The gates (attestation,   *)
(* agent scope, revocations, status, validity window, confidence), the     *)
(* fusion with the dense candidates, the graph expansion, the curated and  *)
(* the per-date caps are those of the code; the scores behind an order are *)
(* data, so a question comes with its three orders: by BM25 (lex), by      *)
(* cosine (dense) and by graph score (near).                               *)
(***************************************************************************)
EXTENDS RecallPack, FiniteSets

CONSTANTS
    MaxPerDate,     \* NOCKBRAIN_MAX_PER_DATE
    MaxCurated,     \* --max-curated (0: none)
    LeadCap,        \* NOCKBRAIN_INSIGHT_LEAD
    DenseTop,       \* NOCKBRAIN_DENSE_TOP
    ReservedSlots,  \* NOCKBRAIN_RESERVED_SLOTS
    MaxNeighbors,   \* NOCKBRAIN_GRAPH_MAX_NEIGHBORS
    RrfK            \* NOCKBRAIN_RRF_K

ASSUME RankAssumption ==
    /\ IsFiniteSet(Facts)
    /\ {MaxPerDate, MaxCurated, LeadCap, DenseTop, ReservedSlots,
        MaxNeighbors, RrfK} \subseteq Nat

(* A row, by what selection looks at.  "revokes" names the rows whose      *)
(* revision it revokes, "dead" that a trusted revocation event names it,   *)
(* "claims" and "verbatim" the sources an insight's lineage lists as       *)
(* covered and those whose unchanged text it holds in full.                *)
Item == [status : {"current", "superseded"},
         starts : SUBSET Nat, ends : SUBSET Nat,    \* valid_at, valid_from; invalid_at, valid_to
         sure : BOOLEAN,                            \* confidence >= MIN_CONFIDENCE
         proof : {"valid", "unsigned", "suspect", "tampered"},
         dead : BOOLEAN, ours : BOOLEAN, revokes : SUBSET Items,
         date : Nat, curated : BOOLEAN, embedded : BOOLEAN,
         judged : BOOLEAN,                          \* synthesized_by is not "heuristic"
         whole : BOOLEAN,                           \* rendered without an excerpt
         claims : SUBSET Facts, verbatim : SUBSET Facts, cost : Nat]

(* A store and a question: its rows, their three orders, the moment (now)  *)
(* and the settings.  An order names a row once.                           *)
Input ==
    {in \in [item : [Items -> Item],
             lex : Seq(Items), dense : Seq(Items), near : Seq(Items),
             semantic : BOOLEAN, graph : BOOLEAN, strict : BOOLEAN, key : BOOLEAN,
             history : BOOLEAN, now : Nat, budget : Nat] :
        IsInjective(in.lex) /\ IsInjective(in.dense) /\ IsInjective(in.near)}

-----------------------------------------------------------------------------
(* Helpers on sequences. *)

AtMost(s, n) == SubSeq(s, 1, IF Len(s) < n THEN Len(s) ELSE n)

(* The elements of s at the positions of P, in order. *)
Positions(s, P) ==
    [n \in 1..Cardinality(P) |->
        s[CHOOSE k \in P : Cardinality({l \in P : l < k}) = n - 1]]

(* Those of s that are in S, in order. *)
Those(s, S) == Positions(s, {k \in DOMAIN s : s[k] \in S})

Rank(s, i) == CHOOSE k \in DOMAIN s : s[k] = i

-----------------------------------------------------------------------------
(* The gates. *)

(* Slip: a store without its key injects what it cannot check, and so does *)
(* one with it.                                                            *)
VerifiedLoosely(in, i) == in.strict => in.item[i].proof = "valid"

Verified(in, i) ==
    in.key => /\ in.item[i].proof # "tampered"
              /\ in.strict => in.item[i].proof = "valid"

Loaded(in, S) == {i \in S : Verified(in, i) /\ in.item[i].ours}

Resurrected(in, i) ==
    in.key /\ in.item[i].dead /\ in.item[i].status # "superseded"

(* "A current peer lists it in revokes_revision_ids" (N10022). *)
RevokedRevision(in, S, i) ==
    \E j \in S : in.item[j].status # "superseded" /\ i \in in.item[j].revokes

CurrentlyValid(in, i) ==
    /\ \A t \in in.item[i].starts : t <= in.now
    /\ \A t \in in.item[i].ends : in.now < t

Current(in, i) ==
    in.history \/ (in.item[i].status # "superseded" /\ CurrentlyValid(in, i))

Search(in, S) ==
    Those(in.lex, {i \in S : /\ ~RevokedRevision(in, S, i)
                             /\ Current(in, i)
                             /\ in.item[i].sure})

-----------------------------------------------------------------------------
(* The semantic tier and the graph. *)

Dense(in, S) ==
    AtMost(Those(in.dense, {i \in S : /\ in.item[i].embedded
                                      /\ Current(in, i)
                                      /\ in.item[i].sure}), DenseTop)

(* Reciprocal rank fusion, in whole numbers: the multiple of every k + rank *)
(* stands for 1.  Of equal scores the first seen comes first.              *)
Multiple ==
    LET product[k \in 0..Cardinality(Facts)] == IF k = 0 THEN 1 ELSE product[k - 1] * (RrfK + k)
    IN  product[Cardinality(Facts)]

Fused(seeds, dense) ==
    LET all == seeds \o Those(dense, ToSet(dense) \ ToSet(seeds))
        Term(s, i) == IF i \in ToSet(s) THEN Multiple \div (RrfK + Rank(s, i)) ELSE 0
        score == [k \in DOMAIN all |-> Term(seeds, all[k]) + Term(dense, all[k])]
        before(k) == {l \in DOMAIN all : score[l] > score[k] \/ (score[l] = score[k] /\ l < k)}
    IN  [n \in DOMAIN all |->
            all[CHOOSE k \in DOMAIN all : Cardinality(before(k)) = n - 1]]

(* Slip: the best dense candidates are reserved, found by search or not,   *)
(* before the gates.                                                       *)
FuseUngated(in, S, seeds) ==
    LET dense == Those(in.dense, {i \in S : in.item[i].embedded})
    IN  IF ~in.semantic \/ dense = <<>>
        THEN [found |-> seeds, reserved |-> {}]
        ELSE [found |-> Fused(seeds, AtMost(dense, DenseTop)),
              reserved |-> ToSet(AtMost(dense, ReservedSlots)) \ ToSet(seeds)]

Fuse(in, S, seeds) ==
    LET dense == Dense(in, S)
    IN  IF ~in.semantic \/ dense = <<>>
        THEN [found |-> seeds, reserved |-> {}]
        ELSE [found |-> Fused(seeds, dense),
              reserved |-> ToSet(AtMost(dense, ReservedSlots)) \ ToSet(seeds)]

Expand(in, S, seeds) ==
    IF ~in.graph \/ seeds = <<>> THEN seeds
    ELSE seeds \o AtMost(Those(in.near, {i \in S \ ToSet(seeds) : /\ Current(in, i)
                                                                  /\ in.item[i].sure}),
                         MaxNeighbors)

-----------------------------------------------------------------------------
(* The caps. *)

CapCurated(in, s) ==
    Positions(s, {k \in DOMAIN s :
        in.item[s[k]].curated =>
            Cardinality({j \in 1..k : in.item[s[j]].curated}) <= MaxCurated})

(* The rows of a date beyond its quota come last; the exempt ones neither  *)
(* count nor wait.                                                         *)
DateCapped(in, s, exempt) ==
    LET kept == {k \in DOMAIN s :
                    \/ s[k] \in exempt
                    \/ Cardinality({j \in 1..(k - 1) :
                           /\ s[j] \notin exempt
                           /\ in.item[s[j]].date = in.item[s[k]].date}) < MaxPerDate}
    IN  IF MaxPerDate = 0 \/ Len(s) <= MaxPerDate THEN s
        ELSE Positions(s, kept) \o Positions(s, DOMAIN s \ kept)

-----------------------------------------------------------------------------
(* select_recall, up to the packing of what it found. *)

(* The rows of either tier that are searched, one against the others.      *)
FactPeers(in) == {i \in Loaded(in, Facts) : ~Resurrected(in, i)}

InsightPeers(in) == {i \in Loaded(in, Insights) : in.item[i].judged}

FactResults(in) ==
    LET S == FactPeers(in)
        fused == Fuse(in, S, Search(in, S))
        found == CapCurated(in, Expand(in, S, fused.found))
    IN  [found |-> found, reserved |-> fused.reserved \cap ToSet(found)]

InsightResults(in) ==
    LET found == Search(in, InsightPeers(in))
    IN  IF in.semantic /\ LeadCap > 0 THEN AtMost(found, LeadCap) ELSE found

(* _covered_sources: only a verified insight, rendered whole, stands for   *)
(* sources whose text it holds.                                            *)
Covers(in, found, i) ==
    IF i \in Insights /\ in.key /\ in.item[i].whole /\ in.item[i].proof = "valid"
    THEN in.item[i].claims \cap in.item[i].verbatim \cap ToSet(found)
    ELSE {}

Refused(in) == in.strict /\ ~in.key

(* What is packed for this question. *)
Ask(in) ==
    LET facts == FactResults(in)
        results == DateCapped(in, InsightResults(in), {})
                   \o DateCapped(in, facts.found, facts.reserved)
    IN  [results |-> IF Refused(in) THEN <<>> ELSE results,
         reserved |-> facts.reserved,
         cost |-> [i \in Items |-> in.item[i].cost],
         covers |-> [i \in Items |-> Covers(in, facts.found, i)],
         budget |-> in.budget]

=============================================================================
