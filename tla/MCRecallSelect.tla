--------------------------- MODULE MCRecallSelect ---------------------------
(* The stores and the questions of RecallSelect that TLC enumerates. *)
EXTENDS RecallSelect, TLC

SomeRow == [status |-> "current", starts |-> {}, ends |-> {}, sure |-> TRUE,
        proof |-> "valid", dead |-> FALSE, ours |-> TRUE, revokes |-> {},
        date |-> 1, curated |-> FALSE, embedded |-> TRUE, judged |-> TRUE,
        whole |-> TRUE, claims |-> {}, verbatim |-> {}, cost |-> 1]

Plain == [item |-> [i \in Items |-> SomeRow],
          lex |-> <<"i", "f", "g">>, dense |-> <<"h", "f", "g">>, near |-> <<"h">>,
          semantic |-> FALSE, graph |-> FALSE, strict |-> FALSE, key |-> TRUE,
          history |-> FALSE, now |-> 1, budget |-> 9]

Asked(tier, flags, item, budget) ==
    [Plain EXCEPT !.semantic = tier = "semantic", !.graph = tier = "graph",
                  !.key = "key" \in flags, !.strict = "strict" \in flags,
                  !.history = "history" \in flags,
                  !.item = item, !.budget = budget]

(* The vector and the graph find h, the words do or do not; the insight    *)
(* and g may revoke it, and be out of the search themselves: g because it  *)
(* was revoked, the insight because nobody judged it.                      *)
Revokers == {SomeRow, [SomeRow EXCEPT !.revokes = {"h"}],
             [SomeRow EXCEPT !.revokes = {"h"}, !.dead = TRUE, !.judged = FALSE]}

Gates ==
    {[Asked(tier, flags, [x \in Items |-> IF x = "h" THEN row
                                          ELSE IF x \in {"g", "i"} THEN revoker
                                          ELSE SomeRow], 9)
        EXCEPT !.lex = lex] :
        tier \in {"flat", "semantic", "graph"},
        flags \in SUBSET {"key", "strict", "history"},
        lex \in {<<"i", "f", "g">>, <<"i", "h", "f", "g">>},
        revoker \in Revokers,
        row \in {[SomeRow EXCEPT !.status = s, !.starts = b, !.ends = e, !.proof = p,
                                 !.sure = bad # "sure", !.dead = bad = "dead",
                                 !.ours = bad # "ours", !.embedded = bad # "stale"] :
                    s \in {"current", "superseded"}, b \in {{}, {1, 2}}, e \in {{}, {1}, {2}},
                    p \in {"valid", "unsigned", "tampered"},
                    bad \in {"none", "sure", "dead", "ours", "stale"}}}

(* Costs, quotas and coverage. *)
Sizes ==
    {[Asked(tier, {"key"},
            [i \in Items |->
                [SomeRow EXCEPT !.cost = cost[i], !.curated = i \in curated,
                            !.date = IF i \in {"f", "h"} THEN 1 ELSE date,
                            !.claims = IF i = "i" THEN claims ELSE {},
                            !.verbatim = IF i = "i" THEN {"f", "h"} ELSE {}]], budget)
        EXCEPT !.dense = dense] :
        tier \in {"flat", "semantic", "graph"},
        cost \in [Items -> 1..2], budget \in 3..6, date \in 1..2,
        curated \in {{}, {"f", "g", "h"}}, claims \in {{}, {"f", "g"}, {"f", "h"}},
        dense \in {<<"h", "f", "g">>, <<"g", "h">>}}

Families == {Gates, Sizes}

=============================================================================
