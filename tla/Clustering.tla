----------------------------- MODULE Clustering -----------------------------
(* The greedy clustering of cluster_kind (synthesize) and                  *)
(* cluster_near_duplicates (consolidate-facts): each fact joins the first  *)
(* cluster that has a member whose tokens overlap its own enough, or begins *)
(* its own.  "alike" stands for the similarity threshold.                  *)
EXTENDS Integers, Sequences, SequencesExt

Joined(clusters, f) ==
    LET fit == {n \in DOMAIN clusters :
                   \E k \in DOMAIN clusters[n] : clusters[n][k].id \in f.alike}
    IN  IF fit = {} THEN Append(clusters, <<f>>)
        ELSE LET first == CHOOSE n \in fit : \A m \in fit : n <= m
             IN  [clusters EXCEPT ![first] = Append(@, f)]

Clusters(facts) ==
    LET after[n \in 0..Len(facts)] ==
            IF n = 0 THEN <<>> ELSE Joined(after[n - 1], facts[n])
    IN  after

Clustered(facts) == Clusters(facts)[Len(facts)]

=============================================================================
