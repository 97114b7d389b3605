---------------------------- MODULE MCVerifyCache ----------------------------
(* Small instances of VerifyCache for TLC. *)
EXTENDS VerifyCache, TLC

(* Recalls, facts, keys and the things a fact can say are interchangeable. *)
Symmetry == Permutations(Recalls) \cup Permutations(Ids)
               \cup Permutations(Keys) \cup Permutations(Cores)

=============================================================================
