-------------------------- MODULE MCPromotionBatch --------------------------
(* Small instances of PromotionBatch for TLC. *)
EXTENDS PromotionBatch, TLC

Symmetry == Permutations(Procs)

=============================================================================
