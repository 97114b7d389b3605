--------------------------- MODULE MCCustomerRecall ---------------------------
(* Small instances of CustomerRecall for TLC. *)
EXTENDS CustomerRecall, TLC

(* Processes are interchangeable, and so are facts. *)
Symmetry == Permutations(Procs) \cup Permutations(Ids)

=============================================================================
