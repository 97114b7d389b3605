--------------------------- MODULE MCCustomerStore ---------------------------
(* Small instances of CustomerStore for TLC. *)
EXTENDS CustomerStore, TLC

(* Processes are interchangeable, and so are facts. *)
Symmetry == Permutations(Procs) \cup Permutations(Ids)

=============================================================================
