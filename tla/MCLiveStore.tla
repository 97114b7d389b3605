----------------------------- MODULE MCLiveStore -----------------------------
(* Small instances of LiveStore for TLC. *)
EXTENDS LiveStore, TLC

(* Processes are interchangeable, and so are facts of the same origin. *)
Symmetry == Permutations(Procs) \cup Permutations(Ids \ Curated) \cup Permutations(Curated)

=============================================================================
