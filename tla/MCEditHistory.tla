---------------------------- MODULE MCEditHistory ----------------------------
(* Small instances of EditHistory for TLC. *)
EXTENDS EditHistory, TLC

(* Editors, facts and what facts say, except at first, are interchangeable. *)
Symmetry == Permutations(Editors) \cup Permutations(Ids)
               \cup Permutations(Cores \ {Start})

=============================================================================
