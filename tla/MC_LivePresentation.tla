------------------------ MODULE MC_LivePresentation ------------------------
(* Two workers, two remotes and one stage. *)
EXTENDS LivePresentation, TLC

CONSTANTS n1, n2, r1, r2, s1
Symmetry == Permutations(Nodes) \cup Permutations(Remotes)
=============================================================================
