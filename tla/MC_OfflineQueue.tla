-------------------------- MODULE MC_OfflineQueue --------------------------
(* Two pages of one browser, two entries typed and one scanned. *)
EXTENDS OfflineQueue, TLC

CONSTANTS p1, p2, e1, e2, e3
Symmetry == Permutations(Pages) \cup Permutations(Typed)
=============================================================================
