--------------------------- MODULE MC_TicketGate ---------------------------
(* Two requests at a time, two tickets, one nonce of one kiosk. *)
EXTENDS TicketGate, TLC

CONSTANTS d1, d2, t1, t2, n1, k1
MCKioskOf == [n \in Nonces |-> k1]
Symmetry == Permutations(Desks)
=============================================================================
