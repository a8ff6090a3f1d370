----------------------------- MODULE MC_Billing -----------------------------
(* Two sessions; a month of 31 days and the 30 days between two renewals are 2 and 1. *)
EXTENDS Billing

CONSTANTS s1, s2

Quotas == [p \in Plans |-> 2]
=============================================================================
