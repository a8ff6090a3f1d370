-------------------------- MODULE MC_Registration --------------------------
(***************************************************************************)
(* Instances of Registration.  Two options with a place or two, which may   *)
(* be chosen together in both orders.                                       *)
(***************************************************************************)
EXTENDS Registration, TLC

CONSTANTS ada, bob, cem, talk, lunch, s1, s2

OneLunch == [o \in Options |-> IF o = lunch THEN 1 ELSE 2]

TwoOrders == {<<talk>>, <<talk, lunch>>, <<lunch, talk>>}

Symmetric == Permutations(People) \cup Permutations(Sessions)
=============================================================================
