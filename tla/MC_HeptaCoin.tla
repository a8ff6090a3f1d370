---------------------------- MODULE MC_HeptaCoin ----------------------------
(***************************************************************************)
(* Instances of HeptaCoin.  o1 owns the events e1 and e2, o2 owns e3.       *)
(***************************************************************************)
EXTENDS HeptaCoin

CONSTANTS o1, o2, e1, e2, e3, a1, a2, s1, s2, s3

TwoOwners == [e \in Events |-> IF e = e3 THEN o2 ELSE o1]

NoTeams == [e \in Events |-> {}]

\* o2 also works on o1's event e1.
OneTeam == [e \in Events |-> IF e = e1 THEN {o2} ELSE {}]
=============================================================================
