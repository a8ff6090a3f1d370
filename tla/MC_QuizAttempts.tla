-------------------------- MODULE MC_QuizAttempts --------------------------
(* One member, who may have the exam open on the pages Tabs. *)
EXTENDS QuizAttempts

CONSTANTS m1, t1
MCOwner == [t \in Tabs |-> m1]
MCScores == {0, 1, 2}
=============================================================================
