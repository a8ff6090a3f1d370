------------------------ MODULE MC_BulkCertificateJob ------------------------
(***************************************************************************)
(* Instances of BulkCertificateJob.  The lists overlap, one repeats a name, *)
(* and the longest takes two chunks.  One attendee is there at the start,   *)
(* another may register, under the same name or not.                        *)
(***************************************************************************)
EXTENDS BulkCertificateJob, TLC

CONSTANTS ada, bob, cem, a1, a2, scheduler, web

Lists == {<<ada, ada, bob>>, <<bob, cem>>}

\* For the run with names: one list, enqueued twice.
Repeated == {<<ada, ada, bob>>}

\* Only fairness tells the processes apart.
Processes == Permutations(Drivers)

AdaAlone == [a \in Attendees |-> IF a = a1 THEN ada ELSE NoName]
=============================================================================
