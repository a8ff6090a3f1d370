------------------------- MODULE BulkCertificateJob -------------------------
(***************************************************************************)
(* The queue of bulk certificate jobs of one organiser's event              *)
(* (backend/src/main.py, _process_bulk_certificate_jobs and                 *)
(* _process_one_bulk_certificate_job; backend/src/bulk_generate_api.py).    *)
(*                                                                          *)
(* Every three seconds in the process of the scheduler, and after every      *)
(* enqueue in the web worker that served it, a driver works on one chunk of *)
(* the oldest unfinished job, in one transaction that holds the rows of the *)
(* job and of the billed user.  An asyncio lock keeps each process to one   *)
(* chunk at a time; what keeps the processes apart are the row locks.  A    *)
(* restart of a process loses its chunk; the job row still says where to go *)
(* on.                                                                      *)
(*                                                                          *)
(* Meanwhile requests certify attendees one by one, delete certificates and *)
(* cancel jobs, and attendees register, or change their names.  That the    *)
(* handlers that hold the user's row exclude one another is HeptaCoin's     *)
(* matter: here each of them is one step, taken when the chunk does not     *)
(* hold the row.                                                            *)
(*                                                                          *)
(* A certificate shows a name and may be linked to an attendee.  Two        *)
(* attendees may have the same name.  Jobs and bulk certification look for  *)
(* an earlier certificate by the link, and by the name only among those     *)
(* without a link; single certificates and those of quizzes are issued      *)
(* without looking.                                                         *)
(*                                                                          *)
(* Left out: deleting an attendee, which takes the link off his             *)
(* certificates.                                                            *)
(***************************************************************************)
EXTENDS Integers, Sequences, FiniteSetsExt, Functions

CONSTANTS
  Drivers,         \* the processes that work on the queue
  Scheduler,       \* the one of them that does so every three seconds
  MaxJobs,         \* bound: rows of bulk_certificate_jobs
  Names,           \* the names of attendees
  TooLong,         \* the names certificates.student_name cannot hold
  Attendees,       \* the attendees the event has or may get
  Registered,      \* their names at the start, NoName for those who are not there yet
  NoName, Nobody,  \* no name; the attendee of a certificate without a link
  NameLists,       \* the lists of names a request can enqueue on this instance
  ChunkSize,       \* the job's chunk_size
  Unlimited,       \* _user_has_unlimited_hc of the organiser
  Opening,         \* the organiser's balance at the start
  IssueUnits,      \* ISSUE_UNITS_PER_CERT
  HostingEstimate, \* HOSTING_ESTIMATE_UNITS
  HostingUnits,    \* the values hosting_units takes on this instance's files
  MaxCertificates, \* bound: rows of certificates that requests add up to
  MaxNamings,      \* bound: pairs of an attendee and a name he has or had
  MaxDeletes,      \* bound: certificates deleted
  MaxCrashes       \* bound: restarts of the process in the middle of a chunk

ASSUME BulkCertificateJobAssumption ==
  /\ Scheduler \in Drivers
  /\ MaxJobs \in Nat
  /\ TooLong \subseteq Names
  /\ NoName \notin Names /\ Nobody \notin Attendees
  /\ Registered \in [Attendees -> Names \cup {NoName}]
  /\ NameLists \subseteq Seq(Names) \ {<<>>}
  /\ ChunkSize \in Nat \ {0}
  /\ Unlimited \in BOOLEAN
  /\ Opening \in Nat /\ IssueUnits \in Nat /\ HostingEstimate \in Nat
  /\ HostingUnits \subseteq Nat
  /\ MaxCertificates \in Nat /\ MaxNamings \in Nat
  /\ MaxDeletes \in Nat /\ MaxCrashes \in Nat

VARIABLES
  balance,   \* users.heptacoin_balance of the organiser
  name,      \* name[a]: attendees.name
  had,       \* history: had[a], the names attendee a has had
  certs,     \* the committed certificates of the event
  job,       \* job[j]: the committed row of job j
  run,       \* run[d]: the chunk driver d works on
  cancels,   \* cancel requests that found their job unfinished and did not write yet
  crashes    \* restarts so far

people == <<name, had>>
vars == <<balance, people, certs, job, run, cancels, crashes>>

\* The ids are given out in the order of created_at.
Jobs  == 1 .. MaxJobs
NoJob == 0

Active   == {"pending", "processing"}
Finished == {"completed", "failed", "cancelled"}

\* no tells apart the certificates of one name; checked: whoever issued it looked
\* for an earlier one.
Certificate ==
  [no : Nat, name : Names, attendee : Attendees \cup {Nobody}, checked : BOOLEAN,
   by : Jobs \cup {NoJob}, cost : Nat, deleted : BOOLEAN]

\* mine: created_by is the organiser who owns the event, not a team member.
Row ==
  [status : Active \cup Finished, mine : BOOLEAN, names : NameLists, index : Nat,
   created : Nat, exists : Nat, failed : Nat, spent : Nat]

Absent == [status |-> "absent"]

\* The session of a chunk: the job it picked, then the row as it has changed it,
\* the attendees it found for the names, the balance it has left, the certificates
\* it has added and the index it stops at.
Idle    == [pc |-> "idle"]
Picked  == [pc : {"picked"}, job : Jobs]
Holding == [pc : {"holding"}, job : Jobs, row : Row,
            link : [Names -> Attendees \cup {Nobody}], bal : Int,
            cart : SUBSET Certificate, end : Nat]

TypeOK ==
  /\ balance \in Int
  /\ name \in [Attendees -> Names \cup {NoName}]
  /\ had \in [Attendees -> SUBSET Names]
  /\ certs \in SUBSET Certificate
  /\ job \in [Jobs -> Row \cup {Absent}]
  /\ run \in [Drivers -> {Idle} \cup Picked \cup Holding]
  /\ cancels \in SUBSET Jobs
  /\ crashes \in 0 .. MaxCrashes

Init ==
  /\ balance = Opening
  /\ name = Registered
  /\ had = [a \in Attendees |-> {Registered[a]} \ {NoName}]
  /\ certs = {}
  /\ job = [j \in Jobs |-> Absent]
  /\ run = [d \in Drivers |-> Idle]
  /\ cancels = {}
  /\ crashes = 0

\* The row locks: a chunk holds the row of its job and that of the organiser.
HoldsJob(d, j) == run[d].pc = "holding" /\ run[d].job = j
UserFree       == \A d \in Drivers : run[d].pc # "holding"

Goto(d, chunk) == run' = [run EXCEPT ![d] = chunk]

-----------------------------------------------------------------------------
(* Requests.                                                                *)

Enqueue(j, names, mine) ==
  /\ job[j] = Absent /\ \A k \in 1 .. j - 1 : job[k] # Absent
  /\ job' = [job EXCEPT ![j] =
       [status |-> "pending", mine |-> mine, names |-> names, index |-> 0,
        created |-> 0, exists |-> 0, failed |-> 0, spent |-> 0]]
  /\ UNCHANGED <<balance, people, certs, run, cancels, crashes>>

Estimate(names) == Len(names) * (IssueUnits + HostingEstimate)

\* bulk_generate: the names of a spreadsheet, without repetitions.  The job is
\* billed to whoever sends the request, Enterprise or not; a team member's own
\* balance is not part of the model.
BulkGenerate(j) ==
  \E names \in NameLists, mine \in BOOLEAN :
    /\ IsInjective(names)
    /\ mine => balance >= Estimate(names)
    /\ Enqueue(j, names, mine)

\* bulk_certify_attendees_queue: the names of the eligible attendees, two of
\* which may have the same name; billed to the owner.
BulkCertifyQueue(j) ==
  \E names \in NameLists :
    /\ Unlimited \/ balance >= Estimate(names)
    /\ Enqueue(j, names, TRUE)

\* cancel_bulk_generate_job: reads the job without a lock ...
CancelCheck(j) ==
  /\ job[j].status \in Active /\ j \notin cancels
  /\ cancels' = cancels \cup {j}
  /\ UNCHANGED <<balance, people, certs, job, run, crashes>>

\* ... and writes the status when the row's lock is free.
CancelWrite(j) ==
  /\ j \in cancels
  /\ \A d \in Drivers : ~HoldsJob(d, j)
  /\ job' = [job EXCEPT ![j].status = "cancelled"]
  /\ cancels' = cancels \ {j}
  /\ UNCHANGED <<balance, people, certs, run, crashes>>

\* An attendee registers, or his name is changed: update_attendee, the import of
\* a list, or registering again with the same address.
NameAttendee(a) ==
  /\ \E n \in Names \ {name[a]} :
       /\ \/ n \in had[a]
          \/ Cardinality({m \in Attendees \X Names : m[2] \in had[m[1]]}) < MaxNamings
       /\ name' = [name EXCEPT ![a] = n]
       /\ had' = [had EXCEPT ![a] = @ \cup {n}]
  /\ UNCHANGED <<balance, certs, job, run, cancels, crashes>>

\* The attendee of a name that no other attendee of the event has.
Match(n) ==
  LET holders == {a \in Attendees : name[a] = n}
  IN  IF \E a \in holders : holders = {a} THEN CHOOSE a \in holders : TRUE ELSE Nobody

\* Mutant: the query does not see what the session has added.
HasCommittedCertificate(n, a, cs) ==
  \E c \in certs : ~c.deleted /\ (IF c.attendee = Nobody THEN c.name = n ELSE c.attendee = a)

\* A certificate of attendee a, whose name is n, by the link or else by the name.
HasCertificate(n, a, cs) ==
  \E c \in cs : ~c.deleted /\ (IF c.attendee = Nobody THEN c.name = n ELSE c.attendee = a)

Price(h) == IF Unlimited THEN 0 ELSE IssueUnits + h

\* A request adds a certificate, under the lock of the user's row.
Issue(n, a, checked, cost) ==
  /\ UserFree
  /\ n \notin TooLong
  /\ Cardinality(certs) < MaxCertificates
  /\ certs' = certs \cup
       {[no |-> Cardinality(certs), name |-> n, attendee |-> a, checked |-> checked,
         by |-> NoJob, cost |-> cost, deleted |-> FALSE]}
  /\ balance' = balance - cost
  /\ UNCHANGED <<people, job, run, cancels, crashes>>

\* Mutant: bulk certification goes by the name alone.
CertifyByName ==
  \E a \in Attendees, h \in HostingUnits : \E n \in had[a] :
    /\ ~ \E c \in certs : ~c.deleted /\ c.name = n
    /\ Unlimited \/ balance >= IssueUnits
    /\ Issue(n, a, TRUE, Price(h))

\* bulk_certify_attendees for one attendee, read before the lock was free: the
\* name may be one he had then.
CertifyElsewhere ==
  \E a \in Attendees, h \in HostingUnits : \E n \in had[a] :
    /\ ~HasCertificate(n, a, certs)
    /\ Unlimited \/ balance >= IssueUnits
    /\ Issue(n, a, TRUE, Price(h))

\* issue_certificate: any name, without a link.
IssueByHand ==
  \E n \in Names, h \in HostingUnits :
    /\ Unlimited \/ balance >= Price(h)
    /\ Issue(n, Nobody, FALSE, Price(h))

\* _issue_cert_background of a quiz: linked, and charged to Enterprise as well.
IssueForQuiz ==
  \E n \in Names, h \in HostingUnits :
    /\ balance >= IssueUnits + h
    /\ Issue(n, Match(n), FALSE, IssueUnits + h)

DeleteCertificate ==
  /\ Cardinality({c \in certs : c.deleted}) < MaxDeletes
  /\ \E c \in certs :
       /\ ~c.deleted
       /\ certs' = (certs \ {c}) \cup {[c EXCEPT !.deleted = TRUE]}
  /\ UNCHANGED <<balance, people, job, run, cancels, crashes>>

-----------------------------------------------------------------------------
(* The drivers.                                                             *)

\* The oldest job that is not finished, by a query of its own.
Pick(d) ==
  /\ run[d] = Idle
  /\ \E j \in Jobs :
       /\ job[j].status \in Active
       /\ \A k \in 1 .. j - 1 : job[k].status \in Finished
       /\ Goto(d, [pc |-> "picked", job |-> j])
  /\ UNCHANGED <<balance, people, certs, job, cancels, crashes>>

\* The chunk's first statement locks the row of the job and reads it.
LockJob(d) == run[d].pc = "picked" /\ \A e \in Drivers : ~HoldsJob(e, run[d].job)

\* The job was finished since it was picked: cancelled, or by another process.
FindFinished(d) ==
  /\ LockJob(d) /\ job[run[d].job].status \in Finished
  /\ Goto(d, Idle)
  /\ UNCHANGED <<balance, people, certs, job, cancels, crashes>>

\* The event is looked up by its owner, so the job of a team member finds none;
\* or the event's configuration, its template or the owner is missing.  (A job
\* whose index is at the end is finished: CloseChunk has seen to it.)
FailAtHead(d) ==
  /\ LockJob(d) /\ job[run[d].job].status \in Active
  /\ job' = [job EXCEPT ![run[d].job].status = "failed"]
  /\ Goto(d, Idle)
  /\ UNCHANGED <<balance, people, certs, cancels, crashes>>

Chunk(j, row) ==
  [pc |-> "holding", job |-> j, bal |-> balance, cart |-> {},
   row |-> [row EXCEPT !.status = "processing"], link |-> [n \in Names |-> Match(n)],
   end |-> Min({Len(row.names), row.index + ChunkSize})]

\* Mutant: the status of the job is not read again under the lock.
OpenChunkUnchecked(d) ==
  /\ LockJob(d) /\ job[run[d].job].mine
  /\ UserFree
  /\ Goto(d, Chunk(run[d].job, job[run[d].job]))
  /\ UNCHANGED <<balance, people, certs, job, cancels, crashes>>

\* Mutant: the asyncio lock is taken for enough, the rows are not locked.
OpenChunkUnlocked(d) ==
  /\ run[d].pc = "picked" /\ job[run[d].job].status \in Active
  /\ job[run[d].job].mine
  /\ Goto(d, Chunk(run[d].job, job[run[d].job]))
  /\ UNCHANGED <<balance, people, certs, job, cancels, crashes>>

\* Locks the job's row, then the user's.
OpenChunk(d) ==
  /\ LockJob(d) /\ job[run[d].job].status \in Active
  /\ job[run[d].job].mine
  /\ UserFree
  /\ Goto(d, Chunk(run[d].job, job[run[d].job]))
  /\ UNCHANGED <<balance, people, certs, job, cancels, crashes>>

\* COMMIT of the row, the debits and the certificates of the chunk.
Commit(d, status) ==
  /\ job' = [job EXCEPT ![run[d].job] = [run[d].row EXCEPT !.status = status]]
  /\ balance' = run[d].bal
  /\ certs' = certs \cup run[d].cart
  /\ Goto(d, Idle)
  /\ UNCHANGED <<people, cancels, crashes>>

InLoop(d) == run[d].pc = "holding" /\ run[d].row.index < run[d].end
NextName(d) == run[d].row.names[run[d].row.index + 1]

NextHasOne(d) ==
  HasCertificate(NextName(d), run[d].link[NextName(d)], certs \cup run[d].cart)

\* The index always moves on by one, whatever became of the name.
Advance(d, changed) ==
  /\ Goto(d, [changed EXCEPT !.row.index = @ + 1])
  /\ UNCHANGED <<balance, people, certs, job, cancels, crashes>>

SkipName(d) ==
  /\ InLoop(d)
  /\ Unlimited \/ run[d].bal >= IssueUnits
  /\ NextHasOne(d)
  /\ Advance(d, [run[d] EXCEPT !.row.exists = @ + 1])

MayIssue(d) ==
  /\ InLoop(d)
  /\ Unlimited \/ run[d].bal >= IssueUnits
  /\ ~NextHasOne(d)

\* Mutant: a name that fails is charged.
RenderFailsCharged(d) ==
  MayIssue(d) /\ Advance(d, [run[d] EXCEPT !.row.failed = @ + 1, !.bal = @ - IssueUnits])

\* Rendering or writing the PDF raises; nothing has reached the database.
RenderFails(d) ==
  /\ MayIssue(d)
  /\ Advance(d, [run[d] EXCEPT !.row.failed = @ + 1])

\* Mutant: the check before the debit is left out.
IssueNameUnchecked(d) ==
  /\ MayIssue(d) /\ NextName(d) \notin TooLong
  /\ \E h \in HostingUnits :
       LET cost == Price(h) IN
       Advance(d, [run[d] EXCEPT
            !.row.created = @ + 1, !.row.spent = @ + cost, !.bal = @ - cost,
            !.cart = @ \cup {[no |-> Cardinality(certs) + Cardinality(@), name |-> NextName(d),
                              attendee |-> run[d].link[NextName(d)], checked |-> TRUE,
                              by |-> run[d].job, cost |-> cost, deleted |-> FALSE]}])

\* The certificate is added and debited.  What follows in the same try block
\* (the CRM snapshot, the session that looks for the mail template) may still
\* raise: then the name counts as created and as failed.
IssueName(d) ==
  /\ MayIssue(d) /\ NextName(d) \notin TooLong
  /\ \E h \in HostingUnits, raised \in {0, 1} :
       LET cost == Price(h) IN
       /\ Unlimited \/ run[d].bal >= cost
       /\ Advance(d, [run[d] EXCEPT
            !.row.created = @ + 1, !.row.spent = @ + cost, !.row.failed = @ + raised,
            !.bal = @ - cost,
            !.cart = @ \cup {[no |-> Cardinality(certs) + Cardinality(@), name |-> NextName(d),
                              attendee |-> run[d].link[NextName(d)], checked |-> TRUE,
                              by |-> run[d].job, cost |-> cost, deleted |-> FALSE]}])

\* Mutant: a job that runs out of units counts as completed.
RunOutCompletes(d) ==
  /\ InLoop(d) /\ ~Unlimited
  /\ \/ run[d].bal < IssueUnits
     \/ MayIssue(d) /\ \E h \in HostingUnits : run[d].bal < IssueUnits + h
  /\ Commit(d, "completed")

\* The balance does not cover the next certificate: the job fails, and what the
\* chunk has issued so far is committed.
RunOut(d) ==
  /\ InLoop(d) /\ ~Unlimited
  /\ \/ run[d].bal < IssueUnits
     \/ MayIssue(d) /\ \E h \in HostingUnits : run[d].bal < IssueUnits + h
  /\ Commit(d, "failed")

\* The INSERT fails: the except clause counts a failure, but the session's
\* transaction is gone, and its next statement raises out of the chunk.
InsertFails(d) ==
  /\ MayIssue(d) /\ NextName(d) \in TooLong
  /\ Goto(d, Idle)
  /\ UNCHANGED <<balance, people, certs, job, cancels, crashes>>

\* Mutant: the last chunk is not told from the others.
CloseChunkOnly(d) ==
  /\ run[d].pc = "holding" /\ run[d].row.index = run[d].end
  /\ Commit(d, "processing")

CloseChunk(d) ==
  /\ run[d].pc = "holding" /\ run[d].row.index = run[d].end
  /\ Commit(d, IF run[d].row.index = Len(run[d].row.names) THEN "completed" ELSE "processing")

\* The process is restarted, or any other statement of the chunk raises.
Crash(d) ==
  /\ run[d] # Idle /\ crashes < MaxCrashes
  /\ crashes' = crashes + 1
  /\ Goto(d, Idle)
  /\ cancels' \in {cancels, {}}
  /\ UNCHANGED <<balance, people, certs, job>>

Begun(d) ==
  \/ FindFinished(d) \/ FailAtHead(d) \/ OpenChunk(d)
  \/ SkipName(d) \/ RenderFails(d) \/ IssueName(d) \/ RunOut(d) \/ InsertFails(d)
  \/ CloseChunk(d)

Work(d) == Pick(d) \/ Begun(d)

Requests ==
  \/ \E j \in Jobs : BulkGenerate(j) \/ BulkCertifyQueue(j) \/ CancelCheck(j) \/ CancelWrite(j)
  \/ \E a \in Attendees : NameAttendee(a)
  \/ CertifyElsewhere \/ IssueByHand \/ IssueForQuiz \/ DeleteCertificate

\* Every job is finished and nothing is under way: the instance is through.
AllFinished ==
  /\ \A d \in Drivers : run[d] = Idle
  /\ cancels = {} /\ \A j \in Jobs : job[j].status \in Finished
  /\ UNCHANGED vars

Next == (\E d \in Drivers : Work(d) \/ Crash(d)) \/ Requests \/ AllFinished

Spec == Init /\ [][Next]_vars

\* APScheduler calls the driver of its process every three seconds; a chunk in
\* progress is an asyncio task that is never suspended for good.  No web worker
\* has to pick a job.
FairSpec ==
  /\ Spec
  /\ WF_vars(Work(Scheduler))
  /\ \A d \in Drivers : WF_vars(Begun(d))

-----------------------------------------------------------------------------
(* Properties.                                                              *)

Of(j) == {c \in certs : c.by = j}

\* Whatever is interrupted, repeated, cancelled or deleted in between, a job has
\* counted exactly the certificates it issued and the units they cost: a chunk
\* is committed with its counters or not at all (ADR-0010, "bulk jobs are
\* resumable to survive interruptions").
JobCountsItsCertificates ==
  \A j \in Jobs : job[j] # Absent =>
    /\ job[j].created = Cardinality(Of(j))
    /\ job[j].spent = MapThenSumSet(LAMBDA c : c.cost, Of(j))

\* What the organiser's balance has lost is what the certificates cost, those of
\* jobs and of requests alike.
BalanceMatchesCertificates ==
  Opening - balance = MapThenSumSet(LAMBDA c : c.cost, certs)

\* The name does not tell whose certificate it is: attendee a has had another one,
\* or another attendee has had it.
Ambiguous(n, a) == had[a] # {n} \/ \E b \in Attendees \ {a} : n \in had[b]

\* A job or bulk certification gives nobody a second live certificate ("so a
\* renamed attendee isn't issued a duplicate", main.py:14178), however jobs with
\* common names, repeated names, restarts, renamings and the other issuers
\* interleave: none that is linked to the same attendee, and none of the same name,
\* unless the older one is linked to an attendee whom the name does not tell from
\* others.
OneCertificateEach ==
  \A c, d \in certs :
    c.checked /\ ~c.deleted /\ ~d.deleted /\ d.no < c.no =>
      /\ c.attendee # Nobody => c.attendee # d.attendee
      /\ c.name = d.name => d.attendee # Nobody /\ Ambiguous(c.name, d.attendee)

\* The certificate shows the name, or is linked to an attendee who has had it.
Serves(c, n) == c.name = n \/ (c.attendee # Nobody /\ n \in had[c.attendee])

\* A completed job has passed over no name: every name has a certificate, of the
\* job or older, or was counted as failed.
NothingSkipped ==
  \A j \in Jobs : job[j].status = "completed" =>
    LET unserved == {n \in Range(job[j].names) : \A c \in certs : ~Serves(c, n)}
    IN  Cardinality(unserved) <= job[j].failed

\* A job that was cancelled issues nothing any more and stays as it is.
CancelledIsFinal ==
  [][\A j \in Jobs : job[j].status = "cancelled" =>
       /\ UNCHANGED <<job[j]>>
       /\ \A c \in certs' : c.by = j => c.no \in {d.no : d \in certs}]_vars

\* No commit of a chunk leaves the balance below zero.
JobsNeverOverdraw ==
  [][\A j \in Jobs : job[j] # Absent /\ job'[j].spent > job[j].spent => balance' >= 0]_vars

Stuck(k) == job[k].status \in Active /\ Range(job[k].names) \cap TooLong # {}

\* "Reliable, resumable" (ADR-0013): every job that is accepted comes to an end, if
\* the processes are not restarted for ever, unless it is, or waits behind, a job with
\* a name the certificates table cannot hold.
JobsFinishOrStuck ==
  \A j \in Jobs :
    job[j].status \in Active ~>
      job[j].status \in Finished \/ \E k \in 1 .. j : Stuck(k)
=============================================================================
