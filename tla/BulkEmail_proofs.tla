-------------------------- MODULE BulkEmail_proofs --------------------------
(***************************************************************************)
(* Proofs about BulkEmail, for every value of its constants.                *)
(***************************************************************************)
EXTENDS BulkEmail, FiniteSetTheorems, SequenceTheorems, TLAPS

Picked == [job : Jobs, status : Active]
LastLog == [row : Nat, status : {"none", "sent", "failed"}]

\* The job in hand is there while it is worked on, and only then is there a batch.
StageInv ==
  /\ pass.pc \in {"begun", "batch", "logged"} => pass.todo # <<>>
  /\ pass.pc \notin {"batch", "logged"} => pass.batch = {}
  /\ pass.last = NoLog \/ pass.last.row \in DOMAIN logs
  /\ pass.pc = "logged" => pass.last.row \in DOMAIN logs
  /\ pass.mailed \cap pass.batch = {}
  /\ \A a, b \in pass.mailed : a = b

-----------------------------------------------------------------------------
(* Passes.                                                                  *)

\* The fields of a pass that leaves its job.
LEMMA LeftFields ==
  ASSUME NEW p \in Pass, p.todo # <<>>
  PROVE  /\ Left(p) \in Pass
         /\ Left(p).pc = "next" /\ Left(p).todo = Tail(p.todo) /\ Left(p).locked = {}
         /\ Left(p).batch = {} /\ Left(p).mailed = {} /\ Left(p).last = p.last
<1>1. p.todo \in Seq(Picked) /\ p.last \in LastLog
  BY DEF Pass, Picked, LastLog
<1>2. Tail(p.todo) \in Seq(Picked)
  BY <1>1, HeadTailProperties
<1> DEFINE rest == Tail(p.todo)
           last == p.last
<1>3. Left(p) = [NoPass EXCEPT !.pc = "next", !.todo = rest, !.last = last]
  BY DEF Left
<1>4. rest \in Seq(Picked) /\ last \in LastLog
  BY <1>1, <1>2
<1>5. rest = Tail(p.todo) /\ last = p.last
  OBVIOUS
<1> HIDE DEF rest, last
<1>6. [NoPass EXCEPT !.pc = "next", !.todo = rest, !.last = last] \in Pass
  BY <1>4 DEF NoPass, Pass, Picked, LastLog
<1>7. /\ Left(p).pc = "next" /\ Left(p).todo = rest /\ Left(p).locked = {}
      /\ Left(p).batch = {} /\ Left(p).mailed = {} /\ Left(p).last = last
  BY <1>3 DEF NoPass
<1> QED
  BY <1>3, <1>5, <1>6, <1>7

\* The job in hand is one of the rows.
LEMMA JobType ==
  ASSUME pass \in Pass, pass.todo # <<>>
  PROVE  Job \in Jobs /\ Head(pass.todo).status \in Active
<1>1. pass.todo \in Seq(Picked)
  BY DEF Pass, Picked
<1>2. Head(pass.todo) \in Picked
  BY <1>1, HeadTailProperties
<1> QED
  BY <1>2 DEF Picked, Job

LEMMA NoPassType ==
  NoPass \in Pass /\ NoPass.batch = {} /\ NoPass.mailed = {} /\ NoPass.todo = <<>>
  /\ NoPass.last = NoLog /\ NoPass.pc = "none" /\ NoPass.locked = {}
<1>1. <<>> \in Seq(Picked)
  BY EmptySeq
<1> QED
  BY <1>1 DEF NoPass, NoLog, Pass, Picked

\* How many rows of a kind there are is a number.
LEMMA CountType ==
  ASSUME logs \in Seq(Log), NEW j, NEW s
  PROVE  IsFiniteSet(RowsOf(j)) /\ Count(j, s) \in Nat
<1>1. Len(logs) \in Nat /\ DOMAIN logs = 1 .. Len(logs)
  BY LenProperties
<1>2. IsFiniteSet(DOMAIN logs)
  BY <1>1, FS_Interval
<1>3. RowsOf(j) \in SUBSET (DOMAIN logs)
  BY DEF RowsOf
<1>4. IsFiniteSet(RowsOf(j))
  BY <1>2, <1>3, FS_Subset
<1> DEFINE some == {i \in RowsOf(j) : logs[i].status = s}
<1>5. some \in SUBSET RowsOf(j)
  OBVIOUS
<1> HIDE DEF some
<1>6. Cardinality(some) \in Nat
  BY <1>4, <1>5, FS_Subset, FS_CardinalityType
<1> QED
  BY <1>4, <1>6 DEF Count, some

\* A set of attendees is finite, and smaller without one of them.
LEMMA BatchSmaller ==
  ASSUME BulkEmailAssumption, NEW S \in SUBSET Attendees, NEW a,
         Cardinality(S) <= BatchSize
  PROVE  IsFiniteSet(S) /\ Cardinality(S) \in Nat /\ Cardinality(S \ {a}) <= BatchSize
<1>1. IsFiniteSet(S)
  BY FS_Subset DEF BulkEmailAssumption
<1>2. /\ Cardinality(S) \in Nat
      /\ Cardinality(S \ {a}) = Cardinality(S) \/ Cardinality(S \ {a}) = Cardinality(S) - 1
  BY <1>1, FS_RemoveElement, FS_CardinalityType
<1>3. BatchSize \in Nat
  BY DEF BulkEmailAssumption
<1> QED
  BY <1>1, <1>2, <1>3

-----------------------------------------------------------------------------
(* The kinds of steps a pass takes.                                         *)

\* No job is in hand twice.
Distinct(q) == \A i, k \in DOMAIN q : i # k => q[i].job # q[k].job

\* The pass goes on from job to job, and nothing is mailed or logged.
Moves ==
  /\ pass.mailed = {}
  /\ UNCHANGED <<logs, mails, recipients, blurred, others>>
  /\ pass' \in Pass /\ pass'.batch = {} /\ pass'.mailed = {}
  /\ \/ /\ pass.pc = "next" /\ pass'.pc = "begun" /\ pass.todo # <<>>
        /\ pass'.todo = pass.todo /\ pass'.last = pass.last /\ pass'.locked = {}
     \/ /\ pass'.pc = "next" /\ pass.todo # <<>>
        /\ pass'.todo = Tail(pass.todo) /\ pass'.last = pass.last
     \/ pass' = NoPass
     \/ /\ pass.pc = "none" /\ pass'.pc = "next" /\ pass'.last = NoLog
        /\ Distinct(pass'.todo)
        /\ \A i \in DOMAIN pass'.todo : status[pass'.todo[i].job] \in Active

TakesBatch ==
  /\ pass.pc = "begun"
  /\ UNCHANGED <<logs, mails, recipients, blurred, others>>
  /\ pass' \in Pass /\ pass'.pc = "batch" /\ pass'.todo = pass.todo /\ pass'.last = pass.last
  /\ pass'.locked = {} /\ pass'.mailed = {} /\ pass'.batch \subseteq recipients \ Processed(Job)
  /\ Cardinality(pass'.batch) <= BatchSize
  /\ pass'.target = Cardinality(recipients)
  /\ pass'.sent = Count(Job, "sent") /\ pass'.failed = Count(Job, "failed")

\* An exception is caught; batch is what is left of the batch.
Continues(batch) ==
  /\ pass' \in Pass /\ pass'.locked = {} /\ pass'.mailed = {}
  /\ \/ /\ pass'.pc = "batch" /\ pass'.todo = pass.todo /\ pass'.batch = batch
        /\ pass'.target = pass.target /\ pass'.sent = pass.sent /\ pass'.failed = pass.failed + 1
     \/ /\ pass'.pc = "next" /\ pass'.todo = Tail(pass.todo) /\ pass'.batch = {}

Fails(a) ==
  /\ pass.pc = "batch" /\ pass.mailed = {} /\ a \in pass.batch
  /\ UNCHANGED <<mails, recipients, others>>
  /\ \/ /\ Logged(a, "failed", FALSE)
        /\ pass'.last = [row |-> Len(logs) + 1, status |-> "failed"]
        /\ blurred' = blurred
     \/ /\ pass.last # NoLog /\ MarkLast(pass.last)
        /\ pass'.last = [row |-> pass.last.row, status |-> "failed"]
        /\ blurred' = blurred \cup {Job}
  /\ Continues(pass.batch \ {a})

Raises ==
  /\ pass.pc = "logged"
  /\ UNCHANGED <<mails, recipients, blurred, others>>
  /\ MarkLast(pass.last)
  /\ pass'.last = [row |-> pass.last.row, status |-> "failed"]
  /\ Continues(pass.batch)

\* What the other steps of a batch leave of the pass.
SamePass ==
  /\ pass' \in Pass /\ pass'.locked = {} /\ pass'.todo = pass.todo
  /\ pass'.target = pass.target /\ pass'.failed = pass.failed

Mails(a) ==
  /\ pass.pc = "batch" /\ pass.mailed = {} /\ a \in pass.batch
  /\ UNCHANGED <<logs, recipients, blurred, others>>
  /\ mails' = [mails EXCEPT ![Job][a] = @ + 1]
  /\ SamePass /\ pass'.pc = "batch" /\ pass'.batch = pass.batch \ {a} /\ pass'.mailed = {a}
  /\ pass'.last = pass.last /\ pass'.sent = pass.sent

Records(a) ==
  /\ pass.pc = "batch" /\ a \in pass.mailed
  /\ UNCHANGED <<mails, recipients, blurred, others>>
  /\ Logged(a, "sent", TRUE)
  /\ SamePass /\ pass'.pc = "logged" /\ pass'.batch = pass.batch /\ pass'.mailed = {}
  /\ pass'.last = [row |-> Len(logs) + 1, status |-> "sent"] /\ pass'.sent = pass.sent

Notifies ==
  /\ pass.pc = "logged"
  /\ UNCHANGED <<logs, mails, recipients, blurred, others>>
  /\ SamePass /\ pass'.pc = "batch" /\ pass'.batch = pass.batch /\ pass'.mailed = {}
  /\ pass'.last = pass.last /\ pass'.sent = pass.sent + 1

LEMMA SelectMoves ==
  ASSUME BulkEmailAssumption, TypeOK, StageInv, Select
  PROVE  Moves
<1> DEFINE found == {j \in Jobs : status[j] \in Active /\ ~Crowded(j)}
<1>1. PICK q \in InOrder(found) :
        pass' = [NoPass EXCEPT !.pc = "next", !.locked = found,
                               !.todo = [i \in DOMAIN q |-> [job |-> q[i], status |-> status[q[i]]]]]
  BY DEF Select
<1> DEFINE n == Cardinality(found)
           todo == [i \in DOMAIN q |-> [job |-> q[i], status |-> status[q[i]]]]
<1>2. IsFiniteSet(Jobs) /\ found \in SUBSET Jobs
  <2>1. 1 \in Int /\ MaxJobs \in Int
    BY DEF BulkEmailAssumption
  <2> QED
    BY <2>1, FS_Interval DEF Jobs
<1> HIDE DEF found
<1>3. n \in Nat
  BY <1>2, FS_Subset, FS_CardinalityType
<1>4. q \in [1 .. n -> found] /\ \A i, k \in 1 .. n : i < k => q[i] < q[k]
  BY DEF InOrder
<1> HIDE DEF n
<1>5. \A i \in 1 .. n : q[i] \in Jobs /\ status[q[i]] \in Active
  BY <1>2, <1>4 DEF found
<1>6. todo \in [1 .. n -> Picked] /\ \A i \in 1 .. n : todo[i].job = q[i]
  BY <1>4, <1>5 DEF Picked
<1>7. todo \in Seq(Picked) /\ DOMAIN todo = 1 .. n
  BY <1>3, <1>6, SeqDef
<1>8. Distinct(todo)
  <2> SUFFICES ASSUME NEW i \in 1 .. n, NEW k \in 1 .. n, i < k
               PROVE  todo[i].job # todo[k].job
    BY <1>3, <1>7 DEF Distinct
  <2>1. q[i] \in Nat /\ q[k] \in Nat
    BY <1>5 DEF Jobs
  <2> QED
    BY <1>4, <1>6, <2>1
<1>9. pass' = [NoPass EXCEPT !.pc = "next", !.locked = found, !.todo = todo]
  BY <1>1
<1>10. \A i \in DOMAIN todo : status[todo[i].job] \in Active
  BY <1>5, <1>6, <1>7
<1> HIDE DEF todo
<1>11. [NoPass EXCEPT !.pc = "next", !.locked = found, !.todo = todo] \in Pass
  BY <1>2, <1>7 DEF NoPass, NoLog, Pass, Picked
<1>12. /\ pass'.pc = "next" /\ pass'.todo = todo /\ pass'.last = NoLog
       /\ pass'.batch = {} /\ pass'.mailed = {}
  BY <1>9 DEF NoPass
<1>13. pass.pc = "none" /\ pass.mailed = {} /\ UNCHANGED <<logs, mails, recipients, blurred, others>>
  BY NoPassType DEF Select, TypeOK
<1> QED
  BY <1>8, <1>9, <1>10, <1>11, <1>12, <1>13 DEF Moves

LEMMA JobMoves ==
  ASSUME TypeOK, StageInv,
         NotDue \/ Begin \/ EndPass \/ JobFails \/ NobodyLeft \/ Finish
  PROVE  Moves
<1>1. pass \in Pass /\ pass.todo \in Seq(Picked)
  BY DEF TypeOK, Pass, Picked
<1>2. pass.mailed = {} /\ UNCHANGED <<logs, mails, recipients, blurred, others>>
  BY DEF NotDue, Begin, EndPass, JobFails, NobodyLeft, Finish, AtJob, TypeOK
<1>3. CASE EndPass
  BY <1>2, <1>3, NoPassType DEF Moves, EndPass
<1>4. CASE NotDue
  <2>1. pass.todo # <<>> /\ pass.pc = "next" /\ pass' = [pass EXCEPT !.todo = Tail(@)]
    BY <1>4 DEF NotDue, AtJob
  <2> DEFINE rest == Tail(pass.todo)
  <2>2. rest \in Seq(Picked) /\ pass' = [pass EXCEPT !.todo = rest]
    BY <1>1, <2>1, HeadTailProperties
  <2>3. rest = Tail(pass.todo)
    OBVIOUS
  <2> HIDE DEF rest
  <2>4. /\ pass' \in Pass /\ pass'.pc = "next" /\ pass'.todo = rest /\ pass'.last = pass.last
        /\ pass'.batch = pass.batch /\ pass'.mailed = pass.mailed
    BY <1>1, <2>1, <2>2 DEF Pass, Picked
  <2>5. pass.batch = {}
    BY <2>1 DEF StageInv
  <2> QED
    BY <1>2, <2>1, <2>3, <2>4, <2>5 DEF Moves
<1>5. CASE Begin
  <2>1. pass.todo # <<>> /\ pass.pc = "next" /\ pass' = [pass EXCEPT !.pc = "begun", !.locked = {}]
    BY <1>5 DEF Begin, AtJob
  <2>2. /\ pass' \in Pass /\ pass'.pc = "begun" /\ pass'.todo = pass.todo /\ pass'.last = pass.last
        /\ pass'.batch = pass.batch /\ pass'.mailed = pass.mailed /\ pass'.locked = {}
    BY <1>1, <2>1 DEF Pass
  <2>3. pass.batch = {}
    BY <2>1 DEF StageInv
  <2> QED
    BY <1>2, <2>1, <2>2, <2>3 DEF Moves
<1>6. CASE JobFails \/ NobodyLeft \/ Finish
  <2>1. pass' = Left(pass) /\ pass.todo # <<>>
    BY <1>6 DEF JobFails, NobodyLeft, Finish, Complete, Done, AtJob, StageInv
  <2> QED
    BY <1>1, <1>2, <2>1, LeftFields DEF Moves
<1> QED
  BY <1>3, <1>4, <1>5, <1>6

LEMMA BatchTaken ==
  ASSUME BulkEmailAssumption, TypeOK, StageInv, TakeBatch
  PROVE  TakesBatch
<1>1. PICK batch \in SUBSET (recipients \ Processed(Job)) :
        /\ Cardinality(batch) = IF Cardinality(recipients \ Processed(Job)) < BatchSize
                                THEN Cardinality(recipients \ Processed(Job)) ELSE BatchSize
        /\ pass' = [pass EXCEPT !.pc = "batch", !.batch = batch, !.target = Cardinality(recipients),
                                !.sent = Count(Job, "sent"), !.failed = Count(Job, "failed")]
  BY DEF TakeBatch
<1> DEFINE left == recipients \ Processed(Job)
           m == Cardinality(recipients)
           s == Count(Job, "sent")
           f == Count(Job, "failed")
<1>2. s \in Nat /\ f \in Nat
  BY CountType DEF TypeOK
<1>3. m \in Nat /\ Cardinality(left) \in Nat
  BY FS_Subset, FS_CardinalityType DEF TypeOK, BulkEmailAssumption
<1>4. Cardinality(batch) <= BatchSize
  <2>1. Cardinality(batch) = IF Cardinality(left) < BatchSize THEN Cardinality(left) ELSE BatchSize
    BY <1>1
  <2>2. BatchSize \in Nat
    BY DEF BulkEmailAssumption
  <2> QED
    BY <1>3, <2>1, <2>2
<1>5. batch \in SUBSET Attendees /\ batch \subseteq left
  BY DEF TypeOK
<1>6. m = Cardinality(recipients) /\ s = Count(Job, "sent") /\ f = Count(Job, "failed")
      /\ left = recipients \ Processed(Job)
  OBVIOUS
<1>7. pass' = [pass EXCEPT !.pc = "batch", !.batch = batch, !.target = m, !.sent = s, !.failed = f]
  BY <1>1
<1> HIDE DEF left, m, s, f
<1>8. pass \in Pass /\ pass.pc = "begun" /\ pass.mailed = {} /\ pass.locked = {}
  BY DEF TypeOK, TakeBatch
<1>9. /\ pass' \in Pass /\ pass'.pc = "batch" /\ pass'.todo = pass.todo /\ pass'.last = pass.last
      /\ pass'.locked = {} /\ pass'.mailed = {} /\ pass'.batch = batch
      /\ pass'.target = m /\ pass'.sent = s /\ pass'.failed = f
  BY <1>2, <1>3, <1>5, <1>7, <1>8 DEF Pass
<1> QED
  BY <1>4, <1>5, <1>6, <1>8, <1>9 DEF TakesBatch, TakeBatch

\* The except clause, for a pass p whose counts are those of the pass under way.
LEMMA CaughtContinues ==
  ASSUME TypeOK, NEW p \in Pass, NEW raised \in BOOLEAN, Caught(p, raised),
         pass.todo # <<>>, p.todo = pass.todo, p.locked = {}, p.mailed = {},
         p.target = pass.target, p.sent = pass.sent, p.failed = pass.failed
  PROVE  Continues(p.batch) /\ pass'.last = p.last
<1>1. CASE raised
  BY <1>1, LeftFields DEF Caught, Continues
<1>2. CASE ~raised
  <2> DEFINE f == p.failed + 1
  <2>1. f \in Nat
    BY DEF Pass
  <2>2. pass' = [p EXCEPT !.pc = "batch", !.failed = f]
    BY <1>2 DEF Caught
  <2>3. f = pass.failed + 1
    OBVIOUS
  <2> HIDE DEF f
  <2>4. /\ pass' \in Pass /\ pass'.pc = "batch" /\ pass'.todo = p.todo /\ pass'.last = p.last
        /\ pass'.locked = p.locked /\ pass'.mailed = p.mailed /\ pass'.batch = p.batch
        /\ pass'.target = p.target /\ pass'.sent = p.sent /\ pass'.failed = f
    BY <2>1, <2>2 DEF Pass
  <2> QED
    BY <2>3, <2>4 DEF Continues
<1> QED
  BY <1>1, <1>2

LEMMA FailuresCaught ==
  ASSUME TypeOK, StageInv, NEW a \in pass.batch, NEW raised \in BOOLEAN,
         RenderFails(a, raised) \/ MailRefused(a, raised)
  PROVE  Fails(a)
<1>1. /\ pass \in Pass /\ pass.todo # <<>> /\ pass.pc = "batch" /\ pass.mailed = {}
      /\ pass.locked = {} /\ UNCHANGED <<mails, recipients, others>>
  BY DEF RenderFails, MailRefused, TypeOK, StageInv
<1>2. Len(logs) \in Nat /\ pass.last \in LastLog
  BY LenProperties DEF TypeOK, Pass, LastLog
<1>3. ASSUME NEW last \in LastLog, NEW p, p = [pass EXCEPT !.batch = @ \ {a}, !.last = last],
             Caught(p, raised)
      PROVE  Continues(pass.batch \ {a}) /\ pass'.last = last
  <2> DEFINE batch == pass.batch \ {a}
  <2>1. batch \in SUBSET Attendees /\ p = [pass EXCEPT !.batch = batch, !.last = last]
    BY <1>1, <1>3 DEF Pass
  <2>2. batch = pass.batch \ {a}
    OBVIOUS
  <2> HIDE DEF batch
  <2>3. /\ p \in Pass /\ p.todo = pass.todo /\ p.locked = {} /\ p.mailed = {} /\ p.batch = batch
        /\ p.target = pass.target /\ p.sent = pass.sent /\ p.failed = pass.failed /\ p.last = last
    BY <1>1, <1>3, <2>1 DEF Pass, LastLog
  <2> QED
    BY <1>1, <1>3, <2>2, <2>3, CaughtContinues
<1>4. CASE /\ Logged(a, "failed", FALSE) /\ UNCHANGED blurred
           /\ Caught([pass EXCEPT !.batch = @ \ {a}, !.last = [row |-> Len(logs) + 1, status |-> "failed"]], raised)
  <2> DEFINE last == [row |-> Len(logs) + 1, status |-> "failed"]
             p == [pass EXCEPT !.batch = @ \ {a}, !.last = last]
  <2>1. last \in LastLog
    BY <1>2 DEF LastLog
  <2>2. Caught(p, raised)
    BY <1>4
  <2>3. p = [pass EXCEPT !.batch = @ \ {a}, !.last = last]
    OBVIOUS
  <2> HIDE DEF p
  <2>4. Continues(pass.batch \ {a}) /\ pass'.last = last
    BY <1>3, <2>1, <2>2, <2>3
  <2> QED
    BY <1>1, <1>4, <2>4 DEF Fails
<1>5. CASE /\ pass.last # NoLog /\ MarkLast(pass.last) /\ blurred' = blurred \cup {Job}
           /\ Caught([pass EXCEPT !.batch = @ \ {a}, !.last.status = "failed"], raised)
  <2> DEFINE last == [row |-> pass.last.row, status |-> "failed"]
             p == [pass EXCEPT !.batch = @ \ {a}, !.last = last]
  <2>1. last \in LastLog
    BY <1>2 DEF LastLog
  <2>2. [pass.last EXCEPT !.status = "failed"] = last
    BY <1>2 DEF LastLog
  <2>3. Caught(p, raised)
    BY <1>1, <1>5, <2>2 DEF Pass
  <2>4. p = [pass EXCEPT !.batch = @ \ {a}, !.last = last]
    OBVIOUS
  <2> HIDE DEF p
  <2>5. Continues(pass.batch \ {a}) /\ pass'.last = last
    BY <1>3, <2>1, <2>3, <2>4
  <2> QED
    BY <1>1, <1>5, <2>5 DEF Fails
<1> QED
  BY <1>4, <1>5 DEF RenderFails, MailRefused

LEMMA NotificationRaises ==
  ASSUME TypeOK, StageInv, NEW raised \in BOOLEAN, NotifyRaises(raised)
  PROVE  Raises
<1>1. /\ pass \in Pass /\ pass.todo # <<>> /\ pass.pc = "logged" /\ pass.mailed = {}
      /\ pass.locked = {} /\ UNCHANGED <<mails, recipients, blurred, others>>
      /\ MarkLast(pass.last)
  BY DEF NotifyRaises, TypeOK, StageInv
<1> DEFINE last == [row |-> pass.last.row, status |-> "failed"]
           p == [pass EXCEPT !.last = last]
<1>2. pass.last \in LastLog
  BY <1>1 DEF Pass, LastLog
<1>3. last \in LastLog /\ [pass.last EXCEPT !.status = "failed"] = last
  BY <1>2 DEF LastLog
<1>4. Caught(p, raised)
  BY <1>1, <1>3 DEF NotifyRaises, Pass
<1> HIDE DEF last
<1>5. /\ p \in Pass /\ p.todo = pass.todo /\ p.locked = {} /\ p.mailed = {} /\ p.batch = pass.batch
      /\ p.target = pass.target /\ p.sent = pass.sent /\ p.failed = pass.failed /\ p.last = last
  BY <1>1, <1>3 DEF Pass, LastLog
<1> HIDE DEF p
<1>6. Continues(pass.batch) /\ pass'.last = last
  BY <1>1, <1>4, <1>5, CaughtContinues
<1> QED
  BY <1>1, <1>6 DEF Raises, last

LEMMA MailMails ==
  ASSUME TypeOK, StageInv, NEW a \in pass.batch, Mail(a)
  PROVE  Mails(a)
<1>1. /\ pass \in Pass /\ pass.pc = "batch" /\ pass.mailed = {} /\ pass.locked = {}
      /\ UNCHANGED <<logs, recipients, blurred, others>>
      /\ mails' = [mails EXCEPT ![Job][a] = @ + 1]
  BY DEF Mail, TypeOK
<1> DEFINE batch == pass.batch \ {a}
<1>2. batch \in SUBSET Attendees /\ {a} \in SUBSET Attendees
  BY <1>1 DEF Pass
<1>3. pass' = [pass EXCEPT !.batch = batch, !.mailed = {a}]
  BY DEF Mail
<1> HIDE DEF batch
<1>4. /\ SamePass /\ pass'.pc = "batch" /\ pass'.batch = batch /\ pass'.mailed = {a}
      /\ pass'.last = pass.last /\ pass'.sent = pass.sent
  BY <1>1, <1>2, <1>3 DEF Pass, SamePass
<1> QED
  BY <1>1, <1>4 DEF Mails, batch

LEMMA RecordRecords ==
  ASSUME TypeOK, StageInv, Record
  PROVE  \E a \in pass.mailed : Records(a)
<1>1. PICK a \in pass.mailed :
        /\ Logged(a, "sent", TRUE)
        /\ pass' = [pass EXCEPT !.pc = "logged", !.mailed = {},
                                !.last = [row |-> Len(logs) + 1, status |-> "sent"]]
        /\ UNCHANGED <<mails, recipients, blurred, others>>
  BY DEF Record
<1>2. pass \in Pass /\ pass.pc = "batch" /\ pass.locked = {}
  BY DEF TypeOK
<1> DEFINE last == [row |-> Len(logs) + 1, status |-> "sent"]
<1>3. last \in LastLog
  BY LenProperties DEF TypeOK, LastLog
<1>4. pass' = [pass EXCEPT !.pc = "logged", !.mailed = {}, !.last = last]
  BY <1>1
<1> HIDE DEF last
<1>5. /\ SamePass /\ pass'.pc = "logged" /\ pass'.batch = pass.batch /\ pass'.mailed = {}
      /\ pass'.last = last /\ pass'.sent = pass.sent
  BY <1>2, <1>3, <1>4 DEF Pass, SamePass, LastLog
<1> QED
  BY <1>1, <1>2, <1>5 DEF Records, last

LEMMA NotifiedNotifies ==
  ASSUME TypeOK, StageInv, Notified
  PROVE  Notifies
<1>1. /\ pass \in Pass /\ pass.pc = "logged" /\ pass.mailed = {} /\ pass.locked = {}
      /\ UNCHANGED <<logs, mails, recipients, blurred, others>>
  BY DEF Notified, TypeOK
<1> DEFINE s == pass.sent + 1
<1>2. s \in Nat
  BY <1>1 DEF Pass
<1>3. pass' = [pass EXCEPT !.pc = "batch", !.sent = s]
  BY DEF Notified
<1> HIDE DEF s
<1>4. /\ SamePass /\ pass'.pc = "batch" /\ pass'.batch = pass.batch /\ pass'.mailed = {}
      /\ pass'.last = pass.last /\ pass'.sent = s
  BY <1>1, <1>2, <1>3 DEF Pass, SamePass
<1> QED
  BY <1>1, <1>4 DEF Notifies, s

LEMMA KindsOfSteps ==
  ASSUME BulkEmailAssumption, TypeOK, StageInv, Process
  PROVE  \/ Moves \/ TakesBatch \/ Raises \/ Notifies
         \/ \E a \in pass.batch : Fails(a) \/ Mails(a)
         \/ \E a \in pass.mailed : Records(a)
BY SelectMoves, JobMoves, BatchTaken, NotificationRaises, NotifiedNotifies, MailMails,
   RecordRecords, FailuresCaught DEF Process

\* A pass writes the status of the job in hand, and no request or restart brings a
\* job back to what it was before it existed.
LEMMA StatusStep ==
  ASSUME BulkEmailAssumption, TypeOK, StageInv, Process
  PROVE  /\ status' \in [Jobs -> Status] /\ due' \in [Jobs -> BOOLEAN]
         /\ \A j \in Jobs : status'[j] # status[j] =>
              pass.todo # <<>> /\ j = Job /\ status'[j] \in {"sending", "completed", "scheduled", "failed"}
         /\ UNCHANGED <<kind, recipients, cancels>> /\ upsets' \in 0 .. MaxUpsets
<1> DEFINE Set(s) == pass.todo # <<>> /\ status' = [status EXCEPT ![Job] = s]
           Sets == \/ UNCHANGED <<status, due>>
                   \/ /\ Set("sending") \/ Set("completed") \/ Set("scheduled") \/ Set("failed")
                      /\ due' = due \/ due' = [due EXCEPT ![Job] = FALSE]
<1>1. upsets' \in 0 .. MaxUpsets /\ UNCHANGED <<kind, recipients, cancels>>
  <2>1. ASSUME Upset PROVE upsets' \in 0 .. MaxUpsets
    BY <2>1 DEF Upset, TypeOK, BulkEmailAssumption
  <2>2. CASE \/ Select \/ NotDue \/ Begin \/ EndPass \/ NobodyLeft \/ TakeBatch \/ Record \/ Notified
             \/ Finish \/ \E a \in pass.batch : Mail(a)
    BY <2>2 DEF Select, NotDue, Begin, EndPass, NobodyLeft, TakeBatch, Mail, Record, Notified,
                Finish, others, TypeOK
  <2>3. CASE \/ JobFails \/ (\E raised \in BOOLEAN : NotifyRaises(raised))
             \/ \E a \in pass.batch, raised \in BOOLEAN : RenderFails(a, raised) \/ MailRefused(a, raised)
    BY <2>1, <2>3 DEF JobFails, NotifyRaises, RenderFails, MailRefused, others
  <2> QED
    BY <2>2, <2>3 DEF Process
<1>2. Select \/ NotDue \/ EndPass \/ TakeBatch \/ Record \/ Notified \/ (\E a \in pass.batch : Mail(a))
      => Sets
  BY DEF Select, NotDue, EndPass, TakeBatch, Record, Notified, Mail
<1>3. Begin => Sets
  BY DEF Begin, AtJob
<1>4. ASSUME NEW s \in {"completed", "scheduled", "failed"}, Done(s), pass.todo # <<>>
      PROVE  Sets
  <2>1. due' = due \/ due' = [due EXCEPT ![Job] = FALSE]
    <3>1. Job \in Jobs
      BY <1>4, JobType DEF TypeOK
    <3> QED
      BY <1>4, <3>1 DEF Done, TypeOK
  <2> QED
    BY <1>4, <2>1 DEF Done
<1>5. JobFails \/ NobodyLeft \/ Finish => Sets
  BY <1>4 DEF JobFails, NobodyLeft, Finish, Complete, AtJob, StageInv
<1>6. ASSUME NEW p, NEW raised \in BOOLEAN, Caught(p, raised), pass.todo # <<>>, due' = due
      PROVE  Sets
  BY <1>6 DEF Caught
<1>7. (\E raised \in BOOLEAN : NotifyRaises(raised)) => Sets
  BY <1>6 DEF NotifyRaises, StageInv
<1>8. (\E a \in pass.batch, raised \in BOOLEAN : RenderFails(a, raised) \/ MailRefused(a, raised)) => Sets
  BY <1>6 DEF RenderFails, MailRefused, StageInv
<1>9. Sets
  BY <1>2, <1>3, <1>5, <1>7, <1>8 DEF Process
<1>10. pass.todo # <<>> => Job \in Jobs
  BY JobType DEF TypeOK
<1> QED
  BY <1>1, <1>9, <1>10 DEF TypeOK, Status, Active

-----------------------------------------------------------------------------
(* What a step does to the logs.                                            *)

LEMMA LogAppended ==
  ASSUME logs \in Seq(Log), Job \in Jobs, NEW a \in Attendees, NEW s \in {"sent", "failed"},
         NEW m \in BOOLEAN, Logged(a, s, m)
  PROVE  /\ logs' \in Seq(Log) /\ Len(logs') = Len(logs) + 1 /\ Len(logs) \in Nat
         /\ DOMAIN logs = 1 .. Len(logs) /\ DOMAIN logs' = DOMAIN logs \cup {Len(logs) + 1}
         /\ Len(logs) + 1 \notin DOMAIN logs
         /\ \A i \in DOMAIN logs : logs'[i] = logs[i]
         /\ logs'[Len(logs) + 1] =
              [job |-> Job, to |-> a, status |-> s, mailed |-> m, opened |-> FALSE]
<1> DEFINE log == [job |-> Job, to |-> a, status |-> s, mailed |-> m, opened |-> FALSE]
<1>1. log \in Log
  BY DEF Log
<1>2. logs' = Append(logs, log)
  BY DEF Logged
<1> HIDE DEF log
<1>3. /\ logs' \in Seq(Log) /\ Len(logs') = Len(logs) + 1
      /\ \A i \in 1 .. Len(logs) : logs'[i] = logs[i]
      /\ logs'[Len(logs) + 1] = log
  BY <1>1, <1>2, AppendProperties
<1>4. Len(logs) \in Nat /\ DOMAIN logs = 1 .. Len(logs) /\ DOMAIN logs' = 1 .. Len(logs')
  BY <1>3, LenProperties
<1> QED
  BY <1>3, <1>4 DEF log

LEMMA LogMarked ==
  ASSUME logs \in Seq(Log), NEW last, last.row \in DOMAIN logs, MarkLast(last)
  PROVE  /\ logs' \in Seq(Log) /\ Len(logs') = Len(logs) /\ DOMAIN logs' = DOMAIN logs
         /\ \A i \in DOMAIN logs :
              /\ logs'[i].job = logs[i].job /\ logs'[i].to = logs[i].to
              /\ logs'[i].mailed = logs[i].mailed /\ logs'[i].opened = logs[i].opened
              /\ logs'[i] = logs[i] \/ (i = last.row /\ logs'[i].status = "failed")
<1>1. logs \in [1 .. Len(logs) -> Log] /\ DOMAIN logs = 1 .. Len(logs)
  BY LenProperties
<1>2. CASE logs' = logs
  BY <1>2
<1>3. CASE logs' # logs
  <2> DEFINE log == [logs[last.row] EXCEPT !.status = "failed"]
  <2>1. /\ log \in Log /\ log.status = "failed"
        /\ log.job = logs[last.row].job /\ log.to = logs[last.row].to
        /\ log.mailed = logs[last.row].mailed /\ log.opened = logs[last.row].opened
    BY <1>1 DEF Log
  <2>2. logs' = [logs EXCEPT ![last.row] = log]
    BY <1>3 DEF MarkLast
  <2> HIDE DEF log
  <2>3. /\ logs' \in Seq(Log) /\ Len(logs') = Len(logs)
        /\ \A i \in 1 .. Len(logs) : logs'[i] = IF i = last.row THEN log ELSE logs[i]
    BY <1>1, <2>1, <2>2, ExceptSeq
  <2>4. DOMAIN logs' = DOMAIN logs
    BY <2>2
  <2> QED
    BY <1>1, <2>1, <2>3, <2>4
<1> QED
  BY <1>2, <1>3

LEMMA LogOpened ==
  ASSUME logs \in Seq(Log), NEW k \in DOMAIN logs, Open(k)
  PROVE  /\ logs' \in Seq(Log) /\ Len(logs') = Len(logs) /\ DOMAIN logs' = DOMAIN logs
         /\ \A i \in DOMAIN logs :
              /\ logs'[i].job = logs[i].job /\ logs'[i].to = logs[i].to
              /\ logs'[i].mailed = logs[i].mailed
              /\ i # k => logs'[i] = logs[i]
         /\ logs'[k].status = "opened" /\ logs'[k].opened
<1>1. logs \in [1 .. Len(logs) -> Log] /\ DOMAIN logs = 1 .. Len(logs)
  BY LenProperties
<1> DEFINE log == [logs[k] EXCEPT !.status = "opened", !.opened = TRUE]
<1>2. /\ log \in Log /\ log.status = "opened" /\ log.opened
      /\ log.job = logs[k].job /\ log.to = logs[k].to /\ log.mailed = logs[k].mailed
  BY <1>1 DEF Log
<1>3. logs' = [logs EXCEPT ![k] = log]
  BY <1>1 DEF Open
<1> HIDE DEF log
<1>4. /\ logs' \in Seq(Log) /\ Len(logs') = Len(logs)
      /\ \A i \in 1 .. Len(logs) : logs'[i] = IF i = k THEN log ELSE logs[i]
  BY <1>1, <1>2, <1>3, ExceptSeq
<1>5. DOMAIN logs' = DOMAIN logs
  BY <1>3
<1> QED
  BY <1>1, <1>2, <1>4, <1>5

\* The log in memory is a row of the table, before and after a step of the pass.
LEMMA LastRow ==
  ASSUME BulkEmailAssumption, TypeOK, StageInv, Process
  PROVE  /\ logs' \in Seq(Log)
         /\ pass'.last = NoLog \/ pass'.last.row \in DOMAIN logs'
         /\ pass'.pc = "logged" => pass'.last.row \in DOMAIN logs'
<1>1. logs \in Seq(Log) /\ pass.batch \subseteq Attendees /\ pass.mailed \subseteq Attendees
  BY DEF TypeOK, Pass
<1>2. pass.todo # <<>> => Job \in Jobs
  BY JobType DEF TypeOK
<1>3. CASE Moves
  BY <1>1, <1>3, NoPassType DEF Moves, StageInv
<1>4. CASE TakesBatch
  BY <1>1, <1>4 DEF TakesBatch, StageInv
<1>5. CASE Notifies
  BY <1>1, <1>5 DEF Notifies, StageInv
<1>6. CASE Raises
  <2>1. pass'.last.row = pass.last.row /\ pass'.pc # "logged" /\ pass.last.row \in DOMAIN logs
    BY <1>6 DEF Raises, Continues, StageInv
  <2> QED
    BY <1>1, <1>6, <2>1, LogMarked DEF Raises
<1>7. ASSUME NEW a \in pass.batch, Mails(a)
      PROVE  /\ logs' = logs /\ pass'.last = pass.last /\ pass'.pc # "logged"
  BY <1>7 DEF Mails
<1>8. ASSUME NEW a \in pass.mailed, Records(a)
      PROVE  logs' \in Seq(Log) /\ pass'.last.row \in DOMAIN logs'
  <2>1. Job \in Jobs
    BY <1>2, <1>8 DEF Records, StageInv
  <2>2. a \in Attendees /\ Logged(a, "sent", TRUE)
    BY <1>1, <1>8 DEF Records
  <2>3. logs' \in Seq(Log) /\ DOMAIN logs' = DOMAIN logs \cup {Len(logs) + 1}
    BY <1>1, <2>1, <2>2, LogAppended
  <2>4. pass'.last.row = Len(logs) + 1
    BY <1>8 DEF Records
  <2> QED
    BY <2>3, <2>4
<1>9. ASSUME NEW a \in pass.batch, Fails(a)
      PROVE  logs' \in Seq(Log) /\ pass'.last.row \in DOMAIN logs'
  <2>1. Job \in Jobs
    BY <1>2, <1>9 DEF Fails, StageInv
  <2>2. CASE Logged(a, "failed", FALSE) /\ pass'.last = [row |-> Len(logs) + 1, status |-> "failed"]
    <3>1. a \in Attendees
      BY <1>1
    <3>2. logs' \in Seq(Log) /\ DOMAIN logs' = DOMAIN logs \cup {Len(logs) + 1}
      BY <1>1, <2>1, <2>2, <3>1, LogAppended
    <3>3. pass'.last.row = Len(logs) + 1
      BY <2>2
    <3> QED
      BY <3>2, <3>3
  <2>3. CASE /\ pass.last # NoLog /\ MarkLast(pass.last)
             /\ pass'.last = [row |-> pass.last.row, status |-> "failed"]
    <3>1. pass.last.row \in DOMAIN logs
      BY <2>3 DEF StageInv
    <3> QED
      BY <1>1, <2>3, <3>1, LogMarked
  <2> QED
    BY <1>9, <2>2, <2>3 DEF Fails
<1> QED
  BY <1>1, <1>3, <1>4, <1>5, <1>6, <1>7, <1>8, <1>9, KindsOfSteps DEF StageInv

-----------------------------------------------------------------------------
(* Types and stages.                                                        *)

LEMMA ProcessTyped ==
  ASSUME BulkEmailAssumption, TypeOK, StageInv, Process
  PROVE  TypeOK' /\ StageInv'
<1>1. /\ pass.batch \subseteq Attendees /\ pass.mailed \subseteq Attendees
      /\ pass \in Pass /\ Cardinality({}) <= BatchSize
  <2>1. Cardinality({}) = 0 /\ BatchSize \in Nat
    BY FS_EmptySet DEF BulkEmailAssumption
  <2> QED
    BY <2>1 DEF TypeOK, Pass
<1>2. pass.todo # <<>> => Job \in Jobs
  BY JobType DEF TypeOK
<1> DEFINE PassTyped ==
             /\ pass' \in Pass /\ (pass'.pc = "none" => pass' = NoPass)
             /\ (pass'.locked # {} => pass'.pc = "next")
             /\ Cardinality(pass'.batch) <= BatchSize
             /\ (pass'.mailed # {} => pass'.pc = "batch")
           PassStaged ==
             /\ pass'.pc \in {"begun", "batch", "logged"} => pass'.todo # <<>>
             /\ pass'.pc \notin {"batch", "logged"} => pass'.batch = {}
             /\ pass'.mailed \cap pass'.batch = {}
             /\ \A a, b \in pass'.mailed : a = b
           Others ==
             /\ mails' \in [Jobs -> [Attendees -> Nat]] /\ lost' = lost
             /\ blurred' \subseteq Jobs
           Good == PassTyped /\ PassStaged /\ Others
<1>3. ASSUME Moves PROVE Good
  <2>1. /\ pass' \in Pass /\ pass'.batch = {} /\ pass'.mailed = {}
        /\ pass' = NoPass \/ pass'.pc # "none"
        /\ pass'.locked # {} => pass'.pc = "next"
        /\ pass'.pc \notin {"batch", "logged"} /\ (pass'.pc = "begun" => pass'.todo # <<>>)
    BY <1>3, NoPassType DEF Moves
  <2>2. Others
    BY <1>3 DEF Moves, TypeOK, others
  <2>3. Cardinality(pass'.batch) <= BatchSize
    BY <1>1, <2>1
  <2>4. PassTyped
    BY <2>1, <2>3
  <2>5. PassStaged
    BY <2>1
  <2> QED
    BY <2>2, <2>4, <2>5
<1>4. ASSUME TakesBatch PROVE Good
  BY <1>4 DEF TakesBatch, StageInv, TypeOK, others
<1>5. ASSUME Notifies PROVE Good
  BY <1>5 DEF Notifies, SamePass, StageInv, TypeOK, others
<1>6. ASSUME NEW batch \in SUBSET pass.batch, Continues(batch), Cardinality(batch) <= BatchSize,
             pass.todo # <<>>
      PROVE  PassTyped /\ PassStaged
  BY <1>1, <1>6 DEF Continues
<1>7. ASSUME Raises PROVE Good
  BY <1>6, <1>7 DEF Raises, StageInv, TypeOK, others
<1>8. ASSUME NEW a \in pass.batch, Fails(a)
      PROVE  Good
  <2>1. Cardinality(pass.batch \ {a}) <= BatchSize
    BY <1>1, BatchSmaller DEF TypeOK
  <2>2. Others
    BY <1>2, <1>8 DEF Fails, StageInv, TypeOK, others
  <2>3. Continues(pass.batch \ {a}) /\ pass.todo # <<>>
    BY <1>8 DEF Fails, StageInv
  <2> QED
    BY <1>6, <2>1, <2>2, <2>3
<1>9. ASSUME NEW a \in pass.batch, Mails(a)
      PROVE  Good
  <2>1. Cardinality(pass.batch \ {a}) <= BatchSize
    BY <1>1, BatchSmaller DEF TypeOK
  <2>2. Others
    <3>1. Job \in Jobs /\ a \in Attendees
      BY <1>1, <1>2, <1>9 DEF Mails, StageInv
    <3>2. mails[Job][a] + 1 \in Nat /\ mails[Job] \in [Attendees -> Nat]
      BY <3>1 DEF TypeOK
    <3>3. [mails[Job] EXCEPT ![a] = mails[Job][a] + 1] \in [Attendees -> Nat]
      BY <3>2
    <3>4. mails' = [mails EXCEPT ![Job] = [mails[Job] EXCEPT ![a] = mails[Job][a] + 1]]
      BY <1>9, <3>1 DEF Mails, TypeOK
    <3>5. mails' \in [Jobs -> [Attendees -> Nat]]
      BY <3>3, <3>4 DEF TypeOK
    <3> QED
      BY <1>9, <3>5 DEF Mails, TypeOK, others
  <2>3. PassTyped /\ PassStaged
    BY <1>1, <1>9, <2>1 DEF Mails, SamePass, StageInv
  <2> QED
    BY <2>2, <2>3
<1>10. ASSUME NEW a \in pass.mailed, Records(a)
       PROVE  Good
  BY <1>10 DEF Records, SamePass, StageInv, TypeOK, others
<1>11. Good
  BY <1>3, <1>4, <1>5, <1>7, <1>8, <1>9, <1>10, KindsOfSteps
<1>12. logs' \in Seq(Log) /\ pass'.last.row <= Len(logs')
  <2>1. logs' \in Seq(Log) /\ (pass'.last = NoLog \/ pass'.last.row \in DOMAIN logs')
    BY LastRow
  <2>2. Len(logs') \in Nat /\ DOMAIN logs' = 1 .. Len(logs')
    BY <2>1, LenProperties
  <2>3. pass'.last = NoLog => pass'.last.row = 0
    BY DEF NoLog
  <2> QED
    BY <2>1, <2>2, <2>3
<1>13. TypeOK'
  BY <1>11, <1>12, StatusStep DEF TypeOK
<1> QED
  BY <1>11, <1>13, LastRow DEF StageInv

LEMMA RequestTyped ==
  ASSUME BulkEmailAssumption, TypeOK, StageInv, Requests
  PROVE  TypeOK' /\ StageInv'
<1>1. ASSUME Upset PROVE upsets' \in 0 .. MaxUpsets
  BY <1>1 DEF Upset, TypeOK, BulkEmailAssumption
<1>2. ASSUME NEW j \in Jobs, NEW k \in Kinds, Create(j, k)
      PROVE  TypeOK' /\ StageInv'
  BY <1>2 DEF Create, TypeOK, StageInv, Status, Active, BulkEmailAssumption, others
<1>3. ASSUME NEW j \in Jobs, Tick(j)
      PROVE  TypeOK' /\ StageInv'
  BY <1>1, <1>3 DEF Tick, TypeOK, StageInv
<1>4. ASSUME NEW j \in Jobs, CancelCheck(j) \/ CancelWrite(j)
      PROVE  TypeOK' /\ StageInv'
  BY <1>4 DEF CancelCheck, CancelWrite, TypeOK, StageInv, Status
<1>5. ASSUME NEW i \in DOMAIN logs, Open(i)
      PROVE  TypeOK' /\ StageInv'
  <2>1. logs' \in Seq(Log) /\ Len(logs') = Len(logs) /\ DOMAIN logs' = DOMAIN logs
    BY <1>5, LogOpened DEF TypeOK
  <2>2. UNCHANGED <<status, kind, due, recipients, pass, cancels, mails, lost, blurred>>
        /\ upsets' \in 0 .. MaxUpsets
    BY <1>1, <1>5 DEF Open
  <2> QED
    BY <2>1, <2>2 DEF TypeOK, StageInv
<1>6. ASSUME NEW a \in Attendees, Change(a)
      PROVE  TypeOK' /\ StageInv'
  <2>1. recipients' \subseteq Attendees /\ blurred' \subseteq Jobs
    BY <1>6 DEF Change, TypeOK
  <2> QED
    BY <1>1, <1>6, <2>1 DEF Change, TypeOK, StageInv
<1> QED
  BY <1>2, <1>3, <1>4, <1>5, <1>6 DEF Requests

LEMMA CrashTyped ==
  ASSUME BulkEmailAssumption, TypeOK, StageInv, Crash
  PROVE  TypeOK' /\ StageInv'
<1>1. upsets' \in 0 .. MaxUpsets
  BY DEF Crash, Upset, TypeOK, BulkEmailAssumption
<1>2. lost' \in [Jobs -> [Attendees -> Nat]]
  <2>1. CASE pass.mailed = {}
    BY <2>1 DEF Crash, TypeOK
  <2>2. CASE pass.mailed # {}
    <3>1. Job \in Jobs
      BY <2>2, JobType DEF TypeOK, StageInv
    <3>2. lost[Job] \in [Attendees -> Nat]
      BY <3>1 DEF TypeOK
    <3> DEFINE new == [a \in Attendees |-> IF a \in pass.mailed THEN lost[Job][a] + 1 ELSE lost[Job][a]]
    <3>3. new \in [Attendees -> Nat]
      BY <3>2
    <3>4. lost' = [lost EXCEPT ![Job] = new]
      BY <2>2, <3>1 DEF Crash, TypeOK
    <3> HIDE DEF new
    <3> QED
      BY <3>3, <3>4 DEF TypeOK
  <2> QED
    BY <2>1, <2>2
<1>3. /\ UNCHANGED <<status, kind, due, recipients, logs, cancels, mails, blurred>>
      /\ pass' = NoPass
  BY DEF Crash
<1>4. Cardinality({}) = 0 /\ BatchSize \in Nat /\ Len(logs) \in Nat
  BY FS_EmptySet, LenProperties DEF BulkEmailAssumption, TypeOK
<1>5. NoPass.last.row = 0
  BY DEF NoPass, NoLog
<1>6. Cardinality(NoPass.batch) <= BatchSize /\ NoPass.last.row <= Len(logs)
  BY <1>4, <1>5, NoPassType
<1> QED
  BY <1>1, <1>2, <1>3, <1>6, NoPassType DEF TypeOK, StageInv

\* The state stays well typed, and a batch belongs to a job in hand.
THEOREM TypeCorrect == Spec => [](TypeOK /\ StageInv)
<1>1. Init => TypeOK /\ StageInv
  <2> SUFFICES ASSUME Init PROVE TypeOK /\ StageInv
    OBVIOUS
  <2>1. Cardinality({}) = 0 /\ BatchSize \in Nat /\ MaxUpsets \in Nat
    BY FS_EmptySet, BulkEmailAssumption DEF BulkEmailAssumption
  <2>2. <<>> \in Seq(Log) /\ Len(<<>>) = 0 /\ NoPass.last.row = 0
    BY EmptySeq DEF NoPass, NoLog
  <2>3. Cardinality(NoPass.batch) <= BatchSize /\ NoPass.last.row <= Len(<<>>)
    BY <2>1, <2>2, NoPassType
  <2>4. /\ logs = <<>> /\ pass = NoPass /\ recipients = Registered /\ cancels = {} /\ blurred = {}
        /\ upsets = 0 /\ status \in [Jobs -> Status] /\ due \in [Jobs -> BOOLEAN]
        /\ kind \in [Jobs -> {"now", "at", "cron"}]
        /\ mails \in [Jobs -> [Attendees -> Nat]] /\ lost = mails
    BY DEF Init, Status
  <2> QED
    BY <2>1, <2>2, <2>3, <2>4, NoPassType, BulkEmailAssumption
       DEF TypeOK, StageInv, BulkEmailAssumption
<1>2. TypeOK /\ StageInv /\ [Next]_vars => (TypeOK /\ StageInv)'
  <2> SUFFICES ASSUME TypeOK, StageInv, [Next]_vars PROVE (TypeOK /\ StageInv)'
    OBVIOUS
  <2>1. CASE UNCHANGED vars
    BY <2>1 DEF vars, TypeOK, StageInv
  <2> QED
    BY <2>1, BulkEmailAssumption, ProcessTyped, RequestTyped, CrashTyped DEF Next
<1> QED
  BY <1>1, <1>2, PTL DEF Spec

-----------------------------------------------------------------------------
(* Jobs in hand.                                                            *)

\* The first job of a pass and the jobs after it.
LEMMA TodoParts ==
  ASSUME pass \in Pass, pass.todo # <<>>
  PROVE  /\ 1 \in DOMAIN pass.todo /\ Job = pass.todo[1].job
         /\ \A i \in DOMAIN Tail(pass.todo) :
              i + 1 \in DOMAIN pass.todo /\ i + 1 > 1 /\ Tail(pass.todo)[i] = pass.todo[i + 1]
         /\ DOMAIN pass.todo \subseteq Nat \ {0} /\ DOMAIN Tail(pass.todo) \subseteq Nat
<1>1. pass.todo \in Seq(Picked)
  BY DEF Pass, Picked
<1>2. /\ Len(pass.todo) \in Nat \ {0} /\ DOMAIN pass.todo = 1 .. Len(pass.todo)
  BY <1>1, LenProperties, EmptySeq
<1>3. /\ Tail(pass.todo) \in Seq(Picked) /\ Len(Tail(pass.todo)) = Len(pass.todo) - 1
      /\ \A i \in 1 .. Len(Tail(pass.todo)) : Tail(pass.todo)[i] = pass.todo[i + 1]
  BY <1>1, HeadTailProperties
<1>4. DOMAIN Tail(pass.todo) = 1 .. Len(pass.todo) - 1
  BY <1>3, LenProperties
<1>5. Head(pass.todo) = pass.todo[1]
  BY <1>1
<1> QED
  BY <1>2, <1>3, <1>4, <1>5 DEF Job

\* Whatever is in hand was before, or has just been selected.
LEMMA TodoStep ==
  ASSUME BulkEmailAssumption, TypeOK, StageInv, Process, NEW i \in DOMAIN pass'.todo
  PROVE  \/ \E k \in DOMAIN pass.todo : pass'.todo[i] = pass.todo[k]
         \/ status[pass'.todo[i].job] \in Active
<1>1. pass'.todo = pass.todo \/ (pass'.todo = Tail(pass.todo) /\ pass.todo # <<>>)
      \/ pass'.todo = <<>> \/ \A k \in DOMAIN pass'.todo : status[pass'.todo[k].job] \in Active
  <2>1. CASE Moves
    BY <2>1, NoPassType DEF Moves
  <2>2. CASE TakesBatch \/ Notifies \/ (\E a \in pass.batch : Mails(a)) \/ \E a \in pass.mailed : Records(a)
    BY <2>2 DEF TakesBatch, Notifies, Mails, Records, SamePass
  <2>3. CASE Raises \/ \E a \in pass.batch : Fails(a)
    BY <2>3 DEF Raises, Fails, Continues, StageInv
  <2> QED
    BY <2>1, <2>2, <2>3, KindsOfSteps
<1>2. pass'.todo = <<>> => FALSE
  OBVIOUS
<1>3. pass'.todo = Tail(pass.todo) /\ pass.todo # <<>> =>
        \E k \in DOMAIN pass.todo : pass'.todo[i] = pass.todo[k]
  BY TodoParts DEF TypeOK
<1> QED
  BY <1>1, <1>2, <1>3

\* A job that is cancelled and in no pass's hands stays so and mails nobody.
THEOREM CancelledRests == Spec => CancelledIsOver
<1>1. ASSUME TypeOK, StageInv, [Next]_vars, NEW j \in Jobs, Over(j)
      PROVE  Over(j)' /\ mails'[j] = mails[j]
  <2>1. CASE UNCHANGED vars
    BY <1>1, <2>1 DEF vars, Over
  <2>2. CASE Process
    <3>1. pass.todo # <<>> => j # Job
      BY <1>1, TodoParts DEF TypeOK, Over
    <3>2. status'[j] = "cancelled"
      BY <1>1, <2>2, <3>1, StatusStep, BulkEmailAssumption DEF Over
    <3>3. \A i \in DOMAIN pass'.todo : pass'.todo[i].job # j
      BY <1>1, <2>2, TodoStep, BulkEmailAssumption DEF Over, Active
    <3>4. mails'[j] = mails[j]
      <4>1. mails' = mails \/ (pass.todo # <<>> /\ \E a : mails' = [mails EXCEPT ![Job][a] = @ + 1])
        BY <1>1, <2>2, KindsOfSteps, BulkEmailAssumption
           DEF Moves, TakesBatch, Raises, Notifies, Fails, Mails, Records, StageInv
      <4> QED
        BY <1>1, <3>1, <4>1 DEF TypeOK
    <3> QED
      BY <3>2, <3>3, <3>4 DEF Over
  <2>3. CASE Requests
    BY <1>1, <2>3 DEF Requests, Create, Tick, CancelCheck, CancelWrite, Open, Change, TypeOK, Over
  <2>4. CASE Crash
    BY <1>1, <2>4, NoPassType DEF Crash, Over
  <2> QED
    BY <1>1, <2>1, <2>2, <2>3, <2>4 DEF Next
<1>2. TypeOK /\ StageInv /\ [Next]_vars =>
        [\A j \in Jobs : Over(j) => Over(j)' /\ mails'[j] = mails[j]]_vars
  BY <1>1
<1> QED
  BY <1>2, TypeCorrect, PTL DEF Spec, CancelledIsOver

-----------------------------------------------------------------------------
(* Repeated mails.                                                          *)

\* No job is in hand twice, and the log in memory is not of a job still to come.
OrderInv ==
  /\ Distinct(pass.todo)
  /\ pass.last # NoLog =>
       \A i \in DOMAIN pass.todo :
         i > 1 \/ pass.pc \in {"next", "begun"} => pass.todo[i].job # logs[pass.last.row].job

\* Nor is it of an attendee still to be mailed: marking it as failed does not make
\* that attendee look processed, or unprocessed.
LastInv ==
  pass.last # NoLog =>
    \A a \in pass.batch : logs[pass.last.row].job # Job \/ logs[pass.last.row].to # a

OpenInv == \A i \in DOMAIN logs : logs[i].status = "opened" => logs[i].opened

\* Whoever is still to be mailed has opened whatever the job has sent him.
BatchInv ==
  \A a \in pass.batch, i \in DOMAIN logs :
    logs[i].job = Job /\ logs[i].to = a => logs[i].status = "opened"

RowInv == OrderInv /\ LastInv /\ OpenInv /\ BatchInv

\* A mail of the job to a is on its way, or has not been opened.
Unanswered(j, a) ==
  \/ \E i \in RowsOf(j) : logs[i].to = a /\ logs[i].mailed /\ ~logs[i].opened
  \/ a \in pass.mailed /\ Job = j

MailInv ==
  \A j \in Jobs, a \in Attendees :
    mails[j][a] <= lost[j][a] + Cardinality(OpenedRows(j, a)) + (IF Unanswered(j, a) THEN 1 ELSE 0)

\* A step of the pass changes the status of the row in memory at most, or adds a row
\* of an attendee it takes out of the batch.
LEMMA LogStep ==
  ASSUME BulkEmailAssumption, TypeOK, StageInv, Process
  PROVE  /\ DOMAIN logs \subseteq DOMAIN logs'
         /\ \A i \in DOMAIN logs :
              /\ logs'[i].job = logs[i].job /\ logs'[i].to = logs[i].to
              /\ logs'[i].mailed = logs[i].mailed /\ logs'[i].opened = logs[i].opened
              /\ \/ logs'[i] = logs[i]
                 \/ pass.last # NoLog /\ i = pass.last.row /\ logs'[i].status = "failed"
         /\ \A i \in DOMAIN logs' \ DOMAIN logs :
              /\ logs'[i].status # "opened" /\ logs'[i].job = Job
              /\ pass.todo # <<>> /\ logs'[i].to \notin pass'.batch
         /\ \/ pass'.last = NoLog
            \/ pass.last # NoLog /\ pass'.last.row = pass.last.row
            \/ pass.pc = "batch" /\ pass.todo # <<>> /\ pass'.last.row \in DOMAIN logs' \ DOMAIN logs
<1>1. logs \in Seq(Log) /\ pass.batch \subseteq Attendees /\ pass.mailed \subseteq Attendees
  BY DEF TypeOK, Pass
<1>2. pass.pc \in {"batch", "logged"} => Job \in Jobs /\ pass.todo # <<>>
  BY JobType DEF TypeOK, StageInv
<1>3. CASE Moves \/ TakesBatch \/ Notifies \/ \E a \in pass.batch : Mails(a)
  <2>1. logs' = logs
    BY <1>3 DEF Moves, TakesBatch, Notifies, Mails
  <2>2. pass'.last = pass.last \/ pass'.last = NoLog
    BY <1>3, NoPassType DEF Moves, TakesBatch, Notifies, Mails
  <2> QED
    BY <2>1, <2>2
<1>4. ASSUME pass.last.row \in DOMAIN logs, pass.last # NoLog, MarkLast(pass.last),
             pass'.last = [row |-> pass.last.row, status |-> "failed"]
      PROVE  /\ DOMAIN logs' = DOMAIN logs /\ pass'.last.row = pass.last.row
             /\ \A i \in DOMAIN logs :
                  /\ logs'[i].job = logs[i].job /\ logs'[i].to = logs[i].to
                  /\ logs'[i].mailed = logs[i].mailed /\ logs'[i].opened = logs[i].opened
                  /\ \/ logs'[i] = logs[i]
                     \/ i = pass.last.row /\ logs'[i].status = "failed"
  BY <1>1, <1>4, LogMarked
<1>5. ASSUME NEW a \in Attendees, NEW s \in {"sent", "failed"}, NEW m \in BOOLEAN, Job \in Jobs,
             Logged(a, s, m), pass'.last = [row |-> Len(logs) + 1, status |-> s]
      PROVE  /\ DOMAIN logs \subseteq DOMAIN logs'
             /\ \A i \in DOMAIN logs : logs'[i] = logs[i]
             /\ \A i \in DOMAIN logs' \ DOMAIN logs :
                  logs'[i].status # "opened" /\ logs'[i].job = Job /\ logs'[i].to = a
             /\ pass'.last.row \in DOMAIN logs' \ DOMAIN logs
  <2> DEFINE n == Len(logs) + 1
             log == [job |-> Job, to |-> a, status |-> s, mailed |-> m, opened |-> FALSE]
  <2>1. /\ DOMAIN logs' = DOMAIN logs \cup {n} /\ n \notin DOMAIN logs
        /\ \A i \in DOMAIN logs : logs'[i] = logs[i]
        /\ logs'[n] = log
    BY <1>1, <1>5, LogAppended
  <2>2. log.status # "opened" /\ log.job = Job /\ log.to = a /\ pass'.last.row = n
    BY <1>5
  <2> HIDE DEF n, log
  <2> QED
    BY <2>1, <2>2
<1>6. CASE Raises
  <2>1. pass.last.row \in DOMAIN logs /\ pass.last # NoLog
    <3>1. pass.last.row \in DOMAIN logs
      BY <1>6 DEF Raises, StageInv
    <3>2. DOMAIN logs = 1 .. Len(logs) /\ Len(logs) \in Nat
      BY <1>1, LenProperties
    <3> QED
      BY <3>1, <3>2 DEF NoLog
  <2> QED
    BY <1>4, <1>6, <2>1 DEF Raises
<1>7. ASSUME NEW a \in pass.mailed, Records(a)
      PROVE  a \notin pass'.batch /\ Logged(a, "sent", TRUE) /\ a \in Attendees /\ Job \in Jobs
             /\ pass'.last = [row |-> Len(logs) + 1, status |-> "sent"] /\ pass.pc = "batch"
  BY <1>1, <1>2, <1>7 DEF Records, StageInv
<1>8. ASSUME NEW a \in pass.mailed, Records(a)
      PROVE  /\ DOMAIN logs \subseteq DOMAIN logs'
             /\ \A i \in DOMAIN logs : logs'[i] = logs[i]
             /\ \A i \in DOMAIN logs' \ DOMAIN logs :
                  logs'[i].status # "opened" /\ logs'[i].job = Job /\ logs'[i].to \notin pass'.batch
             /\ pass'.last.row \in DOMAIN logs' \ DOMAIN logs
             /\ pass.pc = "batch" /\ pass.todo # <<>>
  <2>1. /\ a \notin pass'.batch /\ Logged(a, "sent", TRUE) /\ a \in Attendees /\ Job \in Jobs
        /\ pass'.last = [row |-> Len(logs) + 1, status |-> "sent"] /\ pass.pc = "batch"
    BY <1>7, <1>8
  <2>2. "sent" \in {"sent", "failed"} /\ TRUE \in BOOLEAN
    OBVIOUS
  <2>3. /\ DOMAIN logs \subseteq DOMAIN logs'
        /\ \A i \in DOMAIN logs : logs'[i] = logs[i]
        /\ \A i \in DOMAIN logs' \ DOMAIN logs :
             logs'[i].status # "opened" /\ logs'[i].job = Job /\ logs'[i].to = a
        /\ pass'.last.row \in DOMAIN logs' \ DOMAIN logs
    BY <1>5, <2>1, <2>2
  <2> QED
    BY <1>2, <2>1, <2>3
<1>9. ASSUME NEW a \in pass.batch, Fails(a)
      PROVE  a \notin pass'.batch /\ a \in Attendees /\ Job \in Jobs /\ pass.pc = "batch" /\ pass.todo # <<>>
  BY <1>1, <1>2, <1>9 DEF Fails, Continues
<1>10. ASSUME NEW a \in pass.batch, Fails(a), Logged(a, "failed", FALSE),
              pass'.last = [row |-> Len(logs) + 1, status |-> "failed"]
      PROVE  /\ DOMAIN logs \subseteq DOMAIN logs'
             /\ \A i \in DOMAIN logs : logs'[i] = logs[i]
             /\ \A i \in DOMAIN logs' \ DOMAIN logs :
                  logs'[i].status # "opened" /\ logs'[i].job = Job /\ logs'[i].to \notin pass'.batch
             /\ pass'.last.row \in DOMAIN logs' \ DOMAIN logs
             /\ pass.pc = "batch" /\ pass.todo # <<>>
  BY <1>5, <1>9, <1>10
<1>11. CASE \E a \in pass.mailed : Records(a)
  BY <1>8, <1>11
<1>12. CASE \E a \in pass.batch : Fails(a)
  <2>1. PICK a \in pass.batch : Fails(a)
    BY <1>12
  <2>2. CASE Logged(a, "failed", FALSE) /\ pass'.last = [row |-> Len(logs) + 1, status |-> "failed"]
    BY <1>10, <2>1, <2>2
  <2>3. CASE /\ pass.last # NoLog /\ MarkLast(pass.last)
             /\ pass'.last = [row |-> pass.last.row, status |-> "failed"]
    BY <1>4, <2>3 DEF StageInv
  <2> QED
    BY <2>1, <2>2, <2>3 DEF Fails
<1> QED
  BY <1>3, <1>6, <1>11, <1>12, KindsOfSteps

\* What a step leaves in hand, when it takes no batch.
LEMMA HandStep ==
  ASSUME BulkEmailAssumption, TypeOK, StageInv, Process
  PROVE  /\ \/ pass'.batch = {}
            \/ TakesBatch
            \/ pass'.todo = pass.todo /\ pass'.batch \subseteq pass.batch
         /\ \/ /\ pass'.todo = pass.todo
               /\ pass'.pc \in {"next", "begun"} => pass.pc = "next" /\ logs' = logs /\ pass'.last = pass.last
            \/ pass'.todo = Tail(pass.todo) /\ pass.todo # <<>>
            \/ pass' = NoPass
            \/ pass'.last = NoLog /\ Distinct(pass'.todo)
<1>1. CASE Moves
  BY <1>1 DEF Moves
<1>2. CASE TakesBatch \/ Notifies \/ (\E a \in pass.batch : Mails(a)) \/ \E a \in pass.mailed : Records(a)
  BY <1>2 DEF TakesBatch, Notifies, Mails, Records, SamePass
<1>3. CASE Raises \/ \E a \in pass.batch : Fails(a)
  BY <1>3 DEF Raises, Fails, Continues, StageInv
<1> QED
  BY <1>1, <1>2, <1>3, KindsOfSteps

LEMMA OrderStep ==
  ASSUME BulkEmailAssumption, TypeOK, StageInv, OrderInv, Process
  PROVE  OrderInv'
<1>1. pass \in Pass /\ pass' \in Pass
  BY ProcessTyped DEF TypeOK
<1>2. CASE pass' = NoPass \/ (pass'.last = NoLog /\ Distinct(pass'.todo))
  <2>1. pass'.last = NoLog /\ Distinct(pass'.todo)
    BY <1>2 DEF NoPass, Distinct
  <2> QED
    BY <2>1 DEF OrderInv, Distinct
<1>3. ASSUME pass'.last # NoLog
      PROVE  \/ /\ pass.last # NoLog /\ pass'.last.row = pass.last.row
                /\ logs'[pass'.last.row].job = logs[pass.last.row].job
             \/ pass.pc = "batch" /\ pass.todo # <<>> /\ logs'[pass'.last.row].job = Job
                /\ pass'.last.row \in DOMAIN logs' \ DOMAIN logs
  BY <1>3, LogStep DEF StageInv
<1>4. CASE /\ pass'.todo = pass.todo
           /\ pass'.pc \in {"next", "begun"} => pass.pc = "next" /\ logs' = logs /\ pass'.last = pass.last
  <2>1. Distinct(pass'.todo)
    BY <1>4 DEF OrderInv
  <2>2. ASSUME pass'.last # NoLog, NEW i \in DOMAIN pass'.todo, i > 1 \/ pass'.pc \in {"next", "begun"}
        PROVE  pass'.todo[i].job # logs'[pass'.last.row].job
    <3>1. CASE pass.last # NoLog /\ logs'[pass'.last.row].job = logs[pass.last.row].job
      BY <1>4, <2>2, <3>1 DEF OrderInv
    <3>2. CASE /\ pass.pc = "batch" /\ pass.todo # <<>> /\ logs'[pass'.last.row].job = Job
               /\ pass'.last.row \in DOMAIN logs' \ DOMAIN logs
      <4>1. i > 1 /\ i \in DOMAIN pass.todo
        BY <1>4, <2>2, <3>2
      <4>2. 1 \in DOMAIN pass.todo /\ Job = pass.todo[1].job /\ i # 1
        BY <1>1, <3>2, <4>1, TodoParts
      <4>3. pass.todo[i].job # Job
        BY <4>1, <4>2 DEF OrderInv, Distinct
      <4> QED
        BY <1>4, <3>2, <4>3
    <3> QED
      BY <1>3, <2>2, <3>1, <3>2
  <2> QED
    BY <2>1, <2>2 DEF OrderInv
<1>5. CASE pass'.todo = Tail(pass.todo) /\ pass.todo # <<>>
  <2>1. /\ 1 \in DOMAIN pass.todo /\ Job = pass.todo[1].job
        /\ \A i \in DOMAIN pass'.todo :
             i + 1 \in DOMAIN pass.todo /\ i + 1 > 1 /\ pass'.todo[i] = pass.todo[i + 1] /\ i \in Nat
    BY <1>1, <1>5, TodoParts
  <2>2. Distinct(pass'.todo)
    <3> SUFFICES ASSUME NEW i \in DOMAIN pass'.todo, NEW k \in DOMAIN pass'.todo, i # k
                 PROVE  pass'.todo[i].job # pass'.todo[k].job
      BY DEF Distinct
    <3>1. i + 1 # k + 1
      BY <2>1
    <3> QED
      BY <2>1, <3>1 DEF OrderInv, Distinct
  <2>3. ASSUME pass'.last # NoLog, NEW i \in DOMAIN pass'.todo
        PROVE  pass'.todo[i].job # logs'[pass'.last.row].job
    <3>1. i + 1 \in DOMAIN pass.todo /\ i + 1 > 1 /\ i + 1 # 1 /\ pass'.todo[i] = pass.todo[i + 1]
      BY <2>1
    <3>2. CASE pass.last # NoLog /\ logs'[pass'.last.row].job = logs[pass.last.row].job
      BY <3>1, <3>2 DEF OrderInv
    <3>3. CASE logs'[pass'.last.row].job = Job
      BY <2>1, <3>1, <3>3 DEF OrderInv, Distinct
    <3> QED
      BY <1>3, <2>3, <3>2, <3>3
  <2> QED
    BY <2>2, <2>3 DEF OrderInv
<1> QED
  BY <1>2, <1>4, <1>5, HandStep

LEMMA RowStep ==
  ASSUME BulkEmailAssumption, TypeOK, StageInv, RowInv, Process
  PROVE  RowInv'
<1>1. pass \in Pass /\ logs \in Seq(Log) /\ TypeOK' /\ StageInv' /\ OrderInv /\ OrderInv'
  BY ProcessTyped, OrderStep DEF RowInv, TypeOK
<1>2. OpenInv'
  <2> SUFFICES ASSUME NEW i \in DOMAIN logs', logs'[i].status = "opened"
               PROVE  logs'[i].opened
    BY DEF OpenInv
  <2>1. i \in DOMAIN logs /\ logs'[i] = logs[i]
    BY LogStep
  <2> QED
    BY <2>1 DEF RowInv, OpenInv
<1>3. CASE pass'.batch = {}
  BY <1>1, <1>2, <1>3 DEF RowInv, LastInv, BatchInv
<1>4. CASE TakesBatch
  <2>1. /\ logs' = logs /\ pass'.last = pass.last /\ pass'.todo = pass.todo /\ Job' = Job
        /\ pass'.batch \subseteq recipients \ Processed(Job) /\ pass.todo # <<>> /\ pass.pc = "begun"
    BY <1>4 DEF TakesBatch, Job, StageInv
  <2>2. LastInv'
    <3>1. 1 \in DOMAIN pass.todo /\ Job = pass.todo[1].job
      BY <1>1, <2>1, TodoParts
    <3>2. pass.last # NoLog => Job # logs[pass.last.row].job
      BY <1>1, <2>1, <3>1 DEF OrderInv
    <3> QED
      BY <2>1, <3>2 DEF LastInv
  <2>3. BatchInv'
    <3> SUFFICES ASSUME NEW a \in pass'.batch, NEW i \in DOMAIN logs, logs[i].job = Job, logs[i].to = a
                 PROVE  logs[i].status = "opened"
      BY <2>1 DEF BatchInv
    <3>1. logs[i].status \notin {"sent", "failed"}
      BY <2>1 DEF Processed, RowsOf
    <3>2. logs[i] \in Log
      <4>1. logs \in [1 .. Len(logs) -> Log] /\ DOMAIN logs = 1 .. Len(logs)
        BY <1>1, LenProperties
      <4> QED
        BY <4>1
    <3> QED
      BY <3>1, <3>2 DEF Log
  <2> QED
    BY <1>1, <1>2, <2>2, <2>3 DEF RowInv
<1>5. CASE pass'.todo = pass.todo /\ pass'.batch \subseteq pass.batch
  <2>1. Job' = Job
    BY <1>5 DEF Job
  <2>2. LastInv'
    <3> SUFFICES ASSUME pass'.last # NoLog, NEW a \in pass'.batch
                 PROVE  logs'[pass'.last.row].job # Job \/ logs'[pass'.last.row].to # a
      BY <2>1 DEF LastInv
    <3>1. CASE pass.last # NoLog /\ pass'.last.row = pass.last.row
      BY <1>5, <3>1, LogStep DEF RowInv, LastInv, StageInv
    <3>2. CASE pass'.last.row \in DOMAIN logs' \ DOMAIN logs
      BY <3>2, LogStep
    <3> QED
      BY <3>1, <3>2, LogStep
  <2>3. BatchInv'
    <3> SUFFICES ASSUME NEW a \in pass'.batch, NEW i \in DOMAIN logs', logs'[i].job = Job, logs'[i].to = a
                 PROVE  logs'[i].status = "opened"
      BY <2>1 DEF BatchInv
    <3>1. i \in DOMAIN logs /\ logs[i].job = Job /\ logs[i].to = a /\ a \in pass.batch
      BY <1>5, LogStep
    <3>2. ~(pass.last # NoLog /\ i = pass.last.row)
      BY <3>1 DEF RowInv, LastInv
    <3>3. logs'[i] = logs[i]
      BY <3>1, <3>2, LogStep
    <3> QED
      BY <3>1, <3>3 DEF RowInv, BatchInv
  <2> QED
    BY <1>1, <1>2, <2>2, <2>3 DEF RowInv
<1> QED
  BY <1>3, <1>4, <1>5, HandStep

\* Requests leave rows as they are, but for the one that is opened.
LEMMA RequestLogs ==
  ASSUME TypeOK, Requests
  PROVE  /\ UNCHANGED <<pass, mails, lost>>
         /\ \/ logs' = logs
            \/ \E k \in DOMAIN logs : Open(k)
BY DEF Requests, Create, Tick, CancelCheck, CancelWrite, Open, Change, others

LEMMA RowRequest ==
  ASSUME TypeOK, StageInv, RowInv, Requests
  PROVE  RowInv'
<1>1. logs \in Seq(Log) /\ pass' = pass /\ Job' = Job
  BY RequestLogs DEF TypeOK, Job
<1>2. CASE logs' = logs
  BY <1>1, <1>2 DEF RowInv, OrderInv, LastInv, OpenInv, BatchInv, Distinct
<1>3. ASSUME NEW k \in DOMAIN logs, Open(k) PROVE RowInv'
  <2>1. /\ DOMAIN logs' = DOMAIN logs
        /\ \A i \in DOMAIN logs :
             /\ logs'[i].job = logs[i].job /\ logs'[i].to = logs[i].to
             /\ i # k => logs'[i] = logs[i]
        /\ logs'[k].status = "opened" /\ logs'[k].opened
    BY <1>1, <1>3, LogOpened
  <2>2. OpenInv'
    BY <2>1 DEF RowInv, OpenInv
  <2>3. BatchInv'
    BY <1>1, <2>1 DEF RowInv, BatchInv
  <2>4. LastInv' /\ OrderInv'
    BY <1>1, <2>1 DEF RowInv, LastInv, OrderInv, StageInv
  <2> QED
    BY <2>2, <2>3, <2>4 DEF RowInv
<1> QED
  BY <1>2, <1>3, RequestLogs

LEMMA RowCrash ==
  ASSUME TypeOK, RowInv, Crash
  PROVE  RowInv'
<1>1. logs' = logs /\ pass'.batch = {} /\ pass'.last = NoLog /\ pass'.todo = <<>>
  BY DEF Crash, NoPass
<1> QED
  BY <1>1 DEF RowInv, OrderInv, LastInv, OpenInv, BatchInv, Distinct

LEMMA OpenedFinite ==
  ASSUME logs \in Seq(Log), NEW j, NEW a
  PROVE  IsFiniteSet(OpenedRows(j, a)) /\ Cardinality(OpenedRows(j, a)) \in Nat
<1>1. Len(logs) \in Int /\ 1 \in Int /\ DOMAIN logs = 1 .. Len(logs)
  BY LenProperties
<1>2. OpenedRows(j, a) \subseteq DOMAIN logs
  BY DEF OpenedRows, RowsOf
<1> QED
  BY <1>1, <1>2, FS_Interval, FS_Subset, FS_CardinalityType

\* Rows that are opened stay so; one that is opened in a step counts one more.
LEMMA OpenedKept ==
  ASSUME logs \in Seq(Log), logs' \in Seq(Log), NEW j, NEW a,
         DOMAIN logs \subseteq DOMAIN logs',
         \A i \in DOMAIN logs : logs'[i].job = logs[i].job /\ logs'[i].to = logs[i].to
                                /\ (logs[i].opened => logs'[i].opened)
  PROVE  /\ Cardinality(OpenedRows(j, a)) \in Nat /\ Cardinality(OpenedRows(j, a)') \in Nat
         /\ Cardinality(OpenedRows(j, a)) <= Cardinality(OpenedRows(j, a)')
         /\ \A k \in DOMAIN logs :
              logs[k].job = j /\ logs[k].to = a /\ ~logs[k].opened /\ logs'[k].opened
                => Cardinality(OpenedRows(j, a)) + 1 <= Cardinality(OpenedRows(j, a)')
<1> DEFINE old == OpenedRows(j, a)
           new == OpenedRows(j, a)'
<1>1. old \subseteq new /\ new \subseteq DOMAIN logs'
  BY DEF OpenedRows, RowsOf
<1>2. IsFiniteSet(new)
  <2>1. Len(logs') \in Int /\ 1 \in Int /\ DOMAIN logs' = 1 .. Len(logs')
    BY LenProperties
  <2> QED
    BY <1>1, <2>1, FS_Interval, FS_Subset
<1>3. Cardinality(old) \in Nat /\ Cardinality(new) \in Nat /\ Cardinality(old) <= Cardinality(new)
  BY <1>1, <1>2, FS_Subset, FS_CardinalityType
<1>4. ASSUME NEW k \in DOMAIN logs, logs[k].job = j, logs[k].to = a,
             ~logs[k].opened, logs'[k].opened
      PROVE  Cardinality(old) + 1 <= Cardinality(new)
  <2>1. k \notin old /\ k \in new
    BY <1>4 DEF OpenedRows, RowsOf
  <2>2. old \cup {k} \subseteq new
    BY <1>1, <2>1
  <2>3. IsFiniteSet(old) /\ IsFiniteSet(old \cup {k})
    BY <1>1, <1>2, <2>2, FS_Subset
  <2>4. Cardinality(old \cup {k}) = Cardinality(old) + 1
    BY <2>1, <2>3, FS_AddElement
  <2>5. Cardinality(old \cup {k}) <= Cardinality(new)
    BY <1>2, <2>2, FS_Subset
  <2> QED
    BY <2>4, <2>5
<1> QED
  BY <1>3, <1>4

\* A mail that is on its way is logged by the next step, or lost.
LEMMA MailedRecorded ==
  ASSUME BulkEmailAssumption, TypeOK, StageInv, Process, pass.mailed # {}
  PROVE  \E a \in pass.mailed : Records(a)
BY KindsOfSteps DEF Moves, TakesBatch, Raises, Notifies, Fails, Mails, TypeOK

LEMMA MailProcess ==
  ASSUME BulkEmailAssumption, TypeOK, StageInv, RowInv, MailInv, Process
  PROVE  MailInv'
<1> SUFFICES ASSUME NEW j \in Jobs, NEW b \in Attendees
             PROVE  mails'[j][b] <= lost'[j][b] + Cardinality(OpenedRows(j, b)')
                                    + (IF Unanswered(j, b)' THEN 1 ELSE 0)
  BY DEF MailInv
<1>1. /\ Cardinality(OpenedRows(j, b)) \in Nat /\ Cardinality(OpenedRows(j, b)') \in Nat
      /\ Cardinality(OpenedRows(j, b)) <= Cardinality(OpenedRows(j, b)')
  <2>1. logs \in Seq(Log) /\ logs' \in Seq(Log)
    BY ProcessTyped DEF TypeOK
  <2>2. DOMAIN logs \subseteq DOMAIN logs'
    BY LogStep
  <2>3. \A i \in DOMAIN logs : logs'[i].job = logs[i].job /\ logs'[i].to = logs[i].to
                               /\ (logs[i].opened => logs'[i].opened)
    BY LogStep
  <2> QED
    BY <2>1, <2>2, <2>3, OpenedKept
<1>2. mails[j][b] \in Nat /\ lost[j][b] \in Nat /\ mails[j] \in [Attendees -> Nat]
      /\ mails \in [Jobs -> [Attendees -> Nat]]
  BY DEF TypeOK
<1>3. mails[j][b] <= lost[j][b] + Cardinality(OpenedRows(j, b)) + (IF Unanswered(j, b) THEN 1 ELSE 0)
  BY DEF MailInv
<1>4. lost' = lost
  BY KindsOfSteps DEF Moves, TakesBatch, Raises, Notifies, Fails, Mails, Records, others
<1>5. ASSUME NEW i \in RowsOf(j), logs[i].to = b, logs[i].mailed, ~logs[i].opened
      PROVE  Unanswered(j, b)'
  <2>1. i \in DOMAIN logs' /\ logs'[i].job = j /\ logs'[i].to = b /\ logs'[i].mailed /\ ~logs'[i].opened
    BY <1>5, LogStep DEF RowsOf
  <2> QED
    BY <2>1 DEF Unanswered, RowsOf
<1>6. ASSUME mails'[j][b] = mails[j][b], Unanswered(j, b) => Unanswered(j, b)'
      PROVE  mails'[j][b] <= lost'[j][b] + Cardinality(OpenedRows(j, b)')
                             + (IF Unanswered(j, b)' THEN 1 ELSE 0)
  BY <1>1, <1>2, <1>3, <1>4, <1>6
<1>7. CASE mails' = mails
  <2>1. ASSUME b \in pass.mailed, Job = j PROVE Unanswered(j, b)'
    <3>1. PICK a \in pass.mailed : Records(a)
      BY <2>1, MailedRecorded
    <3>2. a = b /\ logs \in Seq(Log) /\ Job \in Jobs /\ Logged(b, "sent", TRUE)
      BY <2>1, <3>1 DEF StageInv, TypeOK, Records
    <3> DEFINE n == Len(logs) + 1
               log == [job |-> Job, to |-> b, status |-> "sent", mailed |-> TRUE, opened |-> FALSE]
    <3>3. n \in DOMAIN logs' /\ logs'[n] = log
      BY <3>2, LogAppended
    <3>4. log.job = j /\ log.to = b /\ log.mailed /\ ~log.opened
      BY <2>1
    <3> HIDE DEF n, log
    <3> QED
      BY <3>3, <3>4 DEF Unanswered, RowsOf
  <2> QED
    BY <1>5, <1>6, <1>7, <2>1 DEF Unanswered
<1>8. ASSUME NEW a \in pass.batch, Mails(a)
      PROVE  mails'[j][b] <= lost'[j][b] + Cardinality(OpenedRows(j, b)')
                             + (IF Unanswered(j, b)' THEN 1 ELSE 0)
  <2>1. /\ pass.mailed = {} /\ logs' = logs /\ Job' = Job /\ pass'.mailed = {a} /\ pass.todo # <<>>
        /\ mails' = [mails EXCEPT ![Job][a] = @ + 1]
    BY <1>8 DEF Mails, SamePass, Job, StageInv
  <2>2. Job \in Jobs /\ a \in Attendees
    BY <2>1, JobType DEF TypeOK, Pass
  <2>3. CASE j = Job /\ b = a
    <3>1. ~Unanswered(j, b)
      <4>1. ASSUME NEW i \in RowsOf(j), logs[i].to = b PROVE logs[i].opened
        BY <1>8, <2>3, <4>1 DEF RowInv, BatchInv, OpenInv, RowsOf
      <4> QED
        BY <2>1, <4>1 DEF Unanswered
    <3>2. Unanswered(j, b)'
      BY <2>1, <2>3 DEF Unanswered
    <3>3. mails'[j][b] = mails[j][b] + 1
      BY <1>2, <2>1, <2>2, <2>3
    <3> QED
      BY <1>1, <1>2, <1>3, <1>4, <3>1, <3>2, <3>3
  <2>4. CASE ~(j = Job /\ b = a)
    <3>1. mails'[j][b] = mails[j][b]
      BY <1>2, <2>1, <2>2, <2>4
    <3>2. Unanswered(j, b) => Unanswered(j, b)'
      BY <1>5, <2>1 DEF Unanswered
    <3> QED
      BY <1>6, <3>1, <3>2
  <2> QED
    BY <2>3, <2>4
<1>9. mails' = mails \/ \E a \in pass.batch : Mails(a)
  BY KindsOfSteps DEF Moves, TakesBatch, Raises, Notifies, Fails, Records
<1> QED
  BY <1>7, <1>8, <1>9

LEMMA MailRequest ==
  ASSUME BulkEmailAssumption, TypeOK, StageInv, MailInv, Requests
  PROVE  MailInv'
<1>1. UNCHANGED <<pass, mails, lost>> /\ Job' = Job /\ logs \in Seq(Log)
  BY RequestLogs DEF TypeOK, Job
<1>2. CASE logs' = logs
  BY <1>1, <1>2 DEF MailInv, Unanswered, OpenedRows, RowsOf
<1>3. ASSUME NEW k \in DOMAIN logs, Open(k), NEW j \in Jobs, NEW b \in Attendees
      PROVE  mails'[j][b] <= lost'[j][b] + Cardinality(OpenedRows(j, b)')
                             + (IF Unanswered(j, b)' THEN 1 ELSE 0)
  <2>1. /\ logs' \in Seq(Log) /\ DOMAIN logs' = DOMAIN logs
        /\ \A i \in DOMAIN logs :
             /\ logs'[i].job = logs[i].job /\ logs'[i].to = logs[i].to
             /\ logs'[i].mailed = logs[i].mailed
             /\ i # k => logs'[i] = logs[i]
        /\ logs'[k].opened
    BY <1>1, <1>3, LogOpened
  <2>2. ~logs[k].opened
    BY <1>3 DEF Open
  <2>3. \A i \in DOMAIN logs : logs'[i].job = logs[i].job /\ logs'[i].to = logs[i].to
                               /\ (logs[i].opened => logs'[i].opened)
    BY <2>1
  <2>4. /\ Cardinality(OpenedRows(j, b)) \in Nat /\ Cardinality(OpenedRows(j, b)') \in Nat
        /\ Cardinality(OpenedRows(j, b)) <= Cardinality(OpenedRows(j, b)')
        /\ logs[k].job = j /\ logs[k].to = b =>
             Cardinality(OpenedRows(j, b)) + 1 <= Cardinality(OpenedRows(j, b)')
    BY <1>1, <1>3, <2>1, <2>2, <2>3, OpenedKept
  <2>5. Unanswered(j, b) => Unanswered(j, b)' \/ (logs[k].job = j /\ logs[k].to = b)
    BY <1>1, <2>1 DEF Unanswered, RowsOf
  <2>6. mails[j][b] <= lost[j][b] + Cardinality(OpenedRows(j, b)) + (IF Unanswered(j, b) THEN 1 ELSE 0)
    BY DEF MailInv
  <2>7. mails[j][b] \in Nat /\ lost[j][b] \in Nat /\ mails'[j][b] = mails[j][b] /\ lost'[j][b] = lost[j][b]
    BY <1>1 DEF TypeOK
  <2> QED
    BY <2>4, <2>5, <2>6, <2>7
<1> QED
  BY <1>2, <1>3, RequestLogs DEF MailInv

LEMMA MailCrash ==
  ASSUME BulkEmailAssumption, TypeOK, StageInv, MailInv, Crash
  PROVE  MailInv'
<1> SUFFICES ASSUME NEW j \in Jobs, NEW b \in Attendees
             PROVE  mails'[j][b] <= lost'[j][b] + Cardinality(OpenedRows(j, b)')
                                    + (IF Unanswered(j, b)' THEN 1 ELSE 0)
  BY DEF MailInv
<1>1. logs' = logs /\ mails' = mails /\ pass'.mailed = {} /\ logs \in Seq(Log)
  BY DEF Crash, NoPass, TypeOK
<1>2. mails[j][b] <= lost[j][b] + Cardinality(OpenedRows(j, b)) + (IF Unanswered(j, b) THEN 1 ELSE 0)
  BY DEF MailInv
<1>3. mails[j][b] \in Nat /\ lost[j][b] \in Nat /\ lost \in [Jobs -> [Attendees -> Nat]]
  BY DEF TypeOK
<1>4. Cardinality(OpenedRows(j, b)) \in Nat /\ OpenedRows(j, b)' = OpenedRows(j, b)
  <2>1. OpenedRows(j, b)' = OpenedRows(j, b)
    BY <1>1 DEF OpenedRows, RowsOf
  <2> QED
    BY <1>1, <2>1, OpenedFinite
<1>5. pass.mailed # {} => Job \in Jobs
  BY JobType DEF TypeOK, StageInv
<1>6. lost'[j][b] = IF b \in pass.mailed /\ Job = j THEN lost[j][b] + 1 ELSE lost[j][b]
  <2>1. CASE pass.mailed = {}
    BY <2>1 DEF Crash
  <2>2. CASE pass.mailed # {}
    <3> DEFINE new == [a \in Attendees |-> IF a \in pass.mailed THEN lost[Job][a] + 1 ELSE lost[Job][a]]
    <3>1. lost' = [lost EXCEPT ![Job] = new]
      BY <1>3, <1>5, <2>2 DEF Crash
    <3>2. new[b] = IF b \in pass.mailed THEN lost[Job][b] + 1 ELSE lost[Job][b]
      OBVIOUS
    <3> HIDE DEF new
    <3> QED
      BY <1>3, <1>5, <2>2, <3>1, <3>2
  <2> QED
    BY <2>1, <2>2
<1>7. Unanswered(j, b) => Unanswered(j, b)' \/ (b \in pass.mailed /\ Job = j)
  BY <1>1 DEF Unanswered, RowsOf
<1> QED
  BY <1>1, <1>2, <1>3, <1>4, <1>6, <1>7

\* Whoever is mailed again was not logged because of a restart, or has opened a mail.
THEOREM RepeatsExplained == Spec => []RepeatedOnlyIfLostOrOpened
<1>1. Init => RowInv /\ MailInv
  <2> SUFFICES ASSUME Init PROVE RowInv /\ MailInv
    OBVIOUS
  <2>1. /\ logs = <<>> /\ pass.batch = {} /\ pass.mailed = {} /\ pass.last = NoLog /\ pass.todo = <<>>
        /\ mails = [j \in Jobs |-> [a \in Attendees |-> 0]] /\ lost = mails
    BY DEF Init, NoPass
  <2>2. ASSUME NEW j \in Jobs, NEW a \in Attendees
        PROVE  mails[j][a] <= lost[j][a] + Cardinality(OpenedRows(j, a))
                                + (IF Unanswered(j, a) THEN 1 ELSE 0)
    <3>1. DOMAIN logs = {}
      BY <2>1
    <3>2. OpenedRows(j, a) = {}
      BY <3>1 DEF OpenedRows, RowsOf
    <3>3. Cardinality({}) = 0 /\ mails[j][a] = 0 /\ lost[j][a] = 0
      BY <2>1, FS_EmptySet
    <3> QED
      BY <3>2, <3>3
  <2>3. MailInv
    BY <2>2 DEF MailInv
  <2> QED
    BY <2>1, <2>3 DEF RowInv, OrderInv, LastInv, OpenInv, BatchInv, Distinct
<1>2. TypeOK /\ StageInv /\ RowInv /\ MailInv /\ [Next]_vars => (RowInv /\ MailInv)'
  <2> SUFFICES ASSUME TypeOK, StageInv, RowInv, MailInv, [Next]_vars PROVE (RowInv /\ MailInv)'
    OBVIOUS
  <2>1. CASE UNCHANGED vars
    BY <2>1 DEF vars, RowInv, MailInv, OrderInv, LastInv, OpenInv, BatchInv, Distinct, Unanswered,
                OpenedRows, RowsOf, Job
  <2>2. CASE Process
    BY <2>2, RowStep, MailProcess, BulkEmailAssumption
  <2>3. CASE Requests
    BY <2>3, RowRequest, MailRequest, BulkEmailAssumption
  <2>4. CASE Crash
    BY <2>4, RowCrash, MailCrash, BulkEmailAssumption
  <2> QED
    BY <2>1, <2>2, <2>3, <2>4 DEF Next
<1>3. TypeOK /\ MailInv => RepeatedOnlyIfLostOrOpened
  <2> SUFFICES ASSUME TypeOK, MailInv, NEW j \in Jobs, NEW a \in Attendees
               PROVE  mails[j][a] <= 1 + lost[j][a] + Cardinality(OpenedRows(j, a))
    BY DEF RepeatedOnlyIfLostOrOpened
  <2>1. mails[j][a] <= lost[j][a] + Cardinality(OpenedRows(j, a)) + (IF Unanswered(j, a) THEN 1 ELSE 0)
    BY DEF MailInv
  <2>2. mails[j][a] \in Nat /\ lost[j][a] \in Nat
    BY DEF TypeOK
  <2>3. Cardinality(OpenedRows(j, a)) \in Nat
    BY OpenedFinite DEF TypeOK
  <2> QED
    BY <2>1, <2>2, <2>3
<1> QED
  BY <1>1, <1>2, <1>3, TypeCorrect, PTL DEF Spec

-----------------------------------------------------------------------------
(* Completed jobs.                                                          *)

\* Whoever has just been mailed had opened whatever the job had sent him.
MailedInv ==
  \A a \in pass.mailed, i \in DOMAIN logs :
    logs[i].job = Job /\ logs[i].to = a => logs[i].status = "opened"

\* Of two logs of a job to one attendee, one counts as processed at most ...
PairInv ==
  \A i, k \in DOMAIN logs :
    i # k /\ logs[i].job = logs[k].job /\ logs[i].to = logs[k].to
      => logs[i].status = "opened" \/ logs[k].status = "opened"

\* ... and marking the one in memory as failed leaves it so.
LastPairInv ==
  pass.last # NoLog =>
    \A i \in DOMAIN logs :
      /\ i # pass.last.row
      /\ logs[i].job = logs[pass.last.row].job /\ logs[i].to = logs[pass.last.row].to
      => logs[i].status = "opened"

\* Logs, and jobs in hand, are of jobs that exist.
ThereInv ==
  /\ \A i \in DOMAIN logs : status[logs[i].job] # "absent"
  /\ \A i \in DOMAIN pass.todo : status[pass.todo[i].job] # "absent"

Tos(j) == {logs[i].to : i \in RowsOf(j)}
SameInv == \A j \in Jobs \ blurred : Tos(j) \subseteq recipients

\* The counts, with those the batch will add, do not exceed the recipients with a log,
\* with those the batch will give one.
Counted == pass.sent + pass.failed + Cardinality(pass.batch) + Cardinality(pass.mailed)
           + (IF pass.pc = "logged" THEN 1 ELSE 0)
Reached == Tos(Job) \cup pass.batch \cup pass.mailed
CountInv ==
  pass.pc \in {"batch", "logged"} /\ Job \notin blurred =>
    /\ pass.batch \cup pass.mailed \subseteq recipients
    /\ pass.target = Cardinality(recipients)
    /\ Counted <= Cardinality(Reached)

LedgerInv == MailedInv /\ PairInv /\ LastPairInv /\ ThereInv /\ SameInv

\* What a step adds to the logs.
LEMMA RowAdded ==
  ASSUME BulkEmailAssumption, TypeOK, StageInv, Process, NEW i \in DOMAIN logs' \ DOMAIN logs
  PROVE  /\ pass.pc = "batch" /\ Job \in Jobs /\ pass.todo # <<>>
         /\ DOMAIN logs' = DOMAIN logs \cup {i} /\ pass'.last.row = i
         /\ logs'[i].job = Job /\ logs'[i].to \in pass.batch \cup pass.mailed
         /\ \A k \in DOMAIN logs : logs'[k] = logs[k]
<1>1. logs \in Seq(Log) /\ pass.batch \subseteq Attendees /\ pass.mailed \subseteq Attendees
  BY DEF TypeOK, Pass
<1>2. pass.pc = "batch" => Job \in Jobs /\ pass.todo # <<>>
  BY JobType DEF TypeOK, StageInv
<1>3. ASSUME NEW a \in Attendees, NEW s \in {"sent", "failed"}, NEW m \in BOOLEAN, Job \in Jobs,
             Logged(a, s, m), pass'.last = [row |-> Len(logs) + 1, status |-> s]
      PROVE  /\ DOMAIN logs' = DOMAIN logs \cup {i} /\ pass'.last.row = i
             /\ logs'[i].job = Job /\ logs'[i].to = a
             /\ \A k \in DOMAIN logs : logs'[k] = logs[k]
  <2> DEFINE n == Len(logs) + 1
             log == [job |-> Job, to |-> a, status |-> s, mailed |-> m, opened |-> FALSE]
  <2>1. /\ DOMAIN logs' = DOMAIN logs \cup {n}
        /\ \A k \in DOMAIN logs : logs'[k] = logs[k]
        /\ logs'[n] = log
    BY <1>1, <1>3, LogAppended
  <2>2. log.job = Job /\ log.to = a /\ pass'.last.row = n
    BY <1>3
  <2> HIDE DEF n, log
  <2> QED
    BY <2>1, <2>2
<1>4. ASSUME NEW a \in pass.mailed, Records(a)
      PROVE  /\ pass.pc = "batch" /\ Job \in Jobs /\ a \in Attendees
             /\ Logged(a, "sent", TRUE) /\ pass'.last = [row |-> Len(logs) + 1, status |-> "sent"]
  BY <1>1, <1>2, <1>4 DEF Records
<1>5. ASSUME NEW a \in pass.batch, Fails(a)
      PROVE  /\ pass.pc = "batch" /\ Job \in Jobs /\ a \in Attendees
             /\ Logged(a, "failed", FALSE) /\ pass'.last = [row |-> Len(logs) + 1, status |-> "failed"]
  <2>1. ~(pass.last # NoLog /\ MarkLast(pass.last))
    BY <1>1, LogMarked DEF StageInv
  <2> QED
    BY <1>1, <1>2, <1>5, <2>1 DEF Fails
<1>6. logs' # logs /\ ~Raises
  BY <1>1, LogMarked DEF Raises, StageInv
<1>7. (\E a \in pass.mailed : Records(a)) \/ (\E a \in pass.batch : Fails(a))
  BY <1>6, KindsOfSteps DEF Moves, TakesBatch, Notifies, Mails
<1>8. "sent" \in {"sent", "failed"} /\ "failed" \in {"sent", "failed"} /\ TRUE \in BOOLEAN /\ FALSE \in BOOLEAN
  OBVIOUS
<1>9. CASE \E a \in pass.mailed : Records(a)
  BY <1>2, <1>3, <1>4, <1>8, <1>9
<1>10. CASE \E a \in pass.batch : Fails(a)
  BY <1>2, <1>3, <1>5, <1>8, <1>10
<1> QED
  BY <1>7, <1>9, <1>10

LEMMA LedgerStep ==
  ASSUME BulkEmailAssumption, TypeOK, StageInv, RowInv, LedgerInv, CountInv, Process
  PROVE  LedgerInv'
<1>1. /\ pass \in Pass /\ logs \in Seq(Log) /\ logs' \in Seq(Log) /\ TypeOK' /\ StageInv'
      /\ DOMAIN logs \subseteq DOMAIN logs'
  BY ProcessTyped, LogStep DEF TypeOK
<1>2. \A i \in DOMAIN logs' : logs'[i] \in Log
  <2>1. logs' \in [1 .. Len(logs') -> Log] /\ DOMAIN logs' = 1 .. Len(logs')
    BY <1>1, LenProperties
  <2> QED
    BY <2>1
<1>3. MailedInv'
  <2>1. CASE pass'.mailed = {}
    BY <2>1 DEF MailedInv
  <2>2. CASE \E a \in pass.batch : Mails(a)
    <3>1. PICK a \in pass.batch : Mails(a)
      BY <2>2
    <3>2. logs' = logs /\ Job' = Job /\ pass'.mailed = {a}
      BY <3>1 DEF Mails, SamePass, Job
    <3> QED
      BY <3>2 DEF MailedInv, RowInv, BatchInv
  <2> QED
    BY <2>1, <2>2, KindsOfSteps, NoPassType
       DEF Moves, TakesBatch, Raises, Notifies, Fails, Continues, Records
<1>4. ASSUME NEW n \in DOMAIN logs' \ DOMAIN logs, NEW k \in DOMAIN logs,
             logs'[n].job = logs'[k].job, logs'[n].to = logs'[k].to
      PROVE  logs'[k].status = "opened"
  <2>1. logs'[k] = logs[k] /\ logs'[n].job = Job /\ logs'[n].to \in pass.batch \cup pass.mailed
    BY RowAdded
  <2> QED
    BY <1>4, <2>1 DEF RowInv, BatchInv, LedgerInv, MailedInv
<1>5. PairInv'
  <2> SUFFICES ASSUME NEW i \in DOMAIN logs', NEW k \in DOMAIN logs', i # k,
                      logs'[i].job = logs'[k].job, logs'[i].to = logs'[k].to
               PROVE  logs'[i].status = "opened" \/ logs'[k].status = "opened"
    BY DEF PairInv
  <2>1. CASE i \in DOMAIN logs /\ k \in DOMAIN logs
    <3>1. /\ logs[i].job = logs[k].job /\ logs[i].to = logs[k].to
          /\ logs'[i] = logs[i] \/ (pass.last # NoLog /\ i = pass.last.row)
          /\ logs'[k] = logs[k] \/ (pass.last # NoLog /\ k = pass.last.row)
      BY <2>1, LogStep
    <3>2. CASE logs'[i] = logs[i] /\ logs'[k] = logs[k]
      BY <2>1, <3>1, <3>2 DEF LedgerInv, PairInv
    <3>3. CASE pass.last # NoLog /\ i = pass.last.row
      BY <2>1, <3>1, <3>3 DEF LedgerInv, LastPairInv
    <3>4. CASE pass.last # NoLog /\ k = pass.last.row
      BY <2>1, <3>1, <3>4 DEF LedgerInv, LastPairInv
    <3> QED
      BY <3>1, <3>2, <3>3, <3>4
  <2>2. CASE i \notin DOMAIN logs /\ k \notin DOMAIN logs
    <3>1. DOMAIN logs' = DOMAIN logs \cup {i}
      BY <2>2, RowAdded
    <3> QED
      BY <2>2, <3>1
  <2> QED
    BY <1>4, <2>1, <2>2
<1>6. LastPairInv'
  <2> SUFFICES ASSUME pass'.last # NoLog, NEW i \in DOMAIN logs', i # pass'.last.row,
                      logs'[i].job = logs'[pass'.last.row].job, logs'[i].to = logs'[pass'.last.row].to
               PROVE  logs'[i].status = "opened"
    BY DEF LastPairInv
  <2>1. CASE pass'.last.row \in DOMAIN logs' \ DOMAIN logs
    <3>1. i \in DOMAIN logs
      BY <2>1, RowAdded
    <3> QED
      BY <1>4, <2>1, <3>1
  <2>2. CASE pass.last # NoLog /\ pass'.last.row = pass.last.row
    <3>1. pass.last.row \in DOMAIN logs
      BY <2>2 DEF StageInv
    <3>2. i \in DOMAIN logs
      BY <2>2, <3>1, RowAdded
    <3>3. logs'[i] = logs[i] /\ logs[i].job = logs[pass.last.row].job /\ logs[i].to = logs[pass.last.row].to
      BY <2>2, <3>1, <3>2, LogStep
    <3> QED
      BY <2>2, <3>2, <3>3 DEF LedgerInv, LastPairInv
  <2> QED
    BY <2>1, <2>2, LogStep
<1>7. \A j \in Jobs : status[j] # "absent" => status'[j] # "absent"
  BY StatusStep
<1>8. ThereInv'
  <2>1. ASSUME NEW i \in DOMAIN logs' PROVE status'[logs'[i].job] # "absent"
    <3>1. CASE i \in DOMAIN logs
      <4>1. logs'[i].job = logs[i].job /\ logs'[i].job \in Jobs
        BY <1>2, <3>1, LogStep DEF Log
      <4> QED
        BY <1>7, <3>1, <4>1 DEF LedgerInv, ThereInv
    <3>2. CASE i \notin DOMAIN logs
      <4>1. logs'[i].job = Job /\ Job \in Jobs /\ pass.todo # <<>>
        BY <3>2, RowAdded
      <4>2. 1 \in DOMAIN pass.todo /\ Job = pass.todo[1].job
        BY <1>1, <4>1, TodoParts
      <4> QED
        BY <1>7, <4>1, <4>2 DEF LedgerInv, ThereInv
    <3> QED
      BY <3>1, <3>2
  <2>2. ASSUME NEW i \in DOMAIN pass'.todo PROVE status'[pass'.todo[i].job] # "absent"
    <3>1. pass'.todo[i].job \in Jobs
      <4>1. pass'.todo \in Seq(Picked)
        BY <1>1 DEF TypeOK, Pass, Picked
      <4>2. pass'.todo \in [1 .. Len(pass'.todo) -> Picked] /\ DOMAIN pass'.todo = 1 .. Len(pass'.todo)
        BY <4>1, LenProperties
      <4> QED
        BY <4>2 DEF Picked
    <3>2. (\E k \in DOMAIN pass.todo : pass'.todo[i] = pass.todo[k]) \/ status[pass'.todo[i].job] \in Active
      BY TodoStep
    <3> QED
      BY <1>7, <3>1, <3>2 DEF LedgerInv, ThereInv, Active
  <2> QED
    BY <2>1, <2>2 DEF ThereInv
<1>9. SameInv'
  <2> SUFFICES ASSUME NEW j \in Jobs \ blurred', NEW i \in DOMAIN logs', logs'[i].job = j
               PROVE  logs'[i].to \in recipients
    <3>1. recipients' = recipients
      BY StatusStep
    <3> QED
      BY <3>1 DEF SameInv, Tos, RowsOf
  <2>1. blurred \subseteq blurred'
    BY KindsOfSteps DEF Moves, TakesBatch, Raises, Notifies, Fails, Mails, Records
  <2>2. CASE i \in DOMAIN logs
    BY <2>1, <2>2, LogStep DEF LedgerInv, SameInv, Tos, RowsOf
  <2>3. CASE i \notin DOMAIN logs
    BY <2>1, <2>3, RowAdded DEF CountInv
  <2> QED
    BY <2>2, <2>3
<1> QED
  BY <1>3, <1>5, <1>6, <1>8, <1>9 DEF LedgerInv

LEMMA LedgerRequest ==
  ASSUME BulkEmailAssumption, TypeOK, StageInv, LedgerInv, Requests
  PROVE  LedgerInv'
<1>1. UNCHANGED <<pass, mails, lost>> /\ Job' = Job /\ logs \in Seq(Log)
  BY RequestLogs DEF TypeOK, Job
<1>2. /\ DOMAIN logs' = DOMAIN logs
      /\ \A i \in DOMAIN logs : /\ logs'[i].job = logs[i].job /\ logs'[i].to = logs[i].to
                                /\ logs[i].status = "opened" => logs'[i].status = "opened"
                                /\ logs[i].job \in Jobs
  <2>1. \A i \in DOMAIN logs : logs[i].job \in Jobs
    <3>1. logs \in [1 .. Len(logs) -> Log] /\ DOMAIN logs = 1 .. Len(logs)
      BY <1>1, LenProperties
    <3> QED
      BY <3>1 DEF Log
  <2>2. CASE logs' = logs
    BY <2>1, <2>2
  <2>3. ASSUME NEW k \in DOMAIN logs, Open(k)
        PROVE  /\ DOMAIN logs' = DOMAIN logs
               /\ \A i \in DOMAIN logs : /\ logs'[i].job = logs[i].job /\ logs'[i].to = logs[i].to
                                         /\ logs[i].status = "opened" => logs'[i].status = "opened"
    BY <1>1, <2>3, LogOpened
  <2> QED
    BY <2>1, <2>2, <2>3, RequestLogs
<1>3. MailedInv' /\ PairInv'
  BY <1>1, <1>2 DEF LedgerInv, MailedInv, PairInv
<1>4. LastPairInv'
  BY <1>1, <1>2 DEF LedgerInv, LastPairInv, StageInv
<1>5. \A j \in Jobs : status[j] # "absent" => status'[j] # "absent"
  BY DEF Requests, Create, Tick, CancelCheck, CancelWrite, Open, Change, TypeOK, others
<1>6. \A i \in DOMAIN pass.todo : pass.todo[i].job \in Jobs
  <2>1. pass.todo \in Seq(Picked)
    BY DEF TypeOK, Pass, Picked
  <2>2. pass.todo \in [1 .. Len(pass.todo) -> Picked] /\ DOMAIN pass.todo = 1 .. Len(pass.todo)
    BY <2>1, LenProperties
  <2> QED
    BY <2>2 DEF Picked
<1>7. ThereInv'
  BY <1>1, <1>2, <1>5, <1>6 DEF LedgerInv, ThereInv
<1>8. SameInv'
  <2>1. CASE recipients' = recipients /\ blurred' = blurred
    BY <1>2, <2>1 DEF LedgerInv, SameInv, Tos, RowsOf
  <2>2. CASE blurred' = blurred \cup {j \in Jobs : status[j] # "absent"}
    BY <1>2, <2>2 DEF LedgerInv, ThereInv, SameInv, Tos, RowsOf
  <2> QED
    BY <2>1, <2>2 DEF Requests, Create, Tick, CancelCheck, CancelWrite, Open, Change, others
<1> QED
  BY <1>3, <1>4, <1>7, <1>8 DEF LedgerInv

LEMMA LedgerCrash ==
  ASSUME TypeOK, LedgerInv, Crash
  PROVE  LedgerInv'
<1>1. /\ UNCHANGED <<status, logs, recipients, blurred>>
      /\ pass'.mailed = {} /\ pass'.last = NoLog /\ pass'.todo = <<>>
  BY DEF Crash, NoPass
<1> QED
  BY <1>1 DEF LedgerInv, MailedInv, PairInv, LastPairInv, ThereInv, SameInv, Tos, RowsOf

\* Sets of attendees are finite.
LEMMA AttendeesFinite ==
  ASSUME BulkEmailAssumption, NEW S \in SUBSET Attendees
  PROVE  IsFiniteSet(S) /\ Cardinality(S) \in Nat
BY FS_Subset, FS_CardinalityType DEF BulkEmailAssumption

\* The logs that count are of different attendees.
LEMMA ProcessedCounted ==
  ASSUME BulkEmailAssumption, TypeOK, PairInv, NEW j \in Jobs
  PROVE  /\ Processed(j) \subseteq Attendees /\ Processed(j) \subseteq Tos(j) /\ Tos(j) \subseteq Attendees
         /\ Count(j, "sent") \in Nat /\ Count(j, "failed") \in Nat
         /\ Count(j, "sent") + Count(j, "failed") <= Cardinality(Processed(j))
<1>1. \A i \in DOMAIN logs : logs[i] \in Log
  <2>1. logs \in [1 .. Len(logs) -> Log] /\ DOMAIN logs = 1 .. Len(logs)
    BY LenProperties DEF TypeOK
  <2> QED
    BY <2>1
<1> DEFINE sent == {i \in RowsOf(j) : logs[i].status = "sent"}
           failed == {i \in RowsOf(j) : logs[i].status = "failed"}
           done == {k \in RowsOf(j) : logs[k].status \in {"sent", "failed"}}
           f == [i \in done |-> logs[i].to]
<1>2. Processed(j) \subseteq Attendees /\ Processed(j) \subseteq Tos(j) /\ Tos(j) \subseteq Attendees
  BY <1>1 DEF Processed, Tos, RowsOf, Log
<1>3. f \in Injection(done, Processed(j))
  <2>1. f \in [done -> Processed(j)]
    BY DEF Processed
  <2>2. ASSUME NEW i \in done, NEW k \in done, f[i] = f[k] PROVE i = k
    BY <2>2 DEF PairInv, RowsOf
  <2> QED
    BY <2>1, <2>2 DEF Injection, IsInjective
<1>4. IsFiniteSet(Processed(j)) /\ Cardinality(Processed(j)) \in Nat
  BY <1>2, AttendeesFinite
<1>5. IsFiniteSet(done) /\ Cardinality(done) <= Cardinality(Processed(j))
  BY <1>3, <1>4, FS_Injection
<1>6. sent \cup failed = done /\ sent \cap failed = {} /\ sent \subseteq done /\ failed \subseteq done
  OBVIOUS
<1> HIDE DEF sent, failed, done, f
<1>7. IsFiniteSet(sent) /\ IsFiniteSet(failed)
  BY <1>5, <1>6, FS_Subset
<1>8. Cardinality(sent) \in Nat /\ Cardinality(failed) \in Nat
  BY <1>7, FS_CardinalityType
<1>9. Cardinality(done) = Cardinality(sent) + Cardinality(failed) - Cardinality({})
  BY <1>6, <1>7, FS_Union
<1>10. Count(j, "sent") = Cardinality(sent) /\ Count(j, "failed") = Cardinality(failed)
  BY DEF Count, sent, failed
<1> QED
  BY <1>2, <1>4, <1>5, <1>8, <1>9, <1>10, FS_EmptySet

LEMMA TosAppended ==
  ASSUME logs \in Seq(Log), Job \in Jobs, NEW a \in Attendees, NEW s \in {"sent", "failed"},
         NEW m \in BOOLEAN, Logged(a, s, m), NEW j, j = Job
  PROVE  Tos(j)' = Tos(j) \cup {a}
<1> DEFINE n == Len(logs) + 1
           log == [job |-> Job, to |-> a, status |-> s, mailed |-> m, opened |-> FALSE]
<1>1. /\ DOMAIN logs' = DOMAIN logs \cup {n} /\ n \notin DOMAIN logs
      /\ \A i \in DOMAIN logs : logs'[i] = logs[i]
      /\ logs'[n] = log
  BY LogAppended
<1>2. log.job = j /\ log.to = a
  OBVIOUS
<1> HIDE DEF n, log
<1> QED
  BY <1>1, <1>2 DEF Tos, RowsOf

LEMMA TosKept ==
  ASSUME DOMAIN logs' = DOMAIN logs, NEW j,
         \A i \in DOMAIN logs : logs'[i].job = logs[i].job /\ logs'[i].to = logs[i].to
  PROVE  Tos(j)' = Tos(j)
BY DEF Tos, RowsOf

LEMMA CountStep ==
  ASSUME BulkEmailAssumption, TypeOK, StageInv, RowInv, LedgerInv, CountInv, Process
  PROVE  CountInv'
<1> SUFFICES ASSUME pass'.pc \in {"batch", "logged"}, Job' \notin blurred'
             PROVE  /\ pass'.batch \cup pass'.mailed \subseteq recipients'
                    /\ pass'.target = Cardinality(recipients')
                    /\ Counted' <= Cardinality(Reached')
  BY DEF CountInv
<1>1. /\ pass \in Pass /\ pass' \in Pass /\ logs \in Seq(Log) /\ recipients \subseteq Attendees
      /\ pass.batch \subseteq Attendees /\ pass.mailed \subseteq Attendees
      /\ recipients' = recipients /\ pass.sent \in Nat /\ pass.failed \in Nat
  BY ProcessTyped, StatusStep DEF TypeOK, Pass
<1>2. pass.pc \in {"begun", "batch", "logged"} /\ pass'.todo = pass.todo /\ Job' = Job /\ Job \in Jobs
  <2>1. pass.pc \in {"begun", "batch", "logged"} /\ pass'.todo = pass.todo
    BY KindsOfSteps, NoPassType
       DEF Moves, TakesBatch, Raises, Notifies, Fails, Continues, Mails, Records, SamePass, NoPass
  <2>2. pass.todo # <<>>
    BY <2>1 DEF StageInv
  <2> QED
    BY <1>1, <2>1, <2>2, JobType DEF Job
<1>3. PICK j \in Jobs : j = Job /\ j = Job'
  BY <1>2
<1>4. Reached = Tos(j) \cup pass.batch \cup pass.mailed
      /\ Reached' = Tos(j)' \cup pass'.batch \cup pass'.mailed
  BY <1>3 DEF Reached
<1>5. /\ IsFiniteSet(pass.batch) /\ Cardinality(pass.batch) \in Nat
      /\ Cardinality(pass.mailed) \in Nat /\ Cardinality({}) = 0
  BY <1>1, AttendeesFinite, FS_EmptySet
<1>nat. /\ pass.sent \in Nat /\ pass.failed \in Nat /\ Cardinality(pass.batch) \in Nat
        /\ Cardinality({}) = 0
  BY <1>1, <1>5
<1>6. /\ Processed(j) \subseteq Attendees /\ Processed(j) \subseteq Tos(j) /\ Tos(j) \subseteq Attendees
      /\ Count(j, "sent") \in Nat /\ Count(j, "failed") \in Nat
      /\ Count(j, "sent") + Count(j, "failed") <= Cardinality(Processed(j))
  BY ProcessedCounted DEF LedgerInv
<1>7. Reached \subseteq Attendees /\ Cardinality(Reached) \in Nat
  BY <1>1, <1>4, <1>6, AttendeesFinite
<1>8. CASE TakesBatch
  <2> DEFINE batch == pass'.batch
  <2>1. /\ pass'.sent = Count(j, "sent") /\ pass'.failed = Count(j, "failed") /\ pass'.mailed = {}
        /\ pass'.pc = "batch" /\ logs' = logs /\ batch \subseteq recipients \ Processed(j)
        /\ pass'.target = Cardinality(recipients)
    BY <1>3, <1>8 DEF TakesBatch
  <2>2. Tos(j)' = Tos(j)
    BY <2>1, TosKept
  <2>3. Counted' = Count(j, "sent") + Count(j, "failed") + Cardinality(batch)
    <3>1. Counted' = pass'.sent + pass'.failed + Cardinality(pass'.batch) + Cardinality(pass'.mailed) + 0
      BY <2>1 DEF Counted
    <3>2. Cardinality(pass'.batch) \in Nat
      BY <1>1, <2>1, AttendeesFinite
    <3> QED
      BY <1>5, <1>6, <2>1, <3>1, <3>2
  <2>4. Reached' = Tos(j) \cup batch
    BY <1>4, <2>1, <2>2
  <2> HIDE DEF batch
  <2>5. batch \subseteq Attendees /\ batch \cap Processed(j) = {}
    BY <1>1, <2>1
  <2>6. /\ IsFiniteSet(batch) /\ IsFiniteSet(Processed(j)) /\ IsFiniteSet(Tos(j) \cup batch)
        /\ Cardinality(batch) \in Nat /\ Cardinality(Processed(j)) \in Nat
        /\ Cardinality(Tos(j) \cup batch) \in Nat
    BY <1>6, <2>5, AttendeesFinite
  <2>7. Cardinality(Processed(j) \cup batch)
          = Cardinality(Processed(j)) + Cardinality(batch) - Cardinality(Processed(j) \cap batch)
    BY <2>6, FS_Union
  <2>8. Cardinality(Processed(j) \cap batch) = 0
    BY <1>5, <2>5
  <2>9. Cardinality(Processed(j) \cup batch) <= Cardinality(Tos(j) \cup batch)
    BY <1>6, <2>6, FS_Subset
  <2>10. Counted' <= Cardinality(Reached')
    BY <1>6, <2>3, <2>4, <2>6, <2>7, <2>8, <2>9
  <2> QED
    BY <1>1, <2>1, <2>10 DEF batch
<1>9. ASSUME pass.pc \in {"batch", "logged"}
      PROVE  /\ Job \notin blurred /\ pass.batch \cup pass.mailed \subseteq recipients
             /\ pass.target = Cardinality(recipients) /\ Counted <= Cardinality(Reached)
             /\ Counted \in Nat
  <2>1. blurred \subseteq blurred'
    BY KindsOfSteps DEF Moves, TakesBatch, Raises, Notifies, Fails, Mails, Records
  <2>2. Job \notin blurred
    BY <1>2, <2>1
  <2>3. Counted \in Nat
    <3> DEFINE b == Cardinality(pass.batch)
               m == Cardinality(pass.mailed)
               l == IF pass.pc = "logged" THEN 1 ELSE 0
    <3>1. b \in Nat /\ m \in Nat /\ l \in Nat /\ pass.sent \in Nat /\ pass.failed \in Nat
      BY <1>1, <1>5
    <3>2. Counted = pass.sent + pass.failed + b + m + l
      BY DEF Counted
    <3> HIDE DEF b, m, l
    <3> QED
      BY <3>1, <3>2
  <2> QED
    BY <1>9, <2>2, <2>3 DEF CountInv
<1>10. ASSUME Counted' = Counted, Reached' = Reached, pass.pc \in {"batch", "logged"},
              pass'.target = pass.target, pass'.batch \cup pass'.mailed \subseteq pass.batch \cup pass.mailed
       PROVE  /\ pass'.batch \cup pass'.mailed \subseteq recipients'
              /\ pass'.target = Cardinality(recipients')
              /\ Counted' <= Cardinality(Reached')
  BY <1>1, <1>9, <1>10
<1>11. CASE Raises \/ Notifies
  <2>1. /\ pass.pc = "logged" /\ pass'.pc = "batch" /\ pass'.batch = pass.batch /\ pass'.mailed = {}
        /\ pass'.target = pass.target
        /\ \/ pass'.sent = pass.sent + 1 /\ pass'.failed = pass.failed
           \/ pass'.sent = pass.sent /\ pass'.failed = pass.failed + 1
    BY <1>11 DEF Raises, Notifies, Continues, SamePass
  <2>2. pass.mailed = {}
    BY <2>1 DEF TypeOK
  <2>3. Counted' = Counted
    <3>1. /\ Counted = pass.sent + pass.failed + Cardinality(pass.batch) + Cardinality({}) + 1
          /\ Counted' = pass'.sent + pass'.failed + Cardinality(pass.batch) + Cardinality({}) + 0
      BY <2>1, <2>2 DEF Counted
    <3> QED
      BY <1>nat, <2>1, <3>1
  <2>4. Tos(j)' = Tos(j)
    <3>1. CASE logs' = logs
      BY <3>1, TosKept
    <3>2. CASE Raises
      <4>1. pass.last.row \in DOMAIN logs /\ MarkLast(pass.last)
        BY <2>1, <3>2 DEF Raises, StageInv
      <4> QED
        BY <1>1, <4>1, LogMarked, TosKept
    <3> QED
      BY <1>11, <3>1, <3>2 DEF Notifies
  <2>5. Reached' = Reached
    BY <1>4, <2>1, <2>2, <2>4
  <2> QED
    BY <1>10, <2>1, <2>3, <2>5
<1>12. ASSUME NEW a \in pass.batch
       PROVE  /\ a \in Attendees
              /\ Cardinality(pass.batch \ {a}) = Cardinality(pass.batch) - 1 /\ Cardinality({a}) = 1
  <2>1. Cardinality(pass.batch \ {a})
          = IF a \in pass.batch THEN Cardinality(pass.batch) - 1 ELSE Cardinality(pass.batch)
    BY <1>5, FS_RemoveElement
  <2>2. Cardinality({a}) = 1
    BY FS_Singleton
  <2> QED
    BY <1>1, <1>12, <2>1, <2>2
<1>13. ASSUME NEW a \in pass.batch, Mails(a)
       PROVE  /\ pass'.batch \cup pass'.mailed \subseteq recipients'
              /\ pass'.target = Cardinality(recipients')
              /\ Counted' <= Cardinality(Reached')
  <2>1. /\ pass.pc = "batch" /\ pass'.pc = "batch" /\ pass'.batch = pass.batch \ {a}
        /\ pass.mailed = {} /\ pass'.mailed = {a} /\ pass'.target = pass.target /\ logs' = logs
        /\ pass'.sent = pass.sent /\ pass'.failed = pass.failed
    BY <1>13 DEF Mails, SamePass
  <2>2. Counted' = Counted
    <3>1. Cardinality(pass.batch \ {a}) = Cardinality(pass.batch) - 1 /\ Cardinality({a}) = 1
      BY <1>12
    <3>2. /\ Counted = pass.sent + pass.failed + Cardinality(pass.batch) + Cardinality({}) + 0
          /\ Counted' = pass.sent + pass.failed + Cardinality(pass.batch \ {a}) + Cardinality({a}) + 0
      BY <2>1 DEF Counted
    <3> QED
      BY <1>nat, <3>1, <3>2
  <2>3. Tos(j)' = Tos(j)
    BY <2>1, TosKept
  <2>4. Reached' = Reached
    BY <1>4, <2>1, <2>3
  <2> QED
    BY <1>10, <2>1, <2>2, <2>4
<1>14. ASSUME NEW a \in pass.mailed, Records(a)
       PROVE  /\ pass'.batch \cup pass'.mailed \subseteq recipients'
              /\ pass'.target = Cardinality(recipients')
              /\ Counted' <= Cardinality(Reached')
  <2>1. /\ pass.pc = "batch" /\ pass'.pc = "logged" /\ pass'.batch = pass.batch
        /\ pass'.mailed = {} /\ pass'.target = pass.target /\ Logged(a, "sent", TRUE)
        /\ pass'.sent = pass.sent /\ pass'.failed = pass.failed /\ a \in Attendees
    BY <1>1, <1>14 DEF Records, SamePass
  <2>2. pass.mailed = {a}
    BY <1>14 DEF StageInv
  <2>3. Counted' = Counted
    <3>1. Cardinality({a}) = 1
      BY FS_Singleton
    <3>2. /\ Counted = pass.sent + pass.failed + Cardinality(pass.batch) + Cardinality({a}) + 0
          /\ Counted' = pass.sent + pass.failed + Cardinality(pass.batch) + Cardinality({}) + 1
      BY <2>1, <2>2 DEF Counted
    <3> QED
      BY <1>nat, <3>1, <3>2
  <2>4. Tos(j)' = Tos(j) \cup {a}
    BY <1>1, <1>2, <1>3, <2>1, TosAppended
  <2>5. Reached' = Reached
    BY <1>4, <2>1, <2>2, <2>4
  <2> QED
    BY <1>10, <2>1, <2>3, <2>5
<1>15. ASSUME NEW a \in pass.batch, Fails(a)
       PROVE  /\ pass'.batch \cup pass'.mailed \subseteq recipients'
              /\ pass'.target = Cardinality(recipients')
              /\ Counted' <= Cardinality(Reached')
  <2>1. /\ pass.pc = "batch" /\ pass'.pc = "batch" /\ pass'.batch = pass.batch \ {a}
        /\ pass.mailed = {} /\ pass'.mailed = {} /\ pass'.target = pass.target
        /\ pass'.sent = pass.sent /\ pass'.failed = pass.failed + 1
    BY <1>15 DEF Fails, Continues
  <2>2. Logged(a, "failed", FALSE)
    BY <1>2, <1>15 DEF Fails
  <2>3. Counted' = Counted
    <3>1. Cardinality(pass.batch \ {a}) = Cardinality(pass.batch) - 1
      BY <1>12
    <3>2. /\ Counted = pass.sent + pass.failed + Cardinality(pass.batch) + Cardinality({}) + 0
          /\ Counted' = pass.sent + (pass.failed + 1) + Cardinality(pass.batch \ {a}) + Cardinality({}) + 0
      BY <2>1 DEF Counted
    <3> QED
      BY <1>nat, <3>1, <3>2
  <2>4. Tos(j)' = Tos(j) \cup {a}
    BY <1>1, <1>2, <1>3, <1>12, <1>15, <2>2, TosAppended
  <2>5. Reached' = Reached
    BY <1>4, <2>1, <2>4
  <2> QED
    BY <1>10, <2>1, <2>3, <2>5
<1>16. ~Moves
  BY NoPassType DEF Moves, NoPass
<1> QED
  BY <1>8, <1>11, <1>13, <1>14, <1>15, <1>16, KindsOfSteps

LEMMA CountRequest ==
  ASSUME BulkEmailAssumption, TypeOK, StageInv, LedgerInv, CountInv, Requests
  PROVE  CountInv'
<1> SUFFICES ASSUME pass'.pc \in {"batch", "logged"}, Job' \notin blurred'
             PROVE  /\ pass'.batch \cup pass'.mailed \subseteq recipients'
                    /\ pass'.target = Cardinality(recipients')
                    /\ Counted' <= Cardinality(Reached')
  BY DEF CountInv
<1>1. UNCHANGED <<pass, mails, lost>> /\ Job' = Job /\ logs \in Seq(Log) /\ Counted' = Counted
  BY RequestLogs DEF TypeOK, Job, Counted
<1>2. pass.todo # <<>> /\ Job \in Jobs /\ status[Job] # "absent"
  <2>1. pass.todo # <<>>
    BY <1>1 DEF StageInv
  <2>2. 1 \in DOMAIN pass.todo /\ Job = pass.todo[1].job /\ Job \in Jobs
    BY <2>1, TodoParts, JobType DEF TypeOK
  <2> QED
    BY <2>1, <2>2 DEF LedgerInv, ThereInv
<1>3. recipients' = recipients /\ blurred' = blurred
  BY <1>1, <1>2 DEF Requests, Create, Tick, CancelCheck, CancelWrite, Open, Change, others
<1>4. PICK j \in Jobs : j = Job /\ j = Job'
  BY <1>1, <1>2
<1>5. Tos(j)' = Tos(j)
  <2>1. CASE logs' = logs
    BY <2>1, TosKept
  <2>2. CASE \E k \in DOMAIN logs : Open(k)
    BY <1>1, <2>2, LogOpened, TosKept
  <2> QED
    BY <2>1, <2>2, RequestLogs
<1>6. Reached' = Reached
  BY <1>1, <1>4, <1>5 DEF Reached
<1> QED
  BY <1>1, <1>3, <1>6 DEF CountInv

LEMMA CountCrash ==
  ASSUME Crash
  PROVE  CountInv'
BY DEF Crash, NoPass, CountInv

\* A job is completed when there is nobody left or the counts reach the target.
LEMMA CompletedBy ==
  ASSUME BulkEmailAssumption, TypeOK, StageInv, Process, NEW j \in Jobs,
         status[j] # "completed", status'[j] = "completed"
  PROVE  /\ j = Job
         /\ NobodyLeft \/ (Finish /\ pass.sent + pass.failed >= pass.target)
<1>1. j = Job /\ pass.todo # <<>>
  BY StatusStep
<1>2. status' # status /\ status \in [Jobs -> Status]
  BY DEF TypeOK
<1>3. ~(Select \/ NotDue \/ EndPass \/ TakeBatch \/ Record \/ Notified \/ \E a \in pass.batch : Mail(a))
  BY <1>2 DEF Select, NotDue, EndPass, TakeBatch, Record, Notified, Mail
<1>4. ~(Begin \/ JobFails)
  BY <1>1, <1>2 DEF Begin, JobFails, Done
<1>5. ~\E raised \in BOOLEAN : NotifyRaises(raised)
  BY <1>1, <1>2 DEF NotifyRaises, Caught
<1>6. ~\E a \in pass.batch, raised \in BOOLEAN : RenderFails(a, raised) \/ MailRefused(a, raised)
  BY <1>1, <1>2 DEF RenderFails, MailRefused, Caught
<1>7. CASE Finish
  BY <1>1, <1>2, <1>7 DEF Finish
<1> QED
  BY <1>1, <1>3, <1>4, <1>5, <1>6, <1>7 DEF Process

\* A job whose recipients stayed the same, and whose failures were put down to nobody
\* else, is completed only when every recipient has a log.
THEOREM CompletionLogged == Spec => CompletedIsLogged
<1> DEFINE Inv == TypeOK /\ StageInv /\ RowInv /\ LedgerInv /\ CountInv
<1>1. Init => RowInv /\ LedgerInv /\ CountInv
  <2> SUFFICES ASSUME Init PROVE RowInv /\ LedgerInv /\ CountInv
    OBVIOUS
  <2>1. /\ logs = <<>> /\ DOMAIN logs = {} /\ pass.batch = {} /\ pass.mailed = {} /\ pass.pc = "none"
        /\ pass.last = NoLog /\ pass.todo = <<>>
    BY DEF Init, NoPass
  <2> QED
    BY <2>1 DEF RowInv, OrderInv, LastInv, OpenInv, BatchInv, Distinct, LedgerInv, MailedInv, PairInv,
                LastPairInv, ThereInv, SameInv, Tos, RowsOf, CountInv
<1>2. Inv /\ [Next]_vars => (RowInv /\ LedgerInv /\ CountInv)'
  <2> SUFFICES ASSUME Inv, [Next]_vars PROVE (RowInv /\ LedgerInv /\ CountInv)'
    OBVIOUS
  <2>1. CASE UNCHANGED vars
    BY <2>1 DEF vars, RowInv, OrderInv, LastInv, OpenInv, BatchInv, Distinct, LedgerInv, MailedInv,
                PairInv, LastPairInv, ThereInv, SameInv, Tos, RowsOf, CountInv, Counted, Reached, Job
  <2>2. CASE Process
    BY <2>2, RowStep, LedgerStep, CountStep, BulkEmailAssumption
  <2>3. CASE Requests
    BY <2>3, RowRequest, LedgerRequest, CountRequest, BulkEmailAssumption
  <2>4. CASE Crash
    BY <2>4, RowCrash, LedgerCrash, CountCrash, BulkEmailAssumption
  <2> QED
    BY <2>1, <2>2, <2>3, <2>4 DEF Next
<1>3. ASSUME Inv, [Next]_vars, NEW j \in Jobs \ blurred,
             status[j] # "completed", status'[j] = "completed"
      PROVE  recipients \subseteq Tos(j)
  <2>1. Process
    <3>1. ~(UNCHANGED vars) /\ ~Crash
      BY <1>3 DEF vars, Crash
    <3>2. ~Requests
      BY <1>3 DEF Requests, Create, Tick, CancelCheck, CancelWrite, Open, Change, TypeOK
    <3> QED
      BY <1>3, <3>1, <3>2 DEF Next
  <2>2. j = Job /\ (NobodyLeft \/ (Finish /\ pass.sent + pass.failed >= pass.target))
    BY <1>3, <2>1, CompletedBy, BulkEmailAssumption
  <2>3. CASE NobodyLeft
    BY <1>3, <2>2, <2>3, ProcessedCounted, BulkEmailAssumption DEF NobodyLeft, LedgerInv
  <2>4. CASE Finish /\ pass.sent + pass.failed >= pass.target
    <3>1. /\ pass.pc = "batch" /\ pass.batch = {} /\ pass.mailed = {} /\ Job \notin blurred
          /\ recipients \subseteq Attendees /\ pass.sent \in Nat /\ pass.failed \in Nat
      BY <1>3, <2>2, <2>4 DEF Finish, TypeOK, Pass
    <3>2. /\ pass.target = Cardinality(recipients) /\ Counted <= Cardinality(Reached)
          /\ Reached = Tos(j) /\ Tos(j) \subseteq recipients
      BY <1>3, <2>2, <3>1 DEF CountInv, Reached, LedgerInv, SameInv
    <3>3. Counted = pass.sent + pass.failed
      <4>1. Cardinality({}) = 0
        BY FS_EmptySet
      <4> QED
        BY <3>1, <4>1 DEF Counted
    <3>4. /\ IsFiniteSet(recipients) /\ Cardinality(recipients) \in Nat /\ Cardinality(Tos(j)) \in Nat
      BY <3>1, <3>2, AttendeesFinite, BulkEmailAssumption
    <3>5. Cardinality(Tos(j)) <= Cardinality(recipients)
      BY <3>2, <3>4, FS_Subset
    <3>6. Cardinality(recipients) = Cardinality(Tos(j))
      BY <2>4, <3>1, <3>2, <3>3, <3>4, <3>5
    <3> QED
      BY <3>2, <3>4, <3>6, FS_Subset
  <2> QED
    BY <2>2, <2>3, <2>4
<1>4. Inv /\ [Next]_vars =>
        [\A j \in Jobs \ blurred : status[j] # "completed" /\ status'[j] = "completed" =>
           recipients \subseteq {logs[i].to : i \in RowsOf(j)}]_vars
  BY <1>3 DEF Tos
<1> QED
  BY <1>1, <1>2, <1>4, TypeCorrect, PTL DEF Spec, CompletedIsLogged
=============================================================================
