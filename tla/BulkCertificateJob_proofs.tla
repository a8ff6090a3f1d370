---------------------- MODULE BulkCertificateJob_proofs ----------------------
(***************************************************************************)
(* Proofs about BulkCertificateJob, for every value of its constants.       *)
(***************************************************************************)
EXTENDS BulkCertificateJob, FiniteSetTheorems, WellFoundedInduction, TLAPS

USE DEF people

Chunking(d) == run[d].pc = "holding"

\* Whoever holds the rows holds those of an unfinished job, alone, has kept its names,
\* and has added certificates of that job only; whoever cancels found a job.
StageInv ==
  /\ IsFiniteSet(certs)
  /\ \A j \in cancels : job[j] # Absent
  /\ \A d \in Drivers : Chunking(d) =>
       /\ job[run[d].job].status \in Active
       /\ run[d].row.names = job[run[d].job].names
       /\ run[d].end <= Len(run[d].row.names)
       /\ IsFiniteSet(run[d].cart)
       /\ \A c \in run[d].cart : c.by = run[d].job
  /\ \A d, e \in Drivers : Chunking(d) /\ Chunking(e) => d = e

-----------------------------------------------------------------------------
(* What a step of one driver does to the others, and to itself.             *)

Runs == {Idle} \cup Picked \cup Holding

\* The control state of a driver tells the type of its session.
LEMMA Session ==
  ASSUME TypeOK, NEW d \in Drivers
  PROVE  /\ run[d].pc = "picked" => run[d] \in Picked
         /\ run[d].pc = "holding" => run[d] \in Holding
BY DEF TypeOK, Idle, Picked, Holding

\* An existing job has a row, and only it has one of the five states.
LEMMA RowOfJob ==
  ASSUME TypeOK, NEW j \in Jobs
  PROVE  /\ job[j] # Absent => job[j] \in Row
         /\ job[j].status \in Active \cup Finished => job[j] \in Row
         /\ job[j] \in Row => job[j] # Absent
BY DEF TypeOK, Absent, Row, Active, Finished

\* The end of a session, or its first step.
LEMMA GotoStep ==
  ASSUME TypeOK, NEW d \in Drivers, NEW x \in Runs, Goto(d, x)
  PROVE  /\ run' \in [Drivers -> Runs]
         /\ run'[d] = x
         /\ \A e \in Drivers \ {d} : run'[e] = run[e]
BY DEF Goto, TypeOK, Runs

\* The smaller of two numbers is one of them.
LEMMA MinOfTwo ==
  ASSUME NEW a \in Nat, NEW b \in Nat
  PROVE  Min({a, b}) \in Nat /\ Min({a, b}) <= a /\ Min({a, b}) <= b
<1>1. \E x \in {a, b} : \A y \in {a, b} : x =< y
  OBVIOUS
<1>2. Min({a, b}) \in {a, b} /\ \A y \in {a, b} : Min({a, b}) =< y
  BY <1>1 DEF Min
<1> QED
  BY <1>2

\* What a row counts are numbers, and what it lists are names.
LEMMA RowType ==
  ASSUME BulkCertificateJobAssumption, NEW r \in Row
  PROVE  /\ r.names \in Seq(Names) /\ Len(r.names) \in Nat
         /\ r.index \in Nat /\ r.index + ChunkSize \in Nat
<1>1. r.names \in NameLists /\ r.index \in Nat
  BY DEF Row
<1>2. r.names \in Seq(Names)
  BY <1>1 DEF BulkCertificateJobAssumption
<1>3. Len(r.names) \in Nat
  BY <1>2
<1> QED
  BY <1>1, <1>2, <1>3 DEF BulkCertificateJobAssumption

\* The attendee who alone has a name, if there is one.
LEMMA MatchType ==
  ASSUME NEW n
  PROVE  /\ Match(n) \in Attendees \cup {Nobody}
         /\ Match(n) # Nobody => Match(n) \in Attendees /\ name[Match(n)] = n
         /\ \A x \in Attendees : name[x] = n /\ Match(n) # x =>
              \E b \in Attendees \ {x} : name[b] = n
<1> DEFINE holders == {a \in Attendees : name[a] = n}
<1>1. CASE \E a \in holders : holders = {a}
  <2>1. PICK a \in holders : holders = {a}
    BY <1>1
  <2>2. Match(n) = CHOOSE b \in holders : TRUE
    BY <1>1 DEF Match
  <2>3. Match(n) \in holders
    BY <2>1, <2>2
  <2> QED
    BY <2>1, <2>3
<1>2. CASE ~ \E a \in holders : holders = {a}
  <2>1. Match(n) = Nobody
    BY <1>2 DEF Match
  <2>2. ASSUME NEW x \in Attendees, name[x] = n
        PROVE  \E b \in Attendees \ {x} : name[b] = n
    BY <1>2, <2>2
  <2> QED
    BY <2>1, <2>2
<1> QED
  BY <1>1, <1>2

\* The chunk that opens.
LEMMA OpenStep ==
  ASSUME BulkCertificateJobAssumption, TypeOK, NEW d \in Drivers, OpenChunk(d)
  PROVE  /\ run[d] \in Picked /\ UserFree
         /\ job[run[d].job] \in Row /\ job[run[d].job].status \in Active
         /\ run' \in [Drivers -> Runs]
         /\ run'[d] \in Holding /\ run'[d].job = run[d].job
         /\ run'[d].row = [job[run[d].job] EXCEPT !.status = "processing"]
         /\ run'[d].link = [n \in Names |-> Match(n)]
         /\ run'[d].bal = balance /\ run'[d].cart = {}
         /\ run'[d].end <= Len(job[run[d].job].names)
         /\ \A e \in Drivers \ {d} : run'[e] = run[e]
         /\ UNCHANGED <<balance, people, certs, job, cancels, crashes>>
<1> DEFINE r == job[run[d].job]
           x == Chunk(run[d].job, r)
<1>1. run[d] \in Picked /\ run[d].job \in Jobs
  BY Session DEF OpenChunk, LockJob, Picked
<1>2. r \in Row /\ r.status \in Active
  BY <1>1, RowOfJob DEF OpenChunk
<1>3. Len(r.names) \in Nat /\ r.index + ChunkSize \in Nat
  BY <1>2, RowType
<1>4. x.end \in Nat /\ x.end <= Len(r.names)
  BY <1>3, MinOfTwo DEF Chunk
<1>5. [r EXCEPT !.status = "processing"] \in Row
  BY <1>2 DEF Row, Active
<1>l. x.link \in [Names -> Attendees \cup {Nobody}]
  BY MatchType DEF Chunk
<1>6. x \in Holding
  BY <1>1, <1>4, <1>5, <1>l DEF Chunk, Holding, TypeOK
<1>7. Goto(d, x) /\ UserFree /\ UNCHANGED <<balance, people, certs, job, cancels, crashes>>
  BY DEF OpenChunk
<1>8. /\ run' \in [Drivers -> Runs] /\ run'[d] = x
      /\ \A e \in Drivers \ {d} : run'[e] = run[e]
  BY <1>6, <1>7, GotoStep DEF Runs
<1>9. /\ x.job = run[d].job /\ x.row = [r EXCEPT !.status = "processing"]
      /\ x.bal = balance /\ x.cart = {} /\ x.link = [n \in Names |-> Match(n)]
  BY DEF Chunk
<1> QED
  BY <1>1, <1>2, <1>4, <1>6, <1>7, <1>8, <1>9

\* The chunk that is committed.
LEMMA CommitStep ==
  ASSUME TypeOK, StageInv, NEW d \in Drivers, Chunking(d), NEW status \in Active \cup Finished,
         Commit(d, status)
  PROVE  /\ run[d] \in Holding
         /\ job' \in [Jobs -> Row \cup {Absent}]
         /\ job'[run[d].job] = [run[d].row EXCEPT !.status = status]
         /\ job'[run[d].job] \in Row
         /\ \A j \in Jobs \ {run[d].job} : job'[j] = job[j]
         /\ balance' = run[d].bal /\ balance' \in Int
         /\ certs' = certs \cup run[d].cart /\ certs' \in SUBSET Certificate
         /\ IsFiniteSet(certs')
         /\ run' \in [Drivers -> Runs] /\ run'[d] = Idle
         /\ \A e \in Drivers \ {d} : run'[e] = run[e]
         /\ UNCHANGED <<people, cancels, crashes>>
<1>1. run[d] \in Holding
  BY Session DEF Chunking
<1>2. run[d].job \in Jobs /\ run[d].row \in Row /\ run[d].bal \in Int
      /\ run[d].cart \in SUBSET Certificate
  BY <1>1 DEF Holding
<1>3. [run[d].row EXCEPT !.status = status] \in Row
  BY <1>2 DEF Row
<1>4. IsFiniteSet(certs \cup run[d].cart)
  BY FS_Union DEF StageInv
<1>5. /\ run' \in [Drivers -> Runs] /\ run'[d] = Idle
      /\ \A e \in Drivers \ {d} : run'[e] = run[e]
  BY GotoStep DEF Commit, Runs
<1> QED
  BY <1>1, <1>2, <1>3, <1>4, <1>5 DEF Commit, TypeOK

\* The next name is one of the job's.
LEMMA NextNameType ==
  ASSUME BulkCertificateJobAssumption, TypeOK, StageInv, NEW d \in Drivers, InLoop(d)
  PROVE  /\ run[d] \in Holding /\ Chunking(d)
         /\ run[d].row.index \in Nat
         /\ run[d].row.index + 1 \in 1 .. Len(run[d].row.names)
         /\ NextName(d) \in Names
<1>1. run[d] \in Holding /\ Chunking(d)
  BY Session DEF InLoop, Chunking
<1>2. run[d].row \in Row /\ run[d].end \in Nat /\ run[d].end <= Len(run[d].row.names)
  BY <1>1 DEF Holding, StageInv
<1>3. /\ run[d].row.names \in Seq(Names) /\ Len(run[d].row.names) \in Nat
      /\ run[d].row.index \in Nat
  BY <1>2, RowType
<1>i. run[d].row.index < run[d].end
  BY DEF InLoop
<1>4. run[d].row.index + 1 \in 1 .. Len(run[d].row.names)
  BY <1>2, <1>3, <1>i
<1>5. run[d].row.names[run[d].row.index + 1] \in Names
  BY <1>3, <1>4
<1> QED
  BY <1>1, <1>3, <1>4, <1>5 DEF NextName

Seen(d) == certs \cup run[d].cart

\* What every step of the loop leaves alone, of its own chunk and of the rest.
Advances(d) ==
  /\ run' \in [Drivers -> Runs]
  /\ run'[d] \in Holding /\ run'[d].job = run[d].job /\ run'[d].end = run[d].end
  /\ run'[d].row.names = run[d].row.names /\ run'[d].row.status = run[d].row.status
  /\ run'[d].row.index = run[d].row.index + 1
  /\ run'[d].link = run[d].link
  /\ \A e \in Drivers \ {d} : run'[e] = run[e]
  /\ UNCHANGED <<balance, people, certs, job, cancels, crashes>>

\* The counters of a row.
LEMMA Skipped ==
  ASSUME NEW row \in Row, NEW r, r = [row EXCEPT !.exists = @ + 1]
  PROVE  /\ r \in Row /\ r.names = row.names /\ r.status = row.status /\ r.index = row.index
         /\ r.spent = row.spent /\ r.failed = row.failed /\ r.created = row.created
<1>1. row.exists + 1 \in Nat
  BY DEF Row
<1> QED
  BY <1>1 DEF Row

LEMMA Unrendered ==
  ASSUME NEW row \in Row, NEW r, r = [row EXCEPT !.failed = @ + 1]
  PROVE  /\ r \in Row /\ r.names = row.names /\ r.status = row.status /\ r.index = row.index
         /\ r.spent = row.spent /\ r.failed = row.failed + 1 /\ r.created = row.created
<1>1. row.failed + 1 \in Nat
  BY DEF Row
<1> QED
  BY <1>1 DEF Row

\* A step of the loop that changes the counters, the balance and the certificates.
LEMMA AdvanceStep ==
  ASSUME TypeOK, NEW d \in Drivers, NEW x \in Holding, Advance(d, x),
         x.job = run[d].job, x.end = run[d].end, x.row.names = run[d].row.names,
         x.row.status = run[d].row.status, x.row.index = run[d].row.index,
         x.link = run[d].link
  PROVE  /\ Advances(d)
         /\ run'[d].bal = x.bal /\ run'[d].cart = x.cart
         /\ run'[d].row.spent = x.row.spent /\ run'[d].row.failed = x.row.failed
         /\ run'[d].row.created = x.row.created
<1> DEFINE q == [x.row EXCEPT !.index = @ + 1]
           y == [x EXCEPT !.row.index = @ + 1]
<1>1. x.row \in Row
  BY DEF Holding
<1>2. /\ q \in Row /\ q.names = x.row.names /\ q.status = x.row.status
      /\ q.index = x.row.index + 1
      /\ q.spent = x.row.spent /\ q.failed = x.row.failed /\ q.created = x.row.created
  BY <1>1 DEF Row
<1>3. y = [x EXCEPT !.row = q]
  BY DEF Holding
<1>4. Goto(d, y) /\ UNCHANGED <<balance, people, certs, job, cancels, crashes>>
  BY DEF Advance
<1> HIDE DEF q
<1>5. /\ y \in Holding /\ y.job = x.job /\ y.end = x.end /\ y.row = q
      /\ y.bal = x.bal /\ y.cart = x.cart /\ y.link = x.link
  BY <1>2, <1>3 DEF Holding
<1> HIDE DEF y
<1>6. /\ run' \in [Drivers -> Runs] /\ run'[d] = y
      /\ \A e \in Drivers \ {d} : run'[e] = run[e]
  BY <1>4, <1>5, GotoStep DEF Runs
<1> QED
  BY <1>2, <1>4, <1>5, <1>6 DEF Advances

LEMMA SkipStep ==
  ASSUME BulkCertificateJobAssumption, TypeOK, StageInv, NEW d \in Drivers, SkipName(d)
  PROVE  /\ Advances(d)
         /\ run'[d].cart = run[d].cart /\ run'[d].bal = run[d].bal
         /\ run'[d].row.spent = run[d].row.spent /\ run'[d].row.failed = run[d].row.failed
         /\ run'[d].row.created = run[d].row.created
<1> DEFINE row == run[d].row
           r == [row EXCEPT !.exists = @ + 1]
           x == [run[d] EXCEPT !.row.exists = @ + 1]
<1>1. run[d] \in Holding
  BY NextNameType DEF SkipName
<1>2. row \in Row /\ run[d].bal \in Int /\ run[d].cart \in SUBSET Certificate
  BY <1>1 DEF Holding
<1>3. Advance(d, x)
  BY DEF SkipName
<1>4. /\ r \in Row /\ r.names = row.names /\ r.status = row.status /\ r.index = row.index
      /\ r.spent = row.spent /\ r.failed = row.failed /\ r.created = row.created
  BY <1>2, Skipped
<1>5. x = [run[d] EXCEPT !.row = r]
  BY <1>1 DEF Holding
<1> HIDE DEF r
<1>6. /\ x \in Holding /\ x.job = run[d].job /\ x.end = run[d].end /\ x.row = r
      /\ x.bal = run[d].bal /\ x.cart = run[d].cart /\ x.link = run[d].link
  BY <1>1, <1>4, <1>5 DEF Holding
<1> HIDE DEF x
<1> QED
  BY <1>3, <1>4, <1>6, AdvanceStep

LEMMA RenderFailsStep ==
  ASSUME BulkCertificateJobAssumption, TypeOK, StageInv, NEW d \in Drivers, RenderFails(d)
  PROVE  /\ Advances(d)
         /\ run'[d].cart = run[d].cart /\ run'[d].bal = run[d].bal
         /\ run'[d].row.spent = run[d].row.spent /\ run'[d].row.failed = run[d].row.failed + 1
         /\ run'[d].row.created = run[d].row.created
<1> DEFINE row == run[d].row
           r == [row EXCEPT !.failed = @ + 1]
           x == [run[d] EXCEPT !.row.failed = @ + 1]
<1>1. run[d] \in Holding
  BY NextNameType DEF RenderFails, MayIssue
<1>2. row \in Row /\ run[d].bal \in Int /\ run[d].cart \in SUBSET Certificate
  BY <1>1 DEF Holding
<1>3. Advance(d, x)
  BY DEF RenderFails
<1>4. /\ r \in Row /\ r.names = row.names /\ r.status = row.status /\ r.index = row.index
      /\ r.spent = row.spent /\ r.failed = row.failed + 1 /\ r.created = row.created
  BY <1>2, Unrendered
<1>5. x = [run[d] EXCEPT !.row = r]
  BY <1>1 DEF Holding
<1> HIDE DEF r
<1>6. /\ x \in Holding /\ x.job = run[d].job /\ x.end = run[d].end /\ x.row = r
      /\ x.bal = run[d].bal /\ x.cart = run[d].cart /\ x.link = run[d].link
  BY <1>1, <1>4, <1>5 DEF Holding
<1> HIDE DEF x
<1> QED
  BY <1>3, <1>4, <1>6, AdvanceStep

\* The certificate of the next name, which has no other, and what it costs.
LEMMA IssueStep ==
  ASSUME BulkCertificateJobAssumption, TypeOK, StageInv, NEW d \in Drivers, IssueName(d)
  PROVE  /\ Advances(d)
         /\ \E c \in Certificate : /\ run'[d].cart = run[d].cart \cup {c}
                                   /\ c.name = NextName(d) /\ c.by = run[d].job
                                   /\ c.attendee = run[d].link[c.name]
                                   /\ c.no = Cardinality(certs) + Cardinality(run[d].cart)
                                   /\ run'[d].row.spent = run[d].row.spent + c.cost
                                   /\ run'[d].bal = run[d].bal - c.cost
         /\ run'[d].row.created = run[d].row.created + 1
         /\ \/ run'[d].row.spent = run[d].row.spent /\ run'[d].bal = run[d].bal
            \/ run'[d].bal >= 0
         /\ run'[d].row.failed \in Nat /\ run'[d].row.failed >= run[d].row.failed
<1> DEFINE row == run[d].row
           n == NextName(d)
<1>1. run[d] \in Holding /\ n \in Names
  BY NextNameType DEF IssueName, MayIssue
<1>2. /\ row \in Row /\ run[d].bal \in Int /\ run[d].cart \in SUBSET Certificate
      /\ run[d].job \in Jobs /\ run[d].link[n] \in Attendees \cup {Nobody}
  BY <1>1 DEF Holding
<1>3. PICK h \in HostingUnits, raised \in {0, 1} :
        LET cost == Price(h) IN
        /\ Unlimited \/ run[d].bal >= cost
        /\ Advance(d, [run[d] EXCEPT
             !.row.created = @ + 1, !.row.spent = @ + cost, !.row.failed = @ + raised,
             !.bal = @ - cost,
             !.cart = @ \cup {[no |-> Cardinality(certs) + Cardinality(@), name |-> NextName(d),
                               attendee |-> run[d].link[NextName(d)], checked |-> TRUE,
                               by |-> run[d].job, cost |-> cost, deleted |-> FALSE]}])
  BY DEF IssueName
<1> DEFINE cost == Price(h)
           c == [no |-> Cardinality(certs) + Cardinality(run[d].cart), name |-> n,
                 attendee |-> run[d].link[n], checked |-> TRUE,
                 by |-> run[d].job, cost |-> cost, deleted |-> FALSE]
           r == [row EXCEPT !.created = @ + 1, !.spent = @ + cost, !.failed = @ + raised]
           x == [run[d] EXCEPT
                  !.row.created = @ + 1, !.row.spent = @ + cost, !.row.failed = @ + raised,
                  !.bal = @ - cost, !.cart = @ \cup {c}]
<1>4. cost \in Nat /\ (Unlimited => cost = 0)
  BY DEF BulkCertificateJobAssumption, Price
<1>5. Advance(d, x) /\ (Unlimited \/ run[d].bal >= cost)
  BY <1>3
<1>6. Cardinality(certs) + Cardinality(run[d].cart) \in Nat
  <2>1. Cardinality(certs) \in Nat
    BY FS_CardinalityType DEF StageInv
  <2>2. IsFiniteSet(run[d].cart)
    BY <1>1 DEF StageInv, Chunking, Holding
  <2>3. Cardinality(run[d].cart) \in Nat
    BY <2>2, FS_CardinalityType
  <2> QED
    BY <2>1, <2>3
<1>7. r \in Row /\ r.names = row.names /\ r.status = row.status /\ r.index = row.index
      /\ r.spent = row.spent + cost /\ r.failed = row.failed + raised
      /\ r.created = row.created + 1
  <2> HIDE DEF row, cost
  <2>1. row.created + 1 \in Nat /\ row.spent + cost \in Nat /\ row.failed + raised \in Nat
    BY <1>2, <1>4 DEF Row
  <2> QED
    BY <1>2, <2>1 DEF Row
<1> HIDE DEF cost
<1>8. /\ c \in Certificate /\ c.name = n /\ c.by = run[d].job /\ c.cost = cost
      /\ c.attendee = run[d].link[n]
      /\ c.no = Cardinality(certs) + Cardinality(run[d].cart)
  BY <1>1, <1>2, <1>4, <1>6 DEF Certificate
<1> HIDE DEF c
<1> DEFINE b == run[d].bal - cost
           k == run[d].cart \cup {c}
<1>9. b \in Int /\ k \in SUBSET Certificate
  BY <1>2, <1>4, <1>8
<1>10. /\ x = [run[d] EXCEPT !.row = r, !.bal = b, !.cart = k]
  BY <1>1 DEF Holding
<1> HIDE DEF r, b, k
<1>11. /\ x \in Holding /\ x.job = run[d].job /\ x.end = run[d].end /\ x.row = r
       /\ x.bal = b /\ x.cart = k /\ x.link = run[d].link
  BY <1>1, <1>7, <1>9, <1>10 DEF Holding
<1> HIDE DEF x
<1>12. /\ Advances(d) /\ run'[d].bal = b /\ run'[d].cart = k
       /\ run'[d].row.spent = r.spent /\ run'[d].row.failed = r.failed
       /\ run'[d].row.created = r.created
  BY <1>5, <1>7, <1>11, AdvanceStep
<1>13. row.spent \in Nat /\ row.failed \in Nat
  BY <1>2 DEF Row
<1>14. (run'[d].row.spent = row.spent /\ run'[d].bal = run[d].bal) \/ run'[d].bal >= 0
  BY <1>2, <1>4, <1>5, <1>7, <1>12, <1>13 DEF b
<1>15. run'[d].row.failed \in Nat /\ run'[d].row.failed >= row.failed
  BY <1>7, <1>12, <1>13
<1>16. /\ run'[d].cart = run[d].cart \cup {c} /\ run'[d].row.created = row.created + 1
       /\ run'[d].row.spent = row.spent + c.cost /\ run'[d].bal = run[d].bal - c.cost
  BY <1>7, <1>8, <1>12 DEF b, k
<1> QED
  BY <1>8, <1>12, <1>14, <1>15, <1>16

-----------------------------------------------------------------------------
(* Types, and what a session knows.                                         *)

\* StageInv survives a step that opens no chunk, keeps the rows that are held and whose
\* requests to cancel are about existing jobs.
LEMMA StageKept ==
  ASSUME StageInv, IsFiniteSet(certs'), \A j \in cancels' : job'[j] # Absent,
         \A e \in Drivers : Chunking(e)' =>
           Chunking(e) /\ run'[e] = run[e] /\ job'[run[e].job] = job[run[e].job]
  PROVE  StageInv'
BY DEF StageInv

\* The requests that certify, and the certificate each of them adds.
Certifies == CertifyElsewhere \/ IssueByHand \/ IssueForQuiz

LEMMA IssueAdds ==
  ASSUME BulkCertificateJobAssumption, TypeOK, StageInv, NEW n \in Names,
         NEW a \in Attendees \cup {Nobody}, NEW checked \in BOOLEAN, NEW cost \in Nat,
         Issue(n, a, checked, cost)
  PROVE  /\ \A e \in Drivers : ~Chunking(e)
         /\ \E c \in Certificate :
              /\ certs' = certs \cup {c} /\ c.by = NoJob /\ c.no = Cardinality(certs)
              /\ c.name = n /\ c.attendee = a /\ c.checked = checked
              /\ balance' = balance - c.cost
         /\ UNCHANGED <<people, job, run, cancels, crashes>>
<1> DEFINE c == [no |-> Cardinality(certs), name |-> n, attendee |-> a, checked |-> checked,
                 by |-> NoJob, cost |-> cost, deleted |-> FALSE]
<1>1. Cardinality(certs) \in Nat
  BY FS_CardinalityType DEF StageInv
<1>2. certs' = certs \cup {c} /\ balance' = balance - cost
  BY DEF Issue
<1>3. /\ c \in Certificate /\ c.by = NoJob /\ c.no = Cardinality(certs)
      /\ c.name = n /\ c.attendee = a /\ c.checked = checked /\ c.cost = cost
  BY <1>1 DEF Certificate
<1> HIDE DEF c
<1>4. (\A e \in Drivers : ~Chunking(e)) /\ UNCHANGED <<people, job, run, cancels, crashes>>
  BY DEF Issue, UserFree, Chunking
<1> QED
  BY <1>2, <1>3, <1>4

\* Those that look for a certificate found none; those that link one to an attendee
\* link it to one who has, or has had, the name.
LEMMA CertifiesStep ==
  ASSUME BulkCertificateJobAssumption, TypeOK, StageInv, Certifies
  PROVE  /\ \A e \in Drivers : ~Chunking(e)
         /\ \E c \in Certificate :
              /\ certs' = certs \cup {c} /\ c.by = NoJob /\ c.no = Cardinality(certs)
              /\ balance' = balance - c.cost
              /\ c.attendee # Nobody =>
                   c.name \in had[c.attendee] \/ c.name = name[c.attendee]
              /\ c.checked =>
                   /\ c.attendee \in Attendees /\ c.name \in had[c.attendee]
                   /\ ~HasCertificate(c.name, c.attendee, certs)
         /\ UNCHANGED <<people, job, run, cancels, crashes>>
<1>1. \A h \in HostingUnits : Price(h) \in Nat /\ IssueUnits + h \in Nat
  BY DEF BulkCertificateJobAssumption, Price
<1>2. CASE CertifyElsewhere
  <2>1. PICK a \in Attendees, h \in HostingUnits :
          \E n \in had[a] : ~HasCertificate(n, a, certs) /\ Issue(n, a, TRUE, Price(h))
    BY <1>2 DEF CertifyElsewhere
  <2>p. PICK n \in had[a] : ~HasCertificate(n, a, certs) /\ Issue(n, a, TRUE, Price(h))
    BY <2>1
  <2>2. n \in Names /\ Price(h) \in Nat /\ a \in Attendees \cup {Nobody}
    BY <1>1 DEF TypeOK
  <2>3. /\ \A e \in Drivers : ~Chunking(e)
        /\ \E c \in Certificate :
             /\ certs' = certs \cup {c} /\ c.by = NoJob /\ c.no = Cardinality(certs)
             /\ c.name = n /\ c.attendee = a /\ c.checked = TRUE /\ balance' = balance - c.cost
        /\ UNCHANGED <<people, job, run, cancels, crashes>>
    BY <2>p, <2>2, IssueAdds
  <2> QED
    BY <2>p, <2>3
<1>3. CASE IssueByHand
  <2>1. PICK n \in Names, h \in HostingUnits : Issue(n, Nobody, FALSE, Price(h))
    BY <1>3 DEF IssueByHand
  <2>2. Price(h) \in Nat /\ Nobody \in Attendees \cup {Nobody}
    BY <1>1
  <2>3. /\ \A e \in Drivers : ~Chunking(e)
        /\ \E c \in Certificate :
             /\ certs' = certs \cup {c} /\ c.by = NoJob /\ c.no = Cardinality(certs)
             /\ c.name = n /\ c.attendee = Nobody /\ c.checked = FALSE /\ balance' = balance - c.cost
        /\ UNCHANGED <<people, job, run, cancels, crashes>>
    BY <2>1, <2>2, IssueAdds
  <2> QED
    BY <2>3
<1>4. CASE IssueForQuiz
  <2>1. PICK n \in Names, h \in HostingUnits : Issue(n, Match(n), FALSE, IssueUnits + h)
    BY <1>4 DEF IssueForQuiz
  <2>2. IssueUnits + h \in Nat
    BY <1>1
  <2>3. Match(n) \in Attendees \cup {Nobody} /\ (Match(n) # Nobody => name[Match(n)] = n)
    BY MatchType
  <2>4. /\ \A e \in Drivers : ~Chunking(e)
        /\ \E c \in Certificate :
             /\ certs' = certs \cup {c} /\ c.by = NoJob /\ c.no = Cardinality(certs)
             /\ c.name = n /\ c.attendee = Match(n) /\ c.checked = FALSE /\ balance' = balance - c.cost
        /\ UNCHANGED <<people, job, run, cancels, crashes>>
    BY <2>1, <2>2, <2>3, IssueAdds
  <2> QED
    BY <2>3, <2>4
<1> QED
  BY <1>2, <1>3, <1>4 DEF Certifies

LEMMA RequestsTyped ==
  ASSUME BulkCertificateJobAssumption, TypeOK, StageInv, Requests
  PROVE  TypeOK' /\ StageInv'
<1>1. ASSUME NEW d \in Drivers, Chunking(d)
      PROVE  run[d].job \in Jobs /\ HoldsJob(d, run[d].job)
  BY <1>1, Session DEF Chunking, Holding, HoldsJob
<1>2. ASSUME NEW j \in Jobs, NEW names \in NameLists, NEW mine \in BOOLEAN, Enqueue(j, names, mine)
      PROVE  TypeOK' /\ StageInv'
  <2> DEFINE r == [status |-> "pending", mine |-> mine, names |-> names, index |-> 0,
                   created |-> 0, exists |-> 0, failed |-> 0, spent |-> 0]
  <2>1. r \in Row
    BY DEF Row, Active
  <2>2. /\ job[j] = Absent /\ job' = [job EXCEPT ![j] = r]
        /\ UNCHANGED <<balance, people, certs, run, cancels, crashes>>
    BY <1>2 DEF Enqueue
  <2> HIDE DEF r
  <2>3. TypeOK'
    BY <2>1, <2>2 DEF TypeOK
  <2>4. job'[j] = r /\ r # Absent /\ \A k \in Jobs \ {j} : job'[k] = job[k]
    BY <2>1, <2>2 DEF TypeOK, Row, Active, Finished, Absent
  <2>5. \A e \in Drivers : Chunking(e) => run[e].job \in Jobs \ {j}
    BY <1>1, <2>2 DEF StageInv, Absent, Active
  <2>6. \A k \in cancels' : job'[k] # Absent
    BY <2>2, <2>4 DEF TypeOK, StageInv
  <2> QED
    BY <2>2, <2>3, <2>4, <2>5, <2>6, StageKept DEF Chunking, StageInv
<1>3. ASSUME NEW j \in Jobs, CancelCheck(j)
      PROVE  TypeOK' /\ StageInv'
  BY <1>3, StageKept DEF CancelCheck, TypeOK, StageInv, Chunking, Absent, Active
<1>4. ASSUME NEW j \in Jobs, CancelWrite(j)
      PROVE  TypeOK' /\ StageInv'
  <2> DEFINE r == [job[j] EXCEPT !.status = "cancelled"]
  <2>1. job[j] \in Row
    BY <1>4, RowOfJob DEF CancelWrite, StageInv
  <2>2. r \in Row
    BY <2>1 DEF Row, Finished
  <2>3. /\ job' = [job EXCEPT ![j] = r] /\ cancels' = cancels \ {j}
        /\ UNCHANGED <<balance, people, certs, run, crashes>>
    BY <1>4 DEF CancelWrite
  <2> HIDE DEF r
  <2>4. TypeOK'
    BY <2>2, <2>3 DEF TypeOK
  <2>5. job'[j] = r /\ \A k \in Jobs \ {j} : job'[k] = job[k]
    BY <2>3 DEF TypeOK
  <2>6. \A e \in Drivers : Chunking(e) => run[e].job \in Jobs \ {j}
    BY <1>1, <1>4 DEF CancelWrite
  <2>7. \A k \in cancels' : job'[k] # Absent
    BY <2>3, <2>5 DEF TypeOK, StageInv
  <2> QED
    BY <2>3, <2>4, <2>5, <2>6, <2>7, StageKept DEF Chunking, StageInv
<1>5. CASE Certifies
  <2>1. PICK c \in Certificate :
          /\ certs' = certs \cup {c} /\ balance' = balance - c.cost
          /\ UNCHANGED <<people, job, run, cancels, crashes>>
    BY <1>5, CertifiesStep
  <2>2. c.cost \in Nat
    BY DEF Certificate
  <2>3. TypeOK'
    BY <2>1, <2>2 DEF TypeOK, people
  <2>4. IsFiniteSet(certs')
    BY <2>1, FS_AddElement DEF StageInv
  <2> QED
    BY <2>1, <2>3, <2>4, StageKept DEF Chunking, StageInv
<1>6. CASE DeleteCertificate
  <2>1. PICK c \in certs : certs' = (certs \ {c}) \cup {[c EXCEPT !.deleted = TRUE]}
    BY <1>6 DEF DeleteCertificate
  <2>2. [c EXCEPT !.deleted = TRUE] \in Certificate
    <3>1. c \in Certificate
      BY DEF TypeOK
    <3> QED
      BY <3>1 DEF Certificate
  <2>3. TypeOK'
    BY <1>6, <2>1, <2>2 DEF DeleteCertificate, TypeOK
  <2>4. IsFiniteSet(certs \ {c})
    BY FS_RemoveElement DEF StageInv
  <2>5. IsFiniteSet(certs')
    BY <2>1, <2>4, FS_AddElement
  <2> QED
    BY <1>6, <2>3, <2>5, StageKept DEF DeleteCertificate, Chunking, StageInv
<1>7. ASSUME NEW a \in Attendees, NameAttendee(a)
      PROVE  TypeOK' /\ StageInv'
  <2>1. /\ name' \in [Attendees -> Names \cup {NoName}] /\ had' \in [Attendees -> SUBSET Names]
        /\ UNCHANGED <<balance, certs, job, run, cancels, crashes>>
    BY <1>7 DEF NameAttendee, TypeOK
  <2>2. TypeOK'
    BY <2>1 DEF TypeOK
  <2> QED
    BY <2>1, <2>2, StageKept DEF Chunking, StageInv
<1> QED
  BY <1>2, <1>3, <1>4, <1>5, <1>6, <1>7 DEF Requests, BulkGenerate, BulkCertifyQueue, Certifies

\* The steps that neither open a chunk nor go on with one.
LEMMA QuietTyped ==
  ASSUME BulkCertificateJobAssumption, TypeOK, StageInv, NEW d \in Drivers,
         Pick(d) \/ FindFinished(d) \/ FailAtHead(d) \/ InsertFails(d) \/ Crash(d)
  PROVE  TypeOK' /\ StageInv'
<1>1. ASSUME NEW x \in {Idle} \cup Picked, Goto(d, x)
      PROVE  /\ run' \in [Drivers -> Runs]
             /\ \A e \in Drivers : Chunking(e)' => Chunking(e) /\ run'[e] = run[e]
  BY <1>1, GotoStep DEF Runs, Chunking, Idle, Picked
<1>2. CASE FailAtHead(d)
  <2> DEFINE j == run[d].job
             r == [job[j] EXCEPT !.status = "failed"]
  <2>1. j \in Jobs /\ job[j] \in Row
    BY <1>2, Session, RowOfJob DEF FailAtHead, LockJob, Picked
  <2>2. r \in Row
    BY <2>1 DEF Row, Finished
  <2>3. /\ job' = [job EXCEPT ![j] = r] /\ Goto(d, Idle)
        /\ UNCHANGED <<balance, people, certs, cancels, crashes>>
        /\ \A e \in Drivers : ~HoldsJob(e, j)
    BY <1>2 DEF FailAtHead, LockJob
  <2> HIDE DEF r, j
  <2>4. TypeOK'
    BY <1>1, <2>2, <2>3 DEF TypeOK, Runs
  <2>5. job'[j] = r /\ \A k \in Jobs \ {j} : job'[k] = job[k]
    BY <2>1, <2>3 DEF TypeOK
  <2>6. \A k \in cancels' : job'[k] # Absent
    <3>1. r # Absent
      BY <2>2 DEF Row, Absent, Active, Finished
    <3> QED
      BY <2>3, <2>5, <3>1 DEF TypeOK, StageInv
  <2>7. \A e \in Drivers : Chunking(e) => run[e].job \in Jobs \ {j}
    BY <2>3, Session DEF Chunking, HoldsJob, Holding
  <2> QED
    BY <1>1, <2>3, <2>4, <2>5, <2>6, <2>7, StageKept DEF StageInv
<1>3. CASE Pick(d) \/ FindFinished(d) \/ InsertFails(d)
  <2>1. /\ \E x \in {Idle} \cup Picked : Goto(d, x)
        /\ UNCHANGED <<balance, people, certs, job, cancels, crashes>>
    BY <1>3 DEF Pick, FindFinished, InsertFails, Picked
  <2> QED
    BY <1>1, <2>1, StageKept DEF TypeOK, StageInv, Runs
<1>4. CASE Crash(d)
  BY <1>1, <1>4, StageKept DEF Crash, TypeOK, StageInv, Runs, BulkCertificateJobAssumption
<1> QED
  BY <1>2, <1>3, <1>4

LEMMA OpenTyped ==
  ASSUME BulkCertificateJobAssumption, TypeOK, StageInv, NEW d \in Drivers, OpenChunk(d)
  PROVE  TypeOK' /\ StageInv'
<1> DEFINE j == run[d].job
<1>1. /\ UserFree /\ job[j] \in Row
      /\ run' \in [Drivers -> Runs] /\ run'[d] \in Holding /\ run'[d].job = j
      /\ run'[d].row = [job[j] EXCEPT !.status = "processing"]
      /\ run'[d].cart = {} /\ run'[d].end <= Len(job[j].names)
      /\ job[j].status \in Active
      /\ \A e \in Drivers \ {d} : run'[e] = run[e]
      /\ UNCHANGED <<balance, people, certs, job, cancels, crashes>>
  BY OpenStep
<1>2. TypeOK'
  BY <1>1 DEF TypeOK, Runs
<1>3. \A e \in Drivers : Chunking(e)' => e = d
  BY <1>1 DEF UserFree, Chunking
<1>4. run'[d].row.names = job[j].names
  BY <1>1 DEF Row
<1>5. IsFiniteSet(run'[d].cart)
  BY <1>1, FS_EmptySet
<1> HIDE DEF j
<1> QED
  BY <1>1, <1>2, <1>3, <1>4, <1>5 DEF StageInv

LEMMA AdvanceTyped ==
  ASSUME BulkCertificateJobAssumption, TypeOK, StageInv, NEW d \in Drivers,
         SkipName(d) \/ RenderFails(d) \/ IssueName(d)
  PROVE  TypeOK' /\ StageInv'
<1>1. Chunking(d) /\ run[d] \in Holding
  BY NextNameType DEF SkipName, RenderFails, IssueName, MayIssue
<1>2. Advances(d)
  BY SkipStep, RenderFailsStep, IssueStep
<1>3. /\ IsFiniteSet(run'[d].cart)
      /\ \A c \in run'[d].cart : c.by = run[d].job
  <2>1. IsFiniteSet(run[d].cart) /\ \A c \in run[d].cart : c.by = run[d].job
    BY <1>1 DEF StageInv
  <2>2. CASE run'[d].cart = run[d].cart
    BY <2>1, <2>2
  <2>3. CASE \E c \in Certificate : /\ run'[d].cart = run[d].cart \cup {c}
                                    /\ c.name = NextName(d) /\ c.by = run[d].job
    BY <2>1, <2>3, FS_AddElement
  <2> QED
    BY <2>2, <2>3, SkipStep, RenderFailsStep, IssueStep
<1>4. TypeOK'
  BY <1>2 DEF Advances, TypeOK, Runs
<1>5. Chunking(d)' /\ \A e \in Drivers : Chunking(e)' => Chunking(e)
  BY <1>1, <1>2 DEF Advances, Chunking, Holding
<1>6. \A e \in Drivers : Chunking(e)' => e = d
  BY <1>1, <1>5 DEF StageInv
<1> QED
  BY <1>1, <1>2, <1>3, <1>4, <1>6 DEF StageInv, Advances

\* A commit is one of these.
LEMMA Commits ==
  ASSUME TypeOK, NEW d \in Drivers, RunOut(d) \/ CloseChunk(d)
  PROVE  /\ Chunking(d)
         /\ \E status \in {"completed", "failed", "processing"} :
              /\ Commit(d, status)
              /\ status = "completed" => run[d].row.index = Len(run[d].row.names)
BY DEF RunOut, CloseChunk, InLoop, Chunking

LEMMA CommitTyped ==
  ASSUME BulkCertificateJobAssumption, TypeOK, StageInv, NEW d \in Drivers,
         RunOut(d) \/ CloseChunk(d)
  PROVE  TypeOK' /\ StageInv'
<1>1. PICK status \in Active \cup Finished : Commit(d, status) /\ Chunking(d)
  BY Commits DEF Active, Finished
<1>2. /\ job' \in [Jobs -> Row \cup {Absent}]
      /\ job'[run[d].job] \in Row
      /\ \A j \in Jobs \ {run[d].job} : job'[j] = job[j]
      /\ balance' \in Int /\ certs' \in SUBSET Certificate /\ IsFiniteSet(certs')
      /\ run' \in [Drivers -> Runs] /\ run'[d] = Idle
      /\ \A e \in Drivers \ {d} : run'[e] = run[e]
      /\ UNCHANGED <<people, cancels, crashes>>
  BY <1>1, CommitStep
<1>3. TypeOK'
  BY <1>2 DEF TypeOK, Runs
<1>4. \A e \in Drivers : ~Chunking(e)'
  BY <1>1, <1>2 DEF StageInv, Chunking, Idle
<1>5. \A j \in cancels' : job'[j] # Absent
  BY <1>2, <1>3, RowOfJob DEF TypeOK, StageInv, Row, Absent, Active, Finished
<1> QED
  BY <1>2, <1>3, <1>4, <1>5, StageKept

LEMMA NextTyped ==
  ASSUME BulkCertificateJobAssumption, TypeOK, StageInv, [Next]_vars
  PROVE  TypeOK' /\ StageInv'
<1>1. CASE UNCHANGED vars
  BY <1>1 DEF vars, TypeOK, StageInv, Chunking
<1>2. ASSUME NEW d \in Drivers, Work(d) \/ Crash(d)
      PROVE  TypeOK' /\ StageInv'
  BY <1>2, QuietTyped, OpenTyped, AdvanceTyped, CommitTyped DEF Work, Begun
<1> QED
  BY <1>1, <1>2, RequestsTyped DEF Next, AllFinished

\* For any number of processes, jobs and names: every row and every session is of its
\* type, and the rows of one job and of the organiser are held by one chunk at most.
THEOREM TypeCorrect == Spec => [](TypeOK /\ StageInv)
<1> USE BulkCertificateJobAssumption
<1>1. Init => TypeOK /\ StageInv
  <2> SUFFICES ASSUME Init
               PROVE  TypeOK /\ StageInv
    OBVIOUS
  <2>1. TypeOK
    BY DEF Init, TypeOK
  <2>2. StageInv
    BY FS_EmptySet DEF Init, StageInv, Chunking, Idle
  <2> QED
    BY <2>1, <2>2
<1>2. TypeOK /\ StageInv /\ [Next]_vars => (TypeOK /\ StageInv)'
  BY NextTyped
<1> QED
  BY <1>1, <1>2, PTL DEF Spec

-----------------------------------------------------------------------------
(* The steps by what they do to certificates and rows.                      *)

\* A job that appears, and a job that is given up.
Begins(j)  ==
  /\ job[j] = Absent /\ job'[j].status = "pending" /\ job'[j].index = 0 /\ job'[j] \in Row
  /\ job'[j].created = 0 /\ job'[j].spent = 0
GivenUp(j) ==
  /\ job[j] \in Row
  /\ \/ job'[j] = [job[j] EXCEPT !.status = "cancelled"]
     \/ job[j].status \in Active /\ job'[j] = [job[j] EXCEPT !.status = "failed"]

\* Neither a certificate nor a chunk changes; a chunk may end, or an attendee get a name.
Quiet ==
  /\ UNCHANGED <<balance, certs>>
  /\ UNCHANGED people \/ \E a \in Attendees : NameAttendee(a)
  /\ \A j \in Jobs : job'[j] = job[j] \/ Begins(j) \/ GivenUp(j)
  /\ \A e \in Drivers : Chunking(e)' =>
       Chunking(e) /\ run'[e] = run[e] /\ job'[run[e].job] = job[run[e].job]

LEMMA HeldRowKept ==
  ASSUME TypeOK, NEW e \in Drivers, Chunking(e), NEW j, \A d \in Drivers : ~HoldsJob(d, j)
  PROVE  run[e].job \in Jobs \ {j}
BY Session DEF Chunking, HoldsJob, Holding

LEMMA EnqueueQuiet ==
  ASSUME TypeOK, StageInv, NEW j \in Jobs, NEW names \in NameLists, NEW mine \in BOOLEAN,
         Enqueue(j, names, mine)
  PROVE  Quiet
<1> DEFINE r == [status |-> "pending", mine |-> mine, names |-> names, index |-> 0,
                 created |-> 0, exists |-> 0, failed |-> 0, spent |-> 0]
<1>1. r \in Row /\ r.status = "pending" /\ r.index = 0 /\ r.created = 0 /\ r.spent = 0
  BY DEF Row, Active
<1>2. /\ job[j] = Absent /\ job' = [job EXCEPT ![j] = r]
      /\ UNCHANGED <<balance, people, certs, run, cancels, crashes>>
  BY DEF Enqueue
<1> HIDE DEF r
<1>3. job'[j] = r /\ \A k \in Jobs \ {j} : job'[k] = job[k]
  BY <1>2 DEF TypeOK
<1>4. \A e \in Drivers : Chunking(e) => run[e].job \in Jobs /\ run[e].job # j
  BY <1>2, Session DEF StageInv, Chunking, Holding, Absent, Active
<1> QED
  BY <1>1, <1>2, <1>3, <1>4 DEF Quiet, Begins, Chunking

LEMMA CancelQuiet ==
  ASSUME TypeOK, StageInv, NEW j \in Jobs, CancelCheck(j) \/ CancelWrite(j)
  PROVE  Quiet
<1>1. CASE CancelCheck(j)
  BY <1>1 DEF CancelCheck, Quiet, Chunking
<1>2. CASE CancelWrite(j)
  <2>1. job[j] \in Row
    BY <1>2, RowOfJob DEF CancelWrite, StageInv
  <2>2. /\ job'[j] = [job[j] EXCEPT !.status = "cancelled"]
        /\ \A k \in Jobs \ {j} : job'[k] = job[k]
        /\ UNCHANGED <<balance, people, certs, run>>
    BY <1>2 DEF CancelWrite, TypeOK
  <2>3. \A e \in Drivers : Chunking(e) => run[e].job \in Jobs \ {j}
    BY <1>2, HeldRowKept DEF CancelWrite
  <2> QED
    BY <2>1, <2>2, <2>3 DEF Quiet, GivenUp, Chunking
<1> QED
  BY <1>1, <1>2

LEMMA DriverQuiet ==
  ASSUME TypeOK, StageInv, NEW d \in Drivers,
         Pick(d) \/ FindFinished(d) \/ FailAtHead(d) \/ InsertFails(d) \/ Crash(d)
  PROVE  Quiet
<1>1. ASSUME NEW x \in {Idle} \cup Picked, Goto(d, x)
      PROVE  \A e \in Drivers : Chunking(e)' => Chunking(e) /\ run'[e] = run[e]
  BY <1>1, GotoStep DEF Runs, Chunking, Idle, Picked
<1>2. CASE FailAtHead(d)
  <2>1. run[d].job \in Jobs /\ job[run[d].job] \in Row /\ job[run[d].job].status \in Active
    BY <1>2, Session, RowOfJob DEF FailAtHead, LockJob, Picked
  <2>2. /\ job'[run[d].job] = [job[run[d].job] EXCEPT !.status = "failed"]
        /\ \A k \in Jobs \ {run[d].job} : job'[k] = job[k]
        /\ Goto(d, Idle) /\ UNCHANGED <<balance, people, certs>>
    BY <1>2, <2>1 DEF FailAtHead, TypeOK
  <2>3. \A e \in Drivers : Chunking(e) => run[e].job \in Jobs \ {run[d].job}
    BY <1>2, HeldRowKept DEF FailAtHead, LockJob
  <2>4. \A e \in Drivers : Chunking(e)' => Chunking(e) /\ run'[e] = run[e]
    BY <1>1, <2>2
  <2>5. GivenUp(run[d].job)
    BY <2>1, <2>2 DEF GivenUp
  <2> QED
    BY <2>2, <2>3, <2>4, <2>5 DEF Quiet
<1>3. CASE ~FailAtHead(d)
  <2>1. /\ \E x \in {Idle} \cup Picked : Goto(d, x)
        /\ UNCHANGED <<balance, people, certs, job>>
    BY <1>3 DEF Pick, FindFinished, InsertFails, Crash, Picked
  <2> QED
    BY <1>1, <2>1 DEF Quiet
<1> QED
  BY <1>2, <1>3

\* Every step is one of these.
LEMMA KindsOfSteps ==
  ASSUME TypeOK, StageInv, [Next]_vars
  PROVE  \/ Quiet
         \/ Certifies \/ DeleteCertificate
         \/ \E d \in Drivers : \/ OpenChunk(d)
                               \/ SkipName(d) \/ RenderFails(d) \/ IssueName(d)
                               \/ RunOut(d) \/ CloseChunk(d)
<1>1. CASE UNCHANGED vars
  BY <1>1 DEF vars, Quiet, Chunking
<1>2. ASSUME NEW a \in Attendees, NameAttendee(a)
      PROVE  Quiet
  BY <1>2 DEF NameAttendee, Quiet, Chunking
<1> QED
  BY <1>1, <1>2, EnqueueQuiet, CancelQuiet, DriverQuiet
     DEF Next, AllFinished, Work, Begun, Requests, BulkGenerate, BulkCertifyQueue, Certifies

\* The rows of jobs after a commit.
LEMMA RowsOfCommit ==
  ASSUME TypeOK, StageInv, NEW d \in Drivers, RunOut(d) \/ CloseChunk(d)
  PROVE  /\ Chunking(d) /\ run[d] \in Holding /\ run[d].job \in Jobs /\ run[d].row \in Row
         /\ job[run[d].job] \in Row /\ job[run[d].job].status \in Active
         /\ \E status \in {"completed", "failed", "processing"} :
              /\ job'[run[d].job] = [run[d].row EXCEPT !.status = status]
              /\ status = "completed" => run[d].row.index = Len(run[d].row.names)
         /\ \A j \in Jobs \ {run[d].job} : job'[j] = job[j]
         /\ balance' = run[d].bal /\ certs' = Seen(d) /\ UNCHANGED people
         /\ \A e \in Drivers : ~Chunking(e)'
<1>1. PICK status \in {"completed", "failed", "processing"} :
        /\ Commit(d, status) /\ Chunking(d)
        /\ status = "completed" => run[d].row.index = Len(run[d].row.names)
  BY Commits
<1>2. status \in Active \cup Finished
  BY DEF Active, Finished
<1>3. /\ run[d] \in Holding
      /\ job'[run[d].job] = [run[d].row EXCEPT !.status = status]
      /\ \A j \in Jobs \ {run[d].job} : job'[j] = job[j]
      /\ balance' = run[d].bal /\ certs' = certs \cup run[d].cart
      /\ UNCHANGED people
      /\ run'[d] = Idle /\ \A e \in Drivers \ {d} : run'[e] = run[e]
  BY <1>1, <1>2, CommitStep
<1>4. run[d].job \in Jobs /\ run[d].row \in Row
  BY <1>3 DEF Holding
<1>5. job[run[d].job] \in Row /\ job[run[d].job].status \in Active
  BY <1>1, <1>4, RowOfJob DEF StageInv
<1>6. \A e \in Drivers : ~Chunking(e)'
  BY <1>1, <1>3 DEF StageInv, Chunking, Idle
<1> QED
  BY <1>1, <1>3, <1>4, <1>5, <1>6 DEF Seen

\* A request certifies when no chunk is open, and a certificate that is deleted keeps
\* the rest.
LEMMA RequestCertificates ==
  ASSUME BulkCertificateJobAssumption, TypeOK, StageInv,
         Certifies \/ DeleteCertificate
  PROVE  /\ UNCHANGED <<people, job, run>>
         /\ \/ /\ \A e \in Drivers : ~Chunking(e)
               /\ \E c \in Certificate :
                    /\ certs' = certs \cup {c} /\ c.by = NoJob
                    /\ c.no = Cardinality(certs) /\ balance' = balance - c.cost
            \/ /\ UNCHANGED balance
               /\ \E c \in certs, x \in Certificate :
                    /\ certs' = (certs \ {c}) \cup {x} /\ ~c.deleted /\ x.deleted
                    /\ x.name = c.name /\ x.attendee = c.attendee
                    /\ x.no = c.no /\ x.by = c.by /\ x.cost = c.cost
<1>1. CASE Certifies
  BY <1>1, CertifiesStep
<1>2. CASE DeleteCertificate
  <2>1. PICK c \in certs :
          ~c.deleted /\ certs' = (certs \ {c}) \cup {[c EXCEPT !.deleted = TRUE]}
    BY <1>2 DEF DeleteCertificate
  <2> DEFINE x == [c EXCEPT !.deleted = TRUE]
  <2>2. /\ x \in Certificate /\ x.deleted
        /\ x.name = c.name /\ x.attendee = c.attendee /\ x.no = c.no /\ x.by = c.by /\ x.cost = c.cost
    BY DEF TypeOK, Certificate
  <2> QED
    BY <1>2, <2>1, <2>2 DEF DeleteCertificate
<1> QED
  BY <1>1, <1>2

-----------------------------------------------------------------------------
(* Attendees and their names.                                               *)

\* The names of an attendee are only added to.
LEMMA NamesKept ==
  ASSUME TypeOK, [Next]_vars
  PROVE  \A a \in Attendees : had[a] \subseteq had'[a]
<1>1. CASE UNCHANGED people
  BY <1>1
<1>2. ASSUME NEW a \in Attendees, NameAttendee(a)
      PROVE  \A b \in Attendees : had[b] \subseteq had'[b]
  BY <1>2 DEF NameAttendee, TypeOK
<1>3. CASE UNCHANGED vars
  BY <1>3 DEF vars
<1>4. CASE Requests
  BY <1>1, <1>2, <1>4
     DEF Requests, BulkGenerate, BulkCertifyQueue, Enqueue, CancelCheck, CancelWrite,
         CertifyElsewhere, IssueByHand, IssueForQuiz, Issue, DeleteCertificate
<1>5. ASSUME NEW d \in Drivers, Work(d) \/ Crash(d)
      PROVE  UNCHANGED people
  BY <1>5 DEF Work, Crash, Begun, Pick, FindFinished, FailAtHead, OpenChunk, SkipName,
              RenderFails, IssueName, RunOut, InsertFails, CloseChunk, Advance, Commit
<1> QED
  BY <1>1, <1>3, <1>4, <1>5 DEF Next, AllFinished

\* A set of certificates that are linked to those who have had the name, if to anybody.
Named(cs, h) == \A c \in cs : c.attendee \in Attendees => c.name \in h[c.attendee]

\* Whoever has had a name has one, and has had it; certificates and the links of a chunk
\* go to those who have had the name.
PeopleInv ==
  /\ \A a \in Attendees : /\ name[a] \in Names => name[a] \in had[a]
                          /\ had[a] # {} => name[a] \in Names
  /\ Named(certs, had)
  /\ \A d \in Drivers : Chunking(d) =>
       /\ \A n \in Names : run[d].link[n] \in Attendees => n \in had[run[d].link[n]]
       /\ Named(run[d].cart, had)

LEMMA NextPeople ==
  ASSUME BulkCertificateJobAssumption, TypeOK, StageInv, PeopleInv, [Next]_vars
  PROVE  PeopleInv'
<1> DEFINE Holders == \A a \in Attendees : /\ name[a] \in Names => name[a] \in had[a]
                                           /\ had[a] # {} => name[a] \in Names
           Links(d) == \A n \in Names : run[d].link[n] \in Attendees => n \in had[run[d].link[n]]
<1>n. \A a \in Attendees : had[a] \subseteq had'[a]
  BY NamesKept
<1>1. CASE Quiet
  <2>1. Holders'
    <3>1. CASE UNCHANGED people
      BY <3>1 DEF PeopleInv
    <3>2. ASSUME NEW a \in Attendees, NameAttendee(a)
          PROVE  Holders'
      BY <3>2 DEF PeopleInv, NameAttendee, TypeOK
    <3> QED
      BY <1>1, <3>1, <3>2 DEF Quiet
  <2>2. Named(certs, had)'
    BY <1>1, <1>n DEF Quiet, PeopleInv, Named
  <2>3. ASSUME NEW d \in Drivers, Chunking(d)'
        PROVE  Links(d)' /\ Named(run[d].cart, had)'
    <3>1. Chunking(d) /\ run'[d] = run[d]
      BY <1>1, <2>3 DEF Quiet
    <3>2. Links(d) /\ Named(run[d].cart, had)
      BY <3>1 DEF PeopleInv
    <3> QED
      BY <1>n, <3>1, <3>2 DEF Named
  <2> QED
    BY <2>1, <2>2, <2>3 DEF PeopleInv
<1>2. CASE Certifies
  <2>1. PICK c \in Certificate :
          /\ certs' = certs \cup {c}
          /\ c.attendee # Nobody => c.name \in had[c.attendee] \/ c.name = name[c.attendee]
    BY <1>2, CertifiesStep
  <2>2. c.attendee \in Attendees => c.name \in had[c.attendee]
    BY <2>1 DEF PeopleInv, Certificate, BulkCertificateJobAssumption
  <2>3. UNCHANGED <<people, run>>
    BY <1>2, CertifiesStep
  <2>4. Named(certs, had)'
    BY <2>1, <2>2, <2>3 DEF PeopleInv, Named
  <2> QED
    BY <2>3, <2>4 DEF PeopleInv, Chunking
<1>3. CASE DeleteCertificate
  <2>1. UNCHANGED <<people, run>>
    BY <1>3 DEF DeleteCertificate
  <2>2. PICK c \in certs : certs' = (certs \ {c}) \cup {[c EXCEPT !.deleted = TRUE]}
    BY <1>3 DEF DeleteCertificate
  <2>3. [c EXCEPT !.deleted = TRUE].name = c.name /\ [c EXCEPT !.deleted = TRUE].attendee = c.attendee
    BY DEF TypeOK, Certificate
  <2>4. Named(certs, had)'
    BY <2>1, <2>2, <2>3 DEF PeopleInv, Named
  <2> QED
    BY <2>1, <2>4 DEF PeopleInv, Chunking
<1>4. ASSUME NEW d \in Drivers, OpenChunk(d)
      PROVE  PeopleInv'
  <2>1. /\ run'[d].link = [n \in Names |-> Match(n)] /\ run'[d].cart = {}
        /\ UNCHANGED <<people, certs>> /\ \A e \in Drivers : Chunking(e)' => e = d
    BY <1>4, OpenStep DEF UserFree, Chunking
  <2>2. ASSUME NEW n \in Names, Match(n) \in Attendees
        PROVE  n \in had[Match(n)]
    <3>1. name[Match(n)] = n
      BY <2>2, MatchType DEF BulkCertificateJobAssumption
    <3> QED
      BY <2>2, <3>1 DEF PeopleInv
  <2>3. Links(d)'
    BY <2>1, <2>2
  <2> QED
    BY <2>1, <2>3 DEF PeopleInv, Named
<1>5. ASSUME NEW d \in Drivers, SkipName(d) \/ RenderFails(d) \/ IssueName(d)
      PROVE  PeopleInv'
  <2>1. Chunking(d) /\ Advances(d)
    BY <1>5, NextNameType, SkipStep, RenderFailsStep, IssueStep
       DEF SkipName, RenderFails, IssueName, MayIssue
  <2>2. /\ UNCHANGED <<people, certs>> /\ run'[d].link = run[d].link
        /\ \A e \in Drivers : Chunking(e)' => e = d
    BY <2>1 DEF Advances, Chunking, StageInv
  <2>3. Links(d) /\ Named(run[d].cart, had) /\ Named(certs, had)
    BY <2>1 DEF PeopleInv
  <2>4. Named(run'[d].cart, had)
    <3>1. CASE SkipName(d) \/ RenderFails(d)
      BY <2>3, <3>1, SkipStep, RenderFailsStep
    <3>2. CASE IssueName(d)
      <4>1. PICK c \in Certificate :
              run'[d].cart = run[d].cart \cup {c} /\ c.attendee = run[d].link[c.name]
        BY <3>2, IssueStep
      <4>2. c.name \in Names
        BY DEF Certificate
      <4> QED
        BY <2>3, <4>1, <4>2 DEF Named
    <3> QED
      BY <1>5, <3>1, <3>2
  <2> QED
    BY <2>2, <2>3, <2>4 DEF PeopleInv
<1>6. ASSUME NEW d \in Drivers, RunOut(d) \/ CloseChunk(d)
      PROVE  PeopleInv'
  <2>1. Chunking(d) /\ certs' = Seen(d) /\ UNCHANGED people /\ \A e \in Drivers : ~Chunking(e)'
    BY <1>6, RowsOfCommit
  <2> QED
    BY <2>1 DEF PeopleInv, Named, Seen
<1> QED
  BY <1>1, <1>2, <1>3, <1>4, <1>5, <1>6, KindsOfSteps

LEMMA PeopleInvariant == Spec => [](TypeOK /\ StageInv /\ PeopleInv)
<1> USE BulkCertificateJobAssumption
<1>1. Init => PeopleInv
  <2> SUFFICES ASSUME Init
               PROVE  PeopleInv
    OBVIOUS
  <2>1. /\ certs = {} /\ \A d \in Drivers : ~Chunking(d)
        /\ name = Registered /\ had = [a \in Attendees |-> {Registered[a]} \ {NoName}]
    BY DEF Init, Chunking, Idle
  <2>2. \A a \in Attendees : /\ name[a] \in Names => name[a] \in had[a]
                             /\ had[a] # {} => name[a] \in Names
    BY <2>1 DEF BulkCertificateJobAssumption
  <2> QED
    BY <2>1, <2>2 DEF PeopleInv, Named
<1>2. TypeOK /\ StageInv /\ PeopleInv /\ [Next]_vars => PeopleInv'
  BY NextPeople
<1> QED
  BY <1>1, <1>2, TypeCorrect, PTL DEF Spec

-----------------------------------------------------------------------------
(* What a cancelled job and the balance are safe from.                      *)

LEMMA CancelledKept ==
  ASSUME BulkCertificateJobAssumption, TypeOK, StageInv, [Next]_vars,
         NEW j \in Jobs, job[j].status = "cancelled"
  PROVE  /\ job'[j] = job[j]
         /\ \A c \in certs' : c.by = j => c.no \in {e.no : e \in certs}
<1>1. job[j] \in Row /\ job[j] # Absent /\ job[j].status \notin Active
  BY RowOfJob DEF Active, Finished
<1>2. CASE Quiet
  <2>1. [job[j] EXCEPT !.status = "cancelled"] = job[j]
    BY <1>1 DEF Row
  <2> QED
    BY <1>1, <1>2, <2>1 DEF Quiet, Begins, GivenUp
<1>3. CASE Certifies \/ DeleteCertificate
  <2>1. UNCHANGED job /\ j # NoJob
    BY <1>3, RequestCertificates DEF Jobs, NoJob
  <2> QED
    BY <1>3, <2>1, RequestCertificates
<1>4. ASSUME NEW d \in Drivers, OpenChunk(d) \/ SkipName(d) \/ RenderFails(d) \/ IssueName(d)
      PROVE  UNCHANGED <<people, job, certs>>
  BY <1>4 DEF OpenChunk, SkipName, RenderFails, IssueName, Advance
<1>5. ASSUME NEW d \in Drivers, RunOut(d) \/ CloseChunk(d)
      PROVE  /\ job'[j] = job[j]
             /\ \A c \in certs' : c.by = j => c \in certs
  <2>1. run[d].job # j /\ Chunking(d)
    BY <1>1, <1>5, RowsOfCommit
  <2>2. \A c \in run[d].cart : c.by = run[d].job
    BY <2>1 DEF StageInv
  <2> QED
    BY <1>5, <2>1, <2>2, RowsOfCommit DEF Seen
<1> QED
  BY <1>2, <1>3, <1>4, <1>5, KindsOfSteps

\* For any number of processes and jobs: whoever cancels a job has the last word.
THEOREM CancelledJobsRest == Spec => CancelledIsFinal
<1> USE BulkCertificateJobAssumption
<1> DEFINE Final == \A j \in Jobs : job[j].status = "cancelled" =>
                      /\ UNCHANGED <<job[j]>>
                      /\ \A c \in certs' : c.by = j => c.no \in {d.no : d \in certs}
<1>1. TypeOK /\ StageInv /\ [Next]_vars => [Final]_vars
  BY CancelledKept
<1>2. CancelledIsFinal <=> [][Final]_vars
  BY DEF CancelledIsFinal
<1> HIDE DEF Final
<1> QED
  BY <1>1, <1>2, TypeCorrect, PTL DEF Spec

\* A chunk that has spent anything has covered it.
SpentInv ==
  \A d \in Drivers : Chunking(d) =>
    run[d].row.spent = job[run[d].job].spent \/ run[d].bal >= 0

LEMMA NextSpent ==
  ASSUME BulkCertificateJobAssumption, TypeOK, StageInv, SpentInv, [Next]_vars
  PROVE  SpentInv'
<1>1. CASE Quiet
  BY <1>1 DEF Quiet, SpentInv
<1>2. CASE Certifies \/ DeleteCertificate
  BY <1>2, RequestCertificates DEF SpentInv, Chunking
<1>3. ASSUME NEW d \in Drivers, OpenChunk(d)
      PROVE  SpentInv'
  <2>1. /\ run'[d].row = [job[run[d].job] EXCEPT !.status = "processing"]
        /\ job[run[d].job] \in Row /\ run'[d].job = run[d].job /\ UNCHANGED job
        /\ UserFree /\ \A e \in Drivers \ {d} : run'[e] = run[e]
    BY <1>3, OpenStep
  <2>2. run'[d].row.spent = job[run[d].job].spent
    BY <2>1 DEF Row
  <2>3. \A e \in Drivers : Chunking(e)' => e = d
    BY <2>1 DEF UserFree, Chunking
  <2> QED
    BY <2>1, <2>2, <2>3 DEF SpentInv
<1>4. ASSUME NEW d \in Drivers, SkipName(d) \/ RenderFails(d) \/ IssueName(d)
      PROVE  SpentInv'
  <2>1. Chunking(d) /\ Advances(d)
    BY <1>4, NextNameType, SkipStep, RenderFailsStep, IssueStep
       DEF SkipName, RenderFails, IssueName, MayIssue
  <2>2. \/ run'[d].row.spent = run[d].row.spent /\ run'[d].bal = run[d].bal
        \/ run'[d].bal >= 0
    BY <1>4, SkipStep, RenderFailsStep, IssueStep
  <2> QED
    BY <2>1, <2>2 DEF SpentInv, Advances, Chunking, StageInv
<1>5. ASSUME NEW d \in Drivers, RunOut(d) \/ CloseChunk(d)
      PROVE  SpentInv'
  BY <1>5, RowsOfCommit DEF SpentInv
<1> QED
  BY <1>1, <1>2, <1>3, <1>4, <1>5, KindsOfSteps

\* For any number of processes, jobs and prices: a commit that charges certificates
\* does not leave the balance below zero.
THEOREM NoJobOverdraws == Spec => JobsNeverOverdraw
<1> USE BulkCertificateJobAssumption
<1> DEFINE Covered == \A j \in Jobs :
                        job[j] # Absent /\ job'[j].spent > job[j].spent => balance' >= 0
<1>1. Init => SpentInv
  BY DEF Init, SpentInv, Chunking, Idle
<1>2. TypeOK /\ StageInv /\ SpentInv /\ [Next]_vars => SpentInv'
  BY NextSpent
<1>3. TypeOK /\ StageInv /\ SpentInv /\ [Next]_vars => [Covered]_vars
  <2> SUFFICES ASSUME TypeOK, StageInv, SpentInv, [Next]_vars,
                      NEW j \in Jobs, job[j] # Absent, job'[j].spent > job[j].spent
               PROVE  balance' >= 0
    OBVIOUS
  <2>1. job[j] \in Row /\ job[j].spent \in Nat
    BY RowOfJob DEF Row
  <2>2. job'[j].spent # job[j].spent
    BY <2>1
  <2>3. CASE Quiet
    <3>1. job'[j] = job[j] \/ GivenUp(j)
      BY <2>3 DEF Quiet, Begins
    <3>2. job'[j].spent = job[j].spent
      BY <2>1, <3>1 DEF GivenUp, Row
    <3> QED
      BY <2>2, <3>2
  <2>4. CASE Certifies \/ DeleteCertificate
    BY <2>2, <2>4, RequestCertificates
  <2>5. ASSUME NEW d \in Drivers, OpenChunk(d) \/ SkipName(d) \/ RenderFails(d) \/ IssueName(d)
        PROVE  UNCHANGED job
    BY <2>5 DEF OpenChunk, SkipName, RenderFails, IssueName, Advance
  <2>6. ASSUME NEW d \in Drivers, RunOut(d) \/ CloseChunk(d)
        PROVE  balance' >= 0
    <3>1. j = run[d].job /\ Chunking(d) /\ balance' = run[d].bal
      BY <2>2, <2>6, RowsOfCommit
    <3>2. job'[j].spent = run[d].row.spent
      BY <2>6, <3>1, RowsOfCommit DEF Row
    <3> QED
      BY <2>2, <3>1, <3>2 DEF SpentInv
  <2> QED
    BY <2>2, <2>3, <2>4, <2>5, <2>6, KindsOfSteps
<1>4. JobsNeverOverdraw <=> [][Covered]_vars
  BY DEF JobsNeverOverdraw
<1> HIDE DEF Covered
<1> QED
  BY <1>1, <1>2, <1>3, <1>4, TypeCorrect, PTL DEF Spec

-----------------------------------------------------------------------------
(* No name is passed over.                                                  *)

\* A certificate that serves a name, when h says what names the attendees have had.
ServesIn(c, n, h) == c.name = n \/ (c.attendee # Nobody /\ n \in h[c.attendee])

\* The names a job has gone past that no certificate serves.
Missed(row, cs, h) ==
  {n \in {row.names[i] : i \in 1 .. row.index} : \A c \in cs : ~ServesIn(c, n, h)}

Served(row, cs, h) ==
  IsFiniteSet(Missed(row, cs, h)) /\ Cardinality(Missed(row, cs, h)) <= row.failed

\* The names missed are counted as failed, in the rows and in the chunk; and a completed
\* job has gone past all of them.
ServedInv ==
  /\ \A j \in Jobs : job[j] # Absent =>
       /\ Served(job[j], certs, had)
       /\ job[j].status = "completed" => job[j].index = Len(job[j].names)
  /\ \A d \in Drivers : Chunking(d) => Served(run[d].row, Seen(d), had)

\* The certificates of cs are among those of ds, deleted or not, and attendees lose no
\* names.
Kept(cs, ds, h, g) ==
  /\ cs \subseteq Certificate
  /\ \A c \in cs : \E e \in ds : e.name = c.name /\ e.attendee = c.attendee
  /\ \A a \in Attendees : h[a] \subseteq g[a]

\* What serves a name goes on serving it.
LEMMA ServesKept ==
  ASSUME NEW cs, NEW ds, NEW h, NEW g, Kept(cs, ds, h, g), NEW n
  PROVE  (\A c \in ds : ~ServesIn(c, n, g)) => (\A c \in cs : ~ServesIn(c, n, h))
BY DEF Kept, ServesIn, Certificate

\* More certificates, names and failures miss no more.
LEMMA ServedKept ==
  ASSUME NEW row \in Row, NEW r \in Row, NEW cs, NEW ds, NEW h, NEW g, Served(row, cs, h),
         r.names = row.names, r.index = row.index, r.failed >= row.failed,
         Kept(cs, ds, h, g)
  PROVE  Served(r, ds, g)
<1>1. Missed(r, ds, g) \in SUBSET Missed(row, cs, h)
  BY ServesKept DEF Missed
<1>2. IsFiniteSet(Missed(row, cs, h)) /\ Cardinality(Missed(row, cs, h)) <= row.failed
  BY DEF Served
<1>3. IsFiniteSet(Missed(r, ds, g)) /\ Cardinality(Missed(r, ds, g)) <= Cardinality(Missed(row, cs, h))
  BY <1>1, <1>2, FS_Subset
<1>4. Cardinality(Missed(row, cs, h)) \in Nat /\ Cardinality(Missed(r, ds, g)) \in Nat
  BY <1>2, <1>3, FS_CardinalityType
<1>5. row.failed \in Nat /\ r.failed \in Nat
  BY DEF Row
<1> QED
  BY <1>2, <1>3, <1>4, <1>5 DEF Served

\* A job goes past one more name: a certificate serves it, or it counts as failed.
LEMMA ServedOn ==
  ASSUME NEW row \in Row, NEW r \in Row, NEW cs, NEW ds, NEW h, Served(row, cs, h),
         r.names = row.names, r.index = row.index + 1, cs \subseteq ds,
         \/ /\ \E c \in ds : ServesIn(c, row.names[row.index + 1], h)
            /\ r.failed >= row.failed
         \/ r.failed = row.failed + 1
  PROVE  Served(r, ds, h)
<1> DEFINE n == row.names[row.index + 1]
           M == Missed(row, cs, h)
<1>1. row.index \in Nat /\ row.failed \in Nat /\ r.failed \in Nat
  BY DEF Row
<1>2. IsFiniteSet(M) /\ Cardinality(M) <= row.failed /\ Cardinality(M) \in Nat
  BY FS_CardinalityType DEF Served
<1>3. \A m \in {r.names[i] : i \in 1 .. r.index} :
        m = n \/ m \in {row.names[i] : i \in 1 .. row.index}
  <2>1. \A i \in 1 .. r.index : i = row.index + 1 \/ i \in 1 .. row.index
    BY <1>1
  <2> QED
    BY <2>1
<1>4. CASE \E c \in ds : ServesIn(c, n, h)
  <2>1. Missed(r, ds, h) \in SUBSET M
    BY <1>3, <1>4 DEF Missed
  <2>2. IsFiniteSet(Missed(r, ds, h)) /\ Cardinality(Missed(r, ds, h)) <= Cardinality(M)
    BY <1>2, <2>1, FS_Subset
  <2>3. Cardinality(Missed(r, ds, h)) \in Nat
    BY <2>2, FS_CardinalityType
  <2>4. r.failed >= row.failed
    BY <1>1
  <2> HIDE DEF M
  <2> QED
    BY <1>1, <1>2, <2>2, <2>3, <2>4 DEF Served
<1>5. CASE r.failed = row.failed + 1
  <2>1. Missed(r, ds, h) \in SUBSET (M \cup {n})
    BY <1>3 DEF Missed
  <2> HIDE DEF M, n
  <2>2. IsFiniteSet(M \cup {n}) /\ Cardinality(M \cup {n}) <= Cardinality(M) + 1
    <3>1. /\ IsFiniteSet(M \cup {n})
          /\ Cardinality(M \cup {n}) = IF n \in M THEN Cardinality(M) ELSE Cardinality(M) + 1
      BY <1>2, FS_AddElement, Zenon
    <3> QED
      BY <1>2, <3>1
  <2>3. /\ IsFiniteSet(Missed(r, ds, h))
        /\ Cardinality(Missed(r, ds, h)) <= Cardinality(M \cup {n})
    BY <2>1, <2>2, FS_Subset
  <2>4. Cardinality(Missed(r, ds, h)) \in Nat /\ Cardinality(M \cup {n}) \in Nat
    BY <2>2, <2>3, FS_CardinalityType
  <2> QED
    BY <1>1, <1>2, <1>5, <2>2, <2>3, <2>4 DEF Served
<1> QED
  BY <1>4, <1>5

LEMMA NextServed ==
  ASSUME BulkCertificateJobAssumption, TypeOK, StageInv, PeopleInv, ServedInv, [Next]_vars
  PROVE  ServedInv'
<1> DEFINE Past(r) == r.status = "completed" => r.index = Len(r.names)
<1>1. \A j \in Jobs : job[j] # Absent => job[j] \in Row
  BY RowOfJob
<1>2. \A d \in Drivers : Chunking(d) => run[d] \in Holding /\ run[d].row \in Row
  BY Session DEF Chunking, Holding
<1>3. \A j \in Jobs : job'[j] # Absent => job'[j] \in Row
  BY NextTyped DEF TypeOK
<1>n. \A a \in Attendees : had[a] \subseteq had'[a]
  BY NamesKept
<1>c. certs \subseteq Certificate
  BY DEF TypeOK
<1>s. \A d \in Drivers : Chunking(d) => Seen(d) \subseteq Certificate
  BY <1>2, <1>c DEF Seen, Holding
<1>4. CASE Quiet
  <2>1. ASSUME NEW j \in Jobs, job'[j] # Absent
        PROVE  Served(job'[j], certs', had') /\ Past(job'[j])
    <3>1. CASE job'[j] = job[j]
      <4>1. Served(job[j], certs, had) /\ Past(job[j]) /\ job[j] \in Row /\ UNCHANGED certs
        BY <1>1, <1>4, <2>1, <3>1 DEF ServedInv, Quiet
      <4>2. Kept(certs, certs, had, had') /\ job[j].failed >= job[j].failed
        BY <1>n, <1>c, <4>1 DEF Kept, Row
      <4> QED
        BY <3>1, <4>1, <4>2, ServedKept
    <3>2. CASE Begins(j)
      <4>1. Missed(job'[j], certs', had') = {}
        BY <3>2 DEF Begins, Missed
      <4>2. job'[j].failed \in Nat /\ job'[j].status # "completed"
        BY <3>2 DEF Begins, Row
      <4> QED
        BY <4>1, <4>2, FS_EmptySet DEF Served
    <3>3. CASE GivenUp(j)
      <4>1. /\ job[j] # Absent /\ job'[j].names = job[j].names /\ job'[j].index = job[j].index
            /\ job'[j].failed = job[j].failed /\ job'[j].status # "completed"
        BY <1>1, <3>3, RowOfJob DEF GivenUp, Row
      <4>2. Served(job[j], certs, had) /\ UNCHANGED certs
        BY <1>4, <4>1 DEF ServedInv, Quiet
      <4> QED
        <5>1. Kept(certs, certs, had, had') /\ job'[j].failed >= job[j].failed
          BY <1>1, <1>n, <1>c, <4>1 DEF Kept, Row
        <5> QED
          BY <1>1, <1>3, <2>1, <4>1, <4>2, <5>1, ServedKept
    <3> QED
      BY <1>4, <3>1, <3>2, <3>3 DEF Quiet
  <2>2. ASSUME NEW d \in Drivers, Chunking(d)'
        PROVE  Served(run[d].row, Seen(d), had)'
    <3>1. Chunking(d) /\ run'[d] = run[d] /\ UNCHANGED certs
      BY <1>4, <2>2 DEF Quiet
    <3>2. Served(run[d].row, Seen(d), had)
      BY <3>1 DEF ServedInv
    <3>3. Kept(Seen(d), Seen(d), had, had') /\ run[d].row.failed >= run[d].row.failed
      BY <1>2, <1>n, <1>s, <3>1 DEF Kept, Row
    <3>4. Served(run[d].row, Seen(d), had')
      BY <1>2, <3>1, <3>2, <3>3, ServedKept
    <3> QED
      BY <3>1, <3>4 DEF Seen
  <2> QED
    BY <2>1, <2>2 DEF ServedInv
<1>5. CASE Certifies \/ DeleteCertificate
  <2>1. UNCHANGED <<people, job, run>>
    BY <1>5, RequestCertificates
  <2>2. Kept(certs, certs', had, had')
    BY <1>5, <1>n, <1>c, RequestCertificates DEF Kept
  <2>3. ASSUME NEW j \in Jobs, job[j] # Absent
        PROVE  Served(job[j], certs', had') /\ Past(job[j])
    <3>1. Served(job[j], certs, had) /\ Past(job[j]) /\ job[j] \in Row
      BY <1>1, <2>3 DEF ServedInv
    <3>2. job[j].failed >= job[j].failed
      BY <3>1 DEF Row
    <3> QED
      BY <2>2, <3>1, <3>2, ServedKept
  <2>4. ASSUME NEW d \in Drivers, Chunking(d)
        PROVE  Served(run[d].row, certs' \cup run[d].cart, had')
    <3>1. Served(run[d].row, Seen(d), had) /\ run[d].row \in Row
      BY <1>2, <2>4 DEF ServedInv
    <3>2. run[d].row.failed >= run[d].row.failed
      BY <3>1 DEF Row
    <3>3. Kept(Seen(d), certs' \cup run[d].cart, had, had')
      BY <1>s, <2>2, <2>4 DEF Kept, Seen
    <3> QED
      BY <3>1, <3>2, <3>3, ServedKept
  <2> QED
    BY <2>1, <2>3, <2>4 DEF ServedInv, Chunking, Seen
<1>6. ASSUME NEW d \in Drivers, OpenChunk(d)
      PROVE  ServedInv'
  <2> DEFINE j == run[d].job
  <2>1. /\ job[j] \in Row /\ j \in Jobs
        /\ run'[d] \in Holding /\ run'[d].row = [job[j] EXCEPT !.status = "processing"]
        /\ run'[d].cart = {} /\ UNCHANGED <<people, certs, job>>
        /\ \A e \in Drivers : Chunking(e)' => e = d
    <3>1. /\ run[d] \in Picked /\ UserFree /\ \A e \in Drivers \ {d} : run'[e] = run[e]
      BY <1>6, OpenStep
    <3>2. j \in Jobs /\ \A e \in Drivers : Chunking(e)' => e = d
      BY <3>1 DEF UserFree, Chunking, Picked
    <3> QED
      BY <1>6, <3>2, OpenStep
  <2>2. Served(job[j], certs, had)
    BY <2>1, RowOfJob DEF ServedInv
  <2>3. /\ run'[d].row.names = job[j].names /\ run'[d].row.index = job[j].index
        /\ run'[d].row.failed = job[j].failed
    BY <2>1 DEF Row
  <2>4. Served(run[d].row, Seen(d), had)'
    BY <2>1, <2>2, <2>3 DEF Served, Missed, Seen
  <2> QED
    BY <2>1, <2>4 DEF ServedInv
<1>7. ASSUME NEW d \in Drivers, SkipName(d) \/ RenderFails(d) \/ IssueName(d)
      PROVE  ServedInv'
  <2>1. Chunking(d) /\ Advances(d)
    BY <1>7, NextNameType, SkipStep, RenderFailsStep, IssueStep
       DEF SkipName, RenderFails, IssueName, MayIssue
  <2>2. UNCHANGED <<people, certs, job>> /\ \A e \in Drivers : Chunking(e)' => e = d
    BY <2>1 DEF Advances, Chunking, StageInv
  <2>3. /\ run[d].row \in Row /\ run'[d].row \in Row /\ run[d].row.failed \in Nat
        /\ run'[d].row.names = run[d].row.names
        /\ run'[d].row.index = run[d].row.index + 1
    BY <1>2, <2>1 DEF Advances, Holding, Row
  <2>4. Seen(d) \subseteq Seen(d)'
    BY <1>7, <2>2, SkipStep, RenderFailsStep, IssueStep DEF Seen
  <2>5. \/ /\ \E c \in Seen(d)' : ServesIn(c, NextName(d), had)
           /\ run'[d].row.failed >= run[d].row.failed
        \/ run'[d].row.failed = run[d].row.failed + 1
    <3>1. CASE SkipName(d)
      <4> DEFINE n == NextName(d)
      <4>1. PICK c \in Seen(d) : IF c.attendee = Nobody THEN c.name = n ELSE c.attendee = run[d].link[n]
        BY <3>1 DEF SkipName, NextHasOne, HasCertificate, Seen
      <4>2. n \in Names /\ c \in Certificate
        BY <1>s, <2>1, <3>1, <4>1, NextNameType DEF SkipName
      <4>3. c.attendee # Nobody => n \in had[c.attendee]
        BY <2>1, <4>1, <4>2 DEF PeopleInv, Certificate
      <4>4. ServesIn(c, n, had)
        BY <4>1, <4>3 DEF ServesIn
      <4>5. run'[d].row.failed >= run[d].row.failed
        BY <2>3, <3>1, SkipStep
      <4> QED
        BY <2>4, <4>1, <4>4, <4>5
    <3>2. CASE RenderFails(d)
      BY <3>2, RenderFailsStep
    <3>3. CASE IssueName(d)
      BY <3>3, IssueStep DEF Seen, ServesIn
    <3> QED
      BY <1>7, <3>1, <3>2, <3>3
  <2>6. Served(run[d].row, Seen(d), had)
    BY <2>1 DEF ServedInv
  <2>7. Served(run'[d].row, Seen(d)', had)
    BY <2>3, <2>4, <2>5, <2>6, ServedOn DEF NextName
  <2>8. had' = had
    BY <2>1 DEF Advances
  <2> QED
    BY <2>2, <2>7, <2>8 DEF ServedInv
<1>8. ASSUME NEW d \in Drivers, RunOut(d) \/ CloseChunk(d)
      PROVE  ServedInv'
  <2>1. /\ Chunking(d) /\ run[d].job \in Jobs /\ run[d].row \in Row
        /\ certs' = Seen(d) /\ UNCHANGED people /\ \A e \in Drivers : ~Chunking(e)'
        /\ \A j \in Jobs \ {run[d].job} : job'[j] = job[j]
    BY <1>8, RowsOfCommit
  <2>2. PICK status \in {"completed", "failed", "processing"} :
          /\ job'[run[d].job] = [run[d].row EXCEPT !.status = status]
          /\ status = "completed" => run[d].row.index = Len(run[d].row.names)
    BY <1>8, RowsOfCommit
  <2>3. Served(job'[run[d].job], certs', had') /\ Past(job'[run[d].job])
    <3>1. /\ job'[run[d].job].names = run[d].row.names
          /\ job'[run[d].job].index = run[d].row.index
          /\ job'[run[d].job].failed = run[d].row.failed
          /\ job'[run[d].job].status = status
      BY <2>1, <2>2 DEF Row
    <3>2. Served(run[d].row, certs', had')
      BY <2>1 DEF ServedInv
    <3> QED
      BY <2>2, <3>1, <3>2 DEF Served, Missed
  <2>4. ASSUME NEW j \in Jobs \ {run[d].job}, job'[j] # Absent
        PROVE  Served(job'[j], certs', had') /\ Past(job'[j])
    <3>1. Served(job[j], certs, had) /\ Past(job[j]) /\ job[j] \in Row /\ job'[j] = job[j]
      BY <1>1, <2>1, <2>4 DEF ServedInv
    <3>2. job[j].failed >= job[j].failed
      BY <3>1 DEF Row
    <3>3. Kept(certs, certs', had, had')
      BY <1>n, <1>c, <2>1 DEF Kept, Seen
    <3> QED
      BY <3>1, <3>2, <3>3, ServedKept
  <2> QED
    BY <2>1, <2>3, <2>4 DEF ServedInv
<1> QED
  BY <1>4, <1>5, <1>6, <1>7, <1>8, KindsOfSteps

\* For any number of processes, jobs and names: of a completed job every name has a
\* certificate or is counted as failed.
THEOREM NoNameSkipped == Spec => []NothingSkipped
<1> USE BulkCertificateJobAssumption
<1>1. Init => ServedInv
  BY DEF Init, ServedInv, Chunking, Idle
<1>2. TypeOK /\ StageInv /\ PeopleInv /\ ServedInv /\ [Next]_vars => ServedInv'
  BY NextServed
<1>3. TypeOK /\ ServedInv => NothingSkipped
  <2> SUFFICES ASSUME TypeOK, ServedInv, NEW j \in Jobs, job[j].status = "completed"
               PROVE  Cardinality({n \in Range(job[j].names) : \A c \in certs : ~Serves(c, n)})
                        <= job[j].failed
    BY DEF NothingSkipped
  <2>1. job[j] \in Row /\ job[j] # Absent
    BY RowOfJob DEF Finished
  <2>2. job[j].names \in Seq(Names) /\ job[j].index = Len(job[j].names)
    BY <2>1, RowType DEF ServedInv
  <2>3. DOMAIN job[j].names = 1 .. job[j].index
    BY <2>2
  <2>4. {n \in Range(job[j].names) : \A c \in certs : ~Serves(c, n)} = Missed(job[j], certs, had)
    BY <2>3 DEF Range, Missed, Serves, ServesIn
  <2> QED
    BY <2>1, <2>4 DEF ServedInv, Served
<1> QED
  BY <1>1, <1>2, <1>3, PeopleInvariant, PTL DEF Spec

-----------------------------------------------------------------------------
(* Sums over finite sets.  The library's induction theorems take an operator *)
(* as a parameter; what is proved by induction here is proved from a smallest *)
(* counterexample, which FS_StrictSubsetOrderingWellFounded provides.         *)

\* The sum of w[x] over the x in S; the element its definition takes first; and
\* what it asks of the function it is read from.
Total(w, S) == MapThenSumSet(LAMBDA x : w[x], S)
Some(s) == CHOOSE x \in s : TRUE
Sums(w, S, g) ==
  g = [s \in SUBSET S |-> IF s = {} THEN 0 ELSE w[Some(s)] + g[s \ {Some(s)}]]

\* Among sets of subsets of a finite set there is one with no smaller one.
LEMMA SmallestSet ==
  ASSUME NEW S, IsFiniteSet(S), NEW bad, bad \subseteq SUBSET S, bad # {}
  PROVE  \E T \in bad : \A U \in SUBSET T : U # T => U \notin bad
<1>1. IsWellFoundedOn(StrictSubsetOrdering(S), SUBSET S)
  BY FS_StrictSubsetOrderingWellFounded, FS_FiniteSubsetsOfFinite
<1>2. PICK T \in bad : \A U \in bad : <<U, T>> \notin StrictSubsetOrdering(S)
  BY <1>1, WFMin, Zenon
<1>3. QED
  BY <1>2 DEF StrictSubsetOrdering

\* The element taken first is one.
LEMMA SomeElement == ASSUME NEW s, s # {} PROVE Some(s) \in s
  BY DEF Some

\* The sum is read from a function that Sums describes, if there is one.
LEMMA TotalChooses == \A w, S : Total(w, S) = (CHOOSE g : Sums(w, S, g))[S]
  BY DEF Total, MapThenSumSet, MapThenFoldSet, Sums, Some

\* What such a function is at each subset.
LEMMA SumsEquation ==
  ASSUME NEW w, NEW S, NEW g, Sums(w, S, g), NEW s \in SUBSET S
  PROVE  g[s] = IF s = {} THEN 0 ELSE w[Some(s)] + g[s \ {Some(s)}]
  BY Zenon DEF Sums

\* Two of them agree wherever both are defined.
LEMMA SumsUnique ==
  ASSUME NEW w, NEW S, NEW T, IsFiniteSet(S), NEW g, NEW h, Sums(w, S, g), Sums(w, T, h)
  PROVE  \A s \in SUBSET (S \cap T) : g[s] = h[s]
<1> DEFINE bad == {s \in SUBSET (S \cap T) : g[s] # h[s]}
<1>1. SUFFICES ASSUME bad # {} PROVE FALSE
  OBVIOUS
<1>sub. bad \subseteq SUBSET (S \cap T)
  OBVIOUS
<1> HIDE DEF bad
<1>2. PICK s \in bad : \A u \in SUBSET s : u # s => u \notin bad
  BY <1>1, <1>sub, SmallestSet
<1> USE DEF bad
<1>3. s \in SUBSET S /\ s \in SUBSET T /\ g[s] # h[s]
  BY <1>2
<1>4. /\ g[s] = IF s = {} THEN 0 ELSE w[Some(s)] + g[s \ {Some(s)}]
      /\ h[s] = IF s = {} THEN 0 ELSE w[Some(s)] + h[s \ {Some(s)}]
  BY <1>3, SumsEquation
<1>5. s # {}
  BY <1>3, <1>4
<1>6. s \ {Some(s)} \in SUBSET s /\ s \ {Some(s)} # s
  BY <1>5, SomeElement
<1>7. g[s \ {Some(s)}] = h[s \ {Some(s)}]
  BY <1>2, <1>3, <1>6
<1>8. QED
  BY <1>3, <1>4, <1>7

\* There is one for every finite set.
LEMMA SumsExist ==
  ASSUME NEW w, NEW S, IsFiniteSet(S)
  PROVE  \A T \in SUBSET S : \E g : Sums(w, T, g)
<1> DEFINE bad == {T \in SUBSET S : ~\E g : Sums(w, T, g)}
<1>1. SUFFICES ASSUME bad # {} PROVE FALSE
  OBVIOUS
<1>sub. bad \subseteq SUBSET S
  OBVIOUS
<1> HIDE DEF bad
<1>2. PICK T \in bad : \A u \in SUBSET T : u # T => u \notin bad
  BY <1>1, <1>sub, SmallestSet
<1> USE DEF bad
<1>3. T \in SUBSET S /\ \A u \in SUBSET T : u # T => \E g : Sums(w, u, g)
  BY <1>2
<1> DEFINE G == [s \in SUBSET T |-> IF s = {} THEN 0 ELSE w[Some(s)] + Total(w, s \ {Some(s)})]
<1>4. ASSUME NEW u \in SUBSET T, u # T
      PROVE  G[u] = Total(w, u)
  <2>1. PICK g : g = (CHOOSE f : Sums(w, u, f)) /\ Sums(w, u, g)
    BY <1>3, <1>4
  <2>2. Total(w, u) = g[u]
    BY <2>1, TotalChooses
  <2>3. g[u] = IF u = {} THEN 0 ELSE w[Some(u)] + g[u \ {Some(u)}]
    BY <2>1, SumsEquation
  <2>4. CASE u = {}
    BY <2>2, <2>3, <2>4
  <2>5. CASE u # {}
    <3> DEFINE v == u \ {Some(u)}
    <3>1. v \in SUBSET u /\ v \in SUBSET T /\ v # T
      BY <1>4
    <3>2. PICK h : h = (CHOOSE f : Sums(w, v, f)) /\ Sums(w, v, h)
      BY <1>3, <3>1
    <3>3. Total(w, v) = h[v]
      BY <3>2, TotalChooses
    <3>4. IsFiniteSet(v)
      BY <1>3, <3>1, FS_Subset
    <3>5. v \in SUBSET (v \cap u)
      BY <3>1
    <3>6. h[v] = g[v]
      BY <2>1, <3>2, <3>4, <3>5, SumsUnique
    <3>7. QED
      BY <2>2, <2>3, <2>5, <3>3, <3>6
  <2>6. QED
    BY <2>4, <2>5
<1>5. G = [s \in SUBSET T |-> IF s = {} THEN 0 ELSE w[Some(s)] + G[s \ {Some(s)}]]
  <2>1. ASSUME NEW s \in SUBSET T, s # {}
        PROVE  G[s \ {Some(s)}] = Total(w, s \ {Some(s)})
    <3>1. Some(s) \in s
      BY <2>1, SomeElement
    <3>2. s \ {Some(s)} \in SUBSET T /\ s \ {Some(s)} # T
      BY <3>1
    <3>3. QED
      BY <1>4, <3>2
  <2>2. QED
    BY <2>1
<1>6. Sums(w, T, G)
  BY <1>5 DEF Sums
<1>7. QED
  BY <1>2, <1>6

\* What the sum is, with the element its definition chooses.
LEMMA TotalEquation ==
  ASSUME NEW w, NEW S, IsFiniteSet(S)
  PROVE  Total(w, S) = IF S = {} THEN 0 ELSE w[Some(S)] + Total(w, S \ {Some(S)})
<1> DEFINE v == S \ {Some(S)}
<1>1. IsFiniteSet(v) /\ v \in SUBSET S /\ S \in SUBSET S
  BY FS_Subset
<1>2. PICK g : g = (CHOOSE f : Sums(w, S, f)) /\ Sums(w, S, g)
  BY <1>1, SumsExist
<1>3. PICK h : h = (CHOOSE f : Sums(w, v, f)) /\ Sums(w, v, h)
  BY <1>1, SumsExist
<1>4. Total(w, S) = g[S] /\ Total(w, v) = h[v]
  BY <1>2, <1>3, TotalChooses
<1>5. g[S] = IF S = {} THEN 0 ELSE w[Some(S)] + g[v]
  <2>1. Sums(w, S, g) /\ S \in SUBSET S
    BY <1>2
  <2>2. QED
    BY <2>1, Zenon DEF Sums
<1>6. v \in SUBSET (v \cap S)
  BY <1>1
<1>7. h[v] = g[v]
  BY <1>1, <1>2, <1>3, <1>6, SumsUnique
<1>8. QED
  BY <1>4, <1>5, <1>7

\* The sum of natural numbers is one.
LEMMA TotalType ==
  ASSUME NEW U, NEW w \in [U -> Nat], NEW S \in SUBSET U, IsFiniteSet(S)
  PROVE  Total(w, S) \in Nat
<1> DEFINE bad == {T \in SUBSET S : Total(w, T) \notin Nat}
<1>1. SUFFICES ASSUME bad # {} PROVE FALSE
  OBVIOUS
<1>sub. bad \subseteq SUBSET S
  OBVIOUS
<1> HIDE DEF bad
<1>2. PICK T \in bad : \A u \in SUBSET T : u # T => u \notin bad
  BY <1>1, <1>sub, SmallestSet
<1> USE DEF bad
<1>3. T \in SUBSET S /\ Total(w, T) \notin Nat /\ IsFiniteSet(T)
  BY <1>2, FS_Subset
<1>4. Total(w, T) = IF T = {} THEN 0 ELSE w[Some(T)] + Total(w, T \ {Some(T)})
  BY <1>3, TotalEquation
<1>5. T # {}
  BY <1>3, <1>4
<1>6. Some(T) \in T
  BY <1>5, SomeElement
<1>7. Total(w, T \ {Some(T)}) \in Nat
  BY <1>2, <1>3, <1>6
<1>8. w[Some(T)] \in Nat
  BY <1>3, <1>6
<1>9. QED
  BY <1>3, <1>4, <1>5, <1>7, <1>8

\* Any element can be taken out first.
LEMMA TotalTakes ==
  ASSUME NEW U, NEW w \in [U -> Nat], NEW S \in SUBSET U, IsFiniteSet(S), NEW x \in S
  PROVE  Total(w, S) = w[x] + Total(w, S \ {x})
<1> DEFINE bad == {T \in SUBSET S : \E z \in T : Total(w, T) # w[z] + Total(w, T \ {z})}
<1>1. SUFFICES ASSUME bad # {} PROVE FALSE
  OBVIOUS
<1>sub. bad \subseteq SUBSET S
  OBVIOUS
<1> HIDE DEF bad
<1>2. PICK T \in bad : \A u \in SUBSET T : u # T => u \notin bad
  BY <1>1, <1>sub, SmallestSet
<1> USE DEF bad
<1>3. PICK z \in T : Total(w, T) # w[z] + Total(w, T \ {z})
  BY <1>2
<1>4. T \in SUBSET S /\ IsFiniteSet(T)
  BY <1>2, FS_Subset
<1> DEFINE y == Some(T)
<1>5. y \in T /\ Total(w, T) = w[y] + Total(w, T \ {y})
  BY <1>3, <1>4, SomeElement, TotalEquation
<1> HIDE DEF y
<1>6. y # z
  BY <1>3, <1>5
<1>7. Total(w, T \ {y}) = w[z] + Total(w, (T \ {y}) \ {z})
  BY <1>2, <1>3, <1>4, <1>5, <1>6
<1>8. Total(w, T \ {z}) = w[y] + Total(w, (T \ {z}) \ {y})
  BY <1>2, <1>3, <1>4, <1>5, <1>6
<1> DEFINE rest == (T \ {y}) \ {z}
<1>9. rest = (T \ {z}) \ {y} /\ rest \in SUBSET U /\ IsFiniteSet(rest)
  BY <1>4, FS_Subset
<1>10. Total(w, rest) \in Nat
  BY <1>9, TotalType
<1>11. w[y] \in Nat /\ w[z] \in Nat
  BY <1>3, <1>4, <1>5
<1>12. w[y] + (w[z] + Total(w, rest)) = w[z] + (w[y] + Total(w, rest))
  BY <1>10, <1>11
<1>13. QED
  BY <1>3, <1>5, <1>7, <1>8, <1>9, <1>12

\* Only the weights of the elements count.
LEMMA TotalSame ==
  ASSUME NEW w, NEW v, NEW S, IsFiniteSet(S), \A x \in S : w[x] = v[x]
  PROVE  Total(w, S) = Total(v, S)
<1> DEFINE bad == {T \in SUBSET S : Total(w, T) # Total(v, T)}
<1>1. SUFFICES ASSUME bad # {} PROVE FALSE
  OBVIOUS
<1>sub. bad \subseteq SUBSET S
  OBVIOUS
<1> HIDE DEF bad
<1>2. PICK T \in bad : \A u \in SUBSET T : u # T => u \notin bad
  BY <1>1, <1>sub, SmallestSet
<1> USE DEF bad
<1>3. T \in SUBSET S /\ Total(w, T) # Total(v, T) /\ IsFiniteSet(T)
  BY <1>2, FS_Subset
<1>4. /\ Total(w, T) = IF T = {} THEN 0 ELSE w[Some(T)] + Total(w, T \ {Some(T)})
      /\ Total(v, T) = IF T = {} THEN 0 ELSE v[Some(T)] + Total(v, T \ {Some(T)})
  BY <1>3, TotalEquation
<1>5. T # {}
  BY <1>3, <1>4
<1>6. Some(T) \in T
  BY <1>5, SomeElement
<1>7. Total(w, T \ {Some(T)}) = Total(v, T \ {Some(T)}) /\ w[Some(T)] = v[Some(T)]
  BY <1>2, <1>3, <1>6
<1>8. QED
  BY <1>3, <1>4, <1>7

\* A new element adds its weight.
LEMMA TotalAdds ==
  ASSUME NEW U, NEW w \in [U -> Nat], NEW S \in SUBSET U, IsFiniteSet(S), NEW x \in U, x \notin S
  PROVE  Total(w, S \cup {x}) = Total(w, S) + w[x]
<1>1. IsFiniteSet(S \cup {x}) /\ S \cup {x} \in SUBSET U /\ (S \cup {x}) \ {x} = S
  BY FS_AddElement
<1>2. Total(w, S \cup {x}) = w[x] + Total(w, S)
  BY <1>1, TotalTakes
<1>3. Total(w, S) \in Nat /\ w[x] \in Nat
  BY TotalType
<1>4. QED
  BY <1>2, <1>3

\* The sum over two sets that share no element.
LEMMA TotalUnion ==
  ASSUME NEW U, NEW w \in [U -> Nat], NEW A \in SUBSET U, IsFiniteSet(A),
         NEW B \in SUBSET U, IsFiniteSet(B), A \cap B = {}
  PROVE  Total(w, A \cup B) = Total(w, A) + Total(w, B)
<1> DEFINE bad == {T \in SUBSET B : Total(w, A \cup T) # Total(w, A) + Total(w, T)}
<1>1. SUFFICES ASSUME bad # {} PROVE FALSE
  OBVIOUS
<1>sub. bad \subseteq SUBSET B
  OBVIOUS
<1> HIDE DEF bad
<1>2. PICK T \in bad : \A u \in SUBSET T : u # T => u \notin bad
  BY <1>1, <1>sub, SmallestSet
<1> USE DEF bad
<1>3. T \in SUBSET B /\ Total(w, A \cup T) # Total(w, A) + Total(w, T) /\ IsFiniteSet(T)
  BY <1>2, FS_Subset
<1>4. Total(w, T) = IF T = {} THEN 0 ELSE w[Some(T)] + Total(w, T \ {Some(T)})
  BY <1>3, TotalEquation
<1>5. Total(w, A) \in Nat /\ Total(w, T) \in Nat
  BY <1>3, TotalType
<1>6. T # {}
  <2>1. SUFFICES ASSUME T = {} PROVE FALSE
    OBVIOUS
  <2>2. A \cup T = A /\ Total(w, T) = 0
    BY <2>1, <1>4
  <2>3. QED
    BY <1>3, <1>5, <2>2
<1> DEFINE x == Some(T)
           rest == T \ {x}
<1>7. x \in T /\ Total(w, T) = w[x] + Total(w, rest)
  BY <1>4, <1>6, SomeElement
<1> HIDE DEF x
<1>8. rest \in SUBSET B /\ rest \in SUBSET T /\ rest # T /\ IsFiniteSet(rest)
  BY <1>3, <1>7, FS_Subset
<1>9. Total(w, A \cup rest) = Total(w, A) + Total(w, rest)
  BY <1>2, <1>8
<1>10. /\ A \cup T \in SUBSET U /\ x \in A \cup T /\ (A \cup T) \ {x} = A \cup rest
       /\ x \in U
  BY <1>3, <1>7
<1>11. IsFiniteSet(A \cup T)
  BY <1>3, FS_Union
<1>12. Total(w, A \cup T) = w[x] + Total(w, A \cup rest)
  BY <1>10, <1>11, TotalTakes
<1>13. w[x] \in Nat /\ Total(w, rest) \in Nat
  BY <1>8, <1>10, TotalType
<1>14. QED
  BY <1>3, <1>5, <1>7, <1>9, <1>12, <1>13


-----------------------------------------------------------------------------
(* The counters of the jobs and the balance.                                *)

\* The weights of the certificates.
Cost == [c \in Certificate |-> c.cost]

\* Costs are natural numbers.
LEMMA CostType == Cost \in [Certificate -> Nat]
BY DEF Cost, Certificate

\* The sums of the two properties, with weights that do not depend on the rows.
LEMMA SumOfCosts ==
  ASSUME NEW S \in SUBSET Certificate, IsFiniteSet(S)
  PROVE  MapThenSumSet(LAMBDA c : c.cost, S) = Total(Cost, S)
<1> DEFINE w == [c \in S |-> c.cost]
<1>1. MapThenSumSet(LAMBDA c : c.cost, S) = Total(w, S)
  BY DEF Total, MapThenSumSet, MapThenFoldSet
<1>2. \A c \in S : w[c] = Cost[c]
  BY DEF Cost
<1> HIDE DEF w
<1>3. Total(w, S) = Total(Cost, S)
  BY <1>2, TotalSame
<1> QED
  BY <1>1, <1>3

\* Nothing costs nothing.
LEMMA NoCost == IsFiniteSet({}) /\ Cardinality({}) = 0 /\ Total(Cost, {}) = 0
BY FS_EmptySet, TotalEquation

\* A set's size and cost when a new certificate joins it, ...
LEMMA Joined ==
  ASSUME NEW S \in SUBSET Certificate, IsFiniteSet(S), NEW c \in Certificate, c \notin S
  PROVE  /\ IsFiniteSet(S \cup {c})
         /\ Cardinality(S) \in Nat /\ Cardinality(S \cup {c}) = Cardinality(S) + 1
         /\ Total(Cost, S) \in Nat /\ Total(Cost, S \cup {c}) = Total(Cost, S) + c.cost
<1>1. IsFiniteSet(S \cup {c}) /\ Cardinality(S \cup {c}) = Cardinality(S) + 1
  BY FS_AddElement
<1>2. Cardinality(S) \in Nat
  BY FS_CardinalityType
<1>3. Total(Cost, S \cup {c}) = Total(Cost, S) + Cost[c] /\ Total(Cost, S) \in Nat
  BY CostType, TotalAdds, TotalType
<1>4. Cost[c] = c.cost
  BY DEF Cost
<1> QED
  BY <1>1, <1>2, <1>3, <1>4

\* ... when another takes the place of one that cost as much, ...
LEMMA Replaced ==
  ASSUME NEW S \in SUBSET Certificate, IsFiniteSet(S), NEW c \in S,
         NEW x \in Certificate, x \notin S, x.cost = c.cost
  PROVE  LET T == (S \ {c}) \cup {x} IN
         IsFiniteSet(T) /\ Cardinality(T) = Cardinality(S) /\ Total(Cost, T) = Total(Cost, S)
<1> DEFINE R == S \ {c}
<1>1. /\ R \in SUBSET Certificate /\ x \notin R /\ c \notin R /\ R \cup {c} = S
      /\ c \in Certificate
  OBVIOUS
<1>2. IsFiniteSet(R)
  BY FS_RemoveElement
<1> HIDE DEF R
<1>3. /\ IsFiniteSet(R \cup {x}) /\ Cardinality(R \cup {x}) = Cardinality(R) + 1
      /\ Total(Cost, R \cup {x}) = Total(Cost, R) + x.cost
  BY <1>1, <1>2, Joined
<1>4. Cardinality(R \cup {c}) = Cardinality(R) + 1 /\ Total(Cost, R \cup {c}) = Total(Cost, R) + c.cost
  BY <1>1, <1>2, Joined
<1> QED
  BY <1>1, <1>3, <1>4 DEF R

\* ... and when two sets that share nothing come together.
LEMMA United ==
  ASSUME NEW S \in SUBSET Certificate, IsFiniteSet(S),
         NEW T \in SUBSET Certificate, IsFiniteSet(T), S \cap T = {}
  PROVE  /\ Cardinality(S) \in Nat /\ Cardinality(T) \in Nat
         /\ Cardinality(S \cup T) = Cardinality(S) + Cardinality(T)
         /\ Total(Cost, S) \in Nat /\ Total(Cost, T) \in Nat
         /\ Total(Cost, S \cup T) = Total(Cost, S) + Total(Cost, T)
<1>1. Cardinality(S) \in Nat /\ Cardinality(T) \in Nat
  BY FS_CardinalityType
<1>2. Cardinality(S \cup T) = Cardinality(S) + Cardinality(T) - Cardinality(S \cap T)
  BY FS_Union
<1>3. Cardinality(S \cap T) = 0
  BY FS_EmptySet
<1>4. Total(Cost, S \cup T) = Total(Cost, S) + Total(Cost, T)
  BY CostType, TotalUnion
<1>5. Total(Cost, S) \in Nat /\ Total(Cost, T) \in Nat
  BY CostType, TotalType
<1> QED
  BY <1>1, <1>2, <1>3, <1>4, <1>5

\* No two certificates have one number, and those a chunk adds come after those
\* that are committed: no certificate is counted twice or for another.
NumberInv ==
  /\ \A c \in certs : c.no < Cardinality(certs)
  /\ \A c, e \in certs : c.no = e.no => c = e
  /\ \A d \in Drivers : Chunking(d) =>
       /\ \A c \in run[d].cart :
            /\ Cardinality(certs) <= c.no
            /\ c.no < Cardinality(certs) + Cardinality(run[d].cart)
       /\ \A c, e \in run[d].cart : c.no = e.no => c = e

\* What the committed rows have counted, and what a chunk has counted on top of it.
CountInv ==
  /\ \A j \in Jobs :
       /\ job[j] = Absent => Of(j) = {}
       /\ job[j] # Absent => /\ job[j].created = Cardinality(Of(j))
                             /\ job[j].spent = Total(Cost, Of(j))
  /\ \A d \in Drivers : Chunking(d) =>
       /\ run[d].row.created = job[run[d].job].created + Cardinality(run[d].cart)
       /\ run[d].row.spent = job[run[d].job].spent + Total(Cost, run[d].cart)
       /\ run[d].bal = balance - Total(Cost, run[d].cart)
  /\ Opening - balance = Total(Cost, certs)

\* The certificates of a job are finitely many.
LEMMA OfType ==
  ASSUME TypeOK, StageInv, NEW j
  PROVE  Of(j) \in SUBSET Certificate /\ IsFiniteSet(Of(j)) /\ Of(j) \subseteq certs
<1>1. Of(j) \subseteq certs /\ certs \in SUBSET Certificate
  BY DEF Of, TypeOK
<1> QED
  BY <1>1, FS_Subset DEF StageInv

\* What is there to count for an open chunk.
LEMMA ChunkType ==
  ASSUME TypeOK, StageInv, NEW d \in Drivers, Chunking(d)
  PROVE  /\ run[d] \in Holding /\ run[d].job \in Jobs /\ run[d].row \in Row
         /\ job[run[d].job] \in Row /\ job[run[d].job] # Absent
         /\ run[d].cart \in SUBSET Certificate /\ IsFiniteSet(run[d].cart)
         /\ \A e \in Drivers : Chunking(e) => e = d
<1>1. run[d] \in Holding
  BY Session DEF Chunking
<1>2. run[d].job \in Jobs /\ run[d].row \in Row /\ run[d].cart \in SUBSET Certificate
  BY <1>1 DEF Holding
<1>3. job[run[d].job] \in Row /\ job[run[d].job] # Absent
  BY <1>2, RowOfJob DEF StageInv
<1> QED
  BY <1>1, <1>2, <1>3 DEF StageInv

\* Steps that change neither certificates nor chunks; a new job has counted nothing.
LEMMA QuietCounts ==
  ASSUME TypeOK, StageInv, NumberInv, CountInv, Quiet
  PROVE  NumberInv' /\ CountInv'
<1>1. NumberInv'
  BY DEF Quiet, NumberInv, Chunking
<1>2. UNCHANGED <<balance, certs>> /\ \A j \in Jobs : Of(j)' = Of(j)
  BY DEF Quiet, Of
<1>3. ASSUME NEW j \in Jobs
      PROVE  /\ job'[j] = Absent => Of(j)' = {}
             /\ job'[j] # Absent => /\ job'[j].created = Cardinality(Of(j)')
                                    /\ job'[j].spent = Total(Cost, Of(j)')
  <2>1. CASE job'[j] = job[j]
    BY <1>2, <2>1 DEF CountInv
  <2>2. CASE Begins(j)
    <3>1. Of(j)' = {}
      BY <1>2, <2>2 DEF CountInv, Begins
    <3> QED
      BY <2>2, <3>1, NoCost DEF Begins
  <2>3. CASE GivenUp(j)
    <3>1. /\ job[j] # Absent /\ job[j] \in Row
          /\ job'[j].created = job[j].created /\ job'[j].spent = job[j].spent
      BY <2>3, RowOfJob DEF GivenUp, Row
    <3>2. job[j].created = Cardinality(Of(j)) /\ job[j].spent = Total(Cost, Of(j))
      BY <3>1 DEF CountInv
    <3>3. job'[j] # Absent
      BY <2>3, <3>1 DEF GivenUp, Row, Absent, Active, Finished
    <3> QED
      BY <1>2, <3>1, <3>2, <3>3
  <2> QED
    BY <2>1, <2>2, <2>3 DEF Quiet
<1>4. ASSUME NEW d \in Drivers, Chunking(d)'
      PROVE  /\ run'[d].row.created = job'[run'[d].job].created + Cardinality(run'[d].cart)
             /\ run'[d].row.spent = job'[run'[d].job].spent + Total(Cost, run'[d].cart)
             /\ run'[d].bal = balance' - Total(Cost, run'[d].cart)
  BY <1>2, <1>4 DEF CountInv, Quiet
<1> QED
  BY <1>1, <1>2, <1>3, <1>4 DEF CountInv

\* A single certification adds a certificate of no job, while no chunk is open.
LEMMA ElsewhereCounts ==
  ASSUME BulkCertificateJobAssumption, TypeOK, StageInv, NumberInv, CountInv,
         UNCHANGED <<people, job, run>>, \A e \in Drivers : ~Chunking(e),
         NEW c \in Certificate, certs' = certs \cup {c}, c.by = NoJob,
         c.no = Cardinality(certs), balance' = balance - c.cost
  PROVE  NumberInv' /\ CountInv'
<1>1. certs \in SUBSET Certificate /\ IsFiniteSet(certs) /\ balance \in Int /\ c.cost \in Nat
      /\ Opening \in Nat
  BY DEF TypeOK, StageInv, Certificate, BulkCertificateJobAssumption
<1>2. Cardinality(certs) \in Nat /\ \A e \in certs : e.no \in Nat
  BY <1>1, FS_CardinalityType DEF Certificate
<1>3. c \notin certs
  BY <1>2 DEF NumberInv
<1>4. /\ Cardinality(certs') = Cardinality(certs) + 1
      /\ Total(Cost, certs) \in Nat /\ Total(Cost, certs') = Total(Cost, certs) + c.cost
  BY <1>1, <1>3, Joined
<1>5. NumberInv'
  <2>1. \A e \in certs' : e.no < Cardinality(certs')
    BY <1>2, <1>4 DEF NumberInv
  <2>2. \A e, f \in certs' : e.no = f.no => e = f
    BY <1>2 DEF NumberInv
  <2> QED
    BY <2>1, <2>2 DEF NumberInv, Chunking
<1>6. \A j \in Jobs : Of(j)' = Of(j)
  BY DEF Of, Jobs, NoJob
<1>7. Opening - balance' = Total(Cost, certs')
  BY <1>1, <1>4 DEF CountInv
<1> QED
  BY <1>5, <1>6, <1>7 DEF CountInv, Chunking

\* A deletion marks a certificate, which keeps its number, job and cost.
LEMMA DeleteCounts ==
  ASSUME TypeOK, StageInv, NumberInv, CountInv, UNCHANGED <<people, job, run, balance>>,
         NEW c \in certs, NEW x \in Certificate, certs' = (certs \ {c}) \cup {x},
         ~c.deleted, x.deleted, x.no = c.no, x.by = c.by, x.cost = c.cost
  PROVE  NumberInv' /\ CountInv'
<1>1. certs \in SUBSET Certificate /\ IsFiniteSet(certs)
  BY DEF TypeOK, StageInv
<1>2. x \notin certs
  BY DEF NumberInv
<1>3. Cardinality(certs') = Cardinality(certs) /\ Total(Cost, certs') = Total(Cost, certs)
  BY <1>1, <1>2, Replaced
<1>4. NumberInv'
  <2>1. \A e \in certs' : e.no < Cardinality(certs')
    BY <1>3 DEF NumberInv
  <2>2. \A e, f \in certs' : e.no = f.no => e = f
    BY DEF NumberInv
  <2> QED
    BY <1>3, <2>1, <2>2 DEF NumberInv, Chunking
<1>5. ASSUME NEW j \in Jobs
      PROVE  /\ Cardinality(Of(j)') = Cardinality(Of(j))
             /\ Total(Cost, Of(j)') = Total(Cost, Of(j))
             /\ Of(j) = {} => Of(j)' = {}
  <2>1. CASE c.by = j
    <3>1. Of(j)' = (Of(j) \ {c}) \cup {x} /\ c \in Of(j) /\ x \notin Of(j)
      BY <1>2, <2>1 DEF Of
    <3>2. Of(j) \in SUBSET Certificate /\ IsFiniteSet(Of(j))
      BY OfType
    <3>3. /\ Cardinality((Of(j) \ {c}) \cup {x}) = Cardinality(Of(j))
          /\ Total(Cost, (Of(j) \ {c}) \cup {x}) = Total(Cost, Of(j))
      BY <3>1, <3>2, Replaced
    <3> QED
      BY <3>1, <3>3
  <2>2. CASE c.by # j
    <3>1. Of(j)' = Of(j)
      BY <2>2 DEF Of
    <3> QED
      BY <3>1
  <2> QED
    BY <2>1, <2>2
<1> QED
  BY <1>3, <1>4, <1>5 DEF CountInv, Chunking

\* A chunk opens with the counters of its row and nothing in its cart.
LEMMA OpenCounts ==
  ASSUME BulkCertificateJobAssumption, TypeOK, StageInv, NumberInv, CountInv,
         NEW d \in Drivers, OpenChunk(d)
  PROVE  NumberInv' /\ CountInv'
<1>1. /\ run'[d].cart = {} /\ run'[d].job = run[d].job /\ run'[d].bal = balance
      /\ UNCHANGED <<balance, people, certs, job>> /\ job[run[d].job] \in Row
      /\ run'[d].row = [job[run[d].job] EXCEPT !.status = "processing"]
      /\ \A e \in Drivers : Chunking(e)' => e = d
  BY OpenStep DEF UserFree, Chunking
<1>2. /\ run'[d].row.created = job[run[d].job].created /\ job[run[d].job].created \in Nat
      /\ run'[d].row.spent = job[run[d].job].spent /\ job[run[d].job].spent \in Nat
      /\ balance \in Int
  BY <1>1 DEF Row, TypeOK
<1>3. \A j \in Jobs : Of(j)' = Of(j)
  BY <1>1 DEF Of
<1>4. NumberInv'
  BY <1>1 DEF NumberInv
<1>5. /\ run'[d].row.created = job'[run'[d].job].created + Cardinality(run'[d].cart)
      /\ run'[d].row.spent = job'[run'[d].job].spent + Total(Cost, run'[d].cart)
      /\ run'[d].bal = balance' - Total(Cost, run'[d].cart)
  BY <1>1, <1>2, NoCost
<1> QED
  BY <1>1, <1>3, <1>4, <1>5 DEF CountInv

\* A name that is issued counts once and costs what its certificate costs; one
\* that is not counts for nothing here.
LEMMA AdvanceCounts ==
  ASSUME BulkCertificateJobAssumption, TypeOK, StageInv, NumberInv, CountInv,
         NEW d \in Drivers, SkipName(d) \/ RenderFails(d) \/ IssueName(d)
  PROVE  NumberInv' /\ CountInv'
<1>1. Chunking(d) /\ Advances(d)
  BY NextNameType, SkipStep, RenderFailsStep, IssueStep
     DEF SkipName, RenderFails, IssueName, MayIssue
<1>2. /\ UNCHANGED <<balance, people, certs, job>> /\ run'[d].job = run[d].job
      /\ \A e \in Drivers : Chunking(e)' => e = d
  BY <1>1 DEF Advances, Chunking, StageInv
<1>3. \A j \in Jobs : Of(j)' = Of(j)
  BY <1>2 DEF Of
<1> DEFINE cart == run[d].cart
           k == Cardinality(cart)
           t == Total(Cost, cart)
           r == job[run[d].job]
<1>4. /\ run[d].row.created = r.created + k
      /\ run[d].row.spent = r.spent + t
      /\ run[d].bal = balance - t
  BY <1>1 DEF CountInv
<1>5. /\ cart \in SUBSET Certificate /\ IsFiniteSet(cart) /\ r.created \in Nat /\ r.spent \in Nat
      /\ balance \in Int /\ Cardinality(certs) \in Nat /\ k \in Nat
  <2>1. cart \in SUBSET Certificate /\ IsFiniteSet(cart) /\ r \in Row
    BY <1>1, ChunkType
  <2>2. Cardinality(certs) \in Nat /\ k \in Nat
    BY <2>1, FS_CardinalityType DEF StageInv
  <2> QED
    BY <2>1, <2>2 DEF Row, TypeOK
<1>6. CASE SkipName(d) \/ RenderFails(d)
  <2>1. /\ run'[d].cart = cart /\ run'[d].bal = run[d].bal
        /\ run'[d].row.spent = run[d].row.spent /\ run'[d].row.created = run[d].row.created
    BY <1>6, SkipStep, RenderFailsStep
  <2>2. NumberInv'
    BY <1>1, <1>2, <2>1 DEF NumberInv
  <2> QED
    BY <1>1, <1>2, <1>3, <1>4, <2>1, <2>2 DEF CountInv
<1>7. CASE IssueName(d)
  <2>1. PICK c \in Certificate :
          /\ run'[d].cart = cart \cup {c} /\ c.no = Cardinality(certs) + k
          /\ run'[d].row.spent = run[d].row.spent + c.cost /\ run'[d].bal = run[d].bal - c.cost
    BY <1>7, IssueStep
  <2>2. run'[d].row.created = run[d].row.created + 1
    BY <1>7, IssueStep
  <2>3. c.cost \in Nat /\ c.no \in Nat /\ \A e \in cart : e.no \in Nat
    BY <1>5 DEF Certificate
  <2>4. \A e \in cart : Cardinality(certs) <= e.no /\ e.no < Cardinality(certs) + k
    BY <1>1 DEF NumberInv
  <2>5. \A e \in cart : e.no < c.no
    BY <2>1, <2>4
  <2>6. c \notin cart
    BY <2>3, <2>5
  <2>7. /\ Cardinality(cart \cup {c}) = k + 1
        /\ t \in Nat /\ Total(Cost, cart \cup {c}) = t + c.cost
    BY <1>5, <2>6, Joined
  <2> HIDE DEF k, t, r
  <2>8. NumberInv'
    <3>1. \A e \in cart \cup {c} : Cardinality(certs) <= e.no /\ e.no < Cardinality(certs) + (k + 1)
      BY <1>5, <2>1, <2>3, <2>4
    <3>2. \A e, f \in cart \cup {c} : e.no = f.no => e = f
      BY <1>1, <2>3, <2>5 DEF NumberInv
    <3>3. /\ \A e \in certs' : e.no < Cardinality(certs')
          /\ \A e, f \in certs' : e.no = f.no => e = f
      BY <1>2 DEF NumberInv
    <3>4. Cardinality(certs') = Cardinality(certs) /\ Cardinality(run'[d].cart) = k + 1
      BY <1>2, <2>1, <2>7
    <3> QED
      BY <1>2, <2>1, <3>1, <3>2, <3>3, <3>4 DEF NumberInv
  <2>9. /\ run'[d].row.created = r.created + (k + 1)
        /\ run'[d].row.spent = r.spent + (t + c.cost)
        /\ run'[d].bal = balance - (t + c.cost)
    <3>1. run'[d].row.created = r.created + (k + 1)
      BY <1>4, <1>5, <2>2
    <3>2. run'[d].row.spent = r.spent + (t + c.cost)
      BY <1>4, <1>5, <2>1, <2>3, <2>7
    <3>3. run'[d].bal = balance - (t + c.cost)
      BY <1>4, <1>5, <2>1, <2>3, <2>7
    <3> QED
      BY <3>1, <3>2, <3>3
  <2>10. /\ run'[d].row.created = job'[run'[d].job].created + Cardinality(run'[d].cart)
         /\ run'[d].row.spent = job'[run'[d].job].spent + Total(Cost, run'[d].cart)
         /\ run'[d].bal = balance' - Total(Cost, run'[d].cart)
    BY <1>2, <2>1, <2>7, <2>9 DEF r
  <2> QED
    BY <1>2, <1>3, <2>8, <2>10 DEF CountInv
<1> QED
  BY <1>6, <1>7

\* A commit files the cart under the job, with the counters and the balance.
LEMMA CommitCounts ==
  ASSUME BulkCertificateJobAssumption, TypeOK, StageInv, NumberInv, CountInv,
         NEW d \in Drivers, RunOut(d) \/ CloseChunk(d)
  PROVE  NumberInv' /\ CountInv'
<1>0. PICK j \in Jobs : j = run[d].job
  BY RowsOfCommit
<1> DEFINE cart == run[d].cart
<1>1. /\ Chunking(d) /\ run[d].row \in Row
      /\ \E status \in {"completed", "failed", "processing"} :
           job'[j] = [run[d].row EXCEPT !.status = status]
      /\ \A k \in Jobs \ {j} : job'[k] = job[k]
      /\ balance' = run[d].bal /\ certs' = certs \cup cart
      /\ \A e \in Drivers : ~Chunking(e)'
  BY <1>0, RowsOfCommit DEF Seen
<1>2. /\ job[j] # Absent /\ cart \in SUBSET Certificate /\ IsFiniteSet(cart)
      /\ certs \in SUBSET Certificate /\ IsFiniteSet(certs)
  BY <1>0, <1>1, ChunkType DEF TypeOK, StageInv
<1>3. /\ \A c \in certs : c.no < Cardinality(certs)
      /\ \A c \in cart : Cardinality(certs) <= c.no /\ c.no < Cardinality(certs) + Cardinality(cart)
      /\ \A c, e \in certs : c.no = e.no => c = e
      /\ \A c, e \in cart : c.no = e.no => c = e
      /\ \A c \in cart : c.by = j
  BY <1>0, <1>1 DEF NumberInv, StageInv
<1>4. Cardinality(certs) \in Nat /\ \A c \in certs \cup cart : c.no \in Nat
  BY <1>2, FS_CardinalityType DEF Certificate
<1>5. \A c \in certs, e \in cart : c.no # e.no
  BY <1>3, <1>4
<1>6. certs \cap cart = {}
  BY <1>5
<1>7. /\ Cardinality(cart) \in Nat /\ Cardinality(certs') = Cardinality(certs) + Cardinality(cart)
      /\ Total(Cost, certs) \in Nat /\ Total(Cost, cart) \in Nat
      /\ Total(Cost, certs') = Total(Cost, certs) + Total(Cost, cart)
  BY <1>1, <1>2, <1>6, United
<1>8. NumberInv'
  <2>1. \A c \in certs' : c.no < Cardinality(certs')
    BY <1>1, <1>3, <1>4, <1>7
  <2>2. \A c, e \in certs' : c.no = e.no => c = e
    BY <1>1, <1>3, <1>5
  <2> QED
    BY <1>1, <2>1, <2>2 DEF NumberInv
<1>9. /\ run[d].row.created = job[j].created + Cardinality(cart)
      /\ run[d].row.spent = job[j].spent + Total(Cost, cart)
      /\ run[d].bal = balance - Total(Cost, cart)
      /\ job[j].created = Cardinality(Of(j)) /\ job[j].spent = Total(Cost, Of(j))
      /\ Opening - balance = Total(Cost, certs)
  BY <1>0, <1>1, <1>2 DEF CountInv
<1>10. Opening - balance' = Total(Cost, certs')
  <2>1. balance \in Int /\ Opening \in Nat
    BY DEF TypeOK, BulkCertificateJobAssumption
  <2> QED
    BY <1>1, <1>7, <1>9, <2>1
<1>11. job'[j].created = Cardinality(Of(j)') /\ job'[j].spent = Total(Cost, Of(j)')
       /\ job'[j] # Absent
  <2>1. Of(j)' = Of(j) \cup cart
    BY <1>1, <1>3 DEF Of
  <2>2. Of(j) \in SUBSET Certificate /\ IsFiniteSet(Of(j)) /\ Of(j) \cap cart = {}
    BY <1>6, OfType
  <2>3. /\ Cardinality(Of(j) \cup cart) = Cardinality(Of(j)) + Cardinality(cart)
        /\ Total(Cost, Of(j) \cup cart) = Total(Cost, Of(j)) + Total(Cost, cart)
    BY <1>2, <2>2, United
  <2>4. job'[j].created = run[d].row.created /\ job'[j].spent = run[d].row.spent
    BY <1>1 DEF Row
  <2>5. job'[j] # Absent
    BY <1>1 DEF Row, Absent
  <2> QED
    BY <1>9, <2>1, <2>3, <2>4, <2>5
<1>12. \A k \in Jobs \ {j} : Of(k)' = Of(k)
  BY <1>1, <1>3 DEF Of
<1>13. \A k \in Jobs : /\ job'[k] = Absent => Of(k)' = {}
                       /\ job'[k] # Absent => /\ job'[k].created = Cardinality(Of(k)')
                                              /\ job'[k].spent = Total(Cost, Of(k)')
  <2>1. ASSUME NEW k \in Jobs \ {j}
        PROVE  /\ job'[k] = Absent => Of(k)' = {}
               /\ job'[k] # Absent => /\ job'[k].created = Cardinality(Of(k)')
                                      /\ job'[k].spent = Total(Cost, Of(k)')
    BY <1>1, <1>12, <2>1 DEF CountInv
  <2> QED
    BY <1>11, <2>1
<1> QED
  BY <1>1, <1>8, <1>10, <1>13 DEF CountInv

\* Every step.
LEMMA NextCounts ==
  ASSUME BulkCertificateJobAssumption, TypeOK, StageInv, NumberInv, CountInv, [Next]_vars
  PROVE  NumberInv' /\ CountInv'
<1>1. CASE Certifies \/ DeleteCertificate
  BY <1>1, RequestCertificates, ElsewhereCounts, DeleteCounts
<1> QED
  BY <1>1, KindsOfSteps, QuietCounts, OpenCounts, AdvanceCounts, CommitCounts

\* The inductive invariant of the counters.
LEMMA CountInvariant == Spec => [](TypeOK /\ StageInv /\ NumberInv /\ CountInv)
<1> USE BulkCertificateJobAssumption
<1>1. ASSUME Init
      PROVE  NumberInv /\ CountInv
  <2>1. /\ certs = {} /\ balance = Opening /\ \A d \in Drivers : ~Chunking(d)
        /\ \A j \in Jobs : job[j] = Absent
    BY <1>1 DEF Init, Chunking, Idle
  <2>2. \A j \in Jobs : Of(j) = {}
    BY <2>1 DEF Of
  <2>3. Opening - balance = Total(Cost, certs)
    BY <2>1, NoCost DEF BulkCertificateJobAssumption
  <2> QED
    BY <2>1, <2>2, <2>3 DEF NumberInv, CountInv
<1>2. TypeOK /\ StageInv /\ NumberInv /\ CountInv /\ [Next]_vars => (NumberInv /\ CountInv)'
  BY NextCounts
<1> QED
  BY <1>1, <1>2, TypeCorrect, PTL DEF Spec

\* For any number of processes, jobs, requests and restarts, and whatever hosting
\* costs: every job has counted exactly the certificates it issued and their cost.
THEOREM JobsCountRight == Spec => []JobCountsItsCertificates
<1>1. TypeOK /\ StageInv /\ CountInv => JobCountsItsCertificates
  <2> SUFFICES ASSUME TypeOK, StageInv, CountInv, NEW j \in Jobs, job[j] # Absent
               PROVE  /\ job[j].created = Cardinality(Of(j))
                      /\ job[j].spent = MapThenSumSet(LAMBDA c : c.cost, Of(j))
    BY DEF JobCountsItsCertificates
  <2>1. Of(j) \in SUBSET Certificate /\ IsFiniteSet(Of(j))
    BY OfType
  <2>2. MapThenSumSet(LAMBDA c : c.cost, Of(j)) = Total(Cost, Of(j))
    BY <2>1, SumOfCosts
  <2> QED
    BY <2>2 DEF CountInv
<1> QED
  BY <1>1, CountInvariant, PTL

\* What the balance has lost is what all certificates cost, of jobs and of requests.
THEOREM BalanceIsRight == Spec => []BalanceMatchesCertificates
<1>1. TypeOK /\ StageInv /\ CountInv => BalanceMatchesCertificates
  <2> SUFFICES ASSUME TypeOK, StageInv, CountInv
               PROVE  BalanceMatchesCertificates
    OBVIOUS
  <2>1. certs \in SUBSET Certificate /\ IsFiniteSet(certs)
    BY DEF TypeOK, StageInv
  <2>2. MapThenSumSet(LAMBDA c : c.cost, certs) = Total(Cost, certs)
    BY <2>1, SumOfCosts
  <2> QED
    BY <2>2 DEF CountInv, BalanceMatchesCertificates
<1> QED
  BY <1>1, CountInvariant, PTL
-----------------------------------------------------------------------------
(* One live certificate each.                                               *)

\* What OneCertificateEach says of the committed certificates, of any set of them.
OnceIn(cs) ==
  \A c, e \in cs :
    c.checked /\ ~c.deleted /\ ~e.deleted /\ e.no < c.no =>
      /\ c.attendee # Nobody => c.attendee # e.attendee
      /\ c.name = e.name => e.attendee # Nobody /\ Ambiguous(c.name, e.attendee)

\* Where the link of a chunk passes over the attendee of a certificate, the name does
\* not tell whose it is.
LinkedIn(cs, link) ==
  \A c \in cs : c.attendee \in Attendees /\ link[c.name] # c.attendee =>
    Ambiguous(c.name, c.attendee)

OnceInv ==
  /\ OnceIn(certs)
  /\ \A d \in Drivers : Chunking(d) => OnceIn(Seen(d)) /\ LinkedIn(Seen(d), run[d].link)

\* More names make a name no less ambiguous.
LEMMA AmbiguousKept ==
  ASSUME \A a \in Attendees : had[a] \subseteq had'[a],
         NEW a \in Attendees, NEW n \in had[a], Ambiguous(n, a)
  PROVE  Ambiguous(n, a)'
BY DEF Ambiguous

\* Sets that keep their certificates while attendees get names.
LEMMA OnceKept ==
  ASSUME \A a \in Attendees : had[a] \subseteq had'[a],
         NEW cs, cs \subseteq Certificate, Named(cs, had), OnceIn(cs), NEW link
  PROVE  /\ OnceIn(cs)'
         /\ LinkedIn(cs, link) => LinkedIn(cs, link)'
<1>1. \A c \in cs : c.attendee # Nobody => c.attendee \in Attendees /\ c.name \in had[c.attendee]
  BY DEF Named, Certificate
<1>2. OnceIn(cs)'
  <2> SUFFICES ASSUME NEW c \in cs, NEW e \in cs,
                      c.checked, ~c.deleted, ~e.deleted, e.no < c.no
               PROVE  /\ c.attendee # Nobody => c.attendee # e.attendee
                      /\ c.name = e.name => e.attendee # Nobody /\ Ambiguous(c.name, e.attendee)'
    BY DEF OnceIn
  <2>1. /\ c.attendee # Nobody => c.attendee # e.attendee
        /\ c.name = e.name => e.attendee # Nobody /\ Ambiguous(c.name, e.attendee)
    BY DEF OnceIn
  <2> QED
    BY <1>1, <2>1, AmbiguousKept
<1>3. LinkedIn(cs, link) => LinkedIn(cs, link)'
  BY AmbiguousKept DEF LinkedIn, Named
<1> QED
  BY <1>2, <1>3

\* A certificate that joins them as the last, after a look that found none.
LEMMA OnceAdded ==
  ASSUME BulkCertificateJobAssumption,
         NEW cs, cs \subseteq Certificate, OnceIn(cs), NEW c \in Certificate,
         \A e \in cs : e.no < c.no,
         c.checked =>
           /\ ~HasCertificate(c.name, c.attendee, cs)
           /\ \A e \in cs : e.name = c.name /\ e.attendee \in Attendees \ {c.attendee} =>
                Ambiguous(c.name, e.attendee)
  PROVE  OnceIn(cs \cup {c})
<1> SUFFICES ASSUME NEW f \in cs \cup {c}, NEW e \in cs \cup {c},
                    f.checked, ~f.deleted, ~e.deleted, e.no < f.no
             PROVE  /\ f.attendee # Nobody => f.attendee # e.attendee
                    /\ f.name = e.name => e.attendee # Nobody /\ Ambiguous(f.name, e.attendee)
  BY DEF OnceIn
<1>1. \A x \in cs : x.no \in Nat
  BY DEF Certificate
<1>2. c.no \in Nat
  BY DEF Certificate
<1>3. CASE f \in cs
  <2>1. e \in cs
    BY <1>1, <1>2, <1>3
  <2> QED
    BY <1>3, <2>1 DEF OnceIn
<1>4. CASE f = c
  <2>1. e \in cs /\ e.attendee \in Attendees \cup {Nobody}
    BY <1>2, <1>4 DEF Certificate
  <2>2. IF e.attendee = Nobody THEN e.name # c.name ELSE e.attendee # c.attendee
    BY <1>4, <2>1 DEF HasCertificate
  <2> QED
    BY <1>4, <2>1, <2>2
<1> QED
  BY <1>3, <1>4

LEMMA NextOnce ==
  ASSUME BulkCertificateJobAssumption, TypeOK, StageInv, PeopleInv, NumberInv, OnceInv,
         [Next]_vars
  PROVE  OnceInv'
<1>n. \A a \in Attendees : had[a] \subseteq had'[a]
  BY NamesKept
<1>c. certs \subseteq Certificate /\ Named(certs, had) /\ OnceIn(certs)
  BY DEF TypeOK, PeopleInv, OnceInv
<1>d. ASSUME NEW d \in Drivers, Chunking(d)
      PROVE  /\ Seen(d) \subseteq Certificate /\ Named(Seen(d), had)
             /\ OnceIn(Seen(d)) /\ LinkedIn(Seen(d), run[d].link)
  BY <1>c, <1>d, ChunkType DEF Seen, PeopleInv, Named, OnceInv
<1>u. UNCHANGED people => \A n, a : Ambiguous(n, a)' = Ambiguous(n, a)
  BY DEF Ambiguous
<1>1. CASE Quiet
  <2>1. OnceIn(certs)'
    BY <1>1, <1>n, <1>c, OnceKept DEF Quiet, OnceIn
  <2>2. ASSUME NEW d \in Drivers, Chunking(d)'
        PROVE  (OnceIn(Seen(d)) /\ LinkedIn(Seen(d), run[d].link))'
    <3>1. Chunking(d) /\ run'[d] = run[d] /\ UNCHANGED certs
      BY <1>1, <2>2 DEF Quiet
    <3>2. PICK cs : cs = Seen(d)
      OBVIOUS
    <3>3. PICK link : link = run[d].link
      OBVIOUS
    <3>4. OnceIn(cs)' /\ LinkedIn(cs, link)'
      BY <1>n, <1>d, <3>1, <3>2, <3>3, OnceKept
    <3>5. Seen(d)' = cs /\ run'[d].link = link
      BY <3>1, <3>2, <3>3 DEF Seen
    <3> QED
      BY <3>4, <3>5 DEF OnceIn, LinkedIn
  <2> QED
    BY <2>1, <2>2 DEF OnceInv
<1>2. CASE Certifies
  <2>1. PICK c \in Certificate :
          /\ certs' = certs \cup {c} /\ c.no = Cardinality(certs)
          /\ c.checked => /\ c.attendee \in Attendees /\ c.name \in had[c.attendee]
                          /\ ~HasCertificate(c.name, c.attendee, certs)
    BY <1>2, CertifiesStep
  <2>2. \A e \in certs : e.no < c.no
    BY <2>1 DEF NumberInv
  <2>3. c.checked => \A e \in certs : e.attendee \in Attendees \ {c.attendee} =>
                       Ambiguous(c.name, e.attendee)
    BY <2>1 DEF Ambiguous
  <2>4. OnceIn(certs \cup {c})
    BY <1>c, <2>1, <2>2, <2>3, OnceAdded
  <2>5. UNCHANGED people /\ \A d \in Drivers : ~Chunking(d)'
    BY <1>2, CertifiesStep DEF Chunking
  <2>6. OnceIn(certs)'
    BY <1>u, <2>1, <2>4, <2>5 DEF OnceIn
  <2> QED
    BY <2>5, <2>6 DEF OnceInv
<1>3. CASE DeleteCertificate
  <2>1. PICK c \in certs : certs' = (certs \ {c}) \cup {[c EXCEPT !.deleted = TRUE]}
    BY <1>3 DEF DeleteCertificate
  <2> DEFINE x == [c EXCEPT !.deleted = TRUE]
  <2>2. x.deleted /\ x.name = c.name /\ x.attendee = c.attendee
    BY <1>c DEF Certificate
  <2>3. UNCHANGED <<people, run>>
    BY <1>3 DEF DeleteCertificate
  <2>4. certs' = (certs \ {c}) \cup {x}
    BY <2>1
  <2> HIDE DEF x
  <2>5. OnceIn(certs)'
    BY <1>c, <1>u, <2>2, <2>3, <2>4 DEF OnceIn
  <2>6. ASSUME NEW d \in Drivers, Chunking(d)'
        PROVE  (OnceIn(Seen(d)) /\ LinkedIn(Seen(d), run[d].link))'
    <3>1. Chunking(d)
      BY <2>3, <2>6 DEF Chunking
    <3>2. OnceIn(Seen(d)) /\ LinkedIn(Seen(d), run[d].link)
      BY <1>d, <3>1
    <3>3. \A e \in Seen(d)' : e \in Seen(d) \/ e = x
      BY <2>3, <2>4 DEF Seen
    <3>4. OnceIn(Seen(d))'
      BY <1>u, <2>2, <2>3, <3>2, <3>3 DEF OnceIn
    <3>5. c \in Seen(d)
      BY DEF Seen
    <3>6. LinkedIn(Seen(d), run[d].link)'
      BY <1>u, <2>2, <2>3, <3>2, <3>3, <3>5 DEF LinkedIn
    <3> QED
      BY <3>4, <3>6
  <2> QED
    BY <2>5, <2>6 DEF OnceInv
<1>4. ASSUME NEW d \in Drivers, OpenChunk(d)
      PROVE  OnceInv'
  <2>1. /\ run'[d].link = [n \in Names |-> Match(n)] /\ run'[d].cart = {}
        /\ UNCHANGED <<people, certs>> /\ \A e \in Drivers : Chunking(e)' => e = d
    BY <1>4, OpenStep DEF UserFree, Chunking
  <2>2. Seen(d)' = certs
    BY <2>1 DEF Seen
  <2>3. OnceIn(certs)' /\ OnceIn(Seen(d))'
    BY <1>c, <1>u, <2>1, <2>2 DEF OnceIn
  <2>4. ASSUME NEW c \in certs, c.attendee \in Attendees, Match(c.name) # c.attendee
        PROVE  Ambiguous(c.name, c.attendee)
    <3> DEFINE x == c.attendee
               n == c.name
    <3>1. n \in had[x] /\ n \in Names
      BY <1>c, <2>4 DEF Named, Certificate
    <3>2. CASE name[x] # n
      BY <2>4, <3>1, <3>2 DEF PeopleInv, Ambiguous
    <3>3. CASE name[x] = n
      <4>1. PICK b \in Attendees \ {x} : name[b] = n
        BY <2>4, <3>3, MatchType
      <4> QED
        BY <3>1, <4>1 DEF PeopleInv, Ambiguous
    <3> QED
      BY <3>2, <3>3
  <2>5. LinkedIn(Seen(d), run[d].link)'
    <3>1. \A c \in certs : c.name \in Names
      BY <1>c DEF Certificate
    <3> QED
      BY <1>u, <2>1, <2>2, <2>4, <3>1 DEF LinkedIn
  <2> QED
    BY <2>1, <2>3, <2>5 DEF OnceInv
<1>5. ASSUME NEW d \in Drivers, SkipName(d) \/ RenderFails(d) \/ IssueName(d)
      PROVE  OnceInv'
  <2>1. Chunking(d) /\ Advances(d)
    BY <1>5, NextNameType, SkipStep, RenderFailsStep, IssueStep
       DEF SkipName, RenderFails, IssueName, MayIssue
  <2>2. /\ UNCHANGED <<people, certs>> /\ run'[d].link = run[d].link
        /\ \A e \in Drivers : Chunking(e)' => e = d
    BY <2>1 DEF Advances, Chunking, StageInv
  <2>3. OnceIn(certs)'
    BY <1>c, <1>u, <2>2 DEF OnceIn
  <2>4. OnceIn(Seen(d)) /\ LinkedIn(Seen(d), run[d].link) /\ Seen(d) \subseteq Certificate
    BY <1>d, <2>1
  <2>5. CASE SkipName(d) \/ RenderFails(d)
    <3>1. Seen(d)' = Seen(d)
      BY <2>2, <2>5, SkipStep, RenderFailsStep DEF Seen
    <3> QED
      BY <1>u, <2>2, <2>3, <2>4, <3>1 DEF OnceInv, OnceIn, LinkedIn
  <2>6. CASE IssueName(d)
    <3>1. PICK c \in Certificate :
            /\ run'[d].cart = run[d].cart \cup {c}
            /\ c.name = NextName(d) /\ c.attendee = run[d].link[c.name]
            /\ c.no = Cardinality(certs) + Cardinality(run[d].cart)
      BY <2>6, IssueStep
    <3>2. ~HasCertificate(c.name, c.attendee, Seen(d))
      BY <2>6, <3>1 DEF IssueName, MayIssue, NextHasOne, Seen
    <3>3. \A e \in Seen(d) : e.no < c.no
      <4>1. IsFiniteSet(run[d].cart)
        BY <2>1, ChunkType
      <4>2. Cardinality(certs) \in Nat /\ Cardinality(run[d].cart) \in Nat
        BY <4>1, FS_CardinalityType DEF StageInv
      <4>3. \A e \in Seen(d) : e.no \in Nat
        BY <2>4 DEF Certificate
      <4>4. /\ \A e \in certs : e.no < Cardinality(certs)
            /\ \A e \in run[d].cart : e.no < Cardinality(certs) + Cardinality(run[d].cart)
        BY <2>1 DEF NumberInv
      <4> QED
        BY <3>1, <4>2, <4>3, <4>4 DEF Seen
    <3>4. \A e \in Seen(d) : e.name = c.name /\ e.attendee \in Attendees \ {c.attendee} =>
            Ambiguous(c.name, e.attendee)
      BY <2>4, <3>1 DEF LinkedIn
    <3>5. OnceIn(Seen(d) \cup {c})
      BY <2>4, <3>2, <3>3, <3>4, OnceAdded
    <3>6. LinkedIn(Seen(d) \cup {c}, run[d].link)
      BY <2>4, <3>1 DEF LinkedIn
    <3>7. Seen(d)' = Seen(d) \cup {c}
      BY <2>2, <3>1 DEF Seen
    <3>8. OnceIn(Seen(d))' /\ LinkedIn(Seen(d), run[d].link)'
      BY <1>u, <2>2, <3>5, <3>6, <3>7 DEF OnceIn, LinkedIn
    <3> QED
      BY <2>2, <2>3, <3>8 DEF OnceInv
  <2> QED
    BY <1>5, <2>5, <2>6
<1>6. ASSUME NEW d \in Drivers, RunOut(d) \/ CloseChunk(d)
      PROVE  OnceInv'
  <2>1. Chunking(d) /\ certs' = Seen(d) /\ UNCHANGED people /\ \A e \in Drivers : ~Chunking(e)'
    BY <1>6, RowsOfCommit
  <2>2. OnceIn(Seen(d))
    BY <1>d, <2>1
  <2> QED
    BY <1>u, <2>1, <2>2 DEF OnceInv, OnceIn
<1> QED
  BY <1>1, <1>2, <1>3, <1>4, <1>5, <1>6, KindsOfSteps

\* For any number of processes, jobs, attendees and names, whoever else issues
\* certificates and whoever is renamed: jobs and bulk certification give nobody a
\* second live certificate.
THEOREM AttendeesCertifiedOnce == Spec => []OneCertificateEach
<1> USE BulkCertificateJobAssumption
<1>1. Init => OnceInv
  BY DEF Init, OnceInv, OnceIn, Chunking, Idle
<1>2. TypeOK /\ StageInv /\ PeopleInv /\ NumberInv /\ OnceInv /\ [Next]_vars => OnceInv'
  BY NextOnce
<1>3. OnceInv => OneCertificateEach
  BY DEF OnceInv, OnceIn, OneCertificateEach
<1> QED
  BY <1>1, <1>2, <1>3, PeopleInvariant, CountInvariant, PTL DEF Spec
=============================================================================
