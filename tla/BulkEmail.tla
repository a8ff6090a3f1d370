------------------------------ MODULE BulkEmail ------------------------------
(***************************************************************************)
(* Campaigns mailed to the attendees of one event (backend/src/main.py,      *)
(* _process_bulk_emails; backend/src/email_api.py: creation, cancellation,    *)
(* the pixel that records an opening, unsubscription).                       *)
(*                                                                          *)
(* Every five minutes one process goes over the unfinished jobs and mails a  *)
(* batch of each.  It locks their rows when it selects them and loses the    *)
(* locks with its first commit; from then on it works with the rows as they  *)
(* were.  Whom a job has mailed is in its delivery logs; what the job's row   *)
(* says is written from memory, and only where memory has changed.           *)
(*                                                                          *)
(* Left out: what a mail says, recipients_count and the like on the job's    *)
(* row, quotas, campaigns of the superadmin.  The queries that read the       *)
(* recipients and the logs are one step.                                    *)
(***************************************************************************)
EXTENDS Integers, Sequences, FiniteSets

CONSTANTS
  MaxJobs,     \* bound: rows of bulk_email_jobs
  Kinds,       \* how jobs are scheduled on this instance: "now", "at", "cron"
  Attendees,   \* whoever may be registered
  Registered,  \* those who are at the start
  BatchSize,   \* settings.email_batch_size
  PassSize,    \* how many jobs a pass selects: 10 in the code
  MaxLogs,     \* bound: rows of email_delivery_logs
  MaxUpsets    \* bound: exceptions, restarts, mails opened, attendees who register or
               \* unsubscribe, and times of scheduled jobs that come, together

ASSUME BulkEmailAssumption ==
  /\ Kinds \subseteq {"now", "at", "cron"}
  /\ IsFiniteSet(Attendees) /\ Registered \subseteq Attendees
  /\ {BatchSize, PassSize} \subseteq Nat \ {0}
  /\ {MaxJobs, MaxLogs, MaxUpsets} \subseteq Nat

Jobs == 1 .. MaxJobs

VARIABLES
  status,     \* status[j]: bulk_email_jobs.status
  kind,       \* kind[j]: scheduled_at and cron_expression
  due,        \* due[j]: the time of the scheduled job has come
  recipients, \* attendees with an address who have not unsubscribed
  logs,       \* the committed rows of email_delivery_logs
  pass,       \* the pass under way
  cancels,    \* cancel requests that have read their job and not written it
  mails,      \* history: mails[j][a]: mails of job j handed over for a
  lost,       \* history: lost[j][a]: those a restart kept from being logged
  blurred,    \* history: jobs with other recipients than at first, or a log of another's failure
  upsets      \* how many of these have happened

vars == <<status, kind, due, recipients, logs, pass, cancels, mails, lost, blurred, upsets>>
others == <<cancels, lost>>

Active == {"pending", "sending", "scheduled"}
Status == Active \cup {"absent", "completed", "failed", "cancelled"}

Log == [job : Jobs, to : Attendees, status : {"sent", "failed", "opened"},
        mailed : BOOLEAN, opened : BOOLEAN]

\* The variable delivery_log: a row, and the status it has in memory.
NoLog == [row |-> 0, status |-> "none"]

\* todo: the jobs as they were selected.  locked: those whose rows are, until the commit.
\* mailed: who has been mailed and not logged yet.
Pass == [pc : {"none", "next", "begun", "batch", "logged"},
         todo : Seq([job : Jobs, status : Active]), locked : SUBSET Jobs,
         batch : SUBSET Attendees, mailed : SUBSET Attendees,
         target : Nat, sent : Nat, failed : Nat,
         last : [row : Nat, status : {"none", "sent", "failed"}]]

NoPass == [pc |-> "none", todo |-> <<>>, locked |-> {}, batch |-> {}, mailed |-> {},
           target |-> 0, sent |-> 0, failed |-> 0, last |-> NoLog]

TypeOK ==
  /\ status \in [Jobs -> Status] /\ due \in [Jobs -> BOOLEAN]
  /\ kind \in [Jobs -> {"now", "at", "cron"}]
  /\ recipients \subseteq Attendees /\ logs \in Seq(Log)
  /\ pass \in Pass
  /\ pass.pc = "none" => pass = NoPass
  /\ pass.locked # {} => pass.pc = "next"
  /\ Cardinality(pass.batch) <= BatchSize
  /\ pass.mailed # {} => pass.pc = "batch"
  /\ pass.last.row <= Len(logs)
  /\ cancels \subseteq Jobs /\ blurred \subseteq Jobs
  /\ upsets \in 0 .. MaxUpsets
  /\ mails \in [Jobs -> [Attendees -> Nat]] /\ lost \in [Jobs -> [Attendees -> Nat]]

Init ==
  /\ status = [j \in Jobs |-> "absent"] /\ kind = [j \in Jobs |-> "now"]
  /\ due = [j \in Jobs |-> FALSE]
  /\ recipients = Registered /\ logs = <<>> /\ pass = NoPass /\ cancels = {}
  /\ mails = [j \in Jobs |-> [a \in Attendees |-> 0]]
  /\ lost = mails /\ blurred = {}
  /\ upsets = 0

RowsOf(j) == {i \in DOMAIN logs : logs[i].job = j}
Count(j, s) == Cardinality({i \in RowsOf(j) : logs[i].status = s})

\* Mutant: only what was sent counts as processed.
ProcessedSent(j) == {logs[i].to : i \in {k \in RowsOf(j) : logs[k].status = "sent"}}

Processed(j) == {logs[i].to : i \in {k \in RowsOf(j) : logs[k].status \in {"sent", "failed"}}}

-----------------------------------------------------------------------------
(* Requests.                                                                *)

Create(j, k) ==
  /\ status[j] = "absent" /\ \A i \in 1 .. j - 1 : status[i] # "absent"
  /\ recipients # {}
  /\ status' = [status EXCEPT ![j] = IF k = "now" THEN "pending" ELSE "scheduled"]
  /\ kind' = [kind EXCEPT ![j] = k]
  /\ UNCHANGED <<due, recipients, logs, pass, mails, blurred, upsets, others>>

Upset == upsets < MaxUpsets /\ upsets' = upsets + 1

\* The time of a scheduled job comes.
Tick(j) ==
  /\ status[j] \in Active /\ kind[j] # "now" /\ ~due[j]
  /\ Upset
  /\ due' = [due EXCEPT ![j] = TRUE]
  /\ UNCHANGED <<status, kind, recipients, logs, pass, cancels, mails, lost, blurred>>

\* cancel_email_job reads the job ...
CancelCheck(j) ==
  /\ status[j] \in {"pending", "scheduled"} /\ j \notin cancels
  /\ cancels' = cancels \cup {j}
  /\ UNCHANGED <<status, kind, due, recipients, logs, pass, mails, lost, blurred, upsets>>

\* ... and writes it when its row is free.
CancelWrite(j) ==
  /\ j \in cancels /\ j \notin pass.locked
  /\ status' = [status EXCEPT ![j] = "cancelled"]
  /\ cancels' = cancels \ {j}
  /\ UNCHANGED <<kind, due, recipients, logs, pass, mails, lost, blurred, upsets>>

\* track_email_open: the first opening replaces the status of the log.
Open(i) ==
  /\ logs[i].mailed /\ ~logs[i].opened
  /\ Upset
  /\ logs' = [logs EXCEPT ![i].status = "opened", ![i].opened = TRUE]
  /\ UNCHANGED <<status, kind, due, recipients, pass, cancels, mails, lost, blurred>>

\* An attendee registers or unsubscribes.
Change(a) ==
  /\ Upset
  /\ recipients' = IF a \in recipients THEN recipients \ {a} ELSE recipients \cup {a}
  /\ blurred' = blurred \cup {j \in Jobs : status[j] # "absent"}
  /\ UNCHANGED <<status, kind, due, logs, pass, cancels, mails, lost>>

-----------------------------------------------------------------------------
(* _process_bulk_emails.                                                    *)

\* The members of S in order.
InOrder(S) ==
  {q \in [1 .. Cardinality(S) -> S] : \A i, k \in 1 .. Cardinality(S) : i < k => q[i] < q[k]}

\* Mutant: what was cancelled before it began is selected as well.
SelectCancelled ==
  LET found == {j \in Jobs : status[j] \in Active \cup {"cancelled"}} IN
  /\ pass.pc = "none" /\ found # {}
  /\ \E q \in InOrder(found) :
       pass' = [NoPass EXCEPT !.pc = "next", !.locked = found,
                              !.todo = [i \in DOMAIN q |-> [job |-> q[i], status |-> "sending"]]]
  /\ UNCHANGED <<status, kind, due, recipients, logs, mails, blurred, upsets, others>>

\* PassSize older jobs are unfinished, some of them perhaps until their time comes.
Crowded(j) == Cardinality({i \in 1 .. j - 1 : status[i] \in Active}) >= PassSize

\* The oldest unfinished jobs, FOR UPDATE SKIP LOCKED.
Select ==
  LET found == {j \in Jobs : status[j] \in Active /\ ~Crowded(j)} IN
  /\ pass.pc = "none" /\ found # {}
  /\ \E q \in InOrder(found) :
       pass' = [NoPass EXCEPT !.pc = "next", !.locked = found,
                              !.todo = [i \in DOMAIN q |-> [job |-> q[i], status |-> status[q[i]]]]]
  /\ UNCHANGED <<status, kind, due, recipients, logs, mails, blurred, upsets, others>>

Job == Head(pass.todo).job
Left(p) == [NoPass EXCEPT !.pc = "next", !.todo = Tail(p.todo), !.last = p.last]

AtJob == pass.pc = "next" /\ pass.todo # <<>>
Waits == Head(pass.todo).status = "scheduled" /\ ~due[Job]

NotDue ==
  /\ AtJob /\ Waits
  /\ pass' = [pass EXCEPT !.todo = Tail(@)]
  /\ UNCHANGED <<status, kind, due, recipients, logs, mails, blurred, upsets, others>>

\* The status becomes "sending", whatever it is by now, unless it was selected so.
Begin ==
  /\ AtJob /\ ~Waits
  /\ status' = IF Head(pass.todo).status = "sending" THEN status
               ELSE [status EXCEPT ![Job] = "sending"]
  /\ pass' = [pass EXCEPT !.pc = "begun", !.locked = {}]
  /\ UNCHANGED <<kind, due, recipients, logs, mails, blurred, upsets, others>>

EndPass ==
  /\ pass.pc = "next" /\ pass.todo = <<>>
  /\ pass' = NoPass
  /\ UNCHANGED <<status, kind, due, recipients, logs, mails, blurred, upsets, others>>

\* The job's last step: a job with a cron expression waits for its next time.
Done(s) ==
  /\ status' = [status EXCEPT ![Job] = s]
  /\ due' = [due EXCEPT ![Job] = @ /\ ~(s = "scheduled")]
  /\ pass' = Left(pass)

Complete == Done(IF kind[Job] = "cron" THEN "scheduled" ELSE "completed")

\* The cron expression cannot be read, the template is gone, or the handler of the
\* whole job catches an exception.
JobFails ==
  /\ Upset
  /\ pass.pc = "begun" \/ (AtJob /\ Head(pass.todo).status = "scheduled" /\ kind[Job] = "cron")
  /\ Done("failed")
  /\ UNCHANGED <<kind, recipients, logs, mails, blurred, others>>

\* Mutant: a job that has nobody left to mail is left as it is.
NobodyLeftIgnored ==
  /\ pass.pc = "begun" /\ recipients \subseteq Processed(Job)
  /\ pass' = Left(pass)
  /\ UNCHANGED <<status, kind, due, recipients, logs, mails, blurred, upsets, others>>

NobodyLeft ==
  /\ pass.pc = "begun" /\ recipients \subseteq Processed(Job)
  /\ IF recipients = {} THEN Done("completed") ELSE Complete
  /\ UNCHANGED <<kind, recipients, logs, mails, blurred, upsets, others>>

\* Mutant: everybody who is left is taken at once.
TakeEverybody ==
  LET left == recipients \ Processed(Job) IN
  /\ pass.pc = "begun" /\ left # {}
  /\ pass' = [pass EXCEPT !.pc = "batch", !.batch = left, !.target = Cardinality(recipients),
                          !.sent = Count(Job, "sent"), !.failed = Count(Job, "failed")]
  /\ UNCHANGED <<status, kind, due, recipients, logs, mails, blurred, upsets, others>>

\* The recipients in no particular order, and the logs so far.
TakeBatch ==
  LET left == recipients \ Processed(Job) IN
  /\ pass.pc = "begun" /\ left # {}
  /\ \E batch \in SUBSET left :
       /\ Cardinality(batch) = IF Cardinality(left) < BatchSize THEN Cardinality(left) ELSE BatchSize
       /\ pass' = [pass EXCEPT !.pc = "batch", !.batch = batch, !.target = Cardinality(recipients),
                               !.sent = Count(Job, "sent"), !.failed = Count(Job, "failed")]
  /\ UNCHANGED <<status, kind, due, recipients, logs, mails, blurred, upsets, others>>

\* The log of a, added and committed.
Logged(a, s, mailed) ==
  logs' = Append(logs, [job |-> Job, to |-> a, status |-> s, mailed |-> mailed, opened |-> FALSE])

\* The except clause ends with a notification, which may raise as well: the job fails.
Caught(p, raised) ==
  IF raised
  THEN /\ status' = [status EXCEPT ![Job] = "failed"]
       /\ pass' = Left(p)
  ELSE /\ pass' = [p EXCEPT !.pc = "batch", !.failed = @ + 1]
       /\ UNCHANGED status

\* The row of delivery_log is marked as failed; where memory says so already,
\* nothing is written.
MarkLast(last) ==
  logs' = IF last.status = "failed" THEN logs ELSE [logs EXCEPT ![last.row].status = "failed"]

\* Rendering raises before there is a log: the variable still holds the one of the
\* attendee before, or of the job before.
RenderFails(a, raised) ==
  LET last == pass.last IN
  /\ Upset
  /\ pass.pc = "batch" /\ pass.mailed = {} /\ a \in pass.batch /\ Len(logs) < MaxLogs
  /\ IF last = NoLog
     THEN /\ Logged(a, "failed", FALSE)
          /\ Caught([pass EXCEPT !.batch = @ \ {a}, !.last = [row |-> Len(logs) + 1, status |-> "failed"]], raised)
          /\ UNCHANGED blurred
     ELSE /\ MarkLast(last)
          /\ Caught([pass EXCEPT !.batch = @ \ {a}, !.last.status = "failed"], raised)
          /\ blurred' = blurred \cup {Job}
  /\ UNCHANGED <<kind, due, recipients, mails, others>>

\* The mail is refused.
MailRefused(a, raised) ==
  /\ Upset
  /\ pass.pc = "batch" /\ pass.mailed = {} /\ a \in pass.batch /\ Len(logs) < MaxLogs
  /\ Logged(a, "failed", FALSE)
  /\ Caught([pass EXCEPT !.batch = @ \ {a}, !.last = [row |-> Len(logs) + 1, status |-> "failed"]], raised)
  /\ UNCHANGED <<kind, due, recipients, mails, blurred, others>>

\* The mail is accepted; its log is not committed yet.
Mail(a) ==
  /\ pass.pc = "batch" /\ pass.mailed = {} /\ a \in pass.batch /\ Len(logs) < MaxLogs
  /\ mails' = [mails EXCEPT ![Job][a] = @ + 1]
  /\ pass' = [pass EXCEPT !.batch = @ \ {a}, !.mailed = {a}]
  /\ UNCHANGED <<status, kind, due, recipients, logs, blurred, upsets, others>>

Record ==
  \E a \in pass.mailed :
    /\ Logged(a, "sent", TRUE)
    /\ pass' = [pass EXCEPT !.pc = "logged", !.mailed = {}, !.last = [row |-> Len(logs) + 1, status |-> "sent"]]
    /\ UNCHANGED <<status, kind, due, recipients, mails, blurred, upsets, others>>

Notified ==
  /\ pass.pc = "logged"
  /\ pass' = [pass EXCEPT !.pc = "batch", !.sent = @ + 1]
  /\ UNCHANGED <<status, kind, due, recipients, logs, mails, blurred, upsets, others>>

\* The notification is inside the same try block: a mail that was sent fails.
NotifyRaises(raised) ==
  /\ Upset
  /\ pass.pc = "logged"
  /\ MarkLast(pass.last)
  /\ Caught([pass EXCEPT !.last.status = "failed"], raised)
  /\ UNCHANGED <<kind, due, recipients, mails, blurred, others>>

\* Mutant: the batch is taken for the whole.
FinishAlways ==
  /\ pass.pc = "batch" /\ pass.mailed = {} /\ pass.batch = {}
  /\ Complete
  /\ UNCHANGED <<kind, recipients, logs, mails, blurred, upsets, others>>

\* The batch is through: complete if the counts reach the number of recipients.
Finish ==
  /\ pass.pc = "batch" /\ pass.mailed = {} /\ pass.batch = {}
  /\ IF pass.sent + pass.failed >= pass.target THEN Complete
     ELSE pass' = Left(pass) /\ UNCHANGED <<status, due>>
  /\ UNCHANGED <<kind, recipients, logs, mails, blurred, upsets, others>>

\* The process is restarted, or an exception leaves the pass.
Crash ==
  /\ pass.pc # "none" /\ Upset
  /\ pass' = NoPass
  /\ lost' = IF pass.mailed = {} THEN lost
             ELSE [lost EXCEPT ![Job] = [a \in Attendees |-> IF a \in pass.mailed THEN @[a] + 1 ELSE @[a]]]
  /\ UNCHANGED <<status, kind, due, recipients, logs, cancels, mails, blurred>>

-----------------------------------------------------------------------------

Process ==
  \/ Select \/ NotDue \/ Begin \/ EndPass \/ JobFails \/ NobodyLeft \/ TakeBatch
  \/ \E a \in pass.batch : Mail(a) \/ \E raised \in BOOLEAN : RenderFails(a, raised) \/ MailRefused(a, raised)
  \/ Record \/ Notified \/ (\E raised \in BOOLEAN : NotifyRaises(raised)) \/ Finish

Requests ==
  \/ \E j \in Jobs : (\E k \in Kinds : Create(j, k)) \/ Tick(j) \/ CancelCheck(j) \/ CancelWrite(j)
  \/ \E i \in DOMAIN logs : Open(i)
  \/ \E a \in Attendees : Change(a)

Next == Process \/ Requests \/ Crash

Spec == Init /\ [][Next]_vars

\* APScheduler calls the function every five minutes.
FairSpec == Spec /\ WF_vars(Process)

-----------------------------------------------------------------------------
(* Properties.                                                              *)

OpenedRows(j, a) == {i \in RowsOf(j) : logs[i].to = a /\ logs[i].opened}

\* "Otherwise the next scheduler cycle will continue with the next chunk"
\* (main.py:3017), with two exceptions: each further mail of a job to one attendee
\* comes from a restart that kept one from being logged, or from an opening, which
\* takes the log out of those that count as processed.
RepeatedOnlyIfLostOrOpened ==
  \A j \in Jobs, a \in Attendees : mails[j][a] <= 1 + lost[j][a] + Cardinality(OpenedRows(j, a))

\* "Mark completed only when all targets have a delivery log" (main.py:3017): the
\* counts say so as long as the recipients stay the same and no failure is put down
\* to somebody else; restarts, openings and notifications that fail do no harm.
CompletedIsLogged ==
  [][\A j \in Jobs \ blurred : status[j] # "completed" /\ status'[j] = "completed" =>
       recipients \subseteq {logs[i].to : i \in RowsOf(j)}]_vars

\* Cancelled, and in no pass's hands.
Over(j) == status[j] = "cancelled" /\ \A i \in DOMAIN pass.todo : pass.todo[i].job # j

\* "Cancel a scheduled or pending email job." (email_api.py:862): once a pass that had the job
\* in hand has let go of it, a job that is still cancelled stays so and mails nobody,
\* whatever a pass, an earlier cancel request or a restart does.
CancelledIsOver ==
  [][\A j \in Jobs : Over(j) => Over(j)' /\ mails'[j] = mails[j]]_vars

\* Every job that is to be sent now comes to an end, goes back to waiting for its next
\* time, or is behind so many older ones that no pass selects it, unless restarts,
\* openings or changes go on for ever.
CampaignsEnd ==
  \A j \in Jobs : status[j] \in {"pending", "sending"}
                    ~> status[j] \notin {"pending", "sending"} \/ Crowded(j)
=============================================================================
