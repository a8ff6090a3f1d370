# HeptaCert in TLA+

Specifications of HeptaCert: of its backend (`src/heptacert/backend/src`, a
FastAPI application over SQLAlchemy sessions and PostgreSQL) and of the pages of
its front end (`src/heptacert/frontend/src`, React) that keep state of their
own; the TLC runs that check them on small instances, and proofs for every
instance.

Paths below are relative to `src/heptacert/backend/src`; those that begin with
`app/`, `lib/` or `locales/` to `src/heptacert/frontend/src`, those that begin
with `docs/` to `src`, and `docker-compose.yml` is in `src/heptacert`.

- [The system](#the-system)
- [Modules](#modules)
- [HeptaCoin](#heptacoin)
- [BulkCertificateJob](#bulkcertificatejob)
- [Billing](#billing)
- [Registration](#registration)
- [QuizAttempts](#quizattempts)
- [TicketGate](#ticketgate)
- [OfflineQueue](#offlinequeue)
- [LivePresentation](#livepresentation)
- [BulkEmail](#bulkemail)
- [Runs](#runs)
- [Fairness](#fairness)
- [Proofs](#proofs)
- [Where code and documentation part](#where-code-and-documentation-part)
- [What is not modelled](#what-is-not-modelled)
- [Plan](#plan)

## The system

HeptaCert lets organisers run events and issue certificates to attendees.
Certificates, e-mails and hosting are paid for in *HeptaCoin* (HC) units; plans
bring a monthly quota of them.

The HTTP API is served by several worker processes (four by default,
`docker-compose.yml:113`). Another process, `backend_jobs`, runs an APScheduler
with the periodic jobs, and a third converts presentations. All lasting state is
in PostgreSQL; what a process keeps in memory (caches, sockets, asyncio locks,
background tasks) is its own and goes with it. Every request and every
background task works in one SQLAlchemy `AsyncSession` (`db.py:20-40`), i.e. in
one READ COMMITTED transaction at a time, with `expire_on_commit=False` and an
identity map. Requests interleave at every `await`, and with other processes
everywhere, so wherever one transaction of another request fits between two
statements. What keeps them apart is row locks: `SELECT ... FOR UPDATE`, the
locks an `UPDATE` takes, and atomic conditional updates.

The pages of the front end are React components. Their handlers interleave at
every `await` as well, and each works with the state of the render in which it
was created.

| Component | State | Operations | Interacts with | What is hard | What makes it correct |
|---|---|---|---|---|---|
| HeptaCoin ledger, certificate issuance (`main.py:10452-10649`, `14079-14310`, `7253-7265`, `quiz_api.py:163-345`) | `users.heptacoin_balance`, `transactions`, `events.cert_seq`, `certificates` | issue, issue after a quiz, certify all eligible attendees, credit, delete | everything that spends | row locks held across rendering; rows re-read under the lock but served from the identity map | no unit spent twice, balance = ledger, no certificate without debit, one lock order |
| Bulk certificate jobs (`bulk_generate_api.py`, `main.py:3804-4110`, `14325-14392`) | `bulk_certificate_jobs`: status, index, counters | enqueue, cancel, one chunk of the oldest job every 3 s | ledger, certificates, e-mail | restart inside a chunk, cancel during a chunk, balance that runs out, the same name again | a chunk and its counters commit together, nothing twice, nothing skipped, cancelled stays cancelled, every job ends |
| Billing (`main.py:7290-7830`, `2687-2716`, `plan_policy.py`, `payments.py`) | `orders`, `subscriptions`, balance, `transactions` | checkout, notifications paid / failed / refunded, grant, revoke, monthly quota | payment provider, superadmin | repeated, concurrent and reordered notifications; renewal racing payment | one credit per payment, one active subscription, one quota per period |
| Registration (`main.py:11932-12650`, `397-519`, `services.py:140-187`, `registration_approval_api.py`) | `attendees`, option capacity rows, `events.config` | register, verify e-mail, approve, save settings, delete, self check-in | e-mail, tickets | the last place, places taken long before they are committed, configuration written from an old copy, two orders of locking | quota and capacity kept, no lost place |
| Tickets and check-in (`tickets_api.py`, `checkin_ops_api.py`, `services.py:1575-1633`, `main.py:13685-13755`) | `event_tickets`, `event_sessions`, `attendance_records`, nonces, kiosks | issue and consume a nonce, check in, cancel, reissue, check in by hand | registration, offline page | two desks at once, two rows that must agree | ticket and attendance agree, nobody counted twice, a nonce used once |
| Offline check-in page (`app/admin/events/[id]/checkin/page.tsx`) | the queue, in React state and in localStorage | type, scan, queue, synchronise, clear | tickets, the connection | closures with an older queue, two pages | no queued entry lost, a queue that can be sent is tried |
| Quizzes (`quiz_api.py`, `app/events/[id]/quiz/page.tsx`) | `quiz_attempts`; phase, answers and timer of the page | start, submit, time out, issue, issue by hand, replace the exam | ledger | no locks, a timer with an old closure, a task that goes with its process | attempts limited, certificates only for passes, every pass served |
| Certificate lifecycle (`main.py:2638-2685`, `10656-10822`) | certificate status, `hosting_ends_at` | expire, auto-renew, revoke, delete, bulk action | ledger | hourly job against requests, from rows read earlier | a revoked certificate never comes back |
| Bulk e-mail (`main.py:2718-3035`, `email_api.py`) | `bulk_email_jobs`, `email_delivery_logs` | create, pass of the scheduler, cancel, open, unsubscribe | attendees, mail server | restart between sending and recording, rows written from memory | bounded repetitions, completed means logged, cancelled jobs stop |
| Outgoing webhooks (`webhooks.py`) | deliveries | deliver, retry | receivers | late answers | retries end |
| Export jobs (`document_export_jobs.py`, `audience_segments_api.py`) | export jobs | claim, run, recover | files | restart while running | a job ends, is run by one worker |
| Presentation conversion (`presentation_conversion_worker.py`) | queue rows | claim, convert, retry, dead-letter | second process | two processes | no lost job |
| Live presentations (`presentation_ws.py`, `presentation_api.py`, `cache.py`, `app/admin/events/[id]/presentations`, `app/presenter`) | the slide in each worker's memory and on each stage; sockets, subscriptions | connect, change the slide, point, poll | Redis | messages that cross between workers, answers that come late | the stage ends on the last slide and does not jump back |
| Audience polls (`live_engagement_api.py`) | votes, questions | vote, ask | — | two votes at once | one vote each |
| CRM automations and sequences (`automation_api.py`, `crm_sequences_api.py`) | enrolments, steps | tick, advance | e-mail | a tick during a tick | a step is sent once |
| Raffles, meetings, venues, call for papers | draws, slots, reservations | draw, book, decide | — | two bookings of a slot | no double booking, no double win |
| Sessions, OAuth, 2FA, SSO | tokens, codes | log in, exchange, rotate | — | replay | codes are used once |
| Rendering (`generator.py`, `watermark.py`, `signing.py`) | none | render, stamp, sign | issuance | may fail | — |
| Training, analytics, marketplace, MCP, front end, CLI | single rows or none | CRUD, reports, forwarding | API | — | — |

The hazards each of these is exposed to, with the line where they bite, are the
`hazards` of `PROJECT.json`.

## Modules

| Module | What it is |
|---|---|
| `CreditLedger` | abstract: balances that agree with a ledger, spends that the balance covers (ADR-0008) |
| `HeptaCoin` | the handlers that move balances and issue certificates, statement by statement where locks and reads matter; refines `CreditLedger` |
| `HeptaCoin_proofs` | the theorems about `HeptaCoin` |
| `BulkCertificateJob` | the queue of bulk jobs, its drivers in two processes, and the requests beside it |
| `BulkCertificateJob_proofs` | the theorems about `BulkCertificateJob` |
| `Billing` | orders, notifications, subscriptions, quotas |
| `Billing_proofs` | the theorems about `Billing` |
| `Registration` | self-registration, verification, quota, places of options, settings |
| `Registration_proofs` | the theorems about `Registration` |
| `QuizAttempts` | the page of an exam, the handlers that start and score attempts, the task that issues |
| `QuizAttempts_proofs` | the theorems about `QuizAttempts` |
| `TicketGate` | check-ins at the entrance as transactions, beside the organiser's changes |
| `OfflineQueue` | the check-in page without a connection, with its closures |
| `CheckIn_proofs` | the theorems about `TicketGate` and `OfflineQueue`, the two ends of a check-in |
| `LivePresentation` | the slide between remotes, workers, Redis and stages |
| `LivePresentation_proofs` | the theorems about `LivePresentation` |
| `BulkEmail` | campaigns, the scheduler's passes over them, openings and cancellations |
| `BulkEmail_proofs` | the theorems about `BulkEmail` |
| `MC_*` | the constants of the instances TLC checks |


`HeptaCoin` settles that handlers which hold the lock of a user's row exclude
one another. `BulkCertificateJob` and `Billing` rely on that: there, such a
handler is one step, possible when nobody holds the row, and so is the task that
issues in `QuizAttempts`. `Registration` and `TicketGate` have row locks of
their own. `OfflineQueue` sends its entries to what `TicketGate` models: an entry may
be recorded although its answer is lost, and a ticket that is checked in a
second time changes nothing. In `TicketGate` the names `Init`, `Next`, `Spec`,
`TypeOK` and `vars` carry the prefix `Gate`, so that `CheckIn_proofs` can extend
both.

Operators whose comment begins with *Mutant:* are not part of a specification.
Each is a plausible mistake in the definition that follows it.

## HeptaCoin

| Model | Code |
|---|---|
| `balance`, `credited`, `spent` | `users.heptacoin_balance`; the sums of the rows of `transactions` by type |
| `certSeq`, `certs` | `events.cert_seq`; the committed `certificates` |
| `userLock`, `eventLock` | PostgreSQL row locks |
| `sess[s]` | one session: control state, identity map (`seq`, `bal`), uncommitted writes (`bumps`, `debits`, `cart`) |
| `LoadIssue`, `LoadQuiz`, `LoadCertify` | the SELECTs before the first lock: permission, event, template, eligible attendees |
| `LockUser` | `select(User)...with_for_update()`: `main.py:10491`, `14155`, `quiz_api.py:210` |
| `LockEvent` | `select(Event)...with_for_update()`: `main.py:10515`, `quiz_api.py:236` |
| `IssueCertificate`, `IssueQuizCertificate` | from the numbering to the commit or the 402 |
| `CertifyRefuse`, `CertifySkip`, `CertifyCheck`, `CertifyAttendee`, `CertifyCommit` | the steps of `bulk_certify_attendees` |
| `CreditLoad`, `CreditCommit` | `credit_coins` |
| `DeleteCertificate` | `delete_certificate` |
| `Rollback` | any exception, lost connection or restart before the commit |

*What a locking read returns.* `SELECT ... FOR UPDATE` of a row whose object is
already in the identity map locks it and keeps the attributes loaded before
(nothing in the code asks for `populate_existing`). In `issue_certificate` the
event is held in a local variable since the permission check, so `cert_seq` is
as old as that: `seq` is read in `Load`. The identity map is weak; the user
object the authentication loaded is not held by the handler, so the locking
read of the user constructs it anew: `bal` is read in `LockUser`. The quiz task
and bulk certification have not loaded the user at all.

*What is abstracted.* Rendering is its outcome: it may fail (`CertifyAttendee`,
`Rollback`), and the size of the files is a choice of `HostingUnits`. E-mail,
audit rows, CRM snapshots and file uploads do not touch the modelled tables.
Public ids are their sequence number: the year and the prefix are the same for
one event. Two attendees never have the same name here; homonyms are modelled
in `BulkCertificateJob`.

*Properties.* `NoDoubleSpend`, `NoOverdraft`, `LedgerBalanced` and
`ImplementsCreditLedger` say that single and quiz issuing keep the promise of
ADR-0008. They are stated for the handlers that keep it: bulk certification
overdraws, `credit_coins` loses updates, team members' spends are filed under
the wrong account. `NoDoubleSpend` follows from the other two and is proved, not
checked by a run of its own.
`LockOrder`, `SpentOnCertificates`, `OneCertificatePerAttendee` and
`RequestsEnd` hold with all handlers together.

## BulkCertificateJob

| Model | Code |
|---|---|
| `job[j]` | row of `bulk_certificate_jobs`; ids in the order of `created_at` |
| `run[d]` | the chunk of process `d`: picked (a query of its own), then holding the rows of job and user |
| `name[a]`, `had[a]` | `attendees.name`; the names the attendee has had (history) |
| `certs` | the committed certificates: `student_name`, `attendee_id`, and whether the issuer looked for an earlier one (`checked`, history) |
| `cancels` | cancel requests between their SELECT and their UPDATE |
| `NameAttendee` | an attendee registers, or gets another name |
| `BulkGenerate`, `BulkCertifyQueue` | the two ways to enqueue; `mine` is false for a job a team member files |
| `Pick`, `FindFinished`, `FailAtHead`, `OpenChunk` | `_process_bulk_certificate_jobs` and the checks at the head of `_process_one_bulk_certificate_job`: no event of this owner, an invalid configuration, a missing owner or template |
| `Match`, `HasCertificate` | the attendee of a name nobody else has; the search for an earlier certificate, by the link, and by the name among those without a link |
| `SkipName`, `RenderFails`, `IssueName`, `InsertFails`, `RunOut` | the outcomes of one turn of the loop |
| `CloseChunk` | index, status, commit |
| `CertifyElsewhere` | `bulk_certify_attendees` for one attendee |
| `IssueByHand`, `IssueForQuiz` | `issue_certificate` and the task of a quiz, which look for no earlier certificate |
| `DeleteCertificate` | `delete_certificate` |
| `Crash` | restart of the process, or an exception that leaves the chunk |

The scheduler's process calls the driver every three seconds, and a web worker
does after every enqueue. The asyncio lock (`main.py:4090-4093`) belongs to its
process; between processes only the row locks count. The first statement of a
chunk locks the job's row and reads it anew, so a job that was finished since it
was picked is left alone. The chunk's debits, certificates and counters are in
one transaction, so none is visible before `Commit`. `IssueName` may count a
name as created and as failed: the statements after the INSERT are in the same
`try`. `InsertFails` is a name longer than `certificates.student_name`: the
flush fails, the transaction is unusable, and the next statement leaves the
chunk.

*Whose certificate it is.* A certificate may be linked to an attendee; two
attendees may have one name, and names change. So a name may well have two live
certificates: of two homonyms, or because a request issued one without looking.
`OneCertificateEach` is about the certificates whose issuer did look, a job or
bulk certification. Such a certificate is never the second of its attendee, and
it has the name of an older one only if that one is linked to an attendee whom
the name does not tell from others (`Ambiguous`). `NothingSkipped` counts for a
name the certificates that show it and those of an attendee who has had it
(`Serves`).

*Left out:* the deletion of an attendee, which takes the link off the
certificates.

## Billing

| Model | Code |
|---|---|
| `order[o]`, `subs`, `balance` | `orders`, `subscriptions`, `users.heptacoin_balance` of one organiser |
| `credits[o]`, `clawbacks[o]`, `renewals` | the rows of `transactions` by their cause |
| `early` | the orders that were refunded when they were not paid (history) |
| `paid` | what the customer has paid at the provider (external) |
| `sess[s]` | an open transaction: what it has read, which rows it has changed |
| `CreateOrder`, `CustomerPays` | `create_payment`; the checkout |
| `FailedWebhook`, `PaidWebhook` ... `PayCommit`, `RefundWebhook`, `RefundCommit` | `payment_webhook` by status |
| `GrantSubscription`, `GrantCommit`, `RevokeSubscription` | the superadmin's handlers |
| `MonthlyRenewal`, `RenewalCommit` | `_monthly_hc_renewal`, 03:30 every night |
| `IssueElsewhere` | a spend, as in `HeptaCoin` |
| `Rollback` | an error, or PostgreSQL breaking a deadlock |

*An `UPDATE` at READ COMMITTED.* It collects its rows from the snapshot of its
start, waits for the rows another transaction has changed, and keeps those that
still satisfy the condition: `drop` is chosen in `PaidWebhook` and thinned in
`PayRead`. A row inserted meanwhile is not seen. That is how two active
subscriptions come about.

*Refunds.* `payment_webhook` handles "refunded" and the interface of the
providers allows it (`payments.py:68`); of the providers in the repository none
returns it today. Its guard is the code's: any order that is not refunded yet,
so a pending or a failed one as well. `TakeBack` takes the quota of the plan
back, whether it was credited or not, and `early` remembers the orders for which
it was not: for these `CreditedOncePerPayment` counts one clawback more, although
the comment at `main.py:7630` says that only what was credited is taken back; a
finding records it. `PaymentsProvisioned` asks nothing for an order that is
refunded before its notification of payment is worked on.

*Two of everything.* With two active subscriptions of one plan
`scalar_one_or_none` raises; `PayError` is that, and `PaymentsProvisioned`
names it as the one exception.

*Days* are counted; the run uses months of 2 days and a renewal after 1 in place
of 31 and 30. That the real numbers let a renewal fall into every paid month is
recorded as a finding.

## Registration

| Model | Code |
|---|---|
| `config` | `require_email_verification` and `registration_closed` of the JSON value `events.config` |
| `attendee[p]` | the row of `attendees` with address `p`: confirmed or not, the chosen options in their order |
| `reserved[o]` | `registration_option_capacities.reserved_count` |
| `eventLock`, `optionLock` | PostgreSQL row locks |
| `sess[s]` | a request: the configuration it has loaded, the options it has still to reserve (`todo`) and has reserved (`got`) |
| `Register`, `Reserve`, `NoPlace`, `UpdateExisting`, `FindNone`, `LockAndCount`, `Insert`, `InsertFails`, `CloseFull` | `public_event_register` |
| `Verify`, `VerifyNothing`, `LockAndRead`, `Reserve`, `NoPlace`, `Confirm`, `CloseFull` | `verify_attendee_email` |
| `Save`, `SaveConfig`, `CountPlaces`, `SaveCounts` | `rename_event` with `_sync_registration_option_capacities` |
| `DeleteAttendee` | `delete_attendee` |
| `AbortVictim` | PostgreSQL aborts a session of a deadlock |

*Places.* `_reserve_option_capacity` is one conditional UPDATE. It locks the row
until the transaction ends, so the increment waits in `got` for `CommitPlaces`.
An UPDATE that finds the committed count full matches nothing and does not wait
(`NoPlace`); one that waited reads the row again (`Reserve` needs the lock free).
With verification a place is taken when the address is verified, without when
the form is sent.

*The configuration* is one JSON value. A handler copies it, changes a key and
assigns it; the ORM writes it if it differs from what was loaded, so it undoes
what was saved in between (`ConfigClosedBy`). A save sets any of the keys, so
`Save` chooses the configuration it is going to write when it begins.

*What is abstracted.* The event has a quota, which does not change, and its
options have rows (they are made when the fields are saved). The two SELECTs of
`_sync_registration_option_capacities` are one step, and so is taking the rows
that differ. Reading an attendee and updating it is one step, `UpdateExisting`:
she may be confirmed in between, with the same result. Verification links name
an address, not an id; a link that has expired or was used changes nothing.
Documents, consent, risk controls, e-mail, tickets and audit rows do not touch
the modelled tables, or only refuse a request before it writes. Attendees who
are imported, added by hand or approved are not modelled: `QuotaKept` is about
self-registration.

*Properties.* `QuotaKept` holds of any number of people and sessions. That no
option has more confirmed attendees than places, which the documentation
promises, does not: a confirmed attendee who registers again changes her answers
without taking a place. `OverbookedOnlyByChange` says that this and saved settings are the only causes:
`edited` remembers the first, `saves` the second. `DeadlocksExplained` says the
same of deadlocks: verification takes the event and then options, registration
without verification the options and then the event, but both happen at once
only after a change of settings; the other cause is the order in which people
choose two options.

## QuizAttempts

| Model | Code |
|---|---|
| `attempt[a]` | row of `quiz_attempts`: member, number, score, verdict |
| `page[t]` | the React state of `PublicQuizPage` on page `t`; `answer` is what the chosen answers are worth; `timer` is the attempt whose closure the interval holds |
| `request[r]` | a start or a submission under way, from the click to the answer's arrival |
| `task[a]`, `certs[a]`, `balance` | background tasks, certificates, the organiser's balance counted in certificates |
| `Load`, `ClickStart`, `Started`, `Choose`, `ClickSubmit`, `TimeOut`, `Result`, `Alert`, `TryAgain`, `Reload` | the page (`app/events/[id]/quiz/page.tsx`) |
| `Disconnect` | the network, or the thirty seconds of `requestApi` (`lib/api.ts:196-212`), before or after the request has reached the server |
| `CountStarts`, `CommitStart` | `start_quiz_attempt`: the count, and the insert |
| `ScoreSubmission`, `CommitSubmission`, `CommitFails` | `submit_quiz_attempt`: the reading and the commit |
| `IssueCertBackground`, `IssueGivesUp`, `ManualIssue` | `_issue_cert_background` and the request that starts it again |
| `ReplaceQuiz`, `Crash` | saving or deleting the exam; a restart of the process |

The handlers take no lock, so each is what it reads and what it commits. The
commit writes the columns the session has changed (`Written`): a second
submission that scores zero leaves score and verdict alone, and no submission
takes a pass back. That is what `CertifiedAttemptsPassed` rests on: with the
timer or a second request submitting the same attempt, the certificate and the
verdict would part if all columns were written.

`setAttemptId`, `setAnswers` and `setPhase` are rendered together, and the
timer's effect runs only when `phase` changes; hence `Started` keeps the old
timer when a second start is answered while the exam is taken. `TimeOut` submits
with the answers and the flags of the render that started the interval: none.
Nothing matches an answer with the attempt on the page either: the score of an
earlier attempt's second submission ends the attempt that is being taken
(`shown`). `AnswersLostOnlyByTimer` says that nothing else shows a member less
than was chosen. `ExcessOnlyByOverlap` names the overlaps behind too many attempts
(two rows with one number) and two certificates of one attempt.
`PassedIsServed` is the liveness of the task: a pass leads to a certificate or
to a task that has ended without one (`dropped`), which nothing repeats.

*Left out:* anonymous visitors, who are counted by the address they type, and
the rows of the answers.

## TicketGate

| Model | Code |
|---|---|
| `status[t]` | `event_tickets.status`; one ticket for each attendee |
| `sessions`, `seq` | the committed rows of `event_sessions` named "Ticket Check-in", and their ids |
| `records` | `attendance_records` of these sessions |
| `nonce[n]`, `revoked`, `waiting` | nonces by `used_at` and `expires_at`; revoked kiosks; attendees who are not approved |
| `desk[d]` | the transaction of one check-in |
| `Begin`, `ReadNonce`, `MarkNonce` | the head of `check_in_event_ticket`, `_kiosk_from_token`, `_consume_nonce` |
| `LockTicket`, `RefuseCancelled`, `RefusePending` | the ticket `FOR UPDATE` and what follows |
| `FindSession`, `CreateSession`, `FindRecord`, `InsertRecord`, `InsertConflicts` | `_get_or_create_ticket_checkin_session`, `_record_ticket_attendaonce` |
| `Commit`, `Rollback` | the end of the transaction |
| `UpdateStatus`, `ManualCheckin`, `Decide`, `IssueNonce`, `ExpireNonce`, `RevokeKiosk` | the other requests, each one step under its lock |

What a transaction has inserted or changed is seen by others when it commits;
`HoldsNonce`, `HoldsTicket` and `HoldsRecord` are the rows it keeps from them.
The UPDATE of a nonce waits for the row and then writes it whatever it says.
A refusal because the ticket is cancelled commits, and spends the nonce.

`AttendanceMatchesTicket` relates the two tables through any order of
check-ins, cancellations, reissues and manual check-ins. That nobody is counted
twice, and no nonce spent twice, is what the documentation says and the code
does not keep; `DoublesOnlyByOverlap` says that the only ways there are two
first check-ins of an event at once, and two readers of one nonce. `raced`
remembers these overlaps.

*Left out:* self check-in of visitors, the undo of an attendance record
(`main.py:13886-13930`), other sessions, the activity log.

## OfflineQueue

| Model | Code |
|---|---|
| `stored` | the queue in `localStorage`, which all pages of the browser share |
| `offlineQueue[p]`, `isOnline[p]`, `submitting[p]` | React state of page `p` |
| `ready[p]` | a session is selected; it is not, when the page was loaded without a connection |
| `scanner[p]` | the closure of the open scanner: the queue and the connection of the render it was started in |
| `sent[p]` | check-ins whose answer is awaited, each with the queue of its closure |
| `sync[p]` | `syncQueue`: what is still to be sent and what has failed |
| `Render` | a render and the effect on `[isOnline, offlineQueue.length]` |
| `HandleCheckin`, `HandleScannedValue`, `Recorded`, `Failed`, `QueueCheckin` | `submitValue` from the form and from the scanner, `queueCheckin` |
| `ClickSync`, `SyncRecorded`, `SyncFailed`, `SyncEnd`, `ClearQueue` | the panel of the queue |
| `Flip`, `Notice` | the connection, and the page's listener |

`fate[e]` follows one entry from the hand that typed it to the server.
`QueuedEntriesKept` is what the page says of a queued entry. It fails, since
whoever ends an `await` writes back the queue it began with;
`LostOnlyByOverlap` is what remains: an entry that was queued while nothing held
an older queue is safe from then on, through reloads, second pages, failed
synchronisations and later scans. `OnlineQueueTried` says that the effect does
not leave a queue alone that could be sent.

*Left out:* the log, the metrics, the live stream, what an entry contains.

## LivePresentation

| Model | Code |
|---|---|
| `cache[n]` | the slide in the memory of worker `n`; `cache.py` has no other implementation |
| `room[n]`, `canPublish[n]` | the sockets worker `n` serves, `not _redis_failed` |
| `pinging[n]` | the socket whose handler waits for the first answer of Redis |
| `sub[l]`, `queue[l]` | per `_pubsub_loop`, of which a worker may run two (`Loops`): its subscription and what Redis has sent it |
| `inbox[r]`, `wire[s]` | messages from a remote, to a stage |
| `publishing[r]` | a publication awaited by the handler of `r`'s socket |
| `shown[s]`, `connected[c]`, `polls[s]` | state of the pages; answers of the fallback on their way |
| `Connect`, `Greet`, `ReceiveSlide`, `ReceivePointer`, `Disconnect` | `presentation_control_ws` |
| `PingAnswered`, `PingFails` | `redis`, awaited by `ensure_pubsub` |
| `Publish`, `PublishFails`, `Subscribe`, `Deliver`, `SubscriptionFails` | `broadcast`, `_pubsub_loop` |
| `Patch`, `Poll`, `PollAnswered` | the HTTP endpoints of the session, to any worker |
| `Go`, `Point`, `OnOpen`, `OnMessage` | the pages |

A slide is known by the click that chose it, and `order` is the order in which
slides were stored. `excused` collects the screens that a named exception may
have kept from the last slide: an update by HTTP, which is not broadcast; a
worker that greets or points with the slide in its own memory; a worker that is
not subscribed; an error of Redis; two changes on their way at once. For every
other screen `StageShowsLast` says that it ends on the last slide, and
`StageInOrder` that it does not jump back on the way. The next undisturbed slide
takes a screen out of `excused`, so the properties also say that the stage
recovers.

*Two subscriptions.* `ensure_pubsub` looks whether a loop runs, awaits `redis()`,
whose first call pings, and then starts one. A socket that comes during the ping
gets the connection at once and starts a loop, and when the ping is answered the
first socket starts another (`Connect`, `PingAnswered`). Such a worker gets every
message twice, and its stages may be sent 1, 2, 1, 2. `StageInOrder` leaves these
workers out (`Doubled`); the finding records it. `StageShowsLast` holds for them
as well, since each copy ends on the last slide.

*Left out:* what a remote shows itself, where the pointer is, access tokens, the
six hours of the cache, polls and questions of the audience.

## BulkEmail

| Model | Code |
|---|---|
| `status[j]`, `kind[j]`, `due[j]` | row of `bulk_email_jobs`; sent now, at a time, or by a cron expression |
| `logs` | the committed rows of `email_delivery_logs` |
| `pass` | one call of `_process_bulk_emails`: the jobs as selected (`todo`), their row locks until the first commit (`locked`), the batch, the variable `delivery_log` (`last`) |
| `Select`, `NotDue`, `Begin`, `TakeBatch`, `NobodyLeft`, `Finish`, `JobFails`, `EndPass` | the pass and its jobs |
| `Mail`, `Record`, `Notified`, `RenderFails`, `MailRefused`, `NotifyRaises` | one attendee |
| `Create`, `CancelCheck`, `CancelWrite`, `Open`, `Change` | requests: creation, cancellation, the pixel of an opening, attendees who come and go |
| `Crash` | a restart, or an exception that leaves the pass |

The pass works with rows as it selected them, and the ORM writes a column only
where memory has changed it (`Begin`). `lost` counts mails that were handed over
and not recorded when the process stopped. `RepeatedOnlyIfLostOrOpened` bounds
the mails of one job to one attendee by these and by openings, which take a log
out of those that count as processed; without openings it is what the comment in
the code promises. `CompletedIsLogged` is about the counts that decide
completion, `CancelledIsOver` about a cancelled job that no pass has in hand,
`CampaignsEnd` about every job that is to be sent, unless `PassSize` older ones
are unfinished: a pass selects the ten oldest, due or not (`Crowded`).

*Left out:* what a mail says, e-mail quotas, campaigns of the superadmin and of
the CRM. The queries for recipients and logs are one step.

## Runs

| Run | Instance | Shows |
|---|---|---|
| `heptacoin_spend` | 3 sessions, 2 organisers (one exempt), 3 events, issue and quiz; balance 40, certificates of 12 or 30 units | `NoOverdraft`, `LedgerBalanced`, `ImplementsCreditLedger` hold |
| `heptacoin_all` | 2 sessions, all four handlers, 2 attendees, a team member | `LockOrder`, `SpentOnCertificates`, `OneCertificatePerAttendee`, `RequestsEnd` hold |
| `jobs_queue` | 2 processes, 2 jobs with lists `<<ada, ada, bob>>` and `<<bob, cem>>` (cem too long), chunks of 2, balance 100 with 40 a certificate, 1 restart, 1 certificate of a request, 1 deletion, no attendees | all seven properties of the queue hold |
| `jobs_names` | 2 processes, 2 jobs with the list `<<ada, ada, bob>>`, 2 attendees, one registered as ada and one not yet, who may be named ada or bob, 3 namings, 2 certificates of requests, no restart | `OneCertificateEach`, `NothingSkipped` hold |
| `billing_webhooks` | 2 orders, 2 plans, 2 sessions, 1 grant, revocation or refund, 1 failure, 2 days | `TypeOK`, `CreditedOncePerPayment`, `TwoActiveOnlyByOverlap`, `PaymentsProvisioned` hold |
| `registration_places` | 3 people, 2 sessions, quota 2, options with 2 and 1 places chosen alone or together in both orders, verification on or off, 1 save, 1 deletion | `QuotaKept`, `OverbookedOnlyByChange`, `DeadlocksExplained` hold |
| `quiz_exam` | 1 member on 1 page, answers worth nothing, too little or a pass, 2 attempts allowed and 3 rows, 2 requests under way, a time limit, 2 certificates' balance, 1 upset | `TypeOK`, `CertifiedAttemptsPassed`, `ExcessOnlyByOverlap`, `AnswersLostOnlyByTimer`, `PassedIsServed` hold |
| `gate_tickets` | 2 desks, 2 tickets (one waits for approval), 1 nonce of 1 kiosk, 2 sessions, 2 changes | `AttendanceMatchesTicket`, `DoublesOnlyByOverlap` hold |
| `offline_door` | 2 pages, 2 typed entries and 1 scanned, a queue of 2, 3 changes of the connection, 2 openings | `TypeOK`, `LostOnlyByOverlap`, `OnlineQueueTried` hold |
| `offline_entry_lost` | the same with a queue of 3, so none is pushed out | `QueuedEntriesKept` fails |
| `live_stage` | 2 workers, 2 remotes, 1 stage, 2 slides, 1 poll, pointer message or fault | `StageShowsLast`, `StageInOrder` hold |
| `email_campaigns` | 2 campaigns, now or by cron, 2 attendees, batches of 1, passes of 2 campaigns, 6 logs, 2 upsets | `TypeOK`, `RepeatedOnlyIfLostOrOpened`, `CompletedIsLogged`, `CancelledIsOver`, `CampaignsEnd` hold |

The type invariants of `HeptaCoin`, `BulkCertificateJob`, `Registration`,
`TicketGate` and `LivePresentation` are proved and not listed in a run.

*Why the bounds are enough.* Two requests of one organiser, and a third of her
or of another, are all a lock order or a lost update needs; a balance of 40
against costs of 12 and 30 covers one, two or three certificates, so requests
succeed, fail, and fail only because another went first. A session serves one
request: what a served request leaves is in the tables.

Two jobs are one that works and one that waits, a list of three names in chunks
of two ends in a full and a partial chunk, the repeated name falls into one
chunk, the common name into two jobs, and 100 units are enough for two
certificates of 40 but not for a third. Two processes are the scheduler's and a web worker's; both
may pick the same job. Names are a run of their own: two attendees are two
homonyms, or one who changes her name while another takes it, three namings let
each of them be named and one renamed, and two certificates of requests are one
that was issued without looking and one of bulk certification. Restarts are left
to `jobs_queue`. Two orders are the same plan again and a change of plan.

Three people and a quota of two leave one too many, two requests at once meet in
each of their steps, one save separates requests that have loaded the settings
before and after, and one deletion makes room again; one option has as many
places as the quota and one has fewer, so both kinds of refusal happen.

With two attempts allowed and three rows, the third row is the excess, reached by
two starts at once, and a failed first attempt can be tried again; two requests
are a click and the timer, or a request of the page before a reload and one
after it; one upset is a restart, a saved exam, a certificate by hand, a reload
or a request given up on. Two desks meet in each of their steps;
two sessions are those that two first check-ins create, and two changes are a
cancellation between a check-in and one by hand. Two pages, a scanner and a
synchronisation are the four holders of an older queue; three entries are the
one that is lost, the one that overwrites it and one that makes both queues
equally long; a queue of two overflows. Two workers are one that has stored the
slide and one that has not; two sockets of one worker are enough for two
subscriptions. One upset is a poll whose answer may come late, a pointer
message, a lost connection or an error of Redis; two of them in one behaviour exceed
five minutes. Batches of one for two attendees take two passes, so
everything that happens between batches does; two jobs share the variable
`delivery_log` of one pass, and two upsets are one that goes wrong and one that
repeats it. A pass has room for both, as in the code for ten, so no job of this
instance is `Crowded`: `CampaignsEnd` is checked in its strong form, and the
limit itself is under the theorems, whose `PassSize` is any.

Every bound (`MaxJobs`, `MaxCertificates`, `MaxNamings`, `MaxCrashes`, `MaxOrders`,
`MaxSpecial`, `MaxFailures`, `LastDay`, `MaxSaves`, `MaxDeletes`, `MaxRows`,
`MaxRequests`, `MaxUpsets`, `MaxSessions`, `MaxChanges`, `Cap`, `MaxFlips`,
`MaxOpens`, `MaxClicks`, `MaxLogs`) is a
constant and a guard. `Cap` is the code's own limit of 300, made small.

*Symmetry* is used where members of a set are interchangeable: the processes of
`jobs_names` (only fairness tells them apart), people and sessions of
`Registration`, desks, pages and typed entries, workers and remotes.
None of these runs has a liveness property.

*Deadlock* is checked in the runs of the first four modules and of `TicketGate`:
instances that come to an end do so in an explicit
stuttering step (`AllServed`, `AllFinished`, `Over`), so a state in which
everybody waits for everybody would be reported. `QuizAttempts`, `OfflineQueue`, `LivePresentation` and
`BulkEmail` have no locks anybody waits for in a circle, and their instances end
when the bounds are used up: no attempt is left, everything is sent, shown or
mailed, and nobody does anything more.

Every property of a passing run has a mutant, an operator next to the one it
changes (*Mutant:* in its comment), under which TLC finds the property violated.

## Fairness

- `HeptaCoin!FairSpec`: weak fairness of `Proceed(s)` for each session. The
  event loop resumes a task whose statement has been answered; PostgreSQL grants
  a released row lock to the waiter. Weak is enough: the lock a session waits
  for may be taken by others, but each session serves one request here. No
  request has to start, and `Rollback` is never obliged.
- `BulkCertificateJob!FairSpec`: weak fairness of `Work(Scheduler)`, and of
  `Begun(d)` for each process. The scheduler calls the driver every three
  seconds; the driver's exceptions are caught and logged, so it is called again.
  A chunk that has begun is an asyncio task, which goes on. No web worker has to
  begin one. Restarts are bounded by `MaxCrashes`: nothing ends if the processes
  restart for ever. No fairness for requests.
- `QuizAttempts!FairSpec`: weak fairness of `Background(a)`: FastAPI runs the
  task once the answer is sent. Members and their pages owe nothing.
- `BulkEmail!FairSpec`: weak fairness of `Process`: the scheduler calls the
  function every five minutes, and a call that has begun goes on. `MaxUpsets`
  bounds restarts, openings and changes together.
- `Registration`, `TicketGate`, `OfflineQueue` and `LivePresentation` have no
  fairness: only safety is claimed of them. Theirs is safety of the kind "when
  everything has arrived": what may never happen at all is not excluded.
- `Billing!FairSpec`: weak fairness of `Proceed(s)` as above, and of
  `Notify(o)`, as long as the order is not refunded: the provider repeats the
  notification of a payment until it is answered without an error. This is an assumption about the provider.

## Proofs

`HeptaCoin_proofs` proves, for every set of organisers, events, attendees,
sessions, every ownership and team, every price and every opening balance that
satisfies `HeptaCoinAssumption` (the payers are finitely many, so that there is a
sum over them):

| Theorem | Statement | Assumes |
|---|---|---|
| `TypeCorrect` | `Spec => []TypeOK` | — |
| `LockOrderHolds` | `Spec => []LockOrder` | — |
| `LedgerIsBalanced` | `Spec => []LedgerBalanced` | no `credit`; no team, or no `certify` |
| `NeverOverdrawn` | `Spec => []NoOverdraft` | no `certify` |
| `NeverDoubleSpent` | `Spec => []NoDoubleSpend` | no `credit`, no `certify` |
| `RefinesCreditLedger` | `Spec => ImplementsCreditLedger` | no `credit`, no `certify` |
| `OnePerAttendee` | `Spec => []OneCertificatePerAttendee` | — |
| `SpentIsCost` | `Spec => []SpentOnCertificates` | — |

The assumptions on `Kinds` and `Team` are those under which the properties are
true; the findings say what happens without them.

*The argument.* `LockOrder` and `LedgerBalanced` are not inductive: from a state
that satisfies `LedgerBalanced` alone a session with an arbitrary `bal` could
commit. The strengthening has three parts.

- `TypeOK`.
- `LockInv` ties the control state of a session to the locks: whoever is past
  `LockUser` owns the row of the user it bills, that user owns the event, and an
  event lock is only held by such a session. `LockOrder` follows, and mutual
  exclusion: two sessions past `LockUser` bill different users.
- `FreshInv` says that the balance in the session's identity map is the
  committed one less its own debits. It is preserved because, by `LockInv`, no
  other session past the lock writes that row; a `CreditCommit`, which waits for
  the lock but has read before it, is the only writer without it, hence "no
  `credit`".

Each part is proved inductive with a step per action; `NoOverdraft` needs only
that a commit of `IssueOne` has checked the balance it writes; `NoDoubleSpend`
is `LedgerBalanced` with `NoOverdraft`; the refinement maps each commit to one
`Spend` and everything else to stuttering.

`OnePerAttendee` rests on what a bulk certification holds in hand. `RowInv`: the
committed rows are finitely many, of sessions that are over, and told apart by
their id. `CartInv`: what a session has added and not committed is one
certificate for each attendee it has served, at the price of its debits.
`DedupInv`: under the lock of the user's row no live certificate of an attendee
the session serves or has served is committed by another, since whoever commits
one for the event bills the same user; the list of those already served was read
under that lock. `SpentInv` says that `spent` and the costs of the committed rows
are one sum: a commit adds the same to both.

*Sums.* What a sum over a finite set is does not follow from its definition by
the provers' own means. The lemmas `SmallestSet`, `SumsExist`, `TotalEquation`,
`TotalAdds` and those between them derive it from the folds of the community
modules and from `FS_StrictSubsetOrderingWellFounded`: a smallest set of which
the claim fails would have a smaller one. They stand in the three modules that
need sums, since each extends its component.

`Registration_proofs` proves, for every finite set of people, every set of
sessions and options, every capacity, quota and choice of answers:

| Theorem | Statement |
|---|---|
| `TypeCorrect` | `Spec => []TypeOK` |
| `QuotaNeverExceeded` | `Spec => []QuotaKept` |
| `PlacesNeverOverbooked` | `Spec => []OverbookedOnlyByChange` |
| `DeadlocksNeedTwoOrders` | `Spec => []DeadlocksExplained` |

*The argument.* None of the four is inductive. `EventLockInv`: who inserts or
verifies holds the row of the event, and who is being verified is registered and
not confirmed; type correctness needs it, since `Confirm` updates that row.
`QuotaInv` adds that whoever is about to insert has counted fewer than the quota
allows: by `EventLockInv` nobody else inserts meanwhile, and deletions only help.
For the places: `GotInv` says that a place taken and not committed is under the
row lock and free in the committed count; `AnswerInv` that what a request chose
is reserved or still to be reserved; `SettingsInv` that until a save every
request knows whether addresses are verified, and that nobody waits for
verification if they are not, so no verification skips its places; and
`PlacesInv` that the committed count lies between the confirmed attendees of the
option and its capacity. Each is inductive with those before it.

For the deadlocks, `HolderInv` says what the holder of a row may be about to do,
and that whoever holds an option has taken a place of it. `TakesInv` says when a
request takes places and in which order: until a save either everybody does at
registration or everybody at verification, and what is still to be taken is the
end of the answer, what has been taken lies before it (`InOrder`). If addresses
are verified, all places are taken under the row of the event, so its holder
waits for nobody (`EventHolderGoesOn`). So whoever is in a circle registers and
waits for an option that another one of the circle has taken (`WaitsForPlace`).
If all of them had one answer, one has least still to take; whoever holds the
option it waits for has taken that one already, and so has less to take, which
cannot be.

`BulkCertificateJob_proofs` proves, for every set of processes, names, attendees and
lists of names, any number of jobs, any chunk size, price and opening balance:

| Theorem | Statement |
|---|---|
| `TypeCorrect` | `Spec => [](TypeOK /\ StageInv)` |
| `AttendeesCertifiedOnce` | `Spec => []OneCertificateEach` |
| `NoNameSkipped` | `Spec => []NothingSkipped` |
| `CancelledJobsRest` | `Spec => CancelledIsFinal` |
| `NoJobOverdraws` | `Spec => JobsNeverOverdraw` |
| `JobsCountRight` | `Spec => []JobCountsItsCertificates` |
| `BalanceIsRight` | `Spec => []BalanceMatchesCertificates` |

*The argument.* What the seven rest on is what an open chunk may believe while
its session lasts. `StageInv`: there is one open chunk; its job is unfinished in
the committed row, has the names the session loaded, and its certificates are of
that job. That is mutual exclusion by the row of the organiser, and it is why
`CancelledIsFinal` holds: a commit writes only the row of an unfinished job.
`PeopleInv` says that a name an attendee has is one he has had, and that the links
of certificates and of a chunk go to those who have had the name. `OnceInv` states
`OneCertificateEach` of what is committed and also of what the chunk sees, which is
what it is about to commit; and where the chunk would link another attendee to the
name of a certificate than the certificate does, that name is ambiguous, and stays
so, since nobody forgets a name he had. `ServedInv` does the
same for the names passed over: they are counted as failed at every index, and a
completed job is at the end of its list. `SpentInv`: whenever the session's row
has spent more than the committed one, the balance it will write is not
negative. For the counters, `NumberInv` keeps the certificates apart: no two have
one number, and those of a chunk come after the committed ones. `CountInv` then
ties the session's row and balance to the committed ones by the number and the
cost of what the chunk has added, so that a commit, and a restart, leave counters
and certificates agreeing. Each is inductive with `TypeOK` and `StageInv`; the steps are sorted
first into those that leave chunks and certificates alone (`Quiet`) and the
others (`KindsOfSteps`).

`CheckIn_proofs` proves of the gate, for every set of desks, tickets, nonces and
kiosks and any number of sessions and changes:

| Theorem | Statement |
|---|---|
| `GateTypeCorrect` | `GateSpec => []GateTypeOK` |
| `AttendanceHolds` | `GateSpec => []AttendanceMatchesTicket` |
| `DoublesExplained` | `GateSpec => []DoublesOnlyByOverlap` |

*The argument.* `StageInv` says what a transaction has at each stage: a nonce
while it reads one; from "found" on a session that is committed or its own; at
"ready" a record of its own or one that is committed. With `GateTypeOK` it is
inductive, and with both `AttendanceMatchesTicket` is: `Commit` is the only step
that makes a ticket used, and brings the record along. `OneSession`: unless two
transactions overlapped in creating them, there is one session, committed or
under way, so there is one record of an attendee. `OneUse`: of a nonce that
nobody read while another had it in hand, one transaction is the only user, and
nobody once it is spent.

`QuizAttempts_proofs` proves, for every set of pages and members, any scores,
limits and balances, and any number of rows, requests and restarts:

| Theorem | Statement |
|---|---|
| `TypeCorrect` | `Spec => [](TypeOK /\ StageInv)` |
| `CertificatesStandOnPasses` | `Spec => []CertifiedAttemptsPassed` |
| `ExcessNeedsOverlap` | `Spec => []ExcessOnlyByOverlap` |
| `AnswersKept` | `Spec => []AnswersLostOnlyByTimer` |

*The argument.* `CertInv` follows each attempt: a certificate or a task needs a
pass, a pass completes the attempt, and a live attempt with a certificate is
marked as issued. So whoever adds a second task finds the attempt completed or a
task waiting, which is an overlap (`again`), and `Written` keeps the pass.
`NumberInv` says that a start which has counted found fewer attempts than
allowed, so live attempts are numbered within the limit; more of them than the
limit must, by the pigeonhole principle, share a number. `PageInv` says of a page
whose marks `fired` and `late` are not set that every submission under way for
its attempt, and the result it shows of it, is worth at least what was chosen;
a request nobody waits for is no page's (`NobodyAssumption`).

`BulkEmail_proofs` proves, for every finite set of attendees, any number of jobs,
any sizes of batches and passes, and any number of logs and upsets:

| Theorem | Statement |
|---|---|
| `TypeCorrect` | `Spec => [](TypeOK /\ StageInv)` |
| `CancelledRests` | `Spec => CancelledIsOver` |
| `RepeatsExplained` | `Spec => []RepeatedOnlyIfLostOrOpened` |
| `CompletionLogged` | `Spec => CompletedIsLogged` |

*The argument.* `KindsOfSteps` sorts the steps of a pass by what they do to the
batch and the logs. For `CancelledRests` it is enough that a pass writes only
the job in hand, and selects only unfinished ones. The other two rest on what
`delivery_log` may point at, since the code marks whatever it points at as
failed: never a log of a job still to come (`OrderInv`), nor one of an attendee
still to be mailed (`LastInv`). So whoever is in the batch has opened whatever
the job had sent (`BatchInv`), and `MailInv` counts: at most one mail of a job
to an attendee is neither lost nor opened. For the counts, two logs of one job to
one attendee are never both processed (`PairInv`), so the processed logs are as
many as their attendees; `CountInv` says that the counts, with what the batch
will add to them, do not exceed the attendees with a log, with those the batch
will give one. When they reach the number of recipients, nobody is left out.

`Billing_proofs` proves, for any number of orders and sessions, every set of
plans, every quota, price and number of days, and any number of special cases
and failures:

| Theorem | Statement |
|---|---|
| `TypeCorrect` | `Spec => []TypeOK` |
| `PaymentsCreditedOnce` | `Spec => []CreditedOncePerPayment` |
| `TwoActiveNeedOverlap` | `Spec => TwoActiveOnlyByOverlap` |

*The argument.* `OrderInv`: whatever is paid was ordered, an order has one session
at most that has locked its row, and that session credits an order which is not
paid or refunds one that is not refunded. So the status and the credits of an
order change together. `EarlyInv`: an order that was refunded too early is still
refunded, or was paid afterwards, so no second refund of it is early. `RowsInv`:
a session knows only of subscriptions that there are, which
the typing of `Deactivate` needs; that the quotas of a renewal are a natural
number is a sum, as above. For the action property, `SeenInv` says of the
subscriptions a transaction saw when it began that whichever of them is still
active is one it deactivates or the one of its plan it extends. At its commit a
second one can only be active if it was committed since, and then there are more
rows than the session has seen.

`CheckIn_proofs` proves of the page, for every set of pages, of typed and of scanned
entries, every capacity of the queue, and any number of openings and changes of
the connection:

| Theorem | Statement |
|---|---|
| `TypeCorrect` | `Spec => [](TypeOK /\ PageInv)` |
| `NeverLostAlone` | `Spec => []LostOnlyByOverlap` |
| `QueueIsTried` | `Spec => []OnlineQueueTried` |

*The argument.* `PageInv`: only an open page shows or runs anything, and what a
synchronisation has still to send and what has failed fit into one queue.
`HeldInv` is what `LostOnlyByOverlap` lacks: an entry that was queued with nothing
else under way is in `localStorage` and in every copy that may yet be written
back, be it the state of a page, the closure of its scanner, that of a check-in
whose answer is awaited, or the rest and the failures of a synchronisation.
A step writes one copy over the others, so the entry remains. `TriedInv` says
that what has failed was tried, and that a page that is online with nothing
under way has something in its queue that was tried or was queued in an overlap.
The two are proved together, step by step.

`LivePresentation_proofs` proves, for every set of workers, remotes and stages and
any number of clicks, polls, pointer messages and faults:

| Theorem | Statement |
|---|---|
| `TypeCorrect` | `Spec => []TypeOK` |
| `StageOrdered` | `Spec => []StageInOrder` |
| `LastSlideShown` | `Spec => []StageShowsLast` |

*The argument.* `FreshInv` follows a click: it is on its way to one worker, waits
as an update by HTTP, or is stored, and never two of these, so no slide is stored
twice and each has a rank. `StoreInv`: only stored slides are on their way, and the
worker that stored the last one has it in memory. The two properties are not
inductive, since a stage may well have nothing on its wire while the last slide is
still being published or queued for its worker. The strengthening says where it
can be. `CalmInv`: as long as some stage is not excused, only the last slide is
being published, by the worker that stored it, and nothing older is queued for that
worker. `PathInv`, for each stage that is not excused and the worker that serves
it: unless the worker has two subscriptions, the slides on the wire are in order and
none is newer than one queued for the worker, of which only one loop has anything
queued (`OnlyLoop`); and if the stage was greeted, the last of what is published elsewhere,
queued for any of its loops, on the wire or shown, in this order, is the last slide
(`EndsRight`).
`Publish`, `Deliver` and `OnMessage` each hand the slide on by one place;
`ReceiveSlide` puts a new one at the beginning of every path, and by that brings
back a stage that was excused. A late answer of a poll cannot undo this, for
`GreetInv`: what a stage was sent waits until its socket is open, and the opening
drops the answers under way.

The proof needs what TLC could not show to be necessary: that no worker has the
name that stands for "none" (`NoWorker`), which `LivePresentationAssumption` now
says.

*Induction* over data is out of the provers' reach as a rule, since the library's
induction theorems take an operator as a parameter. Two proofs replace it by a
smallest counterexample, which the well-foundedness theorems allow: the sums, and
the requests of a deadlock.

*Only model-checked:* the liveness properties (`RequestsEnd`,
`JobsFinishOrStuck`, `PaymentsProvisioned`, `PassedIsServed`, `CampaignsEnd`),
since fairness and `ENABLED` are out of the prover's reach. Every invariant and
every action property of a passing run, and the refinement, is the statement of a
theorem.

## Where code and documentation part

The `findings` of `PROJECT.json` record them with both quotations. One has a
run whose counterexample exhibits it: a check-in that was reported as queued
is lost (`offline_entry_lost`). The others are in the models as the code has
them, and the properties of the passing runs name them as exceptions or are
stated for what remains true.

In short: two certificates of an event can be given the same number; bulk
certification can overdraw the balance; a superadmin credit can overwrite a
debit; a name that is too long blocks the queue of bulk jobs; two payments at
once leave two active subscriptions; a paid month is credited twice; an option
is overbooked by an attendee who registers again; a team member's certification
is charged to one account and filed under another; the quiz task and the bulk
upload do not exempt Enterprise organisers; the worker mails a certificate
before it is committed; a job that has completed can become cancelled; the job
of a team member always fails; verification closes registration one place
early; places are lost by refused registrations and deleted attendees; self
check-in answers with an error; the timer of an exam hands in empty answers; a
second click on "start" uses up an attempt; a pass may stay without its
certificate; the first two check-ins of an event may each create its session; a
nonce can be used twice; a failed rendering is put down to another attendee; whoever opens a
mail of a campaign is mailed again by its next batch; the refund of an order that
was not paid takes back what nobody credited; a campaign with a cron expression
mails everybody only once; ten waiting
campaigns keep every newer one from being sent; a worker shows the
slide in its own memory; two first sockets of a worker subscribe it twice; one
error of Redis separates a worker from the others
until it is restarted.

## What is not modelled

- Authentication, permissions beyond "owner, team member or neither",
  cryptography, rendering, layout: data or computation without interleaving.
- PostgreSQL beyond READ COMMITTED row locks.
- The other pages of the front end, the command line client, migrations and
  analytics: no state, or single rows without protocol. Most of the front end's
  lines are texts in nine languages, layout and calls of the API.
- The components of the plan below.

## Plan

In this order, the parts in which most actors meet first:

1. `CertificateLifecycle`: hosting expiry, hourly auto-renewal by conditional
   UPDATE, revocation, soft deletion, bulk action (`main.py:2638-2685`).
   Property: what was revoked or deleted since the SELECT stays so. Composed
   with the balance of `HeptaCoin`.
2. `ExportJobs` and `ConversionQueue`: claims, recovery, a worker that stops
   while a job is marked as running (nothing picks an export up again), an
   exception after the commit that makes a completed job failed; one abstract
   work queue that both implement.
3. `Webhooks` (`webhooks.py:119-203`): at least once, at most three attempts,
   lost with the process.
4. Speaker notes of the remote (`app/admin/events/[id]/presentations`), whose
   delayed saving loses text when the slide changes; audience polls; automations
   and sequences; OAuth codes.

`Registration` is to gain approval, import and manual addition, and an abstract
counter of places with "no place is lost", which the code does not implement.

Proof to come: "no place is lost", once `Registration` has its abstract counter.
