---------------------------- MODULE QuizAttempts ----------------------------
(***************************************************************************)
(* The exam of one event: the pages on which members sit it                 *)
(* (frontend/src/app/events/[id]/quiz/page.tsx), the handlers that start and *)
(* score attempts, and the background task that issues the certificate      *)
(* (backend/src/quiz_api.py).                                               *)
(*                                                                          *)
(* A handler is a session of two steps, what it reads and what it commits,  *)
(* because it takes no lock.  The task locks the organiser's row, so it is  *)
(* one step.  The answers of a page are abstracted to what they are worth:  *)
(* 0 for none, PassingScore or more for a pass.                             *)
(*                                                                          *)
(* Left out: anonymous attendees (counted by the e-mail they type) and the  *)
(* rows of quiz_answers.                                                    *)
(***************************************************************************)
EXTENDS Integers, FiniteSetsExt, Functions

CONSTANTS
  Tabs,            \* the browser pages on which the exam is open
  Members,         \* the members who sit it
  Owner,           \* Owner[t]: the member logged in on page t
  Scores,          \* what the answers of a page can be worth, 0 for none
  PassingScore,    \* quiz.passing_score
  MaxAttempts,     \* quiz.max_attempts
  RequiredForCert, \* quiz.required_for_cert
  TimeLimit,       \* quiz.time_limit_minutes is set
  Opening,         \* the organiser's balance, in certificates
  MaxRows,         \* bound: rows of quiz_attempts ever inserted
  MaxRequests,     \* bound: requests of pages under way at once
  MaxUpsets        \* bound: restarts, acts of the organiser, pages loaded anew and
                   \*        requests given up on

ASSUME QuizAssumption ==
  /\ Owner \in [Tabs -> Members]
  /\ Scores \subseteq Nat /\ 0 \in Scores
  /\ PassingScore \in Nat \ {0} /\ MaxAttempts \in Nat \ {0}
  /\ RequiredForCert \in BOOLEAN /\ TimeLimit \in BOOLEAN
  /\ Opening \in Nat /\ MaxRows \in Nat /\ MaxRequests \in Nat
  /\ MaxUpsets \in Nat

VARIABLES
  attempt,   \* attempt[a]: the committed row of attempt a
  request,   \* request[r]: the requests of pages under way
  page,      \* page[t]: the state of the React component
  task,      \* task[a]: background tasks scheduled for attempt a
  balance,   \* users.heptacoin_balance of the organiser, in certificates
  certs,     \* certs[a]: certificates committed for attempt a
  dropped,   \* history: attempts one of whose tasks ended without a certificate
  again,     \* history: attempts completed or scheduled twice by overlapping calls
  upsets     \* upsets (see MaxUpsets) so far

vars == <<attempt, request, page, task, balance, certs, dropped, again, upsets>>

Attempts == 1 .. MaxRows
Requests == 1 .. MaxRequests
NoAttempt == 0
Nobody == "nobody"      \* the page no longer waits for the answer

ASSUME NobodyAssumption == Nobody \notin Tabs

Absent  == [state |-> "absent"]
Deleted == [state |-> "deleted"]
Row == [state : {"live"}, member : Members, number : Nat, score : Scores,
        passed : BOOLEAN, completed : BOOLEAN, issued : BOOLEAN]

Free == [pc |-> "free"]
Start == [pc : {"start", "counted", "started"}, tab : Tabs \cup {Nobody},
          member : Members, count : Nat, id : Attempts \cup {NoAttempt}]
Submission == [pc : {"submit", "scored", "result"}, tab : Tabs \cup {Nobody},
               id : Attempts, score : Scores]
Failed == [pc : {"error"}, tab : Tabs, of : {"start", "submit"}]

\* timer: the attempt handleSubmit closed over when the timer was started.
\* fired, late, shown: whether the timer has submitted this attempt, whether a
\* choice was made while a submission of it was under way, and which attempt the
\* result is of (history).
Page == [phase : {"loading", "intro", "taking", "result", "blocked", "error"},
         id : Attempts \cup {NoAttempt}, answer : Scores, submitting : BOOLEAN,
         count : Nat, result : Scores, timer : Attempts \cup {NoAttempt},
         fired : BOOLEAN, late : BOOLEAN, shown : Attempts \cup {NoAttempt}]

TypeOK ==
  /\ attempt \in [Attempts -> Row \cup {Absent, Deleted}]
  /\ request \in [Requests -> Start \cup Submission \cup Failed \cup {Free}]
  /\ page \in [Tabs -> Page]
  /\ task \in [Attempts -> Nat]
  /\ balance \in Nat
  /\ certs \in [Attempts -> Nat]
  /\ dropped \in SUBSET Attempts /\ again \in SUBSET Attempts
  /\ upsets \in 0 .. MaxUpsets

Opened == [phase |-> "loading", id |-> NoAttempt, answer |-> 0, submitting |-> FALSE,
           count |-> 0, result |-> 0, timer |-> NoAttempt, fired |-> FALSE, late |-> FALSE,
           shown |-> NoAttempt]

Init ==
  /\ attempt = [a \in Attempts |-> Absent]
  /\ request = [r \in Requests |-> Free]
  /\ page = [t \in Tabs |-> Opened]
  /\ task = [a \in Attempts |-> 0]
  /\ balance = Opening
  /\ certs = [a \in Attempts |-> 0]
  /\ dropped = {} /\ again = {}
  /\ upsets = 0

Live(a) == attempt[a].state = "live"

\* The rows of the exam that belong to member m.
RowsOf(m) == {a \in Attempts : Live(a) /\ attempt[a].member = m}

server == <<attempt, task, balance, certs, dropped, again, upsets>>

-----------------------------------------------------------------------------
(* The page.                                                                *)

\* load: the attempts so far and whether the last of them passed.
Load(t) ==
  LET mine == RowsOf(Owner[t])
      passedLast == mine # {} /\ attempt[Max(mine)].passed
  IN
  /\ page[t].phase = "loading"
  /\ page' = [page EXCEPT
       ![t].count = Cardinality(mine),
       ![t].phase = IF Cardinality(mine) >= MaxAttempts /\ ~passedLast THEN "blocked" ELSE "intro"]
  /\ UNCHANGED <<request, server>>

\* The member loads the page anew; what was under way goes on at the server.
Reload(t) ==
  /\ page[t].phase # "loading" /\ upsets < MaxUpsets
  /\ upsets' = upsets + 1
  /\ page' = [page EXCEPT ![t] = Opened]
  /\ request' = [r \in Requests |->
       IF request[r] = Free \/ request[r].tab # t THEN request[r]
       ELSE IF request[r].pc \in {"started", "result", "error"} THEN Free
       ELSE [request[r] EXCEPT !.tab = Nobody]]
  /\ UNCHANGED <<attempt, task, balance, certs, dropped, again>>

Send(r, message) ==
  /\ request[r] = Free /\ \A q \in 1 .. r - 1 : request[q] # Free
  /\ request' = [request EXCEPT ![r] = message]

\* handleStart: nothing disables the button while a start is under way.
ClickStart(t, r) ==
  /\ page[t].phase = "intro"
  /\ Send(r, [pc |-> "start", tab |-> t, member |-> Owner[t], count |-> 0, id |-> NoAttempt])
  /\ UNCHANGED <<page, server>>

\* setAttemptId, setAnswers and setPhase are rendered at once.  The timer's
\* effect runs when the phase becomes "taking", not when only the attempt changes.
Started(t, r) ==
  /\ request[r].pc = "started" /\ request[r].tab = t
  /\ LET id == request[r].id
         timer == IF page[t].phase = "taking" THEN page[t].timer
                  ELSE IF TimeLimit THEN id ELSE NoAttempt
     IN page' = [page EXCEPT ![t].phase = "taking", ![t].id = id, ![t].answer = 0,
                             ![t].timer = timer, ![t].fired = FALSE, ![t].late = FALSE]
  /\ request' = [request EXCEPT ![r] = Free]
  /\ UNCHANGED server

\* A submission of the attempt on the page has not been answered yet.
UnderWay(t) ==
  \E r \in Requests :
    request[r].pc \in {"submit", "scored", "result"} /\ request[r].tab = t /\ request[r].id = page[t].id

Choose(t) ==
  /\ page[t].phase = "taking"
  /\ \E s \in Scores \ {page[t].answer} :
       page' = [page EXCEPT ![t].answer = s, ![t].late = @ \/ UnderWay(t)]
  /\ UNCHANGED <<request, server>>

Submitting(t, r, id, score) ==
  Send(r, [pc |-> "submit", tab |-> t, id |-> id, score |-> score])

\* Mutant: the button submits the answers of an earlier render.
ClickSubmitStale(t, r) ==
  /\ page[t].phase = "taking" /\ ~page[t].submitting
  /\ \E s \in Scores : Submitting(t, r, page[t].id, s)
  /\ page' = [page EXCEPT ![t].submitting = TRUE]
  /\ UNCHANGED server

\* handleSubmit from the button.
ClickSubmit(t, r) ==
  /\ page[t].phase = "taking" /\ ~page[t].submitting
  /\ Submitting(t, r, page[t].id, page[t].answer)
  /\ page' = [page EXCEPT ![t].submitting = TRUE]
  /\ UNCHANGED server

\* The interval calls the handleSubmit of the render that started it, whose
\* answers are empty and whose submitting is false.
TimeOut(t, r) ==
  /\ page[t].timer # NoAttempt
  /\ Submitting(t, r, page[t].timer, 0)
  /\ page' = [page EXCEPT ![t].submitting = TRUE, ![t].timer = NoAttempt, ![t].fired = TRUE]
  /\ UNCHANGED server

\* The score of a submission arrives: the phase changes, which stops the timer.
Result(t, r) ==
  /\ request[r].pc = "result" /\ request[r].tab = t
  /\ page' = [page EXCEPT ![t].phase = "result", ![t].result = request[r].score,
                          ![t].count = @ + 1, ![t].submitting = FALSE, ![t].timer = NoAttempt,
                          ![t].shown = request[r].id]
  /\ request' = [request EXCEPT ![r] = Free]
  /\ UNCHANGED server

\* The request was refused, or failed on the way: an alert, and the page stays.
Alert(t, r) ==
  /\ request[r].pc = "error" /\ request[r].tab = t
  /\ page' = [page EXCEPT ![t].submitting = @ /\ request[r].of = "start"]
  /\ request' = [request EXCEPT ![r] = Free]
  /\ UNCHANGED server

\* "Try again" on the page of a failed result.
TryAgain(t) ==
  /\ page[t].phase = "result" /\ page[t].result < PassingScore
  /\ MaxAttempts - page[t].count > 0
  /\ page' = [page EXCEPT ![t].phase = "intro", ![t].result = 0,
                          ![t].shown = NoAttempt]
  /\ UNCHANGED <<request, server>>

\* The network fails, or thirty seconds pass: the page gives up on the request,
\* which may still reach the server.
Disconnect(t, r) ==
  /\ request[r].pc \in {"start", "submit"} /\ request[r].tab = t
  /\ upsets < MaxUpsets
  /\ upsets' = upsets + 1
  /\ \E lost \in BOOLEAN :
       \/ /\ lost
          /\ request' = [request EXCEPT ![r] =
               [pc |-> "error", tab |-> t, of |-> request[r].pc]]
          /\ UNCHANGED page
       \/ /\ ~lost
          /\ request' = [request EXCEPT ![r].tab = Nobody]
          /\ page' = [page EXCEPT ![t].submitting = @ /\ request[r].pc = "start"]
  /\ UNCHANGED <<attempt, task, balance, certs, dropped, again>>

-----------------------------------------------------------------------------
(* The handlers.                                                            *)

Refused(r, kind) ==
  request' = [request EXCEPT ![r] =
    IF request[r].tab = Nobody THEN Free
    ELSE [pc |-> "error", tab |-> request[r].tab, of |-> kind]]

\* Mutant: one attempt more than the exam allows.
CountStartsLoosely(r) ==
  LET count == Cardinality(RowsOf(request[r].member)) IN
  /\ request[r].pc = "start"
  /\ IF count > MaxAttempts THEN Refused(r, "start")
     ELSE request' = [request EXCEPT ![r].pc = "counted", ![r].count = count]
  /\ UNCHANGED <<page, server>>

\* start_quiz_attempt counts the attempts so far ...
CountStarts(r) ==
  LET count == Cardinality(RowsOf(request[r].member)) IN
  /\ request[r].pc = "start"
  /\ IF count >= MaxAttempts THEN Refused(r, "start")
     ELSE request' = [request EXCEPT ![r].pc = "counted", ![r].count = count]
  /\ UNCHANGED <<page, server>>

\* ... and inserts the next one.
CommitStart(r) ==
  /\ request[r].pc = "counted"
  /\ \E a \in Attempts :
       /\ attempt[a] = Absent /\ \A b \in 1 .. a - 1 : attempt[b] # Absent
       /\ attempt' = [attempt EXCEPT ![a] =
            [state |-> "live", member |-> request[r].member, number |-> request[r].count + 1,
             score |-> 0, passed |-> FALSE, completed |-> FALSE, issued |-> FALSE]]
       /\ request' = [request EXCEPT ![r] =
            IF @.tab = Nobody THEN Free ELSE [@ EXCEPT !.pc = "started", !.id = a]]
  /\ UNCHANGED <<page, task, balance, certs, dropped, again, upsets>>

\* submit_quiz_attempt reads the attempt and scores the answers ...
ScoreSubmission(r) ==
  /\ request[r].pc = "submit"
  /\ IF ~Live(request[r].id) \/ attempt[request[r].id].completed THEN Refused(r, "submit")
     ELSE request' = [request EXCEPT ![r].pc = "scored"]
  /\ UNCHANGED <<page, server>>

\* Mutant: all the columns of the attempt are written.
WrittenInFull(row, score) ==
  [row EXCEPT !.completed = TRUE, !.score = score, !.passed = score >= PassingScore]

\* The session writes the columns it has changed: the score if it is not the
\* zero it loaded, and passed only if it became true.
Written(row, score) ==
  [row EXCEPT !.completed = TRUE,
              !.score = IF score = 0 THEN @ ELSE score,
              !.passed = @ \/ score >= PassingScore]

\* Mutant: no certificate is scheduled once the page has gone away.
CommitForPage(r) ==
  LET a == request[r].id
      score == request[r].score
      waits == request[r].tab # Nobody
  IN
  /\ request[r].pc = "scored" /\ Live(a)
  /\ attempt' = [attempt EXCEPT ![a] = Written(@, score)]
  /\ task' = [task EXCEPT ![a] = IF score >= PassingScore /\ RequiredForCert /\ waits THEN @ + 1 ELSE @]
  /\ again' = IF attempt[a].completed THEN again \cup {a} ELSE again
  /\ request' = [request EXCEPT ![r] = IF waits THEN [@ EXCEPT !.pc = "result"] ELSE Free]
  /\ UNCHANGED <<page, balance, certs, dropped, upsets>>

\* ... and commits what it changed; a pass schedules the certificate.
CommitSubmission(r) ==
  LET a == request[r].id
      score == request[r].score
  IN
  /\ request[r].pc = "scored" /\ Live(a)
  /\ attempt' = [attempt EXCEPT ![a] = Written(@, score)]
  /\ task' = [task EXCEPT ![a] = IF score >= PassingScore /\ RequiredForCert THEN @ + 1 ELSE @]
  /\ again' = IF attempt[a].completed THEN again \cup {a} ELSE again
  /\ request' = [request EXCEPT ![r] =
       IF @.tab = Nobody THEN Free ELSE [@ EXCEPT !.pc = "result"]]
  /\ UNCHANGED <<page, balance, certs, dropped, upsets>>

\* The row is gone since it was read: the UPDATE finds none and the commit raises.
CommitFails(r) ==
  /\ request[r].pc = "scored" /\ ~Live(request[r].id)
  /\ Refused(r, "submit")
  /\ UNCHANGED <<page, server>>

-----------------------------------------------------------------------------
(* Certificates.                                                            *)

\* Mutant: the balance is not looked at.
IssueUnchecked(a) ==
  /\ task[a] > 0
  /\ task' = [task EXCEPT ![a] = @ - 1]
  /\ balance' = balance - 1
  /\ certs' = [certs EXCEPT ![a] = @ + 1]
  /\ attempt' = IF Live(a) THEN [attempt EXCEPT ![a].issued = TRUE] ELSE attempt
  /\ UNCHANGED <<request, page, dropped, again, upsets>>

\* _issue_cert_background: nothing looks at cert_issued, and the attempt need
\* not exist any more.
IssueCertBackground(a) ==
  /\ task[a] > 0 /\ balance > 0
  /\ task' = [task EXCEPT ![a] = @ - 1]
  /\ balance' = balance - 1
  /\ certs' = [certs EXCEPT ![a] = @ + 1]
  /\ attempt' = IF Live(a) THEN [attempt EXCEPT ![a].issued = TRUE] ELSE attempt
  /\ UNCHANGED <<request, page, dropped, again, upsets>>

\* It returns, or raises, without a certificate: the balance does not suffice, the
\* template is missing, rendering fails.
IssueGivesUp(a) ==
  /\ task[a] > 0
  /\ task' = [task EXCEPT ![a] = @ - 1]
  /\ dropped' = dropped \cup {a}
  /\ UNCHANGED <<attempt, request, page, balance, certs, again, upsets>>

\* manually_issue_cert_for_attempt.
ManualIssue(a) ==
  /\ upsets < MaxUpsets
  /\ Live(a) /\ attempt[a].passed /\ ~attempt[a].issued
  /\ task' = [task EXCEPT ![a] = @ + 1]
  /\ again' = IF task[a] > 0 THEN again \cup {a} ELSE again
  /\ upsets' = upsets + 1
  /\ UNCHANGED <<attempt, request, page, balance, certs, dropped>>

\* create_or_replace_quiz and delete_quiz: the attempts go with the exam.
ReplaceQuiz ==
  /\ upsets < MaxUpsets
  /\ \E a \in Attempts : Live(a)
  /\ attempt' = [a \in Attempts |-> IF Live(a) THEN Deleted ELSE attempt[a]]
  /\ upsets' = upsets + 1
  /\ UNCHANGED <<request, page, task, balance, certs, dropped, again>>

\* A restart loses the sessions and the background tasks.
Crash ==
  /\ upsets < MaxUpsets
  /\ upsets' = upsets + 1
  /\ task' = [a \in Attempts |-> 0]
  /\ dropped' = dropped \cup {a \in Attempts : task[a] > 0}
  /\ request' = [r \in Requests |->
       IF request[r].pc \notin {"start", "submit", "counted", "scored"} THEN request[r]
       ELSE IF request[r].tab = Nobody THEN Free
       ELSE [pc |-> "error", tab |-> request[r].tab,
             of |-> IF request[r].pc \in {"start", "counted"} THEN "start" ELSE "submit"]]
  /\ UNCHANGED <<attempt, page, balance, certs, again>>

-----------------------------------------------------------------------------

Browser(t) ==
  \/ Load(t) \/ Reload(t) \/ Choose(t) \/ TryAgain(t)
  \/ \E r \in Requests :
       \/ ClickStart(t, r) \/ Started(t, r) \/ ClickSubmit(t, r) \/ TimeOut(t, r)
       \/ Result(t, r) \/ Alert(t, r) \/ Disconnect(t, r)

Handler(r) ==
  \/ CountStarts(r) \/ CommitStart(r)
  \/ ScoreSubmission(r) \/ CommitSubmission(r) \/ CommitFails(r)

Background(a) == IssueCertBackground(a) \/ IssueGivesUp(a)

Next ==
  \/ \E t \in Tabs : Browser(t)
  \/ \E r \in Requests : Handler(r)
  \/ \E a \in Attempts : Background(a) \/ ManualIssue(a)
  \/ ReplaceQuiz \/ Crash

Spec == Init /\ [][Next]_vars

\* A background task is run by the event loop, after the answer has been sent.
FairSpec == Spec /\ \A a \in Attempts : WF_vars(Background(a))

-----------------------------------------------------------------------------
(* Properties.                                                              *)

\* Whoever has a certificate passed, and the exam still says so: a second
\* submission of the attempt, by the timer or from an overlapping request, never
\* takes the verdict back once a certificate stands on it.
CertifiedAttemptsPassed ==
  \A a \in Attempts : Live(a) /\ (certs[a] > 0 \/ task[a] > 0) => attempt[a].passed

\* What no lock prevents needs an overlap: a member has more attempts than allowed
\* only if two of them were counted at the same time, and an attempt has a second
\* certificate only if two submissions, or a request by hand and a task still
\* waiting, overlapped.
ExcessOnlyByOverlap ==
  /\ \A m \in Members :
       Cardinality(RowsOf(m)) > MaxAttempts =>
         \E a, b \in RowsOf(m) : a # b /\ attempt[a].number = attempt[b].number
  /\ \A a \in Attempts : certs[a] > 1 => a \in again

\* A page shows a result worse than what its member had chosen only when the timer
\* submitted in the member's place, the choice came after the submission, or the
\* answer to a submission of an earlier attempt arrived on the page of this one.
AnswersLostOnlyByTimer ==
  \A t \in Tabs :
    page[t].phase = "result" /\ page[t].result < page[t].answer =>
      page[t].fired \/ page[t].late \/ page[t].shown # page[t].id

\* "If you pass, your certificate will be automatically generated"
\* (quiz/page.tsx:106): every pass leads to a certificate, or to a task that ended
\* without one, which nothing repeats.
PassedIsServed ==
  \A a \in Attempts :
    (Live(a) /\ attempt[a].passed /\ RequiredForCert) ~> (certs[a] > 0 \/ a \in dropped)
=============================================================================
