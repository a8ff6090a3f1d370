------------------------ MODULE QuizAttempts_proofs ------------------------
(***************************************************************************)
(* Proofs about QuizAttempts, for every value of its constants.             *)
(***************************************************************************)
EXTENDS QuizAttempts, FiniteSetTheorems, TLAPS

\* A page on which the exam is taken, and the answer to a start, have an attempt.
StageInv ==
  /\ \A t \in Tabs : page[t].phase = "taking" => page[t].id \in Attempts
  /\ \A r \in Requests : request[r].pc = "started" => request[r].id \in Attempts

Messages == Start \cup Submission \cup Failed \cup {Free}

-----------------------------------------------------------------------------
(* What a step of a page or a request leaves alone.                         *)

\* The control state of a request tells its type.
LEMMA RequestType ==
  ASSUME TypeOK, NEW r \in Requests
  PROVE  /\ request[r].pc \in {"start", "counted", "started"} => request[r] \in Start
         /\ request[r].pc \in {"submit", "scored", "result"} => request[r] \in Submission
         /\ request[r].pc = "error" => request[r] \in Failed
BY DEF TypeOK, Start, Submission, Failed, Free

LEMMA PageSet ==
  ASSUME TypeOK, NEW t \in Tabs, NEW p \in Page, page' = [page EXCEPT ![t] = p],
         \A u \in Tabs : page[u].phase = "taking" => page[u].id \in Attempts,
         p.phase = "taking" => p.id \in Attempts
  PROVE  /\ page' \in [Tabs -> Page]
         /\ \A u \in Tabs : page'[u].phase = "taking" => page'[u].id \in Attempts
BY DEF TypeOK

LEMMA RequestSet ==
  ASSUME TypeOK, NEW r \in Requests, NEW m \in Messages, request' = [request EXCEPT ![r] = m],
         \A q \in Requests : request[q].pc = "started" => request[q].id \in Attempts,
         m.pc = "started" => m.id \in Attempts
  PROVE  /\ request' \in [Requests -> Messages]
         /\ \A q \in Requests : request'[q].pc = "started" => request'[q].id \in Attempts
BY DEF TypeOK, Messages

\* How many rows a member has is a number.
LEMMA RowsAreFinite ==
  ASSUME QuizAssumption, NEW m
  PROVE  IsFiniteSet(RowsOf(m)) /\ Cardinality(RowsOf(m)) \in Nat
<1>1. IsFiniteSet(1 .. MaxRows)
  BY FS_Interval DEF QuizAssumption
<1>2. RowsOf(m) \in SUBSET (1 .. MaxRows)
  BY DEF RowsOf, Attempts
<1>3. IsFiniteSet(RowsOf(m))
  BY <1>1, <1>2, FS_Subset
<1> QED
  BY <1>3, FS_CardinalityType

-----------------------------------------------------------------------------
(* Types.                                                                   *)

\* The pages' own steps.
LEMMA PageTyped ==
  ASSUME QuizAssumption, TypeOK, StageInv, NEW t \in Tabs,
         Load(t) \/ Choose(t) \/ TryAgain(t) \/ Reload(t)
  PROVE  TypeOK' /\ StageInv'
<1>1. page[t] \in Page
  BY DEF TypeOK
<1>2. CASE Load(t)
  <2> DEFINE n == Cardinality(RowsOf(Owner[t]))
             h == IF n >= MaxAttempts /\ ~(RowsOf(Owner[t]) # {} /\ attempt[Max(RowsOf(Owner[t]))].passed)
                  THEN "blocked" ELSE "intro"
             p == [page[t] EXCEPT !.count = n, !.phase = h]
  <2>1. n \in Nat
    BY RowsAreFinite
  <2>2. page' = [page EXCEPT ![t] = p] /\ UNCHANGED <<request, server>>
    BY <1>1, <1>2 DEF Load, TypeOK
  <2> HIDE DEF n
  <2>3. h \in {"blocked", "intro"}
    OBVIOUS
  <2> HIDE DEF h
  <2>4. p \in Page /\ p.phase # "taking"
    BY <1>1, <2>1, <2>3 DEF Page
  <2> HIDE DEF p
  <2> QED
    BY <2>2, <2>4, PageSet DEF TypeOK, StageInv, server
<1>3. CASE Choose(t)
  <2>1. PICK x \in Scores : page' = [page EXCEPT ![t].answer = x, ![t].late = @ \/ UnderWay(t)]
    BY <1>3 DEF Choose
  <2> DEFINE b == page[t].late \/ UnderWay(t)
             p == [page[t] EXCEPT !.answer = x, !.late = b]
  <2>2. b \in BOOLEAN
    BY <1>1 DEF Page
  <2>3. page' = [page EXCEPT ![t] = p] /\ UNCHANGED <<request, server>>
    BY <1>1, <1>3, <2>1 DEF Choose, TypeOK
  <2> HIDE DEF b
  <2>4. p \in Page /\ p.phase = page[t].phase /\ p.id = page[t].id
    BY <1>1, <2>2 DEF Page
  <2> HIDE DEF p
  <2> QED
    BY <2>3, <2>4, PageSet DEF TypeOK, StageInv, server
<1>4. CASE TryAgain(t)
  <2> DEFINE p == [page[t] EXCEPT !.phase = "intro", !.result = 0, !.shown = NoAttempt]
  <2>1. page' = [page EXCEPT ![t] = p] /\ UNCHANGED <<request, server>>
    BY <1>1, <1>4 DEF TryAgain, TypeOK
  <2>2. p \in Page /\ p.phase # "taking"
    BY <1>1 DEF Page, QuizAssumption
  <2> HIDE DEF p
  <2> QED
    BY <2>1, <2>2, PageSet DEF TypeOK, StageInv, server
<1>5. CASE Reload(t)
  <2>1. Opened \in Page /\ Opened.phase # "taking"
    BY DEF Opened, Page, QuizAssumption
  <2>2. ASSUME NEW r \in Requests
        PROVE  request'[r] \in Messages /\ (request'[r].pc = "started" => request[r] = request'[r])
    <3>1. request'[r] = IF request[r] = Free \/ request[r].tab # t THEN request[r]
                        ELSE IF request[r].pc \in {"started", "result", "error"} THEN Free
                        ELSE [request[r] EXCEPT !.tab = Nobody]
      BY <1>5 DEF Reload
    <3>2. request[r] \in Messages /\ Free \in Messages
      BY DEF TypeOK, Messages
    <3>3. CASE request[r] \in Start \cup Submission /\ request[r].pc # "started"
      <4>1. [request[r] EXCEPT !.tab = Nobody] \in Start \cup Submission
        BY <3>3 DEF Start, Submission
      <4>2. [request[r] EXCEPT !.tab = Nobody].pc = request[r].pc
        BY <3>3 DEF Start, Submission
      <4> QED
        BY <3>1, <3>2, <3>3, <4>1, <4>2 DEF Messages, Free
    <3>4. CASE request[r] \in Failed \cup {Free} \/ request[r].pc = "started"
      BY <3>1, <3>2, <3>4 DEF Failed, Free
    <3> QED
      BY <3>2, <3>3, <3>4 DEF Messages
  <2>3. request' \in [Requests -> Messages]
    BY <1>5, <2>2 DEF Reload
  <2>4. /\ page' = [page EXCEPT ![t] = Opened]
        /\ UNCHANGED <<attempt, task, balance, certs, dropped, again>>
        /\ upsets < MaxUpsets /\ upsets' = upsets + 1
    BY <1>5 DEF Reload
  <2>5. upsets' \in 0 .. MaxUpsets
    BY <2>4 DEF TypeOK, QuizAssumption
  <2> QED
    BY <2>1, <2>2, <2>3, <2>4, <2>5, PageSet DEF TypeOK, StageInv, Messages
<1> QED
  BY <1>2, <1>3, <1>4, <1>5

\* The steps by which a page sends a request.
LEMMA SendTyped ==
  ASSUME QuizAssumption, TypeOK, StageInv, NEW t \in Tabs, NEW r \in Requests,
         ClickStart(t, r) \/ ClickSubmit(t, r) \/ TimeOut(t, r)
  PROVE  TypeOK' /\ StageInv'
<1>1. page[t] \in Page
  BY DEF TypeOK
<1>2. CASE ClickStart(t, r)
  <2> DEFINE m == [pc |-> "start", tab |-> t, member |-> Owner[t], count |-> 0, id |-> NoAttempt]
  <2>1. m \in Messages /\ m.pc # "started"
    BY DEF Messages, Start, QuizAssumption
  <2>2. request' = [request EXCEPT ![r] = m] /\ UNCHANGED <<page, server>>
    BY <1>2 DEF ClickStart, Send
  <2> HIDE DEF m
  <2> QED
    BY <2>1, <2>2, RequestSet DEF TypeOK, StageInv, server, Messages
<1>3. ASSUME NEW id \in Attempts, NEW score \in Scores, Submitting(t, r, id, score),
             NEW p \in Page, page' = [page EXCEPT ![t] = p], UNCHANGED server,
             p.phase = page[t].phase, p.id = page[t].id
      PROVE  TypeOK' /\ StageInv'
  <2> DEFINE m == [pc |-> "submit", tab |-> t, id |-> id, score |-> score]
  <2>1. m \in Messages /\ m.pc # "started"
    BY DEF Messages, Submission
  <2>2. request' = [request EXCEPT ![r] = m]
    BY <1>3 DEF Submitting, Send
  <2> HIDE DEF m
  <2> QED
    BY <1>3, <2>1, <2>2, RequestSet, PageSet DEF TypeOK, StageInv, server, Messages
<1>4. CASE ClickSubmit(t, r)
  <2> DEFINE p == [page[t] EXCEPT !.submitting = TRUE]
  <2>1. p \in Page /\ p.phase = page[t].phase /\ p.id = page[t].id
    BY <1>1 DEF Page
  <2>2. page' = [page EXCEPT ![t] = p] /\ page[t].id \in Attempts /\ page[t].answer \in Scores
    BY <1>1, <1>4 DEF ClickSubmit, StageInv, Page, TypeOK
  <2> HIDE DEF p
  <2> QED
    BY <1>3, <1>4, <2>1, <2>2 DEF ClickSubmit
<1>5. CASE TimeOut(t, r)
  <2> DEFINE p == [page[t] EXCEPT !.submitting = TRUE, !.timer = NoAttempt, !.fired = TRUE]
  <2>1. p \in Page /\ p.phase = page[t].phase /\ p.id = page[t].id
    BY <1>1 DEF Page
  <2>2. page' = [page EXCEPT ![t] = p] /\ page[t].timer \in Attempts /\ 0 \in Scores
    BY <1>1, <1>5 DEF TimeOut, Page, TypeOK, QuizAssumption
  <2> HIDE DEF p
  <2> QED
    BY <1>3, <1>5, <2>1, <2>2 DEF TimeOut
<1> QED
  BY <1>2, <1>4, <1>5

\* The steps by which an answer arrives at a page, or is given up on.
LEMMA AnswerTyped ==
  ASSUME QuizAssumption, TypeOK, StageInv, NEW t \in Tabs, NEW r \in Requests,
         Started(t, r) \/ Result(t, r) \/ Alert(t, r) \/ Disconnect(t, r)
  PROVE  TypeOK' /\ StageInv'
<1>1. page[t] \in Page
  BY DEF TypeOK
<1>2. Free \in Messages /\ Free.pc # "started"
  BY DEF Messages, Free
<1>3. ASSUME NEW p \in Page, page' = [page EXCEPT ![t] = p],
             p.phase = "taking" => p.id \in Attempts,
             NEW m \in Messages, request' = [request EXCEPT ![r] = m], m.pc # "started",
             UNCHANGED <<attempt, task, balance, certs, dropped, again>>,
             upsets' \in 0 .. MaxUpsets
      PROVE  TypeOK' /\ StageInv'
  BY <1>3, RequestSet, PageSet DEF TypeOK, StageInv, Messages
<1>4. CASE Started(t, r)
  <2> DEFINE a == request[r].id
             timer == IF page[t].phase = "taking" THEN page[t].timer
                      ELSE IF TimeLimit THEN a ELSE NoAttempt
             p == [page[t] EXCEPT !.phase = "taking", !.id = a, !.answer = 0,
                                  !.timer = timer, !.fired = FALSE, !.late = FALSE]
  <2>1. a \in Attempts /\ timer \in Attempts \cup {NoAttempt} /\ 0 \in Scores
    BY <1>1, <1>4 DEF Started, StageInv, Page, QuizAssumption
  <2>2. /\ page' = [page EXCEPT ![t] = p] /\ request' = [request EXCEPT ![r] = Free]
        /\ UNCHANGED server
    BY <1>1, <1>4 DEF Started, TypeOK
  <2> HIDE DEF a, timer
  <2>3. p \in Page /\ p.id \in Attempts
    BY <1>1, <2>1 DEF Page
  <2> HIDE DEF p
  <2> QED
    BY <1>2, <1>3, <2>2, <2>3 DEF server, TypeOK
<1>5. CASE Result(t, r)
  <2> DEFINE n == page[t].count + 1
             p == [page[t] EXCEPT !.phase = "result", !.result = request[r].score,
                                  !.count = n, !.submitting = FALSE, !.timer = NoAttempt,
                                  !.shown = request[r].id]
  <2>1. request[r].score \in Scores /\ request[r].id \in Attempts
    BY <1>5, RequestType DEF Result, Submission
  <2>2. /\ page' = [page EXCEPT ![t] = p] /\ request' = [request EXCEPT ![r] = Free]
        /\ UNCHANGED server
    BY <1>1, <1>5 DEF Result, TypeOK
  <2>3. n \in Nat
    BY <1>1 DEF Page
  <2> HIDE DEF n
  <2>4. p \in Page /\ p.phase # "taking"
    BY <1>1, <2>1, <2>3 DEF Page
  <2> HIDE DEF p
  <2> QED
    BY <1>2, <1>3, <2>2, <2>4 DEF server, TypeOK
<1>6. ASSUME NEW b \in BOOLEAN
      PROVE  LET p == [page[t] EXCEPT !.submitting = b] IN
             p \in Page /\ p.phase = page[t].phase /\ p.id = page[t].id
  BY <1>1 DEF Page
<1>7. CASE Alert(t, r)
  <2> DEFINE b == page[t].submitting /\ request[r].of = "start"
             p == [page[t] EXCEPT !.submitting = b]
  <2>1. b \in BOOLEAN
    BY <1>1 DEF Page
  <2>2. /\ page' = [page EXCEPT ![t] = p] /\ request' = [request EXCEPT ![r] = Free]
        /\ UNCHANGED server
    BY <1>1, <1>7 DEF Alert, TypeOK
  <2> HIDE DEF b
  <2>3. p \in Page /\ p.phase = page[t].phase /\ p.id = page[t].id
    BY <1>6, <2>1
  <2> HIDE DEF p
  <2> QED
    BY <1>2, <1>3, <2>2, <2>3 DEF server, TypeOK, StageInv
<1>8. CASE Disconnect(t, r)
  <2>1. /\ UNCHANGED <<attempt, task, balance, certs, dropped, again>>
        /\ request[r].pc \in {"start", "submit"} /\ upsets < MaxUpsets /\ upsets' = upsets + 1
    BY <1>8 DEF Disconnect
  <2>2. upsets' \in 0 .. MaxUpsets
    BY <2>1 DEF TypeOK, QuizAssumption
  <2>3. CASE /\ request' = [request EXCEPT ![r] = [pc |-> "error", tab |-> t, of |-> request[r].pc]]
             /\ UNCHANGED page
    <3> DEFINE m == [pc |-> "error", tab |-> t, of |-> request[r].pc]
    <3>1. m \in Messages /\ m.pc # "started"
      BY <2>1 DEF Messages, Failed
    <3>2. page' = [page EXCEPT ![t] = page[t]]
      BY <2>3 DEF TypeOK
    <3>3. request' = [request EXCEPT ![r] = m]
      BY <2>3
    <3> HIDE DEF m
    <3> QED
      BY <1>1, <1>3, <2>1, <2>2, <3>1, <3>2, <3>3 DEF StageInv
  <2>4. CASE /\ request' = [request EXCEPT ![r].tab = Nobody]
             /\ page' = [page EXCEPT ![t].submitting = @ /\ request[r].pc = "start"]
    <3> DEFINE b == page[t].submitting /\ request[r].pc = "start"
               p == [page[t] EXCEPT !.submitting = b]
               m == [request[r] EXCEPT !.tab = Nobody]
    <3>1. b \in BOOLEAN
      BY <1>1 DEF Page
    <3>2. page' = [page EXCEPT ![t] = p] /\ request' = [request EXCEPT ![r] = m]
      BY <1>1, <2>4 DEF TypeOK
    <3> HIDE DEF b
    <3>3. p \in Page /\ p.phase = page[t].phase /\ p.id = page[t].id
      BY <1>6, <3>1
    <3>4. request[r] \in Start \cup Submission
      BY <2>1, RequestType
    <3>5. m \in Start \cup Submission /\ m.pc # "started"
      BY <2>1, <3>4 DEF Start, Submission
    <3> HIDE DEF p, m
    <3> QED
      BY <1>3, <2>1, <2>2, <3>2, <3>3, <3>5 DEF StageInv, Messages
  <2> QED
    BY <1>8, <2>3, <2>4 DEF Disconnect
<1> QED
  BY <1>4, <1>5, <1>7, <1>8

Rows == Row \cup {Absent, Deleted}

\* Only a row is live.
LEMMA LiveRow ==
  ASSUME TypeOK, NEW a \in Attempts
  PROVE  /\ Live(a) <=> attempt[a] \in Row
         /\ Absent \notin Row /\ Deleted \notin Row /\ Deleted # Absent
BY DEF TypeOK, Live, Row, Absent, Deleted

\* A refused request is answered with an error, if anybody waits.
LEMMA RefusedTyped ==
  ASSUME TypeOK, StageInv, NEW r \in Requests, NEW kind \in {"start", "submit"},
         request[r] \in Start \cup Submission, Refused(r, kind)
  PROVE  /\ request' \in [Requests -> Messages]
         /\ \A q \in Requests : request'[q].pc = "started" => request'[q].id \in Attempts
<1> DEFINE m == IF request[r].tab = Nobody THEN Free
                ELSE [pc |-> "error", tab |-> request[r].tab, of |-> kind]
<1>1. request[r].tab \in Tabs \cup {Nobody}
  BY DEF Start, Submission
<1>2. m \in Messages /\ m.pc # "started"
  BY <1>1 DEF Messages, Failed, Free
<1>3. request' = [request EXCEPT ![r] = m]
  BY DEF Refused
<1> HIDE DEF m
<1> QED
  BY <1>2, <1>3, RequestSet DEF StageInv

\* The row a submission leaves: completed, and passed if it was or the score suffices.
LEMMA WrittenRow ==
  ASSUME QuizAssumption, NEW row \in Row, NEW score \in Scores
  PROVE  /\ Written(row, score) \in Row
         /\ Written(row, score).completed
         /\ row.passed \/ score >= PassingScore => Written(row, score).passed
         /\ Written(row, score).number = row.number /\ Written(row, score).member = row.member
         /\ Written(row, score).issued = row.issued
<1> DEFINE x == IF score = 0 THEN row.score ELSE score
           b == row.passed \/ score >= PassingScore
<1>1. x \in Scores /\ b \in BOOLEAN
  BY DEF Row
<1>2. Written(row, score) = [row EXCEPT !.completed = TRUE, !.score = x, !.passed = b]
  BY DEF Written
<1> HIDE DEF x
<1> QED
  BY <1>1, <1>2 DEF Row

LEMMA StartTyped ==
  ASSUME QuizAssumption, TypeOK, StageInv, NEW r \in Requests,
         CountStarts(r) \/ CommitStart(r)
  PROVE  TypeOK' /\ StageInv'
<1>1. request[r] \in Start
  BY RequestType DEF CountStarts, CommitStart
<1>2. CASE CountStarts(r)
  <2> DEFINE count == Cardinality(RowsOf(request[r].member))
             m == [request[r] EXCEPT !.pc = "counted", !.count = count]
  <2>1. count \in Nat
    BY RowsAreFinite
  <2>2. UNCHANGED <<page, server>>
    BY <1>2 DEF CountStarts
  <2>3. CASE Refused(r, "start")
    BY <1>1, <2>2, <2>3, RefusedTyped DEF TypeOK, StageInv, server, Messages
  <2>4. CASE ~Refused(r, "start")
    <3>1. request' = [request EXCEPT ![r] = m]
      BY <1>1, <1>2, <2>4 DEF CountStarts, TypeOK
    <3> HIDE DEF count
    <3>2. m \in Messages /\ m.pc # "started"
      BY <1>1, <2>1 DEF Start, Messages
    <3> HIDE DEF m
    <3> QED
      BY <2>2, <3>1, <3>2, RequestSet DEF TypeOK, StageInv, server, Messages
  <2> QED
    BY <2>3, <2>4
<1>3. CASE CommitStart(r)
  <2>1. PICK a \in Attempts :
          /\ attempt' = [attempt EXCEPT ![a] =
               [state |-> "live", member |-> request[r].member, number |-> request[r].count + 1,
                score |-> 0, passed |-> FALSE, completed |-> FALSE, issued |-> FALSE]]
          /\ request' = [request EXCEPT ![r] =
               IF @.tab = Nobody THEN Free ELSE [@ EXCEPT !.pc = "started", !.id = a]]
    BY <1>3 DEF CommitStart
  <2> DEFINE row == [state |-> "live", member |-> request[r].member,
                     number |-> request[r].count + 1, score |-> 0, passed |-> FALSE,
                     completed |-> FALSE, issued |-> FALSE]
             m == IF request[r].tab = Nobody THEN Free
                  ELSE [request[r] EXCEPT !.pc = "started", !.id = a]
  <2>2. row \in Row
    BY <1>1 DEF Start, Row, QuizAssumption
  <2>3. m \in Messages /\ (m.pc = "started" => m.id \in Attempts)
    BY <1>1 DEF Start, Messages, Free
  <2>4. attempt' = [attempt EXCEPT ![a] = row] /\ request' = [request EXCEPT ![r] = m]
    BY <2>1
  <2> HIDE DEF row, m
  <2>5. attempt' \in [Attempts -> Rows]
    BY <2>2, <2>4 DEF TypeOK, Rows
  <2> QED
    BY <1>3, <2>3, <2>4, <2>5, RequestSet DEF CommitStart, TypeOK, StageInv, Messages, Rows
<1> QED
  BY <1>2, <1>3

LEMMA SubmissionTyped ==
  ASSUME QuizAssumption, TypeOK, StageInv, NEW r \in Requests,
         ScoreSubmission(r) \/ CommitSubmission(r) \/ CommitFails(r)
  PROVE  TypeOK' /\ StageInv'
<1>1. /\ request[r] \in Submission /\ request[r].pc # "started"
      /\ request[r].id \in Attempts /\ request[r].score \in Scores
  BY RequestType DEF ScoreSubmission, CommitSubmission, CommitFails, Submission
<1>2. CASE Refused(r, "submit") /\ UNCHANGED <<page, server>>
  BY <1>1, <1>2, RefusedTyped DEF TypeOK, StageInv, server, Messages
<1>3. CASE /\ request' = [request EXCEPT ![r].pc = "scored"]
           /\ UNCHANGED <<page, server>>
  <2> DEFINE m == [request[r] EXCEPT !.pc = "scored"]
  <2>1. m \in Messages /\ m.pc # "started"
    BY <1>1 DEF Submission, Messages
  <2>2. request' = [request EXCEPT ![r] = m]
    BY <1>3 DEF TypeOK
  <2> HIDE DEF m
  <2> QED
    BY <1>3, <2>1, <2>2, RequestSet DEF TypeOK, StageInv, server, Messages
<1>4. CASE CommitSubmission(r)
  <2> DEFINE a == request[r].id
             m == IF request[r].tab = Nobody THEN Free ELSE [request[r] EXCEPT !.pc = "result"]
  <2>1. attempt[a] \in Row /\ Written(attempt[a], request[r].score) \in Row
    BY <1>1, <1>4, LiveRow, WrittenRow DEF CommitSubmission
  <2>2. attempt' \in [Attempts -> Rows]
    BY <1>4, <2>1 DEF CommitSubmission, TypeOK, Rows
  <2>3. task' \in [Attempts -> Nat] /\ again' \in SUBSET Attempts
    BY <1>1, <1>4 DEF CommitSubmission, TypeOK
  <2>4. m \in Messages /\ m.pc # "started"
    BY <1>1 DEF Submission, Messages, Free
  <2>5. request' = [request EXCEPT ![r] = m]
    BY <1>4 DEF CommitSubmission
  <2> HIDE DEF m
  <2> QED
    BY <1>4, <2>2, <2>3, <2>4, <2>5, RequestSet
       DEF CommitSubmission, TypeOK, StageInv, Messages, Rows
<1> QED
  BY <1>2, <1>3, <1>4 DEF ScoreSubmission, CommitFails

LEMMA CertificateTyped ==
  ASSUME QuizAssumption, TypeOK, StageInv, NEW a \in Attempts,
         Background(a) \/ ManualIssue(a)
  PROVE  TypeOK' /\ StageInv'
<1>1. UNCHANGED <<request, page>>
  BY DEF Background, IssueCertBackground, IssueGivesUp, ManualIssue
<1>2. StageInv'
  BY <1>1 DEF StageInv
<1>3. CASE IssueCertBackground(a)
  <2>1. task' \in [Attempts -> Nat] /\ certs' \in [Attempts -> Nat] /\ balance' \in Nat
    BY <1>3 DEF IssueCertBackground, TypeOK
  <2>2. attempt' \in [Attempts -> Rows]
    <3> DEFINE row == [attempt[a] EXCEPT !.issued = TRUE]
    <3>1. CASE Live(a)
      <4>1. row \in Row
        BY <3>1, LiveRow DEF Row
      <4>2. attempt' = [attempt EXCEPT ![a] = row]
        BY <1>3, <3>1 DEF IssueCertBackground, TypeOK
      <4> HIDE DEF row
      <4> QED
        BY <4>1, <4>2 DEF TypeOK, Rows
    <3>2. CASE ~Live(a)
      BY <1>3, <3>2 DEF IssueCertBackground, TypeOK, Rows
    <3> QED
      BY <3>1, <3>2
  <2> QED
    BY <1>1, <1>2, <1>3, <2>1, <2>2 DEF IssueCertBackground, TypeOK, Rows
<1>4. CASE IssueGivesUp(a)
  BY <1>1, <1>2, <1>4 DEF IssueGivesUp, TypeOK
<1>5. CASE ManualIssue(a)
  <2>1. upsets' \in 0 .. MaxUpsets
    BY <1>5 DEF ManualIssue, TypeOK, QuizAssumption
  <2> QED
    BY <1>1, <1>2, <1>5, <2>1 DEF ManualIssue, TypeOK
<1> QED
  BY <1>3, <1>4, <1>5 DEF Background

LEMMA ReplaceTyped ==
  ASSUME QuizAssumption, TypeOK, StageInv, ReplaceQuiz
  PROVE  TypeOK' /\ StageInv'
<1>1. upsets' \in 0 .. MaxUpsets
  BY DEF ReplaceQuiz, TypeOK, QuizAssumption
<1>2. attempt' \in [Attempts -> Rows]
  BY DEF ReplaceQuiz, TypeOK, Rows
<1> QED
  BY <1>1, <1>2 DEF ReplaceQuiz, TypeOK, StageInv, Rows

LEMMA CrashTyped ==
  ASSUME QuizAssumption, TypeOK, StageInv, Crash
  PROVE  TypeOK' /\ StageInv'
<1>1. upsets' \in 0 .. MaxUpsets
  BY DEF Crash, TypeOK, QuizAssumption
<1>2. ASSUME NEW r \in Requests
      PROVE  /\ request'[r] \in Messages
             /\ request'[r].pc = "started" => request'[r] = request[r]
  <2> DEFINE m == [pc |-> "error", tab |-> request[r].tab,
                   of |-> IF request[r].pc \in {"start", "counted"} THEN "start" ELSE "submit"]
  <2>1. CASE request[r].pc \notin {"start", "submit", "counted", "scored"}
    BY <2>1 DEF Crash, TypeOK, Messages
  <2>2. CASE request[r].pc \in {"start", "submit", "counted", "scored"}
    <3>1. request[r].tab \in Tabs \cup {Nobody}
      BY <2>2, RequestType DEF Start, Submission
    <3>2. request'[r] = IF request[r].tab = Nobody THEN Free ELSE m
      BY <2>2 DEF Crash
    <3>3. request[r].tab \in Tabs => m \in Failed
      BY DEF Failed
    <3> QED
      BY <3>1, <3>2, <3>3 DEF Messages, Free
  <2> QED
    BY <2>1, <2>2
<1>3. request' \in [Requests -> Messages]
  BY <1>2 DEF Crash
<1>4. task' \in [Attempts -> Nat] /\ dropped' \in SUBSET Attempts
  BY DEF Crash, TypeOK
<1> QED
  BY <1>1, <1>2, <1>3, <1>4 DEF Crash, TypeOK, StageInv, Messages

LEMMA NextTyped ==
  ASSUME QuizAssumption, TypeOK, StageInv, [Next]_vars
  PROVE  TypeOK' /\ StageInv'
<1>1. CASE UNCHANGED vars
  BY <1>1 DEF vars, TypeOK, StageInv
<1>2. CASE \E t \in Tabs : Browser(t)
  BY <1>2, PageTyped, SendTyped, AnswerTyped DEF Browser
<1>3. CASE \E r \in Requests : Handler(r)
  BY <1>3, StartTyped, SubmissionTyped DEF Handler
<1>4. CASE \E a \in Attempts : Background(a) \/ ManualIssue(a)
  BY <1>4, CertificateTyped
<1> QED
  BY <1>1, <1>2, <1>3, <1>4, ReplaceTyped, CrashTyped DEF Next

\* The state stays well typed, and whoever sits the exam sits an attempt of it.
THEOREM TypeCorrect == Spec => [](TypeOK /\ StageInv)
<1>1. Init => TypeOK /\ StageInv
  BY QuizAssumption DEF Init, TypeOK, StageInv, Opened, Page, Free, QuizAssumption
<1>2. TypeOK /\ StageInv /\ [Next]_vars => (TypeOK /\ StageInv)'
  BY QuizAssumption, NextTyped
<1> QED
  BY <1>1, <1>2, PTL DEF Spec

-----------------------------------------------------------------------------
(* Certificates and numbers.                                                *)

\* What is known of attempt a.  A certificate, or a task for one, needs a pass; a
\* pass completes the attempt, so that a second submission that still commits has
\* read the row before; and one of the two kinds of marks, issued in the row or
\* the task itself, is there when a certificate is asked for once more.
CertifiedOnce(a) ==
  /\ certs[a] + task[a] > 0 => attempt[a] # Absent
  /\ Live(a) /\ certs[a] + task[a] > 0 => attempt[a].passed
  /\ Live(a) /\ attempt[a].passed => attempt[a].completed
  /\ Live(a) /\ certs[a] > 0 => attempt[a].issued
  /\ a \notin again => certs[a] + task[a] <= 1

CertInv == \A a \in Attempts : CertifiedOnce(a)

\* A start that has counted the attempts found fewer than allowed, so no attempt
\* has a number beyond the limit.
NumberInv ==
  /\ \A a \in Attempts : Live(a) => attempt[a].number \in 1 .. MaxAttempts
  /\ \A r \in Requests : request[r].pc = "counted" => request[r].count \in 0 .. MaxAttempts - 1

\* An attempt none of whose variables change keeps what is known of it.
LEMMA SameAttempt ==
  ASSUME NEW a \in Attempts, CertifiedOnce(a), attempt'[a] = attempt[a],
         task'[a] = task[a], certs'[a] = certs[a], again \subseteq again'
  PROVE  CertifiedOnce(a)'
BY DEF CertifiedOnce, Live

LEMMA StartCertified ==
  ASSUME TypeOK, CertInv, NEW r \in Requests, CommitStart(r)
  PROVE  CertInv'
<1>1. PICK a \in Attempts :
        /\ attempt[a] = Absent
        /\ attempt' = [attempt EXCEPT ![a] =
             [state |-> "live", member |-> request[r].member, number |-> request[r].count + 1,
              score |-> 0, passed |-> FALSE, completed |-> FALSE, issued |-> FALSE]]
  BY DEF CommitStart
<1>2. UNCHANGED <<task, certs, again>>
  BY DEF CommitStart
<1>3. certs[a] \in Nat /\ task[a] \in Nat
  BY DEF TypeOK
<1>4. certs[a] = 0 /\ task[a] = 0
  BY <1>1, <1>3 DEF CertInv, CertifiedOnce
<1>5. attempt'[a].passed = FALSE /\ attempt'[a] # Absent
  BY <1>1 DEF TypeOK, Absent
<1>6. CertifiedOnce(a)'
  BY <1>2, <1>4, <1>5 DEF CertifiedOnce
<1>7. ASSUME NEW b \in Attempts \ {a} PROVE CertifiedOnce(b)'
  BY <1>1, <1>2, SameAttempt DEF CertInv, TypeOK
<1> QED
  BY <1>6, <1>7 DEF CertInv

LEMMA SubmissionCertified ==
  ASSUME QuizAssumption, TypeOK, CertInv, NEW r \in Requests, CommitSubmission(r)
  PROVE  CertInv'
<1>read. request[r].id \in Attempts /\ request[r].score \in Scores /\ Live(request[r].id)
  BY RequestType DEF CommitSubmission, Submission
<1>names. PICK a \in Attempts, score \in Scores : a = request[r].id /\ score = request[r].score
  BY <1>read
<1> DEFINE row == Written(attempt[a], score)
<1>1. a \in Attempts /\ score \in Scores /\ Live(a) /\ attempt[a] \in Row
  BY <1>read, <1>names, LiveRow
<1>2. /\ attempt' = [attempt EXCEPT ![a] = row]
      /\ task' = [task EXCEPT ![a] = IF score >= PassingScore /\ RequiredForCert THEN @ + 1 ELSE @]
      /\ again' = IF attempt[a].completed THEN again \cup {a} ELSE again
      /\ certs' = certs
  BY <1>names DEF CommitSubmission
<1>3. /\ row \in Row /\ row.completed /\ row.issued = attempt[a].issued
      /\ attempt[a].passed \/ score >= PassingScore => row.passed
  BY <1>1, WrittenRow
<1> HIDE DEF row
<1>4. attempt'[a] = row /\ row # Absent
  BY <1>1, <1>2, <1>3 DEF TypeOK, Row, Absent
<1>5. /\ certs'[a] = certs[a] /\ certs[a] \in Nat /\ task[a] \in Nat /\ task'[a] \in Nat
      /\ task'[a] = task[a] \/ (task'[a] = task[a] + 1 /\ score >= PassingScore)
  BY <1>1, <1>2 DEF TypeOK
<1>6. CertifiedOnce(a)
  BY <1>1 DEF CertInv
<1>7. certs'[a] + task'[a] > 0 => row.passed
  BY <1>1, <1>3, <1>5, <1>6 DEF CertifiedOnce
<1>8. a \notin again' => certs'[a] + task'[a] <= 1
  <2>1. CASE attempt[a].completed
    BY <1>2, <2>1
  <2>2. CASE ~attempt[a].completed
    <3>1. certs[a] = 0 /\ task[a] = 0
      BY <1>1, <1>5, <1>6, <2>2 DEF CertifiedOnce
    <3> QED
      BY <1>5, <3>1
  <2> QED
    BY <2>1, <2>2
<1>9. certs'[a] > 0 => row.issued
  BY <1>1, <1>3, <1>5, <1>6 DEF CertifiedOnce
<1>10. CertifiedOnce(a)'
  BY <1>3, <1>4, <1>7, <1>8, <1>9 DEF CertifiedOnce
<1>11. ASSUME NEW b \in Attempts \ {a} PROVE CertifiedOnce(b)'
  <2>1. attempt'[b] = attempt[b] /\ task'[b] = task[b] /\ certs'[b] = certs[b]
    BY <1>1, <1>2 DEF TypeOK
  <2> QED
    BY <1>2, <2>1, SameAttempt DEF CertInv
<1> QED
  BY <1>10, <1>11 DEF CertInv

LEMMA IssueCertified ==
  ASSUME TypeOK, CertInv, NEW a \in Attempts, Background(a) \/ ManualIssue(a)
  PROVE  CertInv'
<1>1. certs[a] \in Nat /\ task[a] \in Nat /\ CertifiedOnce(a)
  BY DEF TypeOK, CertInv
<1>2. CASE IssueCertBackground(a)
  <2>1. certs'[a] = certs[a] + 1 /\ task'[a] = task[a] - 1 /\ task[a] > 0 /\ again' = again
    BY <1>2 DEF IssueCertBackground, TypeOK
  <2>2. certs'[a] + task'[a] = certs[a] + task[a] /\ certs[a] + task[a] > 0
    BY <1>1, <2>1
  <2>3. ASSUME Live(a) PROVE CertifiedOnce(a)'
    <3> DEFINE row == [attempt[a] EXCEPT !.issued = TRUE]
    <3>1. /\ row.issued /\ row.state = "live" /\ row.passed = attempt[a].passed
          /\ row.completed = attempt[a].completed /\ row # Absent
      BY <2>3, LiveRow DEF Row, Absent
    <3>2. attempt'[a] = row
      BY <1>2, <2>3 DEF IssueCertBackground, TypeOK
    <3> HIDE DEF row
    <3> QED
      BY <1>1, <2>1, <2>2, <2>3, <3>1, <3>2 DEF CertifiedOnce, Live
  <2>4. ASSUME ~Live(a) PROVE CertifiedOnce(a)'
    <3>1. attempt' = attempt
      BY <1>2, <2>4 DEF IssueCertBackground
    <3> QED
      BY <1>1, <2>1, <2>2, <2>4, <3>1 DEF CertifiedOnce, Live
  <2>5. ASSUME NEW b \in Attempts \ {a} PROVE CertifiedOnce(b)'
    <3>1. attempt'[b] = attempt[b] /\ task'[b] = task[b] /\ certs'[b] = certs[b]
      BY <1>2 DEF IssueCertBackground, TypeOK
    <3> QED
      BY <2>1, <3>1, SameAttempt DEF CertInv
  <2> QED
    BY <2>3, <2>4, <2>5 DEF CertInv
<1>3. CASE IssueGivesUp(a)
  <2>1. /\ task'[a] = task[a] - 1 /\ task[a] > 0
        /\ UNCHANGED <<attempt, certs, again>>
    BY <1>3 DEF IssueGivesUp, TypeOK
  <2>2. CertifiedOnce(a)'
    BY <1>1, <2>1 DEF CertifiedOnce, Live
  <2>3. ASSUME NEW b \in Attempts \ {a} PROVE CertifiedOnce(b)'
    BY <1>3, SameAttempt DEF IssueGivesUp, CertInv, TypeOK
  <2> QED
    BY <2>2, <2>3 DEF CertInv
<1>4. CASE ManualIssue(a)
  <2>1. /\ task'[a] = task[a] + 1 /\ UNCHANGED <<attempt, certs>>
        /\ again' = IF task[a] > 0 THEN again \cup {a} ELSE again
        /\ Live(a) /\ attempt[a].passed /\ ~attempt[a].issued
    BY <1>4 DEF ManualIssue, TypeOK
  <2>2. certs[a] = 0
    BY <1>1, <2>1 DEF CertifiedOnce
  <2>3. a \notin again' => task[a] = 0
    BY <1>1, <2>1
  <2>4. a \notin again' => certs'[a] + task'[a] <= 1
    BY <2>1, <2>2, <2>3
  <2>5. Live(a)' /\ attempt'[a] # Absent
    BY <2>1 DEF Live, Absent
  <2>6. CertifiedOnce(a)'
    BY <1>1, <2>1, <2>4, <2>5 DEF CertifiedOnce
  <2>7. ASSUME NEW b \in Attempts \ {a} PROVE CertifiedOnce(b)'
    BY <1>4, SameAttempt DEF ManualIssue, CertInv, TypeOK
  <2> QED
    BY <2>6, <2>7 DEF CertInv
<1> QED
  BY <1>2, <1>3, <1>4 DEF Background

LEMMA UpsetCertified ==
  ASSUME TypeOK, CertInv, ReplaceQuiz \/ Crash
  PROVE  CertInv'
<1> SUFFICES ASSUME NEW a \in Attempts PROVE CertifiedOnce(a)'
  BY DEF CertInv
<1>1. certs[a] \in Nat /\ task[a] \in Nat /\ CertifiedOnce(a)
  BY DEF TypeOK, CertInv
<1>2. CASE ReplaceQuiz
  <2>1. /\ UNCHANGED <<task, certs, again>>
        /\ attempt'[a] = IF Live(a) THEN Deleted ELSE attempt[a]
    BY <1>2 DEF ReplaceQuiz
  <2>2. ~Live(a)' /\ (attempt[a] # Absent => attempt'[a] # Absent)
    BY <2>1 DEF Live, Deleted, Absent
  <2> QED
    BY <1>1, <2>1, <2>2 DEF CertifiedOnce
<1>3. CASE Crash
  <2>1. task'[a] = 0 /\ UNCHANGED <<attempt, certs, again>>
    BY <1>3 DEF Crash
  <2> QED
    BY <1>1, <2>1 DEF CertifiedOnce, Live
<1> QED
  BY <1>2, <1>3

\* A page touches neither the attempts nor the certificates.
LEMMA BrowserLeaves ==
  ASSUME NEW t \in Tabs, Browser(t)
  PROVE  UNCHANGED <<attempt, task, certs, again>>
<1>1. Load(t) \/ Reload(t) \/ Choose(t) \/ TryAgain(t) => UNCHANGED <<attempt, task, certs, again>>
  BY DEF Load, Reload, Choose, TryAgain, server
<1>2. ASSUME NEW r \in Requests,
             \/ ClickStart(t, r) \/ Started(t, r) \/ ClickSubmit(t, r) \/ TimeOut(t, r)
             \/ Result(t, r) \/ Alert(t, r) \/ Disconnect(t, r)
      PROVE  UNCHANGED <<attempt, task, certs, again>>
  BY <1>2 DEF ClickStart, Started, ClickSubmit, TimeOut, Result, Alert, Disconnect, server
<1> QED
  BY <1>1, <1>2 DEF Browser

LEMMA NextCertified ==
  ASSUME QuizAssumption, TypeOK, CertInv, [Next]_vars
  PROVE  CertInv'
<1>1. CASE UNCHANGED <<attempt, task, certs, again>>
  BY <1>1 DEF CertInv, CertifiedOnce, Live
<1>2. CASE \E t \in Tabs : Browser(t)
  <2>1. UNCHANGED <<attempt, task, certs, again>>
    BY <1>2, BrowserLeaves
  <2> QED
    BY <1>1, <2>1
<1>3. CASE \E r \in Requests : Handler(r)
  <2>1. ASSUME NEW r \in Requests, CountStarts(r) \/ ScoreSubmission(r) \/ CommitFails(r)
        PROVE  UNCHANGED <<attempt, task, certs, again>>
    BY <2>1 DEF CountStarts, ScoreSubmission, CommitFails, server
  <2> QED
    BY <1>1, <1>3, <2>1, StartCertified, SubmissionCertified DEF Handler
<1>4. CASE \E a \in Attempts : Background(a) \/ ManualIssue(a)
  BY <1>4, IssueCertified
<1> QED
  BY <1>1, <1>2, <1>3, <1>4, UpsetCertified DEF Next, vars

LEMMA InitCertified ==
  ASSUME Init PROVE CertInv
BY DEF Init, CertInv, CertifiedOnce, Live, Absent

\* Whoever has a certificate, or waits for one, passed, and the exam still says so.
THEOREM CertificatesStandOnPasses == Spec => []CertifiedAttemptsPassed
<1>1. TypeOK /\ CertInv => CertifiedAttemptsPassed
  <2> SUFFICES ASSUME TypeOK, CertInv, NEW a \in Attempts, Live(a),
                      certs[a] > 0 \/ task[a] > 0
               PROVE  attempt[a].passed
    BY DEF CertifiedAttemptsPassed
  <2>1. certs[a] + task[a] > 0
    BY DEF TypeOK
  <2> QED
    BY <2>1 DEF CertInv, CertifiedOnce
<1>2. TypeOK /\ CertInv /\ [Next]_vars => CertInv'
  BY QuizAssumption, NextCertified
<1> QED
  BY <1>1, <1>2, InitCertified, TypeCorrect, PTL DEF Spec

-----------------------------------------------------------------------------

LEMMA InitNumbers ==
  ASSUME Init PROVE NumberInv
BY DEF Init, NumberInv, Live, Absent, Free

\* Steps that insert no row and count nothing.
LEMMA SameNumbers ==
  ASSUME NumberInv,
         \A a \in Attempts : Live(a)' => Live(a) /\ attempt'[a].number = attempt[a].number,
         \A r \in Requests : request'[r].pc = "counted" =>
           request[r].pc = "counted" /\ request'[r].count = request[r].count
  PROVE  NumberInv'
BY DEF NumberInv

\* A request that is replaced by one that has counted nothing.
LEMMA RequestNotCounted ==
  ASSUME TypeOK, NEW r \in Requests, NEW m, request' = [request EXCEPT ![r] = m],
         m.pc # "counted"
  PROVE  \A q \in Requests : request'[q].pc = "counted" =>
           request[q].pc = "counted" /\ request'[q].count = request[q].count
BY DEF TypeOK

LEMMA BrowserNumbers ==
  ASSUME TypeOK, NumberInv, NEW t \in Tabs, Browser(t)
  PROVE  NumberInv'
<1>1. attempt' = attempt
  BY BrowserLeaves
<1> DEFINE Same == \A r \in Requests : request'[r].pc = "counted" =>
                     request[r].pc = "counted" /\ request'[r].count = request[r].count
<1>2. request' = request => Same
  OBVIOUS
<1>3. ASSUME NEW r \in Requests, ClickStart(t, r) \/ ClickSubmit(t, r) \/ TimeOut(t, r)
      PROVE  Same
  <2>1. ASSUME NEW m, Send(r, m), m.pc # "counted"
        PROVE  Same
    BY <2>1, RequestNotCounted DEF Send
  <2>2. ASSUME NEW id, NEW score, Submitting(t, r, id, score)
        PROVE  Same
    <3> DEFINE m == [pc |-> "submit", tab |-> t, id |-> id, score |-> score]
    <3>1. Send(r, m) /\ m.pc # "counted"
      BY <2>2 DEF Submitting
    <3> HIDE DEF m
    <3> QED
      BY <2>1, <3>1
  <2>3. CASE ClickStart(t, r)
    <3> DEFINE m == [pc |-> "start", tab |-> t, member |-> Owner[t], count |-> 0, id |-> NoAttempt]
    <3>1. Send(r, m) /\ m.pc # "counted"
      BY <2>3 DEF ClickStart
    <3> HIDE DEF m
    <3> QED
      BY <2>1, <3>1
  <2> QED
    BY <1>3, <2>2, <2>3 DEF ClickSubmit, TimeOut
<1>4. ASSUME NEW r \in Requests, Started(t, r) \/ Result(t, r) \/ Alert(t, r)
      PROVE  Same
  <2>1. request' = [request EXCEPT ![r] = Free] /\ Free.pc # "counted"
    BY <1>4 DEF Started, Result, Alert, Free
  <2> QED
    BY <2>1, RequestNotCounted
<1>5. ASSUME NEW r \in Requests, Disconnect(t, r)
      PROVE  Same
  <2>1. request[r].pc \in {"start", "submit"}
    BY <1>5 DEF Disconnect
  <2>2. CASE request' = [request EXCEPT ![r] = [pc |-> "error", tab |-> t, of |-> request[r].pc]]
    <3> DEFINE m == [pc |-> "error", tab |-> t, of |-> request[r].pc]
    <3>1. m.pc # "counted"
      OBVIOUS
    <3> QED
      BY <2>2, <3>1, RequestNotCounted
  <2>3. CASE request' = [request EXCEPT ![r].tab = Nobody]
    <3> DEFINE m == [request[r] EXCEPT !.tab = Nobody]
    <3>1. request[r] \in Start \cup Submission
      BY <2>1, RequestType
    <3>2. m.pc # "counted"
      BY <2>1, <3>1 DEF Start, Submission
    <3>3. request' = [request EXCEPT ![r] = m]
      BY <2>3 DEF TypeOK
    <3> HIDE DEF m
    <3> QED
      BY <3>2, <3>3, RequestNotCounted
  <2> QED
    BY <1>5, <2>2, <2>3 DEF Disconnect
<1>6. ASSUME Reload(t)
      PROVE  Same
  <2> SUFFICES ASSUME NEW r \in Requests, request'[r].pc = "counted"
               PROVE  request[r].pc = "counted" /\ request'[r].count = request[r].count
    OBVIOUS
  <2>1. request'[r] = IF request[r] = Free \/ request[r].tab # t THEN request[r]
                      ELSE IF request[r].pc \in {"started", "result", "error"} THEN Free
                      ELSE [request[r] EXCEPT !.tab = Nobody]
    BY <1>6 DEF Reload
  <2>2. Free.pc # "counted"
    BY DEF Free
  <2>3. CASE request[r] \in Start \cup Submission
    <3> DEFINE m == [request[r] EXCEPT !.tab = Nobody]
    <3>1. m.pc = request[r].pc /\ (request[r] \in Start => m.count = request[r].count)
      BY <2>3 DEF Start, Submission
    <3>2. request[r].pc = "counted" => request[r] \in Start
      BY RequestType
    <3> HIDE DEF m
    <3>3. request'[r] = request[r] \/ request'[r] = Free \/ request'[r] = m
      BY <2>1 DEF m
    <3> QED
      BY <2>2, <3>1, <3>2, <3>3
  <2>4. CASE request[r] \in Failed \cup {Free}
    BY <2>1, <2>2, <2>4 DEF Failed, Free
  <2> QED
    BY <2>3, <2>4 DEF TypeOK
<1>7. Load(t) \/ Choose(t) \/ TryAgain(t) => request' = request
  BY DEF Load, Choose, TryAgain
<1> HIDE DEF Same
<1>8. Same
  BY <1>2, <1>3, <1>4, <1>5, <1>6, <1>7 DEF Browser
<1> USE DEF Same
<1> QED
  BY <1>1, <1>8, SameNumbers DEF Live

LEMMA RefusedNumbers ==
  ASSUME TypeOK, NumberInv, NEW r \in Requests, NEW kind, Refused(r, kind), attempt' = attempt
  PROVE  NumberInv'
<1> DEFINE m == IF request[r].tab = Nobody THEN Free
                ELSE [pc |-> "error", tab |-> request[r].tab, of |-> kind]
<1>1. m.pc # "counted"
  BY DEF Free
<1>2. request' = [request EXCEPT ![r] = m]
  BY DEF Refused
<1> HIDE DEF m
<1> QED
  BY <1>1, <1>2, RequestNotCounted, SameNumbers DEF Live

LEMMA StartNumbers ==
  ASSUME QuizAssumption, TypeOK, NumberInv, NEW r \in Requests,
         CountStarts(r) \/ CommitStart(r)
  PROVE  NumberInv'
<1>1. request[r] \in Start
  BY RequestType DEF CountStarts, CommitStart
<1>2. CASE CountStarts(r)
  <2> DEFINE count == Cardinality(RowsOf(request[r].member))
             m == [request[r] EXCEPT !.pc = "counted", !.count = count]
  <2>1. count \in Nat /\ attempt' = attempt
    BY <1>2, RowsAreFinite DEF CountStarts, server
  <2>2. CASE Refused(r, "start")
    BY <2>1, <2>2, RefusedNumbers
  <2>3. CASE ~Refused(r, "start")
    <3>1. request' = [request EXCEPT ![r] = m] /\ ~(count >= MaxAttempts)
      BY <1>1, <1>2, <2>3 DEF CountStarts, TypeOK
    <3> HIDE DEF count
    <3>2. m.count \in 0 .. MaxAttempts - 1
      BY <1>1, <2>1, <3>1 DEF Start, QuizAssumption
    <3> HIDE DEF m
    <3> QED
      BY <2>1, <3>1, <3>2 DEF NumberInv, Live, TypeOK
  <2> QED
    BY <2>2, <2>3
<1>3. CASE CommitStart(r)
  <2>1. PICK a \in Attempts :
          /\ attempt' = [attempt EXCEPT ![a] =
               [state |-> "live", member |-> request[r].member, number |-> request[r].count + 1,
                score |-> 0, passed |-> FALSE, completed |-> FALSE, issued |-> FALSE]]
          /\ request' = [request EXCEPT ![r] =
               IF @.tab = Nobody THEN Free ELSE [@ EXCEPT !.pc = "started", !.id = a]]
    BY <1>3 DEF CommitStart
  <2> DEFINE row == [state |-> "live", member |-> request[r].member,
                     number |-> request[r].count + 1, score |-> 0, passed |-> FALSE,
                     completed |-> FALSE, issued |-> FALSE]
             m == IF request[r].tab = Nobody THEN Free
                  ELSE [request[r] EXCEPT !.pc = "started", !.id = a]
  <2>2. request[r].count \in 0 .. MaxAttempts - 1
    BY <1>3 DEF CommitStart, NumberInv
  <2>3. row.number \in 1 .. MaxAttempts
    BY <2>2 DEF QuizAssumption
  <2>4. m.pc # "counted"
    BY <1>1 DEF Start, Free
  <2>5. attempt' = [attempt EXCEPT ![a] = row] /\ request' = [request EXCEPT ![r] = m]
    BY <2>1
  <2> HIDE DEF row, m
  <2> QED
    BY <2>3, <2>4, <2>5 DEF NumberInv, Live, TypeOK
<1> QED
  BY <1>2, <1>3

LEMMA SubmissionNumbers ==
  ASSUME QuizAssumption, TypeOK, NumberInv, NEW r \in Requests,
         ScoreSubmission(r) \/ CommitSubmission(r) \/ CommitFails(r)
  PROVE  NumberInv'
<1>1. /\ request[r] \in Submission /\ request[r].id \in Attempts /\ request[r].score \in Scores
  BY RequestType DEF ScoreSubmission, CommitSubmission, CommitFails, Submission
<1>2. CASE Refused(r, "submit") /\ attempt' = attempt
  BY <1>2, RefusedNumbers
<1>3. CASE request' = [request EXCEPT ![r].pc = "scored"] /\ attempt' = attempt
  <2> DEFINE m == [request[r] EXCEPT !.pc = "scored"]
  <2>1. m.pc # "counted"
    BY <1>1 DEF Submission
  <2>2. request' = [request EXCEPT ![r] = m]
    BY <1>3 DEF TypeOK
  <2> HIDE DEF m
  <2> QED
    BY <1>3, <2>1, <2>2, RequestNotCounted, SameNumbers DEF Live
<1>4. CASE CommitSubmission(r)
  <2> DEFINE a == request[r].id
             row == Written(attempt[a], request[r].score)
             m == IF request[r].tab = Nobody THEN Free ELSE [request[r] EXCEPT !.pc = "result"]
  <2>1. Live(a) /\ row.number = attempt[a].number
    BY <1>1, <1>4, LiveRow, WrittenRow DEF CommitSubmission
  <2>2. m.pc # "counted"
    BY <1>1 DEF Submission, Free
  <2>3. attempt' = [attempt EXCEPT ![a] = row] /\ request' = [request EXCEPT ![r] = m]
    BY <1>4 DEF CommitSubmission
  <2> HIDE DEF row, m
  <2>4. \A b \in Attempts : Live(b)' => Live(b) /\ attempt'[b].number = attempt[b].number
    BY <1>1, <2>1, <2>3 DEF Live, TypeOK
  <2> QED
    BY <2>2, <2>3, <2>4, RequestNotCounted, SameNumbers
<1> QED
  BY <1>2, <1>3, <1>4 DEF ScoreSubmission, CommitFails, server

LEMMA OtherNumbers ==
  ASSUME TypeOK, NumberInv,
         (\E a \in Attempts : Background(a) \/ ManualIssue(a)) \/ ReplaceQuiz \/ Crash
  PROVE  NumberInv'
<1>1. ASSUME NEW a \in Attempts, Background(a) \/ ManualIssue(a)
      PROVE  NumberInv'
  <2>1. request' = request
    BY <1>1 DEF Background, IssueCertBackground, IssueGivesUp, ManualIssue
  <2>2. attempt' = attempt \/ (Live(a) /\ attempt' = [attempt EXCEPT ![a].issued = TRUE])
    BY <1>1 DEF Background, IssueCertBackground, IssueGivesUp, ManualIssue
  <2>3. \A b \in Attempts : Live(b)' => Live(b) /\ attempt'[b].number = attempt[b].number
    <3>1. CASE attempt' = attempt
      BY <3>1 DEF Live
    <3>2. CASE Live(a) /\ attempt' = [attempt EXCEPT ![a].issued = TRUE]
      <4> DEFINE row == [attempt[a] EXCEPT !.issued = TRUE]
      <4>1. row.number = attempt[a].number
        BY <3>2, LiveRow DEF Row
      <4>2. attempt' = [attempt EXCEPT ![a] = row]
        BY <3>2 DEF TypeOK
      <4> HIDE DEF row
      <4> QED
        BY <3>2, <4>1, <4>2 DEF Live, TypeOK
    <3> QED
      BY <2>2, <3>1, <3>2
  <2> QED
    BY <2>1, <2>3, SameNumbers
<1>2. CASE ReplaceQuiz
  <2>1. request' = request /\ \A a \in Attempts : ~Live(a)'
    BY <1>2 DEF ReplaceQuiz, Live, Deleted
  <2> QED
    BY <2>1, SameNumbers
<1>3. CASE Crash
  <2>1. attempt' = attempt
    BY <1>3 DEF Crash
  <2>2. \A r \in Requests : request'[r].pc # "counted"
    BY <1>3 DEF Crash, Free
  <2> QED
    BY <2>1, <2>2, SameNumbers DEF Live
<1> QED
  BY <1>1, <1>2, <1>3

LEMMA NextNumbers ==
  ASSUME QuizAssumption, TypeOK, NumberInv, [Next]_vars
  PROVE  NumberInv'
<1>1. CASE UNCHANGED vars
  BY <1>1 DEF vars, NumberInv, Live
<1>2. CASE \E t \in Tabs : Browser(t)
  BY <1>2, BrowserNumbers
<1>3. CASE \E r \in Requests : Handler(r)
  BY <1>3, StartNumbers, SubmissionNumbers DEF Handler
<1> QED
  BY <1>1, <1>2, <1>3, OtherNumbers DEF Next

\* More attempts than allowed, or a second certificate, need two calls that overlap:
\* numbers up to the limit do not suffice for more attempts than that.
THEOREM ExcessNeedsOverlap == Spec => []ExcessOnlyByOverlap
<1>1. ASSUME TypeOK, CertInv, NumberInv PROVE ExcessOnlyByOverlap
  <2>1. ASSUME NEW m \in Members, Cardinality(RowsOf(m)) > MaxAttempts
        PROVE  \E a, b \in RowsOf(m) : a # b /\ attempt[a].number = attempt[b].number
    <3> DEFINE number == [a \in RowsOf(m) |-> attempt[a].number]
    <3>1. number \in [RowsOf(m) -> 1 .. MaxAttempts]
      BY <1>1 DEF NumberInv, RowsOf
    <3>2. MaxAttempts \in Nat
      BY QuizAssumption DEF QuizAssumption
    <3>3. IsFiniteSet(1 .. MaxAttempts) /\ Cardinality(1 .. MaxAttempts) = MaxAttempts
      <4>1. 1 \in Int /\ MaxAttempts \in Int
        BY <3>2
      <4>2. /\ IsFiniteSet(1 .. MaxAttempts)
            /\ Cardinality(1 .. MaxAttempts) = IF 1 > MaxAttempts THEN 0 ELSE MaxAttempts - 1 + 1
        BY <4>1, FS_Interval, Zenon
      <4> QED
        BY <3>2, <4>2
    <3>4. IsFiniteSet(RowsOf(m)) /\ Cardinality(RowsOf(m)) \in Nat
      BY <1>1, QuizAssumption, RowsAreFinite
    <3>5. Cardinality(1 .. MaxAttempts) < Cardinality(RowsOf(m))
      BY <2>1, <3>2, <3>3, <3>4
    <3> HIDE DEF number
    <3>6. \E a, b \in RowsOf(m) : a # b /\ number[a] = number[b]
      BY <3>1, <3>3, <3>4, <3>5, FS_PigeonHole, Zenon
    <3> QED
      BY <3>6 DEF number
  <2>2. ASSUME NEW a \in Attempts, certs[a] > 1
        PROVE  a \in again
    <3>1. certs[a] \in Nat /\ task[a] \in Nat /\ CertifiedOnce(a)
      BY <1>1 DEF TypeOK, CertInv
    <3>2. certs[a] + task[a] > 1
      BY <2>2, <3>1
    <3>3. ~(certs[a] + task[a] <= 1)
      BY <3>1, <3>2
    <3> QED
      BY <3>1, <3>3 DEF CertifiedOnce
  <2> QED
    BY <2>1, <2>2 DEF ExcessOnlyByOverlap
<1>2. TypeOK /\ CertInv /\ NumberInv /\ [Next]_vars => (CertInv /\ NumberInv)'
  BY QuizAssumption, NextCertified, NextNumbers
<1> QED
  BY <1>1, <1>2, InitCertified, InitNumbers, TypeCorrect, PTL DEF Spec

-----------------------------------------------------------------------------
(* What a page shows.                                                       *)

\* Request r submits, or brings the result of, the attempt on page t.
SubmissionOf(t, r) ==
  /\ request[r].pc \in {"submit", "scored", "result"}
  /\ request[r].tab = t /\ request[r].id = page[t].id

\* Unless the timer or a later choice intervened, what is under way for the attempt
\* on a page is worth what was chosen, and so is the result of it that is shown.
PageInv(t) ==
  page[t].fired \/ page[t].late \/
    /\ \A r \in Requests : SubmissionOf(t, r) => request[r].score >= page[t].answer
    /\ page[t].phase = "result" /\ page[t].shown = page[t].id => page[t].result >= page[t].answer

AnswerInv == \A t \in Tabs : PageInv(t)

\* Request r is no submission now, or was the same one before.
Carried(r) ==
  \/ request'[r].pc \notin {"submit", "scored", "result"}
  \/ request'[r].tab = Nobody
  \/ /\ request[r].pc \in {"submit", "scored", "result"}
     /\ request'[r].tab = request[r].tab /\ request'[r].id = request[r].id
     /\ request'[r].score = request[r].score

\* A page that stays as it is, while no submission is added to it.
LEMMA SamePage ==
  ASSUME NEW t \in Tabs, t # Nobody, PageInv(t), page'[t] = page[t],
         \A r \in Requests : Carried(r) \/ request'[r].tab # t
  PROVE  PageInv(t)'
BY DEF PageInv, SubmissionOf, Carried

\* Only page t changes, and only page t may have sent something.
LEMMA OtherPages ==
  ASSUME TypeOK, AnswerInv, NEW t \in Tabs, NEW p, page' = [page EXCEPT ![t] = p],
         \A r \in Requests : Carried(r) \/ request'[r].tab = t,
         PageInv(t)'
  PROVE  AnswerInv'
<1> SUFFICES ASSUME NEW u \in Tabs \ {t} PROVE PageInv(u)'
  BY DEF AnswerInv
<1>1. page'[u] = page[u] /\ u # Nobody
  BY NobodyAssumption DEF TypeOK
<1> QED
  BY <1>1, SamePage DEF AnswerInv

\* A page that keeps the attempt, the answers and the marks, and shows no new result.
LEMMA NoResult ==
  ASSUME NEW t \in Tabs, PageInv(t),
         \/ page'[t].phase # "result"
         \/ /\ page'[t].phase = page[t].phase /\ page'[t].shown = page[t].shown
            /\ page'[t].result = page[t].result,
         page'[t].id = page[t].id, page'[t].answer = page[t].answer,
         page'[t].fired = page[t].fired, page'[t].late = page[t].late,
         \A r \in Requests : Carried(r) \/ request'[r].tab # t
  PROVE  PageInv(t)'
<1>1. t # Nobody
  BY NobodyAssumption
<1> QED
  BY <1>1 DEF PageInv, SubmissionOf, Carried

\* A request that is replaced by no submission, or by itself with another state.
LEMMA RequestCarried ==
  ASSUME TypeOK, NEW r \in Requests, NEW m, request' = [request EXCEPT ![r] = m],
         \/ m.pc \notin {"submit", "scored", "result"}
         \/ m.tab = Nobody
         \/ /\ request[r].pc \in {"submit", "scored", "result"}
            /\ m.tab = request[r].tab /\ m.id = request[r].id /\ m.score = request[r].score
  PROVE  \A q \in Requests : Carried(q)
BY DEF TypeOK, Carried

LEMMA PageAnswers ==
  ASSUME QuizAssumption, TypeOK, AnswerInv, NEW t \in Tabs,
         Load(t) \/ Choose(t) \/ TryAgain(t) \/ Reload(t)
  PROVE  AnswerInv'
<1>1. page[t] \in Page /\ PageInv(t) /\ t # Nobody
  BY NobodyAssumption DEF TypeOK, AnswerInv
<1>2. CASE Load(t)
  <2>1. request' = request
    BY <1>2 DEF Load
  <2> DEFINE mine == RowsOf(Owner[t])
             n == Cardinality(mine)
             h == IF n >= MaxAttempts /\ ~(mine # {} /\ attempt[Max(mine)].passed)
                  THEN "blocked" ELSE "intro"
             p == [page[t] EXCEPT !.count = n, !.phase = h]
  <2>2. page' = [page EXCEPT ![t] = p]
    BY <1>2 DEF Load, TypeOK
  <2>3. h \in {"blocked", "intro"}
    OBVIOUS
  <2> HIDE DEF n, h
  <2>4. /\ p.phase # "result" /\ p.id = page[t].id /\ p.answer = page[t].answer
        /\ p.fired = page[t].fired /\ p.late = page[t].late
    BY <1>1, <2>3 DEF Page
  <2> HIDE DEF p
  <2>5. page'[t] = p /\ \A r \in Requests : Carried(r)
    BY <2>1, <2>2 DEF TypeOK, Carried
  <2>6. PageInv(t)'
    BY <1>1, <2>4, <2>5, NoResult
  <2> QED
    BY <2>2, <2>5, <2>6, OtherPages
<1>3. CASE TryAgain(t)
  <2>1. request' = request
    BY <1>3 DEF TryAgain
  <2> DEFINE p == [page[t] EXCEPT !.phase = "intro", !.result = 0, !.shown = NoAttempt]
  <2>3. page' = [page EXCEPT ![t] = p]
    BY <1>3 DEF TryAgain, TypeOK
  <2>4. /\ p.phase # "result" /\ p.id = page[t].id /\ p.answer = page[t].answer
        /\ p.fired = page[t].fired /\ p.late = page[t].late
    BY <1>1 DEF Page
  <2> HIDE DEF p
  <2>5. page'[t] = p /\ \A r \in Requests : Carried(r)
    BY <2>1, <2>3 DEF TypeOK, Carried
  <2>6. PageInv(t)'
    BY <1>1, <2>4, <2>5, NoResult
  <2> QED
    BY <2>3, <2>5, <2>6, OtherPages
<1>4. CASE Choose(t)
  <2>1. PICK x \in Scores : page' = [page EXCEPT ![t].answer = x, ![t].late = @ \/ UnderWay(t)]
    BY <1>4 DEF Choose
  <2> DEFINE b == page[t].late \/ UnderWay(t)
             p == [page[t] EXCEPT !.answer = x, !.late = b]
  <2>2. request' = request /\ page[t].phase = "taking"
    BY <1>4 DEF Choose
  <2>3. page' = [page EXCEPT ![t] = p]
    BY <2>1 DEF TypeOK
  <2> HIDE DEF b
  <2>4. p.phase # "result" /\ p.id = page[t].id /\ p.late = b
    BY <1>1, <2>2 DEF Page
  <2> HIDE DEF p
  <2>5. page'[t] = p /\ \A r \in Requests : Carried(r)
    BY <2>2, <2>3 DEF TypeOK, Carried
  <2>6. PageInv(t)'
    BY <2>2, <2>4, <2>5 DEF PageInv, SubmissionOf, UnderWay, b
  <2> QED
    BY <2>3, <2>5, <2>6, OtherPages
<1>5. CASE Reload(t)
  <2>1. ASSUME NEW r \in Requests
        PROVE  Carried(r) /\ (request'[r].pc \in {"submit", "scored", "result"} => request'[r].tab # t)
    <3>1. request'[r] = IF request[r] = Free \/ request[r].tab # t THEN request[r]
                        ELSE IF request[r].pc \in {"started", "result", "error"} THEN Free
                        ELSE [request[r] EXCEPT !.tab = Nobody]
      BY <1>5 DEF Reload
    <3>2. CASE request[r] \in Start \cup Submission
      <4>1. [request[r] EXCEPT !.tab = Nobody].tab = Nobody
        BY <3>2 DEF Start, Submission
      <4> QED
        BY <1>1, <3>1, <4>1 DEF Carried, Free
    <3>3. CASE request[r] \in Failed \cup {Free}
      BY <3>1, <3>3 DEF Carried, Failed, Free
    <3> QED
      BY <3>2, <3>3 DEF TypeOK
  <2>2. page' = [page EXCEPT ![t] = Opened] /\ page'[t] = Opened
    BY <1>5 DEF Reload, TypeOK
  <2>3. PageInv(t)'
    BY <2>1, <2>2 DEF PageInv, SubmissionOf, Opened
  <2> QED
    BY <2>1, <2>2, <2>3, OtherPages
<1> QED
  BY <1>2, <1>3, <1>4, <1>5

LEMMA SendAnswers ==
  ASSUME QuizAssumption, TypeOK, AnswerInv, NEW t \in Tabs, NEW r \in Requests,
         ClickStart(t, r) \/ ClickSubmit(t, r) \/ TimeOut(t, r)
  PROVE  AnswerInv'
<1>1. page[t] \in Page /\ PageInv(t) /\ t # Nobody
  BY NobodyAssumption DEF TypeOK, AnswerInv
<1>2. CASE ClickStart(t, r)
  <2> DEFINE m == [pc |-> "start", tab |-> t, member |-> Owner[t], count |-> 0, id |-> NoAttempt]
  <2>1. m.pc \notin {"submit", "scored", "result"}
    OBVIOUS
  <2>2. request' = [request EXCEPT ![r] = m] /\ page' = page
    BY <1>2 DEF ClickStart, Send
  <2> HIDE DEF m
  <2>3. \A q \in Requests : Carried(q)
    BY <2>1, <2>2, RequestCarried
  <2> QED
    BY <2>2, <2>3, SamePage, NobodyAssumption DEF AnswerInv
<1>3. ASSUME NEW id, NEW score, Submitting(t, r, id, score)
      PROVE  /\ \A q \in Requests \ {r} : Carried(q) /\ request'[q] = request[q]
             /\ request'[r].tab = t /\ request'[r].id = id /\ request'[r].score = score
  BY <1>3 DEF Submitting, Send, TypeOK, Carried
<1>4. CASE ClickSubmit(t, r)
  <2> DEFINE p == [page[t] EXCEPT !.submitting = TRUE]
  <2>1. /\ p.phase # "result" /\ p.id = page[t].id /\ p.answer = page[t].answer
        /\ p.fired = page[t].fired /\ p.late = page[t].late
    BY <1>1, <1>4 DEF Page, ClickSubmit
  <2>2. page' = [page EXCEPT ![t] = p]
    BY <1>4 DEF ClickSubmit, TypeOK
  <2> HIDE DEF p
  <2>3. page'[t] = p
    BY <2>2 DEF TypeOK
  <2>4. /\ \A q \in Requests \ {r} : Carried(q) /\ request'[q] = request[q]
        /\ request'[r].tab = t /\ request'[r].score = page[t].answer
    BY <1>3, <1>4 DEF ClickSubmit
  <2>5. page[t].answer >= page[t].answer
    <3>1. page[t].answer \in Nat
      BY <1>1 DEF Page, QuizAssumption
    <3> QED
      BY <3>1
  <2>6. PageInv(t)'
    BY <1>1, <2>1, <2>3, <2>4, <2>5 DEF PageInv, SubmissionOf
  <2> QED
    BY <2>2, <2>4, <2>6, OtherPages
<1>5. CASE TimeOut(t, r)
  <2> DEFINE p == [page[t] EXCEPT !.submitting = TRUE, !.timer = NoAttempt, !.fired = TRUE]
  <2>1. p.fired
    BY <1>1 DEF Page
  <2>2. page' = [page EXCEPT ![t] = p]
    BY <1>5 DEF TimeOut, TypeOK
  <2> HIDE DEF p
  <2>3. page'[t] = p
    BY <2>2 DEF TypeOK
  <2>4. \A q \in Requests : Carried(q) \/ request'[q].tab = t
    BY <1>3, <1>5 DEF TimeOut
  <2>5. PageInv(t)'
    BY <2>1, <2>3 DEF PageInv
  <2> QED
    BY <2>2, <2>4, <2>5, OtherPages
<1> QED
  BY <1>2, <1>4, <1>5

LEMMA AnswersArrive ==
  ASSUME QuizAssumption, TypeOK, AnswerInv, NEW t \in Tabs, NEW r \in Requests,
         Started(t, r) \/ Result(t, r) \/ Alert(t, r) \/ Disconnect(t, r)
  PROVE  AnswerInv'
<1>1. page[t] \in Page /\ PageInv(t) /\ t # Nobody
  BY NobodyAssumption DEF TypeOK, AnswerInv
<1>2. ASSUME request' = [request EXCEPT ![r] = Free]
      PROVE  \A q \in Requests : Carried(q)
  <2>1. Free.pc \notin {"submit", "scored", "result"}
    BY DEF Free
  <2> QED
    BY <1>2, <2>1, RequestCarried
<1>3. CASE Started(t, r)
  <2> DEFINE timer == IF page[t].phase = "taking" THEN page[t].timer
                      ELSE IF TimeLimit THEN request[r].id ELSE NoAttempt
             p == [page[t] EXCEPT !.phase = "taking", !.id = request[r].id, !.answer = 0,
                                  !.timer = timer, !.fired = FALSE, !.late = FALSE]
  <2>1. page' = [page EXCEPT ![t] = p] /\ request' = [request EXCEPT ![r] = Free]
    BY <1>3 DEF Started, TypeOK
  <2> HIDE DEF timer
  <2>2. p.phase # "result" /\ p.answer = 0
    BY <1>1 DEF Page
  <2> HIDE DEF p
  <2>3. page'[t] = p
    BY <2>1 DEF TypeOK
  <2>4. ASSUME NEW q \in Requests, request'[q].pc \in {"submit", "scored", "result"}
        PROVE  request'[q].score >= 0
    <3>1. request'[q] = request[q]
      BY <2>1, <2>4 DEF TypeOK, Free
    <3>2. request[q].score \in Nat
      BY <2>4, <3>1, RequestType DEF Submission, QuizAssumption
    <3> QED
      BY <3>1, <3>2
  <2>5. PageInv(t)'
    BY <2>2, <2>3, <2>4 DEF PageInv, SubmissionOf
  <2> QED
    BY <1>2, <2>1, <2>5, OtherPages
<1>4. CASE Result(t, r)
  <2> DEFINE n == page[t].count + 1
             p == [page[t] EXCEPT !.phase = "result", !.result = request[r].score,
                                  !.count = n, !.submitting = FALSE, !.timer = NoAttempt,
                                  !.shown = request[r].id]
  <2>1. page' = [page EXCEPT ![t] = p] /\ request' = [request EXCEPT ![r] = Free]
    BY <1>4 DEF Result, TypeOK
  <2> HIDE DEF n
  <2>2. /\ p.id = page[t].id /\ p.answer = page[t].answer
        /\ p.fired = page[t].fired /\ p.late = page[t].late
        /\ p.shown = request[r].id /\ p.result = request[r].score
    BY <1>1 DEF Page
  <2> HIDE DEF p
  <2>3. page'[t] = p
    BY <2>1 DEF TypeOK
  <2>4. request[r].id = page[t].id => SubmissionOf(t, r)
    BY <1>4 DEF Result, SubmissionOf
  <2>5. \A q \in Requests : Carried(q)
    BY <1>2, <2>1
  <2>6. PageInv(t)'
    BY <1>1, <2>2, <2>3, <2>4, <2>5 DEF PageInv, SubmissionOf, Carried
  <2> QED
    BY <2>1, <2>5, <2>6, OtherPages
<1>5. ASSUME NEW b, page' = [page EXCEPT ![t].submitting = b],
             \A q \in Requests : Carried(q)
      PROVE  AnswerInv'
  <2> DEFINE p == [page[t] EXCEPT !.submitting = b]
  <2>1. /\ p.id = page[t].id /\ p.answer = page[t].answer
        /\ p.fired = page[t].fired /\ p.late = page[t].late
        /\ p.phase = page[t].phase /\ p.shown = page[t].shown /\ p.result = page[t].result
    BY <1>1 DEF Page
  <2>2. page' = [page EXCEPT ![t] = p]
    BY <1>5 DEF TypeOK
  <2> HIDE DEF p
  <2>3. page'[t] = p
    BY <2>2 DEF TypeOK
  <2>4. PageInv(t)'
    BY <1>1, <1>5, <2>1, <2>3, NoResult
  <2> QED
    BY <1>5, <2>2, <2>4, OtherPages
<1>6. CASE Alert(t, r)
  <2>1. page' = [page EXCEPT ![t].submitting = page[t].submitting /\ request[r].of = "start"]
    BY <1>6 DEF Alert, TypeOK
  <2>2. \A q \in Requests : Carried(q)
    BY <1>2, <1>6 DEF Alert
  <2> QED
    BY <1>5, <2>1, <2>2
<1>7. CASE Disconnect(t, r)
  <2>1. CASE /\ request' = [request EXCEPT ![r] = [pc |-> "error", tab |-> t, of |-> request[r].pc]]
             /\ UNCHANGED page
    <3> DEFINE m == [pc |-> "error", tab |-> t, of |-> request[r].pc]
    <3>1. m.pc \notin {"submit", "scored", "result"}
      OBVIOUS
    <3> HIDE DEF m
    <3>2. \A q \in Requests : Carried(q)
      BY <2>1, <3>1, RequestCarried DEF m
    <3> QED
      BY <2>1, <3>2, SamePage, NobodyAssumption DEF AnswerInv
  <2>2. CASE /\ request' = [request EXCEPT ![r].tab = Nobody]
             /\ page' = [page EXCEPT ![t].submitting = @ /\ request[r].pc = "start"]
    <3> DEFINE m == [request[r] EXCEPT !.tab = Nobody]
    <3>1. request[r] \in Start \cup Submission
      BY <1>7, RequestType DEF Disconnect
    <3>2. m.tab = Nobody
      BY <3>1 DEF Start, Submission
    <3>3. request' = [request EXCEPT ![r] = m]
      BY <2>2 DEF TypeOK
    <3> HIDE DEF m
    <3>4. \A q \in Requests : Carried(q)
      BY <3>2, <3>3, RequestCarried
    <3>5. page' = [page EXCEPT ![t].submitting = page[t].submitting /\ request[r].pc = "start"]
      BY <2>2 DEF TypeOK
    <3> QED
      BY <1>5, <3>4, <3>5
  <2> QED
    BY <1>7, <2>1, <2>2 DEF Disconnect
<1> QED
  BY <1>3, <1>4, <1>6, <1>7

\* The handlers send answers of what was asked.
LEMMA HandlerCarries ==
  ASSUME TypeOK, NEW r \in Requests, Handler(r)
  PROVE  page' = page /\ \A q \in Requests : Carried(q)
<1>1. page' = page
  BY DEF Handler, CountStarts, CommitStart, ScoreSubmission, CommitSubmission, CommitFails
<1>2. ASSUME NEW kind, Refused(r, kind)
      PROVE  \A q \in Requests : Carried(q)
  <2> DEFINE m == IF request[r].tab = Nobody THEN Free
                  ELSE [pc |-> "error", tab |-> request[r].tab, of |-> kind]
  <2>1. m.pc \notin {"submit", "scored", "result"}
    BY DEF Free
  <2>2. request' = [request EXCEPT ![r] = m]
    BY <1>2 DEF Refused
  <2> HIDE DEF m
  <2> QED
    BY <2>1, <2>2, RequestCarried
<1>3. CASE CountStarts(r) /\ ~Refused(r, "start")
  <2> DEFINE n == Cardinality(RowsOf(request[r].member))
             m == [request[r] EXCEPT !.pc = "counted", !.count = n]
  <2>1. request' = [request EXCEPT ![r] = m] /\ request[r] \in Start
    BY <1>3, RequestType DEF CountStarts, TypeOK
  <2> HIDE DEF n
  <2>2. m.pc = "counted"
    BY <2>1 DEF Start
  <2> HIDE DEF m
  <2> QED
    BY <1>1, <2>1, <2>2, RequestCarried
<1>4. CASE CommitStart(r)
  <2>1. PICK a \in Attempts : request' = [request EXCEPT ![r] =
          IF @.tab = Nobody THEN Free ELSE [@ EXCEPT !.pc = "started", !.id = a]]
    BY <1>4 DEF CommitStart
  <2> DEFINE m == IF request[r].tab = Nobody THEN Free
                  ELSE [request[r] EXCEPT !.pc = "started", !.id = a]
  <2>2. m.pc \notin {"submit", "scored", "result"}
    BY <1>4, RequestType DEF CommitStart, Start, Free
  <2>3. request' = [request EXCEPT ![r] = m]
    BY <2>1 DEF TypeOK
  <2> HIDE DEF m
  <2> QED
    BY <1>1, <2>2, <2>3, RequestCarried
<1>5. ASSUME NEW pc \in {"scored", "result"}, request[r] \in Submission,
             request' = [request EXCEPT ![r] = [request[r] EXCEPT !.pc = pc]]
      PROVE  \A q \in Requests : Carried(q)
  <2> DEFINE m == [request[r] EXCEPT !.pc = pc]
  <2>1. m.tab = request[r].tab /\ m.id = request[r].id /\ m.score = request[r].score
    BY <1>5 DEF Submission
  <2>2. request' = [request EXCEPT ![r] = m] /\ request[r].pc \in {"submit", "scored", "result"}
    BY <1>5 DEF Submission
  <2> HIDE DEF m
  <2> QED
    BY <2>1, <2>2, RequestCarried
<1>6. CASE ScoreSubmission(r) /\ ~Refused(r, "submit")
  <2>1. request' = [request EXCEPT ![r] = [request[r] EXCEPT !.pc = "scored"]]
    BY <1>6 DEF ScoreSubmission, TypeOK
  <2>2. request[r] \in Submission
    BY <1>6, RequestType DEF ScoreSubmission
  <2> QED
    BY <1>1, <1>5, <2>1, <2>2
<1>7. CASE CommitSubmission(r)
  <2>1. request[r] \in Submission
    BY <1>7, RequestType DEF CommitSubmission
  <2>2. request' = [request EXCEPT ![r] =
          IF request[r].tab = Nobody THEN Free ELSE [request[r] EXCEPT !.pc = "result"]]
    BY <1>7 DEF CommitSubmission, TypeOK
  <2>3. Free.pc \notin {"submit", "scored", "result"}
    BY DEF Free
  <2> QED
    BY <1>1, <1>5, <2>1, <2>2, <2>3, RequestCarried
<1> QED
  BY <1>1, <1>2, <1>3, <1>4, <1>6, <1>7 DEF Handler, CountStarts, ScoreSubmission, CommitFails

LEMMA NextAnswers ==
  ASSUME QuizAssumption, TypeOK, AnswerInv, [Next]_vars
  PROVE  AnswerInv'
<1>1. ASSUME page' = page, \A q \in Requests : Carried(q)
      PROVE  AnswerInv'
  BY <1>1, SamePage, NobodyAssumption DEF AnswerInv
<1>2. ASSUME page' = page, request' = request
      PROVE  AnswerInv'
  BY <1>2 DEF AnswerInv, PageInv, SubmissionOf
<1>3. CASE UNCHANGED vars
  BY <1>2, <1>3 DEF vars
<1>4. CASE \E t \in Tabs : Browser(t)
  BY <1>4, PageAnswers, SendAnswers, AnswersArrive DEF Browser
<1>5. CASE \E r \in Requests : Handler(r)
  BY <1>1, <1>5, HandlerCarries
<1>6. CASE (\E a \in Attempts : Background(a) \/ ManualIssue(a)) \/ ReplaceQuiz
  BY <1>2, <1>6 DEF Background, IssueCertBackground, IssueGivesUp, ManualIssue, ReplaceQuiz
<1>7. CASE Crash
  <2>1. ASSUME NEW q \in Requests PROVE Carried(q)
    <3>1. request'[q] =
            IF request[q].pc \notin {"start", "submit", "counted", "scored"} THEN request[q]
            ELSE IF request[q].tab = Nobody THEN Free
            ELSE [pc |-> "error", tab |-> request[q].tab,
                  of |-> IF request[q].pc \in {"start", "counted"} THEN "start" ELSE "submit"]
      BY <1>7 DEF Crash
    <3> QED
      BY <3>1 DEF Carried, Free
  <2>2. page' = page
    BY <1>7 DEF Crash
  <2> QED
    BY <1>1, <2>1, <2>2
<1> QED
  BY <1>3, <1>4, <1>5, <1>6, <1>7 DEF Next

\* A member sees less than she chose only because of the timer, of a choice after
\* the submission, or of the result of another attempt.
THEOREM AnswersKept == Spec => []AnswersLostOnlyByTimer
<1>1. Init => AnswerInv
  BY DEF Init, Opened, Free, AnswerInv, PageInv, SubmissionOf
<1>2. TypeOK /\ AnswerInv /\ [Next]_vars => AnswerInv'
  BY QuizAssumption, NextAnswers
<1>3. TypeOK /\ AnswerInv => AnswersLostOnlyByTimer
  <2> SUFFICES ASSUME TypeOK, AnswerInv, NEW t \in Tabs, page[t].phase = "result",
                      page[t].result < page[t].answer
               PROVE  page[t].fired \/ page[t].late \/ page[t].shown # page[t].id
    BY DEF AnswersLostOnlyByTimer
  <2>1. page[t].result \in Nat /\ page[t].answer \in Nat
    BY QuizAssumption DEF TypeOK, Page, QuizAssumption
  <2>2. ~(page[t].result >= page[t].answer)
    BY <2>1
  <2> QED
    BY <2>2 DEF AnswerInv, PageInv
<1> QED
  BY <1>1, <1>2, <1>3, TypeCorrect, PTL DEF Spec
=============================================================================
