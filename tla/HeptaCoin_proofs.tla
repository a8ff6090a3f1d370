-------------------------- MODULE HeptaCoin_proofs --------------------------
(***************************************************************************)
(* Proofs about HeptaCoin, for every value of its constants.                *)
(***************************************************************************)
EXTENDS HeptaCoin, FiniteSetTheorems, WellFoundedInduction, TLAPS

\* A certificate built from values of the right types is a row of certificates.
LEMMA NewCertificateType ==
  ASSUME NEW s \in Sessions, sess[s] \in Working,
         NEW n \in Nat, NEW a \in Attendees, NEW cost \in Nat
  PROVE  NewCertificate(s, n, a, cost) \in Certificate
BY DEF NewCertificate, Certificate, Working

\* Ending a session keeps sessions and locks well typed, whatever else happens.
LEMMA EndSessionType ==
  ASSUME TypeOK, NEW s \in Sessions, EndSession(s)
  PROVE  /\ sess' \in [Sessions -> Session]
         /\ userLock' \in [Users -> Sessions \cup {NoSession}]
         /\ eventLock' \in [Events -> Sessions \cup {NoSession}]
BY DEF TypeOK, EndSession, Session, Done

\* A session whose pc is one of a working session's is one.
LEMMA WorkingByPc ==
  ASSUME TypeOK, NEW s \in Sessions,
         sess[s].pc \in {"loaded", "locked", "both", "checked"}
  PROVE  sess[s] \in Working
BY DEF TypeOK, Session, Idle, Done, Crediting

\* A session whose pc is "crediting" is a crediting one.
LEMMA CreditingByPc ==
  ASSUME TypeOK, NEW s \in Sessions, sess[s].pc = "crediting"
  PROVE  sess[s] \in Crediting
BY DEF TypeOK, Session, Idle, Done, Working

\* The same of a working session in the next state.
LEMMA WorkingByPcPrimed ==
  ASSUME TypeOK', NEW s \in Sessions,
         sess'[s].pc \in {"loaded", "locked", "both", "checked"}
  PROVE  sess'[s] \in Working
BY DEF TypeOK, Session, Idle, Done, Crediting

\* Loading an event keeps every variable well typed.
LEMMA LoadType ==
  ASSUME TypeOK, HeptaCoinAssumption, NEW s \in Sessions, NEW k \in HandlerKinds, NEW me \in Users,
         NEW e \in Events, NEW todo \in SUBSET Attendees, Load(s, k, me, e, todo)
  PROVE  TypeOK'
<1>1. [pc |-> "loaded", kind |-> k, me |-> me, user |-> Owner[e], event |-> e, todo |-> todo,
       now |-> {}, seq |-> certSeq[e], bumps |-> 0, bal |-> 0, debits |-> 0, cart |-> {}]
        \in Working
  BY DEF Working, TypeOK, HeptaCoinAssumption
<1>2. sess' \in [Sessions -> Session]
  BY <1>1 DEF TypeOK, Load, Session
<1> QED
  BY <1>2 DEF TypeOK, Load, rows, locks

\* Committing one certificate, or refusing it, keeps every variable well typed.
LEMMA IssueOneType ==
  ASSUME TypeOK, HeptaCoinAssumption, NEW s \in Sessions,
         NEW metered \in BOOLEAN, IssueOne(s, metered)
  PROVE  TypeOK'
<1>1. PICK h \in HostingUnits, a \in sess[s].todo :
        LET cost == IssueUnits + h IN
        /\ sess[s].pc = "both"
        /\ IF metered /\ sess[s].bal < cost
           THEN UNCHANGED rows
           ELSE /\ certSeq' = [certSeq EXCEPT ![sess[s].event] = sess[s].seq + 1]
                /\ certs' = certs \cup
                     {NewCertificate(s, sess[s].seq + 1, a, IF metered THEN cost ELSE 0)}
                /\ IF metered THEN Debit(s, cost) ELSE UNCHANGED <<balance, ledger>>
        /\ EndSession(s)
  BY DEF IssueOne
<1>2. sess[s] \in Working
  BY <1>1, WorkingByPc
<1>3. /\ sess[s].user \in Users /\ sess[s].event \in Events /\ sess[s].seq \in Nat
      /\ sess[s].bal \in Int /\ a \in Attendees /\ IssueUnits + h \in Nat
  BY <1>1, <1>2 DEF Working, HeptaCoinAssumption
<1>4. CASE metered /\ sess[s].bal < IssueUnits + h
  BY <1>1, <1>4, EndSessionType DEF TypeOK, rows
<1>5. CASE ~(metered /\ sess[s].bal < IssueUnits + h)
  <2>1. certSeq' \in [Events -> Nat]
    BY <1>1, <1>3, <1>5 DEF TypeOK
  <2>2. certs' \in SUBSET Certificate
    BY <1>1, <1>2, <1>3, <1>5, NewCertificateType DEF TypeOK
  <2>3. /\ balance' \in [Users -> Int]
        /\ credited' \in [Users -> Nat] /\ spent' \in [Users -> Nat]
    BY <1>1, <1>3, <1>5 DEF TypeOK, Debit, ledger
  <2> QED
    BY <1>1, <2>1, <2>2, <2>3, EndSessionType DEF TypeOK
<1> QED
  BY <1>4, <1>5

\* So does serving one attendee of a bulk certification.
LEMMA CertifyAttendeeType ==
  ASSUME TypeOK, HeptaCoinAssumption, NEW s \in Sessions, CertifyAttendee(s)
  PROVE  TypeOK'
<1>1. sess[s] \in Working
  BY WorkingByPc DEF CertifyAttendee
<1>2. eventLock' \in [Events -> Sessions \cup {NoSession}]
  BY <1>1 DEF TypeOK, CertifyAttendee, Working
<1>3. CASE sess' = [sess EXCEPT ![s].pc = "locked", ![s].now = {},
                      ![s].seq = @ + 1, ![s].bumps = @ + 1]
  <2>1. sess'[s] \in Working
    BY <1>1, <1>3 DEF TypeOK, Working
  <2> QED
    BY <1>2, <1>3, <2>1 DEF TypeOK, CertifyAttendee, rows, Session
<1>4. ASSUME NEW h \in HostingUnits, NEW a \in sess[s].now,
             NEW cost \in Nat,
             sess' = [sess EXCEPT
               ![s].pc = "locked", ![s].now = {}, ![s].seq = @ + 1, ![s].bumps = @ + 1,
               ![s].bal = @ - cost, ![s].debits = @ + cost,
               ![s].cart = @ \cup {NewCertificate(s, sess[s].seq + 1, a, cost)}]
      PROVE  TypeOK'
  <2>1. NewCertificate(s, sess[s].seq + 1, a, cost) \in Certificate
    <3>1. sess[s].seq + 1 \in Nat /\ a \in Attendees
      BY <1>1, <1>4 DEF Working
    <3> QED
      BY <1>1, <1>4, <3>1, NewCertificateType
  <2>2. sess'[s] \in Working
    BY <1>1, <1>4, <2>1 DEF TypeOK, Working
  <2> QED
    BY <1>2, <1>4, <2>2 DEF TypeOK, CertifyAttendee, rows, Session
<1>5. \A h \in HostingUnits :
        (IF Metered(s) THEN IssueUnits + h ELSE 0) \in Nat
  BY DEF HeptaCoinAssumption
<1> QED
  BY <1>3, <1>4, <1>5 DEF CertifyAttendee

\* Every step keeps every variable well typed.
LEMMA NextType ==
  ASSUME TypeOK, HeptaCoinAssumption, [Next]_vars
  PROVE  TypeOK'
<1>1. ASSUME NEW s \in Sessions, Start(s)
      PROVE  TypeOK'
  <2>1. CASE LoadIssue(s) \/ LoadQuiz(s) \/ LoadCertify(s)
    <3>1. PICK k \in HandlerKinds, me \in Users, e \in Events, todo \in SUBSET Attendees :
            Load(s, k, me, e, todo)
      BY <2>1 DEF LoadIssue, LoadQuiz, LoadCertify, HandlerKinds, HeptaCoinAssumption
    <3> QED
      BY <3>1, LoadType
  <2>2. CASE CreditLoad(s)
    <3>1. PICK u \in Users, n \in CreditAmounts :
            sess' = [sess EXCEPT ![s] =
              [pc |-> "crediting", user |-> u, bal |-> balance[u], amount |-> n]]
      BY <2>2 DEF CreditLoad
    <3>2. [pc |-> "crediting", user |-> u, bal |-> balance[u], amount |-> n] \in Crediting
      BY DEF Crediting, TypeOK, HeptaCoinAssumption
    <3> QED
      BY <2>2, <3>1, <3>2 DEF TypeOK, CreditLoad, rows, locks, Session
  <2> QED
    BY <1>1, <2>1, <2>2 DEF Start
<1>2. ASSUME NEW s \in Sessions, Proceed(s)
      PROVE  TypeOK'
  <2>1. CASE LockUser(s)
    <3>1. sess[s] \in Working
      BY <2>1, WorkingByPc DEF LockUser
    <3>2. sess'[s] \in Working
      BY <2>1, <3>1 DEF TypeOK, LockUser, Working
    <3> QED
      BY <2>1, <3>1, <3>2 DEF TypeOK, LockUser, rows, Session, Working
  <2>2. CASE LockEvent(s)
    <3>1. sess[s] \in Working
      BY <2>2, WorkingByPc DEF LockEvent
    <3>2. sess'[s] \in Working
      BY <2>2, <3>1 DEF TypeOK, LockEvent, Working
    <3> QED
      BY <2>2, <3>1, <3>2 DEF TypeOK, LockEvent, rows, Session, Working
  <2>3. CASE IssueCertificate(s) \/ IssueQuizCertificate(s)
    <3>1. PICK metered \in BOOLEAN : IssueOne(s, metered)
      BY <2>3 DEF IssueCertificate, IssueQuizCertificate, Metered
    <3> QED
      BY <3>1, IssueOneType
  <2>4. ASSUME NEW a \in Attendees, CertifySkip(s, a) \/ CertifyCheck(s, a)
        PROVE  TypeOK'
    <3>1. sess[s] \in Working
      BY <2>4, WorkingByPc DEF CertifySkip, CertifyCheck, CertifyReady
    <3>2. sess'[s] \in Working
      BY <2>4, <3>1 DEF TypeOK, CertifySkip, CertifyCheck, Working
    <3> QED
      BY <2>4, <3>1, <3>2 DEF TypeOK, CertifySkip, CertifyCheck, rows, locks, Session
  <2>5. CASE CertifyAttendee(s)
    BY <2>5, CertifyAttendeeType
  <2>6. CASE CertifyRefuse(s)
    BY <2>6, EndSessionType DEF CertifyRefuse, TypeOK, rows
  <2>7. CASE CertifyCommit(s)
    <3>1. sess[s] \in Working
      BY <2>7, WorkingByPc DEF CertifyCommit, CertifyReady
    <3>2. certs' \in SUBSET Certificate /\ certSeq' \in [Events -> Nat]
      BY <2>7, <3>1 DEF CertifyCommit, TypeOK, Working
    <3>3. /\ balance' \in [Users -> Int]
          /\ credited' \in [Users -> Nat] /\ spent' \in [Users -> Nat]
      BY <2>7, <3>1 DEF CertifyCommit, TypeOK, Working
    <3> QED
      BY <2>7, <3>2, <3>3, EndSessionType DEF CertifyCommit, TypeOK
  <2>8. CASE CreditCommit(s)
    <3>1. sess[s] \in Crediting
      BY <2>8, CreditingByPc DEF CreditCommit
    <3>2. /\ balance' \in [Users -> Int]
          /\ credited' \in [Users -> Nat] /\ spent' \in [Users -> Nat]
      BY <2>8, <3>1 DEF CreditCommit, TypeOK, Crediting
    <3> QED
      BY <2>8, <3>2, EndSessionType DEF CreditCommit, TypeOK
  <2> QED
    BY <1>2, <2>1, <2>2, <2>3, <2>4, <2>5, <2>6, <2>7, <2>8 DEF Proceed
<1>3. ASSUME NEW s \in Sessions, Rollback(s)
      PROVE  TypeOK'
  BY <1>3, EndSessionType DEF Rollback, TypeOK, rows
<1>4. CASE DeleteCertificate
  <2>1. certs' \in SUBSET Certificate
    BY <1>4 DEF DeleteCertificate, TypeOK, Certificate
  <2> QED
    BY <1>4, <2>1 DEF DeleteCertificate, TypeOK, ledger, locks
<1>5. CASE AllServed \/ UNCHANGED vars
  BY <1>5 DEF AllServed, vars, TypeOK
<1> QED
  BY <1>1, <1>2, <1>3, <1>4, <1>5 DEF Next

\* Type correctness of the tables, locks and sessions.
THEOREM TypeCorrect == Spec => []TypeOK
<1>1. Init => TypeOK
  BY HeptaCoinAssumption DEF Init, TypeOK, Session, HeptaCoinAssumption
<1>2. TypeOK /\ [Next]_vars => TypeOK'
  BY NextType, HeptaCoinAssumption
<1> QED
  BY <1>1, <1>2, PTL DEF Spec
-----------------------------------------------------------------------------
(* The locks.                                                               *)

\* The two control states of a session that is not in a transaction.
LEMMA IdleAndDone == Idle.pc = "idle" /\ Done.pc = "done"
BY DEF Idle, Done

\* The end of a transaction gives up the session's own locks and no other.
LEMMA EndSessionLocks ==
  ASSUME TypeOK, LockInv, HeptaCoinAssumption, NEW s \in Sessions, EndSession(s)
  PROVE  LockInv'
<1>1. sess'[s].pc = "done" /\ \A t \in Sessions \ {s} : sess'[t] = sess[t]
  BY IdleAndDone DEF EndSession, TypeOK
<1>2. \A u \in Users, t \in Sessions \ {s} : userLock[u] = t => userLock'[u] = t
  BY DEF EndSession, TypeOK
<1>3. \A e \in Events : eventLock'[e] # s
  BY DEF EndSession, TypeOK, HeptaCoinAssumption
<1>4. \A e \in Events, t \in Sessions : eventLock'[e] = t => eventLock[e] = t
  BY DEF EndSession, TypeOK, HeptaCoinAssumption
<1>5. \A t \in Sessions : Locked(t) => sess[t].user \in Users
  BY WorkingByPc DEF Locked, Working
<1>6. ~Locked(s)' /\ \A t \in Sessions \ {s} : Locked(t)' = Locked(t)
  BY <1>1 DEF Locked
<1> SUFFICES ASSUME NEW t \in Sessions
             PROVE  LockInv!(t)'
  BY DEF LockInv
<1>7. CASE t = s
  BY <1>1, <1>3, <1>6, <1>7
<1>8. CASE t # s
  BY <1>1, <1>2, <1>4, <1>5, <1>6, <1>8 DEF LockInv
<1> QED
  BY <1>7, <1>8

\* What serving one attendee does to the session, rendered or not.
LEMMA CertifyAttendeeStep ==
  ASSUME TypeOK, HeptaCoinAssumption, NEW s \in Sessions, CertifyAttendee(s)
  PROVE  /\ sess[s].pc = "checked" /\ sess'[s].pc = "locked"
         /\ sess'[s].user = sess[s].user /\ sess'[s].event = sess[s].event
         /\ sess'[s].kind = sess[s].kind /\ sess'[s].me = sess[s].me
         /\ sess'[s].bal + sess'[s].debits = sess[s].bal + sess[s].debits
         /\ \A t \in Sessions \ {s} : sess'[t] = sess[t]
<1>1. sess[s] \in Working
  BY WorkingByPc DEF CertifyAttendee
<1>2. CASE sess' = [sess EXCEPT ![s].pc = "locked", ![s].now = {},
                      ![s].seq = @ + 1, ![s].bumps = @ + 1]
  BY <1>1, <1>2 DEF CertifyAttendee, TypeOK, Working
<1>3. ASSUME NEW cost \in Nat, NEW cart,
             sess' = [sess EXCEPT
               ![s].pc = "locked", ![s].now = {}, ![s].seq = @ + 1, ![s].bumps = @ + 1,
               ![s].bal = @ - cost, ![s].debits = @ + cost, ![s].cart = cart]
      PROVE  /\ sess[s].pc = "checked" /\ sess'[s].pc = "locked"
             /\ sess'[s].user = sess[s].user /\ sess'[s].event = sess[s].event
             /\ sess'[s].kind = sess[s].kind /\ sess'[s].me = sess[s].me
             /\ sess'[s].bal + sess'[s].debits = sess[s].bal + sess[s].debits
             /\ \A t \in Sessions \ {s} : sess'[t] = sess[t]
  <2>1. sess[s].bal \in Int /\ sess[s].debits \in Nat
    BY <1>1 DEF Working
  <2>2. sess'[s] = [sess[s] EXCEPT !.pc = "locked", !.now = {},
          !.seq = @ + 1, !.bumps = @ + 1,
          !.bal = @ - cost, !.debits = @ + cost, !.cart = cart]
    BY <1>1, <1>3 DEF TypeOK, Working
  <2>3. /\ sess'[s].pc = "locked"
        /\ sess'[s].user = sess[s].user /\ sess'[s].event = sess[s].event
        /\ sess'[s].kind = sess[s].kind /\ sess'[s].me = sess[s].me
        /\ sess'[s].bal = sess[s].bal - cost /\ sess'[s].debits = sess[s].debits + cost
    BY <1>1, <2>2 DEF Working
  <2>4. \A t \in Sessions \ {s} : sess'[t] = sess[t]
    BY <1>3 DEF TypeOK
  <2>5. sess'[s].bal + sess'[s].debits = sess[s].bal + sess[s].debits
    BY <2>1, <2>3
  <2>6. sess[s].pc = "checked"
    BY DEF CertifyAttendee
  <2> QED
    BY <2>3, <2>4, <2>5, <2>6
<1>4. \A h \in HostingUnits : (IF Metered(s) THEN IssueUnits + h ELSE 0) \in Nat
  BY DEF HeptaCoinAssumption
<1>5. ASSUME NEW h \in HostingUnits, NEW a \in sess[s].now,
             LET cost == IF Metered(s) THEN IssueUnits + h ELSE 0 IN
             sess' = [sess EXCEPT
               ![s].pc = "locked", ![s].now = {}, ![s].seq = @ + 1, ![s].bumps = @ + 1,
               ![s].bal = @ - cost, ![s].debits = @ + cost,
               ![s].cart = @ \cup {NewCertificate(s, sess[s].seq + 1, a, cost)}]
      PROVE  \E cost \in Nat : \E cart :
               sess' = [sess EXCEPT
                 ![s].pc = "locked", ![s].now = {}, ![s].seq = @ + 1, ![s].bumps = @ + 1,
                 ![s].bal = @ - cost, ![s].debits = @ + cost, ![s].cart = cart]
  <2> DEFINE cost == IF Metered(s) THEN IssueUnits + h ELSE 0
  <2>1. cost \in Nat
    BY <1>4
  <2> HIDE DEF cost
  <2>2. sess' = [sess EXCEPT
          ![s].pc = "locked", ![s].now = {}, ![s].seq = @ + 1, ![s].bumps = @ + 1,
          ![s].bal = @ - cost, ![s].debits = @ + cost,
          ![s].cart = sess[s].cart \cup {NewCertificate(s, sess[s].seq + 1, a, cost)}]
    BY <1>1, <1>5 DEF cost, TypeOK, Working
  <2> QED
    BY <2>1, <2>2
<1> QED
  BY <1>2, <1>3, <1>5 DEF CertifyAttendee

\* Every handler takes and gives up its row locks in the order user, event.
LEMMA NextLocks ==
  ASSUME TypeOK, TypeOK', LockInv, HeptaCoinAssumption, [Next]_vars
  PROVE  LockInv'
<1>1. ASSUME NEW s \in Sessions, NEW k \in HandlerKinds, NEW e \in Events,
             NEW me \in Team[e] \cup {Owner[e]}, NEW todo \in SUBSET Attendees,
             Load(s, k, me, e, todo)
      PROVE  LockInv'
  <2>1. sess[s].pc = "idle"
    BY <1>1, IdleAndDone DEF Load
  <2>2. /\ sess'[s].pc = "loaded" /\ sess'[s].kind \in Kinds
        /\ sess'[s].user = Owner[sess'[s].event]
        /\ sess'[s].me \in Team[sess'[s].event] \cup {Owner[sess'[s].event]}
        /\ \A t \in Sessions \ {s} : sess'[t] = sess[t]
        /\ UNCHANGED <<userLock, eventLock>>
    BY <1>1 DEF Load, TypeOK, locks
  <2> QED
    BY <2>1, <2>2 DEF LockInv, Locked
<1>2. ASSUME NEW s \in Sessions, CreditLoad(s)
      PROVE  LockInv'
  <2>1. sess[s].pc = "idle"
    BY <1>2, IdleAndDone DEF CreditLoad
  <2>2. /\ sess'[s].pc = "crediting" /\ "credit" \in Kinds
        /\ \A t \in Sessions \ {s} : sess'[t] = sess[t]
        /\ UNCHANGED <<userLock, eventLock>>
    BY <1>2 DEF CreditLoad, TypeOK, locks
  <2> QED
    BY <2>1, <2>2 DEF LockInv, Locked
<1>3. ASSUME NEW s \in Sessions, LockUser(s)
      PROVE  LockInv'
  <2>1. sess[s] \in Working
    BY <1>3, WorkingByPc DEF LockUser
  <2>2. /\ sess[s].pc = "loaded" /\ sess'[s].pc = "locked"
        /\ sess'[s].user = sess[s].user /\ sess'[s].event = sess[s].event
        /\ sess'[s].me = sess[s].me
        /\ sess'[s].kind = sess[s].kind
        /\ \A t \in Sessions \ {s} : sess'[t] = sess[t]
    BY <1>3, <2>1 DEF LockUser, TypeOK, Working
  <2>3. /\ userLock[sess[s].user] = NoSession /\ userLock'[sess[s].user] = s
        /\ \A u \in Users \ {sess[s].user} : userLock'[u] = userLock[u]
        /\ UNCHANGED eventLock
    BY <1>3, <2>1 DEF LockUser, TypeOK, Working
  <2>4. \A t \in Sessions : Locked(t) => sess[t].user \in Users
    BY WorkingByPc DEF Locked, Working
  <2> QED
    BY <2>2, <2>3, <2>4 DEF LockInv, Locked, HeptaCoinAssumption
<1>4. ASSUME NEW s \in Sessions, LockEvent(s)
      PROVE  LockInv'
  <2>1. sess[s] \in Working
    BY <1>4, WorkingByPc DEF LockEvent
  <2>2. /\ sess[s].pc = "locked" /\ sess'[s].pc = "both"
        /\ sess'[s].user = sess[s].user /\ sess'[s].event = sess[s].event
        /\ sess'[s].me = sess[s].me
        /\ sess'[s].kind = sess[s].kind /\ sess[s].kind \in {"issue", "quiz"}
        /\ \A t \in Sessions \ {s} : sess'[t] = sess[t]
    BY <1>4, <2>1 DEF LockEvent, TypeOK, Working
  <2>3. /\ UNCHANGED userLock
        /\ \A e \in Events : eventLock'[e] = IF e = sess[s].event THEN s ELSE eventLock[e]
    BY <1>4, <2>1 DEF LockEvent, TypeOK, Working
  <2> QED
    BY <2>2, <2>3 DEF LockInv, Locked
<1>5. ASSUME NEW s \in Sessions, IssueCertificate(s) \/ IssueQuizCertificate(s)
      PROVE  LockInv'
  BY <1>5, EndSessionLocks DEF IssueCertificate, IssueQuizCertificate, IssueOne
<1>6. ASSUME NEW s \in Sessions, NEW a \in Attendees,
             CertifySkip(s, a) \/ CertifyCheck(s, a)
      PROVE  LockInv'
  <2>1. sess[s] \in Working
    BY <1>6, WorkingByPc DEF CertifySkip, CertifyCheck, CertifyReady
  <2>2. /\ sess[s].pc = "locked" /\ sess'[s].pc \in {"locked", "checked"}
        /\ sess'[s].user = sess[s].user /\ sess'[s].event = sess[s].event
        /\ sess'[s].me = sess[s].me
        /\ sess'[s].kind = sess[s].kind /\ sess[s].kind = "certify"
        /\ \A t \in Sessions \ {s} : sess'[t] = sess[t]
        /\ UNCHANGED <<userLock, eventLock>>
    BY <1>6, <2>1 DEF CertifySkip, CertifyCheck, CertifyReady, TypeOK, Working, locks
  <2> QED
    BY <2>2 DEF LockInv, Locked
<1>7. ASSUME NEW s \in Sessions, CertifyAttendee(s)
      PROVE  LockInv'
  <2>1. sess[s] \in Working
    BY <1>7, WorkingByPc DEF CertifyAttendee
  <2>2. /\ sess[s].pc = "checked" /\ sess'[s].pc = "locked"
        /\ sess'[s].user = sess[s].user /\ sess'[s].event = sess[s].event
        /\ sess'[s].me = sess[s].me
        /\ sess'[s].kind = sess[s].kind
        /\ \A t \in Sessions \ {s} : sess'[t] = sess[t]
    BY <1>7, CertifyAttendeeStep
  <2>3. /\ UNCHANGED userLock
        /\ \A e \in Events : eventLock'[e] = IF e = sess[s].event THEN s ELSE eventLock[e]
    BY <1>7, <2>1 DEF CertifyAttendee, TypeOK, Working
  <2> QED
    BY <2>2, <2>3 DEF LockInv, Locked
<1>8. ASSUME NEW s \in Sessions,
             \/ CertifyRefuse(s) \/ CertifyCommit(s)
             \/ CreditCommit(s) \/ Rollback(s)
      PROVE  LockInv'
  BY <1>8, EndSessionLocks DEF CertifyRefuse, CertifyCommit, CreditCommit, Rollback
<1>9. CASE DeleteCertificate \/ AllServed \/ UNCHANGED vars
  BY <1>9 DEF DeleteCertificate, AllServed, vars, locks, LockInv, Locked
<1>10. ASSUME NEW s \in Sessions, LoadIssue(s) \/ LoadQuiz(s) \/ LoadCertify(s)
       PROVE  LockInv'
  <2>1. PICK k \in HandlerKinds, e \in Events, todo \in SUBSET Attendees :
          \E me \in Team[e] \cup {Owner[e]} : Load(s, k, me, e, todo)
    BY <1>10 DEF LoadIssue, LoadQuiz, LoadCertify, HandlerKinds
  <2> QED
    BY <1>1, <2>1
<1> QED
  BY <1>2, <1>3, <1>4, <1>5, <1>6, <1>7, <1>8, <1>9, <1>10 DEF Next, Start, Proceed

\* What the control states say about the locks is an invariant.
LEMMA LockInvariant == Spec => [](TypeOK /\ LockInv)
<1>1. Init => TypeOK /\ LockInv
  <2>1. Init => LockInv
    <3>1. Init => \A s \in Sessions : sess[s].pc = "idle"
      BY IdleAndDone DEF Init
    <3>2. Init => \A e \in Events, s \in Sessions : eventLock[e] # s
      BY HeptaCoinAssumption DEF Init, HeptaCoinAssumption
    <3> QED
      BY <3>1, <3>2 DEF LockInv, Locked
  <2> QED
    BY <2>1, HeptaCoinAssumption DEF Init, TypeOK, Session, HeptaCoinAssumption
<1>2. TypeOK /\ LockInv /\ [Next]_vars => (TypeOK /\ LockInv)'
  BY NextType, NextLocks, HeptaCoinAssumption
<1> QED
  BY <1>1, <1>2, PTL DEF Spec

\* Whatever handlers run, no session locks an event whose owner's row it does
\* not hold: the lock order user -> event that rules out lock cycles.
THEOREM LockOrderHolds == Spec => []LockOrder
<1>1. TypeOK /\ LockInv => LockOrder
  BY WorkingByPc DEF LockInv, LockOrder, Locked
<1> QED
  BY <1>1, LockInvariant, PTL

-----------------------------------------------------------------------------
(* The balance a spending session works with.                               *)

\* A commit that writes the balance of one user, by a session that holds her
\* row, leaves every other session's copy of a balance as good as it was.
LEMMA CommitFresh ==
  ASSUME TypeOK, LockInv, FreshInv, NEW s \in Sessions, EndSession(s),
         Locked(s), \A u \in Users \ {sess[s].user} : balance'[u] = balance[u]
  PROVE  FreshInv'
<1>1. sess'[s].pc = "done" /\ \A t \in Sessions \ {s} : sess'[t] = sess[t]
  BY IdleAndDone DEF EndSession, TypeOK
<1>2. ASSUME NEW t \in Sessions \ {s}, Locked(t)
      PROVE  balance'[sess[t].user] = balance[sess[t].user]
  <2>1. sess[t].user \in Users
    BY <1>2, WorkingByPc DEF Locked, Working
  <2>2. sess[t].user # sess[s].user
    BY <1>2 DEF LockInv
  <2> QED
    BY <2>1, <2>2
<1>3. ASSUME NEW t \in Sessions
      PROVE  FreshInv!(t)'
  BY <1>1, <1>2, <1>3 DEF FreshInv, Locked
<1> QED
  BY <1>3 DEF FreshInv

\* So does a step that writes no balance and only ends a session.
LEMMA EndFresh ==
  ASSUME TypeOK, FreshInv, NEW s \in Sessions, EndSession(s), UNCHANGED balance
  PROVE  FreshInv'
<1>1. sess'[s].pc = "done" /\ \A t \in Sessions \ {s} : sess'[t] = sess[t]
  BY IdleAndDone DEF EndSession, TypeOK
<1> QED
  BY <1>1 DEF FreshInv, Locked

\* What issuing one certificate does to the account of the billed user.
LEMMA IssueOneAccount ==
  ASSUME TypeOK, LockInv, FreshInv, HeptaCoinAssumption, NEW s \in Sessions,
         NEW metered \in BOOLEAN, IssueOne(s, metered)
  PROVE  /\ EndSession(s) /\ Locked(s) /\ sess[s].user \in Users
         /\ \/ UNCHANGED <<balance, credited, spent>>
            \/ \E cost \in Nat :
                 /\ sess[s].bal >= cost
                 /\ balance' = [balance EXCEPT ![sess[s].user] = sess[s].bal - cost]
                 /\ spent' = [spent EXCEPT ![sess[s].user] = @ + cost]
                 /\ UNCHANGED credited
<1>1. PICK h \in HostingUnits, a \in sess[s].todo :
        LET cost == IssueUnits + h IN
        /\ sess[s].pc = "both"
        /\ IF metered /\ sess[s].bal < cost
           THEN UNCHANGED rows
           ELSE /\ certSeq' = [certSeq EXCEPT ![sess[s].event] = sess[s].seq + 1]
                /\ certs' = certs \cup
                     {NewCertificate(s, sess[s].seq + 1, a, IF metered THEN cost ELSE 0)}
                /\ IF metered THEN Debit(s, cost) ELSE UNCHANGED <<balance, ledger>>
        /\ EndSession(s)
  BY DEF IssueOne
<1>2. sess[s] \in Working
  BY <1>1, WorkingByPc
<1>3. sess[s].user \in Users /\ sess[s].bal \in Int /\ IssueUnits + h \in Nat
  BY <1>1, <1>2 DEF Working, HeptaCoinAssumption
<1>4. CASE metered /\ sess[s].bal >= IssueUnits + h
  BY <1>1, <1>3, <1>4 DEF Debit, Locked
<1>5. CASE ~(metered /\ sess[s].bal >= IssueUnits + h)
  BY <1>1, <1>3, <1>5 DEF rows, ledger, Locked
<1> QED
  BY <1>4, <1>5

\* Every step keeps the copies of balances under the locks fresh.
LEMMA NextFresh ==
  ASSUME TypeOK, TypeOK', LockInv, FreshInv, HeptaCoinAssumption, [Next]_vars
  PROVE  FreshInv'
<1>1. ASSUME NEW s \in Sessions, LoadIssue(s) \/ LoadQuiz(s) \/ LoadCertify(s)
      PROVE  FreshInv'
  <2>1. /\ sess'[s].pc = "loaded" /\ sess'[s].debits = 0
        /\ \A t \in Sessions \ {s} : sess'[t] = sess[t]
        /\ UNCHANGED balance
    BY <1>1 DEF LoadIssue, LoadQuiz, LoadCertify, Load, TypeOK, rows
  <2> QED
    BY <2>1 DEF FreshInv, Locked
<1>2. ASSUME NEW s \in Sessions, CreditLoad(s)
      PROVE  FreshInv'
  <2>1. /\ sess'[s].pc = "crediting"
        /\ \A t \in Sessions \ {s} : sess'[t] = sess[t]
        /\ UNCHANGED balance
    BY <1>2 DEF CreditLoad, TypeOK, rows
  <2> QED
    BY <2>1 DEF FreshInv, Locked
<1>3. ASSUME NEW s \in Sessions, LockUser(s)
      PROVE  FreshInv'
  <2>1. sess[s] \in Working
    BY <1>3, WorkingByPc DEF LockUser
  <2>2. /\ sess[s].pc = "loaded" /\ sess'[s].pc = "locked"
        /\ sess'[s].user = sess[s].user /\ sess'[s].kind = sess[s].kind
        /\ sess'[s].debits = sess[s].debits /\ sess'[s].bal = balance[sess[s].user]
        /\ \A t \in Sessions \ {s} : sess'[t] = sess[t]
        /\ UNCHANGED balance
    BY <1>3, <2>1 DEF LockUser, TypeOK, Working, rows
  <2>3. sess[s].debits = 0
    BY <2>2 DEF FreshInv
  <2>4. balance[sess[s].user] \in Int
    BY <2>1 DEF TypeOK, Working
  <2> QED
    BY <2>2, <2>3, <2>4 DEF FreshInv, Locked
<1>4. ASSUME NEW s \in Sessions, LockEvent(s)
      PROVE  FreshInv'
  <2>1. sess[s] \in Working
    BY <1>4, WorkingByPc DEF LockEvent
  <2>2. /\ sess[s].pc = "locked" /\ sess'[s].pc = "both"
        /\ sess'[s].user = sess[s].user /\ sess'[s].kind = sess[s].kind
        /\ sess'[s].debits = sess[s].debits /\ sess'[s].bal = sess[s].bal
        /\ \A t \in Sessions \ {s} : sess'[t] = sess[t]
        /\ UNCHANGED balance
    BY <1>4, <2>1 DEF LockEvent, TypeOK, Working, rows
  <2> QED
    BY <2>2 DEF FreshInv, Locked
<1>5. ASSUME NEW s \in Sessions, IssueCertificate(s) \/ IssueQuizCertificate(s)
      PROVE  FreshInv'
  <2>1. PICK metered \in BOOLEAN : IssueOne(s, metered)
    BY <1>5 DEF IssueCertificate, IssueQuizCertificate, Metered
  <2>2. \A u \in Users \ {sess[s].user} : balance'[u] = balance[u]
    BY <2>1, IssueOneAccount DEF TypeOK
  <2> QED
    BY <2>1, <2>2, IssueOneAccount, CommitFresh
<1>6. ASSUME NEW s \in Sessions, NEW a \in Attendees,
             CertifySkip(s, a) \/ CertifyCheck(s, a)
      PROVE  FreshInv'
  <2>1. sess[s] \in Working
    BY <1>6, WorkingByPc DEF CertifySkip, CertifyCheck, CertifyReady
  <2>2. /\ sess[s].pc = "locked" /\ sess'[s].pc \in {"locked", "checked"}
        /\ sess'[s].user = sess[s].user
        /\ sess'[s].kind = sess[s].kind /\ sess[s].kind = "certify"
        /\ sess'[s].debits = sess[s].debits /\ sess'[s].bal = sess[s].bal
        /\ \A t \in Sessions \ {s} : sess'[t] = sess[t]
        /\ UNCHANGED balance
    BY <1>6, <2>1 DEF CertifySkip, CertifyCheck, CertifyReady, TypeOK, Working, rows
  <2> QED
    BY <2>2 DEF FreshInv, Locked
<1>7. ASSUME NEW s \in Sessions, CertifyAttendee(s)
      PROVE  FreshInv'
  <2>1. sess[s] \in Working /\ sess'[s] \in Working
    BY <1>7, WorkingByPc, WorkingByPcPrimed, CertifyAttendeeStep DEF CertifyAttendee
  <2>2. /\ sess[s].bal \in Int /\ sess[s].debits \in Nat
        /\ sess'[s].bal \in Int /\ sess'[s].debits \in Nat
        /\ balance[sess[s].user] \in Int
    BY <2>1 DEF TypeOK, Working
  <2>3. UNCHANGED balance /\ sess[s].kind = "certify"
    BY <1>7, CertifyAttendeeStep DEF CertifyAttendee, rows, LockInv
  <2>4. Locked(s)
    BY <1>7, CertifyAttendeeStep DEF Locked
  <2>5. "credit" \notin Kinds => sess'[s].bal = balance[sess[s].user] - sess'[s].debits
    BY <1>7, <2>2, <2>4, CertifyAttendeeStep DEF FreshInv
  <2> QED
    BY <1>7, <2>3, <2>5, CertifyAttendeeStep DEF FreshInv, Locked
<1>8. ASSUME NEW s \in Sessions, CertifyRefuse(s) \/ Rollback(s)
      PROVE  FreshInv'
  BY <1>8, EndFresh DEF CertifyRefuse, Rollback, rows
<1>9. ASSUME NEW s \in Sessions, CertifyCommit(s)
      PROVE  FreshInv'
  BY <1>9, CommitFresh DEF CertifyCommit, CertifyReady, Locked, TypeOK
<1>10. ASSUME NEW s \in Sessions, CreditCommit(s)
       PROVE  FreshInv'
  <2>1. "credit" \in Kinds
    BY <1>10 DEF CreditCommit, LockInv
  <2>2. sess'[s].pc = "done" /\ \A t \in Sessions \ {s} : sess'[t] = sess[t]
    BY <1>10, IdleAndDone DEF CreditCommit, EndSession, TypeOK
  <2> QED
    BY <2>1, <2>2 DEF FreshInv, Locked
<1>11. CASE DeleteCertificate \/ AllServed \/ UNCHANGED vars
  BY <1>11 DEF DeleteCertificate, AllServed, vars, FreshInv, Locked
<1> QED
  BY <1>1, <1>2, <1>3, <1>4, <1>5, <1>6, <1>7, <1>8, <1>9, <1>10, <1>11
  DEF Next, Start, Proceed

\* A session that spends outside bulk certification has debited nothing before.
LEMMA SpendingByIssue ==
  ASSUME LockInv, FreshInv, NEW s \in Sessions, Locked(s), sess[s].kind # "certify"
  PROVE  sess[s].debits = 0
BY DEF LockInv, FreshInv, Locked

\* The inductive invariant: types, locks, and the freshness of every balance
\* that is read under a lock.
LEMMA FreshInvariant == Spec => [](TypeOK /\ LockInv /\ FreshInv)
<1>1. Init => FreshInv
  <2>1. Init => \A s \in Sessions : sess[s].pc = "idle"
    BY IdleAndDone DEF Init
  <2> QED
    BY <2>1 DEF FreshInv, Locked
<1>2. TypeOK /\ TypeOK' /\ LockInv /\ FreshInv /\ [Next]_vars => FreshInv'
  BY NextFresh, HeptaCoinAssumption
<1> QED
  BY <1>1, <1>2, LockInvariant, PTL DEF Spec

-----------------------------------------------------------------------------
(* The accounts.                                                            *)

\* Session s takes cost units, which the balance it holds covers, from its user.
Spends(s, cost) ==
  /\ Locked(s) /\ sess[s].kind # "certify"
  /\ sess[s].user \in Users /\ sess[s].bal >= cost
  /\ balance' = [balance EXCEPT ![sess[s].user] = sess[s].bal - cost]
  /\ spent' = [spent EXCEPT ![sess[s].user] = @ + cost]
  /\ UNCHANGED credited

\* A step leaves all accounts alone, or is one of the three commits that do not.
LEMMA NextAccount ==
  ASSUME TypeOK, LockInv, FreshInv, HeptaCoinAssumption, [Next]_vars
  PROVE  \/ UNCHANGED <<balance, credited, spent>>
         \/ \E s \in Sessions, cost \in Nat : Spends(s, cost)
         \/ \E s \in Sessions : CertifyCommit(s) \/ CreditCommit(s)
<1>1. ASSUME NEW s \in Sessions, IssueCertificate(s) \/ IssueQuizCertificate(s)
      PROVE  \/ UNCHANGED <<balance, credited, spent>>
             \/ \E cost \in Nat : Spends(s, cost)
  <2>1. PICK metered \in BOOLEAN : IssueOne(s, metered)
    BY <1>1 DEF IssueCertificate, IssueQuizCertificate, Metered
  <2>2. sess[s].kind # "certify"
    BY <1>1 DEF IssueCertificate, IssueQuizCertificate
  <2> QED
    BY <2>1, <2>2, IssueOneAccount DEF Spends
<1>2. ASSUME NEW s \in Sessions, Start(s)
      PROVE  UNCHANGED <<balance, credited, spent>>
  BY <1>2 DEF Start, LoadIssue, LoadQuiz, LoadCertify, Load, CreditLoad, rows
<1>3. ASSUME NEW s \in Sessions,
             \/ LockUser(s) \/ LockEvent(s) \/ CertifyAttendee(s)
             \/ CertifyRefuse(s) \/ Rollback(s)
             \/ \E a \in Attendees : CertifySkip(s, a) \/ CertifyCheck(s, a)
      PROVE  UNCHANGED <<balance, credited, spent>>
  BY <1>3 DEF LockUser, LockEvent, CertifyAttendee, CertifyRefuse, Rollback,
              CertifySkip, CertifyCheck, rows
<1>4. CASE DeleteCertificate \/ AllServed \/ UNCHANGED vars
  BY <1>4 DEF DeleteCertificate, AllServed, vars, ledger
<1> QED
  BY <1>1, <1>2, <1>3, <1>4 DEF Next, Proceed

\* Without superadmin credits and without teams every commit moves balance and
\* ledger together, whichever spending handlers run and however they interleave.
\* (quiz_api.py:207-209, main.py:10488-10490, main.py:14150-14154.)
THEOREM LedgerIsBalanced ==
  ASSUME "credit" \notin Kinds,
         "certify" \notin Kinds \/ \A e \in Events : Team[e] \subseteq {Owner[e]}
  PROVE  Spec => []LedgerBalanced
<1>1. Init => LedgerBalanced
  BY HeptaCoinAssumption DEF Init, LedgerBalanced, Posted, HeptaCoinAssumption
<1>2. ASSUME TypeOK, TypeOK', LockInv, FreshInv, LedgerBalanced, [Next]_vars
      PROVE  LedgerBalanced'
  <2> USE DEF LedgerBalanced, Posted
  <2>0. Opening \in Nat
    BY HeptaCoinAssumption DEF HeptaCoinAssumption
  <2>1. CASE UNCHANGED <<balance, credited, spent>>
    BY <1>2, <2>1
  <2>2. ASSUME NEW s \in Sessions, NEW cost \in Nat, Spends(s, cost)
        PROVE  LedgerBalanced'
    <3>1. sess[s].debits = 0
      BY <1>2, <2>2, SpendingByIssue DEF Spends
    <3>2. sess[s].bal = balance[sess[s].user]
      BY <1>2, <2>2, <3>1 DEF FreshInv, Spends, TypeOK
    <3> QED
      BY <1>2, <2>0, <2>2, <3>2 DEF Spends, TypeOK
  <2>3. ASSUME NEW s \in Sessions, CertifyCommit(s)
        PROVE  LedgerBalanced'
    <3>1. sess[s] \in Working
      BY <1>2, <2>3, WorkingByPc DEF CertifyCommit, CertifyReady
    <3>2. sess[s].user \in Users /\ sess[s].debits \in Nat /\ sess[s].event \in Events
      BY <3>1 DEF Working
    <3>4. sess[s].me = sess[s].user
      BY <1>2, <2>3, <3>2 DEF LockInv, CertifyCommit, CertifyReady
    <3>3. sess[s].bal = balance[sess[s].user] - sess[s].debits
      BY <1>2, <2>3 DEF FreshInv, CertifyCommit, CertifyReady, Locked
    <3> QED
      BY <1>2, <2>0, <2>3, <3>2, <3>3, <3>4 DEF CertifyCommit, TypeOK
  <2>4. ASSUME NEW s \in Sessions, CreditCommit(s)
        PROVE  FALSE
    BY <1>2, <2>4 DEF LockInv, CreditCommit
  <2> QED
    BY <1>2, <2>1, <2>2, <2>3, <2>4, NextAccount, HeptaCoinAssumption
<1> QED
  BY <1>1, <1>2, FreshInvariant, PTL DEF Spec

\* A credit works with a balance some user had when it was loaded.
LEMMA NextCrediting ==
  ASSUME TypeOK, TypeOK', HeptaCoinAssumption, [Next]_vars,
         NEW s \in Sessions, sess'[s].pc = "crediting"
  PROVE  sess'[s] = sess[s] \/ \E u \in Users : sess'[s].bal = balance[u]
<1>1. ASSUME NEW t \in Sessions, CreditLoad(t)
      PROVE  sess'[s] = sess[s] \/ \E u \in Users : sess'[s].bal = balance[u]
  BY <1>1 DEF CreditLoad, TypeOK
<1>2. ASSUME NEW t \in Sessions, EndSession(t)
      PROVE  sess'[s] = sess[s]
  BY <1>2, IdleAndDone DEF EndSession, TypeOK
<1>3. ASSUME NEW t \in Sessions, LoadIssue(t) \/ LoadQuiz(t) \/ LoadCertify(t)
      PROVE  sess'[s] = sess[s]
  BY <1>3 DEF LoadIssue, LoadQuiz, LoadCertify, Load, TypeOK
<1>4. ASSUME NEW t \in Sessions, LockUser(t) \/ LockEvent(t)
      PROVE  sess'[s] = sess[s]
  <2>1. sess[t] \in Working
    BY <1>4, WorkingByPc DEF LockUser, LockEvent
  <2> QED
    BY <1>4, <2>1 DEF LockUser, LockEvent, TypeOK, Working
<1>5. ASSUME NEW t \in Sessions,
             \E a \in Attendees : CertifySkip(t, a) \/ CertifyCheck(t, a)
      PROVE  sess'[s] = sess[s]
  <2>1. sess[t] \in Working
    BY <1>5, WorkingByPc DEF CertifySkip, CertifyCheck, CertifyReady
  <2> QED
    BY <1>5, <2>1 DEF CertifySkip, CertifyCheck, CertifyReady, TypeOK, Working
<1>6. ASSUME NEW t \in Sessions, CertifyAttendee(t)
      PROVE  sess'[s] = sess[s]
  BY <1>6, CertifyAttendeeStep
<1>7. CASE DeleteCertificate \/ AllServed \/ UNCHANGED vars
  BY <1>7 DEF DeleteCertificate, AllServed, vars
<1> QED
  BY <1>1, <1>2, <1>3, <1>4, <1>5, <1>6, <1>7
  DEF Next, Start, Proceed, IssueCertificate, IssueQuizCertificate, IssueOne,
      CertifyRefuse, CertifyCommit, CreditCommit, Rollback

\* Credits never start from a negative balance.
CreditsFromBalance ==
  \A s \in Sessions : sess[s].pc = "crediting" => sess[s].bal >= 0

\* Without bulk certification no balance goes below zero, even though a credit
\* may overwrite a debit or another credit.
THEOREM NeverOverdrawn ==
  ASSUME "certify" \notin Kinds
  PROVE  Spec => []NoOverdraft
<1>1. Init => NoOverdraft /\ CreditsFromBalance
  BY HeptaCoinAssumption, IdleAndDone
  DEF Init, NoOverdraft, CreditsFromBalance, HeptaCoinAssumption
<1>2. ASSUME TypeOK, TypeOK', LockInv, FreshInv, NoOverdraft, CreditsFromBalance,
             [Next]_vars
      PROVE  (NoOverdraft /\ CreditsFromBalance)'
  <2>1. CreditsFromBalance'
    <3> SUFFICES ASSUME NEW s \in Sessions, sess'[s].pc = "crediting"
                 PROVE  sess'[s].bal >= 0
      BY DEF CreditsFromBalance
    <3> QED
      BY <1>2, NextCrediting, HeptaCoinAssumption DEF NoOverdraft, CreditsFromBalance
  <2>2. CASE UNCHANGED <<balance, credited, spent>>
    BY <1>2, <2>1, <2>2 DEF NoOverdraft
  <2>3. ASSUME NEW s \in Sessions, NEW cost \in Nat, Spends(s, cost)
        PROVE  NoOverdraft'
    <3>1. sess[s].bal \in Int
      BY <1>2, <2>3, WorkingByPc DEF Spends, Locked, Working
    <3> QED
      BY <1>2, <2>3, <3>1 DEF Spends, TypeOK, NoOverdraft
  <2>4. ASSUME NEW s \in Sessions, CertifyCommit(s)
        PROVE  FALSE
    BY <1>2, <2>4 DEF CertifyCommit, CertifyReady, LockInv
  <2>5. ASSUME NEW s \in Sessions, CreditCommit(s)
        PROVE  NoOverdraft'
    <3>1. sess[s] \in Crediting
      BY <1>2, <2>5, CreditingByPc DEF CreditCommit
    <3>2. sess[s].bal \in Int /\ sess[s].amount \in Nat /\ sess[s].bal >= 0
      BY <1>2, <2>5, <3>1 DEF Crediting, CreditsFromBalance, CreditCommit
    <3> QED
      BY <1>2, <2>5, <3>2 DEF CreditCommit, TypeOK, NoOverdraft
  <2> QED
    BY <1>2, <2>1, <2>2, <2>3, <2>4, <2>5, NextAccount, HeptaCoinAssumption
<1> QED
  BY <1>1, <1>2, FreshInvariant, PTL DEF Spec

\* Single issuing and quiz certificates, interleaved at will, never spend units
\* the ledger does not hold.
THEOREM NeverDoubleSpent ==
  ASSUME "credit" \notin Kinds, "certify" \notin Kinds
  PROVE  Spec => []NoDoubleSpend
<1>1. LedgerBalanced /\ NoOverdraft => NoDoubleSpend
  BY DEF LedgerBalanced, NoOverdraft, NoDoubleSpend
<1> QED
  BY <1>1, LedgerIsBalanced, NeverOverdrawn, PTL

-----------------------------------------------------------------------------
(* Sums over finite sets.  The library's induction theorems take an operator *)
(* as a parameter; what is proved by induction here is proved from a smallest *)
(* counterexample, which FS_StrictSubsetOrderingWellFounded provides.         *)

\* The sum of w[x] over the x in S; the element its definition takes first; and
\* what it asks of the function it is read from.
Total(w, S) == MapThenSumSet(LAMBDA x : w[x], S)
Some(s) == CHOOSE x \in s : TRUE
Sums(w, S, g) ==
  g = [s \in SUBSET S |-> IF s = {} THEN 0 ELSE w[Some(s)] + g[s \ {Some(s)}]]

\* Among sets of subsets of a finite set there is one with no smaller one.
LEMMA SmallestSet ==
  ASSUME NEW S, IsFiniteSet(S), NEW bad, bad \subseteq SUBSET S, bad # {}
  PROVE  \E T \in bad : \A U \in SUBSET T : U # T => U \notin bad
<1>1. IsWellFoundedOn(StrictSubsetOrdering(S), SUBSET S)
  BY FS_StrictSubsetOrderingWellFounded, FS_FiniteSubsetsOfFinite
<1>2. PICK T \in bad : \A U \in bad : <<U, T>> \notin StrictSubsetOrdering(S)
  BY <1>1, WFMin, Zenon
<1>3. QED
  BY <1>2 DEF StrictSubsetOrdering

\* The element taken first is one.
LEMMA SomeElement == ASSUME NEW s, s # {} PROVE Some(s) \in s
  BY DEF Some

\* The sum is read from a function that Sums describes, if there is one.
LEMMA TotalChooses == \A w, S : Total(w, S) = (CHOOSE g : Sums(w, S, g))[S]
  BY DEF Total, MapThenSumSet, MapThenFoldSet, Sums, Some

\* What such a function is at each subset.
LEMMA SumsEquation ==
  ASSUME NEW w, NEW S, NEW g, Sums(w, S, g), NEW s \in SUBSET S
  PROVE  g[s] = IF s = {} THEN 0 ELSE w[Some(s)] + g[s \ {Some(s)}]
  BY Zenon DEF Sums

\* Two of them agree wherever both are defined.
LEMMA SumsUnique ==
  ASSUME NEW w, NEW S, NEW T, IsFiniteSet(S), NEW g, NEW h, Sums(w, S, g), Sums(w, T, h)
  PROVE  \A s \in SUBSET (S \cap T) : g[s] = h[s]
<1> DEFINE bad == {s \in SUBSET (S \cap T) : g[s] # h[s]}
<1>1. SUFFICES ASSUME bad # {} PROVE FALSE
  OBVIOUS
<1>sub. bad \subseteq SUBSET (S \cap T)
  OBVIOUS
<1> HIDE DEF bad
<1>2. PICK s \in bad : \A u \in SUBSET s : u # s => u \notin bad
  BY <1>1, <1>sub, SmallestSet
<1> USE DEF bad
<1>3. s \in SUBSET S /\ s \in SUBSET T /\ g[s] # h[s]
  BY <1>2
<1>4. /\ g[s] = IF s = {} THEN 0 ELSE w[Some(s)] + g[s \ {Some(s)}]
      /\ h[s] = IF s = {} THEN 0 ELSE w[Some(s)] + h[s \ {Some(s)}]
  BY <1>3, SumsEquation
<1>5. s # {}
  BY <1>3, <1>4
<1>6. s \ {Some(s)} \in SUBSET s /\ s \ {Some(s)} # s
  BY <1>5, SomeElement
<1>7. g[s \ {Some(s)}] = h[s \ {Some(s)}]
  BY <1>2, <1>3, <1>6
<1>8. QED
  BY <1>3, <1>4, <1>7

\* There is one for every finite set.
LEMMA SumsExist ==
  ASSUME NEW w, NEW S, IsFiniteSet(S)
  PROVE  \A T \in SUBSET S : \E g : Sums(w, T, g)
<1> DEFINE bad == {T \in SUBSET S : ~\E g : Sums(w, T, g)}
<1>1. SUFFICES ASSUME bad # {} PROVE FALSE
  OBVIOUS
<1>sub. bad \subseteq SUBSET S
  OBVIOUS
<1> HIDE DEF bad
<1>2. PICK T \in bad : \A u \in SUBSET T : u # T => u \notin bad
  BY <1>1, <1>sub, SmallestSet
<1> USE DEF bad
<1>3. T \in SUBSET S /\ \A u \in SUBSET T : u # T => \E g : Sums(w, u, g)
  BY <1>2
<1> DEFINE G == [s \in SUBSET T |-> IF s = {} THEN 0 ELSE w[Some(s)] + Total(w, s \ {Some(s)})]
<1>4. ASSUME NEW u \in SUBSET T, u # T
      PROVE  G[u] = Total(w, u)
  <2>1. PICK g : g = (CHOOSE f : Sums(w, u, f)) /\ Sums(w, u, g)
    BY <1>3, <1>4
  <2>2. Total(w, u) = g[u]
    BY <2>1, TotalChooses
  <2>3. g[u] = IF u = {} THEN 0 ELSE w[Some(u)] + g[u \ {Some(u)}]
    BY <2>1, SumsEquation
  <2>4. CASE u = {}
    BY <2>2, <2>3, <2>4
  <2>5. CASE u # {}
    <3> DEFINE v == u \ {Some(u)}
    <3>1. v \in SUBSET u /\ v \in SUBSET T /\ v # T
      BY <1>4
    <3>2. PICK h : h = (CHOOSE f : Sums(w, v, f)) /\ Sums(w, v, h)
      BY <1>3, <3>1
    <3>3. Total(w, v) = h[v]
      BY <3>2, TotalChooses
    <3>4. IsFiniteSet(v)
      BY <1>3, <3>1, FS_Subset
    <3>5. v \in SUBSET (v \cap u)
      BY <3>1
    <3>6. h[v] = g[v]
      BY <2>1, <3>2, <3>4, <3>5, SumsUnique
    <3>7. QED
      BY <2>2, <2>3, <2>5, <3>3, <3>6
  <2>6. QED
    BY <2>4, <2>5
<1>5. G = [s \in SUBSET T |-> IF s = {} THEN 0 ELSE w[Some(s)] + G[s \ {Some(s)}]]
  <2>1. ASSUME NEW s \in SUBSET T, s # {}
        PROVE  G[s \ {Some(s)}] = Total(w, s \ {Some(s)})
    <3>1. Some(s) \in s
      BY <2>1, SomeElement
    <3>2. s \ {Some(s)} \in SUBSET T /\ s \ {Some(s)} # T
      BY <3>1
    <3>3. QED
      BY <1>4, <3>2
  <2>2. QED
    BY <2>1
<1>6. Sums(w, T, G)
  BY <1>5 DEF Sums
<1>7. QED
  BY <1>2, <1>6

\* What the sum is, with the element its definition chooses.
LEMMA TotalEquation ==
  ASSUME NEW w, NEW S, IsFiniteSet(S)
  PROVE  Total(w, S) = IF S = {} THEN 0 ELSE w[Some(S)] + Total(w, S \ {Some(S)})
<1> DEFINE v == S \ {Some(S)}
<1>1. IsFiniteSet(v) /\ v \in SUBSET S /\ S \in SUBSET S
  BY FS_Subset
<1>2. PICK g : g = (CHOOSE f : Sums(w, S, f)) /\ Sums(w, S, g)
  BY <1>1, SumsExist
<1>3. PICK h : h = (CHOOSE f : Sums(w, v, f)) /\ Sums(w, v, h)
  BY <1>1, SumsExist
<1>4. Total(w, S) = g[S] /\ Total(w, v) = h[v]
  BY <1>2, <1>3, TotalChooses
<1>5. g[S] = IF S = {} THEN 0 ELSE w[Some(S)] + g[v]
  <2>1. Sums(w, S, g) /\ S \in SUBSET S
    BY <1>2
  <2>2. QED
    BY <2>1, Zenon DEF Sums
<1>6. v \in SUBSET (v \cap S)
  BY <1>1
<1>7. h[v] = g[v]
  BY <1>1, <1>2, <1>3, <1>6, SumsUnique
<1>8. QED
  BY <1>4, <1>5, <1>7

\* The sum of natural numbers is one.
LEMMA TotalType ==
  ASSUME NEW U, NEW w \in [U -> Nat], NEW S \in SUBSET U, IsFiniteSet(S)
  PROVE  Total(w, S) \in Nat
<1> DEFINE bad == {T \in SUBSET S : Total(w, T) \notin Nat}
<1>1. SUFFICES ASSUME bad # {} PROVE FALSE
  OBVIOUS
<1>sub. bad \subseteq SUBSET S
  OBVIOUS
<1> HIDE DEF bad
<1>2. PICK T \in bad : \A u \in SUBSET T : u # T => u \notin bad
  BY <1>1, <1>sub, SmallestSet
<1> USE DEF bad
<1>3. T \in SUBSET S /\ Total(w, T) \notin Nat /\ IsFiniteSet(T)
  BY <1>2, FS_Subset
<1>4. Total(w, T) = IF T = {} THEN 0 ELSE w[Some(T)] + Total(w, T \ {Some(T)})
  BY <1>3, TotalEquation
<1>5. T # {}
  BY <1>3, <1>4
<1>6. Some(T) \in T
  BY <1>5, SomeElement
<1>7. Total(w, T \ {Some(T)}) \in Nat
  BY <1>2, <1>3, <1>6
<1>8. w[Some(T)] \in Nat
  BY <1>3, <1>6
<1>9. QED
  BY <1>3, <1>4, <1>5, <1>7, <1>8

\* Any element can be taken out first.
LEMMA TotalTakes ==
  ASSUME NEW U, NEW w \in [U -> Nat], NEW S \in SUBSET U, IsFiniteSet(S), NEW x \in S
  PROVE  Total(w, S) = w[x] + Total(w, S \ {x})
<1> DEFINE bad == {T \in SUBSET S : \E z \in T : Total(w, T) # w[z] + Total(w, T \ {z})}
<1>1. SUFFICES ASSUME bad # {} PROVE FALSE
  OBVIOUS
<1>sub. bad \subseteq SUBSET S
  OBVIOUS
<1> HIDE DEF bad
<1>2. PICK T \in bad : \A u \in SUBSET T : u # T => u \notin bad
  BY <1>1, <1>sub, SmallestSet
<1> USE DEF bad
<1>3. PICK z \in T : Total(w, T) # w[z] + Total(w, T \ {z})
  BY <1>2
<1>4. T \in SUBSET S /\ IsFiniteSet(T)
  BY <1>2, FS_Subset
<1> DEFINE y == Some(T)
<1>5. y \in T /\ Total(w, T) = w[y] + Total(w, T \ {y})
  BY <1>3, <1>4, SomeElement, TotalEquation
<1> HIDE DEF y
<1>6. y # z
  BY <1>3, <1>5
<1>7. Total(w, T \ {y}) = w[z] + Total(w, (T \ {y}) \ {z})
  BY <1>2, <1>3, <1>4, <1>5, <1>6
<1>8. Total(w, T \ {z}) = w[y] + Total(w, (T \ {z}) \ {y})
  BY <1>2, <1>3, <1>4, <1>5, <1>6
<1> DEFINE rest == (T \ {y}) \ {z}
<1>9. rest = (T \ {z}) \ {y} /\ rest \in SUBSET U /\ IsFiniteSet(rest)
  BY <1>4, FS_Subset
<1>10. Total(w, rest) \in Nat
  BY <1>9, TotalType
<1>11. w[y] \in Nat /\ w[z] \in Nat
  BY <1>3, <1>4, <1>5
<1>12. w[y] + (w[z] + Total(w, rest)) = w[z] + (w[y] + Total(w, rest))
  BY <1>10, <1>11
<1>13. QED
  BY <1>3, <1>5, <1>7, <1>8, <1>9, <1>12

\* Only the weights of the elements count.
LEMMA TotalSame ==
  ASSUME NEW w, NEW v, NEW S, IsFiniteSet(S), \A x \in S : w[x] = v[x]
  PROVE  Total(w, S) = Total(v, S)
<1> DEFINE bad == {T \in SUBSET S : Total(w, T) # Total(v, T)}
<1>1. SUFFICES ASSUME bad # {} PROVE FALSE
  OBVIOUS
<1>sub. bad \subseteq SUBSET S
  OBVIOUS
<1> HIDE DEF bad
<1>2. PICK T \in bad : \A u \in SUBSET T : u # T => u \notin bad
  BY <1>1, <1>sub, SmallestSet
<1> USE DEF bad
<1>3. T \in SUBSET S /\ Total(w, T) # Total(v, T) /\ IsFiniteSet(T)
  BY <1>2, FS_Subset
<1>4. /\ Total(w, T) = IF T = {} THEN 0 ELSE w[Some(T)] + Total(w, T \ {Some(T)})
      /\ Total(v, T) = IF T = {} THEN 0 ELSE v[Some(T)] + Total(v, T \ {Some(T)})
  BY <1>3, TotalEquation
<1>5. T # {}
  BY <1>3, <1>4
<1>6. Some(T) \in T
  BY <1>5, SomeElement
<1>7. Total(w, T \ {Some(T)}) = Total(v, T \ {Some(T)}) /\ w[Some(T)] = v[Some(T)]
  BY <1>2, <1>3, <1>6
<1>8. QED
  BY <1>3, <1>4, <1>7

\* A new element adds its weight.
LEMMA TotalAdds ==
  ASSUME NEW U, NEW w \in [U -> Nat], NEW S \in SUBSET U, IsFiniteSet(S), NEW x \in U, x \notin S
  PROVE  Total(w, S \cup {x}) = Total(w, S) + w[x]
<1>1. IsFiniteSet(S \cup {x}) /\ S \cup {x} \in SUBSET U /\ (S \cup {x}) \ {x} = S
  BY FS_AddElement
<1>2. Total(w, S \cup {x}) = w[x] + Total(w, S)
  BY <1>1, TotalTakes
<1>3. Total(w, S) \in Nat /\ w[x] \in Nat
  BY TotalType
<1>4. QED
  BY <1>2, <1>3

\* A new weight of one element replaces the old one.
LEMMA TotalChanges ==
  ASSUME NEW U, IsFiniteSet(U), NEW w \in [U -> Nat], NEW v \in [U -> Nat], NEW x \in U,
         \A y \in U \ {x} : v[y] = w[y]
  PROVE  Total(v, U) = (Total(w, U) - w[x]) + v[x]
<1>1. IsFiniteSet(U \ {x}) /\ U \in SUBSET U /\ U \ {x} \in SUBSET U
  BY FS_Subset
<1>2. Total(v, U) = v[x] + Total(v, U \ {x}) /\ Total(w, U) = w[x] + Total(w, U \ {x})
  BY <1>1, TotalTakes
<1>3. Total(v, U \ {x}) = Total(w, U \ {x})
  BY <1>1, TotalSame
<1>4. Total(w, U \ {x}) \in Nat /\ w[x] \in Nat /\ v[x] \in Nat
  BY <1>1, TotalType
<1>5. QED
  BY <1>2, <1>3, <1>4

\* The sum of zeros.
LEMMA TotalZero ==
  ASSUME NEW w, NEW S, IsFiniteSet(S), \A x \in S : w[x] = 0
  PROVE  Total(w, S) = 0
<1> DEFINE bad == {T \in SUBSET S : Total(w, T) # 0}
<1>1. SUFFICES ASSUME bad # {} PROVE FALSE
  OBVIOUS
<1>sub. bad \subseteq SUBSET S
  OBVIOUS
<1> HIDE DEF bad
<1>2. PICK T \in bad : \A u \in SUBSET T : u # T => u \notin bad
  BY <1>1, <1>sub, SmallestSet
<1> USE DEF bad
<1>3. T \in SUBSET S /\ Total(w, T) # 0 /\ IsFiniteSet(T)
  BY <1>2, FS_Subset
<1>4. Total(w, T) = IF T = {} THEN 0 ELSE w[Some(T)] + Total(w, T \ {Some(T)})
  BY <1>3, TotalEquation
<1>5. T # {} /\ Some(T) \in T
  BY <1>3, <1>4, SomeElement
<1>6. Total(w, T \ {Some(T)}) = 0 /\ w[Some(T)] = 0
  BY <1>2, <1>3, <1>5
<1>7. QED
  BY <1>3, <1>4, <1>5, <1>6

\* The sum over two sets that share no element.
LEMMA TotalUnion ==
  ASSUME NEW U, NEW w \in [U -> Nat], NEW A \in SUBSET U, IsFiniteSet(A),
         NEW B \in SUBSET U, IsFiniteSet(B), A \cap B = {}
  PROVE  Total(w, A \cup B) = Total(w, A) + Total(w, B)
<1> DEFINE bad == {T \in SUBSET B : Total(w, A \cup T) # Total(w, A) + Total(w, T)}
<1>1. SUFFICES ASSUME bad # {} PROVE FALSE
  OBVIOUS
<1>sub. bad \subseteq SUBSET B
  OBVIOUS
<1> HIDE DEF bad
<1>2. PICK T \in bad : \A u \in SUBSET T : u # T => u \notin bad
  BY <1>1, <1>sub, SmallestSet
<1> USE DEF bad
<1>3. T \in SUBSET B /\ Total(w, A \cup T) # Total(w, A) + Total(w, T) /\ IsFiniteSet(T)
  BY <1>2, FS_Subset
<1>4. Total(w, T) = IF T = {} THEN 0 ELSE w[Some(T)] + Total(w, T \ {Some(T)})
  BY <1>3, TotalEquation
<1>5. Total(w, A) \in Nat /\ Total(w, T) \in Nat
  BY <1>3, TotalType
<1>6. T # {}
  <2>1. SUFFICES ASSUME T = {} PROVE FALSE
    OBVIOUS
  <2>2. A \cup T = A /\ Total(w, T) = 0
    BY <2>1, <1>4
  <2>3. QED
    BY <1>3, <1>5, <2>2
<1> DEFINE x == Some(T)
           rest == T \ {x}
<1>7. x \in T /\ Total(w, T) = w[x] + Total(w, rest)
  BY <1>4, <1>6, SomeElement
<1> HIDE DEF x
<1>8. rest \in SUBSET B /\ rest \in SUBSET T /\ rest # T /\ IsFiniteSet(rest)
  BY <1>3, <1>7, FS_Subset
<1>9. Total(w, A \cup rest) = Total(w, A) + Total(w, rest)
  BY <1>2, <1>8
<1>10. /\ A \cup T \in SUBSET U /\ x \in A \cup T /\ (A \cup T) \ {x} = A \cup rest
       /\ x \in U
  BY <1>3, <1>7
<1>11. IsFiniteSet(A \cup T)
  BY <1>3, FS_Union
<1>12. Total(w, A \cup T) = w[x] + Total(w, A \cup rest)
  BY <1>10, <1>11, TotalTakes
<1>13. w[x] \in Nat /\ Total(w, rest) \in Nat
  BY <1>8, <1>10, TotalType
<1>14. QED
  BY <1>3, <1>5, <1>7, <1>9, <1>12, <1>13

-----------------------------------------------------------------------------
(* Certificates and what they cost.                                         *)

\* The weights of the certificates.
Cost == [c \in Certificate |-> c.cost]
\* The session is in a transaction that issues certificates.
Open(s) == sess[s].pc \in {"loaded", "locked", "both", "checked"}
\* A certificate the dedup query of bulk certification finds.
LiveCertify(c) == c.via = "certify" /\ ~c.deleted

\* The committed rows: finitely many, each of a session that is over, and one
\* for each public id.
RowInv ==
  /\ IsFiniteSet(certs)
  /\ \A c \in certs : sess[c.uuid[1]] = Done
  /\ \A c, d \in certs : c.uuid = d.uuid => c = d

\* What session s has added and not committed: one certificate per attendee
\* already served, whose costs are the debits; before bulk certification none.
CartOf(s) ==
  Open(s) =>
    /\ IsFiniteSet(sess[s].cart)
    /\ \A c \in sess[s].cart :
         /\ c.uuid = <<s, c.holder>> /\ c.event = sess[s].event
         /\ c.holder \notin sess[s].todo \cup sess[s].now
    /\ \A c, d \in sess[s].cart : c.holder = d.holder => c = d
    /\ sess[s].todo \cap sess[s].now = {}
    /\ sess[s].kind # "certify" \/ sess[s].pc = "loaded" =>
         sess[s].cart = {} /\ sess[s].now = {}
    /\ Total(Cost, sess[s].cart) = sess[s].debits

\* Under the user lock, nobody else commits a live certificate for an attendee
\* the session is serving or has served.
DedupOf(s) ==
  Locked(s) =>
    \A c \in certs : LiveCertify(c) /\ c.event = sess[s].event =>
      /\ c.holder \notin sess[s].now
      /\ \A d \in sess[s].cart : d.holder # c.holder

CartInv == \A s \in Sessions : CartOf(s)
DedupInv == \A s \in Sessions : DedupOf(s)

\* Costs are natural numbers.
LEMMA CostType == Cost \in [Certificate -> Nat]
BY DEF Cost, Certificate

\* The two sums of SpentOnCertificates.
LEMMA SumOfSpent == MapThenSumSet(LAMBDA u : spent[u], Users) = Total(spent, Users)
BY DEF Total

\* The second, with weights that do not depend on the rows there are.
LEMMA SumOfCosts ==
  ASSUME certs \in SUBSET Certificate, IsFiniteSet(certs)
  PROVE  MapThenSumSet(LAMBDA c : c.cost, certs) = Total(Cost, certs)
<1> DEFINE w == [c \in certs |-> c.cost]
<1>1. MapThenSumSet(LAMBDA c : c.cost, certs) = Total(w, certs)
  BY DEF Total, MapThenSumSet, MapThenFoldSet
<1>2. \A c \in certs : w[c] = Cost[c]
  BY DEF Cost
<1> HIDE DEF w
<1>3. Total(w, certs) = Total(Cost, certs)
  BY <1>2, TotalSame
<1> QED
  BY <1>1, <1>3

\* A step of one session that adds no certificate disturbs only what is said of it.
LEMMA OneSessionKeeps ==
  ASSUME TypeOK, RowInv, CartInv, DedupInv, NEW s \in Sessions, sess[s] # Done,
         \A t \in Sessions \ {s} : sess'[t] = sess[t], certs' = certs,
         CartOf(s)', DedupOf(s)'
  PROVE  RowInv' /\ CartInv' /\ DedupInv'
<1>1. RowInv'
  BY DEF RowInv, TypeOK, Certificate
<1>2. ASSUME NEW t \in Sessions, t # s
      PROVE  CartOf(t)' /\ DedupOf(t)'
  <2>1. sess'[t] = sess[t] /\ CartOf(t) /\ DedupOf(t)
    BY <1>2 DEF CartInv, DedupInv
  <2> QED
    BY <2>1 DEF CartOf, DedupOf, Open, Locked
<1> QED
  BY <1>1, <1>2 DEF CartInv, DedupInv

\* A transaction that ends without a certificate.
LEMMA EndKeeps ==
  ASSUME TypeOK, RowInv, CartInv, DedupInv, NEW s \in Sessions, sess[s] # Done,
         EndSession(s), certs' = certs
  PROVE  RowInv' /\ CartInv' /\ DedupInv'
<1>1. sess'[s] = Done /\ \A t \in Sessions \ {s} : sess'[t] = sess[t]
  BY DEF EndSession, TypeOK
<1>2. ~Open(s)' /\ ~Locked(s)'
  BY <1>1, IdleAndDone DEF Open, Locked
<1>3. CartOf(s)' /\ DedupOf(s)'
  BY <1>2 DEF CartOf, DedupOf
<1> QED
  BY <1>1, <1>3, OneSessionKeeps

\* A step that moves a working session on and leaves its cart alone.
LEMMA MoveKeeps ==
  ASSUME TypeOK, RowInv, CartInv, DedupInv, NEW s \in Sessions, sess[s] \in Working,
         \A t \in Sessions \ {s} : sess'[t] = sess[t], certs' = certs,
         sess'[s].cart = sess[s].cart, sess'[s].debits = sess[s].debits,
         sess'[s].event = sess[s].event, sess'[s].kind = sess[s].kind,
         sess[s].pc = "loaded" \/ Locked(s), sess'[s].pc # "loaded",
         sess'[s].todo \subseteq sess[s].todo,
         \/ sess'[s].now = sess[s].now
         \/ /\ sess[s].kind = "certify"
            /\ \E a \in sess[s].todo :
                 sess'[s].now = {a} /\ a \notin sess'[s].todo /\ ~HasCertificate(s, a)
  PROVE  RowInv' /\ CartInv' /\ DedupInv'
<1>1. sess[s] # Done
  BY IdleAndDone DEF Working
<1>2. Open(s) /\ CartOf(s) /\ DedupOf(s)
  BY DEF Open, Working, CartInv, DedupInv
<1>3. CartOf(s)'
  BY <1>2 DEF CartOf
<1>4. DedupOf(s)'
  <2>1. CASE sess[s].pc = "loaded"
    BY <1>2, <2>1 DEF DedupOf, CartOf, HasCertificate, LiveCertify
  <2>2. CASE Locked(s)
    BY <1>2, <2>2 DEF DedupOf, HasCertificate, LiveCertify
  <2> QED
    BY <2>1, <2>2
<1> QED
  BY <1>1, <1>3, <1>4, OneSessionKeeps

\* A certificate that renders joins the cart of the session, at its cost; one
\* that does not leaves the cart as it was.
LEMMA AttendeeKeeps ==
  ASSUME TypeOK, TypeOK', LockInv, RowInv, CartInv, DedupInv, HeptaCoinAssumption,
         NEW s \in Sessions, CertifyAttendee(s)
  PROVE  RowInv' /\ CartInv' /\ DedupInv'
<1>1. sess[s] \in Working /\ sess[s].pc = "checked" /\ sess[s].kind = "certify" /\ certs' = certs
  BY WorkingByPc DEF CertifyAttendee, LockInv, rows
<1>2. CASE sess' = [sess EXCEPT ![s].pc = "locked", ![s].now = {},
                      ![s].seq = @ + 1, ![s].bumps = @ + 1]
  <2>1. Open(s) /\ Locked(s) /\ CartOf(s) /\ DedupOf(s) /\ sess[s] # Done
    BY <1>1, IdleAndDone DEF Open, Locked, CartInv, DedupInv
  <2>2. /\ \A t \in Sessions \ {s} : sess'[t] = sess[t]
        /\ sess'[s].cart = sess[s].cart /\ sess'[s].debits = sess[s].debits
        /\ sess'[s].event = sess[s].event /\ sess'[s].kind = sess[s].kind
        /\ sess'[s].pc = "locked" /\ sess'[s].todo = sess[s].todo /\ sess'[s].now = {}
    BY <1>1, <1>2 DEF TypeOK, Working
  <2>3. CartOf(s)' /\ DedupOf(s)'
    BY <1>1, <2>1, <2>2 DEF CartOf, DedupOf
  <2> QED
    BY <1>1, <2>1, <2>2, <2>3, OneSessionKeeps
<1>3. ASSUME NEW a \in sess[s].now, NEW cost \in Nat,
             sess' = [sess EXCEPT
               ![s].pc = "locked", ![s].now = {}, ![s].seq = @ + 1, ![s].bumps = @ + 1,
               ![s].bal = @ - cost, ![s].debits = @ + cost,
               ![s].cart = @ \cup {NewCertificate(s, sess[s].seq + 1, a, cost)}]
      PROVE  RowInv' /\ CartInv' /\ DedupInv'
  <2> DEFINE n == NewCertificate(s, sess[s].seq + 1, a, cost)
  <2>1. Open(s) /\ Locked(s) /\ CartOf(s) /\ DedupOf(s) /\ sess[s] # Done
    BY <1>1, IdleAndDone DEF Open, Locked, CartInv, DedupInv
  <2>2. n \in Certificate
    <3>1. sess[s].seq + 1 \in Nat /\ a \in Attendees
      BY <1>1, <1>3 DEF Working
    <3> QED
      BY <1>1, <3>1, NewCertificateType
  <2>3. n.uuid = <<s, a>> /\ n.holder = a /\ n.event = sess[s].event /\ n.cost = cost
    BY DEF NewCertificate
  <2>4. /\ \A t \in Sessions \ {s} : sess'[t] = sess[t]
        /\ sess'[s].cart = sess[s].cart \cup {n} /\ sess'[s].debits = sess[s].debits + cost
        /\ sess'[s].event = sess[s].event /\ sess'[s].kind = sess[s].kind
        /\ sess'[s].pc = "locked" /\ sess'[s].todo = sess[s].todo /\ sess'[s].now = {}
    BY <1>1, <1>3 DEF TypeOK, Working
  <2> HIDE DEF n
  <2>5. /\ IsFiniteSet(sess[s].cart) /\ sess[s].todo \cap sess[s].now = {}
        /\ Total(Cost, sess[s].cart) = sess[s].debits
        /\ \A c \in sess[s].cart : c.uuid = <<s, c.holder>> /\ c.event = sess[s].event
                                   /\ c.holder \notin sess[s].todo \cup sess[s].now
        /\ \A c, d \in sess[s].cart : c.holder = d.holder => c = d
    BY <2>1 DEF CartOf
  <2>6. n \notin sess[s].cart /\ sess[s].cart \in SUBSET Certificate
    BY <1>1, <2>3, <2>5 DEF Working
  <2>7. Total(Cost, sess'[s].cart) = sess'[s].debits
    <3>1. Total(Cost, sess[s].cart \cup {n}) = Total(Cost, sess[s].cart) + Cost[n]
      BY <2>2, <2>5, <2>6, CostType, TotalAdds
    <3>2. Cost[n] = cost
      BY <2>2, <2>3 DEF Cost
    <3> QED
      BY <2>4, <2>5, <3>1, <3>2
  <2>8. IsFiniteSet(sess'[s].cart)
    <3>1. IsFiniteSet(sess[s].cart \cup {n})
      BY <2>5, FS_AddElement
    <3> QED
      BY <2>4, <3>1
  <2>9. CartOf(s)'
    <3>1. \A c \in sess'[s].cart : c.uuid = <<s, c.holder>> /\ c.event = sess'[s].event
                                   /\ c.holder \notin sess'[s].todo \cup sess'[s].now
      BY <1>3, <2>3, <2>4, <2>5
    <3>2. \A c \in sess[s].cart : c.holder # n.holder
      BY <1>3, <2>3, <2>5
    <3>3. \A c, d \in sess'[s].cart : c.holder = d.holder => c = d
      BY <2>4, <2>5, <3>2
    <3> QED
      BY <1>1, <2>4, <2>7, <2>8, <3>1, <3>3 DEF CartOf
  <2>10. DedupOf(s)'
    BY <1>1, <1>3, <2>1, <2>3, <2>4 DEF DedupOf
  <2> QED
    BY <1>1, <2>1, <2>4, <2>9, <2>10, OneSessionKeeps
<1>4. \A h \in HostingUnits : (IF Metered(s) THEN IssueUnits + h ELSE 0) \in Nat
  BY DEF HeptaCoinAssumption
<1> QED
  BY <1>2, <1>3, <1>4 DEF CertifyAttendee

\* A session that starts has nothing in its cart.
LEMMA StartKeeps ==
  ASSUME TypeOK, RowInv, CartInv, DedupInv, NEW s \in Sessions, Start(s)
  PROVE  RowInv' /\ CartInv' /\ DedupInv'
<1>1. sess[s] # Done
  BY IdleAndDone DEF Start, LoadIssue, LoadQuiz, LoadCertify, Load, CreditLoad
<1>2. certs' = certs /\ \A t \in Sessions \ {s} : sess'[t] = sess[t]
  BY DEF Start, LoadIssue, LoadQuiz, LoadCertify, Load, CreditLoad, TypeOK, rows
<1>3. \/ sess'[s].pc = "crediting"
      \/ /\ sess'[s].pc = "loaded" /\ sess'[s].cart = {} /\ sess'[s].now = {}
         /\ sess'[s].debits = 0
  BY DEF Start, LoadIssue, LoadQuiz, LoadCertify, Load, CreditLoad, TypeOK
<1>4. Total(Cost, {}) = 0
  BY TotalEquation, FS_EmptySet
<1>5. IsFiniteSet({})
  BY FS_EmptySet
<1>6. CartOf(s)' /\ DedupOf(s)'
  BY <1>3, <1>4, <1>5 DEF CartOf, DedupOf, Open, Locked
<1> QED
  BY <1>1, <1>2, <1>6, OneSessionKeeps

\* Session s commits the certificates new and files their cost as k units spent.
Posts(s, new, u, k) ==
  /\ EndSession(s) /\ Open(s) /\ IsFiniteSet(new)
  /\ certs' = certs \cup new
  /\ spent' = [spent EXCEPT ![u] = @ + k]
  /\ k = Total(Cost, new)
  /\ \A c \in new : c.uuid[1] = s /\ c.event = sess[s].event
  /\ \A c, d \in new : c.uuid = d.uuid \/ c.holder = d.holder => c = d
  /\ \A c \in new : LiveCertify(c) => Locked(s) /\ c \in sess[s].cart

\* Issuing one certificate commits it with its debit, or commits nothing.
LEMMA IssueOnePosts ==
  ASSUME TypeOK, CartInv, HeptaCoinAssumption, NEW s \in Sessions,
         NEW metered \in BOOLEAN, IssueOne(s, metered), sess[s].kind # "certify"
  PROVE  \/ EndSession(s) /\ certs' = certs /\ spent' = spent /\ Open(s)
         \/ \E new \in SUBSET Certificate, u \in Users, k \in Nat : Posts(s, new, u, k)
<1>1. PICK h \in HostingUnits, a \in sess[s].todo :
        LET cost == IssueUnits + h IN
        /\ sess[s].pc = "both"
        /\ IF metered /\ sess[s].bal < cost
           THEN UNCHANGED rows
           ELSE /\ certSeq' = [certSeq EXCEPT ![sess[s].event] = sess[s].seq + 1]
                /\ certs' = certs \cup
                     {NewCertificate(s, sess[s].seq + 1, a, IF metered THEN cost ELSE 0)}
                /\ IF metered THEN Debit(s, cost) ELSE UNCHANGED <<balance, ledger>>
        /\ EndSession(s)
  BY DEF IssueOne
<1>2. sess[s] \in Working /\ Open(s)
  BY <1>1, WorkingByPc DEF Open
<1>3. CASE metered /\ sess[s].bal < IssueUnits + h
  BY <1>1, <1>2, <1>3 DEF rows
<1>4. CASE ~(metered /\ sess[s].bal < IssueUnits + h)
  <2> DEFINE k == IF metered THEN IssueUnits + h ELSE 0
             n == NewCertificate(s, sess[s].seq + 1, a, k)
  <2>1. /\ sess[s].seq + 1 \in Nat /\ a \in Attendees /\ k \in Nat
        /\ sess[s].user \in Users /\ sess[s].event \in Events
    <3>1. /\ sess[s].seq + 1 \in Nat /\ a \in Attendees
          /\ sess[s].user \in Users /\ sess[s].event \in Events
      BY <1>1, <1>2 DEF Working
    <3>2. IssueUnits + h \in Nat
      BY DEF HeptaCoinAssumption
    <3> QED
      BY <3>1, <3>2
  <2>2. spent' = [spent EXCEPT ![sess[s].user] = @ + k]
    BY <1>1, <1>4, <2>1 DEF Debit, ledger, TypeOK
  <2>3. certs' = certs \cup {n} /\ EndSession(s)
    BY <1>1, <1>4
  <2> HIDE DEF k
  <2>4. n \in Certificate
    BY <1>2, <2>1, NewCertificateType
  <2>5. n.uuid[1] = s /\ n.event = sess[s].event /\ n.via = sess[s].kind /\ n.cost = k
    BY DEF NewCertificate
  <2> HIDE DEF n
  <2>6. Cost[n] = k
    BY <2>4, <2>5 DEF Cost
  <2>7. Total(Cost, {n}) = k
    <3>1. Total(Cost, {} \cup {n}) = Total(Cost, {}) + Cost[n]
      BY <2>4, CostType, TotalAdds, FS_EmptySet
    <3>2. Total(Cost, {}) = 0 /\ {} \cup {n} = {n}
      BY TotalEquation, FS_EmptySet
    <3> QED
      BY <2>1, <2>6, <3>1, <3>2
  <2>8. IsFiniteSet({n})
    BY FS_Singleton
  <2>9. Posts(s, {n}, sess[s].user, k)
    BY <1>2, <2>2, <2>3, <2>5, <2>7, <2>8 DEF Posts, LiveCertify
  <2> QED
    BY <2>1, <2>4, <2>9
<1> QED
  BY <1>3, <1>4

\* Bulk certification commits its cart with all its debits.
LEMMA CommitPosts ==
  ASSUME TypeOK, CartInv, LockInv, NEW s \in Sessions, CertifyCommit(s)
  PROVE  \E new \in SUBSET Certificate, u \in Users, k \in Nat : Posts(s, new, u, k)
<1>1. sess[s] \in Working /\ Open(s) /\ Locked(s) /\ CartOf(s)
  BY WorkingByPc DEF CertifyCommit, CertifyReady, Open, Locked, CartInv
<1>2. sess[s].me \in Users /\ sess[s].debits \in Nat /\ sess[s].cart \in SUBSET Certificate
  BY <1>1 DEF Working
<1>3. Posts(s, sess[s].cart, sess[s].me, sess[s].debits)
  <2>1. /\ IsFiniteSet(sess[s].cart) /\ Total(Cost, sess[s].cart) = sess[s].debits
        /\ \A c \in sess[s].cart : c.uuid = <<s, c.holder>> /\ c.event = sess[s].event
        /\ \A c, d \in sess[s].cart : c.holder = d.holder => c = d
    BY <1>1 DEF CartOf
  <2>2. \A c \in sess[s].cart : c.uuid[1] = s /\ c.uuid[2] = c.holder
    BY <2>1
  <2>3. \A c, d \in sess[s].cart : c.uuid = d.uuid \/ c.holder = d.holder => c = d
    BY <2>1, <2>2
  <2> QED
    BY <1>1, <2>1, <2>2, <2>3 DEF Posts, CertifyCommit
<1> QED
  BY <1>2, <1>3

\* A commit of certificates keeps the invariants: the new rows are of a session
\* that had none before, and the user lock kept every other bulk certification
\* of the event from adding one of its own.
LEMMA PostKeeps ==
  ASSUME TypeOK, LockInv, RowInv, CartInv, DedupInv, OneCertificatePerAttendee,
         HeptaCoinAssumption, NEW s \in Sessions, NEW new \in SUBSET Certificate,
         NEW u \in Users, NEW k \in Nat, Posts(s, new, u, k)
  PROVE  RowInv' /\ CartInv' /\ DedupInv' /\ OneCertificatePerAttendee'
<1>1. /\ sess'[s] = Done /\ \A t \in Sessions \ {s} : sess'[t] = sess[t]
      /\ sess[s] # Done /\ CartOf(s)
  BY IdleAndDone DEF Posts, EndSession, TypeOK, Open, CartInv
<1>2. certs \in SUBSET Certificate /\ certs' = certs \cup new
  BY DEF Posts, TypeOK
<1>3. \A c \in Certificate : c.uuid[1] \in Sessions
  BY DEF Certificate
<1>4. \A c \in new : c.uuid[1] = s /\ c.event = sess[s].event
  BY DEF Posts
<1>5. \A c \in certs : c.uuid[1] # s
  BY <1>1 DEF RowInv
<1>6. RowInv'
  <2>1. IsFiniteSet(certs')
    <3>1. IsFiniteSet(certs) /\ IsFiniteSet(new)
      BY DEF RowInv, Posts
    <3> QED
      BY <1>2, <3>1, FS_Union
  <2>2. \A c \in certs' : sess'[c.uuid[1]] = Done
    BY <1>1, <1>2, <1>3, <1>4 DEF RowInv
  <2>3. \A c, d \in certs' : c.uuid = d.uuid => c = d
    BY <1>2, <1>4, <1>5 DEF RowInv, Posts
  <2> QED
    BY <2>1, <2>2, <2>3 DEF RowInv
<1>7. \A t \in Sessions \ {s} : Open(t)' = Open(t) /\ Locked(t)' = Locked(t)
  BY <1>1 DEF Open, Locked
<1>8. ~Open(s)' /\ ~Locked(s)'
  BY <1>1, IdleAndDone DEF Open, Locked
<1>9. CartInv'
  <2>1. ASSUME NEW t \in Sessions, t # s PROVE CartOf(t)'
    BY <1>1, <1>7, <2>1 DEF CartInv, CartOf
  <2>2. CartOf(s)'
    BY <1>8 DEF CartOf
  <2> QED
    BY <2>1, <2>2 DEF CartInv
<1>10. ASSUME NEW c \in new, LiveCertify(c), NEW t \in Sessions, t # s, Locked(t)
       PROVE  sess[t].event # sess[s].event
  <2>1. Locked(s)
    BY <1>10 DEF Posts
  <2>2. sess[s] \in Working /\ sess[t] \in Working
    BY <1>10, <2>1, WorkingByPc DEF Locked
  <2>3. /\ sess[s].user = Owner[sess[s].event] /\ userLock[sess[s].user] = s
        /\ sess[t].user = Owner[sess[t].event] /\ userLock[sess[t].user] = t
    BY <1>10, <2>1 DEF LockInv, Locked
  <2> QED
    BY <1>10, <2>3
<1>11. DedupInv'
  <2>1. ASSUME NEW t \in Sessions, t # s PROVE DedupOf(t)'
    <3>1. DedupOf(t) /\ sess'[t] = sess[t]
      BY <1>1, <2>1 DEF DedupInv
    <3> QED
      BY <1>2, <1>4, <1>7, <1>10, <2>1, <3>1 DEF DedupOf
  <2>2. DedupOf(s)'
    BY <1>8 DEF DedupOf
  <2> QED
    BY <2>1, <2>2 DEF DedupInv
<1>12. OneCertificatePerAttendee'
  <2>1. ASSUME NEW c \in new, NEW d \in certs, LiveCertify(c), LiveCertify(d), c.event = d.event
        PROVE  c.holder # d.holder
    <3>1. Locked(s) /\ c \in sess[s].cart
      BY <2>1 DEF Posts
    <3>2. DedupOf(s) /\ d.event = sess[s].event
      BY <1>4, <2>1 DEF DedupInv
    <3> QED
      BY <2>1, <3>1, <3>2 DEF DedupOf
  <2>2. \A c, d \in certs : LiveCertify(c) /\ LiveCertify(d) /\ c.event = d.event
                            /\ c.holder = d.holder => c = d
    BY DEF OneCertificatePerAttendee, LiveCertify
  <2>3. \A c, d \in new : c.holder = d.holder => c = d
    BY DEF Posts
  <2>4. \A c, d \in certs' : LiveCertify(c) /\ LiveCertify(d) /\ c.event = d.event
                             /\ c.holder = d.holder => c = d
    BY <1>2, <2>1, <2>2, <2>3
  <2> QED
    BY <2>4 DEF OneCertificatePerAttendee, LiveCertify
<1> QED
  BY <1>6, <1>9, <1>11, <1>12

\* Deleting a certificate marks it and keeps its cost.
LEMMA DeleteKeeps ==
  ASSUME TypeOK, RowInv, CartInv, DedupInv, OneCertificatePerAttendee, DeleteCertificate
  PROVE  /\ RowInv' /\ CartInv' /\ DedupInv' /\ OneCertificatePerAttendee'
         /\ Total(Cost, certs') = Total(Cost, certs) /\ spent' = spent
<1>1. PICK c \in certs :
        ~c.deleted /\ certs' = (certs \ {c}) \cup {[c EXCEPT !.deleted = TRUE]}
  BY DEF DeleteCertificate
<1>2. sess' = sess /\ spent' = spent
  BY DEF DeleteCertificate, ledger
<1> DEFINE d == [c EXCEPT !.deleted = TRUE]
<1>3. c \in Certificate /\ certs \in SUBSET Certificate
  BY DEF TypeOK
<1>4. /\ d \in Certificate /\ d.uuid = c.uuid /\ d.cost = c.cost /\ d.deleted
  BY <1>3 DEF Certificate
<1>5. certs' = (certs \ {c}) \cup {d}
  BY <1>1
<1> HIDE DEF d
<1>6. d \notin certs
  BY <1>1, <1>4 DEF RowInv
<1>7. IsFiniteSet(certs) /\ IsFiniteSet(certs \ {c})
  BY FS_Subset DEF RowInv
<1>8. RowInv'
  <2>1. IsFiniteSet((certs \ {c}) \cup {d})
    BY <1>7, FS_AddElement
  <2>2. \A e \in certs' : sess'[e.uuid[1]] = Done
    BY <1>2, <1>4, <1>5 DEF RowInv
  <2>3. \A e, f \in certs' : e.uuid = f.uuid => e = f
    BY <1>4, <1>5 DEF RowInv
  <2> QED
    BY <1>5, <2>1, <2>2, <2>3 DEF RowInv
<1>9. CartInv'
  BY <1>2 DEF CartInv, CartOf, Open
<1>10. \A e \in certs' : LiveCertify(e) => e \in certs
  BY <1>4, <1>5 DEF LiveCertify
<1>11. DedupInv'
  BY <1>2, <1>10 DEF DedupInv, DedupOf, Locked
<1>12. OneCertificatePerAttendee'
  BY <1>10 DEF OneCertificatePerAttendee, LiveCertify
<1>13. Total(Cost, certs') = Total(Cost, certs)
  <2>1. certs \ {c} \in SUBSET Certificate /\ d \notin certs \ {c}
    BY <1>3, <1>6
  <2>2. Total(Cost, (certs \ {c}) \cup {d}) = Total(Cost, certs \ {c}) + Cost[d]
    BY <1>4, <1>7, <2>1, CostType, TotalAdds
  <2>3. Total(Cost, certs) = Cost[c] + Total(Cost, certs \ {c})
    BY <1>1, <1>3, <1>7, CostType, TotalTakes
  <2>4. Cost[d] = Cost[c] /\ Cost[c] \in Nat
    BY <1>3, <1>4, CostType DEF Cost
  <2>5. Total(Cost, certs \ {c}) \in Nat
    BY <1>7, <2>1, CostType, TotalType
  <2> QED
    BY <1>5, <2>2, <2>3, <2>4, <2>5
<1> QED
  BY <1>2, <1>8, <1>9, <1>11, <1>12, <1>13

\* SpentOnCertificates as sums of weights.
SpentInv == Total(spent, Users) = Total(Cost, certs)

\* Every step keeps what is said of rows and carts, files what it commits under
\* the spends, or deletes.
LEMMA NextKeeps ==
  ASSUME TypeOK, TypeOK', LockInv, RowInv, CartInv, DedupInv, OneCertificatePerAttendee,
         HeptaCoinAssumption, [Next]_vars
  PROVE  /\ RowInv' /\ CartInv' /\ DedupInv' /\ OneCertificatePerAttendee'
         /\ \/ certs' = certs /\ spent' = spent
            \/ \E s \in Sessions, new \in SUBSET Certificate, u \in Users, k \in Nat :
                 Posts(s, new, u, k)
            \/ DeleteCertificate
<1> DEFINE Kept == RowInv' /\ CartInv' /\ DedupInv' /\ OneCertificatePerAttendee'
           Same == certs' = certs /\ spent' = spent
           Commits == \E s \in Sessions, new \in SUBSET Certificate, u \in Users, k \in Nat :
                        Posts(s, new, u, k)
<1>0. Same => OneCertificatePerAttendee'
  BY DEF OneCertificatePerAttendee
<1>1. ASSUME NEW s \in Sessions, Start(s)
      PROVE  Kept /\ Same
  <2>1. Same
    BY <1>1 DEF Start, LoadIssue, LoadQuiz, LoadCertify, Load, CreditLoad, rows
  <2> QED
    BY <1>0, <1>1, <2>1, StartKeeps
<1>2. ASSUME NEW s \in Sessions, LockUser(s) \/ LockEvent(s)
      PROVE  Kept /\ Same
  <2>1. sess[s] \in Working /\ (sess[s].pc = "loaded" \/ Locked(s))
    BY <1>2, WorkingByPc DEF LockUser, LockEvent, Locked
  <2>2. /\ \A t \in Sessions \ {s} : sess'[t] = sess[t]
        /\ sess'[s].cart = sess[s].cart /\ sess'[s].debits = sess[s].debits
        /\ sess'[s].event = sess[s].event /\ sess'[s].kind = sess[s].kind
        /\ sess'[s].pc # "loaded" /\ sess'[s].todo = sess[s].todo
        /\ sess'[s].now = sess[s].now
    BY <1>2, <2>1 DEF LockUser, LockEvent, TypeOK, Working
  <2>3. Same
    BY <1>2 DEF LockUser, LockEvent, rows
  <2> QED
    BY <1>0, <2>1, <2>2, <2>3, MoveKeeps
<1>3. ASSUME NEW s \in Sessions, NEW a \in Attendees,
             CertifySkip(s, a) \/ CertifyCheck(s, a)
      PROVE  Kept /\ Same
  <2>1. sess[s] \in Working /\ Locked(s) /\ sess[s].kind = "certify" /\ a \in sess[s].todo
    BY <1>3, WorkingByPc DEF CertifySkip, CertifyCheck, CertifyReady, Locked
  <2>2. /\ \A t \in Sessions \ {s} : sess'[t] = sess[t]
        /\ sess'[s].cart = sess[s].cart /\ sess'[s].debits = sess[s].debits
        /\ sess'[s].event = sess[s].event /\ sess'[s].kind = sess[s].kind
        /\ sess'[s].pc # "loaded" /\ sess'[s].todo = sess[s].todo \ {a}
    BY <1>3, <2>1 DEF CertifySkip, CertifyCheck, CertifyReady, TypeOK, Working
  <2>3. \/ sess'[s].now = sess[s].now
        \/ sess'[s].now = {a} /\ ~HasCertificate(s, a)
    BY <1>3, <2>1 DEF CertifySkip, CertifyCheck, TypeOK, Working
  <2>4. Same
    BY <1>3 DEF CertifySkip, CertifyCheck, rows
  <2> QED
    BY <1>0, <2>1, <2>2, <2>3, <2>4, MoveKeeps
<1>4. ASSUME NEW s \in Sessions, CertifyAttendee(s)
      PROVE  Kept /\ Same
  <2>1. Same
    BY <1>4 DEF CertifyAttendee, rows
  <2> QED
    BY <1>0, <1>4, <2>1, AttendeeKeeps
<1>5. ASSUME NEW s \in Sessions, EndSession(s), Same, sess[s].pc # "done"
      PROVE  Kept /\ Same
  BY <1>0, <1>5, IdleAndDone, EndKeeps
<1>6. ASSUME NEW s \in Sessions, CertifyRefuse(s) \/ Rollback(s) \/ CreditCommit(s)
      PROVE  Kept /\ Same
  BY <1>5, <1>6 DEF CertifyRefuse, CertifyReady, Rollback, CreditCommit, rows
<1>7. ASSUME NEW s \in Sessions, IssueCertificate(s) \/ IssueQuizCertificate(s)
      PROVE  Kept /\ (Same \/ Commits)
  <2>1. sess[s].kind # "certify" /\ sess[s].pc # "done"
    BY <1>7 DEF IssueCertificate, IssueQuizCertificate
  <2>2. PICK metered \in BOOLEAN : IssueOne(s, metered)
    BY <1>7 DEF IssueCertificate, IssueQuizCertificate, Metered
  <2>3. CASE EndSession(s) /\ certs' = certs /\ spent' = spent
    BY <1>5, <2>1, <2>3
  <2>4. CASE \E new \in SUBSET Certificate, u \in Users, k \in Nat : Posts(s, new, u, k)
    BY <2>4, PostKeeps
  <2> QED
    BY <2>1, <2>2, <2>3, <2>4, IssueOnePosts
<1>8. ASSUME NEW s \in Sessions, CertifyCommit(s)
      PROVE  Kept /\ Commits
  BY <1>8, CommitPosts, PostKeeps
<1>9. CASE DeleteCertificate
  BY <1>9, DeleteKeeps
<1>10. CASE AllServed \/ UNCHANGED vars
  <2>1. Same /\ sess' = sess
    BY <1>10 DEF AllServed, vars
  <2> QED
    BY <1>0, <2>1 DEF RowInv, CartInv, CartOf, DedupInv, DedupOf, Open, Locked
<1> QED
  BY <1>1, <1>2, <1>3, <1>4, <1>6, <1>7, <1>8, <1>9, <1>10 DEF Next, Proceed

\* What a commit of certificates adds to the spends is what it adds to the costs.
LEMMA PostBalances ==
  ASSUME TypeOK, RowInv, SpentInv, HeptaCoinAssumption, NEW s \in Sessions,
         NEW new \in SUBSET Certificate, NEW u \in Users, NEW k \in Nat, Posts(s, new, u, k)
  PROVE  SpentInv'
<1>1. /\ certs \in SUBSET Certificate /\ spent \in [Users -> Nat] /\ spent[u] + k \in Nat
      /\ IsFiniteSet(certs) /\ IsFiniteSet(new) /\ IsFiniteSet(Users)
  BY DEF TypeOK, RowInv, Posts, HeptaCoinAssumption
<1>2. certs \cap new = {}
  BY IdleAndDone DEF RowInv, Posts, Open
<1>3. Total(Cost, certs \cup new) = Total(Cost, certs) + Total(Cost, new)
  BY <1>1, <1>2, CostType, TotalUnion
<1>4. /\ certs' = certs \cup new /\ k = Total(Cost, new) /\ spent' \in [Users -> Nat]
      /\ spent'[u] = spent[u] + k /\ \A y \in Users \ {u} : spent'[y] = spent[y]
  BY <1>1 DEF Posts
<1>5. Total(spent', Users) = (Total(spent, Users) - spent[u]) + spent'[u]
  BY <1>1, <1>4, TotalChanges
<1>6. Total(spent, Users) \in Nat /\ spent[u] \in Nat
  BY <1>1, TotalType
<1> QED
  BY <1>3, <1>4, <1>5, <1>6 DEF SpentInv

\* The inductive invariant of the certificates: what is committed, what every
\* open session has in its cart, and the two properties that follow from them.
LEMMA CertificateInvariant ==
  Spec => [](/\ TypeOK /\ RowInv /\ CartInv /\ DedupInv
             /\ OneCertificatePerAttendee /\ SpentInv)
<1>1. Init => RowInv /\ CartInv /\ DedupInv /\ OneCertificatePerAttendee
  <2>1. Init => IsFiniteSet(certs)
    BY FS_EmptySet DEF Init
  <2>2. Init => \A s \in Sessions : ~Open(s) /\ ~Locked(s)
    BY IdleAndDone DEF Init, Open, Locked
  <2> QED
    BY <2>1, <2>2 DEF Init, RowInv, CartInv, CartOf, DedupInv, DedupOf, OneCertificatePerAttendee
<1>2. ASSUME Init PROVE SpentInv
  <2> DEFINE zero == [u \in Users |-> 0]
  <2>1. spent = zero /\ certs = {}
    BY <1>2 DEF Init
  <2>2. Total(Cost, {}) = 0
    BY TotalEquation, FS_EmptySet
  <2>3. Total(zero, Users) = 0
    <3>1. IsFiniteSet(Users)
      BY HeptaCoinAssumption DEF HeptaCoinAssumption
    <3>2. \A u \in Users : zero[u] = 0
      OBVIOUS
    <3> HIDE DEF zero
    <3> QED
      BY <3>1, <3>2, TotalZero
  <2> QED
    BY <2>1, <2>2, <2>3 DEF SpentInv
<1>3. ASSUME TypeOK, TypeOK', LockInv, RowInv, CartInv, DedupInv, OneCertificatePerAttendee,
             SpentInv, [Next]_vars
      PROVE  (RowInv /\ CartInv /\ DedupInv /\ OneCertificatePerAttendee /\ SpentInv)'
  <2>1. CASE certs' = certs /\ spent' = spent
    BY <1>3, <2>1, NextKeeps, HeptaCoinAssumption DEF SpentInv
  <2>2. CASE \E s \in Sessions, new \in SUBSET Certificate, u \in Users, k \in Nat :
               Posts(s, new, u, k)
    BY <1>3, <2>2, NextKeeps, PostBalances, HeptaCoinAssumption
  <2>3. CASE DeleteCertificate
    <3>1. SpentInv'
      BY <1>3, <2>3, DeleteKeeps DEF SpentInv
    <3> QED
      BY <1>3, <3>1, NextKeeps, HeptaCoinAssumption
  <2> QED
    BY <1>3, <2>1, <2>2, <2>3, NextKeeps, HeptaCoinAssumption
<1> QED
  BY <1>1, <1>2, <1>3, LockInvariant, PTL DEF Spec

\* Two bulk certifications of one event never give an attendee two live
\* certificates, for any number of sessions: the second waits for the user lock
\* and then sees what the first committed (main.py:14150-14300).
THEOREM OnePerAttendee == Spec => []OneCertificatePerAttendee
BY CertificateInvariant, PTL

\* The spends of the transactions add up to the costs of the certificates, the
\* deleted ones included, whichever handlers run, for teams and credits too.
THEOREM SpentIsCost == Spec => []SpentOnCertificates
<1>1. TypeOK /\ RowInv /\ SpentInv => SpentOnCertificates
  <2> SUFFICES ASSUME TypeOK, RowInv, SpentInv PROVE SpentOnCertificates
    OBVIOUS
  <2>1. certs \in SUBSET Certificate /\ IsFiniteSet(certs)
    BY DEF TypeOK, RowInv
  <2> QED
    BY <2>1, SumOfSpent, SumOfCosts DEF SpentOnCertificates, SpentInv
<1> QED
  BY <1>1, CertificateInvariant, PTL

-----------------------------------------------------------------------------
(* Refinement.                                                              *)

\* The issuing handlers implement the abstract credit ledger: every step is a
\* spend that the balance covers, or leaves balance and ledger alone.
THEOREM RefinesCreditLedger ==
  ASSUME "credit" \notin Kinds, "certify" \notin Kinds
  PROVE  Spec => ImplementsCreditLedger
<1>1. Init => CL!Init
  BY HeptaCoinAssumption DEF Init, CL!Init, Posted, HeptaCoinAssumption
<1>2. ASSUME TypeOK, TypeOK', LockInv, FreshInv, [Next]_vars
      PROVE  [CL!Next]_(CL!vars)
  <2>0. Opening \in Nat
    BY HeptaCoinAssumption DEF HeptaCoinAssumption
  <2>1. CASE UNCHANGED <<balance, credited, spent>>
    BY <2>1 DEF CL!vars, Posted
  <2>2. ASSUME NEW s \in Sessions, NEW cost \in Nat, Spends(s, cost)
        PROVE  [CL!Next]_(CL!vars)
    <3> DEFINE u == sess[s].user
    <3>1. u \in Users
      BY <2>2 DEF Spends
    <3>2. sess[s].debits = 0
      BY <1>2, <2>2, SpendingByIssue DEF Spends
    <3>3. sess[s].bal = balance[u] /\ cost <= balance[u]
      BY <1>2, <2>2, <3>1, <3>2 DEF FreshInv, Spends, TypeOK
    <3>4. balance' = [balance EXCEPT ![u] = @ + (-cost)]
      BY <1>2, <2>2, <3>1, <3>3 DEF Spends, TypeOK
    <3>5. [v \in Users |-> Posted(v)]' = [[v \in Users |-> Posted(v)] EXCEPT ![u] = @ + (-cost)]
      BY <1>2, <2>0, <2>2, <3>1 DEF Spends, TypeOK, Posted
    <3>6. CASE cost = 0
      BY <1>2, <2>0, <3>1, <3>4, <3>5, <3>6 DEF CL!vars, TypeOK, Posted
    <3>7. CASE cost # 0
      <4>1. cost \in 1 .. balance[u]
        BY <1>2, <3>1, <3>3, <3>7 DEF TypeOK
      <4>2. CL!Spend(u)
        BY <3>4, <3>5, <4>1 DEF CL!Spend, CL!Post
      <4> QED
        BY <3>1, <4>2 DEF CL!Next
    <3> QED
      BY <3>6, <3>7
  <2>3. ASSUME NEW s \in Sessions, CertifyCommit(s) \/ CreditCommit(s)
        PROVE  FALSE
    BY <1>2, <2>3 DEF CertifyCommit, CertifyReady, CreditCommit, LockInv
  <2> QED
    BY <1>2, <2>1, <2>2, <2>3, NextAccount, HeptaCoinAssumption
<1> QED
  BY <1>1, <1>2, FreshInvariant, PTL DEF Spec, ImplementsCreditLedger, CL!Spec
=============================================================================
