------------------------------ MODULE HeptaCoin ------------------------------
(***************************************************************************)
(* The HeptaCoin balance of a HeptaCert organiser and the handlers that     *)
(* issue certificates against it (backend/src/main.py, quiz_api.py).        *)
(*                                                                          *)
(* Every HTTP request or background task runs one SQLAlchemy session, i.e.  *)
(* one PostgreSQL transaction at READ COMMITTED.  A session is modelled by  *)
(* the values its identity map holds (the row attributes it has loaded) and *)
(* the row locks it owns; it reads and writes the shared tables users,      *)
(* transactions, events and certificates.  What a session has written and   *)
(* not committed is part of the session, not of the tables.                 *)
(*                                                                          *)
(* A SELECT ... FOR UPDATE of a row whose object is already in the identity *)
(* map takes the lock but keeps the attributes loaded before: the session   *)
(* factory does not ask for populate_existing.  That is why seq below is    *)
(* read in Load and not in LockEvent.                                       *)
(***************************************************************************)
EXTENDS Integers, FiniteSetsExt

CONSTANTS
  Users,          \* organisers, rows of users
  Events,         \* rows of events
  Attendees,      \* attendees, the same ones registered for every event
  Sessions,       \* database sessions; each serves one request
  NoSession,      \* no session holds the row lock
  Owner,          \* Owner[e]: events.admin_id, who is billed
  Team,           \* Team[e]: who else has certificates:write for event e
  Exempt,         \* users for whom _user_has_unlimited_hc is true
  Opening,        \* the balance every user starts with
  IssueUnits,     \* ISSUE_UNITS_PER_CERT
  HostingUnits,   \* the values hosting_units takes on this instance's files
  CreditAmounts,  \* the amounts a superadmin credits on this instance
  Kinds           \* which handlers run on this instance

HandlerKinds == {"issue", "quiz", "certify", "credit"}

ASSUME HeptaCoinAssumption ==
  /\ NoSession \notin Sessions
  /\ IsFiniteSet(Users)
  /\ Owner \in [Events -> Users]
  /\ Team \in [Events -> SUBSET Users]
  /\ Exempt \subseteq Users
  /\ Opening \in Nat
  /\ IssueUnits \in Nat
  /\ HostingUnits \subseteq Nat
  /\ CreditAmounts \subseteq Nat
  /\ Kinds \subseteq HandlerKinds

VARIABLES
  balance,    \* balance[u]: users.heptacoin_balance, committed
  credited,   \* credited[u]: the credits of user u in transactions
  spent,      \* spent[u]: the spends of user u in transactions
  certSeq,    \* certSeq[e]: events.cert_seq, committed
  certs,      \* the committed rows of certificates
  userLock,   \* userLock[u]: the session that holds the FOR UPDATE lock of row u
  eventLock,  \* eventLock[e]: likewise for a row of events
  sess        \* sess[s]: the state of session s

ledger == <<credited, spent>>
rows  == <<balance, credited, spent, certSeq, certs>>
locks == <<userLock, eventLock>>
vars  == <<balance, credited, spent, certSeq, certs, userLock, eventLock, sess>>

-----------------------------------------------------------------------------

\* A row of certificates.  no is the sequence number its public id is built
\* from, via the handler that issued it and cost what it debited.
Certificate ==
  [uuid : Sessions \X Attendees, event : Events, no : Nat, holder : Attendees,
   via : HandlerKinds, cost : Nat, deleted : BOOLEAN]

NewCertificate(s, n, a, cost) ==
  [uuid |-> <<s, a>>, event |-> sess[s].event, no |-> n, holder |-> a,
   via |-> sess[s].kind, cost |-> cost, deleted |-> FALSE]

\* The session between requests: its identity map is empty.
Idle == [pc |-> "idle"]
Done == [pc |-> "done"]

\* me is who sent the request (the owner where that makes no difference), user
\* and event are the rows it works on, todo the attendees it has still to serve and now the one being served, seq the cert_seq and bal the
\* balance in the identity map.  Not committed yet: bumps, the increments of
\* cert_seq; debits, the units taken from bal; cart, the certificates added.
Working ==
  [pc : {"loaded", "locked", "both", "checked"}, kind : HandlerKinds, me : Users,
   user : Users, event : Events, todo : SUBSET Attendees, now : SUBSET Attendees,
   seq : Nat, bumps : Nat, bal : Int, debits : Nat, cart : SUBSET Certificate]

Crediting == [pc : {"crediting"}, user : Users, bal : Int, amount : Nat]

Session == {Idle, Done} \cup Working \cup Crediting

TypeOK ==
  /\ balance \in [Users -> Int]
  /\ credited \in [Users -> Nat]
  /\ spent \in [Users -> Nat]
  /\ certSeq \in [Events -> Nat]
  /\ certs \in SUBSET Certificate
  /\ userLock \in [Users -> Sessions \cup {NoSession}]
  /\ eventLock \in [Events -> Sessions \cup {NoSession}]
  /\ sess \in [Sessions -> Session]

Init ==
  /\ balance = [u \in Users |-> Opening]
  /\ credited = [u \in Users |-> 0]
  /\ spent = [u \in Users |-> 0]
  /\ certSeq = [e \in Events |-> 0]
  /\ certs = {}
  /\ userLock = [u \in Users |-> NoSession]
  /\ eventLock = [e \in Events |-> NoSession]
  /\ sess = [s \in Sessions |-> Idle]

-----------------------------------------------------------------------------

\* Mutant: the row lock of the user survives the transaction.
EndSessionKeepingUserLock(s) ==
  /\ sess' = [sess EXCEPT ![s] = Done]
  /\ eventLock' = [e \in Events |-> IF eventLock[e] = s THEN NoSession ELSE eventLock[e]]
  /\ UNCHANGED userLock

\* COMMIT and ROLLBACK both end the transaction and release its row locks.
EndSession(s) ==
  /\ sess' = [sess EXCEPT ![s] = Done]
  /\ userLock' = [u \in Users |-> IF userLock[u] = s THEN NoSession ELSE userLock[u]]
  /\ eventLock' = [e \in Events |-> IF eventLock[e] = s THEN NoSession ELSE eventLock[e]]

\* The flush of user.heptacoin_balance -= cost writes the absolute value
\* computed in Python, and adds one row to transactions.
Debit(s, cost) ==
  /\ balance' = [balance EXCEPT ![sess[s].user] = sess[s].bal - cost]
  /\ spent' = [spent EXCEPT ![sess[s].user] = @ + cost]
  /\ UNCHANGED credited

\* Whether issuing debits the billed user: not _user_has_unlimited_hc.
Metered(s) == sess[s].user \notin Exempt

\* The dedup query of bulk certification: a certificate that is not deleted and
\* is linked to the attendee, or is unlinked and carries the attendee's name.
\* The session sees what is committed and what it has added itself.
HasCertificate(s, a) ==
  \E c \in certs \cup sess[s].cart :
    c.event = sess[s].event /\ ~c.deleted /\ c.holder = a

-----------------------------------------------------------------------------
(* Issuing.  A request first loads its event (permission check, template,   *)
(* and the cert_seq that stays in the identity map).                        *)

Load(s, k, me, e, todo) ==
  /\ sess[s] = Idle
  /\ k \in Kinds
  /\ sess' = [sess EXCEPT ![s] =
       [pc |-> "loaded", kind |-> k, me |-> me, user |-> Owner[e], event |-> e, todo |-> todo,
        now |-> {}, seq |-> certSeq[e], bumps |-> 0, bal |-> 0, debits |-> 0, cart |-> {}]]
  /\ UNCHANGED <<rows, locks>>

LoadIssue(s)   == \E e \in Events, a \in Attendees : Load(s, "issue", Owner[e], e, {a})
LoadQuiz(s)    == \E e \in Events, a \in Attendees : Load(s, "quiz", Owner[e], e, {a})
\* The eligible attendees: enough sessions attended and registration approved.
LoadCertify(s) ==
  \E e \in Events, todo \in (SUBSET Attendees) \ {{}} :
    \E me \in Team[e] \cup {Owner[e]} : Load(s, "certify", me, e, todo)

\* Mutant: a plain SELECT instead of SELECT ... FOR UPDATE.
ReadUserWithoutWaiting(s) ==
  /\ sess[s].pc = "loaded"
  /\ userLock' = [userLock EXCEPT ![sess[s].user] = s]
  /\ sess' = [sess EXCEPT ![s].pc = "locked", ![s].bal = balance[sess[s].user]]
  /\ UNCHANGED <<rows, eventLock>>

\* SELECT ... FROM users FOR UPDATE: waits for the lock, then reads the
\* committed balance (the row is not in the identity map yet).
LockUser(s) ==
  /\ sess[s].pc = "loaded"
  /\ userLock[sess[s].user] = NoSession
  /\ userLock' = [userLock EXCEPT ![sess[s].user] = s]
  /\ sess' = [sess EXCEPT ![s].pc = "locked", ![s].bal = balance[sess[s].user]]
  /\ UNCHANGED <<rows, eventLock>>

\* Mutant: the event row is locked without the row of its owner.
LockEventFirst(s) ==
  /\ sess[s].pc \in {"loaded", "locked"}
  /\ sess[s].kind \in {"issue", "quiz"}
  /\ eventLock[sess[s].event] = NoSession
  /\ eventLock' = [eventLock EXCEPT ![sess[s].event] = s]
  /\ sess' = [sess EXCEPT ![s].pc = "both"]
  /\ UNCHANGED <<rows, userLock>>

\* SELECT ... FROM events FOR UPDATE of an event already in the identity map:
\* the lock is taken, seq stays what Load read.
LockEvent(s) ==
  /\ sess[s].pc = "locked"
  /\ sess[s].kind \in {"issue", "quiz"}
  /\ eventLock[sess[s].event] = NoSession
  /\ eventLock' = [eventLock EXCEPT ![sess[s].event] = s]
  /\ sess' = [sess EXCEPT ![s].pc = "both"]
  /\ UNCHANGED <<rows, userLock>>

\* Mutant: the check asks for the issuing units only, not for the hosting.
IssueOneUnhosted(s, metered) ==
  \E h \in HostingUnits, a \in sess[s].todo :
    LET cost == IssueUnits + h IN
    /\ sess[s].pc = "both"
    /\ metered => sess[s].bal >= IssueUnits
    /\ certSeq' = [certSeq EXCEPT ![sess[s].event] = sess[s].seq + 1]
    /\ certs' = certs \cup
         {NewCertificate(s, sess[s].seq + 1, a, IF metered THEN cost ELSE 0)}
    /\ IF metered THEN Debit(s, cost) ELSE UNCHANGED <<balance, ledger>>
    /\ EndSession(s)

\* The certificate, the sequence number and the debit reach the tables in one
\* commit; a balance that does not cover the cost rolls everything back (402).
IssueOne(s, metered) ==
  \E h \in HostingUnits, a \in sess[s].todo :
    LET cost == IssueUnits + h IN
    /\ sess[s].pc = "both"
    /\ IF metered /\ sess[s].bal < cost
       THEN UNCHANGED rows
       ELSE /\ certSeq' = [certSeq EXCEPT ![sess[s].event] = sess[s].seq + 1]
            /\ certs' = certs \cup
                 {NewCertificate(s, sess[s].seq + 1, a, IF metered THEN cost ELSE 0)}
            /\ IF metered THEN Debit(s, cost) ELSE UNCHANGED <<balance, ledger>>
    /\ EndSession(s)

IssueCertificate(s) ==
  /\ sess[s].pc = "both" /\ sess[s].kind = "issue"
  /\ IssueOne(s, Metered(s))

\* The background task after a passed quiz does not ask _user_has_unlimited_hc.
IssueQuizCertificate(s) ==
  /\ sess[s].pc = "both" /\ sess[s].kind = "quiz"
  /\ IssueOne(s, TRUE)

-----------------------------------------------------------------------------
(* bulk_certify_attendees: one transaction for all eligible attendees, under *)
(* the lock of the billed user; the event row is only locked by the UPDATE   *)
(* that increments cert_seq.                                                 *)

CertifyReady(s) ==
  sess[s].pc = "locked" /\ sess[s].kind = "certify"

\* The check before the loop asks for the issuing units of one certificate.
CertifyRefuse(s) ==
  /\ CertifyReady(s)
  /\ Metered(s) /\ sess[s].bal < IssueUnits /\ sess[s].bumps = 0
  /\ UNCHANGED rows
  /\ EndSession(s)

CertifySkip(s, a) ==
  /\ CertifyReady(s) /\ a \in sess[s].todo
  /\ HasCertificate(s, a)
  /\ sess' = [sess EXCEPT ![s].todo = @ \ {a}]
  /\ UNCHANGED <<rows, locks>>

\* The attendee has no certificate and the balance covers the issuing units;
\* next comes the UPDATE of the event, which may have to wait.
CertifyCheck(s, a) ==
  /\ CertifyReady(s) /\ a \in sess[s].todo
  /\ ~HasCertificate(s, a)
  /\ Metered(s) => sess[s].bal >= IssueUnits
  /\ sess' = [sess EXCEPT ![s].pc = "checked", ![s].todo = @ \ {a}, ![s].now = {a}]
  /\ UNCHANGED <<rows, locks>>

\* Mutant: a certificate that fails to render is charged.
CertifyAttendeeUnrendered(s) ==
  /\ sess[s].pc = "checked"
  /\ eventLock[sess[s].event] \in {s, NoSession}
  /\ eventLock' = [eventLock EXCEPT ![sess[s].event] = s]
  /\ \E h \in HostingUnits :
       LET cost == IF Metered(s) THEN IssueUnits + h ELSE 0 IN
       sess' = [sess EXCEPT
         ![s].pc = "locked", ![s].now = {}, ![s].seq = @ + 1, ![s].bumps = @ + 1,
         ![s].bal = @ - cost, ![s].debits = @ + cost]
  /\ UNCHANGED <<rows, userLock>>

\* UPDATE events SET cert_seq = cert_seq + 1 takes the row lock; the session's
\* copy is incremented in Python, not re-read.  A certificate that fails to
\* render keeps its number.
CertifyAttendee(s) ==
  /\ sess[s].pc = "checked"
  /\ eventLock[sess[s].event] \in {s, NoSession}
  /\ eventLock' = [eventLock EXCEPT ![sess[s].event] = s]
  /\ \/ sess' = [sess EXCEPT ![s].pc = "locked", ![s].now = {},
                 ![s].seq = @ + 1, ![s].bumps = @ + 1]
     \/ \E h \in HostingUnits, a \in sess[s].now :
          LET cost == IF Metered(s) THEN IssueUnits + h ELSE 0 IN
          sess' = [sess EXCEPT
            ![s].pc = "locked", ![s].now = {}, ![s].seq = @ + 1, ![s].bumps = @ + 1,
            ![s].bal = @ - cost, ![s].debits = @ + cost,
            ![s].cart = @ \cup {NewCertificate(s, sess[s].seq + 1, a, cost)}]
  /\ UNCHANGED <<rows, userLock>>

\* The loop is over, or the balance does not cover the issuing of the next one.
\* The owner's balance is debited, the transactions are filed under me.
CertifyCommit(s) ==
  /\ CertifyReady(s)
  /\ \/ sess[s].todo = {}
     \/ /\ Metered(s) /\ sess[s].bal < IssueUnits
        /\ \E a \in sess[s].todo : ~HasCertificate(s, a)
  /\ certSeq' = [certSeq EXCEPT ![sess[s].event] = @ + sess[s].bumps]
  /\ certs' = certs \cup sess[s].cart
  /\ balance' = [balance EXCEPT ![sess[s].user] = sess[s].bal]
  /\ spent' = [spent EXCEPT ![sess[s].me] = @ + sess[s].debits]
  /\ UNCHANGED credited
  /\ EndSession(s)

-----------------------------------------------------------------------------
(* credit_coins: reads the user without a lock, adds in Python, and writes   *)
(* the sum at commit, when the UPDATE waits for a lock another session has.  *)

CreditLoad(s) ==
  /\ sess[s] = Idle
  /\ "credit" \in Kinds
  /\ \E u \in Users, n \in CreditAmounts :
       sess' = [sess EXCEPT ![s] =
         [pc |-> "crediting", user |-> u, bal |-> balance[u], amount |-> n]]
  /\ UNCHANGED <<rows, locks>>

CreditCommit(s) ==
  /\ sess[s].pc = "crediting"
  /\ userLock[sess[s].user] = NoSession
  /\ balance' = [balance EXCEPT ![sess[s].user] = sess[s].bal + sess[s].amount]
  /\ credited' = [credited EXCEPT ![sess[s].user] = @ + sess[s].amount]
  /\ UNCHANGED <<spent, certSeq, certs>>
  /\ EndSession(s)

\* delete_certificate: a soft delete in a transaction of its own.  Nothing is
\* refunded.
DeleteCertificate ==
  /\ \E c \in certs :
       /\ ~c.deleted
       /\ certs' = (certs \ {c}) \cup {[c EXCEPT !.deleted = TRUE]}
  /\ UNCHANGED <<balance, ledger, certSeq, locks, sess>>

\* An exception, a lost connection or a restart of the process before the
\* commit: PostgreSQL rolls the transaction back.
Rollback(s) ==
  /\ sess[s].pc \notin {"idle", "done"}
  /\ UNCHANGED rows
  /\ EndSession(s)

-----------------------------------------------------------------------------

\* What a session that has started does next, if nothing goes wrong.
Proceed(s) ==
  \/ LockUser(s) \/ LockEvent(s)
  \/ IssueCertificate(s) \/ IssueQuizCertificate(s)
  \/ \E a \in Attendees : CertifySkip(s, a) \/ CertifyCheck(s, a)
  \/ CertifyAttendee(s)
  \/ CertifyRefuse(s) \/ CertifyCommit(s)
  \/ CreditCommit(s)

Start(s) == LoadIssue(s) \/ LoadQuiz(s) \/ LoadCertify(s) \/ CreditLoad(s)

\* Every session has served its request: the instance's bound is reached.
AllServed ==
  /\ \A s \in Sessions : sess[s] = Done
  /\ UNCHANGED vars

Next ==
  \/ \E s \in Sessions : Start(s) \/ Proceed(s) \/ Rollback(s)
  \/ DeleteCertificate
  \/ AllServed

Spec == Init /\ [][Next]_vars

\* A started request goes on: the event loop schedules it and PostgreSQL grants
\* a released row lock to a waiter.
FairSpec == Spec /\ \A s \in Sessions : WF_vars(Proceed(s))

-----------------------------------------------------------------------------
(* Properties.                                                              *)

\* The session holds the row lock of the user it bills.
Locked(s) == sess[s].pc \in {"locked", "both", "checked"}

\* What the control state of a session says about the locks: the reason the
\* handlers that spend exclude one another.
LockInv ==
  \A s \in Sessions :
    /\ sess[s].pc \in {"loaded", "locked", "both", "checked"} =>
         /\ sess[s].user = Owner[sess[s].event] /\ sess[s].kind \in Kinds
         /\ sess[s].me \in Team[sess[s].event] \cup {Owner[sess[s].event]}
    /\ Locked(s) => userLock[sess[s].user] = s
    /\ sess[s].pc = "both" => sess[s].kind \in {"issue", "quiz"}
    /\ sess[s].pc = "checked" => sess[s].kind = "certify"
    /\ sess[s].pc = "crediting" => "credit" \in Kinds
    /\ \A e \in Events : eventLock[e] = s => Locked(s) /\ sess[s].event = e

\* The balance a session that holds the lock works with is the committed one
\* less its own debits; only a credit can come between.
FreshInv ==
  \A s \in Sessions :
    /\ Locked(s) /\ "credit" \notin Kinds =>
         sess[s].bal = balance[sess[s].user] - sess[s].debits
    /\ sess[s].pc = "loaded" => sess[s].debits = 0
    /\ sess[s].pc \in {"locked", "both"} /\ sess[s].kind # "certify" =>
         sess[s].debits = 0

\* What the transactions of a user add up to.
Posted(u) == Opening + credited[u] - spent[u]

\* What the ledger says an organiser spent never exceeds what she was given: two
\* requests never spend the same units (main.py:10488-10490, "prevents
\* HeptaCoin double-spend").  For instances without "credit" and "certify".
NoDoubleSpend == \A u \in Users : Posted(u) >= 0

\* No balance goes below zero, however the requests of one organiser interleave
\* (quiz_api.py:207-209).  For instances without "certify".
NoOverdraft == \A u \in Users : balance[u] >= 0

\* The balance is what the transaction ledger adds up to: no debit or credit is
\* overwritten by a concurrent one (ADR-0008, "auditable transaction ledger").
\* For instances without "credit" and without teams.
LedgerBalanced == \A u \in Users : balance[u] = Posted(u)

\* What the ledger says was spent is what the certificates cost, deleted ones
\* included: a certificate and its debit are committed together or not at all,
\* whichever account the debit is filed under.
SpentOnCertificates ==
  MapThenSumSet(LAMBDA u : spent[u], Users) = MapThenSumSet(LAMBDA c : c.cost, certs)

\* Two bulk certifications of one event never give an attendee two live
\* certificates: the dedup query and the insert happen under the user lock.
OneCertificatePerAttendee ==
  \A c, d \in {x \in certs : x.via = "certify" /\ ~x.deleted} :
    c.event = d.event /\ c.holder = d.holder => c = d

\* The lock order user -> event the comments of every issuing handler ask for:
\* a session that holds an event row also holds the row of its owner.
LockOrder ==
  \A e \in Events, s \in Sessions : eventLock[e] = s => userLock[Owner[e]] = s

\* No request waits for ever for a row lock: every session that has started
\* commits or rolls back.
RequestsEnd == \A s \in Sessions : sess[s] # Idle ~> sess[s] = Done

\* The issuing handlers implement the credit ledger of ADR-0008: each commit is
\* one spend that the balance covers, or changes neither balance nor ledger.
\* For instances without "credit" and "certify".
CL == INSTANCE CreditLedger
        WITH Accounts <- Users, Amounts <- CreditAmounts,
             posted <- [u \in Users |-> Posted(u)]
ImplementsCreditLedger == CL!Spec
=============================================================================
