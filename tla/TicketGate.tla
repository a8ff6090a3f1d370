----------------------------- MODULE TicketGate -----------------------------
(***************************************************************************)
(* Tickets at the entrance of one event (backend/src/tickets_api.py,        *)
(* check_in_event_ticket and update_event_ticket_status; the nonces of       *)
(* backend/src/checkin_ops_api.py; admin_manual_checkin of main.py; the      *)
(* attendance helpers of services.py).                                       *)
(*                                                                          *)
(* A check-in is one PostgreSQL transaction at READ COMMITTED: it may        *)
(* consume a nonce, locks the ticket, finds or creates the session "Ticket  *)
(* Check-in" and adds an attendance record.  Others see what it did when it  *)
(* commits.  Changing a ticket's status does all its work under the lock of *)
(* the ticket and is one step; so is the manual check-in, one INSERT ... ON *)
(* CONFLICT DO NOTHING.                                                     *)
(*                                                                          *)
(* Left out: the activity log, the CRM snapshot, self check-in at a session, *)
(* undoing an attendance record (undo_event_attendance_record,              *)
(* main.py:13886-13930).                                                    *)
(* The names Init, Next, Spec, TypeOK and vars carry the prefix Gate (or      *)
(* gate): CheckIn_proofs extends this module and OfflineQueue together.      *)
(***************************************************************************)
EXTENDS Integers, FiniteSets

CONSTANTS
  Desks,        \* the requests that check tickets in
  Tickets,      \* the tickets, one per attendee
  Pending,      \* the tickets whose attendee waits for approval at the start
  Nonces,       \* check-in nonces
  Kiosks,       \* kiosk sessions; each nonce belongs to one or to none
  KioskOf,      \* KioskOf[n]: nonce.kiosk_session_id
  NoNonce, NoKiosk,
  MaxSessions,  \* bound: rows of event_sessions named "Ticket Check-in"
  MaxChanges    \* bound: acts of the organiser and manual check-ins

ASSUME TicketGateAssumption ==
  /\ Pending \subseteq Tickets
  /\ KioskOf \in [Nonces -> Kiosks \cup {NoKiosk}]
  /\ NoNonce \notin Nonces /\ NoKiosk \notin Kiosks
  /\ MaxSessions \in Nat /\ MaxChanges \in Nat

VARIABLES
  status,   \* status[t]: event_tickets.status
  sessions, \* the committed sessions named "Ticket Check-in", by id
  seq,      \* the last id of event_sessions handed out
  records,  \* attendance_records of these sessions: <<ticket, session>>
  nonce,    \* nonce[n]: "none", "fresh", "used" or "expired"
  revoked,  \* the kiosk sessions that are revoked
  waiting,  \* the tickets whose attendee waits for approval
  desk,     \* desk[d]: the transaction of request d
  byHand,   \* history: tickets whose attendee was checked in by hand
  spent,    \* history: spent[n]: the transactions that committed with nonce n
  raced,    \* history: the nonces read, and sessions created, while another request had them in hand
  changes   \* acts of the organiser and manual check-ins so far

gateVars == <<status, sessions, seq, records, nonce, revoked, waiting, desk, byHand, spent, raced, changes>>

SessionIds == 1 .. MaxSessions
NoSession == 0

Idle == [pc |-> "idle"]
Transaction ==
  [pc : {"begun", "consuming", "nonced", "locked", "found", "inserting", "ready"},
   ticket : Tickets, nonce : Nonces \cup {NoNonce}, kiosk : Kiosks \cup {NoKiosk},
   session : SessionIds \cup {NoSession}, created : BOOLEAN, record : BOOLEAN]

GateTypeOK ==
  /\ status \in [Tickets -> {"issued", "used", "cancelled"}]
  /\ sessions \in SUBSET SessionIds
  /\ seq \in 0 .. MaxSessions
  /\ records \in SUBSET (Tickets \X sessions)
  /\ nonce \in [Nonces -> {"none", "fresh", "used", "expired"}]
  /\ revoked \in SUBSET Kiosks
  /\ waiting \in SUBSET Tickets
  /\ desk \in [Desks -> Transaction \cup {Idle}]
  /\ byHand \in SUBSET Tickets
  /\ spent \in [Nonces -> Nat]
  /\ raced \in SUBSET (Nonces \cup SessionIds)
  /\ changes \in 0 .. MaxChanges

GateInit ==
  /\ status = [t \in Tickets |-> "issued"]
  /\ sessions = {} /\ seq = 0 /\ records = {}
  /\ nonce = [n \in Nonces |-> "none"]
  /\ revoked = {} /\ waiting = Pending
  /\ desk = [d \in Desks |-> Idle]
  /\ byHand = {} /\ spent = [n \in Nonces |-> 0] /\ raced = {} /\ changes = 0

tables == <<status, sessions, seq, records, nonce, revoked, waiting>>

Goto(d, pc) == desk' = [desk EXCEPT ![d].pc = pc]
End(d)      == desk' = [desk EXCEPT ![d] = Idle]

\* The rows a transaction has written or locked, until it ends.
HoldsNonce(d, n)  == desk[d].pc \in {"nonced", "locked", "found", "inserting", "ready"} /\ desk[d].nonce = n
HoldsTicket(d, t) == desk[d].pc \in {"locked", "found", "inserting", "ready"} /\ desk[d].ticket = t
HoldsRecord(d, t, s) == desk[d].pc = "ready" /\ desk[d].record /\ desk[d].ticket = t /\ desk[d].session = s

-----------------------------------------------------------------------------
(* check_in_event_ticket.                                                   *)

\* A kiosk whose token is revoked counts as no kiosk, and needs no nonce.
Begin(d, t, n, k) ==
  LET kiosk == IF k \in revoked THEN NoKiosk ELSE k IN
  /\ desk[d] = Idle
  /\ kiosk # NoKiosk => n # NoNonce
  /\ desk' = [desk EXCEPT ![d] =
       [pc |-> IF n = NoNonce THEN "nonced" ELSE "begun", ticket |-> t, nonce |-> n,
        kiosk |-> kiosk, session |-> NoSession, created |-> FALSE, record |-> FALSE]]
  /\ UNCHANGED <<tables, byHand, spent, raced, changes>>

\* Another request has read nonce n and not ended yet.
InHand(d, n) ==
  \E e \in Desks \ {d} : HoldsNonce(e, n) \/ (desk[e].pc = "consuming" /\ desk[e].nonce = n)

\* Mutant: neither used_at nor expires_at is looked at.
ReadNonceUnchecked(d) ==
  /\ desk[d].pc = "begun"
  /\ Goto(d, "consuming")
  /\ raced' = IF InHand(d, desk[d].nonce) THEN raced \cup {desk[d].nonce} ELSE raced
  /\ UNCHANGED <<tables, byHand, spent, changes>>

\* _consume_nonce: a SELECT without a lock, answered 409 unless the nonce is good.
ReadNonce(d) ==
  LET n == desk[d].nonce
      good == /\ nonce[n] = "fresh"
              /\ desk[d].kiosk = NoKiosk \/ KioskOf[n] \in {NoKiosk, desk[d].kiosk}
  IN
  /\ desk[d].pc = "begun"
  /\ IF good THEN Goto(d, "consuming") ELSE End(d)
  /\ raced' = IF InHand(d, n) THEN raced \cup {n} ELSE raced
  /\ UNCHANGED <<tables, byHand, spent, changes>>

\* The UPDATE of used_at is flushed before the ticket is selected.  It waits for
\* the row and does not look at it again.
MarkNonce(d) ==
  /\ desk[d].pc = "consuming"
  /\ \A e \in Desks \ {d} : ~HoldsNonce(e, desk[d].nonce)
  /\ Goto(d, "nonced")
  /\ UNCHANGED <<tables, byHand, spent, raced, changes>>

\* The ticket FOR UPDATE.
LockTicket(d) ==
  LET t == desk[d].ticket IN
  /\ desk[d].pc = "nonced"
  /\ \A e \in Desks \ {d} : ~HoldsTicket(e, t)
  /\ status[t] # "cancelled" /\ t \notin waiting
  /\ Goto(d, "locked")
  /\ UNCHANGED <<tables, byHand, spent, raced, changes>>

\* What the commit of the transaction does to its nonce.
SpendNonce(d) ==
  IF desk[d].nonce = NoNonce THEN UNCHANGED <<nonce, spent>>
  ELSE /\ nonce' = [nonce EXCEPT ![desk[d].nonce] = "used"]
       /\ spent' = [spent EXCEPT ![desk[d].nonce] = @ + 1]

\* A cancelled ticket: the attempt is logged and committed, and with it the nonce.
RefuseCancelled(d) ==
  LET t == desk[d].ticket IN
  /\ desk[d].pc = "nonced"
  /\ \A e \in Desks \ {d} : ~HoldsTicket(e, t)
  /\ status[t] = "cancelled"
  /\ SpendNonce(d)
  /\ End(d)
  /\ UNCHANGED <<status, sessions, seq, records, revoked, waiting, byHand, raced, changes>>

\* An attendee who waits for approval: the request is refused, the nonce kept.
RefusePending(d) ==
  LET t == desk[d].ticket IN
  /\ desk[d].pc = "nonced"
  /\ \A e \in Desks \ {d} : ~HoldsTicket(e, t)
  /\ status[t] # "cancelled" /\ t \in waiting
  /\ End(d)
  /\ UNCHANGED <<tables, byHand, spent, raced, changes>>

\* _get_or_create_ticket_checkin_session: the oldest of the committed sessions, ...
FindSession(d) ==
  /\ desk[d].pc = "locked"
  /\ \E s \in sessions :
       /\ \A other \in sessions : s <= other
       /\ desk' = [desk EXCEPT ![d].pc = "found", ![d].session = s]
  /\ UNCHANGED <<tables, byHand, spent, raced, changes>>

\* ... or a new one.
CreateSession(d) ==
  /\ desk[d].pc = "locked"
  /\ sessions = {} /\ seq < MaxSessions
  /\ seq' = seq + 1
  /\ desk' = [desk EXCEPT ![d].pc = "found", ![d].session = seq + 1, ![d].created = TRUE]
  /\ raced' = IF \E e \in Desks : desk[e] # Idle /\ desk[e].created
              THEN raced \cup {seq + 1} ELSE raced
  /\ UNCHANGED <<status, sessions, records, nonce, revoked, waiting, byHand, spent, changes>>

\* _record_ticket_attendaonce looks for the attendee's record in that session ...
FindRecord(d) ==
  /\ desk[d].pc = "found"
  /\ Goto(d, IF <<desk[d].ticket, desk[d].session>> \in records THEN "ready" ELSE "inserting")
  /\ UNCHANGED <<tables, byHand, spent, raced, changes>>

\* ... and adds it, ...
InsertRecord(d) ==
  /\ desk[d].pc = "inserting"
  /\ <<desk[d].ticket, desk[d].session>> \notin records
  /\ desk' = [desk EXCEPT ![d].pc = "ready", ![d].record = TRUE]
  /\ UNCHANGED <<tables, byHand, spent, raced, changes>>

\* ... unless it was added by hand in between: the request fails and leaves nothing.
InsertConflicts(d) ==
  /\ desk[d].pc = "inserting"
  /\ <<desk[d].ticket, desk[d].session>> \in records
  /\ End(d)
  /\ UNCHANGED <<tables, byHand, spent, raced, changes>>

\* Mutant: the ticket is marked in a transaction of its own.
CommitWithoutRecord(d) ==
  LET x == desk[d] IN
  /\ x.pc = "ready"
  /\ status' = [status EXCEPT ![x.ticket] = "used"]
  /\ sessions' = IF x.created THEN sessions \cup {x.session} ELSE sessions
  /\ SpendNonce(d)
  /\ End(d)
  /\ UNCHANGED <<records, seq, revoked, waiting, byHand, raced, changes>>

\* A used ticket is answered like a first one; the record, if missing, is added.
Commit(d) ==
  LET x == desk[d] IN
  /\ x.pc = "ready"
  /\ status' = [status EXCEPT ![x.ticket] = "used"]
  /\ sessions' = IF x.created THEN sessions \cup {x.session} ELSE sessions
  /\ records' = IF x.record THEN records \cup {<<x.ticket, x.session>>} ELSE records
  /\ SpendNonce(d)
  /\ End(d)
  /\ UNCHANGED <<seq, revoked, waiting, byHand, raced, changes>>

\* Any statement fails, or the process is restarted: the transaction rolls back.
Rollback(d) ==
  /\ desk[d] # Idle
  /\ End(d)
  /\ UNCHANGED <<tables, byHand, spent, raced, changes>>

-----------------------------------------------------------------------------
(* The organiser, and the desk that takes e-mail addresses.                 *)

Change == changes < MaxChanges /\ changes' = changes + 1

\* update_event_ticket_status.
UpdateStatus(t, s) ==
  /\ Change
  /\ \A d \in Desks : ~HoldsTicket(d, t)
  /\ status' = [status EXCEPT ![t] = s]
  /\ records' = {r \in records : r[1] # t}
  /\ byHand' = byHand \ {t}
  /\ UNCHANGED <<sessions, seq, nonce, revoked, waiting, desk, spent, raced>>

\* admin_manual_checkin at the session of the tickets; it waits for a record that
\* a transaction has inserted.
ManualCheckin(t, s) ==
  /\ Change
  /\ t \notin waiting /\ s \in sessions
  /\ \A d \in Desks : ~HoldsRecord(d, t, s)
  /\ records' = records \cup {<<t, s>>}
  /\ byHand' = byHand \cup {t}
  /\ UNCHANGED <<status, sessions, seq, nonce, revoked, waiting, desk, spent, raced>>

IssueNonce(n) ==
  /\ nonce[n] = "none" /\ (KioskOf[n] = NoKiosk \/ KioskOf[n] \notin revoked)
  /\ nonce' = [nonce EXCEPT ![n] = "fresh"]
  /\ UNCHANGED <<status, sessions, seq, records, revoked, waiting, desk, byHand, spent, raced, changes>>

\* Five minutes pass.
ExpireNonce(n) ==
  /\ nonce[n] = "fresh"
  /\ nonce' = [nonce EXCEPT ![n] = "expired"]
  /\ UNCHANGED <<status, sessions, seq, records, revoked, waiting, desk, byHand, spent, raced, changes>>

\* The organiser approves or rejects the attendee.
Decide(t, approved) ==
  /\ Change
  /\ waiting' = IF approved THEN waiting \ {t} ELSE waiting \cup {t}
  /\ UNCHANGED <<status, sessions, seq, records, nonce, revoked, desk, byHand, spent, raced>>

RevokeKiosk(k) ==
  /\ Change
  /\ revoked' = revoked \cup {k}
  /\ UNCHANGED <<status, sessions, seq, records, nonce, waiting, desk, byHand, spent, raced>>

-----------------------------------------------------------------------------

CheckIn(d) ==
  \/ \E t \in Tickets, n \in Nonces \cup {NoNonce}, k \in Kiosks \cup {NoKiosk} : Begin(d, t, n, k)
  \/ ReadNonce(d) \/ MarkNonce(d)
  \/ LockTicket(d) \/ RefuseCancelled(d) \/ RefusePending(d)
  \/ FindSession(d) \/ CreateSession(d) \/ FindRecord(d) \/ InsertRecord(d) \/ InsertConflicts(d)
  \/ Commit(d) \/ Rollback(d)

Organiser ==
  \/ \E t \in Tickets, s \in {"issued", "cancelled"} : UpdateStatus(t, s)
  \/ \E t \in Tickets, s \in SessionIds : ManualCheckin(t, s)
  \/ \E n \in Nonces : IssueNonce(n) \/ ExpireNonce(n)
  \/ \E t \in Tickets, approved \in BOOLEAN : Decide(t, approved)
  \/ \E k \in Kiosks : RevokeKiosk(k)

GateNext == (\E d \in Desks : CheckIn(d)) \/ Organiser

GateSpec == GateInit /\ [][GateNext]_gateVars

-----------------------------------------------------------------------------
(* Properties.                                                              *)

\* The ticket and the attendance agree: a used ticket has a record, and one that
\* is not used has none but by hand, however check-ins, cancellations and manual
\* check-ins of one attendee interleave.
AttendanceMatchesTicket ==
  \A t \in Tickets :
    LET present == \E s \in sessions : <<t, s>> \in records IN
    /\ status[t] = "used" => present
    /\ present => status[t] = "used" \/ t \in byHand

\* "Duplicate and invalid scans are detected and logged, not double-counted"
\* (docs/work-packages/WP04-checkin-and-attendance.md:32).
NotDoubleCounted ==
  \A t \in Tickets : Cardinality({s \in sessions : <<t, s>> \in records}) <= 1

\* What no lock prevents needs an overlap: an attendee is counted twice only if two
\* check-ins, the first of the event, each created the session of the tickets; a
\* nonce is spent twice ("single-use, 5-min TTL", tickets_api.py:215) only if one
\* request read it while another had it in hand.
DoublesOnlyByOverlap ==
  /\ ~NotDoubleCounted => raced \cap SessionIds # {}
  /\ \A n \in Nonces : spent[n] > 1 => n \in raced
=============================================================================
