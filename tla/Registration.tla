---------------------------- MODULE Registration ----------------------------
(***************************************************************************)
(* Self-registration for an event with a quota and with options of limited  *)
(* capacity (backend/src/main.py: public_event_register,                    *)
(* verify_attendee_email, rename_event, delete_attendee; services.py:       *)
(* _reserve_option_capacity).                                               *)
(*                                                                          *)
(* Each request is one READ COMMITTED transaction.  A place of an option is *)
(* taken by a conditional UPDATE, which locks the row of the option until   *)
(* the transaction ends; attendees are counted under the lock of the event. *)
(* The configuration of the event is one JSON value: who changes any of it  *)
(* writes all of it, as it was when the request began.                      *)
(***************************************************************************)
EXTENDS Integers, Sequences, FiniteSetsExt, Functions

CONSTANTS
  People,      \* e-mail addresses
  Sessions,    \* database sessions that can be open at once
  NoSession,   \* no session holds the row lock
  Options,     \* the options of select fields that have a capacity
  Capacity,    \* Capacity[o]: the places of option o
  Answers,     \* the options people choose on this instance, in their order
  Quota,       \* registration_quota, enabled
  MaxSaves,    \* bound: times the organiser saves the settings
  MaxDeletes   \* bound: attendees the organiser deletes

ASSUME RegistrationAssumption ==
  /\ NoSession \notin Sessions
  /\ IsFiniteSet(People)
  /\ Capacity \in [Options -> Nat]
  /\ Answers \subseteq Seq(Options) /\ \A a \in Answers : IsInjective(a)
  /\ Quota \in Nat \ {0}
  /\ MaxSaves \in Nat /\ MaxDeletes \in Nat

VARIABLES
  config,     \* events.config: require_email_verification and registration_closed
  attendee,   \* attendee[p]: the committed row of attendees with address p
  reserved,   \* reserved[o]: reserved_count of the option, committed
  eventLock,  \* the session that holds the row of the event
  optionLock, \* optionLock[o]: the session that holds the row of option o
  sess,       \* sess[s]: what the request of session s is at
  edited,     \* whether an answer has been changed without a reservation
  saves,      \* settings saved so far
  deletes     \* attendees deleted so far

history == <<edited, saves, deletes>>
tables == <<config, attendee, reserved>>
vars   == <<config, attendee, reserved, eventLock, optionLock, sess, edited, saves, deletes>>

Config == [verify : BOOLEAN, closed : BOOLEAN]

Absent == [status |-> "absent"]
Attendee == [status : {"registered"}, verified : BOOLEAN, answer : Answers]

\* config is what the request has loaded (or what it will save), todo the options
\* it has still to reserve and got those it has reserved; counts are the confirmed
\* attendees per option, dirty the options whose row says otherwise.
Idle == [pc |-> "idle"]
Registering ==
  [pc : {"full", "reserving", "new", "insert", "refuse"}, kind : {"register"}, who : People,
   config : Config, answer : Answers, todo : Seq(Options), got : SUBSET Options]
Verifying ==
  [pc : {"link", "refuse", "reserving"}, kind : {"verify"}, who : People, config : Config,
   todo : Seq(Options), got : SUBSET Options]
Saving ==
  [pc : {"config", "fields", "counts"}, kind : {"save"}, config : Config,
   counts : [Options -> Nat], dirty : SUBSET Options]

TypeOK ==
  /\ config \in Config
  /\ attendee \in [People -> Attendee \cup {Absent}]
  /\ reserved \in [Options -> Nat]
  /\ eventLock \in Sessions \cup {NoSession}
  /\ optionLock \in [Options -> Sessions \cup {NoSession}]
  /\ sess \in [Sessions -> {Idle} \cup Registering \cup Verifying \cup Saving]
  /\ edited \in BOOLEAN /\ saves \in 0 .. MaxSaves /\ deletes \in 0 .. MaxDeletes

Init ==
  /\ config \in [verify : BOOLEAN, closed : {FALSE}]
  /\ attendee = [p \in People |-> Absent]
  /\ reserved = [o \in Options |-> 0]
  /\ eventLock = NoSession
  /\ optionLock = [o \in Options |-> NoSession]
  /\ sess = [s \in Sessions |-> Idle]
  /\ edited = FALSE /\ saves = 0 /\ deletes = 0

-----------------------------------------------------------------------------

Registered == {p \in People : attendee[p] # Absent}
Confirmed  == {p \in Registered : attendee[p].verified}

Chosen(p) == IF attendee[p] = Absent THEN {} ELSE Range(attendee[p].answer)

\* The confirmed attendees who have chosen the option.
Using(o) == {p \in Confirmed : o \in Chosen(p)}

Begin(s, request) == sess[s] = Idle /\ sess' = [sess EXCEPT ![s] = request]
Goto(s, pc) == sess' = [sess EXCEPT ![s].pc = pc]

\* COMMIT and ROLLBACK release the row locks of the session.
End(s) ==
  /\ sess' = [sess EXCEPT ![s] = Idle]
  /\ eventLock' = IF eventLock = s THEN NoSession ELSE eventLock
  /\ optionLock' = [o \in Options |-> IF optionLock[o] = s THEN NoSession ELSE optionLock[o]]

\* The COMMIT makes the places taken by the session visible.
CommitPlaces(s) ==
  reserved' = [o \in Options |-> IF o \in sess[s].got THEN reserved[o] + 1 ELSE reserved[o]]

\* ev.config = next_config: all of the configuration as the session loaded it,
\* written only if that differs from what was loaded.
ConfigClosedBy(s) ==
  IF sess[s].config.closed THEN config ELSE [sess[s].config EXCEPT !.closed = TRUE]

-----------------------------------------------------------------------------
(* public_event_register.                                                   *)

\* Mutant: the places are taken at registration even if an address is to be verified.
RegisterReservingAlways(s, p) ==
  /\ ~config.closed
  /\ \E answer \in Answers :
       Begin(s, [kind |-> "register", who |-> p, config |-> config, answer |-> answer,
                 pc   |-> IF Cardinality(Registered) >= Quota THEN "full" ELSE "reserving",
                 todo |-> answer,
                 got  |-> {}])
  /\ UNCHANGED <<tables, eventLock, optionLock, history>>

\* Loads the event; a count without a lock turns latecomers away.  Without
\* verification the places of the chosen options are taken at once.
Register(s, p) ==
  /\ ~config.closed
  /\ \E answer \in Answers :
       Begin(s, [kind |-> "register", who |-> p, config |-> config, answer |-> answer,
                 pc   |-> IF Cardinality(Registered) >= Quota THEN "full" ELSE "reserving",
                 todo |-> IF config.verify THEN <<>> ELSE answer,
                 got  |-> {}])
  /\ UNCHANGED <<tables, eventLock, optionLock, history>>

\* Too many attendees, without or under the lock: registration is closed, and
\* whatever the session has reserved is committed with that.
CloseFull(s) ==
  /\ sess[s].pc \in {"full", "refuse"}
  /\ eventLock \in {NoSession, s}
  /\ config' = ConfigClosedBy(s)
  /\ CommitPlaces(s)
  /\ End(s)
  /\ UNCHANGED <<attendee, history>>

\* Mutant: the count is read and written back without the row lock.
ReserveUnlocked(s) ==
  /\ sess[s].pc = "reserving" /\ sess[s].todo # <<>>
  /\ reserved[Head(sess[s].todo)] < Capacity[Head(sess[s].todo)]
  /\ sess' = [sess EXCEPT ![s].todo = Tail(@), ![s].got = @ \cup {Head(sess[s].todo)}]
  /\ UNCHANGED <<tables, eventLock, optionLock, history>>

\* _reserve_option_capacity: UPDATE ... SET reserved_count = reserved_count + 1
\* WHERE reserved_count < capacity, which waits for the row and reads it again.
Reserve(s) ==
  /\ sess[s].pc = "reserving" /\ sess[s].todo # <<>>
  /\ LET o == Head(sess[s].todo) IN
       /\ optionLock[o] = NoSession
       /\ reserved[o] < Capacity[o]
       /\ optionLock' = [optionLock EXCEPT ![o] = s]
       /\ sess' = [sess EXCEPT ![s].todo = Tail(@), ![s].got = @ \cup {o}]
  /\ UNCHANGED <<tables, eventLock, history>>

\* The committed row is full: the UPDATE matches nothing, without waiting, and
\* the request ends with 400.
NoPlace(s) ==
  /\ sess[s].pc = "reserving" /\ sess[s].todo # <<>>
  /\ LET o == Head(sess[s].todo) IN reserved[o] >= Capacity[o]
  /\ End(s)
  /\ UNCHANGED <<tables, history>>

ReadyToRegister(s) ==
  sess[s].pc = "reserving" /\ sess[s].kind = "register" /\ sess[s].todo = <<>>

\* The row of an attendee is locked by the session that verifies her address.
RowHolders(p) ==
  {t \in Sessions : sess[t].pc = "reserving" /\ sess[t].kind = "verify" /\ sess[t].who = p}

\* The address is registered: its answers are replaced, and it is confirmed if
\* no verification is required.  A place the old answers took is not given back.
UpdateExisting(s) ==
  /\ ReadyToRegister(s)
  /\ LET p   == sess[s].who
         old == attendee[p]
         unreserved == old # Absent /\ old.verified /\ sess[s].config.verify
                         /\ sess[s].answer # old.answer
     IN  /\ old # Absent /\ RowHolders(p) = {}
         /\ attendee' = [attendee EXCEPT ![p] =
              [old EXCEPT !.answer   = sess[s].answer,
                          !.verified = old.verified \/ ~sess[s].config.verify]]
         /\ edited' = (edited \/ unreserved)
  /\ CommitPlaces(s)
  /\ End(s)
  /\ UNCHANGED <<config, saves, deletes>>

FindNone(s) ==
  /\ ReadyToRegister(s)
  /\ attendee[sess[s].who] = Absent
  /\ Goto(s, "new")
  /\ UNCHANGED <<tables, eventLock, optionLock, history>>

\* Mutant: the SELECT of the event without FOR UPDATE.
LockAndCountUnlocked(s) ==
  /\ sess[s].pc = "new"
  /\ Goto(s, IF Cardinality(Registered) >= Quota THEN "refuse" ELSE "insert")
  /\ UNCHANGED <<tables, eventLock, optionLock, history>>

\* SELECT ... FROM events FOR UPDATE, then the count that decides.
LockAndCount(s) ==
  /\ sess[s].pc = "new"
  /\ eventLock = NoSession
  /\ eventLock' = s
  /\ Goto(s, IF Cardinality(Registered) >= Quota THEN "refuse" ELSE "insert")
  /\ UNCHANGED <<tables, optionLock, history>>

Insert(s) ==
  /\ sess[s].pc = "insert"
  /\ attendee[sess[s].who] = Absent
  /\ attendee' = [attendee EXCEPT ![sess[s].who] =
       [status |-> "registered", verified |-> ~sess[s].config.verify, answer |-> sess[s].answer]]
  /\ config' = IF ~sess[s].config.verify /\ Cardinality(Registered) + 1 >= Quota
               THEN ConfigClosedBy(s) ELSE config
  /\ CommitPlaces(s)
  /\ End(s)
  /\ UNCHANGED history

\* Another request has registered the address since: the unique constraint.
InsertFails(s) ==
  /\ sess[s].pc = "insert"
  /\ attendee[sess[s].who] # Absent
  /\ End(s)
  /\ UNCHANGED <<tables, history>>

-----------------------------------------------------------------------------
(* verify_attendee_email.                                                   *)

\* Somebody who is registered and not confirmed has been sent a link, or has a
\* new one sent.
Verify(s, p) ==
  /\ p \in Registered \ Confirmed
  /\ Begin(s, [kind |-> "verify", pc |-> "link", who |-> p, config |-> config,
               todo |-> <<>>, got |-> {}])
  /\ UNCHANGED <<tables, eventLock, optionLock, history>>

\* Locks the event, then the attendee, who may be confirmed or deleted by now.
VerifyNothing(s) ==
  /\ sess[s].pc = "link"
  /\ eventLock = NoSession
  /\ sess[s].who \notin Registered \ Confirmed
  /\ End(s)
  /\ UNCHANGED <<tables, history>>

LockAndRead(s) ==
  /\ sess[s].pc = "link"
  /\ eventLock = NoSession
  /\ sess[s].who \in Registered \ Confirmed
  /\ eventLock' = s
  /\ sess' = [sess EXCEPT
       ![s].pc   = IF Cardinality(Confirmed) >= Quota THEN "refuse" ELSE "reserving",
       ![s].todo = IF sess[s].config.verify THEN attendee[sess[s].who].answer ELSE <<>>]
  /\ UNCHANGED <<tables, optionLock, history>>

\* The count that follows is preceded by a flush, so it includes the attendee;
\* one more is added to it.
Confirm(s) ==
  /\ sess[s].pc = "reserving" /\ sess[s].kind = "verify" /\ sess[s].todo = <<>>
  /\ attendee' = [attendee EXCEPT ![sess[s].who].verified = TRUE]
  /\ config' = IF Cardinality(Confirmed) + 1 + 1 >= Quota THEN ConfigClosedBy(s) ELSE config
  /\ CommitPlaces(s)
  /\ End(s)
  /\ UNCHANGED history

-----------------------------------------------------------------------------
(* The organiser.                                                           *)

\* rename_event, with or without the registration fields in the payload.
Save(s) ==
  /\ saves < MaxSaves /\ saves' = saves + 1
  /\ \E c \in Config, pc \in {"config", "fields"} :
       Begin(s, [kind |-> "save", pc |-> pc, config |-> c,
               counts |-> [o \in Options |-> 0], dirty |-> {}])
  /\ UNCHANGED <<tables, eventLock, optionLock, edited, deletes>>

SaveConfig(s) ==
  /\ sess[s].pc = "config"
  /\ eventLock = NoSession
  /\ config' = sess[s].config
  /\ End(s)
  /\ UNCHANGED <<attendee, reserved, history>>

\* _sync_registration_option_capacities: the UPDATE of the event is flushed, the
\* answers of confirmed attendees are counted, and the rows that differ change.
CountPlaces(s) ==
  /\ sess[s].pc = "fields"
  /\ eventLock = NoSession
  /\ eventLock' = s
  /\ sess' = [sess EXCEPT ![s].pc = "counts",
       ![s].counts = [o \in Options |-> Cardinality(Using(o))],
       ![s].dirty  = {o \in Options : Cardinality(Using(o)) # reserved[o]}]
  /\ UNCHANGED <<tables, optionLock, history>>

SaveCounts(s) ==
  /\ sess[s].pc = "counts"
  /\ \A o \in sess[s].dirty : optionLock[o] = NoSession
  /\ config' = sess[s].config
  /\ reserved' = [o \in Options |->
       IF o \in sess[s].dirty THEN sess[s].counts[o] ELSE reserved[o]]
  /\ End(s)
  /\ UNCHANGED <<attendee, history>>

\* delete_attendee: the places the attendee took are not given back.
DeleteAttendee(p) ==
  /\ deletes < MaxDeletes /\ deletes' = deletes + 1
  /\ p \in Registered /\ RowHolders(p) = {}
  /\ attendee' = [attendee EXCEPT ![p] = Absent]
  /\ UNCHANGED <<config, reserved, eventLock, optionLock, sess, edited, saves>>

-----------------------------------------------------------------------------

\* The sessions that hold a row session s waits for.
WaitsFor(s) ==
  LET request == sess[s] IN
  (CASE request.pc \in {"full", "new", "link", "config", "fields"} -> {eventLock}
     [] request.pc = "reserving" /\ request.todo # <<>> ->
          LET o == Head(request.todo)
          IN  IF reserved[o] < Capacity[o] THEN {optionLock[o]} ELSE {}
     [] ReadyToRegister(s) -> RowHolders(request.who)
     [] request.pc = "counts" -> {optionLock[o] : o \in request.dirty}
     [] OTHER -> {}) \ {NoSession}

\* Every session of the set waits for another one of it.
Deadlocked(T) == T # {} /\ \A s \in T : WaitsFor(s) \cap T # {}

\* PostgreSQL aborts one of the sessions that wait for each other.  (If it waits
\* for an option, _reserve_option_capacity takes the error for a full option.)
AbortVictim(s) ==
  /\ \E T \in SUBSET Sessions : s \in T /\ Deadlocked(T)
  /\ End(s)
  /\ UNCHANGED <<tables, history>>

Proceed(s) ==
  \/ CloseFull(s) \/ Reserve(s) \/ NoPlace(s) \/ UpdateExisting(s) \/ FindNone(s)
  \/ LockAndCount(s) \/ Insert(s) \/ InsertFails(s)
  \/ VerifyNothing(s) \/ LockAndRead(s) \/ Confirm(s)
  \/ SaveConfig(s) \/ CountPlaces(s) \/ SaveCounts(s)
  \/ AbortVictim(s)

Start(s) == Save(s) \/ \E p \in People : Register(s, p) \/ Verify(s, p)

\* Registration is closed and nothing is under way.
Over ==
  /\ config.closed /\ \A s \in Sessions : sess[s] = Idle
  /\ UNCHANGED vars

Next ==
  \/ Over
  \/ \E s \in Sessions : Start(s) \/ Proceed(s)
  \/ \E p \in People : DeleteAttendee(p)

Spec == Init /\ [][Next]_vars

-----------------------------------------------------------------------------
(* Properties.                                                              *)

\* The quota counts registrations: however many people register at once, no more
\* are registered than it allows (main.py:12233-12236, "Atomic quota
\* enforcement").
QuotaKept == Cardinality(Registered) <= Quota

\* "Registration honors required fields, conditional logic, quotas, and capacity"
\* (WP03, line 35), with two exceptions: as long as nobody confirmed changes her
\* answers and the organiser does not save the settings, no option is chosen by
\* more confirmed attendees than it has places, though places are taken at
\* registration or at verification.
OverbookedOnlyByChange ==
  ~edited /\ saves = 0 =>
    \A o \in Options : Cardinality(Using(o)) <= Capacity[o]

\* Requests wait for each other in a circle only if two people take places in
\* several options in different orders, or the organiser has saved the settings:
\* rows of options and the row of the event are otherwise locked in one order.
DeadlocksExplained ==
  \A T \in SUBSET Sessions :
    Deadlocked(T) =>
      \/ saves > 0
      \/ \E s, t \in T : /\ sess[s].kind = "register" /\ sess[t].kind = "register"
                        /\ sess[s].answer # sess[t].answer
=============================================================================
