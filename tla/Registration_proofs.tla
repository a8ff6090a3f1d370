------------------------ MODULE Registration_proofs ------------------------
(***************************************************************************)
(* Proofs about Registration, for every value of its constants.             *)
(***************************************************************************)
EXTENDS Registration, FiniteSetTheorems, WellFoundedInduction, TLAPS

\* The sets the handlers count are finite, so their counts are numbers.
LEMMA Counts ==
  ASSUME RegistrationAssumption
  PROVE  /\ Cardinality(Registered) \in Nat
         /\ Cardinality(Confirmed) \in Nat
         /\ \A o \in Options : Cardinality(Using(o)) \in Nat
<1>1. /\ Registered \subseteq People /\ Confirmed \subseteq People
      /\ \A o \in Options : Using(o) \subseteq People
  BY DEF Registered, Confirmed, Using
<1>2. IsFiniteSet(People)
  BY DEF RegistrationAssumption
<1>3. \A S \in SUBSET People : Cardinality(S) \in Nat
  BY <1>2, FS_Subset, FS_CardinalityType
<1> QED
  BY <1>1, <1>3

\* What the control state of a session says about its type.
LEMMA SessionByPc ==
  ASSUME TypeOK, NEW s \in Sessions
  PROVE  /\ sess[s].pc \in {"full", "new", "insert"} => sess[s] \in Registering
         /\ sess[s].pc = "link" => sess[s] \in Verifying
         /\ sess[s].pc \in {"config", "fields", "counts"} => sess[s] \in Saving
         /\ sess[s].pc \in {"reserving", "refuse"} => sess[s] \in Registering \cup Verifying
         /\ sess[s].pc = "reserving" /\ sess[s].kind = "register" => sess[s] \in Registering
         /\ sess[s].pc = "reserving" /\ sess[s].kind = "verify" => sess[s] \in Verifying
BY DEF TypeOK, Idle, Registering, Verifying, Saving

\* What a session that takes a place changes of itself.
LEMMA ReserveStep ==
  ASSUME TypeOK, NEW s \in Sessions, Reserve(s)
  PROVE  LET o == Head(sess[s].todo) IN
         /\ sess[s] \in Registering \cup Verifying
         /\ o \in Options /\ optionLock[o] = NoSession /\ reserved[o] < Capacity[o]
         /\ sess'[s] = [sess[s] EXCEPT !.todo = Tail(sess[s].todo), !.got = sess[s].got \cup {o}]
         /\ sess'[s].pc = "reserving" /\ sess[s].pc = "reserving"
         /\ sess'[s].kind = sess[s].kind /\ sess'[s].who = sess[s].who
         /\ sess'[s].config = sess[s].config
         /\ sess[s].todo \in Seq(Options) /\ sess[s].todo # <<>>
         /\ sess'[s].todo = Tail(sess[s].todo) /\ sess'[s].got = sess[s].got \cup {o}
         /\ sess[s].kind = "register" => sess'[s].answer = sess[s].answer
         /\ \A t \in Sessions \ {s} : sess'[t] = sess[t]
         /\ optionLock' = [optionLock EXCEPT ![o] = s]
         /\ UNCHANGED <<config, attendee, reserved, eventLock, edited, saves, deletes>>
<1> DEFINE o == Head(sess[s].todo)
<1>1. sess[s] \in Registering \cup Verifying /\ sess[s].pc = "reserving"
  BY SessionByPc DEF Reserve
<1>2. sess[s].todo \in Seq(Options) /\ sess[s].todo # <<>> /\ o \in Options
  BY <1>1 DEF Reserve, Registering, Verifying
<1>3. sess'[s] = [sess[s] EXCEPT !.todo = Tail(sess[s].todo), !.got = sess[s].got \cup {o}]
  BY DEF Reserve, TypeOK
<1>4. /\ sess'[s].pc = "reserving"
      /\ sess'[s].kind = sess[s].kind /\ sess'[s].who = sess[s].who
      /\ sess'[s].config = sess[s].config
      /\ sess'[s].todo = Tail(sess[s].todo) /\ sess'[s].got = sess[s].got \cup {o}
      /\ sess[s].kind = "register" => sess'[s].answer = sess[s].answer
  BY <1>1, <1>3 DEF Registering, Verifying
<1>5. \A t \in Sessions \ {s} : sess'[t] = sess[t]
  BY DEF Reserve, TypeOK
<1> QED
  BY <1>1, <1>2, <1>3, <1>4, <1>5 DEF Reserve, tables, history

\* What a session that locks the event to verify an address changes of itself.
LEMMA LockAndReadStep ==
  ASSUME TypeOK, NEW s \in Sessions, LockAndRead(s)
  PROVE  /\ sess[s] \in Verifying /\ sess[s].pc = "link" /\ sess'[s].kind = "verify"
         /\ sess'[s].pc \in {"refuse", "reserving"}
         /\ sess'[s].who = sess[s].who /\ sess'[s].config = sess[s].config
         /\ sess'[s].got = sess[s].got
         /\ sess'[s].todo = (IF sess[s].config.verify THEN attendee[sess[s].who].answer ELSE <<>>)
         /\ \A t \in Sessions \ {s} : sess'[t] = sess[t]
         /\ eventLock = NoSession /\ eventLock' = s
         /\ UNCHANGED <<config, attendee, reserved, optionLock, edited, saves, deletes>>
<1> DEFINE pc == IF Cardinality(Confirmed) >= Quota THEN "refuse" ELSE "reserving"
           todo == IF sess[s].config.verify THEN attendee[sess[s].who].answer ELSE <<>>
<1>1. sess[s] \in Verifying
  BY SessionByPc DEF LockAndRead
<1>2. sess'[s] = [sess[s] EXCEPT !.pc = pc, !.todo = todo]
  BY DEF LockAndRead, TypeOK
<1>3. pc \in {"refuse", "reserving"}
  OBVIOUS
<1> HIDE DEF pc
<1>5. /\ sess'[s].kind = "verify" /\ sess'[s].pc = pc /\ sess'[s].todo = todo
      /\ sess'[s].who = sess[s].who /\ sess'[s].config = sess[s].config
      /\ sess'[s].got = sess[s].got
  BY <1>1, <1>2 DEF Verifying
<1>6. \A t \in Sessions \ {s} : sess'[t] = sess[t]
  BY DEF LockAndRead, TypeOK
<1> QED
  BY <1>1, <1>3, <1>5, <1>6 DEF LockAndRead, tables, history

\* A session that moves on: pc changes, everything else of it stays.
LEMMA GotoStep ==
  ASSUME TypeOK, NEW s \in Sessions, NEW pc, Goto(s, pc), sess[s] \in Registering
  PROVE  /\ sess'[s].pc = pc /\ sess'[s].kind = "register" /\ sess[s].kind = "register"
         /\ sess'[s].who = sess[s].who /\ sess'[s].config = sess[s].config
         /\ sess'[s].answer = sess[s].answer
         /\ sess'[s].todo = sess[s].todo /\ sess'[s].got = sess[s].got
         /\ \A t \in Sessions \ {s} : sess'[t] = sess[t]
BY DEF Goto, TypeOK, Registering

\* What a session that counts the places in use changes of itself.
LEMMA CountPlacesStep ==
  ASSUME TypeOK, NEW s \in Sessions, CountPlaces(s)
  PROVE  /\ sess'[s].pc = "counts" /\ sess[s].pc = "fields"
         /\ \A t \in Sessions \ {s} : sess'[t] = sess[t]
         /\ eventLock = NoSession /\ eventLock' = s
         /\ UNCHANGED <<config, attendee, reserved, optionLock, edited, saves, deletes>>
<1>1. sess[s] \in Saving
  BY SessionByPc DEF CountPlaces
<1>2. sess'[s].pc = "counts" /\ \A t \in Sessions \ {s} : sess'[t] = sess[t]
  BY <1>1 DEF CountPlaces, TypeOK, Saving
<1> QED
  BY <1>2 DEF CountPlaces, tables, history

\* Ending a session keeps sessions and locks well typed.
LEMMA EndType ==
  ASSUME TypeOK, NEW s \in Sessions, End(s)
  PROVE  /\ sess' \in [Sessions -> {Idle} \cup Registering \cup Verifying \cup Saving]
         /\ eventLock' \in Sessions \cup {NoSession}
         /\ optionLock' \in [Options -> Sessions \cup {NoSession}]
BY DEF TypeOK, End

\* Committing the places of a session keeps the counters well typed.
LEMMA CommitPlacesType ==
  ASSUME TypeOK, NEW s \in Sessions, CommitPlaces(s)
  PROVE  reserved' \in [Options -> Nat]
BY DEF TypeOK, CommitPlaces

\* Closing registration writes a configuration.
LEMMA ConfigClosedByType ==
  ASSUME TypeOK, NEW s \in Sessions, sess[s].config \in Config
  PROVE  ConfigClosedBy(s) \in Config
BY DEF TypeOK, ConfigClosedBy, Config

-----------------------------------------------------------------------------
(* Type correctness, and what the lock of the event protects.               *)

\* Whoever inserts an attendee or verifies an address holds the event; whoever is
\* being verified is registered and not confirmed.
EventLockInv ==
  \A s \in Sessions :
    /\ sess[s].pc = "insert" => eventLock = s
    /\ sess[s].pc = "reserving" /\ sess[s].kind = "verify" =>
         eventLock = s /\ sess[s].who \in Registered \ Confirmed

\* Every step keeps every variable well typed.
LEMMA NextType ==
  ASSUME RegistrationAssumption, TypeOK, EventLockInv, [Next]_vars
  PROVE  TypeOK'
<1> USE DEF tables, history
<1>1. ASSUME NEW s \in Sessions, NEW p \in People, Register(s, p)
      PROVE  TypeOK'
  <2>1. PICK answer \in Answers :
          Begin(s, [kind |-> "register", who |-> p, config |-> config, answer |-> answer,
                    pc   |-> IF Cardinality(Registered) >= Quota THEN "full" ELSE "reserving",
                    todo |-> IF config.verify THEN <<>> ELSE answer,
                    got  |-> {}])
    BY <1>1 DEF Register
  <2>2. sess'[s] \in Registering
    BY <2>1 DEF Begin, Registering, TypeOK, RegistrationAssumption
  <2> QED
    BY <1>1, <2>1, <2>2 DEF Register, Begin, TypeOK
<1>2. ASSUME NEW s \in Sessions, NEW p \in People, Verify(s, p)
      PROVE  TypeOK'
  <2>1. sess'[s] \in Verifying
    BY <1>2 DEF Verify, Begin, Verifying, TypeOK
  <2> QED
    BY <1>2, <2>1 DEF Verify, Begin, TypeOK
<1>3. ASSUME NEW s \in Sessions, Save(s)
      PROVE  TypeOK'
  <2>1. PICK c \in Config, pc \in {"config", "fields"} :
          Begin(s, [kind |-> "save", pc |-> pc, config |-> c,
                    counts |-> [o \in Options |-> 0], dirty |-> {}])
    BY <1>3 DEF Save
  <2>2. sess'[s] \in Saving
    BY <2>1 DEF Begin, Saving, TypeOK
  <2>3. saves' \in 0 .. MaxSaves
    BY <1>3 DEF Save, TypeOK, RegistrationAssumption
  <2> QED
    BY <1>3, <2>1, <2>2, <2>3 DEF Save, Begin, TypeOK
<1>4. ASSUME NEW s \in Sessions, CloseFull(s)
      PROVE  TypeOK'
  <2>1. sess[s].config \in Config
    BY <1>4, SessionByPc DEF CloseFull, Registering, Verifying
  <2> QED
    BY <1>4, <2>1, EndType, CommitPlacesType, ConfigClosedByType DEF CloseFull, TypeOK
<1>5. ASSUME NEW s \in Sessions, Reserve(s)
      PROVE  TypeOK'
  <2> DEFINE o == Head(sess[s].todo)
  <2>1. sess[s] \in Registering \cup Verifying
    BY <1>5, SessionByPc DEF Reserve
  <2>2. o \in Options /\ Tail(sess[s].todo) \in Seq(Options) /\ sess[s].got \cup {o} \subseteq Options
    BY <1>5, <2>1 DEF Reserve, Registering, Verifying
  <2>3. sess'[s] = [sess[s] EXCEPT !.todo = Tail(@), !.got = @ \cup {o}]
    BY <1>5 DEF Reserve, TypeOK
  <2>4. sess'[s] \in Registering \cup Verifying
    BY <2>1, <2>2, <2>3 DEF Registering, Verifying
  <2> QED
    BY <1>5, <2>2, <2>4 DEF Reserve, TypeOK
<1>6. ASSUME NEW s \in Sessions, NoPlace(s) \/ InsertFails(s) \/ VerifyNothing(s) \/ AbortVictim(s)
      PROVE  TypeOK'
  BY <1>6, EndType DEF NoPlace, InsertFails, VerifyNothing, AbortVictim, TypeOK
<1>7. ASSUME NEW s \in Sessions, UpdateExisting(s)
      PROVE  TypeOK'
  <2>1. sess[s] \in Registering
    BY <1>7, SessionByPc DEF UpdateExisting, ReadyToRegister
  <2>2. sess[s].who \in People /\ sess[s].answer \in Answers /\ sess[s].config.verify \in BOOLEAN
    BY <2>1 DEF Registering, Config
  <2>3. attendee[sess[s].who] \in Attendee
    BY <1>7, <2>2 DEF UpdateExisting, TypeOK
  <2>4. attendee' \in [People -> Attendee \cup {Absent}]
    BY <1>7, <2>2, <2>3 DEF UpdateExisting, TypeOK, Attendee
  <2>5. edited' \in BOOLEAN
    BY <1>7 DEF UpdateExisting, TypeOK
  <2> QED
    BY <1>7, <2>4, <2>5, EndType, CommitPlacesType DEF UpdateExisting, TypeOK
<1>8. ASSUME NEW s \in Sessions, FindNone(s)
      PROVE  TypeOK'
  <2>1. sess[s] \in Registering
    BY <1>8, SessionByPc DEF FindNone, ReadyToRegister
  <2>2. sess'[s] \in Registering
    BY <1>8, <2>1 DEF FindNone, Goto, TypeOK, Registering
  <2> QED
    BY <1>8, <2>2 DEF FindNone, Goto, TypeOK
<1>9. ASSUME NEW s \in Sessions, LockAndCount(s)
      PROVE  TypeOK'
  <2>1. sess[s] \in Registering
    BY <1>9, SessionByPc DEF LockAndCount
  <2>2. sess'[s] \in Registering
    BY <1>9, <2>1 DEF LockAndCount, Goto, TypeOK, Registering
  <2> QED
    BY <1>9, <2>2 DEF LockAndCount, Goto, TypeOK
<1>10. ASSUME NEW s \in Sessions, Insert(s)
       PROVE  TypeOK'
  <2>1. sess[s] \in Registering
    BY <1>10, SessionByPc DEF Insert
  <2>2. /\ sess[s].who \in People /\ sess[s].answer \in Answers
        /\ sess[s].config \in Config /\ sess[s].config.verify \in BOOLEAN
    BY <2>1 DEF Registering, Config
  <2>3. attendee' \in [People -> Attendee \cup {Absent}]
    BY <1>10, <2>2 DEF Insert, TypeOK, Attendee
  <2>4. config' \in Config
    BY <1>10, <2>2, ConfigClosedByType DEF Insert, TypeOK
  <2> QED
    BY <1>10, <2>3, <2>4, EndType, CommitPlacesType DEF Insert, TypeOK
<1>11. ASSUME NEW s \in Sessions, LockAndRead(s)
       PROVE  TypeOK'
  <2>1. sess[s] \in Verifying
    BY <1>11, SessionByPc DEF LockAndRead
  <2>2. attendee[sess[s].who] \in Attendee
    BY <1>11, <2>1 DEF LockAndRead, Registered, TypeOK, Verifying
  <2>3. attendee[sess[s].who].answer \in Seq(Options)
    BY <2>2 DEF Attendee, RegistrationAssumption
  <2>4. sess'[s] \in Verifying
    <3> DEFINE pc == IF Cardinality(Confirmed) >= Quota THEN "refuse" ELSE "reserving"
               todo == IF sess[s].config.verify THEN attendee[sess[s].who].answer ELSE <<>>
    <3>1. sess'[s] = [sess[s] EXCEPT !.pc = pc, !.todo = todo]
      BY <1>11 DEF LockAndRead, TypeOK
    <3>2. pc \in {"refuse", "reserving"} /\ todo \in Seq(Options)
      BY <2>3
    <3> HIDE DEF pc, todo
    <3> QED
      BY <2>1, <3>1, <3>2 DEF Verifying
  <2> QED
    BY <1>11, <2>4 DEF LockAndRead, TypeOK
<1>12. ASSUME NEW s \in Sessions, Confirm(s)
       PROVE  TypeOK'
  <2>1. sess[s] \in Verifying
    BY <1>12, SessionByPc DEF Confirm
  <2>2. attendee[sess[s].who] \in Attendee
    BY <1>12, <2>1 DEF Confirm, EventLockInv, Registered, TypeOK
  <2>3. attendee' \in [People -> Attendee \cup {Absent}]
    BY <1>12, <2>1, <2>2 DEF Confirm, TypeOK, Attendee
  <2>4. config' \in Config
    BY <1>12, <2>1, ConfigClosedByType DEF Confirm, TypeOK, Verifying
  <2> QED
    BY <1>12, <2>3, <2>4, EndType, CommitPlacesType DEF Confirm, TypeOK
<1>13. ASSUME NEW s \in Sessions, SaveConfig(s)
       PROVE  TypeOK'
  BY <1>13, SessionByPc, EndType DEF SaveConfig, TypeOK, Saving
<1>14. ASSUME NEW s \in Sessions, CountPlaces(s)
       PROVE  TypeOK'
  <2>1. sess[s] \in Saving
    BY <1>14, SessionByPc DEF CountPlaces
  <2>2. sess'[s] \in Saving
    <3> DEFINE counts == [o \in Options |-> Cardinality(Using(o))]
               dirty == {o \in Options : Cardinality(Using(o)) # reserved[o]}
    <3>1. sess'[s] = [sess[s] EXCEPT !.pc = "counts", !.counts = counts, !.dirty = dirty]
      BY <1>14 DEF CountPlaces, TypeOK
    <3>2. counts \in [Options -> Nat] /\ dirty \subseteq Options
      BY Counts
    <3> HIDE DEF counts, dirty
    <3> QED
      BY <2>1, <3>1, <3>2 DEF Saving
  <2> QED
    BY <1>14, <2>2 DEF CountPlaces, TypeOK
<1>15. ASSUME NEW s \in Sessions, SaveCounts(s)
       PROVE  TypeOK'
  <2>1. sess[s].config \in Config /\ sess[s].counts \in [Options -> Nat]
    BY <1>15, SessionByPc DEF SaveCounts, Saving
  <2>2. reserved' \in [Options -> Nat]
    BY <1>15, <2>1 DEF SaveCounts, TypeOK
  <2> QED
    BY <1>15, <2>1, <2>2, EndType DEF SaveCounts, TypeOK
<1>16. ASSUME NEW p \in People, DeleteAttendee(p)
       PROVE  TypeOK'
  BY <1>16 DEF DeleteAttendee, TypeOK, RegistrationAssumption
<1>17. CASE UNCHANGED vars
  BY <1>17 DEF vars, TypeOK
<1> QED
  BY <1>1, <1>2, <1>3, <1>4, <1>5, <1>6, <1>7, <1>8, <1>9, <1>10, <1>11, <1>12, <1>13,
     <1>14, <1>15, <1>16, <1>17
  DEF Next, Over, Start, Proceed

\* What is said of attendees depends on their rows only.
LEMMA SameAttendees ==
  ASSUME attendee' = attendee
  PROVE  /\ Registered' = Registered /\ Confirmed' = Confirmed
         /\ \A o : Using(o)' = Using(o)
BY DEF Registered, Confirmed, Using, Chosen

\* When nobody holds the event, nobody inserts an attendee or verifies an address.
LEMMA FreeEvent ==
  ASSUME RegistrationAssumption, EventLockInv, eventLock = NoSession, NEW t \in Sessions
  PROVE  sess[t].pc # "insert" /\ ~(sess[t].pc = "reserving" /\ sess[t].kind = "verify")
BY DEF EventLockInv, RegistrationAssumption

\* A session that ends without writing an attendee leaves the others their lock.
LEMMA EndEventLock ==
  ASSUME TypeOK, EventLockInv, NEW s \in Sessions, End(s), attendee' = attendee
  PROVE  EventLockInv'
<1> SUFFICES ASSUME NEW t \in Sessions
             PROVE  /\ sess'[t].pc = "insert" => eventLock' = t
                    /\ sess'[t].pc = "reserving" /\ sess'[t].kind = "verify" =>
                         eventLock' = t /\ sess'[t].who \in (Registered \ Confirmed)'
  BY DEF EventLockInv
<1>1. CASE t = s
  BY <1>1 DEF End, TypeOK, Idle
<1>2. CASE t # s
  BY <1>2 DEF End, TypeOK, EventLockInv, Registered, Confirmed
<1> QED
  BY <1>1, <1>2

\* Every step keeps EventLockInv.
LEMMA NextEventLock ==
  ASSUME RegistrationAssumption, TypeOK, EventLockInv, [Next]_vars
  PROVE  EventLockInv'
<1> USE DEF tables, history
<1>1. ASSUME NEW s \in Sessions, NEW p \in People, Register(s, p) \/ Verify(s, p)
      PROVE  EventLockInv'
  <2>1. /\ sess'[s].pc \in {"full", "link"} \/ (sess'[s].pc = "reserving" /\ sess'[s].kind = "register")
        /\ \A t \in Sessions \ {s} : sess'[t] = sess[t]
    BY <1>1 DEF Register, Verify, Begin, TypeOK
  <2> QED
    BY <1>1, <2>1 DEF Register, Verify, EventLockInv, Registered, Confirmed
<1>2. ASSUME NEW s \in Sessions, Save(s)
      PROVE  EventLockInv'
  <2>1. /\ sess'[s].pc \in {"config", "fields"}
        /\ \A t \in Sessions \ {s} : sess'[t] = sess[t]
    BY <1>2 DEF Save, Begin, TypeOK
  <2> QED
    BY <1>2, <2>1 DEF Save, EventLockInv, Registered, Confirmed
<1>3. ASSUME NEW s \in Sessions, Reserve(s)
      PROVE  EventLockInv'
  <2>1. /\ sess'[s].pc = sess[s].pc /\ sess'[s].kind = sess[s].kind /\ sess'[s].who = sess[s].who
        /\ \A t \in Sessions \ {s} : sess'[t] = sess[t]
        /\ eventLock' = eventLock /\ attendee' = attendee
    BY <1>3, ReserveStep
  <2>2. Registered' = Registered /\ Confirmed' = Confirmed
    BY <2>1, SameAttendees
  <2> QED
    BY <2>1, <2>2 DEF EventLockInv
<1>4. ASSUME NEW s \in Sessions, FindNone(s)
      PROVE  EventLockInv'
  <2>1. sess[s] \in Registering
    BY <1>4, SessionByPc DEF FindNone, ReadyToRegister
  <2>2. sess'[s].pc = "new" /\ \A t \in Sessions \ {s} : sess'[t] = sess[t]
    BY <1>4, <2>1 DEF FindNone, Goto, TypeOK, Registering
  <2> QED
    BY <1>4, <2>2 DEF FindNone, EventLockInv, Registered, Confirmed
<1>5. ASSUME NEW s \in Sessions,
             \/ CloseFull(s) \/ NoPlace(s) \/ InsertFails(s) \/ VerifyNothing(s)
             \/ SaveConfig(s) \/ SaveCounts(s) \/ AbortVictim(s)
      PROVE  EventLockInv'
  BY <1>5, EndEventLock
  DEF CloseFull, NoPlace, InsertFails, VerifyNothing, SaveConfig, SaveCounts, AbortVictim
<1>6. ASSUME NEW s \in Sessions, LockAndCount(s)
      PROVE  EventLockInv'
  <2>1. sess[s] \in Registering
    BY <1>6, SessionByPc DEF LockAndCount
  <2>2. /\ eventLock' = s /\ sess'[s].pc \in {"refuse", "insert"}
        /\ \A t \in Sessions \ {s} : sess'[t] = sess[t]
    BY <1>6, <2>1 DEF LockAndCount, Goto, TypeOK, Registering
  <2> QED
    BY <1>6, <2>2, FreeEvent DEF LockAndCount, EventLockInv
<1>7. ASSUME NEW s \in Sessions, LockAndRead(s)
      PROVE  EventLockInv'
  <2>1. sess[s] \in Verifying
    BY <1>7, SessionByPc DEF LockAndRead
  <2>2. /\ eventLock' = s /\ sess'[s].pc \in {"refuse", "reserving"} /\ sess'[s].who = sess[s].who
        /\ \A t \in Sessions \ {s} : sess'[t] = sess[t]
    BY <1>7, <2>1 DEF LockAndRead, TypeOK, Verifying
  <2> QED
    <3>1. /\ sess[s].who \in (Registered \ Confirmed)' /\ eventLock = NoSession
          /\ sess'[s].pc # "insert"
      BY <1>7, <2>2, SameAttendees DEF LockAndRead
    <3> QED
      BY <2>2, <3>1, FreeEvent DEF EventLockInv
<1>8. ASSUME NEW s \in Sessions, CountPlaces(s)
      PROVE  EventLockInv'
  <2>1. sess[s] \in Saving
    BY <1>8, SessionByPc DEF CountPlaces
  <2>2. /\ eventLock' = s /\ sess'[s].pc = "counts"
        /\ \A t \in Sessions \ {s} : sess'[t] = sess[t]
    BY <1>8, <2>1 DEF CountPlaces, TypeOK, Saving
  <2> QED
    BY <1>8, <2>2, FreeEvent DEF CountPlaces, EventLockInv
<1>9. ASSUME NEW s \in Sessions, UpdateExisting(s) \/ Insert(s)
      PROVE  EventLockInv'
  <2> SUFFICES ASSUME NEW t \in Sessions
               PROVE  /\ sess'[t].pc = "insert" => eventLock' = t
                      /\ sess'[t].pc = "reserving" /\ sess'[t].kind = "verify" =>
                           eventLock' = t /\ sess'[t].who \in (Registered \ Confirmed)'
    BY DEF EventLockInv
  <2>1. /\ sess' = [sess EXCEPT ![s] = Idle]
        /\ eventLock' = IF eventLock = s THEN NoSession ELSE eventLock
    BY <1>9 DEF UpdateExisting, Insert, End
  <2>2. CASE t = s
    BY <2>1, <2>2 DEF TypeOK, Idle
  <2>3. CASE t # s
    <3>1. sess'[t] = sess[t] /\ (eventLock = t => eventLock' = t)
      BY <2>1, <2>3 DEF TypeOK
    <3>2. \A p \in People \ {sess[s].who} : attendee'[p] = attendee[p]
      BY <1>9 DEF UpdateExisting, Insert, TypeOK
    <3>3. ASSUME sess[t].pc = "reserving", sess[t].kind = "verify"
          PROVE  sess[t].who # sess[s].who
      BY <1>9, <3>3 DEF UpdateExisting, Insert, RowHolders, EventLockInv, Registered
    <3> QED
      BY <3>1, <3>2, <3>3 DEF EventLockInv, Registered, Confirmed
  <2> QED
    BY <2>2, <2>3
<1>10. ASSUME NEW s \in Sessions, Confirm(s)
       PROVE  EventLockInv'
  <2>1. eventLock = s
    BY <1>10 DEF Confirm, EventLockInv
  <2> QED
    BY <1>10, <2>1 DEF Confirm, End, TypeOK, Idle, EventLockInv
<1>11. ASSUME NEW p \in People, DeleteAttendee(p)
       PROVE  EventLockInv'
  BY <1>11 DEF DeleteAttendee, RowHolders, EventLockInv, Registered, Confirmed, TypeOK
<1>12. CASE UNCHANGED vars
  BY <1>12 DEF vars, EventLockInv, Registered, Confirmed
<1> QED
  BY <1>1, <1>2, <1>3, <1>4, <1>5, <1>6, <1>7, <1>8, <1>9, <1>10, <1>11, <1>12
  DEF Next, Over, Start, Proceed

\* The lock of the event, in every reachable state.
LEMMA EventLockInvariant == Spec => [](TypeOK /\ EventLockInv)
<1>1. Init => TypeOK /\ EventLockInv
  <2> SUFFICES ASSUME Init PROVE TypeOK /\ EventLockInv
    OBVIOUS
  <2>1. config \in Config /\ attendee \in [People -> Attendee \cup {Absent}]
    BY DEF Init, Config
  <2>2. /\ reserved \in [Options -> Nat]
        /\ eventLock \in Sessions \cup {NoSession}
        /\ optionLock \in [Options -> Sessions \cup {NoSession}]
        /\ sess \in [Sessions -> {Idle}]
    BY DEF Init
  <2>3. edited \in BOOLEAN /\ saves \in 0 .. MaxSaves /\ deletes \in 0 .. MaxDeletes
    <3>1. MaxSaves \in Nat /\ MaxDeletes \in Nat
      BY RegistrationAssumption DEF RegistrationAssumption
    <3>2. saves \in 0 .. MaxSaves /\ deletes \in 0 .. MaxDeletes
      BY <3>1 DEF Init
    <3>3. edited \in BOOLEAN
      BY Zenon DEF Init
    <3> QED
      BY <3>2, <3>3
  <2> QED
    BY <2>1, <2>2, <2>3 DEF TypeOK, EventLockInv, Idle
<1>2. TypeOK /\ EventLockInv /\ [Next]_vars => (TypeOK /\ EventLockInv)'
  BY RegistrationAssumption, NextType, NextEventLock
<1> QED
  BY <1>1, <1>2, PTL DEF Spec

\* The tables, locks and requests stay well typed whatever requests run.
THEOREM TypeCorrect == Spec => []TypeOK
BY EventLockInvariant, PTL

-----------------------------------------------------------------------------
(* The quota.                                                               *)

\* Who is about to insert an attendee has counted fewer than the quota allows.
QuotaInv ==
  /\ QuotaKept
  /\ \A s \in Sessions : sess[s].pc = "insert" => Cardinality(Registered) < Quota

\* One element more adds at most one to a count, fewer elements add nothing.
LEMMA OneMore ==
  ASSUME RegistrationAssumption, NEW S \in SUBSET People, NEW T \in SUBSET People, NEW p
  PROVE  /\ Cardinality(S) \in Nat /\ Cardinality(T) \in Nat
         /\ S \subseteq T => Cardinality(S) <= Cardinality(T)
         /\ S \subseteq T \cup {p} => Cardinality(S) <= Cardinality(T) + 1
<1>1. IsFiniteSet(T)
  BY FS_Subset DEF RegistrationAssumption
<1>2. /\ IsFiniteSet(T \cup {p})
      /\ Cardinality(T \cup {p}) = IF p \in T THEN Cardinality(T) ELSE Cardinality(T) + 1
  BY <1>1, FS_AddElement
<1>3. \A X, Y : IsFiniteSet(Y) /\ X \subseteq Y =>
        /\ Cardinality(X) \in Nat /\ Cardinality(Y) \in Nat
        /\ Cardinality(X) <= Cardinality(Y)
  BY FS_Subset, FS_CardinalityType
<1>4. Cardinality(S) \in Nat /\ Cardinality(T) \in Nat
  BY <1>1, FS_Subset, FS_CardinalityType DEF RegistrationAssumption
<1>5. ASSUME S \subseteq T
      PROVE  Cardinality(S) <= Cardinality(T)
  BY <1>1, <1>3, <1>5
<1>6. ASSUME S \subseteq T \cup {p}
      PROVE  Cardinality(S) <= Cardinality(T) + 1
  <2>1. Cardinality(S) <= Cardinality(T \cup {p})
    BY <1>2, <1>3, <1>6
  <2> QED
    BY <1>2, <1>4, <2>1
<1> QED
  BY <1>4, <1>5, <1>6

\* A request that begins changes its own session only.
LEMMA StartStep ==
  ASSUME TypeOK, NEW s \in Sessions, Start(s)
  PROVE  /\ sess[s] = Idle
         /\ sess'[s].pc \in {"full", "reserving", "link", "config", "fields"}
         /\ \A t \in Sessions \ {s} : sess'[t] = sess[t]
         /\ UNCHANGED <<config, attendee, reserved, eventLock, optionLock, edited, deletes>>
<1>1. CASE Save(s)
  BY <1>1 DEF Save, Begin, TypeOK, tables
<1>2. ASSUME NEW p \in People, Register(s, p)
      PROVE  /\ sess[s] = Idle
             /\ sess'[s].pc \in {"full", "reserving"}
             /\ \A t \in Sessions \ {s} : sess'[t] = sess[t]
             /\ UNCHANGED <<tables, eventLock, optionLock, history>>
  BY <1>2 DEF Register, Begin, TypeOK
<1>3. ASSUME NEW p \in People, Verify(s, p)
      PROVE  /\ sess[s] = Idle
             /\ sess'[s].pc = "link"
             /\ \A t \in Sessions \ {s} : sess'[t] = sess[t]
             /\ UNCHANGED <<tables, eventLock, optionLock, history>>
  BY <1>3 DEF Verify, Begin, TypeOK
<1> QED
  BY <1>1, <1>2, <1>3 DEF Start, tables, history

\* A session that ends inserts nothing any more; the others are where they were.
LEMMA EndInsert ==
  ASSUME TypeOK, NEW s \in Sessions, End(s), NEW t \in Sessions, sess'[t].pc = "insert"
  PROVE  t # s /\ sess[t].pc = "insert"
BY DEF End, TypeOK, Idle

\* Every step keeps QuotaInv.
LEMMA NextQuota ==
  ASSUME RegistrationAssumption, TypeOK, EventLockInv, QuotaInv, [Next]_vars
  PROVE  QuotaInv'
<1> USE DEF tables, history
<1>1. Registered \in SUBSET People /\ Registered' \in SUBSET People
  BY DEF Registered
<1>2. ASSUME Registered' \subseteq Registered,
             \A t \in Sessions : sess'[t].pc = "insert" => sess[t].pc = "insert"
      PROVE  QuotaInv'
  <2>1. /\ Cardinality(Registered') \in Nat /\ Cardinality(Registered) \in Nat
        /\ Cardinality(Registered') <= Cardinality(Registered)
    BY <1>1, <1>2, OneMore
  <2>2. Quota \in Nat
    BY DEF RegistrationAssumption
  <2> QED
    BY <1>2, <2>1, <2>2 DEF QuotaInv, QuotaKept
<1>3. ASSUME NEW s \in Sessions, Start(s)
      PROVE  QuotaInv'
  BY <1>2, <1>3, StartStep, SameAttendees
<1>4. ASSUME NEW s \in Sessions,
             \/ CloseFull(s) \/ NoPlace(s) \/ InsertFails(s) \/ VerifyNothing(s)
             \/ SaveConfig(s) \/ SaveCounts(s) \/ AbortVictim(s)
      PROVE  QuotaInv'
  <2>1. attendee' = attendee /\ End(s)
    BY <1>4
    DEF CloseFull, NoPlace, InsertFails, VerifyNothing, SaveConfig, SaveCounts, AbortVictim
  <2> QED
    BY <1>2, <2>1, EndInsert, SameAttendees
<1>5. ASSUME NEW s \in Sessions,
             Reserve(s) \/ FindNone(s) \/ LockAndRead(s) \/ CountPlaces(s)
      PROVE  QuotaInv'
  <2>1. CASE Reserve(s) \/ LockAndRead(s) \/ CountPlaces(s)
    <3>1. /\ sess'[s].pc # "insert" /\ attendee' = attendee
          /\ \A t \in Sessions \ {s} : sess'[t] = sess[t]
      <4>1. CASE Reserve(s)
        BY <4>1, ReserveStep
      <4>2. CASE LockAndRead(s)
        BY <4>2, LockAndReadStep
      <4>3. CASE CountPlaces(s)
        BY <4>3, CountPlacesStep
      <4> QED
        BY <2>1, <4>1, <4>2, <4>3
    <3> QED
      BY <1>2, <3>1, SameAttendees
  <2>2. CASE FindNone(s)
    BY <1>2, <2>2, SessionByPc, GotoStep, SameAttendees DEF FindNone, ReadyToRegister
  <2> QED
    BY <1>5, <2>1, <2>2
<1>6. ASSUME NEW s \in Sessions, LockAndCount(s)
      PROVE  QuotaInv'
  <2>1. attendee' = attendee /\ Cardinality(Registered) \in Nat /\ Quota \in Nat
    BY <1>6, Counts DEF LockAndCount, RegistrationAssumption
  <2>2. sess[s] \in Registering
    BY <1>6, SessionByPc DEF LockAndCount
  <2>3. sess'[s].pc = "insert" => Cardinality(Registered) < Quota
    BY <1>6, <2>1, <2>2 DEF LockAndCount, Goto, TypeOK, Registering
  <2>4. \A t \in Sessions \ {s} : sess'[t] = sess[t]
    BY <1>6 DEF LockAndCount, Goto, TypeOK
  <2> QED
    BY <2>1, <2>3, <2>4, SameAttendees DEF QuotaInv, QuotaKept
<1>7. ASSUME NEW s \in Sessions, UpdateExisting(s) \/ Confirm(s)
      PROVE  QuotaInv'
  <2>1. sess[s].who \in Registered /\ End(s)
    BY <1>7, SessionByPc
    DEF UpdateExisting, ReadyToRegister, Confirm, EventLockInv, Registered, Registering
  <2>2. \A p \in People \ {sess[s].who} : attendee'[p] = attendee[p]
    BY <1>7 DEF UpdateExisting, Confirm, TypeOK
  <2>3. Registered' \subseteq Registered
    BY <2>1, <2>2 DEF Registered
  <2> QED
    BY <1>2, <2>1, <2>3, EndInsert
<1>8. ASSUME NEW s \in Sessions, Insert(s)
      PROVE  QuotaInv'
  <2>1. \A p \in People \ {sess[s].who} : attendee'[p] = attendee[p]
    BY <1>8 DEF Insert, TypeOK
  <2>2. Registered' \subseteq Registered \cup {sess[s].who}
    BY <2>1 DEF Registered
  <2>3. /\ Cardinality(Registered') \in Nat /\ Cardinality(Registered) \in Nat
        /\ Cardinality(Registered') <= Cardinality(Registered) + 1
    BY <1>1, <2>2, OneMore
  <2>4. Cardinality(Registered) < Quota /\ Quota \in Nat
    BY <1>8 DEF Insert, QuotaInv, RegistrationAssumption
  <2>5. \A t \in Sessions : sess'[t].pc # "insert"
    BY <1>8, EndInsert DEF Insert, EventLockInv
  <2> QED
    BY <2>3, <2>4, <2>5 DEF QuotaInv, QuotaKept
<1>9. ASSUME NEW p \in People, DeleteAttendee(p)
      PROVE  QuotaInv'
  <2>1. Registered' \subseteq Registered
    BY <1>9 DEF DeleteAttendee, Registered, TypeOK
  <2> QED
    BY <1>2, <1>9, <2>1 DEF DeleteAttendee
<1>10. CASE UNCHANGED vars
  BY <1>2, <1>10, SameAttendees DEF vars
<1> QED
  BY <1>3, <1>4, <1>5, <1>6, <1>7, <1>8, <1>9, <1>10 DEF Next, Over, Proceed

\* However many people register at once, no more are registered than the quota
\* allows: the count under the lock of the event decides.
THEOREM QuotaNeverExceeded == Spec => []QuotaKept
<1>1. Init => QuotaInv
  <2> SUFFICES ASSUME Init PROVE QuotaInv
    OBVIOUS
  <2>1. Registered = {} /\ \A s \in Sessions : sess[s].pc = "idle"
    BY DEF Init, Registered, Idle
  <2>2. Cardinality(Registered) = 0
    BY <2>1, FS_EmptySet
  <2>3. Quota \in Nat
    BY RegistrationAssumption DEF RegistrationAssumption
  <2> QED
    BY <2>1, <2>2, <2>3 DEF QuotaInv, QuotaKept
<1>2. TypeOK /\ EventLockInv /\ QuotaInv /\ [Next]_vars => QuotaInv'
  BY RegistrationAssumption, NextQuota
<1>3. QuotaInv => QuotaKept
  BY DEF QuotaInv
<1> QED
  BY <1>1, <1>2, <1>3, EventLockInvariant, PTL DEF Spec

-----------------------------------------------------------------------------
(* The places.                                                              *)

\* The control states of a request to register or to verify an address.
Serving == {"full", "reserving", "new", "insert", "refuse", "link"}

\* Who has taken a place and not committed it holds the row of the option, and
\* the place is free in what is committed.
GotInv ==
  \A s \in Sessions : sess[s].pc \in Serving =>
    \A o \in sess[s].got : o \in Options /\ optionLock[o] = s /\ reserved[o] < Capacity[o]

\* Places of a session that ends are committed, or left as they were.
LEMMA EndGot ==
  ASSUME RegistrationAssumption, TypeOK, GotInv, NEW s \in Sessions, End(s),
         reserved' = reserved \/ (CommitPlaces(s) /\ sess[s].pc \in Serving)
  PROVE  GotInv'
<1> SUFFICES ASSUME NEW t \in Sessions, sess'[t].pc \in Serving, NEW o \in sess'[t].got
             PROVE  o \in Options /\ optionLock'[o] = t /\ reserved'[o] < Capacity[o]
  BY DEF GotInv, Serving
<1>1. t # s /\ sess'[t] = sess[t]
  BY DEF End, TypeOK, Idle, Serving
<1>2. o \in Options /\ optionLock[o] = t /\ reserved[o] < Capacity[o]
  BY <1>1 DEF GotInv
<1>3. optionLock'[o] = t
  BY <1>1, <1>2 DEF End
<1>4. reserved'[o] = reserved[o]
  BY <1>1, <1>2 DEF CommitPlaces, GotInv
<1> QED
  BY <1>2, <1>3, <1>4

\* Every step keeps GotInv.
LEMMA NextGot ==
  ASSUME RegistrationAssumption, TypeOK, GotInv, [Next]_vars
  PROVE  GotInv'
<1> USE DEF tables, history
<1>1. ASSUME NEW s \in Sessions, Start(s)
      PROVE  GotInv'
  <2>1. sess'[s].pc \in Serving => sess'[s].got = {}
    <3>1. CASE Save(s)
      BY <3>1 DEF Save, Begin, TypeOK, Serving
    <3>2. ASSUME NEW p \in People, Register(s, p) \/ Verify(s, p)
          PROVE  sess'[s].got = {}
      BY <3>2 DEF Register, Verify, Begin, TypeOK
    <3> QED
      BY <1>1, <3>1, <3>2 DEF Start
  <2> QED
    BY <1>1, <2>1, StartStep DEF GotInv
<1>2. ASSUME NEW s \in Sessions, CloseFull(s) \/ UpdateExisting(s) \/ Insert(s) \/ Confirm(s)
      PROVE  GotInv'
  <2>1. sess[s].pc \in Serving /\ End(s) /\ CommitPlaces(s)
    BY <1>2 DEF CloseFull, UpdateExisting, ReadyToRegister, Insert, Confirm, Serving
  <2> QED
    BY <2>1, EndGot
<1>3. ASSUME NEW s \in Sessions,
             \/ NoPlace(s) \/ InsertFails(s) \/ VerifyNothing(s)
             \/ SaveConfig(s) \/ AbortVictim(s)
      PROVE  GotInv'
  BY <1>3, EndGot DEF NoPlace, InsertFails, VerifyNothing, SaveConfig, AbortVictim
<1>4. ASSUME NEW s \in Sessions, Reserve(s)
      PROVE  GotInv'
  <2> SUFFICES ASSUME NEW t \in Sessions, sess'[t].pc \in Serving, NEW o \in sess'[t].got
               PROVE  o \in Options /\ optionLock'[o] = t /\ reserved'[o] < Capacity[o]
    BY DEF GotInv, Serving
  <2> DEFINE taken == Head(sess[s].todo)
  <2>1. /\ taken \in Options /\ optionLock[taken] = NoSession /\ reserved[taken] < Capacity[taken]
        /\ optionLock' = [optionLock EXCEPT ![taken] = s] /\ reserved' = reserved
        /\ sess[s].pc \in Serving /\ sess'[s].got = sess[s].got \cup {taken}
        /\ \A u \in Sessions \ {s} : sess'[u] = sess[u]
    BY <1>4, ReserveStep DEF Serving
  <2> HIDE DEF taken
  <2>2. CASE t = s /\ o = taken
    BY <2>1, <2>2 DEF TypeOK
  <2>3. CASE ~(t = s /\ o = taken)
    <3>1. o \in Options /\ optionLock[o] = t /\ reserved[o] < Capacity[o]
      BY <2>1, <2>3 DEF GotInv
    <3>2. o # taken
      BY <2>1, <3>1 DEF RegistrationAssumption
    <3> QED
      BY <2>1, <3>1, <3>2 DEF TypeOK
  <2> QED
    BY <2>2, <2>3
<1>5. ASSUME NEW s \in Sessions, FindNone(s) \/ LockAndCount(s)
      PROVE  GotInv'
  <2>1. sess[s] \in Registering /\ sess[s].pc \in Serving
    BY <1>5, SessionByPc DEF FindNone, ReadyToRegister, LockAndCount, Serving
  <2>2. sess'[s].got = sess[s].got /\ \A t \in Sessions \ {s} : sess'[t] = sess[t]
    BY <1>5, <2>1, GotoStep DEF FindNone, LockAndCount
  <2>3. optionLock' = optionLock /\ reserved' = reserved
    BY <1>5 DEF FindNone, LockAndCount
  <2> QED
    BY <2>1, <2>2, <2>3 DEF GotInv
<1>6. ASSUME NEW s \in Sessions, LockAndRead(s) \/ CountPlaces(s)
      PROVE  GotInv'
  BY <1>6, LockAndReadStep, CountPlacesStep DEF GotInv, Serving
<1>7. ASSUME NEW s \in Sessions, SaveCounts(s)
      PROVE  GotInv'
  <2> SUFFICES ASSUME NEW t \in Sessions, sess'[t].pc \in Serving, NEW o \in sess'[t].got
               PROVE  o \in Options /\ optionLock'[o] = t /\ reserved'[o] < Capacity[o]
    BY DEF GotInv, Serving
  <2>1. t # s /\ sess'[t] = sess[t]
    BY <1>7 DEF SaveCounts, End, TypeOK, Idle, Serving
  <2>2. o \in Options /\ optionLock[o] = t /\ reserved[o] < Capacity[o]
    BY <2>1 DEF GotInv
  <2>3. o \notin sess[s].dirty
    BY <1>7, <2>2 DEF SaveCounts, RegistrationAssumption
  <2>4. optionLock'[o] = t /\ reserved'[o] = reserved[o]
    BY <1>7, <2>1, <2>2, <2>3 DEF SaveCounts, End
  <2> QED
    BY <2>2, <2>4
<1>8. ASSUME NEW p \in People, DeleteAttendee(p)
      PROVE  GotInv'
  BY <1>8 DEF DeleteAttendee, GotInv
<1>9. CASE UNCHANGED vars
  BY <1>9 DEF vars, GotInv
<1> QED
  BY <1>1, <1>2, <1>3, <1>4, <1>5, <1>6, <1>7, <1>8, <1>9 DEF Next, Over, Proceed

\* Until the organiser saves the settings, every request knows whether addresses
\* are verified, and if they are not everybody who is registered is confirmed.
SettingsInv ==
  /\ \A s \in Sessions : sess[s].pc \in {"config", "fields", "counts"} => saves > 0
  /\ saves = 0 =>
       /\ \A s \in Sessions : sess[s].pc \in Serving =>
            /\ sess[s].config.verify = config.verify
            /\ sess[s].kind = "verify" => config.verify
       /\ ~config.verify => \A p \in Registered : attendee[p].verified

\* Every step keeps the first part of SettingsInv.
LEMMA NextSaving ==
  ASSUME RegistrationAssumption, TypeOK, [Next]_vars,
         \A s \in Sessions : sess[s].pc \in {"config", "fields", "counts"} => saves > 0
  PROVE  /\ saves' >= saves /\ saves \in Nat /\ saves' \in Nat
         /\ \A s \in Sessions : sess'[s].pc \in {"config", "fields", "counts"} => saves' > 0
<1> USE DEF tables, history
<1> DEFINE Goal == /\ saves' >= saves /\ saves \in Nat /\ saves' \in Nat
                   /\ \A s \in Sessions : sess'[s].pc \in {"config", "fields", "counts"} => saves' > 0
<1>1. saves \in Nat
  BY DEF TypeOK, RegistrationAssumption
<1>2. ASSUME NEW s \in Sessions, Save(s)
      PROVE  Goal
  BY <1>1, <1>2 DEF Save
<1>3. ASSUME NEW s \in Sessions, NEW p \in People, Register(s, p) \/ Verify(s, p)
      PROVE  Goal
  <2>1. /\ sess'[s].pc \in {"full", "reserving", "link"} /\ saves' = saves
        /\ \A t \in Sessions \ {s} : sess'[t] = sess[t]
    BY <1>3 DEF Register, Verify, Begin, TypeOK
  <2> QED
    BY <1>1, <2>1
<1>4. ASSUME NEW s \in Sessions, End(s), saves' = saves
      PROVE  Goal
  <2>1. sess'[s].pc = "idle" /\ \A t \in Sessions \ {s} : sess'[t] = sess[t]
    BY <1>4 DEF End, TypeOK, Idle
  <2> QED
    BY <1>1, <1>4, <2>1
<1>5. ASSUME NEW s \in Sessions,
             \/ CloseFull(s) \/ NoPlace(s) \/ UpdateExisting(s) \/ Insert(s) \/ InsertFails(s)
             \/ VerifyNothing(s) \/ Confirm(s) \/ SaveConfig(s) \/ SaveCounts(s) \/ AbortVictim(s)
      PROVE  Goal
  <2>1. End(s) /\ saves' = saves
    BY <1>5
    DEF CloseFull, NoPlace, UpdateExisting, Insert, InsertFails, VerifyNothing, Confirm,
        SaveConfig, SaveCounts, AbortVictim
  <2> QED
    BY <1>4, <2>1
<1>6. ASSUME NEW s \in Sessions, Reserve(s) \/ LockAndRead(s) \/ CountPlaces(s)
      PROVE  Goal
  <2>1. CASE Reserve(s) \/ LockAndRead(s)
    <3>1. /\ sess'[s].pc \in {"reserving", "refuse"} /\ saves' = saves
          /\ \A t \in Sessions \ {s} : sess'[t] = sess[t]
      BY <2>1, ReserveStep, LockAndReadStep
    <3> QED
      BY <1>1, <3>1
  <2>2. CASE CountPlaces(s)
    <3>1. /\ sess[s].pc = "fields" /\ saves' = saves
          /\ \A t \in Sessions \ {s} : sess'[t] = sess[t]
      BY <2>2, CountPlacesStep
    <3> QED
      BY <1>1, <3>1
  <2> QED
    BY <1>6, <2>1, <2>2
<1>7. ASSUME NEW s \in Sessions, FindNone(s) \/ LockAndCount(s)
      PROVE  Goal
  <2>1. sess[s] \in Registering
    BY <1>7, SessionByPc DEF FindNone, ReadyToRegister, LockAndCount
  <2>2. /\ sess'[s].pc \in {"new", "refuse", "insert"} /\ saves' = saves
        /\ \A t \in Sessions \ {s} : sess'[t] = sess[t]
    BY <1>7, <2>1, GotoStep DEF FindNone, LockAndCount
  <2> QED
    BY <1>1, <2>2
<1>8. ASSUME NEW p \in People, DeleteAttendee(p)
      PROVE  Goal
  BY <1>1, <1>8 DEF DeleteAttendee
<1>9. CASE UNCHANGED vars
  BY <1>1, <1>9 DEF vars
<1> QED
  BY <1>2, <1>3, <1>5, <1>6, <1>7, <1>8, <1>9 DEF Next, Over, Start, Proceed

\* A session that ends changes nobody else's.
LEMMA EndStep ==
  ASSUME TypeOK, NEW s \in Sessions, End(s)
  PROVE  /\ sess'[s].pc = "idle" /\ sess'[s].pc \notin Serving
         /\ \A t \in Sessions \ {s} : sess'[t] = sess[t]
BY DEF End, TypeOK, Idle, Serving

\* Every step keeps SettingsInv.
LEMMA NextSettings ==
  ASSUME RegistrationAssumption, TypeOK, EventLockInv, SettingsInv, [Next]_vars
  PROVE  SettingsInv'
<1> USE DEF tables, history
<1>1. /\ saves' >= saves /\ saves \in Nat /\ saves' \in Nat
      /\ \A s \in Sessions : sess'[s].pc \in {"config", "fields", "counts"} => saves' > 0
  BY NextSaving DEF SettingsInv
<1> SUFFICES ASSUME saves' = 0
             PROVE  /\ \A t \in Sessions : sess'[t].pc \in Serving =>
                         /\ sess'[t].config.verify = config'.verify
                         /\ sess'[t].kind = "verify" => config'.verify
                    /\ ~config'.verify => \A p \in Registered' : attendee'[p].verified
  BY <1>1 DEF SettingsInv
<1> DEFINE Goal == /\ \A t \in Sessions : sess'[t].pc \in Serving =>
                        /\ sess'[t].config.verify = config'.verify
                        /\ sess'[t].kind = "verify" => config'.verify
                   /\ ~config'.verify => \A p \in Registered' : attendee'[p].verified
<1>2. saves = 0
  BY <1>1
<1>3. /\ \A t \in Sessions : sess[t].pc \in Serving =>
           /\ sess[t].config.verify = config.verify
           /\ sess[t].kind = "verify" => config.verify
      /\ ~config.verify => \A p \in Registered : attendee[p].verified
      /\ \A t \in Sessions : sess[t].pc \notin {"config", "fields", "counts"}
  BY <1>2 DEF SettingsInv
<1>4. \A s \in Sessions : sess[s].pc \in Serving =>
        ConfigClosedBy(s).verify = config.verify
  <2> SUFFICES ASSUME NEW s \in Sessions, sess[s].pc \in Serving
               PROVE  ConfigClosedBy(s).verify = config.verify
    OBVIOUS
  <2>1. sess[s].config \in Config
    BY SessionByPc DEF Serving, Registering, Verifying
  <2> QED
    BY <1>3, <2>1 DEF ConfigClosedBy, Config
<1>5. ASSUME NEW s \in Sessions, NEW p \in People, Register(s, p)
      PROVE  Goal
  <2>1. /\ sess'[s].config = config /\ sess'[s].kind = "register"
        /\ \A t \in Sessions \ {s} : sess'[t] = sess[t]
    BY <1>5 DEF Register, Begin, TypeOK
  <2> QED
    BY <1>3, <1>5, <2>1, SameAttendees DEF Register
<1>6. ASSUME NEW s \in Sessions, NEW p \in People, Verify(s, p)
      PROVE  Goal
  <2>1. /\ sess'[s].config = config /\ sess'[s].kind = "verify"
        /\ \A t \in Sessions \ {s} : sess'[t] = sess[t]
    BY <1>6 DEF Verify, Begin, TypeOK
  <2>2. config.verify
    BY <1>3, <1>6 DEF Verify, Confirmed
  <2> QED
    BY <1>3, <1>6, <2>1, <2>2, SameAttendees DEF Verify
<1>7. ASSUME NEW s \in Sessions, Save(s)
      PROVE  FALSE
  BY <1>1, <1>2, <1>7 DEF Save
<1>8. ASSUME NEW s \in Sessions, CloseFull(s)
      PROVE  Goal
  <2>1. sess[s].pc \in Serving /\ End(s) /\ attendee' = attendee /\ config' = ConfigClosedBy(s)
    BY <1>8 DEF CloseFull, Serving
  <2> QED
    BY <1>3, <1>4, <2>1, EndStep, SameAttendees
<1>9. ASSUME NEW s \in Sessions, NoPlace(s) \/ InsertFails(s) \/ VerifyNothing(s) \/ AbortVictim(s)
      PROVE  Goal
  <2>1. End(s) /\ attendee' = attendee /\ config' = config
    BY <1>9 DEF NoPlace, InsertFails, VerifyNothing, AbortVictim
  <2> QED
    BY <1>3, <2>1, EndStep, SameAttendees
<1>10. ASSUME NEW s \in Sessions, SaveConfig(s) \/ CountPlaces(s) \/ SaveCounts(s)
       PROVE  FALSE
  BY <1>3, <1>10 DEF SaveConfig, CountPlaces, SaveCounts
<1>11. ASSUME NEW s \in Sessions, Reserve(s) \/ LockAndRead(s)
       PROVE  Goal
  <2>1. CASE Reserve(s)
    <3>1. /\ sess[s].pc \in Serving /\ sess'[s].kind = sess[s].kind
          /\ sess'[s].config = sess[s].config /\ config' = config /\ attendee' = attendee
          /\ \A t \in Sessions \ {s} : sess'[t] = sess[t]
      BY <2>1, ReserveStep DEF Serving
    <3> QED
      BY <1>3, <3>1, SameAttendees
  <2>2. CASE LockAndRead(s)
    <3>1. /\ sess[s].pc \in Serving /\ sess[s].kind = "verify" /\ sess'[s].kind = "verify"
          /\ sess'[s].config = sess[s].config /\ config' = config /\ attendee' = attendee
          /\ \A t \in Sessions \ {s} : sess'[t] = sess[t]
      BY <2>2, LockAndReadStep DEF Serving, Verifying
    <3> QED
      BY <1>3, <3>1, SameAttendees
  <2> QED
    BY <1>11, <2>1, <2>2
<1>12. ASSUME NEW s \in Sessions, FindNone(s) \/ LockAndCount(s)
       PROVE  Goal
  <2>1. sess[s] \in Registering /\ sess[s].pc \in Serving
    BY <1>12, SessionByPc DEF FindNone, ReadyToRegister, LockAndCount, Serving
  <2>2. /\ sess'[s].kind = "register" /\ sess'[s].config = sess[s].config
        /\ \A t \in Sessions \ {s} : sess'[t] = sess[t]
        /\ config' = config /\ attendee' = attendee
    BY <1>12, <2>1, GotoStep DEF FindNone, LockAndCount
  <2> QED
    BY <1>3, <2>1, <2>2, SameAttendees
<1>13. ASSUME NEW s \in Sessions, UpdateExisting(s)
       PROVE  Goal
  <2> DEFINE who == sess[s].who
  <2>1. /\ sess[s] \in Registering /\ sess[s].pc \in Serving /\ End(s) /\ config' = config
        /\ attendee[who] # Absent
    BY <1>13, SessionByPc DEF UpdateExisting, ReadyToRegister, Serving
  <2>2. attendee[who] \in Attendee /\ who \in Registered
    BY <2>1 DEF TypeOK, Registering, Registered
  <2>3. /\ attendee'[who].verified = (attendee[who].verified \/ ~sess[s].config.verify)
        /\ \A p \in People \ {who} : attendee'[p] = attendee[p]
    BY <1>13, <2>2 DEF UpdateExisting, TypeOK, Attendee, Registered
  <2>4. ~config.verify => \A p \in Registered' : attendee'[p].verified
    BY <1>3, <2>1, <2>2, <2>3 DEF Registered
  <2> QED
    BY <1>3, <2>1, <2>4, EndStep
<1>14. ASSUME NEW s \in Sessions, Insert(s)
       PROVE  Goal
  <2> DEFINE who == sess[s].who
  <2>1. /\ sess[s] \in Registering /\ sess[s].pc \in Serving /\ End(s)
        /\ config' \in {config, ConfigClosedBy(s)}
    BY <1>14, SessionByPc DEF Insert, Serving
  <2>2. /\ attendee'[who].verified = ~sess[s].config.verify
        /\ \A p \in People \ {who} : attendee'[p] = attendee[p]
    BY <1>14, <2>1 DEF Insert, TypeOK, Registering
  <2>3. ~config.verify => \A p \in Registered' : attendee'[p].verified
    BY <1>3, <2>1, <2>2 DEF Registered
  <2> QED
    BY <1>3, <1>4, <2>1, <2>3, EndStep
<1>15. ASSUME NEW s \in Sessions, Confirm(s)
       PROVE  Goal
  <2>1. /\ sess[s].pc \in Serving /\ sess[s].kind = "verify" /\ End(s)
        /\ config' \in {config, ConfigClosedBy(s)}
    BY <1>15 DEF Confirm, Serving
  <2> QED
    BY <1>3, <1>4, <2>1, EndStep
<1>16. ASSUME NEW p \in People, DeleteAttendee(p)
       PROVE  Goal
  <2>1. /\ config' = config /\ sess' = sess /\ Registered' \subseteq Registered
        /\ \A q \in Registered' : attendee'[q] = attendee[q]
    BY <1>16 DEF DeleteAttendee, Registered, TypeOK
  <2> QED
    BY <1>3, <2>1
<1>17. CASE UNCHANGED vars
  BY <1>3, <1>17, SameAttendees DEF vars
<1> QED
  BY <1>5, <1>6, <1>7, <1>8, <1>9, <1>10, <1>11, <1>12, <1>13, <1>14, <1>15, <1>16, <1>17
  DEF Next, Over, Start, Proceed

\* A sequence that is not empty is its head and its tail.
LEMMA RangeOfTail ==
  ASSUME NEW q \in Seq(Options), q # <<>>
  PROVE  Range(q) \subseteq {Head(q)} \cup Range(Tail(q))
<1> SUFFICES ASSUME NEW i \in DOMAIN q
             PROVE  q[i] \in {Head(q)} \cup Range(Tail(q))
  BY DEF Range
<1>1. i \in 1 .. Len(q) /\ Len(q) \in Nat
  OBVIOUS
<1>2. CASE i = 1
  BY <1>2
<1>3. CASE i # 1
  <2>1. i - 1 \in DOMAIN Tail(q) /\ Tail(q)[i - 1] = q[i]
    BY <1>1, <1>3
  <2> QED
    BY <2>1 DEF Range
<1> QED
  BY <1>2, <1>3

\* Every option a request has to reserve is reserved or still to be reserved, and
\* nothing is left to reserve when an attendee is written.
AnswerOf(s) ==
  /\ sess[s].pc \in {"reserving", "new", "insert"} /\ sess[s].kind = "register" =>
       /\ sess[s].pc # "reserving" => sess[s].todo = <<>>
       /\ ~sess[s].config.verify =>
            Range(sess[s].answer) \subseteq sess[s].got \cup Range(sess[s].todo)
  /\ sess[s].pc = "reserving" /\ sess[s].kind = "verify" /\ sess[s].config.verify =>
       Range(attendee[sess[s].who].answer) \subseteq sess[s].got \cup Range(sess[s].todo)

AnswerInv == \A s \in Sessions : AnswerOf(s)

\* It holds on of a session that does not move while the answers it confirms stay.
LEMMA OtherAnswers ==
  ASSUME AnswerInv, NEW t \in Sessions, sess'[t] = sess[t],
         sess[t].pc = "reserving" /\ sess[t].kind = "verify" =>
           attendee'[sess[t].who].answer = attendee[sess[t].who].answer
  PROVE  AnswerOf(t)'
BY DEF AnswerInv, AnswerOf

\* Every step keeps AnswerInv.
LEMMA NextAnswer ==
  ASSUME RegistrationAssumption, TypeOK, EventLockInv, AnswerInv, [Next]_vars
  PROVE  AnswerInv'
<1> USE DEF tables, history
<1>1. ASSUME NEW s \in Sessions, \A t \in Sessions \ {s} : sess'[t] = sess[t],
             attendee' = attendee, AnswerOf(s)'
      PROVE  AnswerInv'
  BY <1>1, OtherAnswers DEF AnswerInv
<1>2. ASSUME NEW s \in Sessions, NEW p \in People, Register(s, p)
      PROVE  AnswerInv'
  <2>1. PICK answer \in Answers :
          Begin(s, [kind |-> "register", who |-> p, config |-> config, answer |-> answer,
                    pc   |-> IF Cardinality(Registered) >= Quota THEN "full" ELSE "reserving",
                    todo |-> IF config.verify THEN <<>> ELSE answer,
                    got  |-> {}])
    BY <1>2 DEF Register
  <2>2. /\ sess'[s].pc \in {"full", "reserving"} /\ sess'[s].kind = "register"
        /\ sess'[s].config = config /\ sess'[s].answer = answer
        /\ sess'[s].todo = (IF config.verify THEN <<>> ELSE answer)
    BY <2>1 DEF Begin, TypeOK
  <2>3. AnswerOf(s)'
    BY <2>2 DEF AnswerOf
  <2> QED
    BY <1>1, <1>2, <2>3, StartStep DEF Start
<1>3. ASSUME NEW s \in Sessions, Save(s) \/ \E p \in People : Verify(s, p)
      PROVE  AnswerInv'
  <2>1. sess'[s].pc \in {"link", "config", "fields"}
    BY <1>3 DEF Verify, Save, Begin, TypeOK
  <2>2. AnswerOf(s)'
    BY <2>1 DEF AnswerOf
  <2> QED
    BY <1>1, <1>3, <2>2, StartStep DEF Start
<1>4. ASSUME NEW s \in Sessions, End(s),
             \A t \in Sessions \ {s} : sess[t].pc = "reserving" /\ sess[t].kind = "verify" =>
               attendee'[sess[t].who].answer = attendee[sess[t].who].answer
      PROVE  AnswerInv'
  <2>1. AnswerOf(s)'
    BY <1>4, EndStep DEF AnswerOf
  <2> QED
    BY <1>4, <2>1, EndStep, OtherAnswers DEF AnswerInv
<1>5. ASSUME NEW s \in Sessions,
             \/ CloseFull(s) \/ NoPlace(s) \/ InsertFails(s) \/ VerifyNothing(s)
             \/ SaveConfig(s) \/ SaveCounts(s) \/ AbortVictim(s)
      PROVE  AnswerInv'
  <2>1. attendee' = attendee /\ End(s)
    BY <1>5
    DEF CloseFull, NoPlace, InsertFails, VerifyNothing, SaveConfig, SaveCounts, AbortVictim
  <2> QED
    BY <1>4, <2>1
<1>6. ASSUME NEW s \in Sessions, Reserve(s)
      PROVE  AnswerInv'
  <2> DEFINE o == Head(sess[s].todo)
  <2>1. /\ sess[s].pc = "reserving" /\ sess'[s].pc = "reserving" /\ sess'[s].kind = sess[s].kind
        /\ sess'[s].who = sess[s].who /\ sess'[s].config = sess[s].config
        /\ sess[s].kind = "register" => sess'[s].answer = sess[s].answer
        /\ sess'[s].todo = Tail(sess[s].todo) /\ sess'[s].got = sess[s].got \cup {o}
        /\ attendee' = attendee /\ \A t \in Sessions \ {s} : sess'[t] = sess[t]
    BY <1>6, ReserveStep
  <2>2. Range(sess[s].todo) \subseteq {o} \cup Range(Tail(sess[s].todo))
    BY <1>6, ReserveStep, RangeOfTail
  <2>3. sess[s].got \cup Range(sess[s].todo) \subseteq sess'[s].got \cup Range(sess'[s].todo)
    BY <2>1, <2>2
  <2> HIDE DEF o
  <2>4. AnswerOf(s)'
    BY <2>1, <2>3 DEF AnswerInv, AnswerOf
  <2> QED
    BY <1>1, <2>1, <2>4
<1>7. ASSUME NEW s \in Sessions, FindNone(s) \/ LockAndCount(s)
      PROVE  AnswerInv'
  <2>1. /\ sess[s] \in Registering /\ sess[s].kind = "register" /\ sess[s].todo = <<>>
        /\ sess[s].pc \in {"reserving", "new"}
    BY <1>7, SessionByPc
    DEF FindNone, ReadyToRegister, LockAndCount, AnswerInv, AnswerOf, Registering
  <2>2. /\ sess'[s].kind = "register" /\ sess'[s].config = sess[s].config
        /\ sess'[s].answer = sess[s].answer
        /\ sess'[s].todo = sess[s].todo /\ sess'[s].got = sess[s].got
        /\ attendee' = attendee /\ \A t \in Sessions \ {s} : sess'[t] = sess[t]
    BY <1>7, <2>1, GotoStep DEF FindNone, LockAndCount
  <2>3. AnswerOf(s)'
    BY <2>1, <2>2 DEF AnswerInv, AnswerOf
  <2> QED
    BY <1>1, <2>2, <2>3
<1>8. ASSUME NEW s \in Sessions, LockAndRead(s) \/ CountPlaces(s)
      PROVE  AnswerInv'
  <2>1. /\ attendee' = attendee /\ \A t \in Sessions \ {s} : sess'[t] = sess[t]
    BY <1>8, LockAndReadStep, CountPlacesStep
  <2>2. AnswerOf(s)'
    BY <1>8, LockAndReadStep, CountPlacesStep DEF AnswerOf
  <2> QED
    BY <1>1, <2>1, <2>2
<1>9. ASSUME NEW s \in Sessions, UpdateExisting(s) \/ Insert(s)
      PROVE  AnswerInv'
  <2>1. End(s) /\ \A p \in People \ {sess[s].who} : attendee'[p] = attendee[p]
    BY <1>9 DEF UpdateExisting, Insert, TypeOK
  <2>2. ASSUME NEW t \in Sessions, sess[t].pc = "reserving", sess[t].kind = "verify"
        PROVE  sess[t].who \in People /\ sess[t].who # sess[s].who
    BY <1>9, <2>2 DEF UpdateExisting, Insert, RowHolders, EventLockInv, Registered
  <2> QED
    BY <1>4, <2>1, <2>2
<1>10. ASSUME NEW s \in Sessions, Confirm(s)
       PROVE  AnswerInv'
  <2>1. \A t \in Sessions \ {s} : ~(sess[t].pc = "reserving" /\ sess[t].kind = "verify")
    BY <1>10 DEF Confirm, EventLockInv
  <2> QED
    BY <1>4, <1>10, <2>1 DEF Confirm
<1>11. ASSUME NEW p \in People, DeleteAttendee(p)
       PROVE  AnswerInv'
  <2>1. \A q \in People \ {p} : attendee'[q] = attendee[q]
    BY <1>11 DEF DeleteAttendee, TypeOK
  <2>2. ASSUME NEW t \in Sessions, sess[t].pc = "reserving", sess[t].kind = "verify"
        PROVE  sess[t].who \in People /\ sess[t].who # p
    BY <1>11, <2>2 DEF DeleteAttendee, RowHolders, EventLockInv, Registered
  <2> QED
    BY <1>11, <2>1, <2>2, OtherAnswers DEF DeleteAttendee, AnswerInv
<1>12. CASE UNCHANGED vars
  BY <1>12, OtherAnswers DEF vars, AnswerInv
<1> QED
  BY <1>2, <1>3, <1>5, <1>6, <1>7, <1>8, <1>9, <1>10, <1>11, <1>12
  DEF Next, Over, Start, Proceed

\* Until an answer is changed or the settings are saved, the row of an option
\* counts at least the confirmed attendees who chose it, and at most its places.
PlacesInv ==
  ~edited /\ saves = 0 =>
    \A o \in Options : Cardinality(Using(o)) <= reserved[o] /\ reserved[o] <= Capacity[o]

\* Committing places counts each option the session has reserved once, within
\* its places.
LEMMA CommitCounts ==
  ASSUME RegistrationAssumption, TypeOK, GotInv, NEW s \in Sessions, sess[s].pc \in Serving,
         CommitPlaces(s), NEW o \in Options
  PROVE  /\ reserved[o] \in Nat /\ reserved'[o] \in Nat /\ Capacity[o] \in Nat
         /\ reserved'[o] = IF o \in sess[s].got THEN reserved[o] + 1 ELSE reserved[o]
         /\ reserved[o] <= Capacity[o] => reserved'[o] <= Capacity[o]
<1>1. reserved[o] \in Nat /\ Capacity[o] \in Nat
  BY DEF TypeOK, RegistrationAssumption
<1>2. reserved'[o] = IF o \in sess[s].got THEN reserved[o] + 1 ELSE reserved[o]
  BY DEF CommitPlaces
<1>3. o \in sess[s].got => reserved[o] < Capacity[o]
  BY DEF GotInv
<1> QED
  BY <1>1, <1>2, <1>3

\* Every step keeps PlacesInv.
LEMMA NextPlaces ==
  ASSUME RegistrationAssumption, TypeOK, EventLockInv, GotInv, SettingsInv, AnswerInv, PlacesInv,
         [Next]_vars
  PROVE  PlacesInv'
<1> USE DEF tables, history
<1>1. /\ saves' >= saves /\ saves \in Nat
      /\ \A s \in Sessions : sess[s].pc \in {"config", "fields", "counts"} => saves > 0
  BY NextSaving DEF SettingsInv
<1> SUFFICES ASSUME ~edited', saves' = 0, NEW o \in Options
             PROVE  Cardinality(Using(o)') <= reserved'[o] /\ reserved'[o] <= Capacity[o]
  BY DEF PlacesInv
<1> DEFINE Goal == Cardinality(Using(o)') <= reserved'[o] /\ reserved'[o] <= Capacity[o]
<1>2. saves = 0
  BY <1>1
<1>3. ~edited
  <2>1. CASE \E s \in Sessions : UpdateExisting(s)
    BY <2>1 DEF UpdateExisting
  <2>2. CASE ~\E s \in Sessions : UpdateExisting(s)
    <3>1. edited' = edited
      BY <2>2
      DEF Next, Over, Start, Save, Register, Verify, Proceed, CloseFull, Reserve, NoPlace, FindNone,
          LockAndCount, Insert, InsertFails, VerifyNothing, LockAndRead, Confirm, SaveConfig,
          CountPlaces, SaveCounts, AbortVictim, DeleteAttendee, vars
    <3> QED
      BY <3>1
  <2> QED
    BY <2>1, <2>2
<1>4. /\ Cardinality(Using(o)) <= reserved[o] /\ reserved[o] <= Capacity[o]
      /\ reserved[o] \in Nat /\ Capacity[o] \in Nat
      /\ Using(o) \in SUBSET People /\ Using(o)' \in SUBSET People
  BY <1>2, <1>3 DEF PlacesInv, TypeOK, RegistrationAssumption, Using, Confirmed, Registered
<1>5. ASSUME Using(o)' \subseteq Using(o), reserved' = reserved
      PROVE  Goal
  <2>1. /\ Cardinality(Using(o)) \in Nat /\ Cardinality(Using(o)') \in Nat
        /\ Cardinality(Using(o)') <= Cardinality(Using(o))
    BY <1>4, <1>5, OneMore
  <2> QED
    BY <1>4, <1>5, <2>1
<1>6. ASSUME NEW s \in Sessions, sess[s].pc \in Serving, CommitPlaces(s), NEW p,
             Using(o)' \subseteq IF o \in sess[s].got THEN Using(o) \cup {p} ELSE Using(o)
      PROVE  Goal
  <2>1. /\ reserved'[o] \in Nat /\ reserved'[o] <= Capacity[o]
        /\ reserved'[o] = IF o \in sess[s].got THEN reserved[o] + 1 ELSE reserved[o]
    BY <1>4, <1>6, CommitCounts
  <2>2. /\ Cardinality(Using(o)) \in Nat /\ Cardinality(Using(o)') \in Nat
        /\ Using(o)' \subseteq Using(o) => Cardinality(Using(o)') <= Cardinality(Using(o))
        /\ Using(o)' \subseteq Using(o) \cup {p} =>
             Cardinality(Using(o)') <= Cardinality(Using(o)) + 1
    BY <1>4, OneMore
  <2> QED
    BY <1>4, <1>6, <2>1, <2>2
<1>7. ASSUME NEW s \in Sessions, Start(s)
      PROVE  Goal
  BY <1>5, <1>7, StartStep, SameAttendees
<1>8. ASSUME NEW s \in Sessions, CloseFull(s)
      PROVE  Goal
  BY <1>6, <1>8, SameAttendees DEF CloseFull, Serving
<1>9. ASSUME NEW s \in Sessions,
             \/ NoPlace(s) \/ InsertFails(s) \/ VerifyNothing(s) \/ AbortVictim(s)
             \/ FindNone(s) \/ LockAndCount(s) \/ SaveConfig(s)
      PROVE  Goal
  <2>1. attendee' = attendee /\ reserved' = reserved
    BY <1>9
    DEF NoPlace, InsertFails, VerifyNothing, AbortVictim, FindNone, LockAndCount, SaveConfig
  <2> QED
    BY <1>5, <2>1, SameAttendees
<1>10. ASSUME NEW s \in Sessions, Reserve(s) \/ LockAndRead(s) \/ CountPlaces(s)
       PROVE  Goal
  <2>1. attendee' = attendee /\ reserved' = reserved
    BY <1>10, ReserveStep, LockAndReadStep, CountPlacesStep
  <2> QED
    BY <1>5, <2>1, SameAttendees
<1>11. ASSUME NEW s \in Sessions, SaveCounts(s)
       PROVE  FALSE
  BY <1>1, <1>2, <1>11 DEF SaveCounts
<1>12. ASSUME NEW s \in Sessions, UpdateExisting(s)
       PROVE  Goal
  <2> DEFINE who == sess[s].who
             old == attendee[who]
  <2>1. /\ sess[s] \in Registering /\ sess[s].pc = "reserving" /\ sess[s].kind = "register"
        /\ sess[s].todo = <<>> /\ sess[s].pc \in Serving /\ CommitPlaces(s)
        /\ who \in Registered /\ old # Absent
    BY <1>12, SessionByPc DEF UpdateExisting, ReadyToRegister, Serving, Registered, Registering
  <2>2. old \in Attendee
    BY <2>1 DEF TypeOK, Registering
  <2>3. /\ attendee'[who] # Absent /\ attendee'[who].answer = sess[s].answer
        /\ attendee'[who].verified = (old.verified \/ ~sess[s].config.verify)
        /\ \A p \in People \ {who} : attendee'[p] = attendee[p]
    BY <1>12, <2>1, <2>2 DEF UpdateExisting, TypeOK, Attendee, Absent, Registered
  <2>4. old.verified /\ sess[s].config.verify => sess[s].answer = old.answer
    BY <1>12, <2>1 DEF UpdateExisting
  <2>5. \A p \in People \ {who} : p \in Using(o)' <=> p \in Using(o)
    BY <2>3 DEF Using, Confirmed, Registered, Chosen
  <2>6. CASE ~sess[s].config.verify
    <3>1. Range(sess[s].answer) \subseteq sess[s].got
      BY <2>1, <2>6 DEF AnswerInv, AnswerOf, Range
    <3>2. o \notin sess[s].got => who \notin Using(o)'
      BY <2>3, <3>1 DEF Using, Chosen
    <3> QED
      BY <1>4, <1>6, <2>1, <2>5, <3>2
  <2>7. CASE sess[s].config.verify
    <3>1. who \in Using(o)' => who \in Using(o)
      BY <2>1, <2>3, <2>4, <2>7 DEF Using, Confirmed, Chosen
    <3> QED
      BY <1>4, <1>6, <2>1, <2>5, <3>1
  <2> QED
    BY <2>6, <2>7
<1>13. ASSUME NEW s \in Sessions, Insert(s)
       PROVE  Goal
  <2> DEFINE who == sess[s].who
  <2>1. /\ sess[s] \in Registering /\ sess[s].pc = "insert" /\ sess[s].kind = "register"
        /\ sess[s].pc \in Serving /\ CommitPlaces(s)
    BY <1>13, SessionByPc DEF Insert, Serving, Registering
  <2>2. /\ attendee'[who].answer = sess[s].answer
        /\ attendee'[who].verified = ~sess[s].config.verify
        /\ \A p \in People \ {who} : attendee'[p] = attendee[p]
    BY <1>13, <2>1 DEF Insert, TypeOK, Registering
  <2>3. \A p \in People \ {who} : p \in Using(o)' <=> p \in Using(o)
    BY <2>2 DEF Using, Confirmed, Registered, Chosen
  <2>4. ~sess[s].config.verify => Range(sess[s].answer) \subseteq sess[s].got
    BY <2>1 DEF AnswerInv, AnswerOf, Range
  <2>5. o \notin sess[s].got => who \notin Using(o)'
    BY <2>2, <2>4 DEF Using, Confirmed, Chosen
  <2> QED
    BY <1>4, <1>6, <2>1, <2>3, <2>5
<1>14. ASSUME NEW s \in Sessions, Confirm(s)
       PROVE  Goal
  <2> DEFINE who == sess[s].who
             old == attendee[who]
  <2>1. /\ sess[s] \in Verifying /\ sess[s].pc = "reserving" /\ sess[s].kind = "verify"
        /\ sess[s].todo = <<>> /\ sess[s].pc \in Serving /\ CommitPlaces(s)
        /\ who \in Registered
    BY <1>14, SessionByPc DEF Confirm, Serving, EventLockInv
  <2>2. old \in Attendee
    BY <2>1 DEF TypeOK, Registered
  <2>3. /\ attendee'[who].answer = old.answer
        /\ \A p \in People \ {who} : attendee'[p] = attendee[p]
    BY <1>14, <2>1, <2>2 DEF Confirm, TypeOK, Attendee, Registered
  <2>4. sess[s].config.verify
    BY <1>2, <2>1 DEF SettingsInv
  <2>5. Range(old.answer) \subseteq sess[s].got
    BY <2>1, <2>4 DEF AnswerInv, AnswerOf, Range
  <2>6. \A p \in People \ {who} : p \in Using(o)' <=> p \in Using(o)
    BY <2>3 DEF Using, Confirmed, Registered, Chosen
  <2>7. o \notin sess[s].got => who \notin Using(o)'
    BY <2>3, <2>5 DEF Using, Confirmed, Chosen
  <2> QED
    BY <1>4, <1>6, <2>1, <2>6, <2>7
<1>15. ASSUME NEW p \in People, DeleteAttendee(p)
       PROVE  Goal
  <2>1. Using(o)' \subseteq Using(o) /\ reserved' = reserved
    BY <1>15 DEF DeleteAttendee, TypeOK, Using, Confirmed, Registered, Chosen
  <2> QED
    BY <1>5, <2>1
<1>16. CASE UNCHANGED vars
  BY <1>5, <1>16, SameAttendees DEF vars
<1> QED
  BY <1>7, <1>8, <1>9, <1>10, <1>11, <1>12, <1>13, <1>14, <1>15, <1>16
  DEF Next, Over, Proceed

\* As long as nobody confirmed changes her answers and the settings are not saved,
\* no option has more confirmed attendees than places.
THEOREM PlacesNeverOverbooked == Spec => []OverbookedOnlyByChange
<1> DEFINE Inv == GotInv /\ SettingsInv /\ AnswerInv /\ PlacesInv
<1>1. Init => Inv
  <2> SUFFICES ASSUME Init PROVE Inv
    OBVIOUS
  <2>1. \A s \in Sessions : sess[s].pc = "idle"
    BY DEF Init, Idle
  <2>2. Registered = {}
    BY DEF Init, Registered
  <2>3. GotInv /\ SettingsInv /\ AnswerInv
    BY <2>1, <2>2 DEF GotInv, SettingsInv, AnswerInv, AnswerOf, Serving
  <2>4. ASSUME NEW o \in Options
        PROVE  Cardinality(Using(o)) = 0 /\ reserved[o] = 0 /\ Capacity[o] \in Nat
    <3>1. Using(o) = {}
      BY <2>2 DEF Using, Confirmed
    <3> QED
      BY <3>1, FS_EmptySet, RegistrationAssumption DEF Init, RegistrationAssumption
  <2> QED
    BY <2>3, <2>4 DEF PlacesInv
<1>2. TypeOK /\ EventLockInv /\ Inv /\ [Next]_vars => Inv'
  BY RegistrationAssumption, NextGot, NextSettings, NextAnswer, NextPlaces
<1>3. TypeOK /\ Inv => OverbookedOnlyByChange
  <2> SUFFICES ASSUME TypeOK, PlacesInv, ~edited, saves = 0, NEW o \in Options
               PROVE  Cardinality(Using(o)) <= Capacity[o]
    BY DEF OverbookedOnlyByChange
  <2>1. Cardinality(Using(o)) <= reserved[o] /\ reserved[o] <= Capacity[o]
    BY DEF PlacesInv
  <2>2. Cardinality(Using(o)) \in Nat /\ reserved[o] \in Nat /\ Capacity[o] \in Nat
    BY RegistrationAssumption, Counts DEF TypeOK, RegistrationAssumption
  <2> QED
    BY <2>1, <2>2
<1> QED
  BY <1>1, <1>2, <1>3, EventLockInvariant, PTL DEF Spec

-----------------------------------------------------------------------------
(* Who waits for whom.                                                      *)

\* Who holds the event is about to write an attendee or the settings, refuses one, or
\* verifies an address; who holds an option has taken a place of it.
HolderInv ==
  /\ eventLock # NoSession =>
       \/ sess[eventLock].pc \in {"insert", "refuse", "counts"}
       \/ sess[eventLock].pc = "reserving" /\ sess[eventLock].kind = "verify"
  /\ \A o \in Options : optionLock[o] # NoSession =>
       /\ sess[optionLock[o]].pc \in {"reserving", "new", "insert", "refuse"}
       /\ o \in sess[optionLock[o]].got

\* A session that moves and holds no row, or holds its rows on, leaves the others theirs.
LEMMA HoldersStay ==
  ASSUME TypeOK, HolderInv, NEW s \in Sessions,
         \A t \in Sessions \ {s} : sess'[t] = sess[t],
         eventLock' \in {eventLock, NoSession, s},
         eventLock' = s =>
           \/ sess'[s].pc \in {"insert", "refuse", "counts"}
           \/ sess'[s].pc = "reserving" /\ sess'[s].kind = "verify",
         \A o \in Options :
           /\ optionLock'[o] \in {optionLock[o], NoSession, s}
           /\ optionLock'[o] = s =>
                sess'[s].pc \in {"reserving", "new", "insert", "refuse"} /\ o \in sess'[s].got
  PROVE  HolderInv'
<1>1. ASSUME eventLock' # NoSession
      PROVE  \/ sess'[eventLock'].pc \in {"insert", "refuse", "counts"}
             \/ sess'[eventLock'].pc = "reserving" /\ sess'[eventLock'].kind = "verify"
  <2>1. CASE eventLock' = s
    BY <2>1
  <2>2. CASE eventLock' # s
    <3>1. eventLock' = eventLock /\ eventLock \in Sessions \ {s}
      BY <1>1, <2>2 DEF TypeOK
    <3>2. sess'[eventLock'] = sess[eventLock]
      BY <3>1
    <3> QED
      BY <1>1, <3>1, <3>2 DEF HolderInv
  <2> QED
    BY <2>1, <2>2
<1>2. ASSUME NEW o \in Options, optionLock'[o] # NoSession
      PROVE  /\ sess'[optionLock'[o]].pc \in {"reserving", "new", "insert", "refuse"}
             /\ o \in sess'[optionLock'[o]].got
  <2>1. CASE optionLock'[o] = s
    BY <2>1
  <2>2. CASE optionLock'[o] # s
    <3>1. optionLock'[o] = optionLock[o] /\ optionLock[o] \in Sessions \ {s}
      BY <1>2, <2>2 DEF TypeOK
    <3>2. sess'[optionLock'[o]] = sess[optionLock[o]]
      BY <3>1
    <3> QED
      BY <1>2, <3>1, <3>2 DEF HolderInv
  <2> QED
    BY <2>1, <2>2
<1> QED
  BY <1>1, <1>2 DEF HolderInv

\* Every step keeps HolderInv.
LEMMA NextHolder ==
  ASSUME RegistrationAssumption, TypeOK, HolderInv, [Next]_vars
  PROVE  HolderInv'
<1> USE DEF tables, history
<1>1. ASSUME NEW s \in Sessions, Start(s)
      PROVE  HolderInv'
  <2>1. /\ sess[s].pc = "idle" /\ eventLock' = eventLock /\ optionLock' = optionLock
        /\ \A t \in Sessions \ {s} : sess'[t] = sess[t]
    BY <1>1, StartStep DEF Idle
  <2>2. s # NoSession
    BY DEF RegistrationAssumption
  <2>3. eventLock' # s /\ \A o \in Options : optionLock'[o] # s
    BY <2>1, <2>2 DEF HolderInv
  <2> QED
    BY <2>1, <2>3, HoldersStay
<1>2. ASSUME NEW s \in Sessions, End(s)
      PROVE  HolderInv'
  <2>1. /\ eventLock' = (IF eventLock = s THEN NoSession ELSE eventLock)
        /\ \A o \in Options :
             optionLock'[o] = IF optionLock[o] = s THEN NoSession ELSE optionLock[o]
        /\ s # NoSession
    BY <1>2 DEF End, RegistrationAssumption
  <2> QED
    BY <1>2, <2>1, EndStep, HoldersStay
<1>3. ASSUME NEW s \in Sessions, Reserve(s)
      PROVE  HolderInv'
  <2> DEFINE taken == Head(sess[s].todo)
  <2>1. /\ sess[s].pc = "reserving" /\ sess'[s].pc = "reserving" /\ sess'[s].kind = sess[s].kind
        /\ sess'[s].got = sess[s].got \cup {taken} /\ taken \in Options
        /\ optionLock' = [optionLock EXCEPT ![taken] = s] /\ eventLock' = eventLock
        /\ \A t \in Sessions \ {s} : sess'[t] = sess[t]
    BY <1>3, ReserveStep
  <2> HIDE DEF taken
  <2>2. s # NoSession
    BY DEF RegistrationAssumption
  <2>3. \A o \in Options :
          /\ optionLock'[o] \in {optionLock[o], s}
          /\ optionLock'[o] = s => o \in sess'[s].got
    BY <2>1, <2>2 DEF HolderInv, TypeOK
  <2>4. eventLock' = s => sess'[s].pc = "reserving" /\ sess'[s].kind = "verify"
    BY <2>1, <2>2 DEF HolderInv
  <2> QED
    BY <2>1, <2>3, <2>4, HoldersStay
<1>4. ASSUME NEW s \in Sessions, FindNone(s) \/ LockAndCount(s)
      PROVE  HolderInv'
  <2>1. /\ sess[s] \in Registering
        /\ sess[s].pc = "new" \/ (sess[s].pc = "reserving" /\ sess[s].kind = "register")
    BY <1>4, SessionByPc DEF FindNone, ReadyToRegister, LockAndCount
  <2>2. /\ sess'[s].pc \in {"new", "refuse", "insert"} /\ sess'[s].got = sess[s].got
        /\ \A t \in Sessions \ {s} : sess'[t] = sess[t]
    BY <1>4, <2>1, GotoStep DEF FindNone, LockAndCount
  <2>3. s # NoSession
    BY DEF RegistrationAssumption
  <2>4. \A o \in Options : optionLock'[o] = optionLock[o] /\ (optionLock[o] = s => o \in sess[s].got)
    BY <1>4, <2>3 DEF FindNone, LockAndCount, HolderInv
  <2>5. eventLock' \in {eventLock, s} /\ (eventLock' = s => sess'[s].pc \in {"refuse", "insert"})
    <3>1. eventLock # s
      BY <2>1, <2>3 DEF HolderInv
    <3>2. CASE FindNone(s)
      BY <3>1, <3>2 DEF FindNone
    <3>3. CASE LockAndCount(s)
      BY <2>1, <3>3, GotoStep DEF LockAndCount
    <3> QED
      BY <1>4, <3>2, <3>3
  <2> QED
    BY <2>2, <2>4, <2>5, HoldersStay
<1>5. ASSUME NEW s \in Sessions, LockAndRead(s) \/ CountPlaces(s)
      PROVE  HolderInv'
  <2>1. /\ sess[s].pc \in {"link", "fields"} /\ optionLock' = optionLock /\ eventLock' = s
        /\ sess'[s].pc \in {"refuse", "counts"} \/ (sess'[s].pc = "reserving" /\ sess'[s].kind = "verify")
        /\ \A t \in Sessions \ {s} : sess'[t] = sess[t]
    BY <1>5, LockAndReadStep, CountPlacesStep
  <2>2. s # NoSession
    BY DEF RegistrationAssumption
  <2>3. \A o \in Options : optionLock'[o] # s
    BY <2>1, <2>2 DEF HolderInv
  <2> QED
    BY <2>1, <2>3, HoldersStay
<1>6. ASSUME NEW s \in Sessions,
             \/ CloseFull(s) \/ NoPlace(s) \/ UpdateExisting(s) \/ Insert(s) \/ InsertFails(s)
             \/ VerifyNothing(s) \/ Confirm(s) \/ SaveConfig(s) \/ SaveCounts(s) \/ AbortVictim(s)
      PROVE  HolderInv'
  BY <1>2, <1>6
  DEF CloseFull, NoPlace, UpdateExisting, Insert, InsertFails, VerifyNothing, Confirm,
      SaveConfig, SaveCounts, AbortVictim
<1>7. CASE UNCHANGED <<eventLock, optionLock, sess>>
  BY <1>7 DEF HolderInv
<1>8. (\E p \in People : DeleteAttendee(p)) \/ UNCHANGED vars => UNCHANGED <<eventLock, optionLock, sess>>
  BY DEF DeleteAttendee, vars
<1> QED
  BY <1>1, <1>3, <1>4, <1>5, <1>6, <1>7, <1>8 DEF Next, Over, Proceed

\* A session takes the options of an answer in their order.
InOrder(todo, got, answer) ==
  /\ Len(todo) <= Len(answer)
  /\ \A i \in 1 .. Len(todo) : todo[i] = answer[Len(answer) - Len(todo) + i]
  /\ \A o \in got : \E i \in 1 .. Len(answer) - Len(todo) : answer[i] = o

\* A request takes places at registration or at verification, whichever its settings
\* say, and in the order of the answer.
TakesOf(s) ==
  /\ sess[s].pc \in {"full", "reserving", "new", "insert", "refuse"} /\ sess[s].kind = "register"
       /\ sess[s].config.verify =>
         sess[s].got = {} /\ (sess[s].pc = "reserving" => sess[s].todo = <<>>)
  /\ sess[s].pc \in {"link", "refuse"} /\ sess[s].kind = "verify" => sess[s].got = {}
  /\ sess[s].pc = "reserving" /\ sess[s].kind = "register" =>
       sess[s].answer \in Answers /\ InOrder(sess[s].todo, sess[s].got, sess[s].answer)
  /\ sess[s].pc = "reserving" /\ sess[s].kind = "verify" =>
       InOrder(sess[s].todo, sess[s].got, attendee[sess[s].who].answer)

TakesInv == \A s \in Sessions : TakesOf(s)

\* It does so from the first to the last,
LEMMA InOrderStart ==
  ASSUME NEW answer \in Seq(Options)
  PROVE  InOrder(answer, {}, answer) /\ InOrder(<<>>, {}, answer)
BY DEF InOrder

\* one after the other.
LEMMA InOrderTake ==
  ASSUME NEW answer \in Seq(Options), NEW todo \in Seq(Options), NEW got, todo # <<>>,
         InOrder(todo, got, answer)
  PROVE  InOrder(Tail(todo), got \cup {Head(todo)}, answer)
<1> DEFINE m == Len(answer)
           n == Len(todo)
<1>1. m \in Nat /\ n \in Nat \ {0} /\ n <= m
  BY DEF InOrder
<1>2. Len(Tail(todo)) = n - 1 /\ \A i \in 1 .. n - 1 : Tail(todo)[i] = todo[i + 1]
  BY <1>1
<1>3. /\ \A i \in 1 .. n : todo[i] = answer[m - n + i]
      /\ \A o \in got : \E i \in 1 .. m - n : answer[i] = o
      /\ Head(todo) = todo[1]
  BY DEF InOrder
<1> HIDE DEF m, n
<1>4. ASSUME NEW i \in 1 .. n - 1
      PROVE  Tail(todo)[i] = answer[m - (n - 1) + i]
  <2>1. i + 1 \in 1 .. n /\ m - n + (i + 1) = m - (n - 1) + i
    BY <1>1
  <2> QED
    BY <1>2, <1>3, <2>1
<1>5. ASSUME NEW o \in got \cup {Head(todo)}
      PROVE  \E i \in 1 .. m - (n - 1) : answer[i] = o
  <2>1. CASE o \in got
    <3>1. PICK i \in 1 .. m - n : answer[i] = o
      BY <1>3, <2>1
    <3>2. i \in 1 .. m - (n - 1)
      BY <1>1
    <3> QED
      BY <3>1, <3>2
  <2>2. CASE o = Head(todo)
    <3>1. m - n + 1 \in 1 .. m - (n - 1) /\ 1 \in 1 .. n
      BY <1>1
    <3> QED
      BY <1>3, <2>2, <3>1
  <2> QED
    BY <2>1, <2>2
<1>6. n - 1 <= m
  BY <1>1
<1> QED
  BY <1>2, <1>4, <1>5, <1>6 DEF InOrder, m, n

\* Of two requests with one answer, who has the option the other takes next has less to
\* take.
LEMMA InOrderLess ==
  ASSUME NEW answer \in Seq(Options), IsInjective(answer),
         NEW todo \in Seq(Options), NEW got, InOrder(todo, got, answer), todo # <<>>,
         NEW rest \in Seq(Options), NEW taken, InOrder(rest, taken, answer),
         Head(todo) \in taken
  PROVE  Len(rest) < Len(todo)
<1> DEFINE m == Len(answer)
           n == Len(todo)
<1>1. m \in Nat /\ n \in Nat \ {0} /\ n <= m /\ Len(rest) \in Nat /\ Len(rest) <= m
  BY DEF InOrder
<1>2. /\ \A i \in 1 .. n : todo[i] = answer[m - n + i]
      /\ Head(todo) = todo[1]
  BY DEF InOrder
<1>3. PICK i \in 1 .. m - Len(rest) : answer[i] = Head(todo)
  BY DEF InOrder
<1> HIDE DEF m, n
<1>4. answer[m - n + 1] = answer[i] /\ m - n + 1 \in 1 .. m /\ i \in 1 .. m
  BY <1>1, <1>2, <1>3
<1>5. DOMAIN answer = 1 .. m
  BY DEF m
<1>6. i = m - n + 1
  BY <1>4, <1>5 DEF IsInjective
<1> QED
  BY <1>1, <1>3, <1>6 DEF n

\* An answer of an attendee is one, and without repetition.
LEMMA AnswersOnce ==
  ASSUME RegistrationAssumption, NEW answer \in Answers
  PROVE  answer \in Seq(Options) /\ IsInjective(answer)
BY DEF RegistrationAssumption

\* A session that does not move keeps to its order while the answers it confirms stay.
LEMMA OtherTakes ==
  ASSUME TakesInv, NEW t \in Sessions, sess'[t] = sess[t],
         sess[t].pc = "reserving" /\ sess[t].kind = "verify" =>
           attendee'[sess[t].who].answer = attendee[sess[t].who].answer
  PROVE  TakesOf(t)'
BY DEF TakesInv, TakesOf

\* Every step keeps TakesInv.
LEMMA NextTakes ==
  ASSUME RegistrationAssumption, TypeOK, EventLockInv, TakesInv, [Next]_vars
  PROVE  TakesInv'
<1> USE DEF tables, history
<1>1. ASSUME NEW s \in Sessions, \A t \in Sessions \ {s} : sess'[t] = sess[t],
             attendee' = attendee, TakesOf(s)'
      PROVE  TakesInv'
  BY <1>1, OtherTakes DEF TakesInv
<1>2. ASSUME NEW s \in Sessions, NEW p \in People, Register(s, p)
      PROVE  TakesInv'
  <2>1. PICK answer \in Answers :
          Begin(s, [kind |-> "register", who |-> p, config |-> config, answer |-> answer,
                    pc   |-> IF Cardinality(Registered) >= Quota THEN "full" ELSE "reserving",
                    todo |-> IF config.verify THEN <<>> ELSE answer,
                    got  |-> {}])
    BY <1>2 DEF Register
  <2>2. /\ sess'[s].pc \in {"full", "reserving"} /\ sess'[s].kind = "register"
        /\ sess'[s].answer = answer /\ sess'[s].got = {}
        /\ sess'[s].config = config
        /\ sess'[s].todo = (IF config.verify THEN <<>> ELSE answer)
    BY <2>1 DEF Begin, TypeOK
  <2>3. InOrder(sess'[s].todo, sess'[s].got, sess'[s].answer)
    BY <2>2, AnswersOnce, InOrderStart
  <2>4. TakesOf(s)'
    BY <2>2, <2>3 DEF TakesOf
  <2> QED
    BY <1>1, <1>2, <2>4, StartStep DEF Start
<1>3. ASSUME NEW s \in Sessions, NEW p \in People, Verify(s, p)
      PROVE  TakesInv'
  <2>1. sess'[s].pc = "link" /\ sess'[s].kind = "verify" /\ sess'[s].got = {}
    BY <1>3 DEF Verify, Begin, TypeOK
  <2>2. TakesOf(s)'
    BY <2>1 DEF TakesOf
  <2> QED
    BY <1>1, <1>3, <2>2, StartStep DEF Start
<1>4. ASSUME NEW s \in Sessions, Save(s) \/ CountPlaces(s)
      PROVE  TakesInv'
  <2>1. sess'[s].pc \in {"config", "fields", "counts"}
    BY <1>4, CountPlacesStep DEF Save, Begin, TypeOK
  <2>2. attendee' = attendee /\ \A t \in Sessions \ {s} : sess'[t] = sess[t]
    BY <1>4, CountPlacesStep, StartStep DEF Start
  <2>3. TakesOf(s)'
    BY <2>1 DEF TakesOf
  <2> QED
    BY <1>1, <2>2, <2>3
<1>5. ASSUME NEW s \in Sessions, End(s),
             \A t \in Sessions \ {s} : sess[t].pc = "reserving" /\ sess[t].kind = "verify" =>
               attendee'[sess[t].who].answer = attendee[sess[t].who].answer
      PROVE  TakesInv'
  <2>1. TakesOf(s)'
    BY <1>5, EndStep DEF TakesOf
  <2> QED
    BY <1>5, <2>1, EndStep, OtherTakes DEF TakesInv
<1>6. ASSUME NEW s \in Sessions,
             \/ CloseFull(s) \/ NoPlace(s) \/ InsertFails(s) \/ VerifyNothing(s)
             \/ SaveConfig(s) \/ SaveCounts(s) \/ AbortVictim(s)
      PROVE  TakesInv'
  <2>1. attendee' = attendee /\ End(s)
    BY <1>6
    DEF CloseFull, NoPlace, InsertFails, VerifyNothing, SaveConfig, SaveCounts, AbortVictim
  <2> QED
    BY <1>5, <2>1
<1>7. ASSUME NEW s \in Sessions, Reserve(s)
      PROVE  TakesInv'
  <2> DEFINE o == Head(sess[s].todo)
  <2>1. /\ sess[s].pc = "reserving" /\ sess'[s].pc = "reserving" /\ sess'[s].kind = sess[s].kind
        /\ sess'[s].who = sess[s].who /\ sess'[s].config = sess[s].config
        /\ sess[s].kind = "register" => sess'[s].answer = sess[s].answer
        /\ sess[s].todo \in Seq(Options) /\ sess[s].todo # <<>>
        /\ sess'[s].todo = Tail(sess[s].todo) /\ sess'[s].got = sess[s].got \cup {o}
        /\ attendee' = attendee /\ \A t \in Sessions \ {s} : sess'[t] = sess[t]
    BY <1>7, ReserveStep
  <2> HIDE DEF o
  <2>2. CASE sess[s].kind = "register"
    <3>1. sess[s].answer \in Answers /\ InOrder(sess[s].todo, sess[s].got, sess[s].answer)
      BY <2>1, <2>2 DEF TakesInv, TakesOf
    <3>2. InOrder(sess'[s].todo, sess'[s].got, sess'[s].answer)
      <4>1. InOrder(Tail(sess[s].todo), sess[s].got \cup {o}, sess[s].answer)
        BY <2>1, <3>1, AnswersOnce, InOrderTake DEF o
      <4> QED
        BY <2>1, <2>2, <4>1
    <3>3. ~sess[s].config.verify
      BY <2>1, <2>2 DEF TakesInv, TakesOf
    <3>4. TakesOf(s)'
      BY <2>1, <2>2, <3>1, <3>2, <3>3 DEF TakesOf
    <3> QED
      BY <1>1, <2>1, <3>4
  <2>3. CASE sess[s].kind = "verify"
    <3>1. sess[s].who \in Registered
      BY <2>1, <2>3 DEF EventLockInv
    <3>2. attendee[sess[s].who].answer \in Answers
      BY <3>1 DEF Registered, TypeOK, Attendee
    <3>3. InOrder(sess[s].todo, sess[s].got, attendee[sess[s].who].answer)
      BY <2>1, <2>3 DEF TakesInv, TakesOf
    <3>4. InOrder(sess'[s].todo, sess'[s].got, attendee'[sess'[s].who].answer)
      BY <2>1, <3>2, <3>3, AnswersOnce, InOrderTake DEF o
    <3>5. TakesOf(s)'
      BY <2>1, <2>3, <3>4 DEF TakesOf
    <3> QED
      BY <1>1, <2>1, <3>5
  <2>4. sess[s].kind \in {"register", "verify"}
    BY <1>7, ReserveStep DEF Registering, Verifying
  <2> QED
    BY <2>2, <2>3, <2>4
<1>8. ASSUME NEW s \in Sessions, FindNone(s) \/ LockAndCount(s)
      PROVE  TakesInv'
  <2>1. /\ sess[s] \in Registering /\ sess[s].kind = "register"
        /\ sess[s].pc \in {"reserving", "new"}
    BY <1>8, SessionByPc DEF FindNone, ReadyToRegister, LockAndCount, Registering
  <2>2. /\ sess'[s].pc \in {"new", "refuse", "insert"} /\ sess'[s].kind = "register"
        /\ sess'[s].config = sess[s].config /\ sess'[s].got = sess[s].got
        /\ attendee' = attendee /\ \A t \in Sessions \ {s} : sess'[t] = sess[t]
    BY <1>8, <2>1, GotoStep DEF FindNone, LockAndCount
  <2>3. TakesOf(s)'
    BY <2>1, <2>2 DEF TakesInv, TakesOf
  <2> QED
    BY <1>1, <2>2, <2>3
<1>9. ASSUME NEW s \in Sessions, LockAndRead(s)
      PROVE  TakesInv'
  <2>1. /\ sess[s] \in Verifying /\ sess[s].pc = "link"
        /\ sess'[s].kind = "verify" /\ sess'[s].pc \in {"refuse", "reserving"}
        /\ sess'[s].who = sess[s].who /\ sess'[s].got = sess[s].got
        /\ sess'[s].todo \in {attendee[sess[s].who].answer, <<>>}
        /\ attendee' = attendee /\ \A t \in Sessions \ {s} : sess'[t] = sess[t]
    BY <1>9, LockAndReadStep
  <2>2. sess[s].got = {} /\ sess[s].kind = "verify"
    BY <2>1 DEF TakesInv, TakesOf, Verifying
  <2>3. attendee[sess[s].who].answer \in Answers
    BY <1>9 DEF LockAndRead, Registered, TypeOK, Attendee
  <2>4. InOrder(sess'[s].todo, sess'[s].got, attendee'[sess'[s].who].answer)
    BY <2>1, <2>2, <2>3, AnswersOnce, InOrderStart
  <2>5. TakesOf(s)'
    BY <2>1, <2>2, <2>4 DEF TakesOf
  <2> QED
    BY <1>1, <2>1, <2>5
<1>10. ASSUME NEW s \in Sessions, UpdateExisting(s) \/ Insert(s)
       PROVE  TakesInv'
  <2>1. End(s) /\ \A p \in People \ {sess[s].who} : attendee'[p] = attendee[p]
    BY <1>10 DEF UpdateExisting, Insert, TypeOK
  <2>2. ASSUME NEW t \in Sessions, sess[t].pc = "reserving", sess[t].kind = "verify"
        PROVE  sess[t].who \in People /\ sess[t].who # sess[s].who
    BY <1>10, <2>2 DEF UpdateExisting, Insert, RowHolders, EventLockInv, Registered
  <2> QED
    BY <1>5, <2>1, <2>2
<1>11. ASSUME NEW s \in Sessions, Confirm(s)
       PROVE  TakesInv'
  <2>1. \A t \in Sessions \ {s} : ~(sess[t].pc = "reserving" /\ sess[t].kind = "verify")
    BY <1>11 DEF Confirm, EventLockInv
  <2> QED
    BY <1>5, <1>11, <2>1 DEF Confirm
<1>12. ASSUME NEW p \in People, DeleteAttendee(p)
       PROVE  TakesInv'
  <2>1. \A q \in People \ {p} : attendee'[q] = attendee[q]
    BY <1>12 DEF DeleteAttendee, TypeOK
  <2>2. ASSUME NEW t \in Sessions, sess[t].pc = "reserving", sess[t].kind = "verify"
        PROVE  sess[t].who \in People /\ sess[t].who # p
    BY <1>12, <2>2 DEF DeleteAttendee, RowHolders, EventLockInv, Registered
  <2> QED
    BY <1>12, <2>1, <2>2, OtherTakes DEF DeleteAttendee, TakesInv
<1>13. CASE UNCHANGED vars
  BY <1>13, OtherTakes DEF vars, TakesInv
<1> QED
  BY <1>2, <1>3, <1>4, <1>6, <1>7, <1>8, <1>9, <1>10, <1>11, <1>12, <1>13
  DEF Next, Over, Start, Proceed

\* Whom a session waits for that takes a place, or is about to count the attendees.
LEMMA WaitsByPc ==
  ASSUME NEW s \in Sessions
  PROVE  /\ sess[s].pc = "new" => WaitsFor(s) = {eventLock} \ {NoSession}
         /\ sess[s].pc = "reserving" /\ sess[s].todo # <<>> =>
              WaitsFor(s) \subseteq {optionLock[Head(sess[s].todo)]} \ {NoSession}
<1>1. ASSUME sess[s].pc = "new"
      PROVE  WaitsFor(s) = {eventLock} \ {NoSession}
  <2>1. /\ sess[s].pc \in {"full", "new", "link", "config", "fields"}
        /\ sess[s].pc # "reserving" /\ sess[s].pc # "counts" /\ ~ReadyToRegister(s)
    BY <1>1 DEF ReadyToRegister
  <2> QED
    BY <2>1, Zenon DEF WaitsFor
<1>2. ASSUME sess[s].pc = "reserving", sess[s].todo # <<>>
      PROVE  WaitsFor(s) \subseteq {optionLock[Head(sess[s].todo)]} \ {NoSession}
  <2>1. /\ sess[s].pc \notin {"full", "new", "link", "config", "fields"}
        /\ sess[s].pc # "counts" /\ ~ReadyToRegister(s)
    BY <1>2 DEF ReadyToRegister
  <2> DEFINE o == Head(sess[s].todo)
  <2>2. WaitsFor(s) = (IF reserved[o] < Capacity[o] THEN {optionLock[o]} ELSE {})
                        \ {NoSession}
    BY <1>2, <2>1, Zenon DEF WaitsFor
  <2> QED
    BY <2>2
<1> QED
  BY <1>1, <1>2

\* Until the organiser saves the settings, whoever holds the event waits for nobody: if
\* addresses are verified, nobody else takes places.
LEMMA EventHolderGoesOn ==
  ASSUME RegistrationAssumption, TypeOK, EventLockInv, SettingsInv, HolderInv, TakesInv,
         saves = 0, eventLock # NoSession
  PROVE  WaitsFor(eventLock) = {}
<1> DEFINE h == eventLock
<1>1. /\ h \in Sessions
      /\ sess[h].pc \in {"insert", "refuse"} \/ (sess[h].pc = "reserving" /\ sess[h].kind = "verify")
  BY DEF TypeOK, HolderInv, SettingsInv
<1>2. CASE sess[h].pc \in {"insert", "refuse"}
  BY <1>2 DEF WaitsFor, ReadyToRegister
<1>3. CASE sess[h].pc = "reserving" /\ sess[h].kind = "verify"
  <2>1. CASE sess[h].todo = <<>>
    BY <1>3, <2>1 DEF WaitsFor, ReadyToRegister
  <2>2. CASE sess[h].todo # <<>>
    <3> DEFINE o == Head(sess[h].todo)
    <3>1. sess[h].todo \in Seq(Options) /\ o \in Options
      BY <1>1, <1>3, <2>2, SessionByPc DEF Verifying
    <3>2. optionLock[o] = NoSession
      <4> SUFFICES ASSUME optionLock[o] # NoSession
                   PROVE  FALSE
        OBVIOUS
      <4>1. PICK g \in Sessions : g = optionLock[o]
        BY <3>1 DEF TypeOK
      <4>2. sess[g].pc \in {"reserving", "new", "insert", "refuse"} /\ o \in sess[g].got
        BY <3>1, <4>1 DEF HolderInv
      <4>3. sess[g].config.verify
        BY <1>1, <1>3, <4>2 DEF SettingsInv, Serving
      <4>4. sess[g].kind \in {"register", "verify"}
        BY <4>2, SessionByPc DEF Registering, Verifying
      <4>5. sess[g].kind # "register"
        BY <4>2, <4>3 DEF TakesInv, TakesOf
      <4>6. sess[g].pc = "reserving" /\ sess[g].kind = "verify"
        <5>1. sess[g].kind = "verify"
          BY <4>4, <4>5
        <5>2. sess[g].pc \in {"new", "insert"} => sess[g].kind = "register"
          BY SessionByPc DEF Registering
        <5>3. sess[g].pc # "refuse"
          BY <4>2, <5>1 DEF TakesInv, TakesOf
        <5> QED
          BY <4>2, <5>1, <5>2, <5>3
      <4>7. g = h
        BY <4>6 DEF EventLockInv
      <4> DEFINE answer == attendee[sess[h].who].answer
      <4>8. answer \in Seq(Options) /\ IsInjective(answer)
        <5>1. sess[h].who \in Registered
          BY <1>1, <1>3 DEF EventLockInv
        <5>2. answer \in Answers
          BY <5>1 DEF Registered, TypeOK, Attendee
        <5> QED
          BY <5>2, AnswersOnce
      <4>9. InOrder(sess[h].todo, sess[h].got, answer)
        BY <1>1, <1>3 DEF TakesInv, TakesOf
      <4>10. o \in sess[h].got
        BY <4>2, <4>7
      <4> HIDE DEF answer, h
      <4>11. Len(sess[h].todo) < Len(sess[h].todo)
        BY <2>2, <3>1, <4>8, <4>9, <4>10, InOrderLess
      <4> QED
        BY <3>1, <4>11
    <3> QED
      BY <1>1, <1>3, <2>2, <3>2, WaitsByPc
  <2> QED
    BY <2>1, <2>2
<1> QED
  BY <1>1, <1>2, <1>3

\* So whoever is in a circle registers and waits for a place that another one of the
\* circle has taken.
LEMMA WaitsForPlace ==
  ASSUME RegistrationAssumption, TypeOK, EventLockInv, SettingsInv, HolderInv, TakesInv,
         saves = 0, NEW T \in SUBSET Sessions, Deadlocked(T), NEW s \in T
  PROVE  /\ sess[s] \in Registering /\ sess[s].pc = "reserving" /\ sess[s].kind = "register"
         /\ sess[s].todo \in Seq(Options) /\ sess[s].todo # <<>>
         /\ \E t \in T : sess[t].pc = "reserving" /\ Head(sess[s].todo) \in sess[t].got
<1>1. PICK t \in T : t \in WaitsFor(s)
  BY DEF Deadlocked
<1>2. t \in Sessions /\ t # NoSession /\ WaitsFor(t) # {} /\ WaitsFor(s) # {}
  BY <1>1 DEF Deadlocked, RegistrationAssumption
<1>3. t # eventLock /\ s # eventLock
  BY <1>2, EventHolderGoesOn, RegistrationAssumption DEF RegistrationAssumption
<1>4. \A u \in Sessions : sess[u].pc = "reserving" /\ sess[u].kind = "verify" => u = eventLock
  BY DEF EventLockInv
<1>5. sess[s].pc # "counts"
  BY DEF SettingsInv
<1>6. t \notin RowHolders(sess[s].who)
  BY <1>3, <1>4 DEF RowHolders
<1>7. sess[s].pc = "reserving" /\ sess[s].todo # <<>> /\ t = optionLock[Head(sess[s].todo)]
  BY <1>1, <1>3, <1>5, <1>6 DEF WaitsFor
<1>8. sess[s] \in Registering /\ sess[s].kind = "register"
  BY <1>3, <1>4, <1>7, SessionByPc DEF Registering, Verifying
<1>9. sess[s].todo \in Seq(Options) /\ Head(sess[s].todo) \in Options
  BY <1>7, <1>8 DEF Registering
<1>10. /\ sess[t].pc \in {"reserving", "new", "insert", "refuse"}
       /\ Head(sess[s].todo) \in sess[t].got
  BY <1>2, <1>7, <1>9 DEF HolderInv
<1>11. sess[t].pc = "reserving"
  <2>1. CASE sess[t].pc \in {"insert", "refuse"}
    BY <1>2, <2>1 DEF WaitsFor, ReadyToRegister
  <2>2. CASE sess[t].pc = "new"
    <3>1. WaitsFor(t) = {eventLock} \ {NoSession}
      BY <1>2, <2>2, WaitsByPc
    <3>2. eventLock # NoSession /\ eventLock \in T
      BY <3>1 DEF Deadlocked
    <3> QED
      BY <3>2, EventHolderGoesOn DEF Deadlocked
  <2> QED
    BY <1>10, <2>1, <2>2
<1> QED
  BY <1>7, <1>8, <1>9, <1>10, <1>11

\* Requests wait for each other in a circle only if two of them take places in several
\* options in different orders, or the organiser has saved the settings: of those who
\* take places in one order, who has least to take waits for nobody of the circle.
THEOREM DeadlocksNeedTwoOrders == Spec => []DeadlocksExplained
<1> DEFINE Inv == SettingsInv /\ HolderInv /\ TakesInv
<1>1. Init => Inv
  <2> SUFFICES ASSUME Init PROVE Inv
    OBVIOUS
  <2>1. \A s \in Sessions : sess[s].pc = "idle"
    BY DEF Init, Idle
  <2>2. Registered = {}
    BY DEF Init, Registered
  <2> QED
    BY <2>1, <2>2 DEF Init, SettingsInv, HolderInv, TakesInv, TakesOf, Serving
<1>2. TypeOK /\ EventLockInv /\ Inv /\ [Next]_vars => Inv'
  BY RegistrationAssumption, NextSettings, NextHolder, NextTakes
<1>3. TypeOK /\ EventLockInv /\ Inv => DeadlocksExplained
  <2> SUFFICES ASSUME TypeOK, EventLockInv, SettingsInv, HolderInv, TakesInv,
                      NEW T \in SUBSET Sessions, Deadlocked(T), ~(saves > 0),
                      \A s, t \in T :
                        sess[s].kind = "register" /\ sess[t].kind = "register" =>
                          sess[s].answer = sess[t].answer
               PROVE  FALSE
    BY DEF DeadlocksExplained
  <2>1. saves = 0
    BY RegistrationAssumption DEF TypeOK, RegistrationAssumption
  <2> DEFINE sizes == {Len(sess[s].todo) : s \in T}
  <2>2. sizes \subseteq Nat /\ sizes # {}
    <3>1. \A s \in T : sess[s].todo \in Seq(Options)
      BY <2>1, RegistrationAssumption, WaitsForPlace
    <3>2. \A s \in T : Len(sess[s].todo) \in Nat
      BY <3>1
    <3>3. PICK s \in T : TRUE
      BY DEF Deadlocked
    <3>4. Len(sess[s].todo) \in sizes
      BY <3>3
    <3> QED
      BY <3>2, <3>4
  <2> HIDE DEF sizes
  <2>3. PICK n \in sizes : \A m \in sizes : <<m, n>> \notin OpToRel(<, Nat)
    BY <2>2, NatLessThanWellFounded, WFMin, Zenon
  <2>4. \A m \in sizes : ~(m < n)
    BY <2>2, <2>3 DEF OpToRel
  <2>5. PICK s \in T : n = Len(sess[s].todo)
    BY DEF sizes
  <2>6. /\ sess[s].pc = "reserving" /\ sess[s].kind = "register"
        /\ sess[s].todo \in Seq(Options) /\ sess[s].todo # <<>>
    BY <2>1, RegistrationAssumption, WaitsForPlace
  <2>7. PICK t \in T : sess[t].pc = "reserving" /\ Head(sess[s].todo) \in sess[t].got
    BY <2>1, RegistrationAssumption, WaitsForPlace
  <2>8. sess[t].kind = "register" /\ sess[t].todo \in Seq(Options)
    BY <2>1, RegistrationAssumption, WaitsForPlace
  <2>9. /\ sess[t].answer = sess[s].answer /\ sess[s].answer \in Answers
        /\ InOrder(sess[s].todo, sess[s].got, sess[s].answer)
        /\ InOrder(sess[t].todo, sess[t].got, sess[s].answer)
    <3>1. sess[t].answer = sess[s].answer
      BY <2>6, <2>8
    <3> QED
      BY <2>6, <2>7, <2>8, <3>1 DEF TakesInv, TakesOf
  <2>10. Len(sess[t].todo) < Len(sess[s].todo)
    BY <2>6, <2>7, <2>8, <2>9, RegistrationAssumption, AnswersOnce, InOrderLess
  <2> QED
    BY <2>4, <2>5, <2>10 DEF sizes
<1> QED
  BY <1>1, <1>2, <1>3, EventLockInvariant, PTL DEF Spec
=============================================================================
