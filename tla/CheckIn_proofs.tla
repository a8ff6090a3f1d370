--------------------------- MODULE CheckIn_proofs ---------------------------
(***************************************************************************)
(* Proofs about the two ends of a check-in: the page at the door that keeps  *)
(* a queue while it has no connection (OfflineQueue), and the gate of the    *)
(* backend that checks tickets (TicketGate, whose Init, Next, Spec, TypeOK   *)
(* and vars carry the prefix Gate).  Of the page: the typing, that an entry  *)
(* queued with nothing else under way is never lost, and that a page that is *)
(* online does not sit on a queue it never tried to send.  Of the gate: the  *)
(* typing, that ticket and attendance agree, and what counting an attendee   *)
(* or spending a nonce twice takes.                                          *)
(***************************************************************************)
EXTENDS OfflineQueue, TicketGate, FiniteSetTheorems, SequenceTheorems, TLAPS

-----------------------------------------------------------------------------
(* The queues.                                                              *)

\* A queue is a sequence of at most Cap entries.
LEMMA QueueIsSequence ==
  ASSUME NEW q \in Queues
  PROVE  q \in Seq(Entries) /\ Len(q) \in Nat /\ Len(q) <= Cap
<1>1. PICK m \in 0 .. Cap : q \in [1 .. m -> Entries]
  BY DEF Queues, BoundedSeq, SeqOf
<1>2. m \in Nat /\ m <= Cap
  BY OfflineQueueAssumption
<1>3. QED
  BY <1>1, <1>2

LEMMA QueueEntries ==
  ASSUME NEW q \in Queues
  PROVE  ToSet(q) \subseteq Entries
<1>1. q \in Seq(Entries)
  BY QueueIsSequence
<1>2. QED
  BY <1>1 DEF ToSet

LEMMA SequenceIsQueue ==
  ASSUME NEW q \in Seq(Entries), Len(q) <= Cap
  PROVE  q \in Queues
<1>1. Len(q) \in Nat /\ q \in [1 .. Len(q) -> Entries]
  OBVIOUS
<1>2. Len(q) \in 0 .. Cap
  BY <1>1, OfflineQueueAssumption
<1>3. QED
  BY <1>1, <1>2 DEF Queues, BoundedSeq, SeqOf

LEMMA EmptyQueue == <<>> \in Queues /\ ToSet(<<>>) = {} /\ Len(<<>>) = 0
<1>1. <<>> \in Seq(Entries) /\ Len(<<>>) = 0 /\ DOMAIN <<>> = {}
  OBVIOUS
<1>2. Len(<<>>) <= Cap
  BY <1>1, OfflineQueueAssumption
<1>3. <<>> \in Queues
  BY <1>1, <1>2, SequenceIsQueue
<1>4. ToSet(<<>>) = {}
  BY <1>1 DEF ToSet
<1>5. QED
  BY <1>1, <1>3, <1>4

\* syncQueue turns the queue round: the same entries.
LEMMA ReversedQueue ==
  ASSUME NEW q \in Queues
  PROVE  Reverse(q) \in Queues /\ ToSet(Reverse(q)) = ToSet(q) /\ Len(Reverse(q)) = Len(q)
<1>1. q \in Seq(Entries) /\ Len(q) \in Nat /\ Len(q) <= Cap
  BY QueueIsSequence
<1> DEFINE r == Reverse(q)
<1>2. Reverse(q) = [i \in 1 .. Len(q) |-> q[(Len(q) - i) + 1]]
  BY DEF Reverse
<1>3. \A i \in 1 .. Len(q) : (Len(q) - i) + 1 \in 1 .. Len(q)
  BY <1>1
<1>4. Reverse(q) \in [1 .. Len(q) -> Entries]
  BY <1>1, <1>2, <1>3
<1>5. Reverse(q) \in Seq(Entries) /\ Len(Reverse(q)) = Len(q) /\ DOMAIN Reverse(q) = 1 .. Len(q)
  BY <1>1, <1>4
<1>6. Reverse(q) \in Queues
  BY <1>1, <1>5, SequenceIsQueue
<1>7. ASSUME NEW x \in ToSet(Reverse(q))
      PROVE  x \in ToSet(q)
  <2>1. PICK i \in 1 .. Len(q) : x = Reverse(q)[i]
    BY <1>5, <1>7 DEF ToSet
  <2>2. x = q[(Len(q) - i) + 1]
    BY <1>2, <2>1
  <2>3. QED
    BY <1>1, <1>3, <2>2 DEF ToSet
<1>8. ASSUME NEW x \in ToSet(q)
      PROVE  x \in ToSet(Reverse(q))
  <2>1. PICK i \in 1 .. Len(q) : x = q[i]
    BY <1>1, <1>8 DEF ToSet
  <2>2. (Len(q) - ((Len(q) - i) + 1)) + 1 = i
    BY <1>1
  <2>3. Reverse(q)[(Len(q) - i) + 1] = x
    BY <1>2, <1>3, <2>1, <2>2
  <2>4. QED
    BY <1>3, <1>5, <2>3 DEF ToSet
<1>9. QED
  BY <1>5, <1>6, <1>7, <1>8

\* Taking the next entry off what is still to be sent.
LEMMA TakenQueue ==
  ASSUME NEW q \in Queues, q # <<>>
  PROVE  /\ Head(q) \in Entries /\ Tail(q) \in Queues
         /\ Len(Tail(q)) = Len(q) - 1 /\ Len(q) > 0
         /\ ToSet(q) = {Head(q)} \cup ToSet(Tail(q))
<1>1. q \in Seq(Entries) /\ Len(q) \in Nat /\ Len(q) <= Cap
  BY QueueIsSequence
<1>2. /\ Head(q) \in Entries /\ Tail(q) \in Seq(Entries) /\ Len(q) > 0
      /\ Len(Tail(q)) = Len(q) - 1 /\ Head(q) = q[1]
  BY <1>1
<1>3. \A i \in 1 .. Len(q) - 1 : Tail(q)[i] = q[i + 1]
  BY <1>1
<1>bound. Len(Tail(q)) <= Cap
  BY <1>1, <1>2, OfflineQueueAssumption
<1>4. Tail(q) \in Queues
  BY <1>2, <1>bound, SequenceIsQueue
<1>5. DOMAIN q = 1 .. Len(q) /\ DOMAIN Tail(q) = 1 .. Len(q) - 1
  BY <1>1, <1>2
<1>6. ASSUME NEW x \in ToSet(q)
      PROVE  x \in {Head(q)} \cup ToSet(Tail(q))
  <2>1. PICK i \in 1 .. Len(q) : x = q[i]
    BY <1>5, <1>6 DEF ToSet
  <2>2. CASE i = 1
    BY <1>2, <2>1, <2>2
  <2>3. CASE i # 1
    <3>1. i - 1 \in 1 .. Len(q) - 1 /\ (i - 1) + 1 = i
      BY <1>1, <2>3
    <3>2. x = Tail(q)[i - 1]
      BY <1>3, <2>1, <3>1
    <3>3. QED
      BY <1>5, <3>1, <3>2 DEF ToSet
  <2>4. QED
    BY <2>2, <2>3
<1>7. ASSUME NEW x \in ToSet(Tail(q))
      PROVE  x \in ToSet(q)
  <2>1. PICK i \in 1 .. Len(q) - 1 : x = Tail(q)[i]
    BY <1>5, <1>7 DEF ToSet
  <2>2. i + 1 \in 1 .. Len(q)
    BY <1>1
  <2>3. QED
    BY <1>3, <1>5, <2>1, <2>2 DEF ToSet
<1>8. Head(q) \in ToSet(q)
  BY <1>1, <1>2, <1>5 DEF ToSet
<1>9. QED
  BY <1>2, <1>4, <1>6, <1>7, <1>8

\* An entry put in front of a sequence.
LEMMA WithNewest ==
  ASSUME NEW q \in Seq(Entries), NEW e \in Entries
  PROVE  /\ <<e>> \o q \in Seq(Entries) /\ Len(<<e>> \o q) = Len(q) + 1
         /\ (<<e>> \o q)[1] = e
         /\ ToSet(<<e>> \o q) = {e} \cup ToSet(q)
<1> DEFINE r == <<e>> \o q
<1>1. /\ r \in Seq(Entries) /\ Len(r) = Len(q) + 1 /\ r[1] = e /\ Len(q) \in Nat
      /\ \A i \in 1 .. Len(q) : r[i + 1] = q[i]
  OBVIOUS
<1>2. DOMAIN r = 1 .. Len(q) + 1 /\ DOMAIN q = 1 .. Len(q)
  BY <1>1
<1> HIDE DEF r
<1>3. ASSUME NEW x \in ToSet(r)
      PROVE  x \in {e} \cup ToSet(q)
  <2>1. PICK i \in 1 .. Len(q) + 1 : x = r[i]
    BY <1>2, <1>3 DEF ToSet
  <2>2. CASE i = 1
    BY <1>1, <2>1, <2>2
  <2>3. CASE i # 1
    <3>1. i - 1 \in 1 .. Len(q) /\ (i - 1) + 1 = i
      BY <1>1, <2>3
    <3>2. x = q[i - 1]
      BY <1>1, <2>1, <3>1
    <3>3. QED
      BY <1>2, <3>1, <3>2 DEF ToSet
  <2>4. QED
    BY <2>2, <2>3
<1>4. ASSUME NEW x \in ToSet(q)
      PROVE  x \in ToSet(r)
  <2>1. PICK i \in 1 .. Len(q) : x = q[i]
    BY <1>2, <1>4 DEF ToSet
  <2>2. i + 1 \in 1 .. Len(q) + 1 /\ x = r[i + 1]
    BY <1>1, <2>1
  <2>3. QED
    BY <1>2, <2>2 DEF ToSet
<1>5. e \in ToSet(r)
  BY <1>1, <1>2 DEF ToSet
<1>6. ToSet(r) = {e} \cup ToSet(q)
  BY <1>3, <1>4, <1>5
<1>7. QED
  BY <1>1, <1>6 DEF r

\* What queueCheckin writes: entry e in front of the queue of its closure, cut to Cap.
Queued(e, q) == SubSeq(<<e>> \o q, 1, IF Len(q) < Cap THEN Len(q) + 1 ELSE Cap)

LEMMA QueuedQueue ==
  ASSUME NEW q \in Queues, NEW e \in Entries
  PROVE  /\ Queued(e, q) \in Queues /\ Queued(e, q) # <<>>
         /\ e \in ToSet(Queued(e, q)) /\ ToSet(Queued(e, q)) \subseteq {e} \cup ToSet(q)
<1> DEFINE r == <<e>> \o q
           n == IF Len(q) < Cap THEN Len(q) + 1 ELSE Cap
           c == SubSeq(r, 1, n)
<1>1. q \in Seq(Entries) /\ Len(q) \in Nat /\ Len(q) <= Cap
  BY QueueIsSequence
<1>2. r \in Seq(Entries) /\ Len(r) = Len(q) + 1 /\ r[1] = e /\ ToSet(r) = {e} \cup ToSet(q)
  BY <1>1, WithNewest
<1>3. n \in Nat /\ n \in 1 .. Len(q) + 1 /\ n <= Cap /\ 1 <= n
  BY <1>1, OfflineQueueAssumption
<1> HIDE DEF r, n
<1>4. c \in Seq(Entries) /\ Len(c) = n /\ \A i \in 1 .. n : c[i] = r[i]
  BY <1>2, <1>3
<1> HIDE DEF c
<1>5. DOMAIN c = 1 .. n /\ DOMAIN r = 1 .. Len(q) + 1
  BY <1>2, <1>4
<1>6. c \in Queues
  BY <1>3, <1>4, SequenceIsQueue
<1>7. 1 \in 1 .. n
  BY <1>3
<1>8. e \in ToSet(c)
  BY <1>2, <1>4, <1>5, <1>7 DEF ToSet
<1>9. \A i \in 1 .. n : i \in 1 .. Len(q) + 1
  BY <1>1, <1>3
<1>10. ToSet(c) \subseteq ToSet(r)
  BY <1>4, <1>5, <1>9 DEF ToSet
<1>11. c # <<>>
  BY <1>8, EmptyQueue
<1>12. QED
  BY <1>2, <1>6, <1>8, <1>10, <1>11 DEF c, r, n, Queued

\* What a synchronisation reports as failed, put in front of what failed before.
LEMMA FailedQueue ==
  ASSUME NEW q \in Queues, NEW e \in Entries, Len(q) < Cap
  PROVE  /\ <<e>> \o q \in Queues /\ Len(<<e>> \o q) = Len(q) + 1
         /\ ToSet(<<e>> \o q) = {e} \cup ToSet(q)
<1>1. q \in Seq(Entries) /\ Len(q) \in Nat
  BY QueueIsSequence
<1>2. <<e>> \o q \in Seq(Entries) /\ Len(<<e>> \o q) = Len(q) + 1 /\ ToSet(<<e>> \o q) = {e} \cup ToSet(q)
  BY <1>1, WithNewest
<1>3. Len(q) + 1 <= Cap
  BY <1>1, OfflineQueueAssumption
<1>4. QED
  BY <1>2, <1>3, SequenceIsQueue
-----------------------------------------------------------------------------
(* Typing.  What a page keeps fits together: only an open page has a queue, *)
(* nothing is left to send unless a synchronisation runs, and what it has    *)
(* still to send and what failed are together no more than a queue.          *)

SyncStates == [rest : Queues, failed : Queues, busy : BOOLEAN]

PageOK(p) ==
  /\ ready[p] => open[p]
  /\ ~open[p] => /\ offlineQueue[p] = <<>> /\ sync[p] = NoSync
                 /\ sent[p] = {} /\ scanner[p] = NoScanner
  /\ ~sync[p].busy => sync[p] = NoSync
  /\ Len(sync[p].rest) + Len(sync[p].failed) <= Cap

PageInv == \A p \in Pages : PageOK(p)

\* What page p shows and runs is left alone.
Untouched(p) ==
  /\ open'[p] = open[p] /\ ready'[p] = ready[p] /\ isOnline'[p] = isOnline[p]
  /\ offlineQueue'[p] = offlineQueue[p] /\ submitting'[p] = submitting[p]
  /\ scanner'[p] = scanner[p] /\ sent'[p] = sent[p] /\ sync'[p] = sync[p]

\* syncQueue starts with the whole queue to send and nothing failed.
LEMMA StartSyncEffect ==
  ASSUME NEW q \in Queues
  PROVE  /\ StartSync(q) \in SyncStates
         /\ StartSync(q).busy = TRUE /\ StartSync(q).failed = <<>>
         /\ ToSet(StartSync(q).rest) = ToSet(q)
         /\ Len(StartSync(q).rest) + Len(StartSync(q).failed) <= Cap
<1>1. Reverse(q) \in Queues /\ ToSet(Reverse(q)) = ToSet(q) /\ Len(Reverse(q)) = Len(q)
  BY ReversedQueue
<1>2. <<>> \in Queues /\ Len(<<>>) = 0
  BY EmptyQueue
<1>3. /\ StartSync(q).rest = Reverse(q) /\ StartSync(q).failed = <<>> /\ StartSync(q).busy = TRUE
      /\ StartSync(q) \in SyncStates
  BY <1>1, <1>2 DEF StartSync, SyncStates
<1>4. Len(q) \in Nat /\ Len(q) <= Cap
  BY QueueIsSequence
<1>5. Len(q) + 0 <= Cap
  BY <1>4, OfflineQueueAssumption
<1>6. QED
  BY <1>1, <1>2, <1>3, <1>5

LEMMA NoSyncState ==
  /\ NoSync \in SyncStates /\ NoSync.busy = FALSE /\ NoSync.rest = <<>> /\ NoSync.failed = <<>>
  /\ Len(NoSync.rest) + Len(NoSync.failed) <= Cap
<1>1. <<>> \in Queues /\ Len(<<>>) = 0
  BY EmptyQueue
<1>2. NoSync \in SyncStates /\ NoSync.busy = FALSE /\ NoSync.rest = <<>> /\ NoSync.failed = <<>>
  BY <1>1 DEF NoSync, SyncStates
<1>3. 0 + 0 <= Cap
  BY OfflineQueueAssumption
<1>4. QED
  BY <1>1, <1>2, <1>3

\* A render changes the page rendered alone; its effect starts syncQueue when the
\* connection or the length of the queue changed, there is something to send and
\* nothing runs.
LEMMA RenderEffect ==
  ASSUME TypeOK, NEW p \in Pages, NEW online \in BOOLEAN, NEW q \in Queues,
         NEW running \in SyncStates, Render(p, online, q, running)
  PROVE  /\ isOnline' \in [Pages -> BOOLEAN] /\ offlineQueue' \in [Pages -> Queues]
         /\ sync' \in [Pages -> SyncStates]
         /\ isOnline'[p] = online /\ offlineQueue'[p] = q
         /\ sync'[p] \in {running, StartSync(q)}
         /\ (\/ online # isOnline[p]
             \/ Len(q) # Len(offlineQueue[p])) /\ online /\ q # <<>> /\ up => sync'[p].busy
         /\ running.busy => sync'[p] = running
         /\ \A o \in Pages \ {p} : /\ isOnline'[o] = isOnline[o] /\ sync'[o] = sync[o]
                                   /\ offlineQueue'[o] = offlineQueue[o]
<1>1. /\ isOnline \in [Pages -> BOOLEAN] /\ offlineQueue \in [Pages -> Queues]
      /\ sync \in [Pages -> SyncStates]
  BY DEF TypeOK, SyncStates
<1>2. StartSync(q) \in SyncStates /\ StartSync(q).busy = TRUE
  BY StartSyncEffect
<1>3. /\ isOnline' = [isOnline EXCEPT ![p] = online]
      /\ offlineQueue' = [offlineQueue EXCEPT ![p] = q]
  BY DEF Render
<1> DEFINE starts == /\ online # isOnline[p] \/ Len(q) # Len(offlineQueue[p])
                     /\ online /\ q # <<>> /\ ~running.busy /\ up
           now == IF starts THEN StartSync(q) ELSE running
<1>4. sync' = [sync EXCEPT ![p] = now]
  BY DEF Render
<1>5. now \in SyncStates
  BY <1>2
<1>6. sync' \in [Pages -> SyncStates] /\ sync'[p] = now /\ \A o \in Pages \ {p} : sync'[o] = sync[o]
  <2> HIDE DEF now
  <2>1. QED
    BY <1>1, <1>4, <1>5
<1>7. now \in {running, StartSync(q)} /\ (running.busy => now = running)
  OBVIOUS
<1>8. /\ isOnline' \in [Pages -> BOOLEAN] /\ offlineQueue' \in [Pages -> Queues]
      /\ isOnline'[p] = online /\ offlineQueue'[p] = q
      /\ \A o \in Pages \ {p} : isOnline'[o] = isOnline[o] /\ offlineQueue'[o] = offlineQueue[o]
  BY <1>1, <1>3
<1>9. (\/ online # isOnline[p]
       \/ Len(q) # Len(offlineQueue[p])) /\ online /\ q # <<>> /\ up => now.busy
  <2>1. CASE running.busy
    BY <1>7, <2>1
  <2>2. CASE ~running.busy
    BY <1>2, <2>2
  <2>3. QED
    BY <2>1, <2>2
<1>10. QED
  BY <1>6, <1>7, <1>8, <1>9

\* queueCheckin: the new entry is in both copies of the queue, and what was in the
\* closure's queue is in them too or no longer waited for.
LEMMA QueueCheckinEffect ==
  ASSUME TypeOK, NEW p \in Pages, NEW e \in Entries, NEW q \in Queues, NEW f \in Fates,
         QueueCheckin(p, e, q, f)
  PROVE  /\ stored' = Queued(e, q) /\ stored' \in Queues
         /\ Render(p, isOnline[p], Queued(e, q), sync[p])
         /\ fate' \in [Entries -> Fates] /\ fate'[e] = f
         /\ \A x \in Entries \ {e} : fate'[x] = fate[x] \/ fate'[x] = "excused"
         /\ \A x \in Entries \ {e} :
              x \in ToSet(q) /\ x \notin ToSet(Queued(e, q)) => fate'[x] \in {"settled", "excused"}
<1>1. /\ stored' = Queued(e, q)
      /\ Render(p, isOnline[p], Queued(e, q), sync[p])
      /\ fate' = [x \in Entries |-> IF x = e THEN f
                                    ELSE IF x \in ToSet(q) \ ToSet(Queued(e, q)) /\ fate[x] # "settled"
                                         THEN "excused" ELSE fate[x]]
  BY DEF QueueCheckin, Queued
<1>2. stored' \in Queues
  BY <1>1, QueuedQueue
<1>3. fate \in [Entries -> Fates] /\ "excused" \in Fates
  BY DEF TypeOK, Fates
<1>4. fate' \in [Entries -> Fates]
  BY <1>1, <1>3
<1>5. QED
  BY <1>1, <1>2, <1>4

\* The types of the variables, without the clause about closed pages.
TypedVars ==
  /\ up \in BOOLEAN /\ stored \in Queues
  /\ open \in [Pages -> BOOLEAN] /\ ready \in [Pages -> BOOLEAN]
  /\ isOnline \in [Pages -> BOOLEAN] /\ submitting \in [Pages -> BOOLEAN]
  /\ offlineQueue \in [Pages -> Queues]
  /\ scanner \in [Pages -> [queue : Queues, online : {"yes", "no", "closed"}]]
  /\ sent \in [Pages -> SUBSET [entry : Entries, queue : Queues]]
  /\ sync \in [Pages -> SyncStates]
  /\ fate \in [Entries -> Fates]
  /\ flips \in 0 .. MaxFlips /\ opens \in 0 .. MaxOpens

LEMMA TypedVarsOK == TypeOK => TypedVars
  BY DEF TypeOK, TypedVars, SyncStates

\* A step that touches page p alone keeps the typing if it does for p.
LEMMA OnePageStep ==
  ASSUME PageInv, NEW p \in Pages, TypedVars', PageOK(p)',
         \A o \in Pages \ {p} : Untouched(o)
  PROVE  TypeOK' /\ PageInv'
<1>1. ASSUME NEW o \in Pages
      PROVE  PageOK(o)'
  <2>1. CASE o = p
    BY <2>1
  <2>2. CASE o # p
    BY <2>2 DEF PageInv, PageOK, Untouched
  <2>3. QED
    BY <2>1, <2>2
<1>2. PageInv'
  BY <1>1 DEF PageInv
<1>3. TypeOK'
  BY <1>1 DEF TypeOK, TypedVars, PageOK, SyncStates
<1>4. QED
  BY <1>2, <1>3

OnePage(p) == TypeOK' /\ PageInv' /\ \A o \in Pages \ {p} : Untouched(o)

LEMMA OpenTyped ==
  ASSUME TypeOK, PageInv, NEW p \in Pages, Open(p)
  PROVE  OnePage(p) /\ stored' = stored /\ fate' = fate
<1>1. Render(p, up, stored, NoSync) /\ up \in BOOLEAN /\ stored \in Queues
  BY DEF Open, TypeOK
<1>2. /\ isOnline' \in [Pages -> BOOLEAN] /\ offlineQueue' \in [Pages -> Queues]
      /\ sync' \in [Pages -> SyncStates] /\ sync'[p] \in {NoSync, StartSync(stored)}
      /\ \A o \in Pages \ {p} : /\ isOnline'[o] = isOnline[o] /\ sync'[o] = sync[o]
                                /\ offlineQueue'[o] = offlineQueue[o]
  BY <1>1, RenderEffect, NoSyncState
<1>3. TypedVars
  BY TypedVarsOK
<1>4. opens + 1 \in 0 .. MaxOpens
  BY <1>3, OfflineQueueAssumption DEF Open, TypedVars
<1>5. TypedVars'
  BY <1>2, <1>3, <1>4 DEF Open, TypedVars
<1>6. \A o \in Pages \ {p} : Untouched(o)
  BY <1>2, <1>3 DEF Open, TypedVars, Untouched
<1>7. open'[p] /\ sync'[p] \in {NoSync, StartSync(stored)}
  BY <1>2, <1>3 DEF Open, TypedVars
<1>8. PageOK(p)'
  BY <1>1, <1>7, StartSyncEffect, NoSyncState DEF PageOK
<1>9. QED
  BY <1>5, <1>6, <1>8, OnePageStep DEF OnePage, Open

LEMMA CloseTyped ==
  ASSUME TypeOK, PageInv, NEW p \in Pages, Close(p)
  PROVE  OnePage(p) /\ stored' = stored /\ fate' = fate
<1>1. TypedVars
  BY TypedVarsOK
<1>2. <<>> \in Queues /\ NoScanner \in [queue : Queues, online : {"yes", "no", "closed"}]
  BY EmptyQueue DEF NoScanner
<1>3. NoSync \in SyncStates
  BY NoSyncState
<1>4. TypedVars'
  BY <1>1, <1>2, <1>3 DEF Close, TypedVars
<1>5. \A o \in Pages \ {p} : Untouched(o)
  BY <1>1 DEF Close, TypedVars, Untouched
<1>6. /\ open'[p] = FALSE /\ ready'[p] = FALSE /\ offlineQueue'[p] = <<>> /\ sync'[p] = NoSync
      /\ sent'[p] = {} /\ scanner'[p] = NoScanner
  BY <1>1 DEF Close, TypedVars
<1>7. PageOK(p)'
  BY <1>6, NoSyncState DEF PageOK
<1>8. QED
  BY <1>4, <1>5, <1>7, OnePageStep DEF OnePage, Close

LEMMA NoticeTyped ==
  ASSUME TypeOK, PageInv, NEW p \in Pages, Notice(p)
  PROVE  OnePage(p) /\ stored' = stored /\ fate' = fate
<1>1. TypedVars
  BY TypedVarsOK
<1>2. /\ Render(p, up, offlineQueue[p], sync[p]) /\ up \in BOOLEAN /\ offlineQueue[p] \in Queues
      /\ sync[p] \in SyncStates
  BY <1>1 DEF Notice, TypedVars
<1>3. /\ isOnline' \in [Pages -> BOOLEAN] /\ offlineQueue' \in [Pages -> Queues]
      /\ sync' \in [Pages -> SyncStates] /\ sync'[p] \in {sync[p], StartSync(offlineQueue[p])}
      /\ offlineQueue'[p] = offlineQueue[p]
      /\ \A o \in Pages \ {p} : /\ isOnline'[o] = isOnline[o] /\ sync'[o] = sync[o]
                                /\ offlineQueue'[o] = offlineQueue[o]
  BY <1>2, RenderEffect
<1>4. TypedVars'
  BY <1>1, <1>3 DEF Notice, TypedVars
<1>5. \A o \in Pages \ {p} : Untouched(o)
  BY <1>3 DEF Notice, Untouched
<1>6. /\ open[p] /\ open'[p] = open[p]
  BY DEF Notice
<1>7. PageOK(p)'
  <2>1. CASE sync'[p] = sync[p]
    BY <1>6, <2>1 DEF PageInv, PageOK
  <2>2. CASE sync'[p] = StartSync(offlineQueue[p])
    BY <1>2, <1>6, <2>2, StartSyncEffect DEF PageOK
  <2>3. QED
    BY <1>3, <2>1, <2>2
<1>8. QED
  BY <1>4, <1>5, <1>7, OnePageStep DEF OnePage, Notice

\* Both outcomes of submitting are of type, whatever closure the value comes with.
LEMMA QueueCheckinTyped ==
  ASSUME TypeOK, PageInv, NEW p \in Pages, open[p], NEW e \in Entries, NEW q \in Queues,
         NEW f \in Fates, QueueCheckin(p, e, q, f)
  PROVE  /\ stored' \in Queues /\ isOnline' \in [Pages -> BOOLEAN]
         /\ offlineQueue' \in [Pages -> Queues] /\ sync' \in [Pages -> SyncStates]
         /\ fate' \in [Entries -> Fates]
         /\ \A o \in Pages \ {p} : /\ isOnline'[o] = isOnline[o] /\ sync'[o] = sync[o]
                                   /\ offlineQueue'[o] = offlineQueue[o]
         /\ isOnline'[p] = isOnline[p] /\ offlineQueue'[p] = stored' /\ stored' = Queued(e, q)
         /\ sync'[p] \in {sync[p], StartSync(stored')}
         /\ sync[p].busy => sync'[p] = sync[p]
         /\ ~sync'[p].busy => sync'[p] = NoSync
         /\ Len(sync'[p].rest) + Len(sync'[p].failed) <= Cap
<1>1. TypedVars
  BY TypedVarsOK
<1>2. sync[p] \in SyncStates /\ isOnline[p] \in BOOLEAN
  BY <1>1 DEF TypedVars
<1>3. /\ stored' = Queued(e, q) /\ stored' \in Queues /\ Queued(e, q) \in Queues
      /\ Render(p, isOnline[p], Queued(e, q), sync[p]) /\ fate' \in [Entries -> Fates]
  BY QueueCheckinEffect
<1>4. /\ isOnline' \in [Pages -> BOOLEAN] /\ offlineQueue' \in [Pages -> Queues]
      /\ sync' \in [Pages -> SyncStates]
      /\ sync'[p] \in {sync[p], StartSync(Queued(e, q))}
      /\ sync[p].busy => sync'[p] = sync[p]
      /\ isOnline'[p] = isOnline[p] /\ offlineQueue'[p] = Queued(e, q)
      /\ \A o \in Pages \ {p} : /\ isOnline'[o] = isOnline[o] /\ sync'[o] = sync[o]
                                /\ offlineQueue'[o] = offlineQueue[o]
  BY <1>2, <1>3, RenderEffect
<1>5. /\ ~sync'[p].busy => sync'[p] = NoSync
      /\ Len(sync'[p].rest) + Len(sync'[p].failed) <= Cap
  <2>1. CASE sync'[p] = sync[p]
    BY <2>1 DEF PageInv, PageOK
  <2>2. CASE sync'[p] = StartSync(Queued(e, q))
    BY <1>3, <2>2, StartSyncEffect
  <2>3. QED
    BY <1>4, <2>1, <2>2
<1>6. QED
  BY <1>3, <1>4, <1>5

LEMMA SubmitTyped ==
  ASSUME TypeOK, PageInv, NEW p \in Pages, open[p], NEW e \in Entries, NEW online \in BOOLEAN,
         NEW q \in Queues, NEW quiet \in BOOLEAN, SubmitValue(p, e, online, q, quiet),
         scanner' \in [Pages -> [queue : Queues, online : {"yes", "no", "closed"}]],
         \A o \in Pages \ {p} : scanner'[o] = scanner[o]
  PROVE  OnePage(p)
<1>1. TypedVars
  BY TypedVarsOK
<1>2. /\ open' = open /\ ready' = ready /\ up' = up /\ flips' = flips /\ opens' = opens
  BY DEF SubmitValue
<1>3. PageOK(p)
  BY DEF PageInv
<1>4. CASE online
  <2>1. /\ sent' = [sent EXCEPT ![p] = sent[p] \cup {[entry |-> e, queue |-> q]}]
        /\ submitting' = [submitting EXCEPT ![p] = TRUE]
        /\ fate' = [fate EXCEPT ![e] = "sent"]
        /\ UNCHANGED <<stored, isOnline, offlineQueue, sync>>
    BY <1>4 DEF SubmitValue
  <2>2. "sent" \in Fates
    BY DEF Fates
  <2>3. sent[p] \cup {[entry |-> e, queue |-> q]} \in SUBSET [entry : Entries, queue : Queues]
    BY <1>1 DEF TypedVars
  <2>4. TypedVars'
    BY <1>1, <1>2, <2>1, <2>2, <2>3 DEF TypedVars
  <2>5. \A o \in Pages \ {p} : Untouched(o)
    BY <1>1, <1>2, <2>1 DEF TypedVars, Untouched
  <2>6. PageOK(p)'
    BY <1>2, <1>3, <2>1 DEF PageOK
  <2>7. QED
    BY <2>4, <2>5, <2>6, OnePageStep DEF OnePage
<1>5. CASE ~online
  <2>1. QueueCheckin(p, e, q, Promised(quiet)) /\ sent' = sent /\ submitting' = submitting
    BY <1>5 DEF SubmitValue
  <2>2. Promised(quiet) \in Fates
    BY DEF Promised, Fates
  <2>3. /\ stored' \in Queues /\ isOnline' \in [Pages -> BOOLEAN]
        /\ offlineQueue' \in [Pages -> Queues] /\ sync' \in [Pages -> SyncStates]
        /\ fate' \in [Entries -> Fates]
        /\ \A o \in Pages \ {p} : /\ isOnline'[o] = isOnline[o] /\ sync'[o] = sync[o]
                                  /\ offlineQueue'[o] = offlineQueue[o]
        /\ ~sync'[p].busy => sync'[p] = NoSync
        /\ Len(sync'[p].rest) + Len(sync'[p].failed) <= Cap
    BY <2>1, <2>2, QueueCheckinTyped
  <2>4. TypedVars'
    BY <1>1, <1>2, <2>1, <2>3 DEF TypedVars
  <2>5. \A o \in Pages \ {p} : Untouched(o)
    BY <1>2, <2>1, <2>3 DEF Untouched
  <2>6. PageOK(p)'
    BY <1>2, <2>3 DEF PageOK
  <2>7. QED
    BY <2>4, <2>5, <2>6, OnePageStep DEF OnePage
<1>6. QED
  BY <1>4, <1>5

\* What the closure of a submission is: of the render, or of the scanner.
LEMMA HandleCheckinTyped ==
  ASSUME TypeOK, PageInv, NEW p \in Pages, NEW e \in Typed, HandleCheckin(p, e)
  PROVE  /\ OnePage(p) /\ open[p] /\ scanner' = scanner
         /\ SubmitValue(p, e, isOnline[p], offlineQueue[p], Quiet(p, sent[p]))
<1>1. TypedVars
  BY TypedVarsOK
<1>2. /\ ready[p] /\ scanner' = scanner
      /\ SubmitValue(p, e, isOnline[p], offlineQueue[p], Quiet(p, sent[p]))
  BY DEF HandleCheckin
<1>3. open[p]
  BY <1>2 DEF PageInv, PageOK
<1>4. /\ isOnline[p] \in BOOLEAN /\ offlineQueue[p] \in Queues /\ e \in Entries
      /\ scanner' \in [Pages -> [queue : Queues, online : {"yes", "no", "closed"}]]
  BY <1>1, <1>2 DEF TypedVars, Entries
<1>5. Quiet(p, sent[p]) \in BOOLEAN
  BY DEF Quiet
<1>6. OnePage(p)
  BY <1>2, <1>3, <1>4, <1>5, SubmitTyped
<1>7. QED
  BY <1>2, <1>3, <1>6

LEMMA HandleScannedTyped ==
  ASSUME TypeOK, PageInv, NEW p \in Pages, NEW e \in Scanned, HandleScannedValue(p, e)
  PROVE  /\ OnePage(p) /\ open[p] /\ scanner[p] # NoScanner /\ scanner'[p] = NoScanner
         /\ scanner[p].queue \in Queues
         /\ SubmitValue(p, e, scanner[p].online = "yes", scanner[p].queue, FALSE)
<1>1. TypedVars
  BY TypedVarsOK
<1>2. /\ scanner[p] # NoScanner /\ scanner' = [scanner EXCEPT ![p] = NoScanner]
      /\ SubmitValue(p, e, scanner[p].online = "yes", scanner[p].queue, FALSE)
  BY DEF HandleScannedValue
<1>3. open[p]
  BY <1>2 DEF PageInv, PageOK
<1>4. NoScanner \in [queue : Queues, online : {"yes", "no", "closed"}]
  BY EmptyQueue DEF NoScanner
<1>5. /\ scanner' \in [Pages -> [queue : Queues, online : {"yes", "no", "closed"}]]
      /\ scanner'[p] = NoScanner
      /\ \A o \in Pages \ {p} : scanner'[o] = scanner[o]
  BY <1>1, <1>2, <1>4 DEF TypedVars
<1>6. scanner[p].queue \in Queues /\ e \in Entries
  BY <1>1 DEF TypedVars, Entries
<1>7. (scanner[p].online = "yes") \in BOOLEAN /\ FALSE \in BOOLEAN
  OBVIOUS
<1>8. OnePage(p)
  BY <1>2, <1>3, <1>5, <1>6, <1>7, SubmitTyped
<1>9. QED
  BY <1>2, <1>3, <1>5, <1>6, <1>8

LEMMA ScannerTyped ==
  ASSUME TypeOK, PageInv, NEW p \in Pages, OpenScanner(p) \/ CloseScanner(p)
  PROVE  OnePage(p) /\ stored' = stored /\ fate' = fate
<1>1. TypedVars
  BY TypedVarsOK
<1>2. open[p]
  BY DEF PageInv, PageOK, OpenScanner, CloseScanner
<1>3. PICK c \in [queue : Queues, online : {"yes", "no", "closed"}] : scanner' = [scanner EXCEPT ![p] = c]
  <2>1. CASE OpenScanner(p)
    <3>1. offlineQueue[p] \in Queues /\ isOnline[p] \in BOOLEAN
      BY <1>1 DEF TypedVars
    <3>2. [queue |-> offlineQueue[p], online |-> IF isOnline[p] THEN "yes" ELSE "no"]
            \in [queue : Queues, online : {"yes", "no", "closed"}]
      BY <3>1
    <3>3. QED
      BY <2>1, <3>2 DEF OpenScanner
  <2>2. CASE CloseScanner(p)
    BY <2>2, EmptyQueue DEF CloseScanner, NoScanner
  <2>3. QED
    BY <2>1, <2>2
<1>4. UNCHANGED <<up, stored, open, ready, isOnline, offlineQueue, submitting, sent, sync, fate, flips, opens>>
  BY DEF OpenScanner, CloseScanner
<1>5. TypedVars'
  BY <1>1, <1>3, <1>4 DEF TypedVars
<1>6. \A o \in Pages \ {p} : Untouched(o)
  BY <1>1, <1>3, <1>4 DEF TypedVars, Untouched
<1>7. PageOK(p)'
  BY <1>2, <1>4 DEF PageInv, PageOK
<1>8. QED
  BY <1>4, <1>5, <1>6, <1>7, OnePageStep DEF OnePage

LEMMA RecordedTyped ==
  ASSUME TypeOK, PageInv, NEW p \in Pages, NEW s \in sent[p], Recorded(p, s)
  PROVE  OnePage(p)
<1>1. TypedVars
  BY TypedVarsOK
<1>2. s.entry \in Entries /\ "settled" \in Fates
  BY <1>1 DEF TypedVars, Fates
<1>3. /\ fate' = [fate EXCEPT ![s.entry] = "settled"]
      /\ sent' = [sent EXCEPT ![p] = sent[p] \ {s}] /\ submitting' = [submitting EXCEPT ![p] = FALSE]
      /\ UNCHANGED <<up, open, ready, scanner, flips, opens, stored, isOnline, offlineQueue, sync>>
  BY DEF Recorded, Finished
<1>4. TypedVars'
  BY <1>1, <1>2, <1>3 DEF TypedVars
<1>5. \A o \in Pages \ {p} : Untouched(o)
  BY <1>1, <1>3 DEF TypedVars, Untouched
<1>6. PageOK(p)'
  BY <1>1, <1>3 DEF PageInv, PageOK, TypedVars
<1>7. QED
  BY <1>4, <1>5, <1>6, OnePageStep DEF OnePage

LEMMA FailedTyped ==
  ASSUME TypeOK, PageInv, NEW p \in Pages, NEW s \in sent[p], NEW recorded \in BOOLEAN,
         Failed(p, s, recorded)
  PROVE  /\ OnePage(p) /\ open[p]
         /\ s.entry \in Entries /\ s.queue \in Queues
<1>1. TypedVars
  BY TypedVarsOK
<1>2. s.entry \in Entries /\ s.queue \in Queues /\ "settled" \in Fates
  BY <1>1 DEF TypedVars, Fates
<1>3. /\ sent' = [sent EXCEPT ![p] = sent[p] \ {s}] /\ submitting' = [submitting EXCEPT ![p] = FALSE]
      /\ UNCHANGED <<up, open, ready, scanner, flips, opens>>
  BY DEF Failed, Finished
<1>4. open[p] /\ PageOK(p)
  BY DEF PageInv, PageOK
<1>5. CASE up
  <2>1. fate' = [fate EXCEPT ![s.entry] = "settled"] /\ UNCHANGED <<stored, isOnline, offlineQueue, sync>>
    BY <1>5 DEF Failed
  <2>2. TypedVars'
    BY <1>1, <1>2, <1>3, <2>1 DEF TypedVars
  <2>3. \A o \in Pages \ {p} : Untouched(o)
    BY <1>1, <1>3, <2>1 DEF TypedVars, Untouched
  <2>4. PageOK(p)'
    BY <1>3, <1>4, <2>1 DEF PageOK
  <2>5. QED
    BY <1>2, <1>4, <2>2, <2>3, <2>4, OnePageStep DEF OnePage
<1>6. CASE ~up
  <2> DEFINE f == IF recorded THEN "settled" ELSE Promised(Quiet(p, sent[p] \ {s}))
  <2>1. QueueCheckin(p, s.entry, s.queue, f)
    BY <1>6 DEF Failed
  <2>2. f \in Fates
    BY DEF Promised, Fates
  <2> HIDE DEF f
  <2>3. /\ stored' \in Queues /\ isOnline' \in [Pages -> BOOLEAN]
        /\ offlineQueue' \in [Pages -> Queues] /\ sync' \in [Pages -> SyncStates]
        /\ fate' \in [Entries -> Fates]
        /\ \A o \in Pages \ {p} : /\ isOnline'[o] = isOnline[o] /\ sync'[o] = sync[o]
                                  /\ offlineQueue'[o] = offlineQueue[o]
        /\ ~sync'[p].busy => sync'[p] = NoSync
        /\ Len(sync'[p].rest) + Len(sync'[p].failed) <= Cap
    BY <1>2, <1>4, <2>1, <2>2, QueueCheckinTyped
  <2>4. TypedVars'
    BY <1>1, <1>3, <2>3 DEF TypedVars
  <2>5. \A o \in Pages \ {p} : Untouched(o)
    BY <1>1, <1>3, <2>3 DEF TypedVars, Untouched
  <2>6. PageOK(p)'
    BY <1>3, <1>4, <2>3 DEF PageOK
  <2>7. QED
    BY <1>2, <1>4, <2>4, <2>5, <2>6, OnePageStep DEF OnePage
<1>7. QED
  BY <1>5, <1>6

LEMMA ClickSyncTyped ==
  ASSUME TypeOK, PageInv, NEW p \in Pages, ClickSync(p)
  PROVE  /\ OnePage(p) /\ stored' = stored /\ fate' = fate
         /\ open[p] /\ sync'[p] = StartSync(offlineQueue[p]) /\ offlineQueue[p] \in Queues
<1>1. TypedVars
  BY TypedVarsOK
<1>2. offlineQueue[p] \in Queues
  BY <1>1 DEF TypedVars
<1> DEFINE started == StartSync(offlineQueue[p])
<1>3. started \in SyncStates /\ started.busy = TRUE /\ Len(started.rest) + Len(started.failed) <= Cap
  BY <1>2, StartSyncEffect
<1>4. /\ open[p] /\ sync' = [sync EXCEPT ![p] = started]
      /\ UNCHANGED <<up, stored, open, ready, isOnline, offlineQueue, submitting, scanner, sent, fate, flips, opens>>
  BY DEF ClickSync
<1> HIDE DEF started
<1>5. TypedVars'
  BY <1>1, <1>3, <1>4 DEF TypedVars
<1>6. \A o \in Pages \ {p} : Untouched(o)
  BY <1>1, <1>4 DEF TypedVars, Untouched
<1>7. sync'[p] = started
  BY <1>1, <1>4 DEF TypedVars
<1>8. PageOK(p)'
  BY <1>3, <1>4, <1>7 DEF PageOK
<1>9. OnePage(p)
  BY <1>5, <1>6, <1>8, OnePageStep DEF OnePage
<1>10. QED
  BY <1>2, <1>4, <1>7, <1>9 DEF started

\* While something is left to send or the synchronisation is busy, its page is open.
LEMMA SyncRunning ==
  ASSUME TypeOK, PageInv, NEW p \in Pages, sync[p].busy \/ sync[p].rest # <<>>
  PROVE  /\ open[p] /\ sync[p].busy = TRUE
         /\ sync[p] \in SyncStates /\ sync[p].rest \in Queues /\ sync[p].failed \in Queues
         /\ Len(sync[p].rest) + Len(sync[p].failed) <= Cap
<1>1. sync[p] \in SyncStates
  BY TypedVarsOK DEF TypedVars
<1>2. sync[p].busy = TRUE
  BY <1>1, NoSyncState DEF PageInv, PageOK, SyncStates
<1>3. open[p]
  BY <1>2, NoSyncState DEF PageInv, PageOK
<1>4. QED
  BY <1>1, <1>2, <1>3 DEF PageInv, PageOK, SyncStates

\* Of a entries to send and b failed, one is sent: it is recorded or fails.
LEMMA OneSent ==
  ASSUME NEW a \in Nat, NEW b \in Nat, a > 0, a + b <= Cap
  PROVE  b < Cap /\ (a - 1) + b <= Cap /\ (a - 1) + (b + 1) <= Cap
  BY OfflineQueueAssumption

LEMMA SyncRecordedTyped ==
  ASSUME TypeOK, PageInv, NEW p \in Pages, SyncRecorded(p)
  PROVE  /\ OnePage(p) /\ sync'[p].rest = Tail(sync[p].rest) /\ sync'[p].failed = sync[p].failed
         /\ sync'[p].busy = TRUE
<1>1. TypedVars
  BY TypedVarsOK
<1>2. /\ sync[p].rest # <<>> /\ fate' = [fate EXCEPT ![Head(sync[p].rest)] = "settled"]
      /\ sync' = [sync EXCEPT ![p].rest = Tail(sync[p].rest)]
      /\ UNCHANGED <<up, stored, open, ready, isOnline, offlineQueue, submitting, scanner, sent, flips, opens>>
  BY DEF SyncRecorded
<1>3. /\ open[p] /\ sync[p].busy = TRUE /\ sync[p] \in SyncStates
      /\ sync[p].rest \in Queues /\ sync[p].failed \in Queues
      /\ Len(sync[p].rest) + Len(sync[p].failed) <= Cap
  BY <1>2, SyncRunning
<1>4. /\ Head(sync[p].rest) \in Entries /\ Tail(sync[p].rest) \in Queues
      /\ Len(Tail(sync[p].rest)) = Len(sync[p].rest) - 1 /\ Len(sync[p].rest) > 0
  BY <1>2, <1>3, TakenQueue
<1> DEFINE next == [sync[p] EXCEPT !.rest = Tail(sync[p].rest)]
<1>5. /\ next \in SyncStates /\ next.rest = Tail(sync[p].rest) /\ next.failed = sync[p].failed
      /\ next.busy = TRUE
  BY <1>3, <1>4 DEF SyncStates
<1>6. sync' = [sync EXCEPT ![p] = next]
  BY <1>1, <1>2 DEF TypedVars, SyncStates
<1> HIDE DEF next
<1>7. Len(sync[p].rest) \in Nat /\ Len(sync[p].failed) \in Nat
  BY <1>3, QueueIsSequence
<1>8. Len(next.rest) + Len(next.failed) <= Cap
  <2>1. (Len(sync[p].rest) - 1) + Len(sync[p].failed) <= Cap
    BY <1>3, <1>4, <1>7, OneSent
  <2>2. QED
    BY <1>4, <1>5, <2>1
<1>9. "settled" \in Fates
  BY DEF Fates
<1>10. TypedVars'
  BY <1>1, <1>2, <1>4, <1>5, <1>6, <1>9 DEF TypedVars
<1>11. \A o \in Pages \ {p} : Untouched(o)
  BY <1>1, <1>2, <1>6 DEF TypedVars, Untouched
<1>12. sync'[p] = next
  BY <1>1, <1>6 DEF TypedVars
<1>13. PageOK(p)'
  BY <1>2, <1>3, <1>5, <1>8, <1>12 DEF PageOK
<1>14. QED
  BY <1>5, <1>10, <1>11, <1>12, <1>13, OnePageStep DEF OnePage

LEMMA SyncFailedTyped ==
  ASSUME TypeOK, PageInv, NEW p \in Pages, NEW recorded \in BOOLEAN, SyncFailed(p, recorded)
  PROVE  /\ OnePage(p) /\ sync'[p].rest = Tail(sync[p].rest)
         /\ ToSet(sync'[p].failed) = {Head(sync[p].rest)} \cup ToSet(sync[p].failed)
         /\ sync'[p].busy = TRUE
<1>1. TypedVars
  BY TypedVarsOK
<1> DEFINE head == Head(sync[p].rest)
<1>2. /\ sync[p].rest # <<>> /\ Tried(head, recorded)
      /\ sync' = [sync EXCEPT ![p].rest = Tail(sync[p].rest), ![p].failed = <<head>> \o sync[p].failed]
      /\ UNCHANGED <<up, stored, open, ready, isOnline, offlineQueue, submitting, scanner, sent, flips, opens>>
  BY DEF SyncFailed
<1>3. /\ open[p] /\ sync[p].busy = TRUE /\ sync[p] \in SyncStates
      /\ sync[p].rest \in Queues /\ sync[p].failed \in Queues
      /\ Len(sync[p].rest) + Len(sync[p].failed) <= Cap
  BY <1>2, SyncRunning
<1>4. /\ head \in Entries /\ Tail(sync[p].rest) \in Queues
      /\ Len(Tail(sync[p].rest)) = Len(sync[p].rest) - 1 /\ Len(sync[p].rest) > 0
  BY <1>2, <1>3, TakenQueue
<1> HIDE DEF head
<1>5. Len(sync[p].rest) \in Nat /\ Len(sync[p].failed) \in Nat
  BY <1>3, QueueIsSequence
<1>6. Len(sync[p].failed) < Cap
  BY <1>3, <1>4, <1>5, OneSent
<1>7. /\ <<head>> \o sync[p].failed \in Queues
      /\ Len(<<head>> \o sync[p].failed) = Len(sync[p].failed) + 1
      /\ ToSet(<<head>> \o sync[p].failed) = {head} \cup ToSet(sync[p].failed)
  BY <1>3, <1>4, <1>6, FailedQueue
<1> DEFINE next == [sync[p] EXCEPT !.rest = Tail(sync[p].rest), !.failed = <<head>> \o sync[p].failed]
<1>8. /\ next \in SyncStates /\ next.rest = Tail(sync[p].rest)
      /\ next.failed = <<head>> \o sync[p].failed /\ next.busy = TRUE
  BY <1>3, <1>4, <1>7 DEF SyncStates
<1>9. sync' = [sync EXCEPT ![p] = next]
  BY <1>1, <1>2 DEF TypedVars, SyncStates
<1> HIDE DEF next
<1>10. Len(next.rest) + Len(next.failed) <= Cap
  <2>1. (Len(sync[p].rest) - 1) + (Len(sync[p].failed) + 1) <= Cap
    BY <1>3, <1>4, <1>5, OneSent
  <2>2. QED
    BY <1>4, <1>7, <1>8, <2>1
<1>11. fate' \in [Entries -> Fates]
  <2>1. fate \in [Entries -> Fates] /\ "settled" \in Fates /\ "tried" \in Fates
    BY <1>1 DEF TypedVars, Fates
  <2>2. QED
    BY <1>2, <1>4, <2>1 DEF Tried
<1>12. TypedVars'
  BY <1>1, <1>2, <1>8, <1>9, <1>11 DEF TypedVars
<1>13. \A o \in Pages \ {p} : Untouched(o)
  BY <1>1, <1>2, <1>9 DEF TypedVars, Untouched
<1>14. sync'[p] = next
  BY <1>1, <1>9 DEF TypedVars
<1>15. PageOK(p)'
  BY <1>2, <1>3, <1>8, <1>10, <1>14 DEF PageOK
<1>16. QED
  BY <1>7, <1>8, <1>12, <1>13, <1>14, <1>15, OnePageStep DEF OnePage, head

LEMMA SyncEndTyped ==
  ASSUME TypeOK, PageInv, NEW p \in Pages, SyncEnd(p)
  PROVE  /\ OnePage(p) /\ open[p] /\ stored' = sync[p].failed /\ offlineQueue'[p] = sync[p].failed
         /\ sync[p].failed \in Queues /\ sync'[p] \in {NoSync, StartSync(sync[p].failed)}
<1>1. TypedVars
  BY TypedVarsOK
<1>2. /\ sync[p].busy /\ stored' = sync[p].failed
      /\ Render(p, isOnline[p], sync[p].failed, NoSync)
      /\ UNCHANGED <<up, open, ready, submitting, scanner, sent, fate, flips, opens>>
  BY DEF SyncEnd
<1>3. open[p] /\ sync[p].failed \in Queues /\ isOnline[p] \in BOOLEAN
  BY <1>1, <1>2, SyncRunning DEF TypedVars
<1>4. /\ isOnline' \in [Pages -> BOOLEAN] /\ offlineQueue' \in [Pages -> Queues]
      /\ sync' \in [Pages -> SyncStates] /\ sync'[p] \in {NoSync, StartSync(sync[p].failed)}
      /\ offlineQueue'[p] = sync[p].failed
      /\ \A o \in Pages \ {p} : /\ isOnline'[o] = isOnline[o] /\ sync'[o] = sync[o]
                                /\ offlineQueue'[o] = offlineQueue[o]
  BY <1>2, <1>3, NoSyncState, RenderEffect
<1>5. TypedVars'
  BY <1>1, <1>2, <1>3, <1>4 DEF TypedVars
<1>6. \A o \in Pages \ {p} : Untouched(o)
  BY <1>2, <1>4 DEF Untouched
<1>7. PageOK(p)'
  <2>1. CASE sync'[p] = NoSync
    BY <1>2, <1>3, <2>1, NoSyncState DEF PageOK
  <2>2. CASE sync'[p] = StartSync(sync[p].failed)
    BY <1>2, <1>3, <2>2, StartSyncEffect DEF PageOK
  <2>3. QED
    BY <1>4, <2>1, <2>2
<1>8. QED
  BY <1>2, <1>3, <1>4, <1>5, <1>6, <1>7, OnePageStep DEF OnePage

LEMMA ClearQueueTyped ==
  ASSUME TypeOK, PageInv, NEW p \in Pages, ClearQueue(p)
  PROVE  /\ OnePage(p) /\ open[p] /\ offlineQueue'[p] = <<>>
<1>1. TypedVars
  BY TypedVarsOK
<1>2. /\ offlineQueue[p] # <<>> /\ stored' = <<>> /\ Render(p, isOnline[p], <<>>, sync[p])
      /\ fate' = [e \in Entries |-> IF e \in ToSet(offlineQueue[p]) THEN "settled" ELSE fate[e]]
      /\ UNCHANGED <<up, open, ready, submitting, scanner, sent, flips, opens>>
  BY DEF ClearQueue
<1>3. open[p] /\ PageOK(p)
  BY <1>2 DEF PageInv, PageOK
<1>4. isOnline[p] \in BOOLEAN /\ sync[p] \in SyncStates /\ <<>> \in Queues
  BY <1>1, EmptyQueue DEF TypedVars
<1>5. /\ isOnline' \in [Pages -> BOOLEAN] /\ offlineQueue' \in [Pages -> Queues]
      /\ sync' \in [Pages -> SyncStates] /\ sync'[p] \in {sync[p], StartSync(<<>>)}
      /\ offlineQueue'[p] = <<>>
      /\ \A o \in Pages \ {p} : /\ isOnline'[o] = isOnline[o] /\ sync'[o] = sync[o]
                                /\ offlineQueue'[o] = offlineQueue[o]
  BY <1>2, <1>4, RenderEffect
<1>6. fate' \in [Entries -> Fates]
  BY <1>1, <1>2 DEF TypedVars, Fates
<1>7. TypedVars'
  BY <1>1, <1>2, <1>4, <1>5, <1>6 DEF TypedVars
<1>8. \A o \in Pages \ {p} : Untouched(o)
  BY <1>2, <1>5 DEF Untouched
<1>9. PageOK(p)'
  <2>1. CASE sync'[p] = sync[p]
    BY <1>2, <1>3, <2>1 DEF PageOK
  <2>2. CASE sync'[p] = StartSync(<<>>)
    BY <1>2, <1>3, <1>4, <2>2, StartSyncEffect DEF PageOK
  <2>3. QED
    BY <1>5, <2>1, <2>2
<1>10. QED
  BY <1>3, <1>5, <1>7, <1>8, <1>9, OnePageStep DEF OnePage

LEMMA FlipTyped ==
  ASSUME TypeOK, PageInv, Flip
  PROVE  TypeOK' /\ PageInv' /\ (\A p \in Pages : Untouched(p)) /\ stored' = stored /\ fate' = fate
<1>1. flips + 1 \in 0 .. MaxFlips
  BY OfflineQueueAssumption DEF TypeOK, Flip
<1>2. UNCHANGED <<stored, open, ready, isOnline, offlineQueue, submitting, scanner, sent, sync, fate, opens>>
  BY DEF Flip
<1>3. TypeOK'
  BY <1>1, <1>2 DEF TypeOK, Flip
<1>4. PageInv'
  BY <1>2 DEF PageInv, PageOK
<1>5. QED
  BY <1>2, <1>3, <1>4 DEF Untouched

LEMMA PageTyped ==
  ASSUME TypeOK, PageInv, NEW p \in Pages, Page(p)
  PROVE  OnePage(p)
<1>1. CASE Open(p) \/ Close(p) \/ Notice(p)
  BY <1>1, OpenTyped, CloseTyped, NoticeTyped
<1>2. CASE \/ \E e \in Typed : HandleCheckin(p, e)
           \/ \E e \in Scanned : HandleScannedValue(p, e)
  BY <1>2, HandleCheckinTyped, HandleScannedTyped
<1>3. CASE OpenScanner(p) \/ CloseScanner(p)
  BY <1>3, ScannerTyped
<1>4. CASE \E s \in sent[p] : Recorded(p, s) \/ \E recorded \in BOOLEAN : Failed(p, s, recorded)
  BY <1>4, RecordedTyped, FailedTyped
<1>5. CASE ClickSync(p) \/ SyncRecorded(p) \/ SyncEnd(p) \/ ClearQueue(p)
  BY <1>5, ClickSyncTyped, SyncRecordedTyped, SyncEndTyped, ClearQueueTyped
<1>6. CASE \E recorded \in BOOLEAN : SyncFailed(p, recorded)
  BY <1>6, SyncFailedTyped
<1>7. QED
  BY <1>1, <1>2, <1>3, <1>4, <1>5, <1>6 DEF Page

LEMMA InitTyped == Init => TypeOK /\ PageInv
<1> SUFFICES ASSUME Init PROVE TypeOK /\ PageInv
  OBVIOUS
<1>1. <<>> \in Queues /\ NoSync \in SyncStates
  BY EmptyQueue, NoSyncState
<1>2. NoScanner \in [queue : Queues, online : {"yes", "no", "closed"}]
  BY <1>1 DEF NoScanner
<1>3. 0 \in 0 .. MaxFlips /\ 0 \in 0 .. MaxOpens
  BY OfflineQueueAssumption
<1>4. TypeOK
  BY <1>1, <1>2, <1>3 DEF Init, TypeOK, Fates, SyncStates
<1>5. PageInv
  BY NoSyncState DEF Init, PageInv, PageOK
<1>6. QED
  BY <1>4, <1>5

LEMMA StepTyped == TypeOK /\ PageInv /\ [Next]_vars => TypeOK' /\ PageInv'
<1> SUFFICES ASSUME TypeOK, PageInv, [Next]_vars PROVE TypeOK' /\ PageInv'
  OBVIOUS
<1>1. CASE Flip
  BY <1>1, FlipTyped
<1>2. CASE \E p \in Pages : Page(p)
  BY <1>2, PageTyped DEF OnePage
<1>3. CASE UNCHANGED vars
  BY <1>3 DEF vars, TypeOK, PageInv, PageOK
<1>4. QED
  BY <1>1, <1>2, <1>3 DEF Next

\* The typing of the page, with what holds between its queue, its synchronisation
\* and its closures: only an open page has any, and what syncQueue still has to
\* send and what failed are together no more than the Cap entries it started with.
THEOREM TypeCorrect == Spec => [](TypeOK /\ PageInv)
<1>1. QED
  BY InitTyped, StepTyped, PTL DEF Spec

-----------------------------------------------------------------------------
(* Where an entry that must not be lost is: in the copy in localStorage and  *)
(* in everything that may later replace it.                                  *)

Kept(e) == fate[e] \in {"promised", "tried"}

\* Page p has e in its queue and in every closure that can write the queue back.
Holds(p, e) ==
  /\ open[p] => e \in ToSet(offlineQueue[p])
  /\ scanner[p] # NoScanner => e \in ToSet(scanner[p].queue)
  /\ \A s \in sent[p] : e \in ToSet(s.queue)
  /\ sync[p].busy => e \in ToSet(sync[p].rest) \cup ToSet(sync[p].failed)

HeldInv ==
  \A e \in Entries : Kept(e) => e \in ToSet(stored) /\ \A p \in Pages : Holds(p, e)

\* What page p could not send has been tried; online and with nothing under way it
\* has something that was tried, or was queued in an overlap.
TriedOK(p) ==
  /\ \A e \in ToSet(sync[p].failed) : fate[e] # "promised"
  /\ open[p] /\ isOnline[p] /\ Waiting(p) => \E e \in ToSet(offlineQueue[p]) : fate[e] # "promised"

TriedInv == \A p \in Pages : TriedOK(p)

\* A step of page p keeps HeldInv if it does for the copies of p, as long as no
\* other entry comes to be kept.
LEMMA OnePageHeld ==
  ASSUME HeldInv, NEW p \in Pages, \A o \in Pages \ {p} : Untouched(o),
         \A e \in Entries : Kept(e)' => Kept(e) /\ e \in ToSet(stored') /\ Holds(p, e)'
  PROVE  HeldInv'
<1>1. ASSUME NEW e \in Entries, Kept(e)', NEW o \in Pages
      PROVE  Holds(o, e)'
  <2>1. CASE o = p
    BY <1>1, <2>1
  <2>2. CASE o # p
    BY <1>1, <2>2 DEF HeldInv, Holds, Untouched
  <2>3. QED
    BY <2>1, <2>2
<1>2. QED
  BY <1>1 DEF HeldInv

\* The same for TriedInv, as long as no other entry is promised.
LEMMA OnePageTried ==
  ASSUME TriedInv, NEW p \in Pages, \A o \in Pages \ {p} : Untouched(o),
         TypeOK, \A e \in Entries : fate'[e] = "promised" => fate[e] = "promised",
         TriedOK(p)'
  PROVE  TriedInv'
<1>1. ASSUME NEW o \in Pages, o # p
      PROVE  TriedOK(o)'
  <2>1. Untouched(o) /\ TriedOK(o)
    BY <1>1 DEF TriedInv
  <2>2. sync[o].failed \in Queues /\ offlineQueue[o] \in Queues
    BY DEF TypeOK
  <2>3. ToSet(sync[o].failed) \subseteq Entries /\ ToSet(offlineQueue[o]) \subseteq Entries
    BY <2>2, QueueEntries
  <2>4. QED
    BY <2>1, <2>3 DEF TriedOK, Waiting, Untouched
<1>2. QED
  BY <1>1 DEF TriedInv

LEMMA OpenHeld ==
  ASSUME TypeOK, PageInv, HeldInv, TriedInv, NEW p \in Pages, Open(p)
  PROVE  HeldInv' /\ TriedInv'
<1>1. OnePage(p) /\ stored' = stored /\ fate' = fate
  BY OpenTyped
<1>2. /\ ~open[p] /\ Render(p, up, stored, NoSync) /\ sent' = sent /\ scanner' = scanner
      /\ up \in BOOLEAN /\ stored \in Queues
  BY DEF Open, TypeOK
<1>3. /\ isOnline'[p] = up /\ offlineQueue'[p] = stored /\ sync'[p] \in {NoSync, StartSync(stored)}
      /\ Len(stored) # Len(offlineQueue[p]) /\ up /\ stored # <<>> => sync'[p].busy
  BY <1>2, NoSyncState, RenderEffect
<1>4. /\ offlineQueue[p] = <<>> /\ sent[p] = {} /\ scanner[p] = NoScanner
  BY <1>2 DEF PageInv, PageOK
<1>5. stored # <<>> => Len(stored) # Len(offlineQueue[p])
  BY <1>2, <1>4, TakenQueue, EmptyQueue
<1>6. ToSet(sync'[p].failed) = {} /\ (sync'[p].busy => ToSet(sync'[p].rest) = ToSet(stored))
  BY <1>2, <1>3, StartSyncEffect, NoSyncState, EmptyQueue
<1>7. \A e \in Entries : Kept(e)' => Kept(e) /\ e \in ToSet(stored') /\ Holds(p, e)'
  BY <1>1, <1>2, <1>3, <1>4, <1>6 DEF HeldInv, Kept, Holds
<1>8. TriedOK(p)'
  BY <1>3, <1>5, <1>6 DEF TriedOK, Waiting
<1>9. QED
  BY <1>1, <1>7, <1>8, OnePageHeld, OnePageTried DEF OnePage

LEMMA CloseHeld ==
  ASSUME TypeOK, PageInv, HeldInv, TriedInv, NEW p \in Pages, Close(p)
  PROVE  HeldInv' /\ TriedInv'
<1>1. OnePage(p) /\ stored' = stored /\ fate' = fate
  BY CloseTyped
<1>2. ~open'[p] /\ sent'[p] = {} /\ scanner'[p] = NoScanner /\ sync'[p] = NoSync
  BY DEF Close, TypeOK
<1>3. \A e \in Entries : Kept(e)' => Kept(e) /\ e \in ToSet(stored') /\ Holds(p, e)'
  BY <1>1, <1>2, NoSyncState DEF HeldInv, Kept, Holds
<1>4. TriedOK(p)'
  BY <1>2, NoSyncState, EmptyQueue DEF TriedOK
<1>5. QED
  BY <1>1, <1>3, <1>4, OnePageHeld, OnePageTried DEF OnePage

LEMMA NoticeHeld ==
  ASSUME TypeOK, PageInv, HeldInv, TriedInv, NEW p \in Pages, Notice(p)
  PROVE  HeldInv' /\ TriedInv'
<1>1. OnePage(p) /\ stored' = stored /\ fate' = fate
  BY NoticeTyped
<1>2. /\ open[p] /\ isOnline[p] # up /\ Render(p, up, offlineQueue[p], sync[p])
      /\ open' = open /\ sent' = sent /\ scanner' = scanner
  BY DEF Notice
<1>3. up \in BOOLEAN /\ offlineQueue[p] \in Queues /\ sync[p] \in SyncStates
  BY TypedVarsOK DEF TypedVars
<1>4. /\ isOnline'[p] = up /\ offlineQueue'[p] = offlineQueue[p]
      /\ sync'[p] \in {sync[p], StartSync(offlineQueue[p])}
      /\ up /\ offlineQueue[p] # <<>> => sync'[p].busy
  BY <1>2, <1>3, RenderEffect
<1>5. /\ ToSet(StartSync(offlineQueue[p]).failed) = {}
      /\ ToSet(StartSync(offlineQueue[p]).rest) = ToSet(offlineQueue[p])
  BY <1>3, StartSyncEffect, EmptyQueue
<1>6. ASSUME NEW e \in Entries, Kept(e)'
      PROVE  Kept(e) /\ e \in ToSet(stored') /\ Holds(p, e)'
  <2>1. Kept(e) /\ e \in ToSet(stored') /\ Holds(p, e)
    BY <1>1, <1>6 DEF HeldInv, Kept
  <2>2. sync'[p].busy => e \in ToSet(sync'[p].rest) \cup ToSet(sync'[p].failed)
    BY <1>2, <1>4, <1>5, <2>1 DEF Holds
  <2>3. QED
    BY <1>2, <1>4, <2>1, <2>2 DEF Holds
<1>7. TriedOK(p)'
  <2>1. \A e \in ToSet(sync'[p].failed) : fate'[e] # "promised"
    BY <1>1, <1>4, <1>5 DEF TriedInv, TriedOK
  <2>2. QED
    BY <1>4, <2>1 DEF TriedOK, Waiting
<1>8. QED
  BY <1>1, <1>6, <1>7, OnePageHeld, OnePageTried DEF OnePage

\* A queue entered offline: the kept entries of its closure are in the new queue,
\* and the new entry is promised only if no older queue is held anywhere.
LEMMA QueueCheckinHeld ==
  ASSUME TypeOK, PageInv, HeldInv, TriedInv, NEW p \in Pages, OnePage(p), open[p],
         NEW e \in Entries, NEW q \in Queues, NEW f \in Fates, QueueCheckin(p, e, q, f),
         open' = open, sent'[p] \subseteq sent[p], scanner'[p] \in {scanner[p], NoScanner},
         \A x \in Entries : Kept(x) => x \in ToSet(q),
         f # "tried",
         f = "promised" => /\ sent'[p] = {} /\ scanner'[p] = NoScanner /\ ~sync[p].busy
                           /\ ~isOnline[p] /\ \A o \in Pages \ {p} : ~open[o]
  PROVE  HeldInv' /\ TriedInv'
<1>1. /\ stored' = Queued(e, q) /\ isOnline'[p] = isOnline[p] /\ offlineQueue'[p] = stored'
      /\ sync'[p] \in {sync[p], StartSync(stored')} /\ stored' \in Queues
      /\ sync[p].busy => sync'[p] = sync[p]
  BY QueueCheckinTyped
<1>2. /\ fate'[e] = f
      /\ \A x \in Entries \ {e} : fate'[x] = fate[x] \/ fate'[x] = "excused"
      /\ \A x \in Entries \ {e} :
           x \in ToSet(q) /\ x \notin ToSet(stored') => fate'[x] \in {"settled", "excused"}
  BY <1>1, QueueCheckinEffect
<1>3. e \in ToSet(stored')
  BY <1>1, QueuedQueue
<1>4. /\ ToSet(StartSync(stored').failed) = {}
      /\ ToSet(StartSync(stored').rest) = ToSet(stored')
  BY <1>1, StartSyncEffect, EmptyQueue
<1>5. \A o \in Pages \ {p} : Untouched(o)
  BY DEF OnePage
<1>6. ASSUME NEW x \in Entries, x # e, Kept(x)'
      PROVE  Kept(x) /\ x \in ToSet(stored') /\ Holds(p, x)'
  <2>1. Kept(x)
    BY <1>2, <1>6 DEF Kept
  <2>2. x \in ToSet(stored')
    BY <1>2, <1>6, <2>1 DEF Kept
  <2>3. Holds(p, x)
    BY <2>1 DEF HeldInv
  <2>4. sync'[p].busy => x \in ToSet(sync'[p].rest) \cup ToSet(sync'[p].failed)
    BY <1>1, <1>4, <2>2, <2>3 DEF Holds
  <2>5. QED
    BY <1>1, <2>1, <2>2, <2>3, <2>4 DEF Holds
<1>7. CASE f = "promised"
  <2>1. \A o \in Pages \ {p} : /\ ~open[o] /\ sent[o] = {} /\ scanner[o] = NoScanner
                               /\ sync[o] = NoSync
    BY <1>7 DEF PageInv, PageOK
  <2>2. ASSUME NEW x \in Entries, NEW o \in Pages \ {p}
        PROVE  Holds(o, x)' /\ TriedOK(o)'
    BY <1>5, <2>1, NoSyncState, EmptyQueue DEF Untouched, Holds, TriedOK
  <2>3. Holds(p, e)'
    <3>1. sync'[p].busy => e \in ToSet(sync'[p].rest) \cup ToSet(sync'[p].failed)
      BY <1>1, <1>3, <1>4, <1>7
    <3>2. QED
      BY <1>1, <1>3, <1>7, <3>1 DEF Holds
  <2>4. HeldInv'
    BY <1>3, <1>6, <2>2, <2>3 DEF HeldInv
  <2>5. TriedOK(p)'
    <3>1. sync[p] = NoSync /\ ~isOnline'[p]
      BY <1>1, <1>7 DEF PageInv, PageOK
    <3>2. ToSet(sync'[p].failed) = {}
      BY <1>1, <1>4, <3>1, NoSyncState, EmptyQueue
    <3>3. QED
      BY <3>1, <3>2 DEF TriedOK
  <2>6. \A o \in Pages \ {p} : TriedOK(o)'
    BY <2>2
  <2>7. QED
    BY <2>4, <2>5, <2>6 DEF TriedInv
<1>8. CASE f # "promised"
  <2>1. ~Kept(e)'
    BY <1>2, <1>8 DEF Kept
  <2>2. HeldInv'
    BY <1>5, <1>6, <2>1, OnePageHeld
  <2>3. \A x \in Entries : fate'[x] = "promised" => fate[x] = "promised"
    BY <1>2, <1>8
  <2>4. TriedOK(p)'
    <3>1. \A x \in ToSet(sync'[p].failed) : fate'[x] # "promised"
      <4>1. CASE sync'[p] = sync[p]
        <5>1. sync[p].failed \in Queues
          BY DEF TypeOK
        <5>2. ToSet(sync[p].failed) \subseteq Entries
          BY <5>1, QueueEntries
        <5>3. QED
          BY <2>3, <4>1, <5>2 DEF TriedInv, TriedOK
      <4>2. CASE sync'[p] = StartSync(stored')
        BY <1>4, <4>2
      <4>3. QED
        BY <1>1, <4>1, <4>2
    <3>2. fate'[e] # "promised" /\ e \in ToSet(offlineQueue'[p])
      BY <1>1, <1>2, <1>3, <1>8
    <3>3. QED
      BY <3>1, <3>2 DEF TriedOK
  <2>5. QED
    BY <1>5, <2>2, <2>3, <2>4, OnePageTried
<1>9. QED
  BY <1>7, <1>8

\* A submission with the closure's queue q: sent with it, or queued.
LEMMA SubmitHeld ==
  ASSUME TypeOK, PageInv, HeldInv, TriedInv, NEW p \in Pages, OnePage(p), open[p],
         NEW e \in Entries, NEW online \in BOOLEAN, NEW q \in Queues, NEW quiet \in BOOLEAN,
         SubmitValue(p, e, online, q, quiet), scanner'[p] \in {scanner[p], NoScanner},
         \A x \in Entries : Kept(x) => x \in ToSet(q),
         quiet /\ ~online => Quiet(p, sent[p]) /\ ~isOnline[p]
  PROVE  HeldInv' /\ TriedInv'
<1>1. open' = open /\ fate[e] = "new"
  BY DEF SubmitValue
<1>2. CASE online
  <2>1. /\ sent' = [sent EXCEPT ![p] = sent[p] \cup {[entry |-> e, queue |-> q]}]
        /\ fate' = [fate EXCEPT ![e] = "sent"]
        /\ UNCHANGED <<stored, isOnline, offlineQueue, sync>>
    BY <1>2 DEF SubmitValue
  <2>2. sent'[p] = sent[p] \cup {[entry |-> e, queue |-> q]} /\ fate'[e] = "sent"
        /\ \A x \in Entries \ {e} : fate'[x] = fate[x]
    BY <2>1 DEF TypeOK
  <2>3. \A x \in Entries : Kept(x)' => Kept(x) /\ x \in ToSet(stored') /\ Holds(p, x)'
    <3>1. SUFFICES ASSUME NEW x \in Entries, Kept(x)'
                   PROVE  Kept(x) /\ x \in ToSet(stored') /\ Holds(p, x)'
      OBVIOUS
    <3>2. Kept(x)
      BY <2>2, <3>1 DEF Kept
    <3>3. Holds(p, x) /\ x \in ToSet(stored) /\ x \in ToSet(q)
      BY <3>2 DEF HeldInv
    <3>4. \A s \in sent'[p] : x \in ToSet(s.queue)
      BY <2>2, <3>3 DEF Holds
    <3>5. scanner'[p] # NoScanner => x \in ToSet(scanner'[p].queue)
      BY <3>3 DEF Holds
    <3>6. QED
      BY <1>1, <2>1, <3>2, <3>3, <3>4, <3>5 DEF Holds
  <2>4. \A x \in Entries : fate'[x] = "promised" => fate[x] = "promised"
    BY <2>2
  <2>5. TriedOK(p)'
    <3>1. ToSet(sync[p].failed) \subseteq Entries /\ ToSet(offlineQueue[p]) \subseteq Entries
      BY QueueEntries DEF TypeOK
    <3>2. QED
      BY <1>1, <2>1, <2>4, <3>1 DEF TriedInv, TriedOK, Waiting
  <2>6. QED
    BY <2>3, <2>4, <2>5, OnePageHeld, OnePageTried DEF OnePage
<1>3. CASE ~online
  <2>1. QueueCheckin(p, e, q, Promised(quiet)) /\ sent' = sent
    BY <1>3 DEF SubmitValue
  <2>2. Promised(quiet) \in Fates /\ Promised(quiet) # "tried"
    BY DEF Promised, Fates
  <2>3. ASSUME Promised(quiet) = "promised"
        PROVE  /\ sent'[p] = {} /\ scanner'[p] = NoScanner /\ ~sync[p].busy
               /\ ~isOnline[p] /\ \A o \in Pages \ {p} : ~open[o]
    <3>1. quiet
      BY <2>3 DEF Promised
    <3>2. Quiet(p, sent[p]) /\ ~isOnline[p]
      BY <1>3, <3>1
    <3>3. QED
      BY <2>1, <3>2 DEF Quiet
  <2>4. QED
    BY <1>1, <2>1, <2>2, <2>3, QueueCheckinHeld
<1>4. QED
  BY <1>2, <1>3

LEMMA HandleCheckinHeld ==
  ASSUME TypeOK, PageInv, HeldInv, TriedInv, NEW p \in Pages, NEW e \in Typed, HandleCheckin(p, e)
  PROVE  HeldInv' /\ TriedInv'
<1>1. /\ OnePage(p) /\ open[p] /\ scanner' = scanner
      /\ SubmitValue(p, e, isOnline[p], offlineQueue[p], Quiet(p, sent[p]))
  BY HandleCheckinTyped
<1>2. /\ isOnline[p] \in BOOLEAN /\ offlineQueue[p] \in Queues /\ e \in Entries
      /\ Quiet(p, sent[p]) \in BOOLEAN
  BY DEF TypeOK, Entries, Quiet
<1>3. \A x \in Entries : Kept(x) => x \in ToSet(offlineQueue[p])
  BY <1>1 DEF HeldInv, Holds
<1>4. QED
  BY <1>1, <1>2, <1>3, SubmitHeld

LEMMA HandleScannedHeld ==
  ASSUME TypeOK, PageInv, HeldInv, TriedInv, NEW p \in Pages, NEW e \in Scanned,
         HandleScannedValue(p, e)
  PROVE  HeldInv' /\ TriedInv'
<1>1. /\ OnePage(p) /\ open[p] /\ scanner[p] # NoScanner /\ scanner'[p] = NoScanner
      /\ scanner[p].queue \in Queues
      /\ SubmitValue(p, e, scanner[p].online = "yes", scanner[p].queue, FALSE)
  BY HandleScannedTyped
<1>2. e \in Entries /\ (scanner[p].online = "yes") \in BOOLEAN
  BY DEF Entries
<1>3. \A x \in Entries : Kept(x) => x \in ToSet(scanner[p].queue)
  BY <1>1 DEF HeldInv, Holds
<1>4. QED
  BY <1>1, <1>2, <1>3, SubmitHeld

\* The scanner takes the queue of the render it is opened in.
LEMMA ScannerHeld ==
  ASSUME TypeOK, PageInv, HeldInv, TriedInv, NEW p \in Pages, OpenScanner(p) \/ CloseScanner(p)
  PROVE  HeldInv' /\ TriedInv'
<1>1. OnePage(p) /\ stored' = stored /\ fate' = fate
  BY ScannerTyped
<1>2. UNCHANGED <<open, isOnline, offlineQueue, sent, sync>>
  BY DEF OpenScanner, CloseScanner
<1>3. open[p]
  BY DEF OpenScanner, CloseScanner, PageInv, PageOK
<1>4. scanner'[p] = NoScanner \/ scanner'[p].queue = offlineQueue[p]
  BY DEF OpenScanner, CloseScanner, TypeOK
<1>5. \A e \in Entries : Kept(e)' => Kept(e) /\ e \in ToSet(stored') /\ Holds(p, e)'
  BY <1>1, <1>2, <1>3, <1>4 DEF HeldInv, Kept, Holds
<1>6. TriedOK(p)'
  BY <1>1, <1>2 DEF TriedInv, TriedOK, Waiting
<1>7. QED
  BY <1>1, <1>5, <1>6, OnePageHeld, OnePageTried DEF OnePage

\* A check-in ends without being queued, recorded or refused.
LEMMA SettledHeld ==
  ASSUME TypeOK, PageInv, HeldInv, TriedInv, NEW p \in Pages, OnePage(p), NEW e \in Entries,
         fate' = [fate EXCEPT ![e] = "settled"], sent'[p] \subseteq sent[p],
         UNCHANGED <<stored, open, isOnline, offlineQueue, sync, scanner>>
  PROVE  HeldInv' /\ TriedInv'
<1>1. fate'[e] = "settled" /\ \A x \in Entries \ {e} : fate'[x] = fate[x]
  BY DEF TypeOK
<1>2. \A x \in Entries : Kept(x)' => Kept(x) /\ x \in ToSet(stored') /\ Holds(p, x)'
  BY <1>1 DEF HeldInv, Kept, Holds
<1>3. \A x \in Entries : fate'[x] = "promised" => fate[x] = "promised"
  BY <1>1
<1>4. ToSet(sync[p].failed) \subseteq Entries /\ ToSet(offlineQueue[p]) \subseteq Entries
  BY QueueEntries DEF TypeOK
<1>5. TriedOK(p)'
  BY <1>3, <1>4 DEF TriedInv, TriedOK, Waiting
<1>6. QED
  BY <1>2, <1>3, <1>5, OnePageHeld, OnePageTried DEF OnePage

LEMMA RecordedHeld ==
  ASSUME TypeOK, PageInv, HeldInv, TriedInv, NEW p \in Pages, NEW s \in sent[p], Recorded(p, s)
  PROVE  HeldInv' /\ TriedInv'
<1>1. OnePage(p)
  BY RecordedTyped
<1>2. s.entry \in Entries /\ sent'[p] \subseteq sent[p]
  BY DEF TypeOK, Recorded, Finished
<1>3. /\ fate' = [fate EXCEPT ![s.entry] = "settled"]
      /\ UNCHANGED <<stored, open, isOnline, offlineQueue, sync, scanner>>
  BY DEF Recorded, Finished
<1>4. QED
  BY <1>1, <1>2, <1>3, SettledHeld

LEMMA FailedHeld ==
  ASSUME TypeOK, PageInv, HeldInv, TriedInv, NEW p \in Pages, NEW s \in sent[p],
         NEW recorded \in BOOLEAN, Failed(p, s, recorded)
  PROVE  HeldInv' /\ TriedInv'
<1>1. OnePage(p) /\ open[p] /\ s.entry \in Entries /\ s.queue \in Queues
  BY FailedTyped
<1>2. sent'[p] = sent[p] \ {s} /\ open' = open /\ scanner' = scanner
  BY DEF TypeOK, Failed, Finished
<1>3. CASE up
  <2>1. fate' = [fate EXCEPT ![s.entry] = "settled"] /\ UNCHANGED <<stored, isOnline, offlineQueue, sync>>
    BY <1>3 DEF Failed
  <2>2. QED
    BY <1>1, <1>2, <2>1, SettledHeld
<1>4. CASE ~up
  <2> DEFINE f == IF recorded THEN "settled" ELSE Promised(Quiet(p, sent[p] \ {s}))
  <2>1. QueueCheckin(p, s.entry, s.queue, f)
    BY <1>4 DEF Failed
  <2>2. f \in Fates /\ f # "tried"
    BY DEF Promised, Fates
  <2>3. f = "promised" => Quiet(p, sent[p] \ {s})
    BY DEF Promised
  <2> HIDE DEF f
  <2>4. ASSUME f = "promised"
        PROVE  /\ sent'[p] = {} /\ scanner'[p] = NoScanner /\ ~sync[p].busy
               /\ ~isOnline[p] /\ \A o \in Pages \ {p} : ~open[o]
    BY <1>2, <1>4, <2>3, <2>4 DEF Quiet
  <2>5. \A x \in Entries : Kept(x) => x \in ToSet(s.queue)
    BY DEF HeldInv, Holds
  <2>6. QED
    BY <1>1, <1>2, <2>1, <2>2, <2>4, <2>5, QueueCheckinHeld
<1>5. QED
  BY <1>3, <1>4

LEMMA ClickSyncHeld ==
  ASSUME TypeOK, PageInv, HeldInv, TriedInv, NEW p \in Pages, ClickSync(p)
  PROVE  HeldInv' /\ TriedInv'
<1>1. /\ OnePage(p) /\ stored' = stored /\ fate' = fate
      /\ open[p] /\ sync'[p] = StartSync(offlineQueue[p]) /\ offlineQueue[p] \in Queues
  BY ClickSyncTyped
<1>2. UNCHANGED <<open, isOnline, offlineQueue, sent, scanner>>
  BY DEF ClickSync
<1>3. /\ sync'[p].busy = TRUE /\ ToSet(sync'[p].failed) = {}
      /\ ToSet(sync'[p].rest) = ToSet(offlineQueue[p])
  BY <1>1, StartSyncEffect, EmptyQueue
<1>4. \A e \in Entries : Kept(e)' => Kept(e) /\ e \in ToSet(stored') /\ Holds(p, e)'
  BY <1>1, <1>2, <1>3 DEF HeldInv, Kept, Holds
<1>5. TriedOK(p)'
  BY <1>3 DEF TriedOK, Waiting
<1>6. QED
  BY <1>1, <1>4, <1>5, OnePageHeld, OnePageTried DEF OnePage

\* syncQueue takes one entry: it is settled, or counts among the failed ones.
LEMMA SyncRecordedHeld ==
  ASSUME TypeOK, PageInv, HeldInv, TriedInv, NEW p \in Pages, SyncRecorded(p)
  PROVE  HeldInv' /\ TriedInv'
<1>1. /\ OnePage(p) /\ sync'[p].rest = Tail(sync[p].rest) /\ sync'[p].failed = sync[p].failed
      /\ sync'[p].busy = TRUE
  BY SyncRecordedTyped
<1> DEFINE head == Head(sync[p].rest)
<1>2. /\ sync[p].rest # <<>> /\ fate' = [fate EXCEPT ![head] = "settled"]
      /\ UNCHANGED <<stored, open, isOnline, offlineQueue, sent, scanner>>
  BY DEF SyncRecorded
<1>3. /\ sync[p].busy = TRUE /\ sync[p].rest \in Queues /\ sync[p].failed \in Queues
  BY <1>2, SyncRunning
<1>4. head \in Entries /\ ToSet(sync[p].rest) = {head} \cup ToSet(Tail(sync[p].rest))
  BY <1>2, <1>3, TakenQueue
<1> HIDE DEF head
<1>5. fate'[head] = "settled" /\ \A x \in Entries \ {head} : fate'[x] = fate[x]
  BY <1>2, <1>4 DEF TypeOK
<1>6. ASSUME NEW x \in Entries, Kept(x)'
      PROVE  Kept(x) /\ x \in ToSet(stored') /\ Holds(p, x)'
  <2>1. Kept(x) /\ x # head
    BY <1>5, <1>6 DEF Kept
  <2>2. Holds(p, x) /\ x \in ToSet(stored)
    BY <2>1 DEF HeldInv
  <2>3. x \in ToSet(sync'[p].rest) \cup ToSet(sync'[p].failed)
    BY <1>1, <1>3, <1>4, <2>1, <2>2 DEF Holds
  <2>4. QED
    BY <1>2, <2>1, <2>2, <2>3 DEF Holds
<1>7. \A x \in Entries : fate'[x] = "promised" => fate[x] = "promised"
  BY <1>5
<1>8. TriedOK(p)'
  <2>1. ToSet(sync[p].failed) \subseteq Entries
    BY <1>3, QueueEntries
  <2>2. QED
    BY <1>1, <1>7, <2>1 DEF TriedInv, TriedOK, Waiting
<1>9. QED
  BY <1>1, <1>6, <1>7, <1>8, OnePageHeld, OnePageTried DEF OnePage

LEMMA SyncFailedHeld ==
  ASSUME TypeOK, PageInv, HeldInv, TriedInv, NEW p \in Pages, NEW recorded \in BOOLEAN,
         SyncFailed(p, recorded)
  PROVE  HeldInv' /\ TriedInv'
<1> DEFINE head == Head(sync[p].rest)
<1>1. /\ OnePage(p) /\ sync'[p].rest = Tail(sync[p].rest)
      /\ ToSet(sync'[p].failed) = {head} \cup ToSet(sync[p].failed)
      /\ sync'[p].busy = TRUE
  BY SyncFailedTyped
<1>2. /\ sync[p].rest # <<>> /\ Tried(head, recorded)
      /\ UNCHANGED <<stored, open, isOnline, offlineQueue, sent, scanner>>
  BY DEF SyncFailed
<1>3. /\ sync[p].busy = TRUE /\ sync[p].rest \in Queues /\ sync[p].failed \in Queues
  BY <1>2, SyncRunning
<1>4. head \in Entries /\ ToSet(sync[p].rest) = {head} \cup ToSet(Tail(sync[p].rest))
  BY <1>2, <1>3, TakenQueue
<1> HIDE DEF head
<1>5. /\ fate'[head] # "promised" /\ (fate'[head] = "tried" => Kept(head))
      /\ \A x \in Entries \ {head} : fate'[x] = fate[x]
  BY <1>2, <1>4 DEF TypeOK, Tried, Kept
<1>6. ASSUME NEW x \in Entries, Kept(x)'
      PROVE  Kept(x) /\ x \in ToSet(stored') /\ Holds(p, x)'
  <2>1. Kept(x)
    BY <1>5, <1>6 DEF Kept
  <2>2. Holds(p, x) /\ x \in ToSet(stored)
    BY <2>1 DEF HeldInv
  <2>3. x \in ToSet(sync'[p].rest) \cup ToSet(sync'[p].failed)
    BY <1>1, <1>3, <1>4, <2>2 DEF Holds
  <2>4. QED
    BY <1>2, <2>1, <2>2, <2>3 DEF Holds
<1>7. \A x \in Entries : fate'[x] = "promised" => fate[x] = "promised"
  BY <1>5
<1>8. TriedOK(p)'
  <2>1. ToSet(sync[p].failed) \subseteq Entries
    BY <1>3, QueueEntries
  <2>2. QED
    BY <1>1, <1>5, <1>7, <2>1 DEF TriedInv, TriedOK, Waiting
<1>9. QED
  BY <1>1, <1>6, <1>7, <1>8, OnePageHeld, OnePageTried DEF OnePage

\* With nothing left to send every kept entry is among the failed ones.
LEMMA SyncEndHeld ==
  ASSUME TypeOK, PageInv, HeldInv, TriedInv, NEW p \in Pages, SyncEnd(p)
  PROVE  HeldInv' /\ TriedInv'
<1>1. /\ OnePage(p) /\ open[p] /\ stored' = sync[p].failed /\ offlineQueue'[p] = sync[p].failed
      /\ sync[p].failed \in Queues /\ sync'[p] \in {NoSync, StartSync(sync[p].failed)}
  BY SyncEndTyped
<1>2. /\ sync[p].busy /\ sync[p].rest = <<>>
      /\ UNCHANGED <<open, scanner, sent, fate>>
  BY DEF SyncEnd
<1>3. /\ sync'[p].busy => ToSet(sync'[p].rest) = ToSet(sync[p].failed)
      /\ ToSet(sync'[p].failed) = {}
  BY <1>1, StartSyncEffect, NoSyncState, EmptyQueue
<1>4. ASSUME NEW e \in Entries, Kept(e)'
      PROVE  Kept(e) /\ e \in ToSet(stored') /\ Holds(p, e)'
  <2>1. Kept(e) /\ Holds(p, e)
    BY <1>2, <1>4 DEF HeldInv, Kept
  <2>2. e \in ToSet(sync[p].failed)
    BY <1>2, <2>1, EmptyQueue DEF Holds
  <2>3. QED
    BY <1>1, <1>2, <1>3, <2>1, <2>2 DEF Holds
<1>5. TriedOK(p)'
  <2>1. \A e \in ToSet(sync[p].failed) : fate'[e] # "promised"
    BY <1>2 DEF TriedInv, TriedOK
  <2>2. sync[p].failed # <<>> => \E e \in ToSet(sync[p].failed) : TRUE
    BY <1>1, TakenQueue
  <2>3. QED
    BY <1>1, <1>3, <2>1, <2>2 DEF TriedOK, Waiting
<1>6. QED
  BY <1>1, <1>2, <1>4, <1>5, OnePageHeld, OnePageTried DEF OnePage

\* Clearing the queue gives up everything kept.
LEMMA ClearQueueHeld ==
  ASSUME TypeOK, PageInv, HeldInv, TriedInv, NEW p \in Pages, ClearQueue(p)
  PROVE  HeldInv' /\ TriedInv'
<1>1. OnePage(p) /\ open[p] /\ offlineQueue'[p] = <<>>
  BY ClearQueueTyped
<1>2. fate' = [e \in Entries |-> IF e \in ToSet(offlineQueue[p]) THEN "settled" ELSE fate[e]]
  BY DEF ClearQueue
<1>3. \A e \in Entries : ~Kept(e)'
  BY <1>1, <1>2 DEF Kept, HeldInv, Holds
<1>4. HeldInv'
  BY <1>3 DEF HeldInv
<1>5. \A e \in Entries : fate'[e] = "promised" => fate[e] = "promised"
  BY <1>3 DEF Kept
<1>6. TriedOK(p)'
  <2>1. sync'[p].failed \in Queues
    BY <1>1 DEF OnePage, TypeOK
  <2>2. ToSet(sync'[p].failed) \subseteq Entries
    BY <2>1, QueueEntries
  <2>3. QED
    BY <1>1, <1>3, <2>2 DEF TriedOK, Waiting, Kept
<1>7. QED
  BY <1>1, <1>4, <1>5, <1>6, OnePageTried DEF OnePage

LEMMA PageHeld ==
  ASSUME TypeOK, PageInv, HeldInv, TriedInv, NEW p \in Pages, Page(p)
  PROVE  HeldInv' /\ TriedInv'
<1>1. CASE Open(p) \/ Close(p) \/ Notice(p)
  BY <1>1, OpenHeld, CloseHeld, NoticeHeld
<1>2. CASE \/ \E e \in Typed : HandleCheckin(p, e)
           \/ \E e \in Scanned : HandleScannedValue(p, e)
  BY <1>2, HandleCheckinHeld, HandleScannedHeld
<1>3. CASE OpenScanner(p) \/ CloseScanner(p)
  BY <1>3, ScannerHeld
<1>4. CASE \E s \in sent[p] : Recorded(p, s) \/ \E recorded \in BOOLEAN : Failed(p, s, recorded)
  BY <1>4, RecordedHeld, FailedHeld
<1>5. CASE ClickSync(p) \/ SyncRecorded(p) \/ SyncEnd(p) \/ ClearQueue(p)
  BY <1>5, ClickSyncHeld, SyncRecordedHeld, SyncEndHeld, ClearQueueHeld
<1>6. CASE \E recorded \in BOOLEAN : SyncFailed(p, recorded)
  BY <1>6, SyncFailedHeld
<1>7. QED
  BY <1>1, <1>2, <1>3, <1>4, <1>5, <1>6 DEF Page

IInv == TypeOK /\ PageInv /\ HeldInv /\ TriedInv

LEMMA InitHolds == Init => IInv
<1> SUFFICES ASSUME Init PROVE IInv
  OBVIOUS
<1>1. TypeOK /\ PageInv
  BY InitTyped
<1>2. HeldInv
  BY DEF Init, HeldInv, Kept
<1>3. TriedInv
  BY NoSyncState, EmptyQueue DEF Init, TriedInv, TriedOK
<1>4. QED
  BY <1>1, <1>2, <1>3 DEF IInv

LEMMA StepKeeps == IInv /\ [Next]_vars => IInv'
<1> SUFFICES ASSUME IInv, [Next]_vars PROVE IInv'
  OBVIOUS
<1>1. TypeOK /\ PageInv /\ HeldInv /\ TriedInv
  BY DEF IInv
<1>2. TypeOK' /\ PageInv'
  BY <1>1, StepTyped
<1>3. HeldInv' /\ TriedInv'
  <2>1. CASE Flip
    BY <1>1, <2>1 DEF Flip, HeldInv, Kept, Holds, TriedInv, TriedOK, Waiting
  <2>2. CASE \E p \in Pages : Page(p)
    BY <1>1, <2>2, PageHeld
  <2>3. CASE UNCHANGED vars
    BY <1>1, <2>3 DEF vars, HeldInv, Kept, Holds, TriedInv, TriedOK, Waiting
  <2>4. QED
    BY <2>1, <2>2, <2>3 DEF Next
<1>4. QED
  BY <1>2, <1>3 DEF IInv

\* An entry reported as "Added to the offline queue" with no synchronisation, other
\* check-in, open scanner or second page under way stays in localStorage until the
\* server has it, someone clears the queue, or Cap newer entries push it out.
THEOREM NeverLostAlone == Spec => []LostOnlyByOverlap
<1>1. IInv => LostOnlyByOverlap
  BY DEF IInv, HeldInv, Kept, LostOnlyByOverlap
<1>2. QED
  BY <1>1, InitHolds, StepKeeps, PTL DEF Spec

\* A page that is online and idle has tried to send its queue: the effect on the
\* connection and the length of the queue never misses a promised entry.
THEOREM QueueIsTried == Spec => []OnlineQueueTried
<1>1. IInv => OnlineQueueTried
  BY DEF IInv, TriedInv, TriedOK, OnlineQueueTried
<1>2. QED
  BY <1>1, InitHolds, StepKeeps, PTL DEF Spec

-----------------------------------------------------------------------------
(* The gate.                                                                *)

\* What a transaction has done so far: who is reading a nonce has one; past the choice
\* of the session it is committed or the transaction's own; and who is ready to commit
\* has added the record or found it.
StageInv ==
  \A d \in Desks :
    /\ desk[d].pc \in {"begun", "consuming"} => desk[d].nonce \in Nonces
    /\ desk[d].pc \in {"found", "inserting", "ready"} =>
         desk[d].session \in SessionIds /\ (desk[d].created \/ desk[d].session \in sessions)
    /\ desk[d].pc = "ready" /\ ~desk[d].record =>
         <<desk[d].ticket, desk[d].session>> \in records

\* A transaction that has created a session and not committed it.
Creating(d) == desk[d] # Idle /\ desk[d].created

\* Without an overlap there is one session, or one transaction that creates it.
OneSession ==
  raced \cap SessionIds = {} =>
    /\ \A s, z \in sessions : s = z
    /\ \A d, e \in Desks : Creating(d) /\ Creating(e) => d = e
    /\ \A d \in Desks : Creating(d) => sessions = {}

\* A transaction that has read nonce n and found it good.
Consuming(d, n) ==
  /\ desk[d].pc \in {"consuming", "nonced", "locked", "found", "inserting", "ready"}
  /\ desk[d].nonce = n

\* A nonce that nobody read while another had it in hand: one transaction has it, and
\* none once it is spent.
OneUse ==
  \A n \in Nonces \ raced :
    /\ \A d, e \in Desks : Consuming(d, n) /\ Consuming(e, n) => d = e
    /\ spent[n] <= 1
    /\ spent[n] > 0 => nonce[n] = "used" /\ \A d \in Desks : ~Consuming(d, n)

-----------------------------------------------------------------------------
(* What a step of one transaction does to the others, and to itself.        *)

\* The control state of a transaction tells its type.
LEMMA OpenTransaction ==
  ASSUME GateTypeOK, NEW d \in Desks, desk[d].pc # "idle"
  PROVE  desk[d] \in Transaction
BY DEF GateTypeOK, Idle

\* An open transaction is not the idle record.
LEMMA OpenNotIdle ==
  ASSUME NEW d \in Desks, desk[d].pc # "idle"
  PROVE  desk[d] # Idle
<1>1. Idle.pc = "idle"
  BY DEF Idle
<1> QED
  BY <1>1

\* A move changes the control state of one transaction and nothing else of it.
LEMMA GotoStep ==
  ASSUME GateTypeOK, NEW d \in Desks, desk[d] \in Transaction, NEW pc, Goto(d, pc),
         pc \in {"begun", "consuming", "nonced", "locked", "found", "inserting", "ready"}
  PROVE  /\ desk' \in [Desks -> Transaction \cup {Idle}]
         /\ desk'[d] \in Transaction /\ desk'[d].pc = pc
         /\ desk'[d].ticket = desk[d].ticket /\ desk'[d].nonce = desk[d].nonce
         /\ desk'[d].session = desk[d].session /\ desk'[d].created = desk[d].created
         /\ desk'[d].record = desk[d].record
         /\ \A e \in Desks \ {d} : desk'[e] = desk[e]
<1>1. desk'[d] = [desk[d] EXCEPT !.pc = pc] /\ \A e \in Desks \ {d} : desk'[e] = desk[e]
  BY DEF Goto, GateTypeOK
<1>2. /\ desk'[d] \in Transaction /\ desk'[d].pc = pc
      /\ desk'[d].ticket = desk[d].ticket /\ desk'[d].nonce = desk[d].nonce
      /\ desk'[d].session = desk[d].session /\ desk'[d].created = desk[d].created
      /\ desk'[d].record = desk[d].record
  BY <1>1 DEF Transaction
<1>3. desk' \in [Desks -> Transaction \cup {Idle}]
  BY <1>2 DEF Goto, GateTypeOK
<1> QED
  BY <1>1, <1>2, <1>3

\* The end of a transaction.
LEMMA EndStep ==
  ASSUME GateTypeOK, NEW d \in Desks, End(d)
  PROVE  /\ desk' \in [Desks -> Transaction \cup {Idle}]
         /\ desk'[d] = Idle /\ desk'[d].pc = "idle"
         /\ \A e \in Desks \ {d} : desk'[e] = desk[e]
BY DEF End, GateTypeOK, Idle

\* The transaction that begins.
LEMMA BeginStep ==
  ASSUME GateTypeOK, NEW d \in Desks, NEW t \in Tickets, NEW n \in Nonces \cup {NoNonce},
         NEW k \in Kiosks \cup {NoKiosk}, Begin(d, t, n, k)
  PROVE  /\ desk' \in [Desks -> Transaction \cup {Idle}]
         /\ desk'[d] \in Transaction
         /\ desk'[d].pc = IF n = NoNonce THEN "nonced" ELSE "begun"
         /\ desk'[d].nonce = n /\ desk'[d].created = FALSE /\ desk'[d].record = FALSE
         /\ \A e \in Desks \ {d} : desk'[e] = desk[e]
         /\ UNCHANGED <<status, sessions, seq, records, nonce, revoked, waiting,
                        byHand, spent, raced, changes>>
<1> DEFINE x == [pc |-> IF n = NoNonce THEN "nonced" ELSE "begun", ticket |-> t, nonce |-> n,
                 kiosk |-> IF k \in revoked THEN NoKiosk ELSE k,
                 session |-> NoSession, created |-> FALSE, record |-> FALSE]
<1>1. desk' = [desk EXCEPT ![d] = x]
  BY DEF Begin
<1>2. x \in Transaction
  BY DEF Transaction
<1> QED
  BY <1>1, <1>2 DEF GateTypeOK, Begin, tables

\* The transaction that creates the session.
LEMMA CreateStep ==
  ASSUME TicketGateAssumption, GateTypeOK, NEW d \in Desks, CreateSession(d)
  PROVE  /\ desk[d] \in Transaction /\ desk[d].pc = "locked"
         /\ desk' \in [Desks -> Transaction \cup {Idle}]
         /\ desk'[d] \in Transaction /\ desk'[d].pc = "found"
         /\ desk'[d].nonce = desk[d].nonce
         /\ desk'[d].session = seq + 1 /\ desk'[d].created = TRUE
         /\ \A e \in Desks \ {d} : desk'[e] = desk[e]
         /\ seq + 1 \in SessionIds
<1>1. desk[d].pc = "locked" /\ desk[d] \in Transaction
  BY OpenTransaction DEF CreateSession
<1>2. seq + 1 \in SessionIds
  BY DEF CreateSession, GateTypeOK, SessionIds, TicketGateAssumption
<1>3. desk'[d] = [desk[d] EXCEPT !.pc = "found", !.session = seq + 1, !.created = TRUE]
  BY DEF CreateSession, GateTypeOK
<1>4. /\ desk'[d] \in Transaction /\ desk'[d].pc = "found" /\ desk'[d].nonce = desk[d].nonce
      /\ desk'[d].session = seq + 1 /\ desk'[d].created = TRUE
  BY <1>1, <1>2, <1>3 DEF Transaction
<1>5. desk' \in [Desks -> Transaction \cup {Idle}]
  BY <1>4 DEF CreateSession, GateTypeOK
<1> QED
  BY <1>1, <1>2, <1>4, <1>5 DEF CreateSession, GateTypeOK

\* The transaction that finds a session.
LEMMA FindStep ==
  ASSUME GateTypeOK, NEW d \in Desks, FindSession(d)
  PROVE  /\ desk[d] \in Transaction /\ desk[d].pc = "locked"
         /\ desk' \in [Desks -> Transaction \cup {Idle}]
         /\ desk'[d] \in Transaction /\ desk'[d].pc = "found"
         /\ desk'[d].nonce = desk[d].nonce
         /\ desk'[d].session \in sessions /\ desk'[d].created = desk[d].created
         /\ \A e \in Desks \ {d} : desk'[e] = desk[e]
<1>1. desk[d].pc = "locked" /\ desk[d] \in Transaction
  BY OpenTransaction DEF FindSession
<1>2. PICK s \in sessions : desk' = [desk EXCEPT ![d].pc = "found", ![d].session = s]
  BY DEF FindSession
<1>3. desk'[d] = [desk[d] EXCEPT !.pc = "found", !.session = s] /\ s \in SessionIds
  BY <1>2 DEF GateTypeOK
<1>4. /\ desk'[d] \in Transaction /\ desk'[d].pc = "found" /\ desk'[d].nonce = desk[d].nonce
      /\ desk'[d].session = s /\ desk'[d].created = desk[d].created
  BY <1>1, <1>3 DEF Transaction
<1>5. desk' \in [Desks -> Transaction \cup {Idle}]
  BY <1>2, <1>4 DEF GateTypeOK
<1> QED
  BY <1>1, <1>2, <1>4, <1>5 DEF GateTypeOK

\* The transaction that adds its record.
LEMMA InsertStep ==
  ASSUME GateTypeOK, NEW d \in Desks, InsertRecord(d)
  PROVE  /\ desk[d] \in Transaction /\ desk[d].pc = "inserting"
         /\ desk' \in [Desks -> Transaction \cup {Idle}]
         /\ desk'[d] \in Transaction /\ desk'[d].pc = "ready"
         /\ desk'[d].nonce = desk[d].nonce /\ desk'[d].record = TRUE
         /\ desk'[d].session = desk[d].session /\ desk'[d].created = desk[d].created
         /\ \A e \in Desks \ {d} : desk'[e] = desk[e]
<1>1. desk[d].pc = "inserting" /\ desk[d] \in Transaction
  BY OpenTransaction DEF InsertRecord
<1>2. desk'[d] = [desk[d] EXCEPT !.pc = "ready", !.record = TRUE]
  BY DEF InsertRecord, GateTypeOK
<1>3. /\ desk'[d] \in Transaction /\ desk'[d].pc = "ready"
      /\ desk'[d].nonce = desk[d].nonce /\ desk'[d].record = TRUE
      /\ desk'[d].session = desk[d].session /\ desk'[d].created = desk[d].created
  BY <1>1, <1>2 DEF Transaction
<1>4. desk' \in [Desks -> Transaction \cup {Idle}]
  BY <1>3 DEF InsertRecord, GateTypeOK
<1> QED
  BY <1>1, <1>3, <1>4 DEF InsertRecord, GateTypeOK

\* What a commit changes.
LEMMA CommitStep ==
  ASSUME GateTypeOK, StageInv, NEW d \in Desks, Commit(d)
  PROVE  /\ desk[d] \in Transaction /\ desk[d].pc = "ready"
         /\ desk[d].ticket \in Tickets /\ desk[d].session \in sessions'
         /\ sessions' \subseteq SessionIds /\ sessions \subseteq sessions'
         /\ sessions' \subseteq sessions \cup {desk[d].session}
         /\ ~desk[d].created => sessions' = sessions
         /\ records \subseteq records'
         /\ records' \subseteq records \cup {<<desk[d].ticket, desk[d].session>>}
         /\ <<desk[d].ticket, desk[d].session>> \in records'
         /\ nonce' \in [Nonces -> {"none", "fresh", "used", "expired"}]
         /\ spent' \in [Nonces -> Nat]
<1>1. desk[d] \in Transaction /\ desk[d].pc = "ready"
  BY OpenTransaction DEF Commit
<1>2. desk[d].ticket \in Tickets /\ desk[d].session \in SessionIds
  BY <1>1 DEF Transaction, StageInv
<1>3. /\ desk[d].session \in sessions' /\ sessions' \subseteq SessionIds
      /\ sessions \subseteq sessions' /\ sessions' \subseteq sessions \cup {desk[d].session}
      /\ ~desk[d].created => sessions' = sessions
  BY <1>1, <1>2 DEF Commit, StageInv, GateTypeOK
<1>4. /\ records \subseteq records' /\ <<desk[d].ticket, desk[d].session>> \in records'
      /\ records' \subseteq records \cup {<<desk[d].ticket, desk[d].session>>}
  BY <1>1 DEF Commit, StageInv
<1>5. /\ nonce' \in [Nonces -> {"none", "fresh", "used", "expired"}]
      /\ spent' \in [Nonces -> Nat]
  BY <1>1 DEF Commit, SpendNonce, GateTypeOK, Transaction
<1> QED
  BY <1>1, <1>2, <1>3, <1>4, <1>5

-----------------------------------------------------------------------------
(* The types, and the session a transaction works with.                     *)

LEMMA GateInitTyped ==
  ASSUME TicketGateAssumption, GateInit
  PROVE  GateTypeOK /\ StageInv
<1>1. GateTypeOK
  BY DEF TicketGateAssumption, GateInit, GateTypeOK, Idle
<1>2. StageInv
  BY DEF GateInit, StageInv, Idle
<1> QED
  BY <1>1, <1>2

LEMMA CheckInTyped ==
  ASSUME TicketGateAssumption, GateTypeOK, StageInv, NEW d \in Desks, CheckIn(d)
  PROVE  GateTypeOK' /\ StageInv'
<1>1. ASSUME NEW t \in Tickets, NEW n \in Nonces \cup {NoNonce},
             NEW k \in Kiosks \cup {NoKiosk}, Begin(d, t, n, k)
      PROVE  GateTypeOK' /\ StageInv'
  <2>1. GateTypeOK'
    BY <1>1, BeginStep DEF GateTypeOK
  <2>2. StageInv'
    <3>1. \A e \in Desks \ {d} : desk'[e] = desk[e]
      BY <1>1, BeginStep
    <3>2. /\ desk'[d].pc = IF n = NoNonce THEN "nonced" ELSE "begun"
          /\ desk'[d].nonce = n /\ sessions' = sessions /\ records' = records
      BY <1>1, BeginStep
    <3>3. desk'[d].pc = "nonced" \/ (desk'[d].pc = "begun" /\ desk'[d].nonce \in Nonces)
      BY <1>1, <3>2
    <3> QED
      BY <3>1, <3>2, <3>3 DEF StageInv
  <2> QED
    BY <2>1, <2>2
<1>2. ASSUME ReadNonce(d)
      PROVE  GateTypeOK' /\ StageInv'
  <2>1. desk[d] \in Transaction /\ desk[d].nonce \in Nonces
    BY <1>2, OpenTransaction DEF ReadNonce, StageInv
  <2>2. CASE Goto(d, "consuming")
    BY <1>2, <2>1, <2>2, GotoStep DEF ReadNonce, tables, GateTypeOK, StageInv
  <2>3. CASE End(d)
    BY <1>2, <2>1, <2>3, EndStep DEF ReadNonce, tables, GateTypeOK, StageInv
  <2> QED
    BY <1>2, <2>2, <2>3 DEF ReadNonce
<1>3. ASSUME MarkNonce(d)
      PROVE  GateTypeOK' /\ StageInv'
  BY <1>3, OpenTransaction, GotoStep DEF MarkNonce, tables, GateTypeOK, StageInv
<1>4. ASSUME LockTicket(d)
      PROVE  GateTypeOK' /\ StageInv'
  BY <1>4, OpenTransaction, GotoStep DEF LockTicket, tables, GateTypeOK, StageInv
<1>5. ASSUME RefuseCancelled(d)
      PROVE  GateTypeOK' /\ StageInv'
  <2>1. desk[d] \in Transaction
    BY <1>5, OpenTransaction DEF RefuseCancelled
  <2>2. /\ nonce' \in [Nonces -> {"none", "fresh", "used", "expired"}]
        /\ spent' \in [Nonces -> Nat]
    BY <1>5, <2>1 DEF RefuseCancelled, SpendNonce, GateTypeOK, Transaction
  <2> QED
    BY <1>5, <2>2, EndStep DEF RefuseCancelled, GateTypeOK, StageInv
<1>6. ASSUME RefusePending(d) \/ InsertConflicts(d) \/ Rollback(d)
      PROVE  GateTypeOK' /\ StageInv'
  BY <1>6, EndStep DEF RefusePending, InsertConflicts, Rollback, tables, GateTypeOK, StageInv
<1>7. ASSUME FindSession(d)
      PROVE  GateTypeOK' /\ StageInv'
  BY <1>7, FindStep DEF FindSession, tables, GateTypeOK, StageInv
<1>8. ASSUME CreateSession(d)
      PROVE  GateTypeOK' /\ StageInv'
  <2>1. seq' \in 0 .. MaxSessions /\ raced' \in SUBSET (Nonces \cup SessionIds)
    <3>1. seq + 1 \in SessionIds /\ seq' = seq + 1
      BY <1>8, CreateStep DEF CreateSession
    <3>2. seq' \in 0 .. MaxSessions
      BY <3>1 DEF SessionIds, TicketGateAssumption
    <3>3. raced' \in {raced, raced \cup {seq + 1}}
      BY <1>8 DEF CreateSession
    <3> QED
      BY <3>1, <3>2, <3>3 DEF GateTypeOK
  <2> QED
    <3>1. GateTypeOK'
      BY <1>8, <2>1, CreateStep DEF CreateSession, GateTypeOK
    <3>2. StageInv'
      <4>1. \A e \in Desks \ {d} : desk'[e] = desk[e]
        BY <1>8, CreateStep
      <4>2. desk'[d].pc = "found" /\ desk'[d].session \in SessionIds /\ desk'[d].created
        BY <1>8, CreateStep
      <4>3. sessions' = sessions /\ records' = records
        BY <1>8 DEF CreateSession, tables
      <4> QED
        BY <4>1, <4>2, <4>3 DEF StageInv
    <3> QED
      BY <3>1, <3>2
<1>9. ASSUME FindRecord(d)
      PROVE  GateTypeOK' /\ StageInv'
  <2>1. desk[d] \in Transaction /\ desk[d].pc = "found"
    BY <1>9, OpenTransaction DEF FindRecord
  <2>2. CASE <<desk[d].ticket, desk[d].session>> \in records
    <3>1. Goto(d, "ready")
      BY <1>9, <2>2 DEF FindRecord
    <3> QED
      BY <1>9, <2>1, <2>2, <3>1, GotoStep DEF FindRecord, tables, GateTypeOK, StageInv
  <2>3. CASE <<desk[d].ticket, desk[d].session>> \notin records
    <3>1. Goto(d, "inserting")
      BY <1>9, <2>3 DEF FindRecord
    <3> QED
      BY <1>9, <2>1, <3>1, GotoStep DEF FindRecord, tables, GateTypeOK, StageInv
  <2> QED
    BY <2>2, <2>3
<1>10. ASSUME InsertRecord(d)
       PROVE  GateTypeOK' /\ StageInv'
  <2>1. GateTypeOK'
    BY <1>10, InsertStep DEF InsertRecord, tables, GateTypeOK
  <2>2. sessions' = sessions /\ records' = records
    BY <1>10 DEF InsertRecord, tables
  <2>3. /\ desk[d].session \in SessionIds
        /\ desk[d].created \/ desk[d].session \in sessions
    BY <1>10, InsertStep DEF StageInv
  <2>4. StageInv'
    BY <1>10, <2>2, <2>3, InsertStep DEF StageInv
  <2> QED
    BY <2>1, <2>4
<1>11. ASSUME Commit(d)
       PROVE  GateTypeOK' /\ StageInv'
  <2>1. records' \in SUBSET (Tickets \X sessions')
    <3>1. records \subseteq Tickets \X sessions'
      BY <1>11, CommitStep DEF GateTypeOK
    <3>2. <<desk[d].ticket, desk[d].session>> \in Tickets \X sessions'
      BY <1>11, CommitStep
    <3> QED
      BY <1>11, <3>1, <3>2, CommitStep
  <2>2. status' \in [Tickets -> {"issued", "used", "cancelled"}]
    BY <1>11 DEF Commit, GateTypeOK
  <2>3. End(d) /\ UNCHANGED <<seq, revoked, waiting, byHand, raced, changes>>
    BY <1>11 DEF Commit
  <2>4. GateTypeOK'
    BY <1>11, <2>1, <2>2, <2>3, CommitStep, EndStep DEF GateTypeOK
  <2>5. StageInv'
    BY <1>11, <2>3, CommitStep, EndStep DEF StageInv
  <2> QED
    BY <2>4, <2>5
<1> QED
  BY <1>1, <1>2, <1>3, <1>4, <1>5, <1>6, <1>7, <1>8, <1>9, <1>10, <1>11 DEF CheckIn

LEMMA OrganiserTyped ==
  ASSUME TicketGateAssumption, GateTypeOK, StageInv, Organiser
  PROVE  GateTypeOK' /\ StageInv'
<1>1. ASSUME NEW t \in Tickets, NEW s \in {"issued", "cancelled"}, UpdateStatus(t, s)
      PROVE  GateTypeOK' /\ StageInv'
  <2>1. GateTypeOK'
    BY <1>1 DEF UpdateStatus, Change, GateTypeOK
  <2>2. ASSUME NEW d \in Desks, desk[d].pc = "ready"
        PROVE  desk[d].ticket # t
    BY <1>1, <2>2 DEF UpdateStatus, HoldsTicket
  <2>3. StageInv'
    BY <1>1, <2>2 DEF UpdateStatus, StageInv
  <2> QED
    BY <2>1, <2>3
<1>2. ASSUME NEW t \in Tickets, NEW s \in SessionIds, ManualCheckin(t, s)
      PROVE  GateTypeOK' /\ StageInv'
  BY <1>2 DEF ManualCheckin, Change, GateTypeOK, StageInv
<1>3. ASSUME NEW n \in Nonces, IssueNonce(n) \/ ExpireNonce(n)
      PROVE  GateTypeOK' /\ StageInv'
  BY <1>3 DEF IssueNonce, ExpireNonce, GateTypeOK, StageInv
<1>4. ASSUME NEW t \in Tickets, NEW approved \in BOOLEAN, Decide(t, approved)
      PROVE  GateTypeOK' /\ StageInv'
  BY <1>4 DEF Decide, Change, GateTypeOK, StageInv
<1>5. ASSUME NEW k \in Kiosks, RevokeKiosk(k)
      PROVE  GateTypeOK' /\ StageInv'
  BY <1>5 DEF RevokeKiosk, Change, GateTypeOK, StageInv
<1> QED
  BY <1>1, <1>2, <1>3, <1>4, <1>5 DEF Organiser

LEMMA GateNextTyped ==
  ASSUME TicketGateAssumption, GateTypeOK, StageInv, [GateNext]_gateVars
  PROVE  GateTypeOK' /\ StageInv'
<1>1. CASE UNCHANGED gateVars
  BY <1>1 DEF gateVars, GateTypeOK, StageInv
<1> QED
  BY <1>1, CheckInTyped, OrganiserTyped DEF GateNext

LEMMA GateTyped == GateSpec => [](GateTypeOK /\ StageInv)
<1> USE TicketGateAssumption
<1>1. GateInit => GateTypeOK /\ StageInv
  BY GateInitTyped
<1>2. GateTypeOK /\ StageInv /\ [GateNext]_gateVars => (GateTypeOK /\ StageInv)'
  BY GateNextTyped
<1> QED
  BY <1>1, <1>2, PTL DEF GateSpec

\* The tables and transactions stay well typed; in particular no record of attendance
\* refers to a session that is not committed, whatever fails or rolls back.
THEOREM GateTypeCorrect == GateSpec => []GateTypeOK
BY GateTyped, PTL

-----------------------------------------------------------------------------
(* The ticket and the attendance.                                           *)

\* Of the steps of a check-in only the commit is seen by others.
LEMMA OnlyCommits ==
  ASSUME NEW d \in Desks, CheckIn(d)
  PROVE  Commit(d) \/ UNCHANGED <<status, sessions, records, byHand>>
BY DEF CheckIn, Begin, ReadNonce, MarkNonce, LockTicket, RefuseCancelled, RefusePending,
       FindSession, CreateSession, FindRecord, InsertRecord, InsertConflicts, Rollback, tables

LEMMA NextAttended ==
  ASSUME TicketGateAssumption, GateTypeOK, StageInv, AttendanceMatchesTicket, [GateNext]_gateVars
  PROVE  AttendanceMatchesTicket'
<1>1. ASSUME NEW d \in Desks, Commit(d)
      PROVE  AttendanceMatchesTicket'
  <2> DEFINE t == desk[d].ticket
             s == desk[d].session
  <2>1. /\ t \in Tickets /\ s \in sessions'
        /\ sessions \subseteq sessions' /\ records \subseteq records'
        /\ records' \subseteq records \cup {<<t, s>>} /\ <<t, s>> \in records'
    BY <1>1, CommitStep
  <2>2. status' = [status EXCEPT ![t] = "used"] /\ byHand' = byHand
    BY <1>1 DEF Commit
  <2>3. status'[t] = "used" /\ \E z \in sessions' : <<t, z>> \in records'
    BY <2>1, <2>2 DEF GateTypeOK
  <2>4. ASSUME NEW u \in Tickets, u # t
        PROVE  /\ status'[u] = status[u]
               /\ (\E z \in sessions' : <<u, z>> \in records')
                    <=> (\E z \in sessions : <<u, z>> \in records)
    <3>1. \A z : <<u, z>> \in records' <=> <<u, z>> \in records
      BY <2>1, <2>4
    <3>2. \A z : <<u, z>> \in records => z \in sessions
      BY DEF GateTypeOK
    <3> QED
      BY <2>1, <2>2, <2>4, <3>1, <3>2 DEF GateTypeOK
  <2> QED
    BY <2>2, <2>3, <2>4 DEF AttendanceMatchesTicket
<1>2. ASSUME UNCHANGED <<status, sessions, records, byHand>>
      PROVE  AttendanceMatchesTicket'
  BY <1>2 DEF AttendanceMatchesTicket
<1>3. ASSUME NEW t \in Tickets, NEW s \in {"issued", "cancelled"}, UpdateStatus(t, s)
      PROVE  AttendanceMatchesTicket'
  <2>1. /\ status' = [status EXCEPT ![t] = s] /\ records' = {r \in records : r[1] # t}
        /\ byHand' = byHand \ {t} /\ sessions' = sessions
    BY <1>3 DEF UpdateStatus
  <2>2. ~(\E z \in sessions' : <<t, z>> \in records') /\ status'[t] # "used"
    BY <2>1 DEF GateTypeOK
  <2>3. ASSUME NEW u \in Tickets, u # t
        PROVE  /\ status'[u] = status[u] /\ (u \in byHand' <=> u \in byHand)
               /\ \A z : <<u, z>> \in records' <=> <<u, z>> \in records
    BY <2>1, <2>3 DEF GateTypeOK
  <2> QED
    BY <2>1, <2>2, <2>3 DEF AttendanceMatchesTicket
<1>4. ASSUME NEW t \in Tickets, NEW s \in SessionIds, ManualCheckin(t, s)
      PROVE  AttendanceMatchesTicket'
  BY <1>4 DEF ManualCheckin, AttendanceMatchesTicket
<1>5. ASSUME NEW n \in Nonces, IssueNonce(n) \/ ExpireNonce(n)
      PROVE  UNCHANGED <<status, sessions, records, byHand>>
  BY <1>5 DEF IssueNonce, ExpireNonce
<1>6. ASSUME NEW t \in Tickets, NEW approved \in BOOLEAN, Decide(t, approved)
      PROVE  UNCHANGED <<status, sessions, records, byHand>>
  BY <1>6 DEF Decide
<1>7. ASSUME NEW k \in Kiosks, RevokeKiosk(k)
      PROVE  UNCHANGED <<status, sessions, records, byHand>>
  BY <1>7 DEF RevokeKiosk
<1>8. CASE UNCHANGED gateVars
  BY <1>2, <1>8 DEF gateVars
<1>9. CASE Organiser
  BY <1>2, <1>3, <1>4, <1>5, <1>6, <1>7, <1>9 DEF Organiser
<1>10. CASE \E d \in Desks : CheckIn(d)
  BY <1>1, <1>2, <1>10, OnlyCommits
<1> QED
  BY <1>8, <1>9, <1>10 DEF GateNext

\* For any number of desks, tickets, sessions and nonces: a used ticket has a record of
\* attendance, and a ticket that is not used has none but by hand.
THEOREM AttendanceHolds == GateSpec => []AttendanceMatchesTicket
<1> USE TicketGateAssumption
<1>1. GateInit => AttendanceMatchesTicket
  BY DEF GateInit, AttendanceMatchesTicket
<1>2. GateTypeOK /\ StageInv /\ AttendanceMatchesTicket /\ [GateNext]_gateVars
        => AttendanceMatchesTicket'
  BY NextAttended
<1> QED
  BY <1>1, <1>2, GateTyped, PTL DEF GateSpec


-----------------------------------------------------------------------------
(* What no lock prevents.                                                   *)

\* History only grows.
LEMMA RacedGrows ==
  ASSUME NEW d \in Desks, CheckIn(d)
  PROVE  raced \subseteq raced'
BY DEF CheckIn, Begin, ReadNonce, MarkNonce, LockTicket, RefuseCancelled, RefusePending,
       FindSession, CreateSession, FindRecord, InsertRecord, InsertConflicts, Commit, Rollback,
       tables

\* A check-in that neither creates nor commits a session leaves the sessions alone, and
\* does not become one that creates.
LEMMA OtherStepsCreateNothing ==
  ASSUME GateTypeOK, StageInv, NEW d \in Desks, CheckIn(d), ~CreateSession(d), ~Commit(d)
  PROVE  sessions' = sessions /\ \A e \in Desks : Creating(e)' => Creating(e)
<1>1. ASSUME NEW t \in Tickets, NEW n \in Nonces \cup {NoNonce},
             NEW k \in Kiosks \cup {NoKiosk}, Begin(d, t, n, k)
      PROVE  sessions' = sessions /\ \A e \in Desks : Creating(e)' => Creating(e)
  BY <1>1, BeginStep DEF Creating
<1>2. ASSUME NEW pc \in {"consuming", "nonced", "locked", "inserting", "ready"}, Goto(d, pc),
             desk[d].pc # "idle"
      PROVE  \A e \in Desks : Creating(e)' => Creating(e)
  <2>1. desk[d] \in Transaction /\ desk[d] # Idle
    BY <1>2, OpenTransaction DEF Idle
  <2> QED
    BY <1>2, <2>1, GotoStep DEF Creating
<1>3. ASSUME End(d)
      PROVE  \A e \in Desks : Creating(e)' => Creating(e)
  BY <1>3, EndStep DEF Creating
<1>4. ASSUME ReadNonce(d) \/ MarkNonce(d) \/ LockTicket(d) \/ FindRecord(d)
      PROVE  sessions' = sessions /\ \A e \in Desks : Creating(e)' => Creating(e)
  BY <1>2, <1>3, <1>4 DEF ReadNonce, MarkNonce, LockTicket, FindRecord, tables
<1>5. ASSUME RefuseCancelled(d) \/ RefusePending(d) \/ InsertConflicts(d) \/ Rollback(d)
      PROVE  sessions' = sessions /\ \A e \in Desks : Creating(e)' => Creating(e)
  BY <1>3, <1>5 DEF RefuseCancelled, RefusePending, InsertConflicts, Rollback, tables
<1>6. ASSUME FindSession(d)
      PROVE  sessions' = sessions /\ \A e \in Desks : Creating(e)' => Creating(e)
  <2>1. desk[d] # Idle
    BY <1>6, FindStep, OpenNotIdle
  <2> QED
    BY <1>6, <2>1, FindStep DEF FindSession, tables, Creating
<1>7. ASSUME InsertRecord(d)
      PROVE  sessions' = sessions /\ \A e \in Desks : Creating(e)' => Creating(e)
  <2>1. desk[d] # Idle
    BY <1>7, InsertStep, OpenNotIdle
  <2> QED
    BY <1>7, <2>1, InsertStep DEF InsertRecord, tables, Creating
<1> QED
  BY <1>1, <1>4, <1>5, <1>6, <1>7 DEF CheckIn

LEMMA NextOneSession ==
  ASSUME TicketGateAssumption, GateTypeOK, StageInv, OneSession, [GateNext]_gateVars
  PROVE  OneSession'
<1>1. ASSUME NEW d \in Desks, CreateSession(d)
      PROVE  OneSession'
  <2> SUFFICES ASSUME raced' \cap SessionIds = {}
               PROVE  /\ sessions' = {}
                      /\ \A e, f \in Desks : Creating(e)' /\ Creating(f)' => e = f
    BY DEF OneSession
  <2>1. sessions' = {} /\ seq + 1 \in SessionIds
    BY <1>1, CreateStep DEF CreateSession
  <2>2. \A e \in Desks : ~Creating(e)
    <3>1. raced' = IF \E e \in Desks : Creating(e) THEN raced \cup {seq + 1} ELSE raced
      BY <1>1 DEF CreateSession, Creating
    <3> QED
      BY <2>1, <3>1
  <2>3. \A e \in Desks \ {d} : ~Creating(e)'
    BY <1>1, <2>2, CreateStep DEF Creating
  <2> QED
    BY <2>1, <2>3
<1>2. ASSUME NEW d \in Desks, Commit(d)
      PROVE  OneSession'
  <2> SUFFICES ASSUME raced \cap SessionIds = {}
               PROVE  /\ \A s, z \in sessions' : s = z
                      /\ \A e, f \in Desks : Creating(e)' /\ Creating(f)' => e = f
                      /\ \A e \in Desks : Creating(e)' => sessions' = {}
    BY <1>2 DEF OneSession, Commit
  <2>1. /\ desk[d] # Idle /\ sessions' \subseteq sessions \cup {desk[d].session}
        /\ ~desk[d].created => sessions' = sessions
    BY <1>2, CommitStep, OpenNotIdle
  <2>2. \A e \in Desks : Creating(e)' => Creating(e) /\ e # d
    BY <1>2, EndStep DEF Commit, Creating
  <2>3. CASE Creating(d)
    BY <2>1, <2>2, <2>3 DEF OneSession
  <2>4. CASE ~Creating(d)
    BY <2>1, <2>2, <2>4 DEF OneSession, Creating
  <2> QED
    BY <2>3, <2>4
<1>3. ASSUME NEW d \in Desks, CheckIn(d), ~CreateSession(d), ~Commit(d)
      PROVE  OneSession'
  BY <1>3, OtherStepsCreateNothing, RacedGrows DEF OneSession
<1>4. CASE Organiser
  <2>1. UNCHANGED <<sessions, desk, raced>>
    BY <1>4 DEF Organiser, UpdateStatus, ManualCheckin, IssueNonce, ExpireNonce, Decide, RevokeKiosk
  <2> QED
    BY <2>1 DEF OneSession, Creating
<1>5. CASE UNCHANGED gateVars
  BY <1>5 DEF gateVars, OneSession, Creating
<1> QED
  BY <1>1, <1>2, <1>3, <1>4, <1>5 DEF GateNext

\* Only who reads a good nonce gets hold of it, and only who has it in hand spends it,
\* and ends.
LEMMA Consumers ==
  ASSUME TicketGateAssumption, GateTypeOK, StageInv, NEW d \in Desks, CheckIn(d)
  PROVE  /\ \A n \in Nonces, e \in Desks : Consuming(e, n)' =>
              Consuming(e, n) \/ (e = d /\ ReadNonce(d) /\ desk[d].nonce = n /\ nonce[n] = "fresh")
         /\ \/ UNCHANGED <<nonce, spent>>
            \/ \E n \in Nonces : /\ Consuming(d, n) /\ End(d)
                                 /\ nonce' = [nonce EXCEPT ![n] = "used"]
                                 /\ spent' = [spent EXCEPT ![n] = @ + 1]
<1> DEFINE NoneStarted == \A n \in Nonces, e \in Desks : Consuming(e, n)' => Consuming(e, n)
           Spends == \/ UNCHANGED <<nonce, spent>>
                     \/ \E n \in Nonces : /\ Consuming(d, n) /\ End(d)
                                          /\ nonce' = [nonce EXCEPT ![n] = "used"]
                                          /\ spent' = [spent EXCEPT ![n] = @ + 1]
<1>1. ASSUME NEW t \in Tickets, NEW n \in Nonces \cup {NoNonce},
             NEW k \in Kiosks \cup {NoKiosk}, Begin(d, t, n, k)
      PROVE  NoneStarted /\ UNCHANGED <<nonce, spent>>
  <2>1. /\ \A e \in Desks \ {d} : desk'[e] = desk[e]
        /\ desk'[d].pc = IF n = NoNonce THEN "nonced" ELSE "begun"
        /\ desk'[d].nonce = n /\ UNCHANGED <<nonce, spent>>
    BY <1>1, BeginStep
  <2>2. desk'[d].pc = "begun" \/ desk'[d].nonce \notin Nonces
    BY <2>1, TicketGateAssumption DEF TicketGateAssumption
  <2> QED
    BY <2>1, <2>2 DEF Consuming
<1>2. ASSUME End(d)
      PROVE  NoneStarted
  BY <1>2, EndStep DEF Consuming
<1>3. ASSUME NEW pc \in {"nonced", "locked", "inserting", "ready"}, Goto(d, pc),
             desk[d].pc \in {"consuming", "nonced", "locked", "found"}
      PROVE  NoneStarted
  BY <1>3, OpenTransaction, GotoStep DEF Consuming
<1>4. ASSUME MarkNonce(d) \/ LockTicket(d) \/ FindRecord(d)
      PROVE  NoneStarted /\ UNCHANGED <<nonce, spent>>
  BY <1>3, <1>4 DEF MarkNonce, LockTicket, FindRecord, tables
<1>5. ASSUME RefusePending(d) \/ InsertConflicts(d) \/ Rollback(d)
      PROVE  NoneStarted /\ UNCHANGED <<nonce, spent>>
  BY <1>2, <1>5 DEF RefusePending, InsertConflicts, Rollback, tables
<1>6. ASSUME FindSession(d)
      PROVE  NoneStarted /\ UNCHANGED <<nonce, spent>>
  BY <1>6, FindStep DEF FindSession, tables, Consuming
<1>7. ASSUME CreateSession(d)
      PROVE  NoneStarted /\ UNCHANGED <<nonce, spent>>
  BY <1>7, CreateStep DEF CreateSession, Consuming
<1>8. ASSUME InsertRecord(d)
      PROVE  NoneStarted /\ UNCHANGED <<nonce, spent>>
  BY <1>8, InsertStep DEF InsertRecord, tables, Consuming
<1>9. ASSUME SpendNonce(d), End(d), desk[d].pc \in {"nonced", "ready"}
      PROVE  Spends
  <2>1. desk[d].nonce \in Nonces \cup {NoNonce}
    BY <1>9, OpenTransaction DEF Transaction
  <2>2. CASE desk[d].nonce = NoNonce
    BY <1>9, <2>2 DEF SpendNonce
  <2>3. CASE desk[d].nonce # NoNonce
    BY <1>9, <2>1, <2>3 DEF SpendNonce, Consuming
  <2> QED
    BY <2>2, <2>3
<1>10. ASSUME Commit(d) \/ RefuseCancelled(d)
       PROVE  NoneStarted /\ Spends
  BY <1>2, <1>9, <1>10 DEF Commit, RefuseCancelled
<1>11. ASSUME ReadNonce(d)
       PROVE  /\ \A n \in Nonces, e \in Desks : Consuming(e, n)' =>
                   Consuming(e, n) \/ (e = d /\ desk[d].nonce = n /\ nonce[n] = "fresh")
              /\ UNCHANGED <<nonce, spent>>
  <2>1. UNCHANGED <<nonce, spent>> /\ desk[d] \in Transaction
    BY <1>11, OpenTransaction DEF ReadNonce, tables
  <2>2. End(d) \/ (Goto(d, "consuming") /\ nonce[desk[d].nonce] = "fresh")
    BY <1>11 DEF ReadNonce
  <2>3. CASE Goto(d, "consuming") /\ nonce[desk[d].nonce] = "fresh"
    BY <2>1, <2>3, GotoStep DEF Consuming
  <2> QED
    BY <1>2, <2>1, <2>2, <2>3
<1> QED
  BY <1>1, <1>4, <1>5, <1>6, <1>7, <1>8, <1>10, <1>11 DEF CheckIn

LEMMA NextOneUse ==
  ASSUME TicketGateAssumption, GateTypeOK, StageInv, OneUse, [GateNext]_gateVars
  PROVE  OneUse'
<1>1. ASSUME NEW d \in Desks, CheckIn(d)
      PROVE  OneUse'
  <2> SUFFICES ASSUME NEW n \in Nonces \ raced'
               PROVE  /\ \A e, f \in Desks : Consuming(e, n)' /\ Consuming(f, n)' => e = f
                      /\ spent'[n] <= 1
                      /\ spent'[n] > 0 => nonce'[n] = "used" /\ \A e \in Desks : ~Consuming(e, n)'
    BY DEF OneUse
  <2>1. n \notin raced
    BY <1>1, RacedGrows
  <2>2. /\ \A e, f \in Desks : Consuming(e, n) /\ Consuming(f, n) => e = f
        /\ spent[n] <= 1
        /\ spent[n] > 0 => nonce[n] = "used" /\ \A e \in Desks : ~Consuming(e, n)
    BY <2>1 DEF OneUse
  <2>3. spent[n] \in Nat
    BY DEF GateTypeOK
  <2>4. CASE ReadNonce(d) /\ desk[d].nonce = n /\ nonce[n] = "fresh"
    <3>1. \A e \in Desks \ {d} : ~Consuming(e, n)
      <4>1. ~InHand(d, n)
        BY <2>4 DEF ReadNonce
      <4> QED
        BY <4>1 DEF InHand, HoldsNonce, Consuming
    <3>2. UNCHANGED <<nonce, spent>>
      BY <2>4 DEF ReadNonce, tables
    <3>3. \A e \in Desks : Consuming(e, n)' => e = d
      BY <1>1, <3>1, Consumers
    <3> QED
      BY <2>2, <2>3, <2>4, <3>2, <3>3
  <2>5. CASE ~(ReadNonce(d) /\ desk[d].nonce = n /\ nonce[n] = "fresh")
    <3>1. \A e \in Desks : Consuming(e, n)' => Consuming(e, n)
      BY <1>1, <2>5, Consumers
    <3>2. CASE UNCHANGED <<nonce, spent>>
      BY <2>2, <3>1, <3>2
    <3>3. ASSUME NEW m \in Nonces, Consuming(d, m), End(d),
                 nonce' = [nonce EXCEPT ![m] = "used"], spent' = [spent EXCEPT ![m] = @ + 1]
          PROVE  /\ spent'[n] <= 1
                 /\ spent'[n] > 0 => nonce'[n] = "used" /\ \A e \in Desks : ~Consuming(e, n)'
      <4>1. CASE m = n
        <5>1. spent[n] = 0 /\ spent'[n] = 1 /\ nonce'[n] = "used"
          BY <2>2, <2>3, <3>3, <4>1 DEF GateTypeOK
        <5>2. \A e \in Desks : Consuming(e, n) => e = d
          BY <2>2, <3>3, <4>1
        <5>3. ~Consuming(d, n)'
          BY <3>3, EndStep DEF Consuming
        <5> QED
          BY <3>1, <5>1, <5>2, <5>3
      <4>2. CASE m # n
        BY <2>2, <3>1, <3>3, <4>2 DEF GateTypeOK
      <4> QED
        BY <4>1, <4>2
    <3> QED
      BY <1>1, <2>2, <3>1, <3>2, <3>3, Consumers
  <2> QED
    BY <2>4, <2>5
<1>2. ASSUME NEW n \in Nonces, IssueNonce(n) \/ ExpireNonce(n)
      PROVE  OneUse'
  <2>1. UNCHANGED <<desk, spent, raced>> /\ nonce[n] # "used"
        /\ \A m \in Nonces \ {n} : nonce'[m] = nonce[m]
    BY <1>2 DEF IssueNonce, ExpireNonce, GateTypeOK
  <2> QED
    BY <2>1 DEF OneUse, Consuming
<1>3. ASSUME NEW t \in Tickets, NEW s \in {"issued", "cancelled"}, UpdateStatus(t, s)
      PROVE  UNCHANGED <<desk, nonce, spent, raced>>
  BY <1>3 DEF UpdateStatus
<1>4. ASSUME NEW t \in Tickets, NEW s \in SessionIds, ManualCheckin(t, s)
      PROVE  UNCHANGED <<desk, nonce, spent, raced>>
  BY <1>4 DEF ManualCheckin
<1>5. ASSUME NEW t \in Tickets, NEW approved \in BOOLEAN, Decide(t, approved)
      PROVE  UNCHANGED <<desk, nonce, spent, raced>>
  BY <1>5 DEF Decide
<1>6. ASSUME NEW k \in Kiosks, RevokeKiosk(k)
      PROVE  UNCHANGED <<desk, nonce, spent, raced>>
  BY <1>6 DEF RevokeKiosk
<1>7. ASSUME UNCHANGED <<desk, nonce, spent, raced>>
      PROVE  OneUse'
  BY <1>7 DEF OneUse, Consuming
<1>8. CASE Organiser
  BY <1>2, <1>3, <1>4, <1>5, <1>6, <1>7, <1>8 DEF Organiser
<1>9. CASE UNCHANGED gateVars
  BY <1>7, <1>9 DEF gateVars
<1> QED
  BY <1>1, <1>8, <1>9 DEF GateNext

\* A set whose elements are equal counts at most one.
LEMMA CountsOne ==
  ASSUME NEW S, \A x, y \in S : x = y
  PROVE  Cardinality(S) <= 1
<1>1. CASE S = {}
  <2>1. Cardinality(S) = 0
    BY <1>1, FS_EmptySet, Zenon
  <2> QED
    BY <2>1
<1>2. CASE S # {}
  <2>1. PICK x \in S : TRUE
    BY <1>2
  <2>2. S = {x}
    BY <2>1
  <2>3. Cardinality(S) = 1
    BY <2>2, FS_Singleton, Zenon
  <2> QED
    BY <2>3
<1> QED
  BY <1>1, <1>2

\* With one session nobody is counted twice.
LEMMA OneSessionCountsOnce ==
  ASSUME GateTypeOK, \A s, z \in sessions : s = z
  PROVE  NotDoubleCounted
BY CountsOne, Zenon DEF NotDoubleCounted

\* For any number of desks: an attendee is counted twice only if two check-ins each
\* created the session, and a nonce is spent twice only if it was read while another
\* request had it in hand.
THEOREM DoublesExplained == GateSpec => []DoublesOnlyByOverlap
<1> USE TicketGateAssumption
<1> DEFINE Inv == OneSession /\ OneUse
<1>1. GateInit => Inv
  <2> SUFFICES ASSUME GateInit
               PROVE  OneSession /\ OneUse
    OBVIOUS
  <2>1. \A d \in Desks : desk[d] = Idle /\ desk[d].pc = "idle"
    BY DEF GateInit, Idle
  <2>2. OneSession
    BY <2>1 DEF GateInit, OneSession, Creating
  <2>3. \A n \in Nonces : spent[n] = 0
    BY DEF GateInit
  <2>4. OneUse
    BY <2>1, <2>3 DEF OneUse, Consuming
  <2> QED
    BY <2>2, <2>4
<1>2. GateTypeOK /\ StageInv /\ Inv /\ [GateNext]_gateVars => Inv'
  BY NextOneSession, NextOneUse
<1>3. GateTypeOK /\ Inv => DoublesOnlyByOverlap
  <2> SUFFICES ASSUME GateTypeOK, OneSession, OneUse
               PROVE  DoublesOnlyByOverlap
    OBVIOUS
  <2>1. ~NotDoubleCounted => raced \cap SessionIds # {}
    BY OneSessionCountsOnce DEF OneSession
  <2>2. ASSUME NEW n \in Nonces, spent[n] > 1
        PROVE  n \in raced
    <3>1. spent[n] \in Nat /\ ~(spent[n] <= 1)
      BY <2>2 DEF GateTypeOK
    <3> QED
      BY <3>1 DEF OneUse
  <2> QED
    BY <2>1, <2>2 DEF DoublesOnlyByOverlap
<1> QED
  BY <1>1, <1>2, <1>3, GateTyped, PTL DEF GateSpec
=============================================================================
