---------------------------- MODULE OfflineQueue ----------------------------
(***************************************************************************)
(* Check-ins taken at the door without a connection (frontend/src/app/admin *)
(* /events/[id]/checkin/page.tsx).                                          *)
(*                                                                          *)
(* Each page keeps the queue twice: in React state, and in the localStorage *)
(* that all pages of the browser share.  A handler works with the values of *)
(* the render it was created in, its closure: that of a click is current,   *)
(* the one given to the scanner is as old as the scanner, and what runs      *)
(* after an await may be older than the state it writes.                    *)
(*                                                                          *)
(* Left out: the log, the metrics and the live stream; what an entry holds. *)
(***************************************************************************)
EXTENDS Integers, SequencesExt

CONSTANTS
  Pages,     \* check-in pages of one browser
  Typed,     \* entries typed into the form, each once
  Scanned,   \* entries held before the camera, each once
  Cap,       \* the entries kept (300 in the code)
  MaxFlips,  \* bound: changes of the connection
  MaxOpens   \* bound: pages opened, reloads included

ASSUME OfflineQueueAssumption == Cap \in Nat \ {0} /\ MaxFlips \in Nat /\ MaxOpens \in Nat

Entries == Typed \cup Scanned

VARIABLES
  up,         \* navigator.onLine
  stored,     \* localStorage: the queue, newest first
  open,       \* open[p]: the page is open
  ready,      \* ready[p]: selectedSession is set, the form and the scanner are shown
  isOnline,   \* isOnline[p], offlineQueue[p], submitting[p]: state of the page
  offlineQueue,
  submitting,
  scanner,    \* scanner[p]: the closure of the open scanner, or NoScanner
  sent,       \* sent[p]: the check-ins under way, each with its closure's queue
  sync,       \* sync[p]: what syncQueue has still to send and what failed, or NoSync
  fate,       \* fate[e]: history, what became of the entry
  flips, opens

vars == <<up, stored, open, ready, isOnline, offlineQueue, submitting, scanner, sent, sync,
          fate, flips, opens>>

\* "promised": reported as "Added to the offline queue"; "tried": and syncQueue could
\* not send it since; "excused": promised while something else was under way, or
\* pushed out by newer entries; "settled": recorded by the server or thrown away by
\* whoever holds the page.
Fates == {"new", "sent", "promised", "tried", "excused", "settled"}

Queues == BoundedSeq(Entries, Cap)

NoScanner == [queue |-> <<>>, online |-> "closed"]
NoSync    == [rest |-> <<>>, failed |-> <<>>, busy |-> FALSE]

TypeOK ==
  /\ up \in BOOLEAN /\ stored \in Queues
  /\ open \in [Pages -> BOOLEAN] /\ ready \in [Pages -> BOOLEAN]
  /\ isOnline \in [Pages -> BOOLEAN] /\ submitting \in [Pages -> BOOLEAN]
  /\ offlineQueue \in [Pages -> Queues]
  /\ scanner \in [Pages -> [queue : Queues, online : {"yes", "no", "closed"}]]
  /\ sent \in [Pages -> SUBSET [entry : Entries, queue : Queues]]
  /\ sync \in [Pages -> [rest : Queues, failed : Queues, busy : BOOLEAN]]
  /\ \A p \in Pages : ~open[p] => sync[p] = NoSync /\ sent[p] = {} /\ scanner[p] = NoScanner
  /\ fate \in [Entries -> Fates]
  /\ flips \in 0 .. MaxFlips /\ opens \in 0 .. MaxOpens

Init ==
  /\ up = TRUE /\ stored = <<>>
  /\ open = [p \in Pages |-> FALSE] /\ ready = [p \in Pages |-> FALSE]
  /\ isOnline = [p \in Pages |-> TRUE] /\ offlineQueue = [p \in Pages |-> <<>>]
  /\ submitting = [p \in Pages |-> FALSE] /\ scanner = [p \in Pages |-> NoScanner]
  /\ sent = [p \in Pages |-> {}] /\ sync = [p \in Pages |-> NoSync]
  /\ fate = [e \in Entries |-> "new"]
  /\ flips = 0 /\ opens = 0

-----------------------------------------------------------------------------

\* syncQueue takes the queue of its closure, oldest first.
StartSync(q) == [rest |-> Reverse(q), failed |-> <<>>, busy |-> TRUE]

\* The page is rendered with online, q and running; the effect on [isOnline,
\* offlineQueue.length] then starts syncQueue, which looks at navigator.onLine.
Render(p, online, q, running) ==
  /\ isOnline' = [isOnline EXCEPT ![p] = online]
  /\ offlineQueue' = [offlineQueue EXCEPT ![p] = q]
  /\ sync' = [sync EXCEPT ![p] =
       IF /\ online # isOnline[p] \/ Len(q) # Len(offlineQueue[p])
          /\ online /\ q # <<>> /\ ~running.busy /\ up
       THEN StartSync(q) ELSE running]

-----------------------------------------------------------------------------
(* Opening and closing the page, and the connection.                        *)

\* Mutant: the queue is not read back when the page is opened.
OpenEmpty(p) ==
  /\ ~open[p] /\ opens < MaxOpens
  /\ open' = [open EXCEPT ![p] = TRUE]
  /\ ready' = [ready EXCEPT ![p] = up]
  /\ Render(p, up, <<>>, NoSync)
  /\ opens' = opens + 1
  /\ UNCHANGED <<up, stored, submitting, scanner, sent, fate, flips>>

\* The effects of the first render; without a connection no session can be selected.
Open(p) ==
  /\ ~open[p] /\ opens < MaxOpens
  /\ open' = [open EXCEPT ![p] = TRUE]
  /\ ready' = [ready EXCEPT ![p] = up]
  /\ Render(p, up, stored, NoSync)
  /\ opens' = opens + 1
  /\ UNCHANGED <<up, stored, submitting, scanner, sent, fate, flips>>

\* The page is closed or reloaded: everything but localStorage is gone.
Close(p) ==
  /\ open[p]
  /\ open' = [open EXCEPT ![p] = FALSE]
  /\ ready' = [ready EXCEPT ![p] = FALSE]
  /\ isOnline' = [isOnline EXCEPT ![p] = TRUE]
  /\ offlineQueue' = [offlineQueue EXCEPT ![p] = <<>>]
  /\ submitting' = [submitting EXCEPT ![p] = FALSE]
  /\ scanner' = [scanner EXCEPT ![p] = NoScanner]
  /\ sent' = [sent EXCEPT ![p] = {}]
  /\ sync' = [sync EXCEPT ![p] = NoSync]
  /\ UNCHANGED <<up, stored, fate, flips, opens>>

Flip ==
  /\ flips < MaxFlips
  /\ up' = ~up /\ flips' = flips + 1
  /\ UNCHANGED <<stored, open, ready, isOnline, offlineQueue, submitting, scanner, sent, sync, fate, opens>>

\* Mutant: the effect depends on the length of the queue alone.
NoticeOnly(p) ==
  /\ open[p] /\ isOnline[p] # up
  /\ isOnline' = [isOnline EXCEPT ![p] = up]
  /\ UNCHANGED <<up, stored, open, ready, offlineQueue, submitting, scanner, sent, sync, fate, flips, opens>>

\* The listener of "online" and "offline".
Notice(p) ==
  /\ open[p] /\ isOnline[p] # up
  /\ Render(p, up, offlineQueue[p], sync[p])
  /\ UNCHANGED <<up, stored, open, ready, submitting, scanner, sent, fate, flips, opens>>

-----------------------------------------------------------------------------
(* submitValue, from the form or from the scanner.                          *)

\* Nothing that could hold an older queue is under way when p queues an entry.
Quiet(p, others) ==
  /\ others = {} /\ scanner[p] = NoScanner
  /\ ~sync[p].busy
  /\ isOnline[p] = up
  /\ \A o \in Pages \ {p} : ~open[o]

\* Mutant: the queue is not cut.
QueueCheckinUncut(p, e, q, f) ==
  /\ stored' = <<e>> \o q
  /\ Render(p, isOnline[p], <<e>> \o q, sync[p])
  /\ fate' = [fate EXCEPT ![e] = f]

\* queueCheckin: the queue of the closure q with the new entry in front replaces both copies.
QueueCheckin(p, e, q, f) ==
  LET next == SubSeq(<<e>> \o q, 1, IF Len(q) < Cap THEN Len(q) + 1 ELSE Cap)
      over == ToSet(q) \ ToSet(next)
  IN
  /\ stored' = next
  /\ Render(p, isOnline[p], next, sync[p])
  /\ fate' = [x \in Entries |-> IF x = e THEN f
                                ELSE IF x \in over /\ fate[x] # "settled" THEN "excused"
                                ELSE fate[x]]

Promised(quiet) == IF quiet THEN "promised" ELSE "excused"

\* Entry e with the closure's connection and queue.
SubmitValue(p, e, online, q, quiet) ==
  /\ fate[e] = "new"
  /\ IF online
     THEN /\ sent' = [sent EXCEPT ![p] = @ \cup {[entry |-> e, queue |-> q]}]
          /\ submitting' = [submitting EXCEPT ![p] = TRUE]
          /\ fate' = [fate EXCEPT ![e] = "sent"]
          /\ UNCHANGED <<stored, isOnline, offlineQueue, sync>>
     ELSE QueueCheckin(p, e, q, Promised(quiet)) /\ UNCHANGED <<sent, submitting>>
  /\ UNCHANGED <<up, open, ready, flips, opens>>

\* handleCheckin: the form is disabled while something is submitted.
HandleCheckin(p, e) ==
  /\ ready[p] /\ ~submitting[p]
  /\ SubmitValue(p, e, isOnline[p], offlineQueue[p], Quiet(p, sent[p]))
  /\ UNCHANGED scanner

\* The effect on scannerOpen; bound: only while something is left to scan.
OpenScanner(p) ==
  /\ ready[p] /\ scanner[p] = NoScanner
  /\ \E e \in Scanned : fate[e] = "new"
  /\ scanner' = [scanner EXCEPT ![p] =
       [queue |-> offlineQueue[p], online |-> IF isOnline[p] THEN "yes" ELSE "no"]]
  /\ UNCHANGED <<up, stored, open, ready, isOnline, offlineQueue, submitting, sent, sync, fate, flips, opens>>

CloseScanner(p) ==
  /\ scanner[p] # NoScanner
  /\ scanner' = [scanner EXCEPT ![p] = NoScanner]
  /\ UNCHANGED <<up, stored, open, ready, isOnline, offlineQueue, submitting, sent, sync, fate, flips, opens>>

\* handleScannedValue closes the scanner and submits.
HandleScannedValue(p, e) ==
  /\ scanner[p] # NoScanner
  /\ scanner' = [scanner EXCEPT ![p] = NoScanner]
  /\ SubmitValue(p, e, scanner[p].online = "yes", scanner[p].queue, FALSE)

Finished(p, s) ==
  /\ sent' = [sent EXCEPT ![p] = @ \ {s}]
  /\ submitting' = [submitting EXCEPT ![p] = FALSE]
  /\ UNCHANGED <<up, open, ready, scanner, flips, opens>>

Recorded(p, s) ==
  /\ up
  /\ fate' = [fate EXCEPT ![s.entry] = "settled"]
  /\ Finished(p, s)
  /\ UNCHANGED <<stored, isOnline, offlineQueue, sync>>

\* Refused, timed out or cut off, in the last two cases perhaps after the server
\* has recorded it: queued if the connection is down now, else reported as failed.
Failed(p, s, recorded) ==
  /\ IF up
     THEN /\ fate' = [fate EXCEPT ![s.entry] = "settled"]
          /\ UNCHANGED <<stored, isOnline, offlineQueue, sync>>
     ELSE QueueCheckin(p, s.entry, s.queue,
            IF recorded THEN "settled" ELSE Promised(Quiet(p, sent[p] \ {s})))
  /\ Finished(p, s)

-----------------------------------------------------------------------------
(* syncQueue and clearQueue.                                                *)

ClickSync(p) ==
  /\ open[p] /\ isOnline[p] /\ up /\ ~sync[p].busy /\ offlineQueue[p] # <<>>
  /\ sync' = [sync EXCEPT ![p] = StartSync(offlineQueue[p])]
  /\ UNCHANGED <<up, stored, open, ready, isOnline, offlineQueue, submitting, scanner, sent, fate, flips, opens>>

SyncRecorded(p) ==
  /\ sync[p].rest # <<>> /\ up
  /\ fate' = [fate EXCEPT ![Head(sync[p].rest)] = "settled"]
  /\ sync' = [sync EXCEPT ![p].rest = Tail(@)]
  /\ UNCHANGED <<up, stored, open, ready, isOnline, offlineQueue, submitting, scanner, sent, flips, opens>>

Tried(e, recorded) ==
  fate' = [fate EXCEPT ![e] = IF recorded THEN "settled" ELSE IF @ = "promised" THEN "tried" ELSE @]

\* Refused, timed out or cut off.
SyncFailed(p, recorded) ==
  /\ sync[p].rest # <<>>
  /\ Tried(Head(sync[p].rest), recorded)
  /\ sync' = [sync EXCEPT ![p].rest = Tail(@), ![p].failed = <<Head(sync[p].rest)>> \o @]
  /\ UNCHANGED <<up, stored, open, ready, isOnline, offlineQueue, submitting, scanner, sent, flips, opens>>

\* What failed replaces both copies of the queue.
SyncEnd(p) ==
  /\ sync[p].busy /\ sync[p].rest = <<>>
  /\ stored' = sync[p].failed
  /\ Render(p, isOnline[p], sync[p].failed, NoSync)
  /\ UNCHANGED <<up, open, ready, submitting, scanner, sent, fate, flips, opens>>

ClearQueue(p) ==
  /\ offlineQueue[p] # <<>>
  /\ fate' = [e \in Entries |-> IF e \in ToSet(offlineQueue[p]) THEN "settled" ELSE fate[e]]
  /\ stored' = <<>>
  /\ Render(p, isOnline[p], <<>>, sync[p])
  /\ UNCHANGED <<up, open, ready, submitting, scanner, sent, flips, opens>>

-----------------------------------------------------------------------------

Page(p) ==
  \/ Open(p) \/ Close(p) \/ Notice(p)
  \/ \E e \in Typed : HandleCheckin(p, e)
  \/ \E e \in Scanned : HandleScannedValue(p, e)
  \/ OpenScanner(p) \/ CloseScanner(p)
  \/ \E s \in sent[p] : Recorded(p, s) \/ \E recorded \in BOOLEAN : Failed(p, s, recorded)
  \/ ClickSync(p) \/ SyncRecorded(p) \/ SyncEnd(p) \/ ClearQueue(p)
  \/ \E recorded \in BOOLEAN : SyncFailed(p, recorded)

Next == Flip \/ \E p \in Pages : Page(p)

Spec == Init /\ [][Next]_vars

-----------------------------------------------------------------------------
(* Properties.                                                              *)

Waiting(p) == offlineQueue[p] # <<>> /\ ~sync[p].busy

\* "Added to the offline queue. It will sync when the connection returns."
\* (frontend/src/locales/en.ts:3350): such an entry stays in the browser until the
\* server has it or someone clears the queue.
QueuedEntriesKept ==
  \A e \in Entries : fate[e] \in {"promised", "tried", "excused"} => e \in ToSet(stored)

\* What can go wrong needs an overlap: an entry queued while no synchronisation,
\* other check-in, open scanner or second page holds an older queue is never lost,
\* whatever is done afterwards, unless newer entries push it over the limit.
LostOnlyByOverlap ==
  \A e \in Entries : fate[e] \in {"promised", "tried"} => e \in ToSet(stored)

\* A page that is online does not sit on a queue it never tried to send: with
\* nothing under way, some entry was tried before, or was queued in an overlap.
OnlineQueueTried ==
  \A p \in Pages :
    open[p] /\ isOnline[p] /\ up /\ Waiting(p)
      => \E e \in ToSet(offlineQueue[p]) : fate[e] # "promised"
=============================================================================
