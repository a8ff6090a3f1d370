-------------------------- MODULE LivePresentation --------------------------
(***************************************************************************)
(* The slide of a live presentation, on its way from the remotes to the     *)
(* stage (backend/src/presentation_ws.py, presentation_api.py, cache.py;    *)
(* frontend/src/app/admin/events/[id]/presentations/[deckId]/present and    *)
(* remote, app/presenter/[token], app/audience/[token]).                    *)
(*                                                                          *)
(* The backend runs as several worker processes (docker-compose.yml:113).    *)
(* Each has its own cache, since the only implementation in cache.py is an  *)
(* in-process one, and its own sockets; a change that comes in by a socket  *)
(* reaches the sockets of the other workers through Redis.  A request goes  *)
(* to any worker.  A slide is known by the click that chose it.             *)
(*                                                                          *)
(* Left out: what a remote shows itself, where the pointer is, the access    *)
(* tokens, the six hours after which a cached slide is forgotten, clients    *)
(* too slow to be sent to.                                                  *)
(***************************************************************************)
EXTENDS Integers, SequencesExt

CONSTANTS
  Nodes,       \* worker processes
  Remotes,     \* pages that change slides
  Screens,     \* stage pages; one that has not connected behaves like an audience page
  MaxClicks,   \* bound: slides chosen
  MaxUpsets    \* bound: polls, pointer messages, lost connections and failures of Redis

Clients == Remotes \cup Screens
NoWorker == "none"

ASSUME LivePresentationAssumption ==
  /\ Remotes \cap Screens = {} /\ NoWorker \notin Nodes
  /\ {MaxClicks, MaxUpsets} \subseteq Nat

VARIABLES
  cache,     \* cache[n]: the slide in worker n's memory
  room,      \* room[n]: manager._rooms, the clients whose socket n serves
  greeted,   \* clients that were sent the initial state
  pinging,   \* pinging[n]: the client whose socket waits for Redis to answer n
  sub,       \* sub[l]: the subscription of loop l, "none", "starting", "on" or "failed"
  canPublish,\* canPublish[n]: not manager._redis_failed
  publishing,\* publishing[r]: what the handler of r's socket is publishing
  inbox,     \* inbox[r]: messages from r to its worker
  queue,     \* queue[l]: messages from Redis to loop l
  wire,      \* wire[s]: messages from s's worker to s
  tried,     \* clients that have opened their socket; they never open a second one
  connected, \* connected[c]: wsConnected on page c
  shown,     \* shown[s]: slideIndex on page s
  polls,     \* polls[s]: answers of getPresentationSession on their way
  patches,   \* updates sent by HTTP and not stored yet
  order,     \* history: the slides in the order they were stored
  author,    \* history: the worker that stored the last one
  excused,   \* history: screens that something may have kept from the last slide
  clicks,    \* slides chosen so far
  upsets     \* polls, pointer messages, lost connections and failures of Redis so far

vars == <<cache, room, greeted, pinging, sub, canPublish, publishing, inbox, queue, wire,
          tried, connected, shown, polls, patches, order, author, excused, clicks, upsets>>
server == <<cache, room, greeted, pinging, sub, canPublish, publishing, queue>>
pages  == <<connected, shown, polls>>

First == 0                \* the slide shown before any was chosen
Clicks == 1 .. MaxClicks
Slides == {First} \cup Clicks
Pointer == 0              \* in an inbox: a pointer message
Nothing == [node |-> NoWorker, slide |-> First]

\* _pubsub_loop, which a worker may run twice: <<n, 1>> is started by the first socket of
\* worker n, when Redis has answered, and <<n, 2>> by a socket that comes before it has.
Loops == Nodes \X {1, 2}
At(l) == l[1]
LoopsOf(n) == {l \in Loops : At(l) = n}

LastSlide == IF order = <<>> THEN First ELSE order[Len(order)]
Joined(c) == \E n \in Nodes : c \in room[n]

TypeOK ==
  /\ cache \in [Nodes -> Slides] /\ room \in [Nodes -> SUBSET Clients]
  /\ greeted \subseteq tried /\ tried \subseteq Clients
  /\ \A m, n \in Nodes : m # n => room[m] \cap room[n] = {}
  /\ pinging \in [Nodes -> SUBSET tried] /\ canPublish \in [Nodes -> BOOLEAN]
  /\ sub \in [Loops -> {"none", "starting", "on", "failed"}]
  /\ \A r \in Remotes : publishing[r] = Nothing \/ publishing[r] \in [node : Nodes, slide : Slides]
  /\ \A l \in Loops : queue[l] # <<>> => sub[l] = "on"
  /\ \A s \in Screens : connected[s] => polls[s] = {}
  /\ \A s \in Screens : ~Joined(s) => wire[s] = <<>>
  /\ \A c \in Clients : connected[c] => Joined(c)
  /\ shown \in [Screens -> Slides] /\ polls \in [Screens -> SUBSET Slides]
  /\ patches \subseteq Clicks /\ ToSet(order) \subseteq Clicks /\ IsInjective(order)
  /\ excused \subseteq Screens
  /\ clicks \in 0 .. MaxClicks /\ upsets \in 0 .. MaxUpsets

Init ==
  /\ cache = [n \in Nodes |-> First] /\ room = [n \in Nodes |-> {}] /\ greeted = {}
  /\ pinging = [n \in Nodes |-> {}] /\ sub = [l \in Loops |-> "none"]
  /\ canPublish = [n \in Nodes |-> TRUE] /\ publishing = [r \in Remotes |-> Nothing]
  /\ inbox = [r \in Remotes |-> <<>>] /\ queue = [l \in Loops |-> <<>>]
  /\ wire = [s \in Screens |-> <<>>] /\ tried = {}
  /\ connected = [c \in Clients |-> FALSE] /\ shown = [s \in Screens |-> First]
  /\ polls = [s \in Screens |-> {}] /\ patches = {}
  /\ order = <<>> /\ author = NoWorker /\ excused = {}
  /\ clicks = 0 /\ upsets = 0

-----------------------------------------------------------------------------
(* The worker's side of a socket.                                           *)

\* broadcast_local
BroadcastLocal(n, slide) ==
  wire' = [s \in Screens |-> IF s \in room[n] THEN Append(wire[s], slide) ELSE wire[s]]

\* Everything sent so far has arrived.
Settled ==
  /\ \A r \in Remotes : publishing[r] = Nothing
  /\ \A l \in Loops : queue[l] = <<>>

\* Worker n accepts the socket of c, and ensure_pubsub asks redis() for a connection.
\* The first socket waits for the answer to its ping; one that comes meanwhile is given
\* the connection at once, and starts a loop.
Connect(c, n) ==
  LET first == canPublish[n] /\ \A l \in LoopsOf(n) : sub[l] = "none" IN
  /\ c \notin tried /\ tried' = tried \cup {c}
  /\ room' = [room EXCEPT ![n] = @ \cup {c}]
  /\ pinging' = IF first /\ pinging[n] = {} THEN [pinging EXCEPT ![n] = {c}] ELSE pinging
  /\ sub' = IF first /\ pinging[n] # {} THEN [sub EXCEPT ![<<n, 2>>] = "starting"] ELSE sub
  /\ UNCHANGED <<cache, greeted, canPublish, publishing, inbox, queue, wire, pages, patches,
                 order, author, excused, clicks, upsets>>

\* The loop of the first socket ends at once if an error of Redis was met meanwhile.
PingAnswered(n) ==
  /\ pinging[n] # {} /\ pinging' = [pinging EXCEPT ![n] = {}]
  /\ sub' = [sub EXCEPT ![<<n, 1>>] = IF canPublish[n] THEN "starting" ELSE "failed"]
  /\ UNCHANGED <<cache, room, greeted, canPublish, publishing, inbox, queue, wire, tried,
                 pages, patches, order, author, excused, clicks, upsets>>

PingFails(n) ==
  /\ pinging[n] # {} /\ pinging' = [pinging EXCEPT ![n] = {}]
  /\ upsets < MaxUpsets /\ upsets' = upsets + 1
  /\ canPublish' = [canPublish EXCEPT ![n] = FALSE]
  /\ UNCHANGED <<cache, room, greeted, sub, publishing, inbox, queue, wire, tried, pages,
                 patches, order, author, excused, clicks>>

\* The initial state, from the memory of the worker.
Greet(c, n) ==
  /\ c \in room[n] \ (greeted \cup pinging[n]) /\ greeted' = greeted \cup {c}
  /\ wire' = [s \in Screens |-> IF s = c THEN Append(wire[s], cache[n]) ELSE wire[s]]
  /\ excused' = IF c \in Screens /\ author \notin {n, NoWorker} THEN excused \cup {c} ELSE excused
  /\ UNCHANGED <<cache, room, pinging, sub, canPublish, publishing, inbox, queue, tried,
                 pages, patches, order, author, clicks, upsets>>

\* Another change is on its way and may overtake this one, or be overtaken.
Overlap(r, n) ==
  \/ \E l \in LoopsOf(n) : queue[l] # <<>>
  \/ \E q \in Remotes \ {r} : publishing[q] # Nothing

\* presentation_control_ws: a slide is stored and sent to the sockets of the
\* worker; its publication is awaited.  Where nothing interferes this repairs
\* every screen that has seen all that was sent to it.
ReceiveSlide(r, n) ==
  LET slide == Head(inbox[r]) IN
  /\ r \in room[n] \cap greeted /\ publishing[r] = Nothing
  /\ inbox[r] # <<>> /\ slide # Pointer
  /\ inbox' = [inbox EXCEPT ![r] = Tail(@)]
  /\ cache' = [cache EXCEPT ![n] = slide]
  /\ order' = Append(order, slide) /\ author' = n
  /\ BroadcastLocal(n, slide)
  /\ publishing' = IF canPublish[n] THEN [publishing EXCEPT ![r] = [node |-> n, slide |-> slide]]
                   ELSE publishing
  /\ excused' = IF Overlap(r, n) \/ ~canPublish[n] THEN Screens
                ELSE IF Settled THEN {s \in excused : ~Joined(s) \/ wire[s] # <<>>} ELSE excused
  /\ UNCHANGED <<room, greeted, pinging, sub, canPublish, queue, tried, pages, patches,
                 clicks, upsets>>

\* A pointer message is sent on with the slide the worker has in memory.
ReceivePointer(r, n) ==
  /\ r \in room[n] \cap greeted /\ publishing[r] = Nothing
  /\ inbox[r] # <<>> /\ Head(inbox[r]) = Pointer
  /\ inbox' = [inbox EXCEPT ![r] = Tail(@)]
  /\ BroadcastLocal(n, cache[n])
  /\ publishing' = IF canPublish[n] THEN [publishing EXCEPT ![r] = [node |-> n, slide |-> cache[n]]]
                   ELSE publishing
  /\ excused' = IF Overlap(r, n) \/ author \notin {n, NoWorker} THEN Screens ELSE excused
  /\ UNCHANGED <<cache, room, greeted, pinging, sub, canPublish, queue, tried, pages,
                 patches, order, author, clicks, upsets>>

\* Redis hands the message to every subscription; whoever is not subscribed misses it.
Publish(r) ==
  LET msg == publishing[r]
      others == {l \in Loops : At(l) # msg.node /\ sub[l] = "on"}
      missing == UNION {room[m] : m \in Nodes \ ({msg.node} \cup {At(l) : l \in others})}
  IN
  /\ msg # Nothing
  /\ publishing' = [publishing EXCEPT ![r] = Nothing]
  /\ queue' = [l \in Loops |-> IF l \in others THEN Append(queue[l], msg.slide) ELSE queue[l]]
  /\ excused' = excused \cup (missing \cap Screens)
  /\ UNCHANGED <<cache, room, greeted, pinging, sub, canPublish, inbox, wire, tried, pages,
                 patches, order, author, clicks, upsets>>

\* An error of Redis is remembered for good.
PublishFails(r) ==
  /\ publishing[r] # Nothing /\ upsets < MaxUpsets /\ upsets' = upsets + 1
  /\ canPublish' = [canPublish EXCEPT ![publishing[r].node] = FALSE]
  /\ publishing' = [publishing EXCEPT ![r] = Nothing]
  /\ excused' = Screens
  /\ UNCHANGED <<cache, room, greeted, pinging, sub, inbox, queue, wire, tried, pages,
                 patches, order, author, clicks>>

\* A loop subscribes, or finds that an error of Redis was met.
Subscribe(l) ==
  /\ sub[l] = "starting"
  /\ \/ sub' = [sub EXCEPT ![l] = "on"]
     \/ ~canPublish[At(l)] /\ sub' = [sub EXCEPT ![l] = "failed"]
  /\ UNCHANGED <<cache, room, greeted, pinging, canPublish, publishing, inbox, queue, wire,
                 tried, pages, patches, order, author, excused, clicks, upsets>>

\* Mutant: each message is sent on by a task of its own.
DeliverUnordered(l) ==
  \E i \in DOMAIN queue[l] :
    /\ queue' = [queue EXCEPT ![l] = RemoveAt(@, i)]
    /\ BroadcastLocal(At(l), queue[l][i])
    /\ UNCHANGED <<cache, room, greeted, pinging, sub, canPublish, publishing, inbox, tried,
                   pages, patches, order, author, excused, clicks, upsets>>

Deliver(l) ==
  /\ queue[l] # <<>>
  /\ queue' = [queue EXCEPT ![l] = Tail(@)]
  /\ BroadcastLocal(At(l), Head(queue[l]))
  /\ UNCHANGED <<cache, room, greeted, pinging, sub, canPublish, publishing, inbox, tried,
                 pages, patches, order, author, excused, clicks, upsets>>

SubscriptionFails(l) ==
  /\ sub[l] \in {"starting", "on"} /\ upsets < MaxUpsets /\ upsets' = upsets + 1
  /\ sub' = [sub EXCEPT ![l] = "failed"]
  /\ canPublish' = [canPublish EXCEPT ![At(l)] = FALSE]
  /\ queue' = [queue EXCEPT ![l] = <<>>]
  /\ excused' = Screens
  /\ UNCHANGED <<cache, room, greeted, pinging, publishing, inbox, wire, tried, pages,
                 patches, order, author, clicks>>

\* The connection of c is lost, with what was on its way; the page sees onclose.
Disconnect(c, n) ==
  /\ c \in room[n] /\ upsets < MaxUpsets /\ upsets' = upsets + 1
  /\ room' = [room EXCEPT ![n] = @ \ {c}]
  /\ wire' = [s \in Screens |-> IF s = c THEN <<>> ELSE wire[s]]
  /\ inbox' = [r \in Remotes |-> IF r = c THEN <<>> ELSE inbox[r]]
  /\ connected' = [connected EXCEPT ![c] = FALSE]
  /\ UNCHANGED <<cache, greeted, pinging, sub, canPublish, publishing, queue, tried, shown,
                 polls, patches, order, author, excused, clicks>>

-----------------------------------------------------------------------------
(* The HTTP session endpoints.                                              *)

\* A stored update is not broadcast.
Patch(slide, n) ==
  /\ slide \in patches /\ patches' = patches \ {slide}
  /\ cache' = [cache EXCEPT ![n] = slide]
  /\ order' = Append(order, slide) /\ author' = n
  /\ excused' = Screens
  /\ UNCHANGED <<room, greeted, pinging, sub, canPublish, publishing, inbox, queue, wire,
                 tried, pages, clicks, upsets>>

\* The interval of 180 ms on a stage without a socket: another request to some worker.
Poll(s, n) ==
  /\ ~connected[s] /\ upsets < MaxUpsets /\ upsets' = upsets + 1
  /\ polls' = [polls EXCEPT ![s] = @ \cup {cache[n]}]
  /\ UNCHANGED <<server, inbox, wire, tried, connected, shown, patches, order, author,
                 excused, clicks>>

PollAnswered(s, slide) ==
  /\ slide \in polls[s]
  /\ polls' = [polls EXCEPT ![s] = @ \ {slide}]
  /\ shown' = [shown EXCEPT ![s] = slide]
  /\ UNCHANGED <<server, inbox, wire, tried, connected, patches, order, author, excused,
                 clicks, upsets>>

-----------------------------------------------------------------------------
(* The pages.                                                               *)

\* go: by the socket if it is open, else by HTTP.
Go(r) ==
  /\ clicks < MaxClicks /\ clicks' = clicks + 1
  /\ IF connected[r]
     THEN inbox' = [inbox EXCEPT ![r] = Append(@, clicks')] /\ UNCHANGED patches
     ELSE patches' = patches \cup {clicks'} /\ UNCHANGED inbox
  /\ UNCHANGED <<server, wire, tried, pages, order, author, excused, upsets>>

\* sendPointer; by HTTP it does not touch the slide.
Point(r) ==
  /\ connected[r] /\ upsets < MaxUpsets /\ upsets' = upsets + 1
  /\ inbox' = [inbox EXCEPT ![r] = Append(@, Pointer)]
  /\ UNCHANGED <<server, wire, tried, pages, patches, order, author, excused, clicks>>

\* Mutant: a poll that is answered late is not dropped.
OnOpenKeepsPolls(c) ==
  /\ Joined(c) /\ ~connected[c]
  /\ connected' = [connected EXCEPT ![c] = TRUE]
  /\ UNCHANGED <<server, inbox, wire, tried, shown, polls, patches, order, author, excused,
                 clicks, upsets>>

\* onopen; on a stage it ends the polling, and the answers under way are dropped.
OnOpen(c) ==
  /\ Joined(c) /\ ~connected[c]
  /\ connected' = [connected EXCEPT ![c] = TRUE]
  /\ polls' = [s \in Screens |-> IF s = c THEN {} ELSE polls[s]]
  /\ UNCHANGED <<server, inbox, wire, tried, shown, patches, order, author, excused, clicks,
                 upsets>>

\* onmessage on a stage: every kind of message carries a slide.
OnMessage(s) ==
  /\ connected[s] /\ wire[s] # <<>>
  /\ wire' = [wire EXCEPT ![s] = Tail(@)]
  /\ shown' = [shown EXCEPT ![s] = Head(wire[s])]
  /\ UNCHANGED <<server, inbox, tried, connected, polls, patches, order, author, excused,
                 clicks, upsets>>

-----------------------------------------------------------------------------

Worker(n) ==
  \/ \E c \in Clients : Connect(c, n) \/ Greet(c, n) \/ Disconnect(c, n)
  \/ \E r \in Remotes : ReceiveSlide(r, n) \/ ReceivePointer(r, n)
  \/ PingAnswered(n) \/ PingFails(n)
  \/ \E l \in LoopsOf(n) : Subscribe(l) \/ Deliver(l) \/ SubscriptionFails(l)
  \/ \E slide \in patches : Patch(slide, n)
  \/ \E s \in Screens : Poll(s, n)

Stage(s) == OnMessage(s) \/ \E slide \in polls[s] : PollAnswered(s, slide)

Next ==
  \/ \E n \in Nodes : Worker(n)
  \/ \E r \in Remotes : Go(r) \/ Point(r) \/ Publish(r) \/ PublishFails(r)
  \/ \E s \in Screens : Stage(s)
  \/ \E c \in Clients : OnOpen(c)

Spec == Init /\ [][Next]_vars

-----------------------------------------------------------------------------
(* Properties.                                                              *)

\* A stage with an open socket shows the last slide chosen as soon as everything
\* sent has arrived, and the next undisturbed slide repairs one that did not; the
\* exceptions are those recorded in excused: an update by HTTP, a worker that is
\* greeted or pointed at without having stored the last slide, one not subscribed,
\* an error of Redis, and two changes on their way at once.
StageShowsLast ==
  \A s \in Screens \ excused :
    connected[s] /\ s \in greeted /\ wire[s] = <<>> /\ Settled => shown[s] = LastSlide

Rank(slide) == IF slide = First THEN 0 ELSE CHOOSE i \in DOMAIN order : order[i] = slide

\* A worker with two subscriptions sends everything it is told twice.
Doubled(n) == \A l \in LoopsOf(n) : sub[l] = "on"

\* The messages on their way to a stage carry slides in the order in which these
\* were stored: the stage does not jump back, but for the same exceptions, and where
\* the worker has come to have two subscriptions.
StageInOrder ==
  \A n \in {x \in Nodes : ~Doubled(x)} : \A s \in (Screens \cap room[n]) \ excused :
    \A i, j \in DOMAIN wire[s] : i < j => Rank(wire[s][i]) <= Rank(wire[s][j])
=============================================================================
