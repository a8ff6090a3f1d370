----------------------- MODULE LivePresentation_proofs -----------------------
(***************************************************************************)
(* Proofs about LivePresentation, for every value of its constants.          *)
(***************************************************************************)
EXTENDS LivePresentation, SequenceTheorems, TLAPS

-----------------------------------------------------------------------------
(* Slides in the order in which they were stored.                           *)

KnownIn(stored) == {First} \cup ToSet(stored)
LastIn(stored) == IF stored = <<>> THEN First ELSE stored[Len(stored)]
RankIn(stored, slide) ==
  IF slide = First THEN 0 ELSE CHOOSE i \in DOMAIN stored : stored[i] = slide

\* A queue of slides none of which comes before an older one.
InOrder(stored, q) ==
  \A i, j \in DOMAIN q : i < j => RankIn(stored, q[i]) <= RankIn(stored, q[j])

\* The model's operators are these, for the slides that are stored.
LEMMA OfTheModel == LastSlide = LastIn(order) /\ \A x : Rank(x) = RankIn(order, x)
BY DEF LastSlide, LastIn, Rank, RankIn

\* A message more at the end of a channel,
LEMMA AppendFacts ==
  ASSUME NEW S, NEW q \in Seq(S), NEW x \in S
  PROVE  /\ Append(q, x) \in Seq(S) /\ Append(q, x) # <<>>
         /\ Len(q) \in Nat /\ Len(Append(q, x)) = Len(q) + 1
         /\ DOMAIN q = 1 .. Len(q) /\ DOMAIN Append(q, x) = 1 .. Len(q) + 1
         /\ \A i \in 1 .. Len(q) : Append(q, x)[i] = q[i]
         /\ Append(q, x)[Len(q) + 1] = x
         /\ ToSet(Append(q, x)) = ToSet(q) \cup {x}
<1>1. /\ Append(q, x) \in Seq(S) /\ Append(q, x) # <<>>
      /\ Len(q) \in Nat /\ Len(Append(q, x)) = Len(q) + 1
      /\ DOMAIN q = 1 .. Len(q) /\ DOMAIN Append(q, x) = 1 .. Len(q) + 1
      /\ \A i \in 1 .. Len(q) : Append(q, x)[i] = q[i]
      /\ Append(q, x)[Len(q) + 1] = x
  OBVIOUS
<1> DEFINE p == Append(q, x)
<1>2. p[Len(q) + 1] = x /\ DOMAIN p = 1 .. Len(q) + 1 /\ \A i \in 1 .. Len(q) : p[i] = q[i]
  BY <1>1
<1> HIDE DEF p
<1>3. ToSet(p) = ToSet(q) \cup {x}
  <2>1. ASSUME NEW y \in ToSet(p)
        PROVE  y \in ToSet(q) \cup {x}
    <3>1. PICK i \in 1 .. Len(q) + 1 : y = p[i]
      BY <1>2, <2>1 DEF ToSet
    <3>2. CASE i = Len(q) + 1
      BY <1>2, <3>1, <3>2
    <3>3. CASE i # Len(q) + 1
      BY <1>1, <1>2, <3>1, <3>3 DEF ToSet
    <3> QED
      BY <3>2, <3>3
  <2>2. ToSet(q) \subseteq ToSet(p)
    BY <1>1, <1>2 DEF ToSet
  <2>3. x \in ToSet(p)
    BY <1>1, <1>2 DEF ToSet
  <2> QED
    BY <2>1, <2>2, <2>3
<1> QED
  BY <1>1, <1>3 DEF p

\* and one less at its head.
LEMMA TailFacts ==
  ASSUME NEW S, NEW q \in Seq(S), q # <<>>
  PROVE  /\ Tail(q) \in Seq(S) /\ Head(q) \in S /\ Head(q) = q[1]
         /\ Len(q) \in Nat \ {0} /\ Len(Tail(q)) = Len(q) - 1
         /\ DOMAIN q = 1 .. Len(q) /\ DOMAIN Tail(q) = 1 .. Len(q) - 1
         /\ \A i \in 1 .. Len(q) - 1 : Tail(q)[i] = q[i + 1]
         /\ ToSet(Tail(q)) \subseteq ToSet(q) /\ Head(q) \in ToSet(q)
<1>1. /\ Tail(q) \in Seq(S) /\ Head(q) \in S /\ Head(q) = q[1]
      /\ Len(q) \in Nat \ {0} /\ Len(Tail(q)) = Len(q) - 1
      /\ DOMAIN q = 1 .. Len(q) /\ DOMAIN Tail(q) = 1 .. Len(q) - 1
      /\ \A i \in 1 .. Len(q) - 1 : Tail(q)[i] = q[i + 1]
  OBVIOUS
<1> DEFINE p == Tail(q)
<1>2. DOMAIN p = 1 .. Len(q) - 1 /\ \A i \in 1 .. Len(q) - 1 : p[i] = q[i + 1]
  BY <1>1
<1> HIDE DEF p
<1>3. ToSet(p) \subseteq ToSet(q)
  <2>1. \A i \in 1 .. Len(q) - 1 : i + 1 \in DOMAIN q
    BY <1>1
  <2> QED
    BY <1>2, <2>1 DEF ToSet
<1>4. Head(q) \in ToSet(q)
  BY <1>1 DEF ToSet
<1> QED
  BY <1>1, <1>3, <1>4 DEF p

\* The last message is the last of the rest, if there is a rest.
LEMMA LastOfTail ==
  ASSUME NEW S, NEW q \in Seq(S), q # <<>>
  PROVE  IF Tail(q) = <<>> THEN Head(q) = q[Len(q)]
         ELSE Tail(q)[Len(Tail(q))] = q[Len(q)]
<1>1. CASE Tail(q) = <<>>
  <2>1. Len(Tail(q)) = 0
    BY <1>1, EmptySeq
  <2>2. Len(q) = 1
    BY <2>1, TailFacts
  <2> QED
    BY <1>1, <2>2, TailFacts
<1>2. CASE Tail(q) # <<>>
  <2>1. Len(Tail(q)) # 0 /\ Len(Tail(q)) = Len(q) - 1 /\ Len(q) \in Nat \ {0}
    BY <1>2, TailFacts, EmptySeq
  <2>2. Tail(q)[Len(q) - 1] = q[Len(q)]
    BY <2>1, TailFacts
  <2> QED
    BY <1>2, <2>1, <2>2
<1> QED
  BY <1>1, <1>2

\* The rank of a slide is its place, and of the slide shown first 0.
LEMMA RankFacts ==
  ASSUME NEW stored \in Seq(Clicks), NEW x \in KnownIn(stored)
  PROVE  /\ RankIn(stored, x) \in 0 .. Len(stored)
         /\ x # First => RankIn(stored, x) \in 1 .. Len(stored) /\ stored[RankIn(stored, x)] = x
<1>1. CASE x = First
  BY <1>1 DEF RankIn
<1>2. CASE x # First
  <2>1. \E i \in DOMAIN stored : stored[i] = x
    BY <1>2 DEF KnownIn, ToSet
  <2>2. RankIn(stored, x) \in DOMAIN stored /\ stored[RankIn(stored, x)] = x
    BY <1>2, <2>1 DEF RankIn
  <2> QED
    BY <1>2, <2>2
<1> QED
  BY <1>1, <1>2

\* The last slide has the highest rank.
LEMMA LastFacts ==
  ASSUME NEW stored \in Seq(Clicks), IsInjective(stored), LivePresentationAssumption
  PROVE  /\ LastIn(stored) \in KnownIn(stored) /\ LastIn(stored) \in Slides
         /\ RankIn(stored, LastIn(stored)) = Len(stored)
         /\ \A x \in KnownIn(stored) : RankIn(stored, x) <= RankIn(stored, LastIn(stored))
<1>1. /\ LastIn(stored) \in KnownIn(stored) /\ LastIn(stored) \in Slides
      /\ RankIn(stored, LastIn(stored)) = Len(stored)
  <2>1. CASE stored = <<>>
    BY <2>1 DEF LastIn, KnownIn, RankIn, Slides
  <2>2. CASE stored # <<>>
    <3>1. Len(stored) \in 1 .. Len(stored) /\ DOMAIN stored = 1 .. Len(stored)
      BY <2>2
    <3>2. LastIn(stored) = stored[Len(stored)] /\ LastIn(stored) \in Clicks
      BY <2>2, <3>1 DEF LastIn
    <3>3. LastIn(stored) \in KnownIn(stored)
      BY <3>1, <3>2 DEF KnownIn, ToSet
    <3>4. LastIn(stored) # First
      BY <3>2, LivePresentationAssumption DEF Clicks, First, LivePresentationAssumption
    <3>5. RankIn(stored, LastIn(stored)) \in DOMAIN stored
          /\ stored[RankIn(stored, LastIn(stored))] = stored[Len(stored)]
      BY <3>1, <3>2, <3>3, <3>4, RankFacts
    <3>6. RankIn(stored, LastIn(stored)) = Len(stored)
      BY <3>1, <3>5 DEF IsInjective
    <3> QED
      BY <3>2, <3>3, <3>6 DEF Slides
  <2> QED
    BY <2>1, <2>2
<1>2. \A x \in KnownIn(stored) : RankIn(stored, x) <= Len(stored)
  BY RankFacts
<1> QED
  BY <1>1, <1>2

\* A slide stored next is the last one; the ranks of the others stay.
LEMMA StoredNext ==
  ASSUME NEW stored \in Seq(Clicks), IsInjective(stored), NEW x \in Clicks,
         x \notin ToSet(stored), LivePresentationAssumption
  PROVE  /\ Append(stored, x) \in Seq(Clicks) /\ IsInjective(Append(stored, x))
         /\ Append(stored, x) # <<>>
         /\ KnownIn(Append(stored, x)) = KnownIn(stored) \cup {x}
         /\ LastIn(Append(stored, x)) = x
         /\ \A y \in KnownIn(stored) : RankIn(Append(stored, x), y) = RankIn(stored, y)
<1> DEFINE longer == Append(stored, x)
           n == Len(stored)
<1>1. /\ longer \in Seq(Clicks) /\ longer # <<>> /\ n \in Nat /\ Len(longer) = n + 1
      /\ DOMAIN stored = 1 .. n /\ DOMAIN longer = 1 .. n + 1
      /\ \A i \in 1 .. n : longer[i] = stored[i]
      /\ longer[n + 1] = x
      /\ ToSet(longer) = ToSet(stored) \cup {x}
  BY AppendFacts
<1> HIDE DEF longer, n
<1>2. \A i \in 1 .. n : longer[i] # x
  BY <1>1 DEF ToSet
<1>3. IsInjective(longer)
  <2> SUFFICES ASSUME NEW i \in 1 .. n + 1, NEW j \in 1 .. n + 1, longer[i] = longer[j]
               PROVE  i = j
    BY <1>1 DEF IsInjective
  <2>1. CASE i \in 1 .. n /\ j \in 1 .. n
    BY <1>1, <2>1 DEF IsInjective
  <2>2. CASE i = n + 1 \/ j = n + 1
    BY <1>1, <1>2, <2>2
  <2> QED
    BY <1>1, <2>1, <2>2
<1>4. KnownIn(longer) = KnownIn(stored) \cup {x}
  BY <1>1 DEF KnownIn
<1>5. LastIn(longer) = x
  BY <1>1 DEF LastIn
<1>6. ASSUME NEW y \in KnownIn(stored)
      PROVE  RankIn(longer, y) = RankIn(stored, y)
  <2>1. CASE y = First
    BY <2>1 DEF RankIn
  <2>2. CASE y # First
    <3>1. RankIn(stored, y) \in 1 .. n /\ stored[RankIn(stored, y)] = y
      BY <2>2, RankFacts DEF n
    <3>2. RankIn(longer, y) \in 1 .. n + 1 /\ longer[RankIn(longer, y)] = y
      BY <1>1, <1>4, <2>2, RankFacts
    <3>3. longer[RankIn(stored, y)] = y /\ RankIn(stored, y) \in DOMAIN longer
      BY <1>1, <3>1
    <3> QED
      BY <1>1, <1>3, <3>2, <3>3 DEF IsInjective
  <2> QED
    BY <2>1, <2>2
<1> QED
  BY <1>1, <1>3, <1>4, <1>5, <1>6 DEF longer

\* What is in order stays so without its head, with the last slide at its end,
LEMMA InOrderTail ==
  ASSUME NEW stored, NEW q \in Seq(Slides), q # <<>>, InOrder(stored, q)
  PROVE  InOrder(stored, Tail(q))
<1>1. /\ Len(q) \in Nat /\ DOMAIN q = 1 .. Len(q) /\ DOMAIN Tail(q) = 1 .. Len(q) - 1
      /\ \A i \in 1 .. Len(q) - 1 : Tail(q)[i] = q[i + 1]
  BY TailFacts
<1> SUFFICES ASSUME NEW i \in 1 .. Len(q) - 1, NEW j \in 1 .. Len(q) - 1, i < j
             PROVE  RankIn(stored, Tail(q)[i]) <= RankIn(stored, Tail(q)[j])
  BY <1>1 DEF InOrder
<1>2. i + 1 \in DOMAIN q /\ j + 1 \in DOMAIN q /\ i + 1 < j + 1
  BY <1>1
<1>3. RankIn(stored, q[i + 1]) <= RankIn(stored, q[j + 1])
  BY <1>2 DEF InOrder
<1> QED
  BY <1>1, <1>3

LEMMA InOrderAppend ==
  ASSUME NEW stored, NEW q \in Seq(Slides), NEW x \in Slides, InOrder(stored, q),
         \A y \in ToSet(q) : RankIn(stored, y) <= RankIn(stored, x)
  PROVE  InOrder(stored, Append(q, x))
<1> DEFINE p == Append(q, x)
           n == Len(q)
<1>1. /\ n \in Nat /\ DOMAIN q = 1 .. n /\ DOMAIN p = 1 .. n + 1
      /\ \A i \in 1 .. n : p[i] = q[i]
      /\ p[n + 1] = x
  BY AppendFacts
<1> HIDE DEF p, n
<1> SUFFICES ASSUME NEW i \in 1 .. n + 1, NEW j \in 1 .. n + 1, i < j
             PROVE  RankIn(stored, p[i]) <= RankIn(stored, p[j])
  BY <1>1 DEF InOrder, p
<1>2. i \in 1 .. n /\ p[i] = q[i] /\ q[i] \in ToSet(q)
  BY <1>1 DEF ToSet
<1>3. CASE j = n + 1
  BY <1>1, <1>2, <1>3
<1>4. CASE j # n + 1
  <2>1. j \in 1 .. n /\ p[j] = q[j]
    BY <1>1, <1>4
  <2> QED
    BY <1>1, <1>2, <2>1 DEF InOrder
<1> QED
  BY <1>3, <1>4

\* and when one more is stored.
LEMMA InOrderStored ==
  ASSUME NEW stored, NEW longer, NEW q \in Seq(Slides), InOrder(stored, q),
         \A y \in ToSet(q) : RankIn(longer, y) = RankIn(stored, y)
  PROVE  InOrder(longer, q)
<1>1. \A i \in DOMAIN q : q[i] \in ToSet(q)
  BY DEF ToSet
<1> QED
  BY <1>1 DEF InOrder

-----------------------------------------------------------------------------
(* Channels.                                                                *)

Message == [node : Nodes, slide : Slides]

\* What TypeOK leaves open: what the channels carry.
ChannelsInv ==
  /\ inbox \in [Remotes -> Seq(Slides)] /\ queue \in [Loops -> Seq(Slides)]
  /\ wire \in [Screens -> Seq(Slides)] /\ order \in Seq(Clicks)
  /\ publishing \in [Remotes -> {Nothing} \cup Message]
  /\ connected \in [Clients -> BOOLEAN] /\ author \in Nodes \cup {NoWorker}
  /\ \A n \in Nodes : room[n] \subseteq tried
  /\ \A n \in Nodes : pinging[n] # {} => sub[<<n, 1>>] = "none"

\* A click is on its way in one place at most, and is stored once.
Sent(r) == ToSet(inbox[r]) \ {Pointer}
FreshInv ==
  /\ ToSet(order) \cup patches \subseteq 1 .. clicks
  /\ patches \cap ToSet(order) = {}
  /\ \A r \in Remotes :
       /\ Sent(r) \subseteq (1 .. clicks) \ (patches \cup ToSet(order))
       /\ \A i, j \in DOMAIN inbox[r] : i # j /\ inbox[r][i] = inbox[r][j] => inbox[r][i] = Pointer
       /\ \A q \in Remotes \ {r} : Sent(q) \cap Sent(r) = {}

\* The loops of a worker.
LEMMA LoopFacts ==
  /\ \A n \in Nodes : LoopsOf(n) = {<<n, 1>>, <<n, 2>>} /\ LoopsOf(n) \subseteq Loops
  /\ \A n \in Nodes : <<n, 1>> \in Loops /\ <<n, 2>> \in Loops /\ <<n, 1>> # <<n, 2>>
  /\ \A l \in Loops : At(l) \in Nodes /\ l \in LoopsOf(At(l))
  /\ \A n \in Nodes : \A l \in LoopsOf(n) : l \in Loops /\ At(l) = n
BY DEF Loops, LoopsOf, At

\* If one of them has something to deliver and the worker has no two subscriptions,
\* the other one has nothing.
LEMMA OnlyLoop ==
  ASSUME TypeOK, NEW n \in Nodes, ~Doubled(n), NEW l \in LoopsOf(n), queue[l] # <<>>
  PROVE  \A k \in LoopsOf(n) \ {l} : queue[k] = <<>>
<1>1. sub[l] = "on"
  BY LoopFacts DEF TypeOK
<1>2. PICK k \in LoopsOf(n) : sub[k] # "on"
  BY DEF Doubled
<1>3. queue[k] = <<>> /\ k # l
  BY <1>1, <1>2, LoopFacts DEF TypeOK
<1> QED
  BY <1>2, <1>3, LoopFacts

\* A client is connected to one worker.
LEMMA OneRoom ==
  ASSUME TypeOK, NEW m \in Nodes, NEW n \in Nodes, NEW c \in room[m], c \in room[n]
  PROVE  m = n
BY DEF TypeOK

\* What the worker's broadcast does to the sockets.
LEMMA Broadcast ==
  ASSUME TypeOK, ChannelsInv, NEW n \in Nodes, NEW x \in Slides, BroadcastLocal(n, x)
  PROVE  /\ wire' \in [Screens -> Seq(Slides)]
         /\ \A s \in Screens :
              wire'[s] = IF s \in room[n] THEN Append(wire[s], x) ELSE wire[s]
         /\ \A s \in Screens : ~Joined(s) => wire'[s] = <<>>
<1>1. \A s \in Screens : wire'[s] = IF s \in room[n] THEN Append(wire[s], x) ELSE wire[s]
  BY DEF BroadcastLocal
<1>2. \A s \in Screens : wire[s] \in Seq(Slides) /\ Append(wire[s], x) \in Seq(Slides)
  BY AppendFacts DEF ChannelsInv
<1>3. wire' \in [Screens -> Seq(Slides)]
  BY <1>1, <1>2 DEF BroadcastLocal
<1>4. \A s \in Screens : ~Joined(s) => wire'[s] = <<>>
  BY <1>1 DEF Joined, TypeOK
<1> QED
  BY <1>1, <1>3, <1>4

\* What reaches a worker from a remote, without the message.
LEMMA Received ==
  ASSUME ChannelsInv, FreshInv, NEW r \in Remotes, inbox[r] # <<>>,
         inbox' = [inbox EXCEPT ![r] = Tail(@)]
  PROVE  /\ inbox' \in [Remotes -> Seq(Slides)] /\ Head(inbox[r]) \in Slides
         /\ Sent(r)' \subseteq Sent(r) /\ \A q \in Remotes \ {r} : Sent(q)' = Sent(q)
         /\ \A q \in Remotes : \A i, j \in DOMAIN inbox'[q] :
              i # j /\ inbox'[q][i] = inbox'[q][j] => inbox'[q][i] = Pointer
         /\ Head(inbox[r]) # Pointer => Head(inbox[r]) \in Sent(r) \ Sent(r)'
<1> DEFINE box == inbox[r]
<1>1. /\ Tail(box) \in Seq(Slides) /\ Head(box) \in Slides /\ Head(box) = box[1]
      /\ Len(box) \in Nat \ {0}
      /\ DOMAIN box = 1 .. Len(box) /\ DOMAIN Tail(box) = 1 .. Len(box) - 1
      /\ \A i \in 1 .. Len(box) - 1 : Tail(box)[i] = box[i + 1]
      /\ ToSet(Tail(box)) \subseteq ToSet(box) /\ Head(box) \in ToSet(box)
  <2>1. box \in Seq(Slides) /\ box # <<>>
    BY DEF ChannelsInv
  <2> HIDE DEF box
  <2> QED
    BY <2>1, TailFacts
<1>2. /\ inbox' \in [Remotes -> Seq(Slides)] /\ inbox'[r] = Tail(box)
      /\ \A q \in Remotes \ {r} : inbox'[q] = inbox[q]
  BY <1>1 DEF ChannelsInv
<1>3. \A i, j \in DOMAIN box : i # j /\ box[i] = box[j] => box[i] = Pointer
  BY DEF FreshInv
<1> HIDE DEF box
<1>4. \A i, j \in DOMAIN Tail(box) :
        i # j /\ Tail(box)[i] = Tail(box)[j] => Tail(box)[i] = Pointer
  <2> SUFFICES ASSUME NEW i \in 1 .. Len(box) - 1, NEW j \in 1 .. Len(box) - 1,
                      i # j, box[i + 1] = box[j + 1]
               PROVE  box[i + 1] = Pointer
    BY <1>1
  <2>1. i + 1 \in DOMAIN box /\ j + 1 \in DOMAIN box /\ i + 1 # j + 1
    BY <1>1
  <2> QED
    BY <1>3, <2>1
<1>5. \A q \in Remotes : \A i, j \in DOMAIN inbox'[q] :
        i # j /\ inbox'[q][i] = inbox'[q][j] => inbox'[q][i] = Pointer
  BY <1>2, <1>4 DEF FreshInv
<1>6. ASSUME box[1] # Pointer
      PROVE  box[1] \notin ToSet(Tail(box))
  <2> SUFFICES ASSUME NEW i \in 1 .. Len(box) - 1, Tail(box)[i] = box[1]
               PROVE  FALSE
    BY <1>1 DEF ToSet
  <2>1. box[i + 1] = box[1] /\ i + 1 \in DOMAIN box /\ 1 \in DOMAIN box /\ i + 1 # 1
    BY <1>1
  <2> QED
    BY <1>3, <1>6, <2>1
<1>7. Sent(r) = ToSet(box) \ {Pointer} /\ Sent(r)' = ToSet(Tail(box)) \ {Pointer}
  BY <1>2 DEF Sent, box
<1>8. \A q \in Remotes \ {r} : Sent(q)' = Sent(q)
  BY <1>2 DEF Sent
<1> QED
  BY <1>1, <1>2, <1>5, <1>6, <1>7, <1>8 DEF box

\* A slide that arrives is new.
LEMMA ArrivesNew ==
  ASSUME TypeOK, ChannelsInv, FreshInv, NEW r \in Remotes, inbox[r] # <<>>,
         Head(inbox[r]) # Pointer
  PROVE  Head(inbox[r]) \in Clicks \ ToSet(order)
<1>1. Head(inbox[r]) \in Slides /\ Head(inbox[r]) \in ToSet(inbox[r])
  BY TailFacts DEF ChannelsInv
<1>2. Head(inbox[r]) \in Sent(r)
  BY <1>1 DEF Sent
<1>3. Head(inbox[r]) # First
  BY DEF First, Pointer
<1> QED
  BY <1>1, <1>2, <1>3 DEF FreshInv, Slides

\* A patch, too.
LEMMA PatchNew ==
  ASSUME TypeOK, FreshInv, NEW slide \in patches
  PROVE  slide \in Clicks \ ToSet(order)
BY DEF TypeOK, FreshInv


\* What holds of the channels holds as long as nothing of them changes.
LEMMA FreshStays ==
  ASSUME FreshInv, UNCHANGED <<inbox, order, patches, clicks>>
  PROVE  FreshInv'
<1>1. \A r \in Remotes : Sent(r)' = Sent(r)
  BY DEF Sent
<1> QED
  BY <1>1 DEF FreshInv

\* A message received, and what it was about stored or not.
LEMMA FreshReceived ==
  ASSUME ChannelsInv, FreshInv, NEW r \in Remotes, inbox[r] # <<>>,
         inbox' = [inbox EXCEPT ![r] = Tail(@)], UNCHANGED <<patches, clicks>>,
         \/ UNCHANGED order
         \/ Head(inbox[r]) # Pointer /\ order' = Append(order, Head(inbox[r]))
            /\ Head(inbox[r]) \in Clicks
  PROVE  FreshInv'
<1>1. /\ Sent(r)' \subseteq Sent(r) /\ \A q \in Remotes \ {r} : Sent(q)' = Sent(q)
      /\ \A q \in Remotes : \A i, j \in DOMAIN inbox'[q] :
           i # j /\ inbox'[q][i] = inbox'[q][j] => inbox'[q][i] = Pointer
      /\ Head(inbox[r]) # Pointer => Head(inbox[r]) \in Sent(r) \ Sent(r)'
  BY Received
<1>2. ToSet(order') = ToSet(order)
      \/ (Head(inbox[r]) # Pointer /\ ToSet(order') = ToSet(order) \cup {Head(inbox[r])})
  <2> DEFINE slide == Head(inbox[r])
  <2>1. order \in Seq(Clicks)
    BY DEF ChannelsInv
  <2>2. order' = order \/ (slide # Pointer /\ order' = Append(order, slide) /\ slide \in Clicks)
    OBVIOUS
  <2> HIDE DEF slide
  <2>3. ASSUME slide \in Clicks
        PROVE  ToSet(Append(order, slide)) = ToSet(order) \cup {slide}
    BY <2>1, <2>3, AppendFacts
  <2>4. ToSet(order') = ToSet(order)
        \/ (slide # Pointer /\ ToSet(order') = ToSet(order) \cup {slide})
    BY <2>2, <2>3
  <2> QED
    BY <2>4 DEF slide
<1>3. \A q \in Remotes : Sent(q)' \subseteq Sent(q)
  BY <1>1
<1>4. \A q, p \in Remotes : q # p => Sent(q) \cap Sent(p) = {}
  BY DEF FreshInv
<1>5. \A q \in Remotes : Sent(q)' \subseteq (1 .. clicks) \ (patches \cup ToSet(order'))
  <2> SUFFICES ASSUME NEW q \in Remotes, NEW x \in Sent(q)'
               PROVE  x \in (1 .. clicks) \ (patches \cup ToSet(order'))
    OBVIOUS
  <2>1. x \in Sent(q) /\ x \in (1 .. clicks) \ (patches \cup ToSet(order))
    BY <1>3 DEF FreshInv
  <2>2. Head(inbox[r]) # Pointer => x # Head(inbox[r])
    BY <1>1, <1>4, <2>1
  <2> QED
    BY <1>2, <2>1, <2>2
<1>6. ToSet(order') \cup patches \subseteq 1 .. clicks /\ patches \cap ToSet(order') = {}
  <2>1. Head(inbox[r]) # Pointer => Head(inbox[r]) \in (1 .. clicks) \ patches
    BY <1>1 DEF FreshInv
  <2> QED
    BY <1>2, <2>1 DEF FreshInv
<1>7. \A q \in Remotes : \A p \in Remotes \ {q} : Sent(p)' \cap Sent(q)' = {}
  BY <1>3, <1>4
<1> QED
  BY <1>1, <1>5, <1>6, <1>7 DEF FreshInv

-----------------------------------------------------------------------------
(* Every step keeps the types and what the channels carry.                  *)

StateInv == TypeOK /\ ChannelsInv /\ FreshInv

LEMMA InitState == LivePresentationAssumption /\ Init => StateInv
<1> SUFFICES ASSUME LivePresentationAssumption, Init
             PROVE  StateInv
  OBVIOUS
<1> USE DEF First, Nothing, Slides
<1>1. order = <<>> /\ ToSet(order) = {} /\ order \in Seq(Clicks) /\ IsInjective(order)
  BY DEF Init, ToSet, IsInjective
<1>2. TypeOK
  BY <1>1 DEF Init, TypeOK, Joined, LivePresentationAssumption, Clicks, Clients
<1>3. ChannelsInv
  BY <1>1, LoopFacts DEF Init, ChannelsInv
<1>4. \A r \in Remotes : inbox[r] = <<>> /\ Sent(r) = {}
  BY DEF Init, Sent, ToSet
<1>5. FreshInv
  BY <1>1, <1>4 DEF Init, FreshInv
<1> QED
  BY <1>2, <1>3, <1>5 DEF StateInv

LEMMA ConnectState ==
  ASSUME StateInv, NEW n \in Nodes, NEW c \in Clients, Connect(c, n)
  PROVE  StateInv'
<1> USE DEF StateInv, pages
<1>1. /\ room' \in [Nodes -> SUBSET Clients]
      /\ room'[n] = room[n] \cup {c} /\ \A m \in Nodes \ {n} : room'[m] = room[m]
  BY DEF Connect, TypeOK
<1>2. /\ sub' \in [Loops -> {"none", "starting", "on", "failed"}]
      /\ \A l \in Loops : sub[l] = "on" => sub'[l] = "on"
      /\ pinging' \in [Nodes -> SUBSET tried']
      /\ \A m \in Nodes : pinging'[m] # {} => sub'[<<m, 1>>] = "none"
  <2>1. /\ <<n, 1>> \in Loops /\ <<n, 2>> \in Loops /\ \A l \in LoopsOf(n) : l \in Loops
        /\ \A m \in Nodes : <<m, 1>> # <<n, 2>> /\ <<m, 1>> \in Loops
    BY LoopFacts
  <2>2. /\ sub \in [Loops -> {"none", "starting", "on", "failed"}]
        /\ pinging \in [Nodes -> SUBSET tried] /\ tried' = tried \cup {c}
        /\ \A m \in Nodes : pinging[m] # {} => sub[<<m, 1>>] = "none"
    BY DEF Connect, TypeOK, ChannelsInv
  <2>3. \/ sub' = sub /\ pinging' = pinging
        \/ pinging' = [pinging EXCEPT ![n] = {c}] /\ sub[<<n, 1>>] = "none" /\ sub' = sub
        \/ pinging' = pinging /\ sub' = [sub EXCEPT ![<<n, 2>>] = "starting"]
             /\ sub[<<n, 2>>] = "none"
    BY LoopFacts DEF Connect
  <2> QED
    BY <2>1, <2>2, <2>3
<1>3. \A m \in Nodes : c \notin room[m]
  BY DEF Connect, ChannelsInv
<1>4. \A l, m \in Nodes : l # m => room'[l] \cap room'[m] = {}
  BY <1>1, <1>3 DEF TypeOK
<1>5. \A d \in Clients : Joined(d) => Joined(d)'
  BY <1>1 DEF Joined
<1>6. Screens \subseteq Clients
  BY DEF Clients
<1>7. TypeOK'
  <2>1. greeted' \subseteq tried' /\ tried' \subseteq Clients
    BY DEF Connect, TypeOK
  <2>2. \A l \in Loops : queue'[l] # <<>> => sub'[l] = "on"
    BY <1>2 DEF Connect, TypeOK
  <2>3. \A s \in Screens : ~Joined(s)' => wire'[s] = <<>>
    BY <1>5, <1>6 DEF Connect, TypeOK
  <2>4. \A d \in Clients : connected'[d] => Joined(d)'
    BY <1>5 DEF Connect, TypeOK
  <2> QED
    BY <1>1, <1>2, <1>4, <2>1, <2>2, <2>3, <2>4 DEF Connect, TypeOK
<1>8. ChannelsInv'
  BY <1>1, <1>2 DEF Connect, ChannelsInv
<1>9. FreshInv'
  BY FreshStays DEF Connect
<1> QED
  BY <1>7, <1>8, <1>9

LEMMA GreetState ==
  ASSUME StateInv, NEW n \in Nodes, NEW c \in Clients, Greet(c, n)
  PROVE  StateInv'
<1> USE DEF StateInv, pages
<1>1. \A s \in Screens : wire'[s] = IF s = c THEN Append(wire[s], cache[n]) ELSE wire[s]
  BY DEF Greet
<1>2. \A s \in Screens : wire[s] \in Seq(Slides) /\ Append(wire[s], cache[n]) \in Seq(Slides)
  BY AppendFacts DEF ChannelsInv, TypeOK
<1>3. wire' \in [Screens -> Seq(Slides)]
  BY <1>2 DEF Greet
<1>4. Joined(c) /\ c \in tried /\ \A d : Joined(d)' = Joined(d)
  BY DEF Greet, Joined, ChannelsInv
<1>5. \A s \in Screens : ~Joined(s)' => wire'[s] = <<>>
  BY <1>1, <1>4 DEF TypeOK
<1>6. TypeOK'
  BY <1>4, <1>5 DEF Greet, TypeOK
<1>7. ChannelsInv'
  BY <1>3 DEF Greet, ChannelsInv
<1>8. FreshInv'
  BY FreshStays DEF Greet
<1> QED
  BY <1>6, <1>7, <1>8

LEMMA DisconnectState ==
  ASSUME StateInv, NEW n \in Nodes, NEW c \in Clients, Disconnect(c, n)
  PROVE  StateInv'
<1> USE DEF StateInv, pages
<1>1. /\ room' \in [Nodes -> SUBSET Clients]
      /\ room'[n] = room[n] \ {c} /\ \A m \in Nodes \ {n} : room'[m] = room[m]
  BY DEF Disconnect, TypeOK
<1>2. \A d \in Clients \ {c} : Joined(d)' = Joined(d)
  BY <1>1 DEF Joined
<1>3. wire' \in [Screens -> Seq(Slides)]
      /\ \A s \in Screens : wire'[s] = IF s = c THEN <<>> ELSE wire[s]
  BY DEF Disconnect, ChannelsInv
<1>4. inbox' \in [Remotes -> Seq(Slides)]
      /\ \A r \in Remotes : inbox'[r] = IF r = c THEN <<>> ELSE inbox[r]
  BY DEF Disconnect, ChannelsInv
<1>5. connected' \in [Clients -> BOOLEAN] /\ connected'[c] = FALSE
      /\ \A d \in Clients \ {c} : connected'[d] = connected[d]
  BY DEF Disconnect, ChannelsInv
<1>6. Screens \subseteq Clients
  BY DEF Clients
<1>7. TypeOK'
  <2>1. \A l, m \in Nodes : l # m => room'[l] \cap room'[m] = {}
    BY <1>1 DEF TypeOK
  <2>2. \A s \in Screens : ~Joined(s)' => wire'[s] = <<>>
    BY <1>2, <1>3, <1>6 DEF TypeOK
  <2>3. \A s \in Screens : connected'[s] => polls'[s] = {}
    BY <1>5, <1>6 DEF Disconnect, TypeOK
  <2>4. \A d \in Clients : connected'[d] => Joined(d)'
    BY <1>2, <1>5 DEF TypeOK
  <2>5. upsets' \in 0 .. MaxUpsets
    BY LivePresentationAssumption DEF Disconnect, TypeOK, LivePresentationAssumption
  <2> QED
    BY <1>1, <2>1, <2>2, <2>3, <2>4, <2>5 DEF Disconnect, TypeOK
<1>8. ChannelsInv'
  BY <1>1, <1>3, <1>4, <1>5 DEF Disconnect, ChannelsInv
<1>9. FreshInv'
  <2>1. \A r \in Remotes : Sent(r)' \subseteq Sent(r)
    BY <1>4 DEF Sent, ToSet
  <2>2. \A r \in Remotes : \A i, j \in DOMAIN inbox'[r] :
          i # j /\ inbox'[r][i] = inbox'[r][j] => inbox'[r][i] = Pointer
    BY <1>4 DEF FreshInv
  <2> QED
    BY <2>1, <2>2 DEF Disconnect, FreshInv
<1> QED
  BY <1>7, <1>8, <1>9

LEMMA ReceiveSlideState ==
  ASSUME StateInv, NEW n \in Nodes, NEW r \in Remotes, ReceiveSlide(r, n)
  PROVE  StateInv'
<1> USE DEF StateInv, pages
<1> DEFINE slide == Head(inbox[r])
<1>1. slide \in Clicks \ ToSet(order) /\ slide \in Slides
  BY ArrivesNew DEF ReceiveSlide, Slides
<1>2. inbox' \in [Remotes -> Seq(Slides)]
  BY Received DEF ReceiveSlide
<1>3. /\ order' = Append(order, slide) /\ order' \in Seq(Clicks) /\ IsInjective(order')
      /\ ToSet(order') = ToSet(order) \cup {slide}
  <2>1. order' = Append(order, slide) /\ order \in Seq(Clicks) /\ IsInjective(order)
    BY DEF ReceiveSlide, ChannelsInv, TypeOK
  <2> HIDE DEF slide
  <2> QED
    BY <1>1, <2>1, StoredNext, AppendFacts, LivePresentationAssumption
<1>4. /\ wire' \in [Screens -> Seq(Slides)]
      /\ \A s \in Screens : ~Joined(s) => wire'[s] = <<>>
  <2>1. BroadcastLocal(n, slide)
    BY DEF ReceiveSlide
  <2> HIDE DEF slide
  <2> QED
    BY <1>1, <2>1, Broadcast
<1>5. publishing' \in [Remotes -> {Nothing} \cup Message]
  <2>1. [node |-> n, slide |-> slide] \in Message
    BY <1>1 DEF Message
  <2> QED
    BY <2>1 DEF ReceiveSlide, ChannelsInv
<1>6. FreshInv'
  BY <1>1, FreshReceived DEF ReceiveSlide
<1>7. cache' \in [Nodes -> Slides] /\ excused' \subseteq Screens
  BY <1>1 DEF ReceiveSlide, TypeOK
<1>8. \A c : Joined(c)' = Joined(c)
  BY DEF ReceiveSlide, Joined
<1> HIDE DEF slide
<1>9. TypeOK'
  <2>1. \A q \in Remotes : publishing'[q] = Nothing \/ publishing'[q] \in Message
    BY <1>5
  <2> QED
    BY <1>1, <1>3, <1>4, <1>7, <1>8, <2>1 DEF ReceiveSlide, TypeOK, Message
<1>10. ChannelsInv'
  BY <1>2, <1>3, <1>4, <1>5 DEF ReceiveSlide, ChannelsInv
<1> QED
  BY <1>6, <1>9, <1>10

LEMMA ReceivePointerState ==
  ASSUME StateInv, NEW n \in Nodes, NEW r \in Remotes, ReceivePointer(r, n)
  PROVE  StateInv'
<1> USE DEF StateInv, pages
<1>1. inbox' \in [Remotes -> Seq(Slides)]
  BY Received DEF ReceivePointer
<1>2. /\ wire' \in [Screens -> Seq(Slides)]
      /\ \A s \in Screens : ~Joined(s) => wire'[s] = <<>>
  BY Broadcast DEF ReceivePointer, TypeOK
<1>3. publishing' \in [Remotes -> {Nothing} \cup Message]
  <2>1. [node |-> n, slide |-> cache[n]] \in Message
    BY DEF Message, TypeOK
  <2> QED
    BY <2>1 DEF ReceivePointer, ChannelsInv
<1>4. FreshInv'
  BY FreshReceived DEF ReceivePointer
<1>5. \A c : Joined(c)' = Joined(c)
  BY DEF ReceivePointer, Joined
<1>6. TypeOK'
  <2>1. \A q \in Remotes : publishing'[q] = Nothing \/ publishing'[q] \in Message
    BY <1>3
  <2> QED
    BY <1>2, <1>5, <2>1 DEF ReceivePointer, TypeOK, Message
<1>7. ChannelsInv'
  BY <1>1, <1>2, <1>3 DEF ReceivePointer, ChannelsInv
<1> QED
  BY <1>4, <1>6, <1>7

LEMMA PingAnsweredState ==
  ASSUME StateInv, NEW n \in Nodes, PingAnswered(n)
  PROVE  StateInv'
<1> USE DEF StateInv, pages
<1>1. \A c : Joined(c)' = Joined(c)
  BY DEF PingAnswered, Joined
<1>2. <<n, 1>> \in Loops /\ \A m \in Nodes : <<m, 1>> \in Loops
  BY LoopFacts
<1>3. /\ sub[<<n, 1>>] = "none" /\ sub \in [Loops -> {"none", "starting", "on", "failed"}]
      /\ pinging \in [Nodes -> SUBSET tried]
      /\ \A l \in Loops : queue[l] # <<>> => sub[l] = "on"
      /\ \A m \in Nodes : pinging[m] # {} => sub[<<m, 1>>] = "none"
  BY DEF PingAnswered, TypeOK, ChannelsInv
<1>4. /\ pinging' = [pinging EXCEPT ![n] = {}]
      /\ \E v \in {"starting", "failed"} : sub' = [sub EXCEPT ![<<n, 1>>] = v]
      /\ queue' = queue /\ tried' = tried
  BY DEF PingAnswered
<1>5. /\ sub' \in [Loops -> {"none", "starting", "on", "failed"}]
      /\ pinging' \in [Nodes -> SUBSET tried']
      /\ \A l \in Loops : queue'[l] # <<>> => sub'[l] = "on"
      /\ \A m \in Nodes : pinging'[m] # {} => sub'[<<m, 1>>] = "none"
  <2>1. PICK v \in {"starting", "failed"} : sub' = [sub EXCEPT ![<<n, 1>>] = v]
    BY <1>4
  <2>2. sub' \in [Loops -> {"none", "starting", "on", "failed"}]
    BY <1>3, <2>1
  <2>3. \A l \in Loops \ {<<n, 1>>} : sub'[l] = sub[l]
    BY <1>3, <2>1
  <2>4. pinging'[n] = {} /\ \A m \in Nodes \ {n} : pinging'[m] = pinging[m]
    BY <1>3, <1>4
  <2>5. \A l \in Loops : queue'[l] # <<>> => sub'[l] = "on"
    BY <1>3, <1>4, <2>3
  <2>6. \A m \in Nodes \ {n} : <<m, 1>> # <<n, 1>>
    OBVIOUS
  <2> QED
    BY <1>2, <1>3, <1>4, <2>2, <2>3, <2>4, <2>5, <2>6
<1>6. TypeOK'
  BY <1>1, <1>5 DEF PingAnswered, TypeOK
<1>7. ChannelsInv'
  BY <1>5 DEF PingAnswered, ChannelsInv
<1>8. FreshInv'
  BY FreshStays DEF PingAnswered
<1> QED
  BY <1>6, <1>7, <1>8

LEMMA PingFailsState ==
  ASSUME StateInv, NEW n \in Nodes, PingFails(n)
  PROVE  StateInv'
<1> USE DEF StateInv, pages
<1>1. \A c : Joined(c)' = Joined(c)
  BY DEF PingFails, Joined
<1>2. /\ canPublish' \in [Nodes -> BOOLEAN]
      /\ pinging' \in [Nodes -> SUBSET tried]
      /\ \A m \in Nodes : pinging'[m] # {} => pinging[m] # {}
  BY DEF PingFails, TypeOK
<1>3. upsets' \in 0 .. MaxUpsets
  BY LivePresentationAssumption DEF PingFails, TypeOK, LivePresentationAssumption
<1>4. TypeOK'
  BY <1>1, <1>2, <1>3 DEF PingFails, TypeOK
<1>5. ChannelsInv'
  BY <1>2 DEF PingFails, ChannelsInv
<1>6. FreshInv'
  BY FreshStays DEF PingFails
<1> QED
  BY <1>4, <1>5, <1>6

LEMMA SubscribeState ==
  ASSUME StateInv, NEW l \in Loops, Subscribe(l)
  PROVE  StateInv'
<1> USE DEF StateInv, pages
<1>1. \A c : Joined(c)' = Joined(c)
  BY DEF Subscribe, Joined
<1>2. /\ sub' \in [Loops -> {"none", "starting", "on", "failed"}]
      /\ \A k \in Loops : sub[k] \in {"none", "on"} => sub'[k] = sub[k]
  <2>1. /\ sub \in [Loops -> {"none", "starting", "on", "failed"}] /\ sub[l] = "starting"
        /\ sub' = [sub EXCEPT ![l] = "on"] \/ sub' = [sub EXCEPT ![l] = "failed"]
    BY DEF Subscribe, TypeOK
  <2> QED
    BY <2>1
<1>3. TypeOK'
  BY <1>1, <1>2 DEF Subscribe, TypeOK
<1>4. ChannelsInv'
  BY <1>2, LoopFacts DEF Subscribe, ChannelsInv
<1>5. FreshInv'
  BY FreshStays DEF Subscribe
<1> QED
  BY <1>3, <1>4, <1>5

LEMMA DeliverState ==
  ASSUME StateInv, NEW l \in Loops, Deliver(l)
  PROVE  StateInv'
<1> USE DEF StateInv, pages
<1>1. queue[l] \in Seq(Slides) /\ queue[l] # <<>>
  BY DEF Deliver, ChannelsInv
<1>2. Tail(queue[l]) \in Seq(Slides) /\ Head(queue[l]) \in Slides
  BY <1>1, TailFacts
<1>3. queue' \in [Loops -> Seq(Slides)] /\ \A k \in Loops : queue'[k] # <<>> => sub[k] = "on"
  BY <1>2 DEF Deliver, ChannelsInv, TypeOK
<1>4. /\ wire' \in [Screens -> Seq(Slides)]
      /\ \A s \in Screens : ~Joined(s) => wire'[s] = <<>>
  <2>1. BroadcastLocal(At(l), Head(queue[l])) /\ At(l) \in Nodes
    BY LoopFacts DEF Deliver
  <2> QED
    BY <1>2, <2>1, Broadcast
<1>5. \A c : Joined(c)' = Joined(c)
  BY DEF Deliver, Joined
<1>6. TypeOK'
  BY <1>3, <1>4, <1>5 DEF Deliver, TypeOK
<1>7. ChannelsInv'
  BY <1>3, <1>4 DEF Deliver, ChannelsInv
<1>8. FreshInv'
  BY FreshStays DEF Deliver
<1> QED
  BY <1>6, <1>7, <1>8

LEMMA SubscriptionFailsState ==
  ASSUME StateInv, NEW l \in Loops, SubscriptionFails(l)
  PROVE  StateInv'
<1> USE DEF StateInv, pages
<1>1. \A c : Joined(c)' = Joined(c)
  BY DEF SubscriptionFails, Joined
<1>2. /\ sub' \in [Loops -> {"none", "starting", "on", "failed"}]
      /\ canPublish' \in [Nodes -> BOOLEAN]
      /\ \A k \in Loops : queue'[k] # <<>> => sub'[k] = "on"
      /\ \A k \in Loops : sub[k] = "none" => sub'[k] = "none"
  BY DEF SubscriptionFails, TypeOK, ChannelsInv
<1>3. queue' \in [Loops -> Seq(Slides)]
  BY DEF SubscriptionFails, ChannelsInv
<1>4. upsets' \in 0 .. MaxUpsets
  BY LivePresentationAssumption DEF SubscriptionFails, TypeOK, LivePresentationAssumption
<1>5. TypeOK'
  BY <1>1, <1>2, <1>4 DEF SubscriptionFails, TypeOK
<1>6. ChannelsInv'
  BY <1>2, <1>3, LoopFacts DEF SubscriptionFails, ChannelsInv
<1>7. FreshInv'
  BY FreshStays DEF SubscriptionFails
<1> QED
  BY <1>5, <1>6, <1>7

LEMMA PatchState ==
  ASSUME StateInv, NEW n \in Nodes, NEW slide \in patches, Patch(slide, n)
  PROVE  StateInv'
<1> USE DEF StateInv, pages
<1>1. slide \in Clicks \ ToSet(order) /\ slide \in Slides
  BY PatchNew DEF Slides
<1>2. /\ order' \in Seq(Clicks) /\ IsInjective(order')
      /\ ToSet(order') = ToSet(order) \cup {slide}
  <2>1. order' = Append(order, slide) /\ order \in Seq(Clicks) /\ IsInjective(order)
    BY DEF Patch, ChannelsInv, TypeOK
  <2> QED
    BY <1>1, <2>1, StoredNext, AppendFacts, LivePresentationAssumption
<1>3. cache' \in [Nodes -> Slides]
  BY <1>1 DEF Patch, TypeOK
<1>4. \A c : Joined(c)' = Joined(c)
  BY DEF Patch, Joined
<1>5. TypeOK'
  BY <1>1, <1>2, <1>3, <1>4 DEF Patch, TypeOK
<1>6. ChannelsInv'
  BY <1>2 DEF Patch, ChannelsInv
<1>7. FreshInv'
  <2>1. \A r \in Remotes : Sent(r)' = Sent(r)
    BY DEF Patch, Sent
  <2> QED
    BY <1>2, <2>1 DEF Patch, FreshInv
<1> QED
  BY <1>5, <1>6, <1>7

LEMMA PollState ==
  ASSUME StateInv, NEW n \in Nodes, NEW s \in Screens, Poll(s, n)
  PROVE  StateInv'
<1> USE DEF StateInv, server
<1>1. \A c : Joined(c)' = Joined(c)
  BY DEF Poll, Joined
<1>2. polls' \in [Screens -> SUBSET Slides] /\ \A t \in Screens \ {s} : polls'[t] = polls[t]
  BY DEF Poll, TypeOK
<1>3. \A t \in Screens : connected'[t] => polls'[t] = {}
  BY <1>2 DEF Poll, TypeOK
<1>u. upsets' \in 0 .. MaxUpsets
  BY LivePresentationAssumption DEF Poll, TypeOK, LivePresentationAssumption
<1>4. TypeOK'
  BY <1>1, <1>2, <1>3, <1>u DEF Poll, TypeOK
<1>5. ChannelsInv'
  BY DEF Poll, ChannelsInv
<1>6. FreshInv'
  BY FreshStays DEF Poll
<1> QED
  BY <1>4, <1>5, <1>6

LEMMA PollAnsweredState ==
  ASSUME StateInv, NEW s \in Screens, NEW slide \in polls[s], PollAnswered(s, slide)
  PROVE  StateInv'
<1> USE DEF StateInv, server
<1>1. \A c : Joined(c)' = Joined(c)
  BY DEF PollAnswered, Joined
<1>2. /\ polls' \in [Screens -> SUBSET Slides] /\ \A t \in Screens : polls'[t] \subseteq polls[t]
      /\ shown' \in [Screens -> Slides]
  BY DEF PollAnswered, TypeOK
<1>3. TypeOK'
  BY <1>1, <1>2 DEF PollAnswered, TypeOK
<1>4. ChannelsInv'
  BY DEF PollAnswered, ChannelsInv
<1>5. FreshInv'
  BY FreshStays DEF PollAnswered
<1> QED
  BY <1>3, <1>4, <1>5

LEMMA GoState ==
  ASSUME StateInv, NEW r \in Remotes, Go(r)
  PROVE  StateInv'
<1> USE DEF StateInv, server, pages
<1>1. \A c : Joined(c)' = Joined(c)
  BY DEF Go, Joined
<1>2. MaxClicks \in Nat /\ clicks \in 0 .. MaxClicks
  BY LivePresentationAssumption DEF TypeOK, LivePresentationAssumption
<1>3. /\ clicks' = clicks + 1 /\ clicks' \in Clicks /\ clicks' # Pointer /\ clicks' \in Slides
      /\ clicks' \notin 1 .. clicks /\ 1 .. clicks \subseteq 1 .. clicks'
  BY <1>2 DEF Go, Clicks, Slides, Pointer
<1>4. inbox[r] \in Seq(Slides)
  BY DEF ChannelsInv
<1> DEFINE box == inbox[r]
           new == clicks'
<1>5. /\ Append(box, new) \in Seq(Slides) /\ Len(box) \in Nat
      /\ DOMAIN box = 1 .. Len(box) /\ DOMAIN Append(box, new) = 1 .. Len(box) + 1
      /\ \A i \in 1 .. Len(box) : Append(box, new)[i] = box[i]
      /\ Append(box, new)[Len(box) + 1] = new
      /\ ToSet(Append(box, new)) = ToSet(box) \cup {new}
  <2> HIDE DEF box, new
  <2> QED
    BY <1>3, <1>4, AppendFacts DEF box, new
<1>6. patches' \subseteq Clicks /\ clicks' \in 0 .. MaxClicks
  <2>1. patches' = patches \/ patches' = patches \cup {clicks'}
    BY DEF Go
  <2>2. patches \subseteq Clicks
    BY DEF TypeOK
  <2>3. clicks' \in 0 .. MaxClicks
    BY <1>2, <1>3 DEF Clicks
  <2> QED
    BY <1>3, <2>1, <2>2, <2>3
<1>7. inbox' \in [Remotes -> Seq(Slides)]
  BY <1>5 DEF Go, ChannelsInv
<1>8. TypeOK'
  BY <1>1, <1>6 DEF Go, TypeOK
<1>9. ChannelsInv'
  BY <1>7 DEF Go, ChannelsInv
<1>10. FreshInv'
  <2>1. CASE connected[r]
    <3>1. /\ inbox'[r] = Append(box, new) /\ patches' = patches /\ order' = order
          /\ \A q \in Remotes \ {r} : inbox'[q] = inbox[q]
      BY <2>1 DEF Go, ChannelsInv
    <3>2. Sent(r)' = Sent(r) \cup {new} /\ \A q \in Remotes \ {r} : Sent(q)' = Sent(q)
      BY <1>3, <1>5, <3>1 DEF Sent
    <3>3. \A i \in DOMAIN box : box[i] # new
      <4>1. \A x \in ToSet(box) : x # new
        BY <1>3 DEF FreshInv, Sent
      <4> QED
        BY <4>1 DEF ToSet
    <3>4. \A i, j \in DOMAIN inbox'[r] :
            i # j /\ inbox'[r][i] = inbox'[r][j] => inbox'[r][i] = Pointer
      <4>1. \A i, j \in DOMAIN box : i # j /\ box[i] = box[j] => box[i] = Pointer
        BY DEF FreshInv
      <4> HIDE DEF box, new
      <4> SUFFICES ASSUME NEW i \in 1 .. Len(box) + 1, NEW j \in 1 .. Len(box) + 1, i # j,
                          Append(box, new)[i] = Append(box, new)[j]
                   PROVE  Append(box, new)[i] = Pointer
        BY <1>5, <3>1
      <4>2. CASE i = Len(box) + 1 \/ j = Len(box) + 1
        BY <1>5, <3>3, <4>2
      <4>3. CASE i # Len(box) + 1 /\ j # Len(box) + 1
        <5>1. i \in DOMAIN box /\ j \in DOMAIN box
          BY <1>5, <4>3
        <5> QED
          BY <1>5, <4>1, <5>1
      <4> QED
        BY <4>2, <4>3
    <3>5. \A q \in Remotes : \A i, j \in DOMAIN inbox'[q] :
            i # j /\ inbox'[q][i] = inbox'[q][j] => inbox'[q][i] = Pointer
      BY <3>1, <3>4 DEF FreshInv
    <3>6. \A q \in Remotes : Sent(q)' \subseteq (1 .. clicks') \ (patches' \cup ToSet(order'))
      <4>1. \A q \in Remotes : Sent(q) \subseteq (1 .. clicks) \ (patches \cup ToSet(order))
        BY DEF FreshInv
      <4>2. new \in 1 .. clicks' /\ new \notin patches \cup ToSet(order)
        BY <1>2, <1>3 DEF FreshInv
      <4> QED
        BY <1>3, <3>1, <3>2, <4>1, <4>2
    <3>7. \A p, q \in Remotes : p # q => Sent(p)' \cap Sent(q)' = {}
      BY <1>3, <3>2 DEF FreshInv
    <3>8. ToSet(order)' \cup patches' \subseteq 1 .. clicks' /\ patches' \cap ToSet(order)' = {}
      BY <1>3, <3>1 DEF FreshInv
    <3> QED
      BY <3>5, <3>6, <3>7, <3>8 DEF FreshInv
  <2>2. CASE ~connected[r]
    <3>1. /\ patches' = patches \cup {new} /\ order' = order
          /\ inbox' = inbox
      BY <2>2 DEF Go
    <3>2. \A q \in Remotes : Sent(q)' = Sent(q)
      BY <3>1 DEF Sent
    <3>3. \A q \in Remotes : Sent(q)' \subseteq (1 .. clicks') \ (patches' \cup ToSet(order'))
      <4>1. \A q \in Remotes : Sent(q) \subseteq (1 .. clicks) \ (patches \cup ToSet(order))
        BY DEF FreshInv
      <4>2. \A x \in 1 .. clicks : x # new
        BY <1>3
      <4> QED
        BY <1>3, <3>1, <3>2, <4>1, <4>2
    <3>4. ToSet(order)' \cup patches' \subseteq 1 .. clicks' /\ patches' \cap ToSet(order)' = {}
      <4>1. ToSet(order) \cup patches \subseteq 1 .. clicks /\ patches \cap ToSet(order) = {}
        BY DEF FreshInv
      <4>2. \A x \in 1 .. clicks : x # new /\ x \in 1 .. clicks'
        BY <1>3
      <4>3. new \in 1 .. clicks'
        BY <1>2, <1>3
      <4> QED
        BY <3>1, <4>1, <4>2, <4>3
    <3> QED
      BY <3>1, <3>2, <3>3, <3>4 DEF FreshInv
  <2> QED
    BY <2>1, <2>2
<1> QED
  BY <1>8, <1>9, <1>10

LEMMA PointState ==
  ASSUME StateInv, NEW r \in Remotes, Point(r)
  PROVE  StateInv'
<1> USE DEF StateInv, server, pages
<1>1. \A c : Joined(c)' = Joined(c)
  BY DEF Point, Joined
<1>2. upsets' \in 0 .. MaxUpsets
  BY LivePresentationAssumption DEF Point, TypeOK, LivePresentationAssumption
<1> DEFINE box == inbox[r]
<1>3. box \in Seq(Slides) /\ Pointer \in Slides
  BY DEF ChannelsInv, Pointer, Slides, First
<1>4. /\ Append(box, Pointer) \in Seq(Slides) /\ Len(box) \in Nat
      /\ DOMAIN box = 1 .. Len(box) /\ DOMAIN Append(box, Pointer) = 1 .. Len(box) + 1
      /\ \A i \in 1 .. Len(box) : Append(box, Pointer)[i] = box[i]
      /\ Append(box, Pointer)[Len(box) + 1] = Pointer
      /\ ToSet(Append(box, Pointer)) = ToSet(box) \cup {Pointer}
  <2> HIDE DEF box
  <2> QED
    BY <1>3, AppendFacts
<1>5. /\ inbox' \in [Remotes -> Seq(Slides)] /\ inbox'[r] = Append(box, Pointer)
      /\ \A q \in Remotes \ {r} : inbox'[q] = inbox[q]
  BY <1>4 DEF Point, ChannelsInv
<1>6. TypeOK'
  BY <1>1, <1>2 DEF Point, TypeOK
<1>7. ChannelsInv'
  BY <1>5 DEF Point, ChannelsInv
<1>8. \A q \in Remotes : Sent(q)' = Sent(q)
  BY <1>4, <1>5 DEF Sent
<1>9. \A i, j \in DOMAIN inbox'[r] :
        i # j /\ inbox'[r][i] = inbox'[r][j] => inbox'[r][i] = Pointer
  <2>1. \A i, j \in DOMAIN box : i # j /\ box[i] = box[j] => box[i] = Pointer
    BY DEF FreshInv
  <2> HIDE DEF box
  <2> SUFFICES ASSUME NEW i \in 1 .. Len(box) + 1, NEW j \in 1 .. Len(box) + 1, i # j,
                      Append(box, Pointer)[i] = Append(box, Pointer)[j]
               PROVE  Append(box, Pointer)[i] = Pointer
    BY <1>4, <1>5
  <2>2. CASE i = Len(box) + 1 \/ j = Len(box) + 1
    BY <1>4, <2>2
  <2>3. CASE i # Len(box) + 1 /\ j # Len(box) + 1
    <3>1. i \in DOMAIN box /\ j \in DOMAIN box
      BY <1>4, <2>3
    <3> QED
      BY <1>4, <2>1, <3>1
  <2> QED
    BY <2>2, <2>3
<1>10. FreshInv'
  BY <1>5, <1>8, <1>9 DEF Point, FreshInv
<1> QED
  BY <1>6, <1>7, <1>10

LEMMA PublishState ==
  ASSUME StateInv, NEW r \in Remotes, Publish(r)
  PROVE  StateInv'
<1> USE DEF StateInv, pages
<1>1. \A c : Joined(c)' = Joined(c)
  BY DEF Publish, Joined
<1>2. publishing[r] \in Message
  BY DEF Publish, ChannelsInv
<1>3. \A l \in Loops :
        queue'[l] = queue[l] \/ (sub[l] = "on" /\ queue'[l] = Append(queue[l], publishing[r].slide))
  <2>1. queue' = [l \in Loops |-> IF l \in {k \in Loops : At(k) # publishing[r].node /\ sub[k] = "on"}
                                 THEN Append(queue[l], publishing[r].slide) ELSE queue[l]]
    BY DEF Publish
  <2> QED
    BY <2>1
<1>4. \A l \in Loops : Append(queue[l], publishing[r].slide) \in Seq(Slides)
  <2>1. publishing[r].slide \in Slides
    BY <1>2 DEF Message
  <2> QED
    BY <2>1, AppendFacts DEF ChannelsInv
<1>5. queue' \in [Loops -> Seq(Slides)]
  BY <1>3, <1>4 DEF Publish, ChannelsInv
<1>6. publishing' \in [Remotes -> {Nothing} \cup Message]
      /\ \A q \in Remotes : publishing'[q] = Nothing \/ publishing'[q] = publishing[q]
  BY DEF Publish, ChannelsInv
<1>7. \A l \in Loops : queue'[l] # <<>> => sub'[l] = "on"
  BY <1>3 DEF Publish, TypeOK
<1>8. excused' \subseteq Screens
  BY DEF Publish, TypeOK
<1>9. TypeOK'
  BY <1>1, <1>6, <1>7, <1>8 DEF Publish, TypeOK
<1>10. ChannelsInv'
  BY <1>5, <1>6 DEF Publish, ChannelsInv
<1>11. FreshInv'
  BY FreshStays DEF Publish
<1> QED
  BY <1>9, <1>10, <1>11

LEMMA PublishFailsState ==
  ASSUME StateInv, NEW r \in Remotes, PublishFails(r)
  PROVE  StateInv'
<1> USE DEF StateInv, pages
<1>1. \A c : Joined(c)' = Joined(c)
  BY DEF PublishFails, Joined
<1>2. publishing' \in [Remotes -> {Nothing} \cup Message]
      /\ \A q \in Remotes : publishing'[q] = Nothing \/ publishing'[q] = publishing[q]
  BY DEF PublishFails, ChannelsInv
<1>3. upsets' \in 0 .. MaxUpsets
  BY LivePresentationAssumption DEF PublishFails, TypeOK, LivePresentationAssumption
<1>4. canPublish' \in [Nodes -> BOOLEAN]
  BY DEF PublishFails, TypeOK
<1>5. TypeOK'
  BY <1>1, <1>2, <1>3, <1>4 DEF PublishFails, TypeOK
<1>6. ChannelsInv'
  BY <1>2 DEF PublishFails, ChannelsInv
<1>7. FreshInv'
  BY FreshStays DEF PublishFails
<1> QED
  BY <1>5, <1>6, <1>7

LEMMA OnMessageState ==
  ASSUME StateInv, NEW s \in Screens, OnMessage(s)
  PROVE  StateInv'
<1> USE DEF StateInv, server
<1>1. \A c : Joined(c)' = Joined(c)
  BY DEF OnMessage, Joined
<1>2. wire[s] \in Seq(Slides) /\ wire[s] # <<>>
  BY DEF OnMessage, ChannelsInv
<1>3. Tail(wire[s]) \in Seq(Slides) /\ Head(wire[s]) \in Slides
  BY <1>2, TailFacts
<1>4. /\ wire' \in [Screens -> Seq(Slides)] /\ \A t \in Screens \ {s} : wire'[t] = wire[t]
      /\ shown' \in [Screens -> Slides]
  BY <1>3 DEF OnMessage, ChannelsInv, TypeOK
<1>5. Joined(s) /\ s \in Clients
  BY DEF OnMessage, TypeOK, Clients
<1>6. TypeOK'
  BY <1>1, <1>4, <1>5 DEF OnMessage, TypeOK
<1>7. ChannelsInv'
  BY <1>4 DEF OnMessage, ChannelsInv
<1>8. FreshInv'
  BY FreshStays DEF OnMessage
<1> QED
  BY <1>6, <1>7, <1>8

LEMMA OnOpenState ==
  ASSUME StateInv, NEW c \in Clients, OnOpen(c)
  PROVE  StateInv'
<1> USE DEF StateInv, server
<1>1. \A d : Joined(d)' = Joined(d)
  BY DEF OnOpen, Joined
<1>2. connected' \in [Clients -> BOOLEAN] /\ \A d \in Clients \ {c} : connected'[d] = connected[d]
  BY DEF OnOpen, ChannelsInv
<1>3. polls' \in [Screens -> SUBSET Slides]
      /\ \A s \in Screens : polls'[s] = IF s = c THEN {} ELSE polls[s]
  BY DEF OnOpen, TypeOK
<1>4. \A s \in Screens : connected'[s] => polls'[s] = {}
  BY <1>2, <1>3 DEF TypeOK, Clients
<1>5. \A d \in Clients : connected'[d] => Joined(d)'
  BY <1>1, <1>2 DEF OnOpen, TypeOK
<1>6. TypeOK'
  BY <1>1, <1>3, <1>4, <1>5 DEF OnOpen, TypeOK
<1>7. ChannelsInv'
  BY <1>2 DEF OnOpen, ChannelsInv
<1>8. FreshInv'
  BY FreshStays DEF OnOpen
<1> QED
  BY <1>6, <1>7, <1>8

LEMMA NextState ==
  ASSUME StateInv, [Next]_vars
  PROVE  StateInv'
<1>1. CASE UNCHANGED vars
  <2>1. \A c : Joined(c)' = Joined(c)
    BY <1>1 DEF vars, Joined
  <2>2. TypeOK' /\ ChannelsInv'
    BY <1>1, <2>1 DEF vars, StateInv, TypeOK, ChannelsInv
  <2>3. FreshInv'
    BY <1>1, FreshStays DEF vars, StateInv
  <2> QED
    BY <2>2, <2>3 DEF StateInv
<1>2. ASSUME NEW n \in Nodes, Worker(n)
      PROVE  StateInv'
  <2>1. ASSUME NEW c \in Clients, Connect(c, n) \/ Greet(c, n) \/ Disconnect(c, n)
        PROVE  StateInv'
    BY <2>1, ConnectState, GreetState, DisconnectState
  <2>2. ASSUME NEW r \in Remotes, ReceiveSlide(r, n) \/ ReceivePointer(r, n)
        PROVE  StateInv'
    BY <2>2, ReceiveSlideState, ReceivePointerState
  <2>3. ASSUME NEW l \in LoopsOf(n), Subscribe(l) \/ Deliver(l) \/ SubscriptionFails(l)
        PROVE  StateInv'
    BY <2>3, LoopFacts, SubscribeState, DeliverState, SubscriptionFailsState
  <2>4. ASSUME NEW slide \in patches, Patch(slide, n)
        PROVE  StateInv'
    BY <2>4, PatchState
  <2>5. ASSUME NEW s \in Screens, Poll(s, n)
        PROVE  StateInv'
    BY <2>5, PollState
  <2>6. CASE PingAnswered(n) \/ PingFails(n)
    BY <2>6, PingAnsweredState, PingFailsState
  <2> QED
    BY <1>2, <2>1, <2>2, <2>3, <2>4, <2>5, <2>6 DEF Worker
<1>3. ASSUME NEW r \in Remotes, Go(r) \/ Point(r) \/ Publish(r) \/ PublishFails(r)
      PROVE  StateInv'
  BY <1>3, GoState, PointState, PublishState, PublishFailsState
<1>4. ASSUME NEW s \in Screens, Stage(s)
      PROVE  StateInv'
  BY <1>4, OnMessageState, PollAnsweredState DEF Stage
<1>5. ASSUME NEW c \in Clients, OnOpen(c)
      PROVE  StateInv'
  BY <1>5, OnOpenState
<1> QED
  BY <1>1, <1>2, <1>3, <1>4, <1>5 DEF Next

LEMMA AlwaysState == Spec => []StateInv
<1>1. Init => StateInv
  BY InitState, LivePresentationAssumption
<1>2. StateInv /\ [Next]_vars => StateInv'
  BY NextState
<1> QED
  BY <1>1, <1>2, PTL DEF Spec

\* No step leaves the types: a client is in one room at most, what is sent to it
\* ends with its socket, a stage with a socket waits for no poll, and a slide is
\* stored once (presentation_ws.py, cache.py, the pages).
THEOREM TypeCorrect == Spec => []TypeOK
<1>1. StateInv => TypeOK
  BY DEF StateInv
<1> QED
  BY <1>1, AlwaysState, PTL

-----------------------------------------------------------------------------
(* What is on its way to a stage.                                           *)

\* The worker that stored the last slide has it in memory, and only stored slides
\* are on their way.
StoreInv ==
  /\ author = NoWorker <=> order = <<>>
  /\ author # NoWorker => cache[author] = LastIn(order)
  /\ \A n \in Nodes : cache[n] \in KnownIn(order)
  /\ \A l \in Loops : ToSet(queue[l]) \subseteq KnownIn(order)
  /\ \A s \in Screens : ToSet(wire[s]) \subseteq KnownIn(order)
  /\ \A r \in Remotes : publishing[r].slide \in KnownIn(order)

\* As long as some screen is not excused, only the last slide is being published,
\* by the worker that stored it, and no older one is queued for that worker.
CalmInv ==
  excused # Screens =>
    /\ \A r \in Remotes : publishing[r] # Nothing =>
         publishing[r].slide = LastIn(order) /\ author \in {publishing[r].node, NoWorker}
    /\ author # NoWorker => \A l \in LoopsOf(author) : queue[l] = <<>>
    /\ \A l \in Loops : InOrder(order, queue[l])

\* The initial state waits for the page that has not opened its socket yet.
GreetInv == \A s \in Screens : s \in greeted /\ Joined(s) /\ ~connected[s] => wire[s] # <<>>

\* The last of what a stage has seen or will see, from the worker or from the others,
\* is the last slide.
EndsRight(s, n) ==
  \/ \E r \in Remotes : publishing[r] # Nothing /\ publishing[r].node # n
  \/ /\ \A l \in LoopsOf(n) : queue[l] # <<>> => queue[l][Len(queue[l])] = LastIn(order)
     /\ \/ \E l \in LoopsOf(n) : queue[l] # <<>>
        \/ wire[s] # <<>> /\ wire[s][Len(wire[s])] = LastIn(order)
        \/ wire[s] = <<>> /\ shown[s] = LastIn(order)

\* From the worker n to the stage s the slides are in order, and so they are with
\* those that wait for n, unless n has two subscriptions.
PathOf(s, n) ==
  /\ ~Doubled(n) =>
       /\ InOrder(order, wire[s])
       /\ \A l \in LoopsOf(n) : \A x \in ToSet(wire[s]), y \in ToSet(queue[l]) :
            RankIn(order, x) <= RankIn(order, y)
  /\ s \in greeted => EndsRight(s, n)
PathInv == \A s \in Screens \ excused : \A n \in Nodes : s \in room[n] => PathOf(s, n)

StageInv == StoreInv /\ CalmInv /\ GreetInv /\ PathInv

\* No slide ranks higher than the last one.
LEMMA LastIsHighest ==
  ASSUME StateInv
  PROVE  /\ LastIn(order) \in Slides /\ LastIn(order) \in KnownIn(order)
         /\ \A x \in KnownIn(order) : RankIn(order, x) <= RankIn(order, LastIn(order))
<1>1. order \in Seq(Clicks) /\ IsInjective(order)
  BY DEF StateInv, TypeOK, ChannelsInv
<1> QED
  BY <1>1, LastFacts, LivePresentationAssumption

\* While nothing is stored, every slide on its way is the first one.
LEMMA NothingStored == order = <<>> => KnownIn(order) = {First} /\ LastIn(order) = First
BY DEF KnownIn, LastIn, ToSet

\* The memory of the worker that stored the last slide, or of any if there is none.
LEMMA MemoryIsLast ==
  ASSUME StateInv, StoreInv, NEW n \in Nodes, author \in {n, NoWorker}
  PROVE  cache[n] = LastIn(order)
<1>1. CASE author = NoWorker
  BY <1>1, NothingStored DEF StoreInv
<1>2. CASE author # NoWorker
  BY <1>2 DEF StoreInv
<1> QED
  BY <1>1, <1>2

\* The subscriptions are those they were.
LEMMA DoubledStays ==
  ASSUME sub' = sub
  PROVE  \A n \in Nodes : Doubled(n)' <=> Doubled(n)
BY DEF Doubled

\* A path on which nothing changes.
LEMMA PathStays ==
  ASSUME NEW s, NEW n, PathOf(s, n), order' = order, wire'[s] = wire[s],
         \A l \in LoopsOf(n) : queue'[l] = queue[l], Doubled(n) => Doubled(n)',
         shown'[s] = shown[s], s \in greeted' => s \in greeted,
         (\E r \in Remotes : publishing[r] # Nothing /\ publishing[r].node # n)
           => \E r \in Remotes : publishing'[r] # Nothing /\ publishing'[r].node # n
  PROVE  PathOf(s, n)'
<1>1. EndsRight(s, n) => EndsRight(s, n)'
  BY DEF EndsRight, Nothing
<1> QED
  BY <1>1 DEF PathOf, LoopsOf

-----------------------------------------------------------------------------
(* Only stored slides are on their way.                                     *)

\* A step that stores nothing,
LEMMA StoreStays ==
  ASSUME StoreInv, UNCHANGED <<order, author, cache>>,
         \A l \in Loops : ToSet(queue'[l]) \subseteq KnownIn(order),
         \A s \in Screens : ToSet(wire'[s]) \subseteq KnownIn(order),
         \A r \in Remotes : publishing'[r].slide \in KnownIn(order)
  PROVE  StoreInv'
BY DEF StoreInv

\* and one that stores a slide.
LEMMA StoreGrows ==
  ASSUME StateInv, StoreInv, NEW n \in Nodes, NEW x \in Clicks \ ToSet(order),
         order' = Append(order, x), author' = n, cache' = [cache EXCEPT ![n] = x],
         \A l \in Loops : ToSet(queue'[l]) \subseteq KnownIn(order) \cup {x},
         \A s \in Screens : ToSet(wire'[s]) \subseteq KnownIn(order) \cup {x},
         \A r \in Remotes : publishing'[r].slide \in KnownIn(order) \cup {x}
  PROVE  StoreInv'
<1>1. order \in Seq(Clicks) /\ IsInjective(order)
  BY DEF StateInv, TypeOK, ChannelsInv
<1>2. /\ Append(order, x) # <<>> /\ LastIn(Append(order, x)) = x
      /\ KnownIn(Append(order, x)) = KnownIn(order) \cup {x}
  BY <1>1, StoredNext, LivePresentationAssumption
<1>3. order' # <<>> /\ LastIn(order') = x /\ KnownIn(order') = KnownIn(order) \cup {x}
  BY <1>2
<1>4. \A m \in Nodes : cache'[m] \in KnownIn(order) \cup {x}
  BY DEF StateInv, TypeOK, StoreInv
<1>5. cache'[n] = x /\ n # NoWorker
  BY LivePresentationAssumption DEF StateInv, TypeOK, LivePresentationAssumption
<1> QED
  BY <1>3, <1>4, <1>5 DEF StoreInv

\* What a message more or less leaves known.
LEMMA KnownChannels ==
  ASSUME StateInv, StoreInv
  PROVE  /\ First \in KnownIn(order) /\ Nothing.slide = First
         /\ \A l \in Loops : queue[l] # <<>> =>
              /\ ToSet(Tail(queue[l])) \subseteq KnownIn(order)
              /\ Head(queue[l]) \in KnownIn(order)
         /\ \A s \in Screens : wire[s] # <<>> => ToSet(Tail(wire[s])) \subseteq KnownIn(order)
         /\ \A s \in Screens, x \in Slides : ToSet(Append(wire[s], x)) \subseteq KnownIn(order) \cup {x}
         /\ \A l \in Loops, x \in Slides : ToSet(Append(queue[l], x)) \subseteq KnownIn(order) \cup {x}
<1>1. First \in KnownIn(order) /\ Nothing.slide = First
  BY DEF KnownIn, Nothing
<1>2. (\A l \in Loops : queue[l] \in Seq(Slides)) /\ \A s \in Screens : wire[s] \in Seq(Slides)
  BY DEF StateInv, ChannelsInv
<1>3. \A l \in Loops : queue[l] # <<>> =>
        ToSet(Tail(queue[l])) \subseteq ToSet(queue[l]) /\ Head(queue[l]) \in ToSet(queue[l])
  BY <1>2, TailFacts
<1>4. \A s \in Screens : wire[s] # <<>> => ToSet(Tail(wire[s])) \subseteq ToSet(wire[s])
  BY <1>2, TailFacts
<1>5. \A s \in Screens, x \in Slides : ToSet(Append(wire[s], x)) = ToSet(wire[s]) \cup {x}
  BY <1>2, AppendFacts
<1>6. \A l \in Loops, x \in Slides : ToSet(Append(queue[l], x)) = ToSet(queue[l]) \cup {x}
  BY <1>2, AppendFacts
<1>7. /\ \A l \in Loops : ToSet(queue[l]) \subseteq KnownIn(order)
      /\ \A s \in Screens : ToSet(wire[s]) \subseteq KnownIn(order)
  BY DEF StoreInv
<1>8. \A l \in Loops : queue[l] # <<>> =>
        /\ ToSet(Tail(queue[l])) \subseteq KnownIn(order)
        /\ Head(queue[l]) \in KnownIn(order)
  BY <1>3, <1>7
<1>9. \A s \in Screens : wire[s] # <<>> => ToSet(Tail(wire[s])) \subseteq KnownIn(order)
  BY <1>4, <1>7
<1>10. \A s \in Screens, x \in Slides : ToSet(Append(wire[s], x)) \subseteq KnownIn(order) \cup {x}
  BY <1>5, <1>7
<1>11. \A l \in Loops, x \in Slides : ToSet(Append(queue[l], x)) \subseteq KnownIn(order) \cup {x}
  BY <1>6, <1>7
<1> QED
  BY <1>1, <1>8, <1>9, <1>10, <1>11

LEMMA NoMessage == ToSet(<<>>) = {}
BY DEF ToSet

LEMMA InitStage == LivePresentationAssumption /\ Init => StageInv
<1> SUFFICES ASSUME LivePresentationAssumption, Init
             PROVE  StageInv
  OBVIOUS
<1>1. StoreInv
  BY NothingStored, NoMessage DEF Init, StoreInv, Nothing
<1>2. CalmInv
  BY DEF Init, CalmInv, InOrder
<1>3. GreetInv
  BY DEF Init, GreetInv
<1>4. PathInv
  BY DEF Init, PathInv
<1> QED
  BY <1>1, <1>2, <1>3, <1>4 DEF StageInv

LEMMA GreetStore ==
  ASSUME StateInv, StoreInv, NEW n \in Nodes, NEW c \in Clients, Greet(c, n)
  PROVE  StoreInv'
<1>1. cache[n] \in Slides /\ cache[n] \in KnownIn(order)
  BY DEF StateInv, TypeOK, StoreInv
<1>2. \A s \in Screens : ToSet(Append(wire[s], cache[n])) \subseteq KnownIn(order)
  BY <1>1, KnownChannels
<1>3. \A s \in Screens : ToSet(wire'[s]) \subseteq KnownIn(order)
  BY <1>2 DEF Greet, StoreInv
<1>4. UNCHANGED <<order, author, cache, queue, publishing>>
  BY DEF Greet
<1>5. \A l \in Loops : ToSet(queue'[l]) \subseteq KnownIn(order)
  BY <1>4 DEF StoreInv
<1>6. \A r \in Remotes : publishing'[r].slide \in KnownIn(order)
  BY <1>4 DEF StoreInv
<1> QED
  BY <1>3, <1>4, <1>5, <1>6, StoreStays

LEMMA DisconnectStore ==
  ASSUME StoreInv, NEW n \in Nodes, NEW c \in Clients, Disconnect(c, n)
  PROVE  StoreInv'
<1>1. \A s \in Screens : ToSet(wire'[s]) \subseteq KnownIn(order)
  BY NoMessage DEF Disconnect, StoreInv
<1>2. UNCHANGED <<order, author, cache, queue, publishing>>
  BY DEF Disconnect
<1> QED
  BY <1>1, <1>2, StoreStays DEF StoreInv

LEMMA BroadcastKnown ==
  ASSUME StateInv, StoreInv, NEW n \in Nodes, NEW x \in Slides, BroadcastLocal(n, x)
  PROVE  \A s \in Screens : ToSet(wire'[s]) \subseteq KnownIn(order) \cup {x}
<1>1. \A s \in Screens : wire'[s] = IF s \in room[n] THEN Append(wire[s], x) ELSE wire[s]
  BY DEF BroadcastLocal
<1>2. \A s \in Screens : ToSet(Append(wire[s], x)) \subseteq KnownIn(order) \cup {x}
  BY KnownChannels
<1> QED
  BY <1>1, <1>2 DEF StoreInv

LEMMA ReceiveSlideStore ==
  ASSUME StateInv, StoreInv, NEW n \in Nodes, NEW r \in Remotes, ReceiveSlide(r, n)
  PROVE  StoreInv'
<1> DEFINE slide == Head(inbox[r])
<1>1. slide \in Clicks \ ToSet(order) /\ slide \in Slides
  BY ArrivesNew DEF ReceiveSlide, Slides, StateInv
<1>2. /\ order' = Append(order, slide) /\ author' = n /\ cache' = [cache EXCEPT ![n] = slide]
      /\ BroadcastLocal(n, slide) /\ queue' = queue
      /\ publishing' = publishing \/ publishing' = [publishing EXCEPT ![r] = [node |-> n, slide |-> slide]]
  BY DEF ReceiveSlide
<1> HIDE DEF slide
<1>3. \A s \in Screens : ToSet(wire'[s]) \subseteq KnownIn(order) \cup {slide}
  BY <1>1, <1>2, BroadcastKnown
<1>4. \A q \in Remotes : publishing'[q].slide \in KnownIn(order) \cup {slide}
  <2>1. \A q \in Remotes : publishing'[q] = publishing[q] \/ publishing'[q] = [node |-> n, slide |-> slide]
    BY <1>2 DEF StateInv, ChannelsInv
  <2> QED
    BY <2>1 DEF StoreInv
<1>5. \A l \in Loops : ToSet(queue'[l]) \subseteq KnownIn(order) \cup {slide}
  BY <1>2 DEF StoreInv
<1> QED
  BY <1>1, <1>2, <1>3, <1>4, <1>5, StoreGrows

LEMMA ReceivePointerStore ==
  ASSUME StateInv, StoreInv, NEW n \in Nodes, NEW r \in Remotes, ReceivePointer(r, n)
  PROVE  StoreInv'
<1>1. cache[n] \in Slides /\ cache[n] \in KnownIn(order)
  BY DEF StateInv, TypeOK, StoreInv
<1>2. /\ UNCHANGED <<order, author, cache, queue>> /\ BroadcastLocal(n, cache[n])
      /\ publishing' = publishing \/ publishing' = [publishing EXCEPT ![r] = [node |-> n, slide |-> cache[n]]]
  BY DEF ReceivePointer
<1>3. \A s \in Screens : ToSet(wire'[s]) \subseteq KnownIn(order)
  BY <1>1, <1>2, BroadcastKnown
<1>4. \A q \in Remotes : publishing'[q].slide \in KnownIn(order)
  <2>1. \A q \in Remotes : publishing'[q] = publishing[q] \/ publishing'[q] = [node |-> n, slide |-> cache[n]]
    BY <1>2 DEF StateInv, ChannelsInv
  <2> QED
    BY <1>1, <2>1 DEF StoreInv
<1>5. \A l \in Loops : ToSet(queue'[l]) \subseteq KnownIn(order)
  BY <1>2 DEF StoreInv
<1> QED
  BY <1>2, <1>3, <1>4, <1>5, StoreStays

LEMMA PublishStore ==
  ASSUME StateInv, StoreInv, NEW r \in Remotes, Publish(r)
  PROVE  StoreInv'
<1> DEFINE x == publishing[r].slide
<1>1. x \in Slides /\ x \in KnownIn(order)
  BY DEF Publish, StateInv, ChannelsInv, Message, StoreInv
<1>2. /\ UNCHANGED <<order, author, cache, wire>>
      /\ publishing' = [publishing EXCEPT ![r] = Nothing]
      /\ \A l \in Loops : queue'[l] = queue[l] \/ queue'[l] = Append(queue[l], x)
  BY DEF Publish
<1> HIDE DEF x
<1>3. \A l \in Loops : ToSet(queue'[l]) \subseteq KnownIn(order)
  <2>1. \A l \in Loops : ToSet(Append(queue[l], x)) \subseteq KnownIn(order)
    BY <1>1, KnownChannels
  <2> QED
    BY <1>2, <2>1 DEF StoreInv
<1>4. \A q \in Remotes : publishing'[q].slide \in KnownIn(order)
  <2>1. \A q \in Remotes : publishing'[q] = publishing[q] \/ publishing'[q] = Nothing
    BY <1>2 DEF StateInv, ChannelsInv
  <2> QED
    BY <2>1, KnownChannels DEF StoreInv
<1> QED
  BY <1>2, <1>3, <1>4, StoreStays DEF StoreInv

LEMMA PublishFailsStore ==
  ASSUME StateInv, StoreInv, NEW r \in Remotes, PublishFails(r)
  PROVE  StoreInv'
<1>1. /\ UNCHANGED <<order, author, cache, wire, queue>>
      /\ publishing' = [publishing EXCEPT ![r] = Nothing]
  BY DEF PublishFails
<1>2. \A q \in Remotes : publishing'[q].slide \in KnownIn(order)
  <2>1. \A q \in Remotes : publishing'[q] = publishing[q] \/ publishing'[q] = Nothing
    BY <1>1 DEF StateInv, ChannelsInv
  <2> QED
    BY <2>1, KnownChannels DEF StoreInv
<1> QED
  BY <1>1, <1>2, StoreStays DEF StoreInv

LEMMA DeliverStore ==
  ASSUME StateInv, StoreInv, NEW l \in Loops, Deliver(l)
  PROVE  StoreInv'
<1>1. queue[l] \in Seq(Slides) /\ queue[l] # <<>>
  BY DEF Deliver, StateInv, ChannelsInv
<1>2. Head(queue[l]) \in Slides /\ Head(queue[l]) \in KnownIn(order)
      /\ ToSet(Tail(queue[l])) \subseteq KnownIn(order)
  BY <1>1, TailFacts, KnownChannels
<1>3. UNCHANGED <<order, author, cache, publishing>> /\ BroadcastLocal(At(l), Head(queue[l]))
      /\ \A k \in Loops : queue'[k] = queue[k] \/ queue'[k] = Tail(queue[l])
  BY DEF Deliver, StateInv, ChannelsInv
<1>4. \A s \in Screens : ToSet(wire'[s]) \subseteq KnownIn(order)
  BY <1>2, <1>3, LoopFacts, BroadcastKnown
<1>5. \A k \in Loops : ToSet(queue'[k]) \subseteq KnownIn(order)
  BY <1>2, <1>3 DEF StoreInv
<1> QED
  BY <1>3, <1>4, <1>5, StoreStays DEF StoreInv

LEMMA SubscriptionFailsStore ==
  ASSUME StateInv, StoreInv, NEW l \in Loops, SubscriptionFails(l)
  PROVE  StoreInv'
<1>1. UNCHANGED <<order, author, cache, publishing, wire>>
      /\ \A k \in Loops : queue'[k] = queue[k] \/ queue'[k] = <<>>
  BY DEF SubscriptionFails, StateInv, ChannelsInv
<1>2. \A k \in Loops : ToSet(queue'[k]) \subseteq KnownIn(order)
  BY <1>1, NoMessage DEF StoreInv
<1> QED
  BY <1>1, <1>2, StoreStays DEF StoreInv

LEMMA PatchStore ==
  ASSUME StateInv, StoreInv, NEW n \in Nodes, NEW slide \in patches, Patch(slide, n)
  PROVE  StoreInv'
<1>1. slide \in Clicks \ ToSet(order)
  BY PatchNew DEF StateInv
<1>2. /\ order' = Append(order, slide) /\ author' = n /\ cache' = [cache EXCEPT ![n] = slide]
      /\ UNCHANGED <<queue, wire, publishing>>
  BY DEF Patch
<1>3. /\ \A l \in Loops : ToSet(queue'[l]) \subseteq KnownIn(order) \cup {slide}
      /\ \A s \in Screens : ToSet(wire'[s]) \subseteq KnownIn(order) \cup {slide}
      /\ \A r \in Remotes : publishing'[r].slide \in KnownIn(order) \cup {slide}
  BY <1>2 DEF StoreInv
<1> QED
  BY <1>1, <1>2, <1>3, StoreGrows

LEMMA OnMessageStore ==
  ASSUME StateInv, StoreInv, NEW s \in Screens, OnMessage(s)
  PROVE  StoreInv'
<1>1. UNCHANGED <<order, author, cache, publishing, queue>> /\ wire[s] # <<>>
      /\ \A t \in Screens : wire'[t] = wire[t] \/ (t = s /\ wire'[t] = Tail(wire[t]))
  BY DEF OnMessage, server, StateInv, ChannelsInv
<1>2. \A t \in Screens : ToSet(wire'[t]) \subseteq KnownIn(order)
  BY <1>1, KnownChannels DEF StoreInv
<1> QED
  BY <1>1, <1>2, StoreStays DEF StoreInv

-----------------------------------------------------------------------------
(* Every step keeps the last slide on its way.                              *)

\* Steps that touch nothing on the way from a worker to a stage,
LEMMA QuietStage ==
  ASSUME StageInv,
         UNCHANGED <<cache, room, greeted, publishing, queue, wire, connected, shown,
                     order, author, excused>>,
         \A n \in Nodes : Doubled(n) => Doubled(n)'
  PROVE  StageInv'
<1>1. StoreInv'
  BY DEF StageInv, StoreInv
<1>2. CalmInv'
  BY DEF StageInv, CalmInv, Nothing
<1>3. GreetInv'
  BY DEF StageInv, GreetInv, Joined
<1>4. PathInv'
  BY PathStays DEF StageInv, PathInv
<1> QED
  BY <1>1, <1>2, <1>3, <1>4 DEF StageInv

\* and those after which no screen has to show the last slide.
LEMMA ExcusedStage ==
  ASSUME StageInv, StoreInv', excused' = Screens,
         UNCHANGED <<room, greeted, connected, wire>>
  PROVE  StageInv'
<1>1. CalmInv' /\ PathInv'
  BY DEF CalmInv, PathInv
<1>2. GreetInv'
  BY DEF StageInv, GreetInv, Joined
<1> QED
  BY <1>1, <1>2 DEF StageInv

LEMMA ConnectStage ==
  ASSUME StateInv, StageInv, NEW n \in Nodes, NEW c \in Clients, Connect(c, n)
  PROVE  StageInv'
<1>1. UNCHANGED <<cache, greeted, publishing, queue, wire, connected, shown, order, author, excused>>
  BY DEF Connect, pages
<1>2. c \notin greeted /\ \A m \in Nodes : c \notin room[m]
  BY DEF Connect, StateInv, TypeOK, ChannelsInv
<1>3. c \in Screens => wire[c] = <<>>
  BY <1>2 DEF StateInv, TypeOK, Joined
<1>4. \A m \in Nodes, d \in Clients \ {c} : d \in room'[m] <=> d \in room[m]
  BY DEF Connect, StateInv, TypeOK
<1>d. \A m \in Nodes : Doubled(m) => Doubled(m)'
  <2>1. sub' = sub \/ (sub' = [sub EXCEPT ![<<n, 2>>] = "starting"] /\ sub[<<n, 2>>] = "none")
    BY LoopFacts DEF Connect
  <2>2. \A l \in Loops : sub[l] = "on" => sub'[l] = "on"
    BY <2>1 DEF StateInv, TypeOK
  <2> QED
    BY <2>2, LoopFacts DEF Doubled
<1>5. StoreInv'
  BY <1>1 DEF StageInv, StoreInv
<1>6. CalmInv'
  BY <1>1 DEF StageInv, CalmInv, Nothing
<1>7. GreetInv'
  <2>1. \A s \in Screens : s \in greeted /\ Joined(s)' => Joined(s)
    BY <1>2, <1>4 DEF Joined, Clients
  <2> QED
    BY <1>1, <2>1 DEF StageInv, GreetInv
<1>8. PathInv'
  <2> SUFFICES ASSUME NEW s \in Screens \ excused, NEW m \in Nodes, s \in room'[m]
               PROVE  PathOf(s, m)'
    BY <1>1 DEF PathInv
  <2>1. CASE s = c
    BY <1>1, <1>2, <1>3, <2>1, NoMessage DEF PathOf, InOrder
  <2>2. CASE s # c
    <3>1. PathOf(s, m)
      BY <1>4, <2>2 DEF StageInv, PathInv, Clients
    <3> QED
      BY <1>1, <1>d, <3>1, PathStays
  <2> QED
    BY <2>1, <2>2
<1> QED
  BY <1>5, <1>6, <1>7, <1>8 DEF StageInv

LEMMA GreetStage ==
  ASSUME StateInv, StageInv, NEW n \in Nodes, NEW c \in Clients, Greet(c, n)
  PROVE  StageInv'
<1> DEFINE x == cache[n]
<1>1. /\ UNCHANGED <<cache, room, sub, publishing, queue, connected, shown, order, author>>
      /\ excused \subseteq excused' /\ greeted' = greeted \cup {c} /\ c \in room[n]
      /\ \A s \in Screens : wire'[s] = IF s = c THEN Append(wire[s], x) ELSE wire[s]
      /\ c \in Screens /\ author \notin {n, NoWorker} => c \in excused'
      /\ excused' \subseteq Screens
  BY DEF Greet, pages, StateInv, TypeOK
<1>2. x \in Slides
  BY DEF StateInv, TypeOK
<1>3. author \in {n, NoWorker} => x = LastIn(order)
  BY MemoryIsLast DEF StageInv
<1> HIDE DEF x
<1>4. StoreInv'
  BY GreetStore DEF StageInv
<1>5. CalmInv'
  BY <1>1 DEF StageInv, CalmInv, Nothing, StateInv, TypeOK
<1>6. \A s \in Screens : wire[s] \in Seq(Slides)
  BY DEF StateInv, ChannelsInv
<1>7. GreetInv'
  <2>1. \A s \in Screens : Append(wire[s], x) # <<>>
    BY <1>2, <1>6, AppendFacts
  <2>2. \A s \in Screens : (wire[s] # <<>> \/ s = c) => wire'[s] # <<>>
    BY <1>1, <2>1
  <2> QED
    BY <1>1, <2>2 DEF StageInv, GreetInv, Joined
<1>8. PathInv'
  <2> SUFFICES ASSUME NEW s \in Screens \ excused', NEW m \in Nodes, s \in room[m]
               PROVE  PathOf(s, m)'
    BY <1>1 DEF PathInv
  <2>1. PathOf(s, m)
    BY <1>1 DEF StageInv, PathInv
  <2>2. CASE s # c
    BY <1>1, <2>1, <2>2, DoubledStays, PathStays
  <2>3. CASE s = c
    <3>1. m = n
      BY <1>1, <2>3, OneRoom DEF StateInv
    <3>2. author \in {n, NoWorker} /\ x = LastIn(order) /\ excused # Screens
      BY <1>1, <1>3, <2>3
    <3>3. \A y \in KnownIn(order) : RankIn(order, y) <= RankIn(order, x)
      BY <3>2, LastIsHighest
    <3>4. /\ ToSet(wire[s]) \subseteq KnownIn(order)
          /\ \A l \in LoopsOf(n) : ToSet(queue[l]) \subseteq KnownIn(order)
      BY LoopFacts DEF StageInv, StoreInv
    <3>5. (\A l \in LoopsOf(n) : queue[l] = <<>>) \/ order = <<>>
      BY <3>2 DEF StageInv, CalmInv, StoreInv
    <3>6. \A l \in LoopsOf(n) : \A y \in ToSet(queue[l]) : RankIn(order, x) <= RankIn(order, y)
      <4>1. CASE \A l \in LoopsOf(n) : queue[l] = <<>>
        BY <4>1, NoMessage
      <4>2. CASE order = <<>>
        <5>1. \A l \in LoopsOf(n) : \A y \in ToSet(queue[l]) : y = x
          BY <3>2, <3>4, <4>2, NothingStored
        <5>2. x \in KnownIn(order)
          BY <3>2, LastIsHighest
        <5> QED
          BY <3>3, <5>1, <5>2
      <4> QED
        BY <3>5, <4>1, <4>2
    <3> DEFINE p == Append(wire[s], x)
    <3>7. p # <<>> /\ p[Len(p)] = x /\ ToSet(p) = ToSet(wire[s]) \cup {x}
      BY <1>2, <1>6, AppendFacts
    <3>8. ~Doubled(n) => InOrder(order, p)
      <4>1. \A y \in ToSet(wire[s]) : RankIn(order, y) <= RankIn(order, x)
        BY <3>3, <3>4
      <4>2. ~Doubled(n) => InOrder(order, wire[s])
        BY <2>1, <3>1 DEF PathOf
      <4> QED
        BY <1>2, <1>6, <4>1, <4>2, InOrderAppend
    <3> HIDE DEF p
    <3>9. wire'[s] = p /\ queue' = queue /\ order' = order /\ (Doubled(n)' <=> Doubled(n))
      BY <1>1, <2>3, DoubledStays DEF p
    <3>10. ~Doubled(n) => \A l \in LoopsOf(n) : \A y \in ToSet(p), z \in ToSet(queue[l]) :
             RankIn(order, y) <= RankIn(order, z)
      BY <2>1, <3>1, <3>6, <3>7 DEF PathOf
    <3>11. EndsRight(s, n)'
      <4>1. CASE \A l \in LoopsOf(n) : queue[l] = <<>>
        BY <3>2, <3>7, <3>9, <4>1 DEF EndsRight
      <4>2. CASE order = <<>>
        <5>1. KnownIn(order) = {First} /\ LastIn(order) = First
          BY <4>2, NothingStored
        <5>2. ASSUME NEW l \in LoopsOf(n), queue[l] # <<>>
              PROVE  queue[l][Len(queue[l])] = LastIn(order)
          <6>1. queue[l] \in Seq(Slides)
            BY LoopFacts DEF StateInv, ChannelsInv
          <6>2. Len(queue[l]) \in DOMAIN queue[l]
            BY <5>2, <6>1
          <6>3. queue[l][Len(queue[l])] \in ToSet(queue[l])
            BY <6>2 DEF ToSet
          <6> QED
            BY <3>4, <5>1, <6>3
        <5> QED
          BY <3>2, <3>7, <3>9, <5>2 DEF EndsRight
      <4> QED
        BY <3>5, <4>1, <4>2
    <3> QED
      BY <3>1, <3>8, <3>9, <3>10, <3>11 DEF PathOf
  <2> QED
    BY <2>2, <2>3
<1> QED
  BY <1>4, <1>5, <1>7, <1>8 DEF StageInv

LEMMA DisconnectStage ==
  ASSUME StateInv, StageInv, NEW n \in Nodes, NEW c \in Clients, Disconnect(c, n)
  PROVE  StageInv'
<1>1. UNCHANGED <<cache, greeted, sub, publishing, queue, shown, order, author, excused>>
  BY DEF Disconnect
<1>2. /\ c \in room[n] /\ \A s \in Screens \ {c} : wire'[s] = wire[s]
      /\ \A d \in Clients \ {c} : connected'[d] = connected[d]
  BY DEF Disconnect, StateInv, ChannelsInv
<1>3. \A m \in Nodes : room'[m] = room[m] \ {c}
  <2>1. \A m \in Nodes : m = n \/ c \notin room[m]
    BY <1>2, OneRoom DEF StateInv
  <2>2. \A m \in Nodes : room'[m] = IF m = n THEN room[m] \ {c} ELSE room[m]
    BY DEF Disconnect, StateInv, TypeOK
  <2> QED
    BY <2>1, <2>2
<1>4. StoreInv'
  BY DisconnectStore DEF StageInv
<1>5. CalmInv'
  BY <1>1 DEF StageInv, CalmInv, Nothing
<1>6. GreetInv'
  <2>1. \A s \in Screens : Joined(s)' => Joined(s) /\ s # c
    BY <1>3 DEF Joined
  <2> QED
    BY <1>1, <1>2, <2>1 DEF StageInv, GreetInv, Clients
<1>7. PathInv'
  <2> SUFFICES ASSUME NEW s \in Screens \ excused, NEW m \in Nodes, s \in room'[m]
               PROVE  PathOf(s, m)'
    BY <1>1 DEF PathInv
  <2>1. s # c /\ PathOf(s, m)
    BY <1>3 DEF StageInv, PathInv
  <2> QED
    BY <1>1, <1>2, <2>1, DoubledStays, PathStays
<1> QED
  BY <1>4, <1>5, <1>6, <1>7 DEF StageInv

LEMMA ReceiveSlideStage ==
  ASSUME StateInv, StageInv, NEW n \in Nodes, NEW r \in Remotes, ReceiveSlide(r, n)
  PROVE  StageInv'
<1> DEFINE slide == Head(inbox[r])
<1>1. slide \in Clicks \ ToSet(order) /\ slide \in Slides
  BY ArrivesNew DEF ReceiveSlide, Slides, StateInv
<1>2. /\ order' = Append(order, slide) /\ author' = n /\ BroadcastLocal(n, slide)
      /\ UNCHANGED <<room, greeted, sub, queue, connected, shown>>
  BY DEF ReceiveSlide, pages
<1>3. /\ publishing[r] = Nothing
      /\ publishing' = IF canPublish[n] THEN [publishing EXCEPT ![r] = [node |-> n, slide |-> slide]]
                       ELSE publishing
      /\ excused' = IF Overlap(r, n) \/ ~canPublish[n] THEN Screens
                    ELSE IF Settled THEN {s \in excused : ~Joined(s) \/ wire[s] # <<>>} ELSE excused
  BY DEF ReceiveSlide
<1> HIDE DEF slide
<1>4. StoreInv'
  BY ReceiveSlideStore DEF StageInv
<1>5. \A s \in Screens : wire'[s] = IF s \in room[n] THEN Append(wire[s], slide) ELSE wire[s]
  BY <1>2 DEF BroadcastLocal
<1>6. \A s \in Screens : wire[s] \in Seq(Slides) /\ Append(wire[s], slide) # <<>>
  <2>1. \A s \in Screens : wire[s] \in Seq(Slides)
    BY DEF StateInv, ChannelsInv
  <2> QED
    BY <1>1, <2>1, AppendFacts
<1>7. GreetInv'
  <2>1. \A s \in Screens : wire[s] # <<>> => wire'[s] # <<>>
    BY <1>5, <1>6
  <2> QED
    BY <1>2, <2>1 DEF StageInv, GreetInv, Joined
<1>8. CASE Overlap(r, n) \/ ~canPublish[n]
  <2>1. CalmInv' /\ PathInv'
    BY <1>3, <1>8 DEF CalmInv, PathInv
  <2> QED
    BY <1>4, <1>7, <2>1 DEF StageInv
<1>9. CASE ~Overlap(r, n) /\ canPublish[n]
  <2> DEFINE msg == [node |-> n, slide |-> slide]
  <2>1. /\ \A l \in LoopsOf(n) : queue[l] = <<>>
        /\ \A q \in Remotes : publishing[q] = Nothing
        /\ publishing'[r] = msg /\ \A q \in Remotes \ {r} : publishing'[q] = Nothing
        /\ Settled => excused' = {s \in excused : ~Joined(s) \/ wire[s] # <<>>}
        /\ ~Settled => excused' = excused
    BY <1>3, <1>9 DEF Overlap, StateInv, ChannelsInv
  <2>2. msg # Nothing /\ msg.node = n /\ msg.slide = slide
    BY LivePresentationAssumption DEF Nothing, LivePresentationAssumption
  <2> HIDE DEF msg
  <2>3. /\ LastIn(order') = slide
        /\ \A y \in KnownIn(order) : RankIn(order', y) = RankIn(order, y)
    <3>1. order \in Seq(Clicks) /\ IsInjective(order)
      BY DEF StateInv, TypeOK, ChannelsInv
    <3> QED
      BY <1>1, <1>2, <3>1, StoredNext, LivePresentationAssumption
  <2>4. \A l \in Loops : queue[l] \in Seq(Slides) /\ ToSet(queue[l]) \subseteq KnownIn(order)
    BY DEF StateInv, ChannelsInv, StageInv, StoreInv
  <2>5. CalmInv'
    <3>1. \A q \in Remotes : publishing'[q] # Nothing =>
            publishing'[q].slide = LastIn(order') /\ author' \in {publishing'[q].node, NoWorker}
      BY <1>2, <2>1, <2>2, <2>3
    <3>2. \A l \in LoopsOf(author') : queue'[l] = <<>>
      BY <1>2, <2>1
    <3>3. ASSUME excused' # Screens, NEW l \in Loops
          PROVE  InOrder(order', queue'[l])
      <4>1. CASE Settled
        BY <1>2, <4>1 DEF Settled, InOrder
      <4>2. CASE ~Settled
        <5>1. InOrder(order, queue[l])
          BY <2>1, <3>3, <4>2 DEF StageInv, CalmInv
        <5>2. \A y \in ToSet(queue[l]) : RankIn(order', y) = RankIn(order, y)
          BY <2>3, <2>4
        <5> QED
          BY <1>2, <2>4, <5>1, <5>2, InOrderStored
      <4> QED
        BY <4>1, <4>2
    <3> QED
      BY <3>1, <3>2, <3>3 DEF CalmInv, Nothing, LoopsOf
  <2>6. PathInv'
    <3> SUFFICES ASSUME NEW s \in Screens \ excused', NEW m \in Nodes, s \in room[m]
                 PROVE  PathOf(s, m)'
      BY <1>2 DEF PathInv
    <3>1. ~Doubled(m) =>
            /\ InOrder(order, wire[s])
            /\ \A l \in LoopsOf(m) : \A x \in ToSet(wire[s]), y \in ToSet(queue[l]) :
                 RankIn(order, x) <= RankIn(order, y)
      <4>1. CASE s \notin excused
        BY <4>1 DEF StageInv, PathInv, PathOf
      <4>2. CASE s \in excused
        <5>1. wire[s] = <<>>
          BY <2>1, <4>2 DEF Joined
        <5> QED
          BY <5>1, NoMessage DEF InOrder
      <4> QED
        BY <4>1, <4>2
    <3>2. ToSet(wire[s]) \subseteq KnownIn(order)
      BY DEF StageInv, StoreInv
    <3>3. ~Doubled(m) => InOrder(order', wire[s])
      <4>1. \A y \in ToSet(wire[s]) : RankIn(order', y) = RankIn(order, y)
        BY <2>3, <3>2
      <4> QED
        BY <1>6, <3>1, <4>1, InOrderStored
    <3>4. CASE m = n
      <4> DEFINE p == Append(wire[s], slide)
      <4>1. \A y \in ToSet(wire[s]) : RankIn(order', y) <= RankIn(order', slide)
        <5>1. StateInv' /\ ToSet(wire[s]) \subseteq KnownIn(order')
          <6>1. StateInv'
            BY ReceiveSlideState
          <6>2. ToSet(order') = ToSet(order) \cup {slide}
            BY <1>1, <1>2, AppendFacts DEF StateInv, ChannelsInv
          <6> QED
            BY <3>2, <6>1, <6>2 DEF KnownIn
        <5>2. order' \in Seq(Clicks) /\ IsInjective(order')
          BY <5>1 DEF StateInv, TypeOK, ChannelsInv
        <5> QED
          BY <2>3, <5>1, <5>2, LastFacts, LivePresentationAssumption
      <4>2. ~Doubled(m) => InOrder(order', p)
        BY <1>1, <1>6, <3>3, <4>1, InOrderAppend
      <4>3. p # <<>> /\ p[Len(p)] = slide
        BY <1>1, <1>6, AppendFacts
      <4> HIDE DEF p
      <4>4. wire'[s] = p /\ \A l \in LoopsOf(n) : queue'[l] = <<>>
        BY <1>2, <1>5, <2>1, <3>4 DEF p
      <4>5. EndsRight(s, n)'
        BY <2>3, <4>3, <4>4 DEF EndsRight, LoopsOf
      <4> QED
        BY <1>2, <3>4, <4>2, <4>4, <4>5, DoubledStays, NoMessage DEF PathOf, LoopsOf
    <3>5. CASE m # n
      <4>1. wire'[s] = wire[s] /\ queue' = queue /\ (Doubled(m)' <=> Doubled(m))
        BY <1>2, <1>5, <3>5, OneRoom, DoubledStays DEF StateInv
      <4>2. ~Doubled(m) => \A l \in LoopsOf(m) : \A x \in ToSet(wire[s]), y \in ToSet(queue[l]) :
              RankIn(order', x) <= RankIn(order', y)
        BY <2>3, <2>4, <3>1, <3>2, LoopFacts
      <4>3. EndsRight(s, m)'
        BY <2>1, <2>2, <3>5 DEF EndsRight, Nothing
      <4> QED
        BY <3>3, <4>1, <4>2, <4>3 DEF PathOf, LoopsOf
    <3> QED
      BY <3>4, <3>5
  <2> QED
    BY <1>4, <1>7, <2>5, <2>6 DEF StageInv
<1> QED
  BY <1>8, <1>9

LEMMA ReceivePointerStage ==
  ASSUME StateInv, StageInv, NEW n \in Nodes, NEW r \in Remotes, ReceivePointer(r, n)
  PROVE  StageInv'
<1> DEFINE x == cache[n]
<1>1. /\ BroadcastLocal(n, x) /\ UNCHANGED <<order, author, room, greeted, sub, queue, connected, shown>>
      /\ publishing[r] = Nothing
      /\ publishing' = IF canPublish[n] THEN [publishing EXCEPT ![r] = [node |-> n, slide |-> x]]
                       ELSE publishing
      /\ excused' = IF Overlap(r, n) \/ author \notin {n, NoWorker} THEN Screens ELSE excused
  BY DEF ReceivePointer, pages
<1>2. x \in Slides
  BY DEF StateInv, TypeOK
<1>3. author \in {n, NoWorker} => x = LastIn(order)
  BY MemoryIsLast DEF StageInv
<1> HIDE DEF x
<1>4. StoreInv'
  BY ReceivePointerStore DEF StageInv
<1>5. \A s \in Screens : wire'[s] = IF s \in room[n] THEN Append(wire[s], x) ELSE wire[s]
  BY <1>1 DEF BroadcastLocal
<1>6. \A s \in Screens : wire[s] \in Seq(Slides) /\ Append(wire[s], x) # <<>>
  <2>1. \A s \in Screens : wire[s] \in Seq(Slides)
    BY DEF StateInv, ChannelsInv
  <2> QED
    BY <1>2, <2>1, AppendFacts
<1>7. GreetInv'
  <2>1. \A s \in Screens : wire[s] # <<>> => wire'[s] # <<>>
    BY <1>5, <1>6
  <2> QED
    BY <1>1, <2>1 DEF StageInv, GreetInv, Joined
<1>8. CASE Overlap(r, n) \/ author \notin {n, NoWorker}
  <2>1. CalmInv' /\ PathInv'
    BY <1>1, <1>8 DEF CalmInv, PathInv
  <2> QED
    BY <1>4, <1>7, <2>1 DEF StageInv
<1>9. CASE ~Overlap(r, n) /\ author \in {n, NoWorker}
  <2> DEFINE msg == [node |-> n, slide |-> x]
  <2>1. /\ \A l \in LoopsOf(n) : queue[l] = <<>>
        /\ excused' = excused
        /\ \A q \in Remotes : publishing[q] = Nothing
        /\ publishing'[r] = Nothing \/ publishing'[r] = msg
        /\ \A q \in Remotes \ {r} : publishing'[q] = Nothing
    BY <1>1, <1>9 DEF Overlap, StateInv, ChannelsInv
  <2>2. msg # Nothing /\ msg.node = n /\ msg.slide = LastIn(order)
    BY <1>3, <1>9, LivePresentationAssumption DEF Nothing, LivePresentationAssumption
  <2> HIDE DEF msg
  <2>3. CalmInv'
    <3>1. \A q \in Remotes : publishing'[q] # Nothing =>
            publishing'[q].slide = LastIn(order) /\ author \in {publishing'[q].node, NoWorker}
      BY <1>9, <2>1, <2>2
    <3> QED
      BY <1>1, <2>1, <3>1 DEF StageInv, CalmInv, Nothing, LoopsOf
  <2>4. PathInv'
    <3> SUFFICES ASSUME NEW s \in Screens \ excused, NEW m \in Nodes, s \in room[m]
                 PROVE  PathOf(s, m)'
      BY <1>1, <2>1 DEF PathInv
    <3>1. PathOf(s, m)
      BY DEF StageInv, PathInv
    <3>2. CASE m = n
      <4> DEFINE p == Append(wire[s], x)
      <4>1. \A y \in ToSet(wire[s]) : RankIn(order, y) <= RankIn(order, x)
        BY <1>3, <1>9, LastIsHighest DEF StageInv, StoreInv
      <4>2. ~Doubled(m) => InOrder(order, p)
        BY <1>2, <1>6, <3>1, <4>1, InOrderAppend DEF PathOf
      <4>3. p # <<>> /\ p[Len(p)] = LastIn(order)
        BY <1>2, <1>3, <1>6, <1>9, AppendFacts
      <4> HIDE DEF p
      <4>4. wire'[s] = p /\ \A l \in LoopsOf(n) : queue'[l] = <<>>
        BY <1>1, <1>5, <2>1, <3>2 DEF p
      <4>5. EndsRight(s, n)'
        BY <1>1, <4>3, <4>4 DEF EndsRight, LoopsOf
      <4> QED
        BY <1>1, <3>2, <4>2, <4>4, <4>5, DoubledStays, NoMessage DEF PathOf, LoopsOf
    <3>3. CASE m # n
      <4>1. wire'[s] = wire[s]
        BY <1>5, <3>3, OneRoom DEF StateInv
      <4> QED
        BY <1>1, <2>1, <3>1, <4>1, DoubledStays, PathStays
    <3> QED
      BY <3>2, <3>3
  <2> QED
    BY <1>4, <1>7, <2>3, <2>4 DEF StageInv
<1> QED
  BY <1>8, <1>9

LEMMA PublishStage ==
  ASSUME StateInv, StageInv, NEW r \in Remotes, Publish(r)
  PROVE  StageInv'
<1> DEFINE x == publishing[r].slide
           k == publishing[r].node
           others == {l \in Loops : At(l) # k /\ sub[l] = "on"}
           missing == UNION {room[m] : m \in Nodes \ ({k} \cup {At(l) : l \in others})}
<1>1. /\ UNCHANGED <<order, author, room, greeted, sub, wire, connected, shown>>
      /\ publishing[r] # Nothing /\ publishing' = [publishing EXCEPT ![r] = Nothing]
      /\ excused' = excused \cup (missing \cap Screens)
  BY DEF Publish, pages
<1>2. \A l \in Loops : queue'[l] = IF At(l) # k /\ sub[l] = "on" THEN Append(queue[l], x)
                                   ELSE queue[l]
  BY DEF Publish
<1>3. x \in Slides /\ k \in Nodes
  BY DEF Publish, StateInv, ChannelsInv, Message
<1>4. \A s \in Screens \ excused', m \in Nodes : s \in room[m] /\ m # k =>
        \E l \in LoopsOf(m) : sub[l] = "on"
  BY <1>1, LoopFacts
<1>5. excused # Screens => x = LastIn(order) /\ author \in {k, NoWorker}
  BY <1>1 DEF StageInv, CalmInv
<1>6. excused \subseteq excused' /\ excused' \subseteq Screens
  BY <1>1 DEF StateInv, TypeOK
<1>7. /\ publishing'[r] = Nothing /\ \A q \in Remotes \ {r} : publishing'[q] = publishing[q]
      /\ \A q \in Remotes : publishing[q] # Nothing /\ publishing[q].node # k =>
           publishing'[q] = publishing[q]
  BY <1>1 DEF StateInv, ChannelsInv
<1> HIDE DEF x, k, others, missing
<1>8. StoreInv'
  BY PublishStore DEF StageInv
<1>9. GreetInv'
  BY <1>1 DEF StageInv, GreetInv, Joined
<1>10. \A l \in Loops : queue[l] \in Seq(Slides) /\ ToSet(queue[l]) \subseteq KnownIn(order)
  BY DEF StateInv, ChannelsInv, StageInv, StoreInv
<1>11. CalmInv'
  <2> SUFFICES ASSUME excused' # Screens
               PROVE  /\ \A q \in Remotes : publishing'[q] # Nothing =>
                           /\ publishing'[q].slide = LastIn(order)
                           /\ author \in {publishing'[q].node, NoWorker}
                      /\ author # NoWorker => \A l \in LoopsOf(author) : queue'[l] = <<>>
                      /\ \A l \in Loops : InOrder(order, queue'[l])
    BY <1>1 DEF CalmInv, Nothing, LoopsOf
  <2>1. excused # Screens
    BY <1>6
  <2>2. \A q \in Remotes : publishing'[q] # Nothing =>
          /\ publishing'[q].slide = LastIn(order)
          /\ author \in {publishing'[q].node, NoWorker}
    BY <1>7, <2>1 DEF StageInv, CalmInv
  <2>3. author # NoWorker => \A l \in LoopsOf(author) : queue'[l] = <<>>
    <3>1. author # NoWorker => author = k /\ \A l \in LoopsOf(author) : queue[l] = <<>>
      BY <1>5, <2>1 DEF StageInv, CalmInv
    <3> QED
      BY <1>2, <1>3, <3>1, LoopFacts
  <2>4. ASSUME NEW l \in Loops
        PROVE  InOrder(order, queue'[l])
    <3>1. InOrder(order, queue[l])
      BY <2>1 DEF StageInv, CalmInv
    <3>2. \A y \in ToSet(queue[l]) : RankIn(order, y) <= RankIn(order, x)
      BY <1>5, <1>10, <2>1, LastIsHighest
    <3>3. InOrder(order, Append(queue[l], x))
      BY <1>3, <1>10, <3>1, <3>2, InOrderAppend
    <3> QED
      BY <1>2, <3>1, <3>3
  <2> QED
    BY <2>2, <2>3, <2>4
<1>12. PathInv'
  <2> SUFFICES ASSUME NEW s \in Screens \ excused', NEW m \in Nodes, s \in room[m]
               PROVE  PathOf(s, m)'
    BY <1>1 DEF PathInv
  <2>1. PathOf(s, m) /\ x = LastIn(order)
    BY <1>5, <1>6 DEF StageInv, PathInv
  <2>2. CASE m = k
    <3>1. \A l \in LoopsOf(m) : queue'[l] = queue[l]
      BY <1>2, <2>2, LoopFacts
    <3>2. (\E q \in Remotes : publishing[q] # Nothing /\ publishing[q].node # m)
            => \E q \in Remotes : publishing'[q] # Nothing /\ publishing'[q].node # m
      BY <1>7, <2>2
    <3> QED
      BY <1>1, <2>1, <3>1, <3>2, DoubledStays, PathStays
  <2>3. CASE m # k
    <3>1. ASSUME NEW l \in LoopsOf(m), sub[l] = "on"
          PROVE  /\ queue'[l] # <<>> /\ queue'[l][Len(queue'[l])] = x
                 /\ ToSet(queue'[l]) = ToSet(queue[l]) \cup {x}
      <4> DEFINE p == Append(queue[l], x)
      <4>1. p # <<>> /\ p[Len(p)] = x /\ ToSet(p) = ToSet(queue[l]) \cup {x}
        BY <1>3, <1>10, AppendFacts, LoopFacts
      <4>2. queue'[l] = p
        BY <1>2, <2>3, <3>1, LoopFacts
      <4> HIDE DEF p
      <4> QED
        BY <4>1, <4>2
    <3>2. ASSUME NEW l \in LoopsOf(m), sub[l] # "on"
          PROVE  queue'[l] = <<>>
      BY <1>2, <3>2, LoopFacts DEF StateInv, TypeOK
    <3>3. \A y \in ToSet(wire[s]) : RankIn(order, y) <= RankIn(order, x)
      BY <2>1, LastIsHighest DEF StageInv, StoreInv
    <3>4. ASSUME ~Doubled(m), NEW l \in LoopsOf(m)
          PROVE  \A y \in ToSet(wire[s]), z \in ToSet(queue'[l]) : RankIn(order, y) <= RankIn(order, z)
      <4>1. CASE sub[l] = "on"
        BY <2>1, <3>1, <3>3, <3>4, <4>1 DEF PathOf
      <4>2. CASE sub[l] # "on"
        BY <3>2, <4>2, NoMessage
      <4> QED
        BY <4>1, <4>2
    <3>5. EndsRight(s, m)'
      <4>1. PICK l \in LoopsOf(m) : sub[l] = "on"
        BY <1>4, <2>3
      <4>2. \A d \in LoopsOf(m) : queue'[d] # <<>> => queue'[d][Len(queue'[d])] = LastIn(order)
        BY <2>1, <3>1, <3>2
      <4>3. queue'[l] # <<>>
        BY <3>1, <4>1
      <4> QED
        BY <1>1, <4>2, <4>3 DEF EndsRight, LoopsOf
    <3> QED
      BY <1>1, <2>1, <3>4, <3>5, DoubledStays DEF PathOf, LoopsOf
  <2> QED
    BY <2>2, <2>3
<1> QED
  BY <1>8, <1>9, <1>11, <1>12 DEF StageInv

LEMMA DeliverStage ==
  ASSUME StateInv, StageInv, NEW l \in Loops, Deliver(l)
  PROVE  StageInv'
<1> DEFINE n == At(l)
           x == Head(queue[l])
           rest == Tail(queue[l])
<1>1. /\ UNCHANGED <<order, author, room, greeted, sub, publishing, connected, shown, excused>>
      /\ queue[l] # <<>> /\ queue'[l] = rest /\ \A d \in Loops \ {l} : queue'[d] = queue[d]
      /\ BroadcastLocal(n, x)
  BY DEF Deliver, pages, StateInv, ChannelsInv
<1>2. queue[l] \in Seq(Slides) /\ ToSet(queue[l]) \subseteq KnownIn(order)
  BY DEF StateInv, ChannelsInv, StageInv, StoreInv
<1>3. /\ rest \in Seq(Slides) /\ x \in Slides /\ x = queue[l][1] /\ x \in ToSet(queue[l])
      /\ Len(queue[l]) \in Nat \ {0} /\ Len(rest) = Len(queue[l]) - 1
      /\ DOMAIN queue[l] = 1 .. Len(queue[l]) /\ DOMAIN rest = 1 .. Len(queue[l]) - 1
      /\ \A i \in 1 .. Len(queue[l]) - 1 : rest[i] = queue[l][i + 1]
      /\ ToSet(rest) \subseteq ToSet(queue[l])
  BY <1>1, <1>2, TailFacts
<1>4. IF rest = <<>> THEN x = queue[l][Len(queue[l])]
      ELSE rest[Len(rest)] = queue[l][Len(queue[l])]
  BY <1>1, <1>2, LastOfTail
<1>5. InOrder(order, queue[l]) => InOrder(order, rest)
  BY <1>1, <1>2, InOrderTail
<1>n. n \in Nodes /\ l \in LoopsOf(n) /\ \A m \in Nodes : \A d \in LoopsOf(m) : d \in Loops /\ At(d) = m
  BY LoopFacts
<1> HIDE DEF n, x, rest
<1>6. \A s \in Screens : wire'[s] = IF s \in room[n] THEN Append(wire[s], x) ELSE wire[s]
  BY <1>1 DEF BroadcastLocal
<1>7. \A s \in Screens : wire[s] \in Seq(Slides) /\ Append(wire[s], x) # <<>>
  <2>1. \A s \in Screens : wire[s] \in Seq(Slides)
    BY DEF StateInv, ChannelsInv
  <2> QED
    BY <1>3, <2>1, AppendFacts
<1>8. StoreInv'
  BY DeliverStore DEF StageInv
<1>9. GreetInv'
  <2>1. \A s \in Screens : wire[s] # <<>> => wire'[s] # <<>>
    BY <1>6, <1>7
  <2> QED
    BY <1>1, <2>1 DEF StageInv, GreetInv, Joined
<1>10. CalmInv'
  <2> SUFFICES ASSUME excused # Screens
               PROVE  /\ author # NoWorker => \A d \in LoopsOf(author) : queue'[d] = <<>>
                      /\ \A d \in Loops : InOrder(order, queue'[d])
    BY <1>1 DEF StageInv, CalmInv, Nothing, LoopsOf
  <2>1. author # NoWorker => \A d \in LoopsOf(author) : queue'[d] = <<>>
    BY <1>1, <1>n DEF StageInv, CalmInv, StateInv, ChannelsInv
  <2>2. \A d \in Loops : InOrder(order, queue'[d])
    BY <1>1, <1>5 DEF StageInv, CalmInv
  <2> QED
    BY <2>1, <2>2
<1>11. PathInv'
  <2> SUFFICES ASSUME NEW s \in Screens \ excused, NEW m \in Nodes, s \in room[m]
               PROVE  PathOf(s, m)'
    BY <1>1 DEF PathInv
  <2>1. PathOf(s, m) /\ excused # Screens
    BY DEF StageInv, PathInv
  <2>2. CASE m # n
    <3>1. wire'[s] = wire[s]
      BY <1>6, <1>n, <2>2, OneRoom DEF StateInv
    <3>2. \A d \in LoopsOf(m) : queue'[d] = queue[d]
      BY <1>1, <1>n, <2>2 DEF n
    <3> QED
      BY <1>1, <2>1, <3>1, <3>2, DoubledStays, PathStays
  <2>3. CASE m = n
    <3> DEFINE p == Append(wire[s], x)
    <3>1. InOrder(order, queue[l])
      BY <2>1 DEF StageInv, CalmInv
    <3>2. \A z \in ToSet(rest) : RankIn(order, x) <= RankIn(order, z)
      <4> SUFFICES ASSUME NEW i \in 1 .. Len(queue[l]) - 1
                   PROVE  RankIn(order, x) <= RankIn(order, rest[i])
        BY <1>3 DEF ToSet
      <4>1. 1 \in DOMAIN queue[l] /\ i + 1 \in DOMAIN queue[l] /\ 1 < i + 1
        BY <1>3
      <4> QED
        BY <1>3, <3>1, <4>1 DEF InOrder
    <3>3. ~Doubled(n) => \A y \in ToSet(wire[s]) : RankIn(order, y) <= RankIn(order, x)
      BY <1>3, <1>n, <2>1, <2>3 DEF PathOf
    <3>4. p # <<>> /\ p[Len(p)] = x /\ ToSet(p) = ToSet(wire[s]) \cup {x}
      BY <1>3, <1>7, AppendFacts
    <3>5. ~Doubled(n) => InOrder(order, p)
      BY <1>3, <1>7, <2>1, <2>3, <3>3, InOrderAppend DEF PathOf
    <3> HIDE DEF p
    <3>6. /\ wire'[s] = p /\ queue'[l] = rest
          /\ \A d \in LoopsOf(n) \ {l} : queue'[d] = queue[d]
      BY <1>1, <1>6, <1>n, <2>3 DEF p
    <3>7. ASSUME ~Doubled(n), NEW d \in LoopsOf(n)
          PROVE  \A y \in ToSet(p), z \in ToSet(queue'[d]) : RankIn(order, y) <= RankIn(order, z)
      <4>1. CASE d = l
        <5>1. \A y \in ToSet(wire[s]), z \in ToSet(rest) : RankIn(order, y) <= RankIn(order, z)
          BY <1>3, <1>n, <2>1, <2>3, <3>7 DEF PathOf
        <5> QED
          BY <3>2, <3>4, <3>6, <4>1, <5>1
      <4>2. CASE d # l
        <5>1. queue'[d] = <<>>
          BY <1>1, <1>n, <3>6, <3>7, <4>2, OnlyLoop DEF StateInv
        <5> QED
          BY <5>1, NoMessage
      <4> QED
        BY <4>1, <4>2
    <3>8. EndsRight(s, n) => EndsRight(s, n)'
      <4>1. CASE \E r \in Remotes : publishing[r] # Nothing /\ publishing[r].node # n
        BY <1>1, <4>1 DEF EndsRight, Nothing
      <4>2. ASSUME \A d \in LoopsOf(n) : queue[d] # <<>> => queue[d][Len(queue[d])] = LastIn(order)
            PROVE  EndsRight(s, n)'
        <5>1. \A d \in LoopsOf(n) : queue'[d] # <<>> => queue'[d][Len(queue'[d])] = LastIn(order)
          BY <1>1, <1>4, <1>n, <3>6, <4>2
        <5>2. CASE \E d \in LoopsOf(n) : queue'[d] # <<>>
          BY <1>1, <5>1, <5>2 DEF EndsRight, LoopsOf
        <5>3. CASE \A d \in LoopsOf(n) : queue'[d] = <<>>
          <6>1. x = LastIn(order)
            BY <1>1, <1>4, <1>n, <3>6, <4>2, <5>3
          <6>2. wire'[s] # <<>> /\ wire'[s][Len(wire'[s])] = LastIn(order)
            BY <3>4, <3>6, <6>1
          <6> QED
            BY <1>1, <5>1, <6>2 DEF EndsRight, LoopsOf
        <5> QED
          BY <5>2, <5>3
      <4> QED
        BY <4>1, <4>2 DEF EndsRight
    <3> QED
      BY <1>1, <2>1, <2>3, <3>5, <3>6, <3>7, <3>8, DoubledStays DEF PathOf, LoopsOf
  <2> QED
    BY <2>2, <2>3
<1> QED
  BY <1>8, <1>9, <1>10, <1>11 DEF StageInv

LEMMA OnMessageStage ==
  ASSUME StateInv, StageInv, NEW s \in Screens, OnMessage(s)
  PROVE  StageInv'
<1> DEFINE x == Head(wire[s])
           rest == Tail(wire[s])
<1>1. /\ UNCHANGED <<cache, order, author, room, greeted, sub, publishing, queue, connected, excused>>
      /\ connected[s] /\ wire[s] # <<>> /\ wire'[s] = rest /\ shown'[s] = x
      /\ \A t \in Screens \ {s} : wire'[t] = wire[t] /\ shown'[t] = shown[t]
  BY DEF OnMessage, server, StateInv, ChannelsInv, TypeOK
<1>2. wire[s] \in Seq(Slides)
  BY DEF StateInv, ChannelsInv
<1>3. rest \in Seq(Slides) /\ ToSet(rest) \subseteq ToSet(wire[s])
  BY <1>1, <1>2, TailFacts
<1>4. IF rest = <<>> THEN x = wire[s][Len(wire[s])]
      ELSE rest[Len(rest)] = wire[s][Len(wire[s])]
  BY <1>1, <1>2, LastOfTail
<1>5. InOrder(order, wire[s]) => InOrder(order, rest)
  BY <1>1, <1>2, InOrderTail
<1> HIDE DEF x, rest
<1>6. StoreInv'
  BY OnMessageStore DEF StageInv
<1>7. CalmInv'
  BY <1>1 DEF StageInv, CalmInv, Nothing
<1>8. GreetInv'
  BY <1>1 DEF StageInv, GreetInv, Joined
<1>9. PathInv'
  <2> SUFFICES ASSUME NEW t \in Screens \ excused, NEW n \in Nodes, t \in room[n]
               PROVE  PathOf(t, n)'
    BY <1>1 DEF PathInv
  <2>1. PathOf(t, n)
    BY DEF StageInv, PathInv
  <2>2. CASE t # s
    BY <1>1, <2>1, <2>2, DoubledStays, PathStays
  <2>3. CASE t = s
    <3>1. ~Doubled(n) => InOrder(order, rest)
      BY <1>5, <2>1, <2>3 DEF PathOf
    <3>2. ~Doubled(n) => \A l \in LoopsOf(n) : \A y \in ToSet(rest), z \in ToSet(queue[l]) :
            RankIn(order, y) <= RankIn(order, z)
      BY <1>3, <2>1, <2>3 DEF PathOf
    <3>3. EndsRight(s, n) => EndsRight(s, n)'
      <4>1. CASE \E r \in Remotes : publishing[r] # Nothing /\ publishing[r].node # n
        BY <1>1, <4>1 DEF EndsRight, Nothing
      <4>2. CASE /\ \A l \in LoopsOf(n) : queue[l] # <<>> => queue[l][Len(queue[l])] = LastIn(order)
                 /\ \E l \in LoopsOf(n) : queue[l] # <<>>
        BY <1>1, <4>2 DEF EndsRight, LoopsOf
      <4>3. CASE /\ \A l \in LoopsOf(n) : queue[l] # <<>> => queue[l][Len(queue[l])] = LastIn(order)
                 /\ wire[s][Len(wire[s])] = LastIn(order)
        BY <1>1, <1>4, <4>3 DEF EndsRight, LoopsOf
      <4> QED
        BY <1>1, <4>1, <4>2, <4>3 DEF EndsRight
    <3> QED
      BY <1>1, <2>1, <2>3, <3>1, <3>2, <3>3, DoubledStays DEF PathOf, LoopsOf
  <2> QED
    BY <2>2, <2>3
<1> QED
  BY <1>6, <1>7, <1>8, <1>9 DEF StageInv

\* A poll is answered only to a page without a socket; if it was greeted, what it
\* was sent still waits for it.
LEMMA PollAnsweredStage ==
  ASSUME StateInv, StageInv, NEW s \in Screens, NEW slide \in polls[s], PollAnswered(s, slide)
  PROVE  StageInv'
<1>1. /\ UNCHANGED <<cache, order, author, room, greeted, sub, publishing, queue, wire, connected, excused>>
      /\ ~connected[s] /\ \A t \in Screens \ {s} : shown'[t] = shown[t]
  BY DEF PollAnswered, server, StateInv, TypeOK
<1>2. StoreInv'
  BY <1>1 DEF StageInv, StoreInv
<1>3. CalmInv'
  BY <1>1 DEF StageInv, CalmInv, Nothing
<1>4. GreetInv'
  BY <1>1 DEF StageInv, GreetInv, Joined
<1>5. PathInv'
  <2> SUFFICES ASSUME NEW t \in Screens \ excused, NEW n \in Nodes, t \in room[n]
               PROVE  PathOf(t, n)'
    BY <1>1 DEF PathInv
  <2>1. PathOf(t, n)
    BY DEF StageInv, PathInv
  <2>2. CASE t # s
    BY <1>1, <2>1, <2>2, DoubledStays, PathStays
  <2>3. CASE t = s
    <3>1. s \in greeted => wire[s] # <<>>
      BY <1>1, <2>3 DEF StageInv, GreetInv, Joined
    <3>2. s \in greeted /\ EndsRight(s, n) => EndsRight(s, n)'
      BY <1>1, <3>1 DEF EndsRight, Nothing, LoopsOf
    <3> QED
      BY <1>1, <2>1, <2>3, <3>2, DoubledStays DEF PathOf, LoopsOf
  <2> QED
    BY <2>2, <2>3
<1> QED
  BY <1>2, <1>3, <1>4, <1>5 DEF StageInv

LEMMA OnOpenStage ==
  ASSUME StateInv, StageInv, NEW c \in Clients, OnOpen(c)
  PROVE  StageInv'
<1>1. /\ UNCHANGED <<cache, order, author, room, greeted, sub, publishing, queue, wire, shown, excused>>
      /\ \A d \in Clients : connected[d] => connected'[d]
  BY DEF OnOpen, server, StateInv, ChannelsInv
<1>2. StoreInv'
  BY <1>1 DEF StageInv, StoreInv
<1>3. CalmInv'
  BY <1>1 DEF StageInv, CalmInv, Nothing
<1>4. GreetInv'
  BY <1>1 DEF StageInv, GreetInv, Joined, Clients
<1>5. PathInv'
  BY <1>1, DoubledStays, PathStays DEF StageInv, PathInv
<1> QED
  BY <1>2, <1>3, <1>4, <1>5 DEF StageInv

LEMMA NextStage ==
  ASSUME StateInv, StageInv, [Next]_vars
  PROVE  StageInv'
<1>1. CASE UNCHANGED vars
  BY <1>1, DoubledStays, QuietStage DEF vars
<1>2. ASSUME NEW n \in Nodes, Worker(n)
      PROVE  StageInv'
  <2>1. ASSUME NEW c \in Clients, Connect(c, n) \/ Greet(c, n) \/ Disconnect(c, n)
        PROVE  StageInv'
    BY <2>1, ConnectStage, GreetStage, DisconnectStage
  <2>2. ASSUME NEW r \in Remotes, ReceiveSlide(r, n) \/ ReceivePointer(r, n)
        PROVE  StageInv'
    BY <2>2, ReceiveSlideStage, ReceivePointerStage
  <2>3. ASSUME NEW l \in Loops, Subscribe(l)
        PROVE  StageInv'
    <3>1. \A d \in Loops : sub[d] = "on" => sub'[d] = "on"
      BY <2>3 DEF Subscribe, StateInv, TypeOK
    <3>2. \A m \in Nodes : Doubled(m) => Doubled(m)'
      BY <3>1, LoopFacts DEF Doubled
    <3> QED
      BY <2>3, <3>2, QuietStage DEF Subscribe, pages
  <2>4. ASSUME NEW l \in Loops, Deliver(l)
        PROVE  StageInv'
    BY <2>4, DeliverStage
  <2>5. ASSUME NEW l \in Loops, SubscriptionFails(l)
        PROVE  StageInv'
    <3>1. StoreInv'
      BY <2>5, SubscriptionFailsStore DEF StageInv
    <3> QED
      BY <2>5, <3>1, ExcusedStage DEF SubscriptionFails, pages
  <2>6. ASSUME NEW slide \in patches, Patch(slide, n)
        PROVE  StageInv'
    <3>1. StoreInv'
      BY <2>6, PatchStore DEF StageInv
    <3> QED
      BY <2>6, <3>1, ExcusedStage DEF Patch, pages
  <2>7. ASSUME NEW s \in Screens, Poll(s, n)
        PROVE  StageInv'
    BY <2>7, DoubledStays, QuietStage DEF Poll, server
  <2>8. CASE PingAnswered(n)
    <3>1. \A d \in Loops : sub[d] = "on" => sub'[d] = "on"
      BY <2>8, LoopFacts DEF PingAnswered, StateInv, TypeOK, ChannelsInv
    <3>2. \A m \in Nodes : Doubled(m) => Doubled(m)'
      BY <3>1, LoopFacts DEF Doubled
    <3> QED
      BY <2>8, <3>2, QuietStage DEF PingAnswered, pages
  <2>9. CASE PingFails(n)
    BY <2>9, DoubledStays, QuietStage DEF PingFails, pages
  <2> QED
    BY <1>2, <2>1, <2>2, <2>3, <2>4, <2>5, <2>6, <2>7, <2>8, <2>9, LoopFacts DEF Worker
<1>3. ASSUME NEW r \in Remotes, Go(r) \/ Point(r) \/ Publish(r) \/ PublishFails(r)
      PROVE  StageInv'
  <2>1. CASE Go(r)
    BY <2>1, DoubledStays, QuietStage DEF Go, server, pages
  <2>2. CASE Point(r)
    BY <2>2, DoubledStays, QuietStage DEF Point, server, pages
  <2>3. CASE Publish(r)
    BY <2>3, PublishStage
  <2>4. CASE PublishFails(r)
    <3>1. StoreInv'
      BY <2>4, PublishFailsStore DEF StageInv
    <3> QED
      BY <2>4, <3>1, ExcusedStage DEF PublishFails, pages
  <2> QED
    BY <1>3, <2>1, <2>2, <2>3, <2>4
<1>4. ASSUME NEW s \in Screens, Stage(s)
      PROVE  StageInv'
  BY <1>4, OnMessageStage, PollAnsweredStage DEF Stage
<1>5. ASSUME NEW c \in Clients, OnOpen(c)
      PROVE  StageInv'
  BY <1>5, OnOpenStage
<1> QED
  BY <1>1, <1>2, <1>3, <1>4, <1>5 DEF Next

LEMMA AlwaysStage == Spec => [](StateInv /\ StageInv)
<1>1. Init => StageInv
  BY InitStage, LivePresentationAssumption
<1>2. StateInv /\ StageInv /\ [Next]_vars => StageInv'
  BY NextStage
<1> QED
  BY <1>1, <1>2, AlwaysState, PTL DEF Spec

\* A stage that is not excused is sent the slides in the order in which they were
\* stored, whatever workers, pointer messages, polls and lost connections there are,
\* unless its worker subscribed to Redis twice.
THEOREM StageOrdered == Spec => []StageInOrder
<1>1. ASSUME StateInv, StageInv
      PROVE  StageInOrder
  <2> SUFFICES ASSUME NEW n \in Nodes, ~Doubled(n), NEW s \in Screens \ excused, s \in room[n]
               PROVE  InOrder(order, wire[s])
    BY OfTheModel DEF StageInOrder, InOrder
  <2> QED
    BY <1>1 DEF StageInv, PathInv, PathOf
<1> QED
  BY <1>1, AlwaysStage, PTL

\* Once everything sent has arrived, a stage that is not excused shows the last slide
\* that was stored, by whichever worker.
THEOREM LastSlideShown == Spec => []StageShowsLast
<1>1. ASSUME StateInv, StageInv
      PROVE  StageShowsLast
  <2> SUFFICES ASSUME NEW s \in Screens \ excused, connected[s], s \in greeted,
                      wire[s] = <<>>, Settled
               PROVE  shown[s] = LastIn(order)
    BY OfTheModel DEF StageShowsLast
  <2>1. PICK n \in Nodes : s \in room[n]
    BY <1>1 DEF StateInv, TypeOK, Joined, Clients
  <2>2. EndsRight(s, n)
    BY <1>1, <2>1 DEF StageInv, PathInv, PathOf
  <2> QED
    BY <2>1, <2>2, LoopFacts DEF EndsRight, Settled
<1> QED
  BY <1>1, AlwaysStage, PTL
=============================================================================
