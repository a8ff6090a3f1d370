--------------------------- MODULE Billing_proofs ---------------------------
(***************************************************************************)
(* Proofs about Billing, for every value of its constants.                  *)
(***************************************************************************)
EXTENDS Billing, FiniteSetTheorems, WellFoundedInduction, TLAPS

\* What a session can be, and a subscription that is active.
Transaction == {Idle} \cup Paying \cup Refunding \cup Granting \cup Renewing
ActiveRow == [plan : Plans, active : {TRUE}, expires : Nat, credited : Nat]

\* A session at the order of a payment, and one of "paid".
AtOrder(s) == sess[s].pc \in {"ordered", "read", "credited", "refunding"}
AtPayment(s) == sess[s].pc \in {"ordered", "read", "credited"}

\* Whatever is paid was ordered; the lock of an order has one owner, who credits an
\* order that is not paid, or refunds one that is not refunded.
OrderInv ==
  /\ \A o \in paid : order[o] # Absent
  /\ \A s \in Sessions : AtOrder(s) => order[sess[s].order] # Absent
  /\ \A s \in Sessions : AtPayment(s) => order[sess[s].order].status # "paid"
  /\ \A s \in Sessions : sess[s].pc = "refunding" => order[sess[s].order].status # "refunded"
  /\ \A s, t \in Sessions :
       AtOrder(s) /\ AtOrder(t) /\ sess[s].order = sess[t].order => s = t

\* What a session knows of the rows of subscriptions is about rows there are.
RowsInv ==
  \A s \in Sessions :
    /\ AtPayment(s) \/ sess[s].pc = "granting" => sess[s].seen <= Len(subs)
    /\ sess[s].pc = "renewing" => sess[s].due \subseteq DOMAIN subs

\* What a session has seen of the active subscriptions: of those there were when it
\* began, it deactivates whichever is still active, but the one of its plan, if there is one.
SeenOf(s) ==
  \A i \in ActiveIn(subs) :
    /\ sess[s].pc = "ordered" /\ i <= sess[s].seen =>
         i \in sess[s].drop \/ subs[i].plan = Plan(s)
    /\ sess[s].pc \in {"read", "credited"} /\ i <= sess[s].seen =>
         i \in sess[s].drop \cup sess[s].same
    /\ sess[s].pc = "granting" /\ i <= sess[s].seen => i \in sess[s].drop

SeenInv == \A s \in Sessions : SeenOf(s)

-----------------------------------------------------------------------------
(* Sums over finite sets.  The library's induction theorems take an operator *)
(* as a parameter; what is proved by induction here is proved from a smallest *)
(* counterexample, which FS_StrictSubsetOrderingWellFounded provides.         *)

\* The sum of w[x] over the x in S; the element its definition takes first; and
\* what it asks of the function it is read from.
Total(w, S) == MapThenSumSet(LAMBDA x : w[x], S)
Some(s) == CHOOSE x \in s : TRUE
Sums(w, S, g) ==
  g = [s \in SUBSET S |-> IF s = {} THEN 0 ELSE w[Some(s)] + g[s \ {Some(s)}]]

\* Among sets of subsets of a finite set there is one with no smaller one.
LEMMA SmallestSet ==
  ASSUME NEW S, IsFiniteSet(S), NEW bad, bad \subseteq SUBSET S, bad # {}
  PROVE  \E T \in bad : \A U \in SUBSET T : U # T => U \notin bad
<1>1. IsWellFoundedOn(StrictSubsetOrdering(S), SUBSET S)
  BY FS_StrictSubsetOrderingWellFounded, FS_FiniteSubsetsOfFinite
<1>2. PICK T \in bad : \A U \in bad : <<U, T>> \notin StrictSubsetOrdering(S)
  BY <1>1, WFMin, Zenon
<1>3. QED
  BY <1>2 DEF StrictSubsetOrdering

\* The element taken first is one.
LEMMA SomeElement == ASSUME NEW s, s # {} PROVE Some(s) \in s
  BY DEF Some

\* The sum is read from a function that Sums describes, if there is one.
LEMMA TotalChooses == \A w, S : Total(w, S) = (CHOOSE g : Sums(w, S, g))[S]
  BY DEF Total, MapThenSumSet, MapThenFoldSet, Sums, Some

\* What such a function is at each subset.
LEMMA SumsEquation ==
  ASSUME NEW w, NEW S, NEW g, Sums(w, S, g), NEW s \in SUBSET S
  PROVE  g[s] = IF s = {} THEN 0 ELSE w[Some(s)] + g[s \ {Some(s)}]
  BY Zenon DEF Sums

\* Two of them agree wherever both are defined.
LEMMA SumsUnique ==
  ASSUME NEW w, NEW S, NEW T, IsFiniteSet(S), NEW g, NEW h, Sums(w, S, g), Sums(w, T, h)
  PROVE  \A s \in SUBSET (S \cap T) : g[s] = h[s]
<1> DEFINE bad == {s \in SUBSET (S \cap T) : g[s] # h[s]}
<1>1. SUFFICES ASSUME bad # {} PROVE FALSE
  OBVIOUS
<1>sub. bad \subseteq SUBSET (S \cap T)
  OBVIOUS
<1> HIDE DEF bad
<1>2. PICK s \in bad : \A u \in SUBSET s : u # s => u \notin bad
  BY <1>1, <1>sub, SmallestSet
<1> USE DEF bad
<1>3. s \in SUBSET S /\ s \in SUBSET T /\ g[s] # h[s]
  BY <1>2
<1>4. /\ g[s] = IF s = {} THEN 0 ELSE w[Some(s)] + g[s \ {Some(s)}]
      /\ h[s] = IF s = {} THEN 0 ELSE w[Some(s)] + h[s \ {Some(s)}]
  BY <1>3, SumsEquation
<1>5. s # {}
  BY <1>3, <1>4
<1>6. s \ {Some(s)} \in SUBSET s /\ s \ {Some(s)} # s
  BY <1>5, SomeElement
<1>7. g[s \ {Some(s)}] = h[s \ {Some(s)}]
  BY <1>2, <1>3, <1>6
<1>8. QED
  BY <1>3, <1>4, <1>7

\* There is one for every finite set.
LEMMA SumsExist ==
  ASSUME NEW w, NEW S, IsFiniteSet(S)
  PROVE  \A T \in SUBSET S : \E g : Sums(w, T, g)
<1> DEFINE bad == {T \in SUBSET S : ~\E g : Sums(w, T, g)}
<1>1. SUFFICES ASSUME bad # {} PROVE FALSE
  OBVIOUS
<1>sub. bad \subseteq SUBSET S
  OBVIOUS
<1> HIDE DEF bad
<1>2. PICK T \in bad : \A u \in SUBSET T : u # T => u \notin bad
  BY <1>1, <1>sub, SmallestSet
<1> USE DEF bad
<1>3. T \in SUBSET S /\ \A u \in SUBSET T : u # T => \E g : Sums(w, u, g)
  BY <1>2
<1> DEFINE G == [s \in SUBSET T |-> IF s = {} THEN 0 ELSE w[Some(s)] + Total(w, s \ {Some(s)})]
<1>4. ASSUME NEW u \in SUBSET T, u # T
      PROVE  G[u] = Total(w, u)
  <2>1. PICK g : g = (CHOOSE f : Sums(w, u, f)) /\ Sums(w, u, g)
    BY <1>3, <1>4
  <2>2. Total(w, u) = g[u]
    BY <2>1, TotalChooses
  <2>3. g[u] = IF u = {} THEN 0 ELSE w[Some(u)] + g[u \ {Some(u)}]
    BY <2>1, SumsEquation
  <2>4. CASE u = {}
    BY <2>2, <2>3, <2>4
  <2>5. CASE u # {}
    <3> DEFINE v == u \ {Some(u)}
    <3>1. v \in SUBSET u /\ v \in SUBSET T /\ v # T
      BY <1>4
    <3>2. PICK h : h = (CHOOSE f : Sums(w, v, f)) /\ Sums(w, v, h)
      BY <1>3, <3>1
    <3>3. Total(w, v) = h[v]
      BY <3>2, TotalChooses
    <3>4. IsFiniteSet(v)
      BY <1>3, <3>1, FS_Subset
    <3>5. v \in SUBSET (v \cap u)
      BY <3>1
    <3>6. h[v] = g[v]
      BY <2>1, <3>2, <3>4, <3>5, SumsUnique
    <3>7. QED
      BY <2>2, <2>3, <2>5, <3>3, <3>6
  <2>6. QED
    BY <2>4, <2>5
<1>5. G = [s \in SUBSET T |-> IF s = {} THEN 0 ELSE w[Some(s)] + G[s \ {Some(s)}]]
  <2>1. ASSUME NEW s \in SUBSET T, s # {}
        PROVE  G[s \ {Some(s)}] = Total(w, s \ {Some(s)})
    <3>1. Some(s) \in s
      BY <2>1, SomeElement
    <3>2. s \ {Some(s)} \in SUBSET T /\ s \ {Some(s)} # T
      BY <3>1
    <3>3. QED
      BY <1>4, <3>2
  <2>2. QED
    BY <2>1
<1>6. Sums(w, T, G)
  BY <1>5 DEF Sums
<1>7. QED
  BY <1>2, <1>6

\* What the sum is, with the element its definition chooses.
LEMMA TotalEquation ==
  ASSUME NEW w, NEW S, IsFiniteSet(S)
  PROVE  Total(w, S) = IF S = {} THEN 0 ELSE w[Some(S)] + Total(w, S \ {Some(S)})
<1> DEFINE v == S \ {Some(S)}
<1>1. IsFiniteSet(v) /\ v \in SUBSET S /\ S \in SUBSET S
  BY FS_Subset
<1>2. PICK g : g = (CHOOSE f : Sums(w, S, f)) /\ Sums(w, S, g)
  BY <1>1, SumsExist
<1>3. PICK h : h = (CHOOSE f : Sums(w, v, f)) /\ Sums(w, v, h)
  BY <1>1, SumsExist
<1>4. Total(w, S) = g[S] /\ Total(w, v) = h[v]
  BY <1>2, <1>3, TotalChooses
<1>5. g[S] = IF S = {} THEN 0 ELSE w[Some(S)] + g[v]
  <2>1. Sums(w, S, g) /\ S \in SUBSET S
    BY <1>2
  <2>2. QED
    BY <2>1, Zenon DEF Sums
<1>6. v \in SUBSET (v \cap S)
  BY <1>1
<1>7. h[v] = g[v]
  BY <1>1, <1>2, <1>3, <1>6, SumsUnique
<1>8. QED
  BY <1>4, <1>5, <1>7

\* The sum of natural numbers is one.
LEMMA TotalType ==
  ASSUME NEW U, NEW w \in [U -> Nat], NEW S \in SUBSET U, IsFiniteSet(S)
  PROVE  Total(w, S) \in Nat
<1> DEFINE bad == {T \in SUBSET S : Total(w, T) \notin Nat}
<1>1. SUFFICES ASSUME bad # {} PROVE FALSE
  OBVIOUS
<1>sub. bad \subseteq SUBSET S
  OBVIOUS
<1> HIDE DEF bad
<1>2. PICK T \in bad : \A u \in SUBSET T : u # T => u \notin bad
  BY <1>1, <1>sub, SmallestSet
<1> USE DEF bad
<1>3. T \in SUBSET S /\ Total(w, T) \notin Nat /\ IsFiniteSet(T)
  BY <1>2, FS_Subset
<1>4. Total(w, T) = IF T = {} THEN 0 ELSE w[Some(T)] + Total(w, T \ {Some(T)})
  BY <1>3, TotalEquation
<1>5. T # {}
  BY <1>3, <1>4
<1>6. Some(T) \in T
  BY <1>5, SomeElement
<1>7. Total(w, T \ {Some(T)}) \in Nat
  BY <1>2, <1>3, <1>6
<1>8. w[Some(T)] \in Nat
  BY <1>3, <1>6
<1>9. QED
  BY <1>3, <1>4, <1>5, <1>7, <1>8

-----------------------------------------------------------------------------
(* Sessions.                                                                *)

\* What a session is can be told from its pc.
LEMMA SessionByPc ==
  ASSUME TypeOK, NEW s \in Sessions
  PROVE  /\ AtPayment(s) => sess[s] \in Paying
         /\ sess[s].pc = "refunding" => sess[s] \in Refunding
         /\ sess[s].pc = "granting" => sess[s] \in Granting
         /\ sess[s].pc = "renewing" => sess[s] \in Renewing
         /\ sess[s].pc = "idle" => sess[s] = Idle
BY DEF TypeOK, AtPayment, Idle, Paying, Refunding, Granting, Renewing

\* A session moves on to a transaction, and no other session does.
LEMMA SessionMoves ==
  ASSUME TypeOK, NEW s \in Sessions, NEW x \in Transaction, sess' = [sess EXCEPT ![s] = x]
  PROVE  /\ sess' \in [Sessions -> Transaction]
         /\ sess'[s] = x
         /\ \A t \in Sessions \ {s} : sess'[t] = sess[t]
BY DEF TypeOK, Transaction

\* So when it begins with one,
LEMMA SessionBegins ==
  ASSUME TypeOK, NEW s \in Sessions, NEW x \in Transaction, Begin(s, x)
  PROVE  /\ sess' \in [Sessions -> Transaction]
         /\ sess[s].pc = "idle"
         /\ sess'[s] = x
         /\ \A t \in Sessions \ {s} : sess'[t] = sess[t]
<1>1. sess[s] = Idle /\ sess' = [sess EXCEPT ![s] = x]
  BY DEF Begin
<1>2. Idle.pc = "idle"
  BY DEF Idle
<1>3. QED
  BY <1>1, <1>2, SessionMoves

\* and when it ends.
LEMMA SessionEnds ==
  ASSUME TypeOK, NEW s \in Sessions, End(s)
  PROVE  /\ sess' \in [Sessions -> Transaction]
         /\ sess'[s] = Idle /\ sess'[s].pc = "idle"
         /\ \A t \in Sessions \ {s} : sess'[t] = sess[t]
<1>1. Idle \in Transaction
  BY DEF Transaction
<1>2. QED
  BY <1>1, SessionMoves DEF End, Idle

-----------------------------------------------------------------------------
(* Rows of subscriptions.                                                   *)

\* An active row is one with all its fields, and the ended one is not active.
LEMMA RowIsActive ==
  ASSUME TypeOK, NEW i \in ActiveIn(subs)
  PROVE  i \in DOMAIN subs /\ i \in 1 .. Len(subs) /\ subs[i] \in ActiveRow
<1>1. i \in DOMAIN subs /\ subs[i].active
  BY DEF ActiveIn
<1>2. subs \in Seq(Subscription) /\ DOMAIN subs = 1 .. Len(subs)
  BY DEF TypeOK
<1>3. subs[i] \in Subscription
  BY <1>1, <1>2
<1>4. subs[i] # Ended
  BY <1>1 DEF Ended
<1>5. subs[i] \in ActiveRow
  BY <1>3, <1>4 DEF Subscription, ActiveRow
<1>6. QED
  BY <1>1, <1>2, <1>5

\* Rows that are put in the place of the old ones are rows.
LEMMA RowsTyped ==
  ASSUME NEW old, old \in Seq(Subscription), NEW new,
         new = [i \in DOMAIN old |-> new[i]],
         \A i \in DOMAIN old : new[i] \in Subscription
  PROVE  new \in Seq(Subscription) /\ Len(new) = Len(old)
<1>1. DOMAIN old = 1 .. Len(old) /\ Len(old) \in Nat
  OBVIOUS
<1>2. new \in [1 .. Len(old) -> Subscription]
  BY <1>1
<1>3. QED
  BY <1>1, <1>2

\* Deactivated rows stay, as rows that are not active; the others are as they were.
LEMMA Deactivated ==
  ASSUME NEW rows \in Seq(Subscription), NEW d
  PROVE  /\ Deactivate(rows, d) \in Seq(Subscription)
         /\ Len(Deactivate(rows, d)) = Len(rows)
         /\ DOMAIN Deactivate(rows, d) = DOMAIN rows
         /\ \A i \in DOMAIN rows :
              Deactivate(rows, d)[i] = IF i \in d THEN Ended ELSE rows[i]
         /\ ActiveIn(Deactivate(rows, d)) = ActiveIn(rows) \ d
<1> DEFINE new == Deactivate(rows, d)
<1>1. /\ DOMAIN new = DOMAIN rows
      /\ \A i \in DOMAIN rows : new[i] = IF i \in d THEN Ended ELSE rows[i]
  BY DEF Deactivate
<1>2. DOMAIN rows = 1 .. Len(rows) /\ \A i \in DOMAIN rows : rows[i] \in Subscription
  OBVIOUS
<1>3. \A i \in DOMAIN rows : new[i] \in Subscription
  BY <1>1, <1>2 DEF Subscription
<1>4. new \in [1 .. Len(rows) -> Subscription]
  BY <1>1, <1>2, <1>3 DEF Deactivate
<1>5. new \in Seq(Subscription) /\ Len(new) = Len(rows)
  BY <1>4
<1>6. ActiveIn(new) = ActiveIn(rows) \ d
  BY <1>1 DEF ActiveIn, Ended
<1>7. QED
  BY <1>1, <1>5, <1>6

\* The rows with a new one at the end.
LEMMA Appended ==
  ASSUME NEW rows \in Seq(Subscription), NEW new \in ActiveRow
  PROVE  /\ Append(rows, new) \in Seq(Subscription)
         /\ Len(Append(rows, new)) = Len(rows) + 1
         /\ DOMAIN rows \subseteq DOMAIN Append(rows, new)
         /\ Append(rows, new)[Len(rows) + 1] = new
         /\ \A i \in DOMAIN rows : Append(rows, new)[i] = rows[i]
         /\ ActiveIn(Append(rows, new)) = ActiveIn(rows) \cup {Len(rows) + 1}
<1>1. new \in Subscription /\ new.active = TRUE
  BY DEF ActiveRow, Subscription
<1>2. /\ Append(rows, new) \in Seq(Subscription)
      /\ Len(Append(rows, new)) = Len(rows) + 1
      /\ Append(rows, new)[Len(rows) + 1] = new
      /\ \A i \in 1 .. Len(rows) : Append(rows, new)[i] = rows[i]
  BY <1>1
<1>3. DOMAIN rows = 1 .. Len(rows) /\ DOMAIN Append(rows, new) = 1 .. Len(rows) + 1
  BY <1>2
<1>4. ActiveIn(Append(rows, new)) = ActiveIn(rows) \cup {Len(rows) + 1}
  BY <1>1, <1>2, <1>3 DEF ActiveIn
<1>5. QED
  BY <1>2, <1>3, <1>4

\* The larger and the smaller of two numbers.
LEMMA LargerAndSmaller ==
  ASSUME NEW m \in Nat, NEW n \in Nat
  PROVE  Max({m, n}) \in {m, n} /\ Min({m, n}) \in {m, n} /\ Min({m, n}) <= n
<1>1. \E x \in {m, n} : \A y \in {m, n} : x >= y
  OBVIOUS
<1>2. \E x \in {m, n} : \A y \in {m, n} : x <= y
  OBVIOUS
<1>3. QED
  BY <1>1, <1>2 DEF Max, Min

-----------------------------------------------------------------------------
(* What a step of one session has to keep.                                  *)

\* The state is well typed and the rows sessions know of are there, if that is so of
\* the session that moves and of the tables, and no row goes away.
LEMMA OneSessionTyped ==
  ASSUME TypeOK, RowsInv, NEW s \in Sessions,
         sess' \in [Sessions -> Transaction],
         \A t \in Sessions \ {s} : sess'[t] = sess[t],
         day' \in 0 .. LastDay, paid' \subseteq Orders,
         order' \in [Orders -> OrderRow \cup {Absent}],
         subs' \in Seq(Subscription), Len(subs') >= Len(subs),
         balance' \in Nat, renewals' \in Nat,
         credits' \in [Orders -> Nat], clawbacks' \in [Orders -> Nat], early' \subseteq Orders,
         special' \in 0 .. MaxSpecial, failures' \in 0 .. MaxFailures,
         AtPayment(s)' =>
           /\ Cardinality(sess'[s].same) <= 1
           /\ sess'[s].drop \cup sess'[s].same \subseteq DOMAIN subs',
         AtPayment(s)' \/ sess'[s].pc = "granting" => sess'[s].seen <= Len(subs'),
         sess'[s].pc = "renewing" => sess'[s].due \subseteq DOMAIN subs'
  PROVE  TypeOK' /\ RowsInv'
<1>1. /\ Len(subs) \in Nat /\ Len(subs') \in Nat
      /\ DOMAIN subs = 1 .. Len(subs) /\ DOMAIN subs' = 1 .. Len(subs')
  BY DEF TypeOK
<1>2. DOMAIN subs \subseteq DOMAIN subs'
  BY <1>1
<1>3. ASSUME NEW t \in Sessions, AtPayment(t)'
      PROVE  /\ Cardinality(sess'[t].same) <= 1
             /\ sess'[t].drop \cup sess'[t].same \subseteq DOMAIN subs'
             /\ sess'[t].seen <= Len(subs')
  <2>1. CASE t = s
    BY <1>3, <2>1
  <2>2. CASE t # s
    <3>1. sess'[t] = sess[t] /\ AtPayment(t)
      BY <1>3, <2>2 DEF AtPayment
    <3>2. Cardinality(sess[t].same) <= 1 /\ sess[t].drop \cup sess[t].same \subseteq DOMAIN subs
      BY <3>1 DEF TypeOK, AtPayment
    <3>3. sess[t].seen <= Len(subs) /\ sess[t].seen \in Nat
      BY <3>1, SessionByPc DEF RowsInv, Paying
    <3>4. QED
      BY <1>1, <1>2, <3>1, <3>2, <3>3
  <2>3. QED
    BY <2>1, <2>2
<1>4. ASSUME NEW t \in Sessions
      PROVE  /\ sess'[t].pc = "granting" => sess'[t].seen <= Len(subs')
             /\ sess'[t].pc = "renewing" => sess'[t].due \subseteq DOMAIN subs'
  <2>1. CASE t = s
    BY <2>1
  <2>2. CASE t # s
    <3>1. sess'[t] = sess[t]
      BY <2>2
    <3>2. sess[t].pc = "granting" => sess[t].seen <= Len(subs) /\ sess[t].seen \in Nat
      BY SessionByPc DEF RowsInv, Granting
    <3>3. sess[t].pc = "renewing" => sess[t].due \subseteq DOMAIN subs
      BY DEF RowsInv
    <3>4. QED
      BY <1>1, <1>2, <3>1, <3>2, <3>3
  <2>3. QED
    BY <2>1, <2>2
<1>5. TypeOK'
  <2>1. \A t \in Sessions : sess'[t].pc \in {"ordered", "read", "credited"} =>
          /\ Cardinality(sess'[t].same) <= 1
          /\ sess'[t].drop \cup sess'[t].same \subseteq DOMAIN subs'
    BY <1>3 DEF AtPayment
  <2>2. QED
    BY <2>1 DEF TypeOK, Transaction
<1>6. RowsInv'
  BY <1>3, <1>4 DEF RowsInv
<1>7. QED
  BY <1>5, <1>6

\* Orders stay locked by one session, in the status it found, if only the session
\* that moves changes an order, the one it has locked.
LEMMA OneSessionOrders ==
  ASSUME TypeOK, OrderInv, NEW s \in Sessions,
         \A t \in Sessions \ {s} : sess'[t] = sess[t],
         paid' = paid,
         \A o \in Orders : order[o] # Absent => order'[o] # Absent,
         \A o \in Orders :
           order'[o] = order[o] \/ (AtOrder(s) /\ sess[s].order = o),
         AtOrder(s)' =>
           /\ sess'[s].order \in Orders /\ order'[sess'[s].order] # Absent
           /\ \A t \in Sessions \ {s} : AtOrder(t) => sess[t].order # sess'[s].order,
         AtPayment(s)' => order'[sess'[s].order].status # "paid",
         sess'[s].pc = "refunding" => order'[sess'[s].order].status # "refunded"
  PROVE  OrderInv'
<1>1. ASSUME NEW t \in Sessions, t # s, AtOrder(t)'
      PROVE  /\ AtOrder(t) /\ sess'[t] = sess[t] /\ sess[t].order \in Orders
             /\ order'[sess[t].order] = order[sess[t].order]
             /\ order'[sess[t].order] # Absent
  <2>1. AtOrder(t) /\ sess'[t] = sess[t]
    BY <1>1 DEF AtOrder
  <2>2. sess[t].order \in Orders
    BY <2>1, SessionByPc DEF AtOrder, AtPayment, Paying, Refunding
  <2>3. ~(AtOrder(s) /\ sess[s].order = sess[t].order)
    BY <1>1, <2>1 DEF OrderInv
  <2>4. order[sess[t].order] # Absent
    BY <2>1 DEF OrderInv
  <2>5. QED
    BY <2>1, <2>2, <2>3, <2>4
<1>2. \A o \in paid' : order'[o] # Absent
  BY DEF OrderInv, TypeOK
<1>3. \A t \in Sessions : AtOrder(t)' => order'[sess'[t].order] # Absent
  BY <1>1
<1>4. \A t \in Sessions : AtPayment(t)' => order'[sess'[t].order].status # "paid"
  <2> SUFFICES ASSUME NEW t \in Sessions, t # s, AtPayment(t)'
               PROVE  order'[sess'[t].order].status # "paid"
    OBVIOUS
  <2>1. AtOrder(t)'
    BY DEF AtOrder, AtPayment
  <2>2. AtPayment(t) /\ sess'[t] = sess[t] /\ order'[sess[t].order] = order[sess[t].order]
    BY <1>1, <2>1 DEF AtPayment
  <2>3. QED
    BY <2>2 DEF OrderInv
<1>5. \A t \in Sessions : sess'[t].pc = "refunding" => order'[sess'[t].order].status # "refunded"
  <2> SUFFICES ASSUME NEW t \in Sessions, t # s, sess'[t].pc = "refunding"
               PROVE  order'[sess'[t].order].status # "refunded"
    OBVIOUS
  <2>1. AtOrder(t)'
    BY DEF AtOrder
  <2>2. sess'[t] = sess[t] /\ order'[sess[t].order] = order[sess[t].order]
    BY <1>1, <2>1
  <2>3. QED
    BY <2>2 DEF OrderInv
<1>6. \A t, u \in Sessions :
        AtOrder(t)' /\ AtOrder(u)' /\ sess'[t].order = sess'[u].order => t = u
  <2>1. \A t, u \in Sessions :
          t # s /\ u # s /\ AtOrder(t)' /\ AtOrder(u)' /\ sess'[t].order = sess'[u].order => t = u
    BY <1>1 DEF OrderInv
  <2>2. \A t \in Sessions : t # s /\ AtOrder(t)' /\ AtOrder(s)' => sess'[t].order # sess'[s].order
    BY <1>1
  <2>3. QED
    BY <2>1, <2>2
<1>7. QED
  BY <1>2, <1>3, <1>4, <1>5, <1>6 DEF OrderInv

\* The same when no session moves.
LEMMA NoSessionTyped ==
  ASSUME TypeOK, RowsInv, sess' = sess,
         day' \in 0 .. LastDay, paid' \subseteq Orders,
         order' \in [Orders -> OrderRow \cup {Absent}],
         subs' \in Seq(Subscription), Len(subs') >= Len(subs),
         balance' \in Nat, renewals' \in Nat,
         credits' \in [Orders -> Nat], clawbacks' \in [Orders -> Nat], early' \subseteq Orders,
         special' \in 0 .. MaxSpecial, failures' \in 0 .. MaxFailures
  PROVE  TypeOK' /\ RowsInv'
<1>1. CASE Sessions = {}
  BY <1>1 DEF TypeOK, RowsInv
<1>2. CASE Sessions # {}
  <2>1. PICK s \in Sessions : TRUE
    BY <1>2
  <2>2. sess' \in [Sessions -> Transaction]
    BY DEF TypeOK, Transaction
  <2>3. /\ Len(subs) \in Nat /\ Len(subs') \in Nat
        /\ DOMAIN subs = 1 .. Len(subs) /\ DOMAIN subs' = 1 .. Len(subs')
    BY DEF TypeOK
  <2>4. AtPayment(s)' =>
          /\ Cardinality(sess'[s].same) <= 1
          /\ sess'[s].drop \cup sess'[s].same \subseteq DOMAIN subs'
    <3>1. AtPayment(s) =>
            Cardinality(sess[s].same) <= 1 /\ sess[s].drop \cup sess[s].same \subseteq DOMAIN subs
      BY DEF TypeOK, AtPayment
    <3>2. QED
      BY <2>3, <3>1 DEF AtPayment
  <2>5. AtPayment(s)' \/ sess'[s].pc = "granting" => sess'[s].seen <= Len(subs')
    <3>1. AtPayment(s) \/ sess[s].pc = "granting" =>
            sess[s].seen <= Len(subs) /\ sess[s].seen \in Nat
      BY SessionByPc DEF RowsInv, Paying, Granting
    <3>2. QED
      BY <2>3, <3>1 DEF AtPayment
  <2>6. sess'[s].pc = "renewing" => sess'[s].due \subseteq DOMAIN subs'
    BY <2>3 DEF RowsInv
  <2>7. QED
    BY <2>2, <2>4, <2>5, <2>6, OneSessionTyped
<1>3. QED
  BY <1>1, <1>2

-----------------------------------------------------------------------------
(* Steps of the system that no session takes.                               *)

\* The length of rows, and what is typed of the order of a session.
LEMMA TypeFacts ==
  ASSUME TypeOK, OrderInv
  PROVE  /\ day \in Nat /\ Len(subs) \in Nat
         /\ DOMAIN subs = 1 .. Len(subs)
         /\ \A o \in Orders : order[o] # Absent =>
              order[o] \in OrderRow /\ order[o].plan \in Sold /\ order[o].days \in Days
         /\ \A o \in Orders : order[o].status = "absent" <=> order[o] = Absent
         /\ \A s \in Sessions : AtOrder(s) =>
              sess[s].order \in Orders /\ order[sess[s].order] # Absent
<1>1. \A s \in Sessions : AtOrder(s) => sess[s].order \in Orders
  BY SessionByPc DEF AtOrder, AtPayment, Paying, Refunding
<1>2. day \in Nat /\ Len(subs) \in Nat /\ DOMAIN subs = 1 .. Len(subs)
  BY BillingAssumption DEF TypeOK, BillingAssumption
<1>3. \A o \in Orders : order[o] # Absent =>
        order[o] \in OrderRow /\ order[o].plan \in Sold /\ order[o].days \in Days
  BY DEF TypeOK, OrderRow
<1>4. \A o \in Orders : order[o].status = "absent" <=> order[o] = Absent
  <2>1. \A row \in OrderRow : row.status # "absent"
    BY DEF OrderRow
  <2>2. Absent.status = "absent" /\ \A o \in Orders : order[o] \in OrderRow \cup {Absent}
    BY DEF TypeOK, Absent
  <2>3. QED
    BY <2>1, <2>2
<1>5. QED
  BY <1>1, <1>2, <1>3, <1>4 DEF OrderInv

\* An order is created.
LEMMA CreateOrderKeeps ==
  ASSUME TypeOK, OrderInv, RowsInv, NEW o \in Orders, CreateOrder(o)
  PROVE  TypeOK' /\ OrderInv' /\ RowsInv'
<1>1. PICK p \in Sold, n \in Days, open \in BOOLEAN :
        order' = [order EXCEPT ![o] =
          [status |-> IF open THEN "pending" ELSE "failed", plan |-> p, days |-> n, open |-> open]]
  BY DEF CreateOrder
<1> DEFINE row == [status |-> IF open THEN "pending" ELSE "failed", plan |-> p, days |-> n,
                   open |-> open]
<1>2. row \in OrderRow /\ row # Absent
  BY DEF OrderRow, Absent
<1>3. order' = [order EXCEPT ![o] = row]
  BY <1>1
<1> HIDE DEF row
<1>4. /\ order' \in [Orders -> OrderRow \cup {Absent}] /\ order'[o] # Absent
      /\ \A x \in Orders \ {o} : order'[x] = order[x]
  BY <1>2, <1>3 DEF TypeOK
<1>5. sess' = sess /\ paid' = paid /\ order[o] = Absent
  BY DEF CreateOrder, external
<1>6. TypeOK' /\ RowsInv'
  <2>1. /\ UNCHANGED <<day, subs, balance, credits, clawbacks, early, renewals, special, failures>>
        /\ Len(subs) \in Nat
    BY TypeFacts DEF CreateOrder, external, bounds
  <2>2. QED
    BY <1>4, <1>5, <2>1, NoSessionTyped DEF TypeOK
<1>7. \A s \in Sessions : AtOrder(s) => sess[s].order \in Orders \ {o}
  BY <1>5, TypeFacts
<1>8. OrderInv'
  <2>1. \A s \in Sessions : AtOrder(s)' =>
          AtOrder(s) /\ order'[sess'[s].order] = order[sess[s].order]
    BY <1>4, <1>5, <1>7 DEF AtOrder
  <2>2. \A x \in paid' : order'[x] # Absent
    BY <1>4, <1>5 DEF OrderInv, TypeOK
  <2>3. QED
    BY <1>5, <2>1, <2>2 DEF OrderInv, AtOrder, AtPayment
<1>9. QED
  BY <1>6, <1>8

\* A refused card marks the order failed.
LEMMA FailedWebhookKeeps ==
  ASSUME TypeOK, OrderInv, RowsInv, NEW o \in Orders, FailedWebhook(o)
  PROVE  TypeOK' /\ OrderInv' /\ RowsInv'
<1>1. order[o].status = "pending" /\ order' = [order EXCEPT ![o].status = "failed"]
  BY DEF FailedWebhook
<1>2. order[o] \in OrderRow
  BY <1>1 DEF TypeOK, Absent
<1> DEFINE row == [order[o] EXCEPT !.status = "failed"]
<1>3. row \in OrderRow /\ row # Absent
  BY <1>2 DEF OrderRow, Absent
<1>4. order' = [order EXCEPT ![o] = row]
  BY <1>1
<1> HIDE DEF row
<1>5. /\ order' \in [Orders -> OrderRow \cup {Absent}] /\ order'[o] # Absent
      /\ \A x \in Orders \ {o} : order'[x] = order[x]
  BY <1>3, <1>4 DEF TypeOK
<1>6. sess' = sess /\ paid' = paid
  BY DEF FailedWebhook, external
<1>7. TypeOK' /\ RowsInv'
  <2>1. /\ UNCHANGED <<day, subs, balance, credits, clawbacks, early, renewals, special, failures>>
        /\ Len(subs) \in Nat
    BY TypeFacts DEF FailedWebhook, external, bounds
  <2>2. QED
    BY <1>5, <1>6, <2>1, NoSessionTyped DEF TypeOK
<1>8. \A s \in Sessions : AtOrder(s) => sess[s].order \in Orders \ {o}
  BY TypeFacts DEF FailedWebhook, OrderFree, HasOrder, AtOrder
<1>9. OrderInv'
  <2>1. \A s \in Sessions : AtOrder(s)' =>
          AtOrder(s) /\ order'[sess'[s].order] = order[sess[s].order]
    BY <1>5, <1>6, <1>8 DEF AtOrder
  <2>2. \A x \in paid' : order'[x] # Absent
    BY <1>5, <1>6 DEF OrderInv, TypeOK
  <2>3. QED
    BY <1>6, <2>1, <2>2 DEF OrderInv, AtOrder, AtPayment
<1>10. QED
  BY <1>7, <1>9

\* A payment at the provider, a certificate elsewhere, and the next day.
LEMMA ElsewhereKeeps ==
  ASSUME TypeOK, OrderInv, RowsInv,
         (\E o \in Orders : CustomerPays(o)) \/ IssueElsewhere \/ NextDay
  PROVE  TypeOK' /\ OrderInv' /\ RowsInv'
<1>1. UNCHANGED <<order, subs, credits, clawbacks, early, renewals, sess, special, failures>>
  BY DEF CustomerPays, IssueElsewhere, NextDay, external, bounds
<1>2. /\ paid' \subseteq Orders /\ \A o \in paid' : order[o] # Absent
      /\ day' \in 0 .. LastDay /\ balance' \in Nat
  BY BillingAssumption
  DEF CustomerPays, IssueElsewhere, NextDay, external, TypeOK, OrderInv, BillingAssumption
<1>3. TypeOK' /\ RowsInv'
  <2>1. Len(subs) \in Nat
    BY DEF TypeOK
  <2>2. QED
    BY <1>1, <1>2, <2>1, NoSessionTyped DEF TypeOK
<1>4. OrderInv'
  BY <1>1, <1>2 DEF OrderInv, AtOrder, AtPayment
<1>5. QED
  BY <1>3, <1>4

\* A revocation.
LEMMA RevokeKeeps ==
  ASSUME TypeOK, OrderInv, RowsInv, RevokeSubscription
  PROVE  TypeOK' /\ OrderInv' /\ RowsInv'
<1>1. /\ UNCHANGED <<day, paid, order, balance, credits, clawbacks, early, renewals, sess, failures>>
      /\ special' \in 0 .. MaxSpecial
  BY BillingAssumption DEF RevokeSubscription, external, TypeOK, BillingAssumption
<1>2. PICK i \in ActiveIn(subs) : subs' = Deactivate(subs, {i})
  BY DEF RevokeSubscription
<1>3. subs' \in Seq(Subscription) /\ Len(subs') >= Len(subs)
  BY <1>2, Deactivated DEF TypeOK
<1>4. TypeOK' /\ RowsInv'
  BY <1>1, <1>3, NoSessionTyped DEF TypeOK
<1>5. OrderInv'
  BY <1>1 DEF OrderInv, AtOrder, AtPayment
<1>6. QED
  BY <1>4, <1>5

-----------------------------------------------------------------------------
(* Steps of a session.                                                      *)

\* "paid" of an order locks it, if nobody has.
LEMMA PaidWebhookKeeps ==
  ASSUME TypeOK, OrderInv, RowsInv,
         NEW s \in Sessions, NEW o \in Orders, PaidWebhook(s, o)
  PROVE  TypeOK' /\ OrderInv' /\ RowsInv'
<1> DEFINE d == ActiveIn(subs) \ ActiveOf(order[o].plan)
           x == PaidTransaction(o, d)
<1>1. /\ UNCHANGED <<day, paid, order, subs, balance, credits, clawbacks, early, renewals, special,
                     failures>>
      /\ o \in paid /\ order[o].status # "paid" /\ OrderFree(o) /\ Begin(s, x)
  BY DEF PaidWebhook, external, bounds
<1>2. /\ d \subseteq DOMAIN subs /\ d \in SUBSET Nat /\ Len(subs) \in Nat
      /\ Cardinality({}) = 0
  <2>1. d \subseteq DOMAIN subs
    BY DEF ActiveIn
  <2>2. DOMAIN subs = 1 .. Len(subs) /\ Len(subs) \in Nat
    BY TypeFacts
  <2>3. QED
    BY <2>1, <2>2, FS_EmptySet
<1> HIDE DEF d
<1>3. /\ x \in Paying /\ x.pc = "ordered" /\ x.order = o /\ x.drop = d
      /\ x.seen = Len(subs) /\ x.same = {}
  BY <1>2 DEF PaidTransaction, Paying
<1> HIDE DEF x
<1>4. x \in Transaction
  BY <1>3 DEF Transaction
<1>5. /\ sess' \in [Sessions -> Transaction] /\ sess'[s] = x /\ sess[s].pc = "idle"
      /\ \A t \in Sessions \ {s} : sess'[t] = sess[t]
  BY <1>1, <1>4, SessionBegins
<1>6. /\ AtPayment(s)' => Cardinality(sess'[s].same) <= 1
                          /\ sess'[s].drop \cup sess'[s].same \subseteq DOMAIN subs'
      /\ AtPayment(s)' \/ sess'[s].pc = "granting" => sess'[s].seen <= Len(subs')
      /\ sess'[s].pc # "renewing" /\ sess'[s].pc # "refunding"
  <2>1. /\ sess'[s].pc = "ordered" /\ sess'[s].same = {} /\ sess'[s].drop = d
        /\ sess'[s].seen = Len(subs)
    BY <1>3, <1>5
  <2>2. Cardinality(sess'[s].same) <= 1
    BY <1>2, <2>1
  <2>3. sess'[s].seen <= Len(subs') /\ sess'[s].drop \cup sess'[s].same \subseteq DOMAIN subs'
    BY <1>1, <1>2, <2>1
  <2>4. QED
    BY <2>1, <2>2, <2>3
<1>7. TypeOK' /\ RowsInv'
  <2>1. /\ day' \in 0 .. LastDay /\ paid' \subseteq Orders
        /\ order' \in [Orders -> OrderRow \cup {Absent}]
        /\ subs' \in Seq(Subscription) /\ Len(subs') >= Len(subs)
        /\ balance' \in Nat /\ renewals' \in Nat
        /\ credits' \in [Orders -> Nat] /\ clawbacks' \in [Orders -> Nat] /\ early' \subseteq Orders
        /\ special' \in 0 .. MaxSpecial /\ failures' \in 0 .. MaxFailures
    BY <1>1, <1>2 DEF TypeOK
  <2>2. QED
    BY <1>5, <1>6, <2>1, OneSessionTyped
<1>8. order[o] # Absent
  BY <1>1 DEF OrderInv
<1>9. \A t \in Sessions \ {s} : AtOrder(t) => sess[t].order # o
  BY <1>1 DEF OrderFree, HasOrder, AtOrder
<1>10. OrderInv'
  <2>1. AtOrder(s)' =>
           /\ sess'[s].order \in Orders /\ order'[sess'[s].order] # Absent
           /\ \A t \in Sessions \ {s} : AtOrder(t) => sess[t].order # sess'[s].order
    BY <1>1, <1>3, <1>5, <1>8, <1>9
  <2>2. AtPayment(s)' => order'[sess'[s].order].status # "paid"
    BY <1>1, <1>3, <1>5
  <2>3. QED
    BY <1>1, <1>5, <1>6, <2>1, <2>2, OneSessionOrders
<1>11. QED
  BY <1>7, <1>10

\* "refunded" of an order locks it, if nobody has.
LEMMA RefundWebhookKeeps ==
  ASSUME TypeOK, OrderInv, RowsInv,
         NEW s \in Sessions, NEW o \in Orders, RefundWebhook(s, o)
  PROVE  TypeOK' /\ OrderInv' /\ RowsInv'
<1> DEFINE x == [pc |-> "refunding", order |-> o, drop |-> ActiveOf(order[o].plan)]
<1>1. /\ UNCHANGED <<day, paid, order, subs, balance, credits, clawbacks, early, renewals, failures>>
      /\ special' \in 0 .. MaxSpecial
      /\ order[o] # Absent /\ order[o].status # "refunded" /\ OrderFree(o) /\ Begin(s, x)
  BY BillingAssumption DEF RefundWebhook, external, TypeOK, BillingAssumption
<1>2. ActiveOf(order[o].plan) \in SUBSET Nat
  <2>1. DOMAIN subs = 1 .. Len(subs) /\ Len(subs) \in Nat
    BY TypeFacts
  <2>2. QED
    BY <2>1 DEF ActiveOf, ActiveIn
<1>3. x \in Refunding /\ x.pc = "refunding" /\ x.order = o
  BY <1>2 DEF Refunding
<1> HIDE DEF x
<1>4. x \in Transaction
  BY <1>3 DEF Transaction
<1>5. /\ sess' \in [Sessions -> Transaction] /\ sess'[s] = x /\ sess[s].pc = "idle"
      /\ \A t \in Sessions \ {s} : sess'[t] = sess[t]
  BY <1>1, <1>4, SessionBegins
<1>6. sess'[s].pc = "refunding" /\ sess'[s].order = o /\ ~AtPayment(s)'
  BY <1>3, <1>5 DEF AtPayment
<1>7. TypeOK' /\ RowsInv'
  <2>1. /\ day' \in 0 .. LastDay /\ paid' \subseteq Orders
        /\ order' \in [Orders -> OrderRow \cup {Absent}]
        /\ subs' \in Seq(Subscription) /\ Len(subs') >= Len(subs)
        /\ balance' \in Nat /\ renewals' \in Nat
        /\ credits' \in [Orders -> Nat] /\ clawbacks' \in [Orders -> Nat] /\ early' \subseteq Orders
        /\ failures' \in 0 .. MaxFailures
    BY <1>1, TypeFacts DEF TypeOK
  <2>2. QED
    BY <1>1, <1>5, <1>6, <2>1, OneSessionTyped
<1>8. \A t \in Sessions \ {s} : AtOrder(t) => sess[t].order # o
  BY <1>1 DEF OrderFree, HasOrder, AtOrder
<1>9. OrderInv'
  <2>1. AtOrder(s)' =>
           /\ sess'[s].order \in Orders /\ order'[sess'[s].order] # Absent
           /\ \A t \in Sessions \ {s} : AtOrder(t) => sess[t].order # sess'[s].order
    BY <1>1, <1>6, <1>8
  <2>2. sess'[s].pc = "refunding" => order'[sess'[s].order].status # "refunded"
    BY <1>1, <1>6
  <2>3. QED
    BY <1>1, <1>5, <1>6, <2>1, <2>2, OneSessionOrders
<1>10. QED
  BY <1>7, <1>9

\* A transaction is rolled back.
LEMMA EndKeeps ==
  ASSUME TypeOK, OrderInv, RowsInv, NEW s \in Sessions, End(s),
         UNCHANGED <<day, paid, order, subs, balance, credits, clawbacks, early, renewals, special>>,
         failures' \in 0 .. MaxFailures
  PROVE  TypeOK' /\ OrderInv' /\ RowsInv'
<1>1. /\ sess' \in [Sessions -> Transaction] /\ sess'[s].pc = "idle"
      /\ \A t \in Sessions \ {s} : sess'[t] = sess[t]
  BY SessionEnds
<1>2. ~AtPayment(s)' /\ ~AtOrder(s)'
  BY <1>1 DEF AtPayment, AtOrder
<1>3. TypeOK' /\ RowsInv'
  <2>1. /\ day' \in 0 .. LastDay /\ paid' \subseteq Orders
        /\ order' \in [Orders -> OrderRow \cup {Absent}]
        /\ subs' \in Seq(Subscription) /\ Len(subs') >= Len(subs)
        /\ balance' \in Nat /\ renewals' \in Nat
        /\ credits' \in [Orders -> Nat] /\ clawbacks' \in [Orders -> Nat] /\ early' \subseteq Orders
        /\ special' \in 0 .. MaxSpecial
    BY TypeFacts DEF TypeOK
  <2>2. QED
    BY <1>1, <1>2, <2>1, OneSessionTyped
<1>4. OrderInv'
  BY <1>1, <1>2, OneSessionOrders
<1>5. QED
  BY <1>3, <1>4

\* What is deactivated is changed, and the subscription of the plan is read.
LEMMA PayReadKeeps ==
  ASSUME TypeOK, OrderInv, RowsInv, NEW s \in Sessions, PayRead(s)
  PROVE  TypeOK' /\ OrderInv' /\ RowsInv'
<1> DEFINE same == ActiveOf(Plan(s))
           until == IF same = {} THEN 0 ELSE subs[CHOOSE i \in same : TRUE].expires
           x == [sess[s] EXCEPT !.pc = "read", !.drop = @ \cap ActiveIn(subs), !.same = same,
                                !.expires = until]
<1>1. /\ UNCHANGED <<day, paid, order, subs, balance, credits, clawbacks, early, renewals, special,
                     failures>>
      /\ sess[s].pc = "ordered" /\ Cardinality(same) <= 1
      /\ sess' = [sess EXCEPT ![s] = x]
  BY DEF PayRead, external, bounds, TypeOK
<1>2. sess[s] \in Paying /\ AtPayment(s) /\ AtOrder(s)
  BY <1>1, SessionByPc DEF AtPayment, AtOrder
<1>3. same \subseteq ActiveIn(subs) /\ same \subseteq DOMAIN subs /\ same \in SUBSET Nat
  <2>1. DOMAIN subs = 1 .. Len(subs) /\ Len(subs) \in Nat
    BY TypeFacts
  <2>2. QED
    BY <2>1 DEF ActiveOf, ActiveIn
<1>4. until \in Nat
  <2>1. CASE same # {}
    <3>1. PICK i : i = (CHOOSE j \in same : TRUE) /\ i \in same
      BY <2>1
    <3>2. subs[i] \in ActiveRow
      BY <1>3, <3>1, RowIsActive
    <3>3. QED
      BY <2>1, <3>1, <3>2 DEF ActiveRow
  <2>2. QED
    BY <2>1
<1> HIDE DEF same, until
<1>5. /\ x \in Paying /\ x.pc = "read" /\ x.order = sess[s].order /\ x.seen = sess[s].seen
      /\ x.drop = sess[s].drop \cap ActiveIn(subs) /\ x.same = same
  BY <1>2, <1>3, <1>4 DEF Paying
<1> HIDE DEF x
<1>6. x \in Transaction
  BY <1>5 DEF Transaction
<1>7. /\ sess' \in [Sessions -> Transaction] /\ sess'[s] = x
      /\ \A t \in Sessions \ {s} : sess'[t] = sess[t]
  BY <1>1, <1>6, SessionMoves
<1>8. /\ sess'[s].pc = "read" /\ sess'[s].order = sess[s].order
      /\ Cardinality(sess'[s].same) <= 1 /\ sess'[s].seen <= Len(subs')
      /\ sess'[s].drop \cup sess'[s].same \subseteq DOMAIN subs'
  <2>1. sess[s].seen <= Len(subs)
    BY <1>2 DEF RowsInv
  <2>2. /\ sess'[s].pc = "read" /\ sess'[s].order = sess[s].order /\ sess'[s].same = same
        /\ sess'[s].seen = sess[s].seen /\ sess'[s].drop \subseteq ActiveIn(subs)
    BY <1>5, <1>7
  <2>3. Cardinality(sess'[s].same) <= 1
    BY <1>1, <2>2
  <2>4. ActiveIn(subs) \subseteq DOMAIN subs
    BY DEF ActiveIn
  <2>5. QED
    BY <1>1, <1>3, <2>1, <2>2, <2>3, <2>4
<1>9. TypeOK' /\ RowsInv'
  <2>1. /\ day' \in 0 .. LastDay /\ paid' \subseteq Orders
        /\ order' \in [Orders -> OrderRow \cup {Absent}]
        /\ subs' \in Seq(Subscription) /\ Len(subs') >= Len(subs)
        /\ balance' \in Nat /\ renewals' \in Nat
        /\ credits' \in [Orders -> Nat] /\ clawbacks' \in [Orders -> Nat] /\ early' \subseteq Orders
        /\ special' \in 0 .. MaxSpecial /\ failures' \in 0 .. MaxFailures
    BY <1>1, TypeFacts DEF TypeOK
  <2>2. QED
    BY <1>7, <1>8, <2>1, OneSessionTyped
<1>10. OrderInv'
  <2>1. AtOrder(s)' =>
           /\ sess'[s].order \in Orders /\ order'[sess'[s].order] # Absent
           /\ \A t \in Sessions \ {s} : AtOrder(t) => sess[t].order # sess'[s].order
    BY <1>1, <1>2, <1>8, TypeFacts DEF OrderInv
  <2>2. AtPayment(s)' => order'[sess'[s].order].status # "paid"
    BY <1>1, <1>2, <1>8 DEF OrderInv
  <2>3. QED
    BY <1>1, <1>7, <1>8, <2>1, <2>2, OneSessionOrders
<1>11. QED
  BY <1>9, <1>10

\* The balance is read.
LEMMA PayCreditKeeps ==
  ASSUME TypeOK, OrderInv, RowsInv, NEW s \in Sessions, PayCredit(s)
  PROVE  TypeOK' /\ OrderInv' /\ RowsInv'
<1> DEFINE x == [sess[s] EXCEPT !.pc = "credited", !.bal = balance]
<1>1. /\ UNCHANGED <<day, paid, order, subs, balance, credits, clawbacks, early, renewals, special,
                     failures>>
      /\ sess[s].pc = "read" /\ sess' = [sess EXCEPT ![s] = x]
  BY DEF PayCredit, external, bounds, TypeOK
<1>2. sess[s] \in Paying /\ AtPayment(s) /\ AtOrder(s)
  BY <1>1, SessionByPc DEF AtPayment, AtOrder
<1>3. /\ x \in Paying /\ x.pc = "credited" /\ x.order = sess[s].order /\ x.seen = sess[s].seen
      /\ x.drop = sess[s].drop /\ x.same = sess[s].same
  BY <1>2 DEF Paying, TypeOK
<1> HIDE DEF x
<1>4. x \in Transaction
  BY <1>3 DEF Transaction
<1>5. /\ sess' \in [Sessions -> Transaction] /\ sess'[s] = x
      /\ \A t \in Sessions \ {s} : sess'[t] = sess[t]
  BY <1>1, <1>4, SessionMoves
<1>6. /\ sess'[s].pc = "credited" /\ sess'[s].order = sess[s].order
      /\ sess'[s].same = sess[s].same /\ sess'[s].drop = sess[s].drop
      /\ sess'[s].seen = sess[s].seen
  BY <1>3, <1>5
<1>7. /\ Cardinality(sess[s].same) <= 1 /\ sess[s].drop \cup sess[s].same \subseteq DOMAIN subs
      /\ sess[s].seen <= Len(subs)
  BY <1>2 DEF RowsInv, TypeOK, AtPayment
<1>8. TypeOK' /\ RowsInv'
  <2>1. /\ day' \in 0 .. LastDay /\ paid' \subseteq Orders
        /\ order' \in [Orders -> OrderRow \cup {Absent}]
        /\ subs' \in Seq(Subscription) /\ Len(subs') >= Len(subs)
        /\ balance' \in Nat /\ renewals' \in Nat
        /\ credits' \in [Orders -> Nat] /\ clawbacks' \in [Orders -> Nat] /\ early' \subseteq Orders
        /\ special' \in 0 .. MaxSpecial /\ failures' \in 0 .. MaxFailures
    BY <1>1, TypeFacts DEF TypeOK
  <2>2. Cardinality(sess'[s].same) <= 1
    BY <1>6, <1>7
  <2>3. sess'[s].drop \cup sess'[s].same \subseteq DOMAIN subs' /\ sess'[s].seen <= Len(subs')
    BY <1>1, <1>6, <1>7
  <2>4. QED
    BY <1>5, <1>6, <2>1, <2>2, <2>3, OneSessionTyped
<1>9. OrderInv'
  <2>1. AtOrder(s)' =>
           /\ sess'[s].order \in Orders /\ order'[sess'[s].order] # Absent
           /\ \A t \in Sessions \ {s} : AtOrder(t) => sess[t].order # sess'[s].order
    BY <1>1, <1>2, <1>6, TypeFacts DEF OrderInv
  <2>2. AtPayment(s)' => order'[sess'[s].order].status # "paid"
    BY <1>1, <1>2, <1>6 DEF OrderInv
  <2>3. QED
    BY <1>1, <1>5, <1>6, <2>1, <2>2, OneSessionOrders
<1>10. QED
  BY <1>8, <1>9

\* Rows of subscriptions are never removed, made active again or moved to another plan.
RowsStay(old, new) ==
  /\ new \in Seq(Subscription) /\ Len(new) >= Len(old)
  /\ \A i \in ActiveIn(new) \cap DOMAIN old : i \in ActiveIn(old) /\ new[i].plan = old[i].plan

\* What the commit of a payment does to the rows.
LEMMA PayCommitRows ==
  ASSUME TypeOK, OrderInv, NEW s \in Sessions, PayCommit(s)
  PROVE  /\ RowsStay(subs, subs')
         /\ sess[s].same = {} =>
              ActiveIn(subs') = (ActiveIn(subs) \ sess[s].drop) \cup {Len(subs) + 1}
         /\ sess[s].same # {} => ActiveIn(subs') = ActiveIn(subs) \ sess[s].drop
<1> DEFINE o == sess[s].order
           kept == Deactivate(subs, sess[s].drop)
           new == [plan |-> Plan(s), active |-> TRUE, expires |-> day + order[o].days,
                   credited |-> day]
<1>1. sess[s] \in Paying /\ AtOrder(s) /\ o \in Orders
  BY SessionByPc, TypeFacts DEF PayCommit, AtPayment, AtOrder
<1>2. order[o].plan \in Plans /\ order[o].days \in Nat /\ day \in Nat /\ sess[s].expires \in Nat
  BY <1>1, TypeFacts, BillingAssumption DEF BillingAssumption, Paying
<1>3. new \in ActiveRow
  BY <1>2 DEF ActiveRow, Plan
<1>4. /\ subs \in Seq(Subscription) /\ Len(subs) \in Nat /\ DOMAIN subs = 1 .. Len(subs)
      /\ kept \in Seq(Subscription) /\ Len(kept) = Len(subs) /\ DOMAIN kept = DOMAIN subs
      /\ \A i \in DOMAIN subs : kept[i] = IF i \in sess[s].drop THEN Ended ELSE subs[i]
      /\ ActiveIn(kept) = ActiveIn(subs) \ sess[s].drop
  BY Deactivated, TypeFacts DEF TypeOK
<1>5. \A i \in ActiveIn(kept) : i \in DOMAIN subs /\ i \in ActiveIn(subs) /\ kept[i] = subs[i]
  BY <1>4 DEF ActiveIn
<1>6. CASE sess[s].same = {}
  <2>1. subs' = Append(kept, new)
    BY <1>6 DEF PayCommit
  <2> HIDE DEF kept, new
  <2>2. /\ subs' \in Seq(Subscription) /\ Len(subs') = Len(subs) + 1
        /\ \A i \in DOMAIN subs : subs'[i] = kept[i]
        /\ ActiveIn(subs') = ActiveIn(kept) \cup {Len(subs) + 1}
    BY <1>3, <1>4, <2>1, Appended
  <2>3. Len(subs) + 1 \notin DOMAIN subs
    BY <1>4
  <2>4. RowsStay(subs, subs')
    BY <1>4, <1>5, <2>2, <2>3 DEF RowsStay
  <2>5. QED
    BY <1>4, <1>6, <2>2, <2>4
<1>7. CASE sess[s].same # {}
  <2> DEFINE until == Max({sess[s].expires, day}) + order[o].days
             Later(i) == [kept[i] EXCEPT !.credited = day, !.expires = until]
  <2>1. until \in Nat
    <3>1. Max({sess[s].expires, day}) \in {sess[s].expires, day}
      BY <1>2, LargerAndSmaller
    <3>2. QED
      BY <1>2, <3>1
  <2>2. subs' = [i \in DOMAIN kept |->
                   IF i \in sess[s].same /\ kept[i].active THEN Later(i) ELSE kept[i]]
    BY <1>7 DEF PayCommit
  <2> HIDE DEF until
  <2>3. \A i \in ActiveIn(kept) : kept[i] \in ActiveRow
    BY <1>5, RowIsActive
  <2>4. \A i \in ActiveIn(kept) : Later(i) \in ActiveRow /\ Later(i).plan = kept[i].plan
    BY <1>2, <2>1, <2>3 DEF ActiveRow
  <2> HIDE DEF Later, kept
  <2>5. /\ DOMAIN subs' = DOMAIN kept
        /\ \A i \in DOMAIN kept :
             subs'[i] = kept[i] \/ (i \in ActiveIn(kept) /\ subs'[i] = Later(i))
    BY <2>2 DEF ActiveIn
  <2>6. \A i \in DOMAIN kept : subs'[i] \in Subscription
    <3>1. \A i \in DOMAIN kept : kept[i] \in Subscription
      BY <1>4
    <3>2. ActiveRow \subseteq Subscription
      BY DEF ActiveRow, Subscription
    <3>3. QED
      BY <2>4, <2>5, <3>1, <3>2
  <2>7. subs' \in Seq(Subscription) /\ Len(subs') = Len(kept)
    <3>1. subs' = [i \in DOMAIN kept |-> subs'[i]]
      BY <2>2
    <3>2. QED
      BY <1>4, <2>6, <3>1, RowsTyped
  <2>8. ActiveIn(subs') = ActiveIn(kept)
    BY <2>3, <2>4, <2>5 DEF ActiveIn, ActiveRow
  <2>9. \A i \in ActiveIn(kept) : subs'[i].plan = kept[i].plan
    BY <2>4, <2>5 DEF ActiveIn
  <2>10. RowsStay(subs, subs')
    BY <1>4, <1>5, <2>7, <2>8, <2>9 DEF RowsStay
  <2>11. QED
    BY <1>4, <1>7, <2>8, <2>10
<1>8. QED
  BY <1>6, <1>7

\* The commit of a payment.
LEMMA PayCommitKeeps ==
  ASSUME TypeOK, OrderInv, RowsInv, NEW s \in Sessions, PayCommit(s)
  PROVE  TypeOK' /\ OrderInv' /\ RowsInv'
<1> DEFINE o == sess[s].order
           row == [order[o] EXCEPT !.status = "paid"]
<1>1. /\ UNCHANGED <<day, paid, clawbacks, early, renewals, special, failures>>
      /\ sess[s].pc = "credited" /\ End(s)
      /\ order' = [order EXCEPT ![o] = row]
      /\ balance' = IF Quota[Plan(s)] = 0 THEN balance ELSE sess[s].bal + Quota[Plan(s)]
      /\ credits' = [credits EXCEPT ![o] = @ + 1]
  BY DEF PayCommit, external, bounds
<1>2. sess[s] \in Paying /\ AtPayment(s) /\ AtOrder(s) /\ o \in Orders /\ order[o] \in OrderRow
  BY <1>1, SessionByPc, TypeFacts DEF AtPayment, AtOrder
<1>3. row \in OrderRow /\ row # Absent
  BY <1>2 DEF OrderRow, Absent
<1> HIDE DEF row
<1>4. /\ order' \in [Orders -> OrderRow \cup {Absent}] /\ order'[o] # Absent
      /\ \A x \in Orders \ {o} : order'[x] = order[x]
  BY <1>1, <1>2, <1>3 DEF TypeOK
<1>5. balance' \in Nat
  <2>1. Plan(s) \in Plans
    BY <1>2, BillingAssumption DEF OrderRow, Plan, BillingAssumption
  <2>2. Quota[Plan(s)] \in Nat /\ sess[s].bal \in Nat /\ balance \in Nat
    BY <1>2, <2>1, BillingAssumption DEF BillingAssumption, Paying, TypeOK
  <2>3. QED
    BY <1>1, <2>2
<1>6. credits' \in [Orders -> Nat]
  BY <1>1, <1>2 DEF TypeOK
<1>7. /\ sess' \in [Sessions -> Transaction] /\ sess'[s].pc = "idle"
      /\ \A t \in Sessions \ {s} : sess'[t] = sess[t]
  BY <1>1, SessionEnds
<1>8. ~AtPayment(s)' /\ ~AtOrder(s)'
  BY <1>7 DEF AtPayment, AtOrder
<1>9. subs' \in Seq(Subscription) /\ Len(subs') >= Len(subs)
  BY PayCommitRows DEF RowsStay
<1>10. TypeOK' /\ RowsInv'
  <2>1. /\ day' \in 0 .. LastDay /\ paid' \subseteq Orders /\ renewals' \in Nat
        /\ clawbacks' \in [Orders -> Nat] /\ early' \subseteq Orders
        /\ special' \in 0 .. MaxSpecial /\ failures' \in 0 .. MaxFailures
    BY <1>1 DEF TypeOK
  <2>2. QED
    BY <1>4, <1>5, <1>6, <1>7, <1>8, <1>9, <2>1, OneSessionTyped
<1>11. OrderInv'
  <2>1. \A x \in Orders : order[x] # Absent => order'[x] # Absent
    BY <1>4
  <2>2. \A x \in Orders : order'[x] = order[x] \/ (AtOrder(s) /\ sess[s].order = x)
    BY <1>2, <1>4
  <2>3. QED
    BY <1>1, <1>7, <1>8, <2>1, <2>2, OneSessionOrders
<1>12. QED
  BY <1>10, <1>11

\* What the commit of a refund, a grant or a renewal does to the rows.
LEMMA RefundCommitRows ==
  ASSUME TypeOK, NEW s \in Sessions, RefundCommit(s)
  PROVE  RowsStay(subs, subs') /\ ActiveIn(subs') \subseteq ActiveIn(subs)
<1>1. subs' = Deactivate(subs, sess[s].drop) /\ subs \in Seq(Subscription)
  BY DEF RefundCommit, TypeOK
<1>2. /\ subs' \in Seq(Subscription) /\ Len(subs') = Len(subs)
      /\ \A i \in DOMAIN subs : subs'[i] = IF i \in sess[s].drop THEN Ended ELSE subs[i]
      /\ ActiveIn(subs') = ActiveIn(subs) \ sess[s].drop
  BY <1>1, Deactivated
<1>3. Len(subs) \in Nat
  BY <1>1
<1>4. QED
  BY <1>2, <1>3 DEF RowsStay

LEMMA GrantCommitRows ==
  ASSUME TypeOK, NEW s \in Sessions, GrantCommit(s)
  PROVE  /\ RowsStay(subs, subs')
         /\ ActiveIn(subs') = (ActiveIn(subs) \ sess[s].drop) \cup {Len(subs) + 1}
<1> DEFINE kept == Deactivate(subs, sess[s].drop)
           new == [plan |-> sess[s].plan, active |-> TRUE, expires |-> day + GrantDays,
                   credited |-> day]
<1>1. sess[s] \in Granting /\ day \in Nat /\ GrantDays \in Nat
  BY SessionByPc, BillingAssumption DEF GrantCommit, BillingAssumption, TypeOK
<1>2. new \in ActiveRow
  BY <1>1 DEF Granting, ActiveRow
<1>3. subs' = Append(kept, new)
  BY DEF GrantCommit
<1>4. /\ subs \in Seq(Subscription) /\ Len(subs) \in Nat /\ DOMAIN subs = 1 .. Len(subs)
      /\ kept \in Seq(Subscription) /\ Len(kept) = Len(subs) /\ DOMAIN kept = DOMAIN subs
      /\ \A i \in DOMAIN subs : kept[i] = IF i \in sess[s].drop THEN Ended ELSE subs[i]
      /\ ActiveIn(kept) = ActiveIn(subs) \ sess[s].drop
  BY Deactivated DEF TypeOK
<1>5. \A i \in ActiveIn(kept) : i \in DOMAIN subs /\ i \in ActiveIn(subs) /\ kept[i] = subs[i]
  BY <1>4 DEF ActiveIn
<1> HIDE DEF kept, new
<1>6. /\ subs' \in Seq(Subscription) /\ Len(subs') = Len(subs) + 1
      /\ \A i \in DOMAIN subs : subs'[i] = kept[i]
      /\ ActiveIn(subs') = ActiveIn(kept) \cup {Len(subs) + 1}
  BY <1>2, <1>3, <1>4, Appended
<1>7. Len(subs) + 1 \notin DOMAIN subs
  BY <1>4
<1>8. RowsStay(subs, subs')
  BY <1>4, <1>5, <1>6, <1>7 DEF RowsStay
<1>9. QED
  BY <1>4, <1>6, <1>8

LEMMA RenewalCommitRows ==
  ASSUME TypeOK, NEW s \in Sessions, RenewalCommit(s)
  PROVE  RowsStay(subs, subs') /\ ActiveIn(subs') = ActiveIn(subs)
<1> DEFINE Credited(i) == [subs[i] EXCEPT !.credited = sess[s].day]
<1>1. sess[s] \in Renewing
  BY SessionByPc DEF RenewalCommit
<1>2. subs' = [i \in DOMAIN subs |->
                 IF i \in sess[s].due /\ subs[i].active THEN Credited(i) ELSE subs[i]]
  BY DEF RenewalCommit
<1>3. subs \in Seq(Subscription) /\ Len(subs) \in Nat /\ DOMAIN subs = 1 .. Len(subs)
  BY DEF TypeOK
<1>4. \A i \in ActiveIn(subs) : subs[i] \in ActiveRow
  BY RowIsActive
<1>5. \A i \in ActiveIn(subs) : Credited(i) \in ActiveRow /\ Credited(i).plan = subs[i].plan
  BY <1>1, <1>4 DEF ActiveRow, Renewing
<1> HIDE DEF Credited
<1>6. /\ DOMAIN subs' = DOMAIN subs
      /\ \A i \in DOMAIN subs :
           subs'[i] = subs[i] \/ (i \in ActiveIn(subs) /\ subs'[i] = Credited(i))
  BY <1>2 DEF ActiveIn
<1>7. \A i \in DOMAIN subs : subs'[i] \in Subscription
  <2>1. \A i \in DOMAIN subs : subs[i] \in Subscription
    BY <1>3
  <2>2. ActiveRow \subseteq Subscription
    BY DEF ActiveRow, Subscription
  <2>3. QED
    BY <1>5, <1>6, <2>1, <2>2
<1>8. subs' \in Seq(Subscription) /\ Len(subs') = Len(subs)
  <2>1. subs' = [i \in DOMAIN subs |-> subs'[i]]
    BY <1>2
  <2>2. QED
    BY <1>3, <1>7, <2>1, RowsTyped
<1>9. ActiveIn(subs') = ActiveIn(subs)
  BY <1>4, <1>5, <1>6 DEF ActiveIn, ActiveRow
<1>10. \A i \in ActiveIn(subs) : subs'[i].plan = subs[i].plan
  BY <1>5, <1>6 DEF ActiveIn
<1>11. RowsStay(subs, subs')
  BY <1>3, <1>8, <1>9, <1>10 DEF RowsStay
<1>12. QED
  BY <1>9, <1>11

\* The commit of a refund.
LEMMA RefundCommitKeeps ==
  ASSUME TypeOK, OrderInv, RowsInv, NEW s \in Sessions, RefundCommit(s)
  PROVE  TypeOK' /\ OrderInv' /\ RowsInv'
<1> DEFINE o == sess[s].order
           row == [order[o] EXCEPT !.status = "refunded"]
           back == Min({Quota[Plan(s)], Max({0, balance})})
<1>1. /\ UNCHANGED <<day, paid, credits, renewals, special, failures>>
      /\ sess[s].pc = "refunding" /\ End(s)
      /\ order' = [order EXCEPT ![o] = row]
      /\ balance' = balance - back
      /\ clawbacks' = [clawbacks EXCEPT ![o] = @ + 1]
      /\ early' \in {early, early \cup {o}}
  BY DEF RefundCommit, TakeBack, external, bounds
<1>2. AtOrder(s) /\ o \in Orders /\ order[o] \in OrderRow
  BY <1>1, TypeFacts DEF AtOrder
<1>3. row \in OrderRow /\ row # Absent
  BY <1>2 DEF OrderRow, Absent
<1> HIDE DEF row
<1>4. /\ order' \in [Orders -> OrderRow \cup {Absent}] /\ order'[o] # Absent
      /\ \A x \in Orders \ {o} : order'[x] = order[x]
  BY <1>1, <1>2, <1>3 DEF TypeOK
<1>5. balance' \in Nat
  <2>1. Quota[Plan(s)] \in Nat /\ balance \in Nat
    BY <1>2, BillingAssumption DEF BillingAssumption, OrderRow, Plan, TypeOK
  <2>2. Max({0, balance}) \in {0, balance}
    BY <2>1, LargerAndSmaller
  <2>3. Max({0, balance}) \in Nat /\ Max({0, balance}) <= balance
    BY <2>1, <2>2
  <2>4. /\ Min({Quota[Plan(s)], Max({0, balance})}) \in {Quota[Plan(s)], Max({0, balance})}
        /\ Min({Quota[Plan(s)], Max({0, balance})}) <= Max({0, balance})
    BY <2>1, <2>3, LargerAndSmaller
  <2>5. back \in Nat /\ back <= balance
    BY <2>1, <2>3, <2>4
  <2> HIDE DEF back
  <2>6. QED
    BY <1>1, <2>1, <2>5
<1>6. clawbacks' \in [Orders -> Nat] /\ early' \subseteq Orders
  BY <1>1, <1>2 DEF TypeOK
<1>7. /\ sess' \in [Sessions -> Transaction] /\ sess'[s].pc = "idle"
      /\ \A t \in Sessions \ {s} : sess'[t] = sess[t]
  BY <1>1, SessionEnds
<1>8. ~AtPayment(s)' /\ ~AtOrder(s)'
  BY <1>7 DEF AtPayment, AtOrder
<1>9. subs' \in Seq(Subscription) /\ Len(subs') >= Len(subs)
  BY RefundCommitRows DEF RowsStay
<1>10. TypeOK' /\ RowsInv'
  <2>1. /\ day' \in 0 .. LastDay /\ paid' \subseteq Orders /\ renewals' \in Nat
        /\ credits' \in [Orders -> Nat]
        /\ special' \in 0 .. MaxSpecial /\ failures' \in 0 .. MaxFailures
    BY <1>1 DEF TypeOK
  <2>2. QED
    BY <1>4, <1>5, <1>6, <1>7, <1>8, <1>9, <2>1, OneSessionTyped
<1>11. OrderInv'
  <2>1. \A x \in Orders : order[x] # Absent => order'[x] # Absent
    BY <1>4
  <2>2. \A x \in Orders : order'[x] = order[x] \/ (AtOrder(s) /\ sess[s].order = x)
    BY <1>2, <1>4
  <2>3. QED
    BY <1>1, <1>7, <1>8, <2>1, <2>2, OneSessionOrders
<1>12. QED
  BY <1>10, <1>11

\* A grant begins.
LEMMA GrantSubscriptionKeeps ==
  ASSUME TypeOK, OrderInv, RowsInv, NEW s \in Sessions, GrantSubscription(s)
  PROVE  TypeOK' /\ OrderInv' /\ RowsInv'
<1>1. PICK p \in Plans :
        Begin(s, [pc |-> "granting", plan |-> p, drop |-> ActiveIn(subs),
                  seen |-> Len(subs), bal |-> balance])
  BY DEF GrantSubscription
<1> DEFINE x == [pc |-> "granting", plan |-> p, drop |-> ActiveIn(subs),
                 seen |-> Len(subs), bal |-> balance]
<1>2. /\ UNCHANGED <<day, paid, order, subs, balance, credits, clawbacks, early, renewals, failures>>
      /\ special' \in 0 .. MaxSpecial
  BY BillingAssumption DEF GrantSubscription, external, TypeOK, BillingAssumption
<1>3. ActiveIn(subs) \in SUBSET Nat /\ Len(subs) \in Nat
  <2>1. DOMAIN subs = 1 .. Len(subs) /\ Len(subs) \in Nat
    BY TypeFacts
  <2>2. QED
    BY <2>1 DEF ActiveIn
<1>4. x \in Granting /\ x.pc = "granting" /\ x.seen = Len(subs)
  BY <1>3 DEF Granting, TypeOK
<1>5. Begin(s, x)
  BY <1>1
<1> HIDE DEF x
<1>6. x \in Transaction
  BY <1>4 DEF Transaction
<1>7. /\ sess' \in [Sessions -> Transaction] /\ sess'[s] = x /\ sess[s].pc = "idle"
      /\ \A t \in Sessions \ {s} : sess'[t] = sess[t]
  BY <1>5, <1>6, SessionBegins
<1>8. /\ sess'[s].pc = "granting" /\ sess'[s].seen = Len(subs)
      /\ ~AtPayment(s)' /\ ~AtOrder(s)'
  BY <1>4, <1>7 DEF AtPayment, AtOrder
<1>9. TypeOK' /\ RowsInv'
  <2>1. /\ day' \in 0 .. LastDay /\ paid' \subseteq Orders
        /\ order' \in [Orders -> OrderRow \cup {Absent}]
        /\ subs' \in Seq(Subscription) /\ Len(subs') >= Len(subs)
        /\ sess'[s].seen <= Len(subs')
        /\ balance' \in Nat /\ renewals' \in Nat
        /\ credits' \in [Orders -> Nat] /\ clawbacks' \in [Orders -> Nat] /\ early' \subseteq Orders
        /\ failures' \in 0 .. MaxFailures
    BY <1>2, <1>3, <1>8 DEF TypeOK
  <2>2. QED
    BY <1>2, <1>7, <1>8, <2>1, OneSessionTyped
<1>10. OrderInv'
  BY <1>2, <1>7, <1>8, OneSessionOrders
<1>11. QED
  BY <1>9, <1>10

\* A grant is committed.
LEMMA GrantCommitKeeps ==
  ASSUME TypeOK, OrderInv, RowsInv, NEW s \in Sessions, GrantCommit(s)
  PROVE  TypeOK' /\ OrderInv' /\ RowsInv'
<1>1. /\ UNCHANGED <<day, paid, order, credits, clawbacks, early, renewals, special, failures>>
      /\ sess[s].pc = "granting" /\ End(s)
      /\ balance' = IF Quota[sess[s].plan] = 0 THEN balance ELSE sess[s].bal + Quota[sess[s].plan]
  BY DEF GrantCommit, external, bounds
<1>2. balance' \in Nat
  <2>1. sess[s] \in Granting
    BY <1>1, SessionByPc
  <2>2. Quota[sess[s].plan] \in Nat /\ sess[s].bal \in Nat /\ balance \in Nat
    BY <2>1, BillingAssumption DEF BillingAssumption, Granting, TypeOK
  <2>3. QED
    BY <1>1, <2>2
<1>3. /\ sess' \in [Sessions -> Transaction] /\ sess'[s].pc = "idle"
      /\ \A t \in Sessions \ {s} : sess'[t] = sess[t]
  BY <1>1, SessionEnds
<1>4. ~AtPayment(s)' /\ ~AtOrder(s)'
  BY <1>3 DEF AtPayment, AtOrder
<1>5. subs' \in Seq(Subscription) /\ Len(subs') >= Len(subs)
  BY GrantCommitRows DEF RowsStay
<1>6. TypeOK' /\ RowsInv'
  <2>1. /\ day' \in 0 .. LastDay /\ paid' \subseteq Orders /\ renewals' \in Nat
        /\ order' \in [Orders -> OrderRow \cup {Absent}]
        /\ credits' \in [Orders -> Nat] /\ clawbacks' \in [Orders -> Nat] /\ early' \subseteq Orders
        /\ special' \in 0 .. MaxSpecial /\ failures' \in 0 .. MaxFailures
    BY <1>1 DEF TypeOK
  <2>2. QED
    BY <1>2, <1>3, <1>4, <1>5, <2>1, OneSessionTyped
<1>7. OrderInv'
  BY <1>1, <1>3, <1>4, OneSessionOrders
<1>8. QED
  BY <1>6, <1>7

\* What the subscriptions that are due bring, taken together, is a number.
LEMMA RenewalQuotas ==
  ASSUME TypeOK
  PROVE  MapThenSumSet(LAMBDA i : Quota[subs[i].plan], RenewalDue) \in Nat
<1> DEFINE w == [i \in RenewalDue |-> Quota[subs[i].plan]]
<1>1. MapThenSumSet(LAMBDA i : Quota[subs[i].plan], RenewalDue) = Total(w, RenewalDue)
  BY DEF Total, MapThenSumSet, MapThenFoldSet
<1>2. RenewalDue \subseteq 1 .. Len(subs)
  BY DEF RenewalDue, ActiveIn, TypeOK
<1>3. IsFiniteSet(RenewalDue)
  <2>1. IsFiniteSet(1 .. Len(subs))
    BY FS_Interval DEF TypeOK
  <2>2. QED
    BY <1>2, <2>1, FS_Subset
<1>4. w \in [RenewalDue -> Nat]
  <2>1. ASSUME NEW i \in RenewalDue
        PROVE  Quota[subs[i].plan] \in Nat
    <3>1. subs[i] \in ActiveRow
      BY RowIsActive DEF RenewalDue
    <3>2. QED
      BY <3>1, BillingAssumption DEF ActiveRow, BillingAssumption
  <2>2. QED
    BY <2>1
<1> HIDE DEF w
<1>5. QED
  BY <1>1, <1>3, <1>4, TotalType

\* A renewal begins.
LEMMA MonthlyRenewalKeeps ==
  ASSUME TypeOK, OrderInv, RowsInv, NEW s \in Sessions, MonthlyRenewal(s)
  PROVE  TypeOK' /\ OrderInv' /\ RowsInv'
<1> DEFINE sum == MapThenSumSet(LAMBDA i : Quota[subs[i].plan], RenewalDue)
           x == [pc |-> "renewing", due |-> RenewalDue, day |-> day, bal |-> balance,
                 quotas |-> sum]
<1>1. /\ UNCHANGED <<day, paid, order, subs, balance, credits, clawbacks, early, renewals, special,
                     failures>>
      /\ Begin(s, x)
  BY DEF MonthlyRenewal, external, bounds
<1>2. /\ RenewalDue \subseteq DOMAIN subs /\ RenewalDue \in SUBSET Nat /\ day \in Nat
      /\ Len(subs) \in Nat
  <2>1. DOMAIN subs = 1 .. Len(subs) /\ Len(subs) \in Nat /\ day \in Nat
    BY TypeFacts
  <2>2. QED
    BY <2>1 DEF RenewalDue, ActiveIn
<1>3. sum \in Nat
  BY RenewalQuotas
<1> HIDE DEF sum
<1>4. x \in Renewing /\ x.pc = "renewing" /\ x.due = RenewalDue
  BY <1>2, <1>3 DEF Renewing, TypeOK
<1> HIDE DEF x
<1>5. x \in Transaction
  BY <1>4 DEF Transaction
<1>6. /\ sess' \in [Sessions -> Transaction] /\ sess'[s] = x
      /\ \A t \in Sessions \ {s} : sess'[t] = sess[t]
  BY <1>1, <1>5, SessionBegins
<1>7. /\ sess'[s].pc = "renewing" /\ sess'[s].due \subseteq DOMAIN subs'
      /\ ~AtPayment(s)' /\ ~AtOrder(s)'
  BY <1>1, <1>2, <1>4, <1>6 DEF AtPayment, AtOrder
<1>8. TypeOK' /\ RowsInv'
  <2>1. /\ day' \in 0 .. LastDay /\ paid' \subseteq Orders
        /\ order' \in [Orders -> OrderRow \cup {Absent}]
        /\ subs' \in Seq(Subscription) /\ Len(subs') >= Len(subs)
        /\ balance' \in Nat /\ renewals' \in Nat
        /\ credits' \in [Orders -> Nat] /\ clawbacks' \in [Orders -> Nat] /\ early' \subseteq Orders
        /\ special' \in 0 .. MaxSpecial /\ failures' \in 0 .. MaxFailures
    BY <1>1, <1>2 DEF TypeOK
  <2>2. QED
    BY <1>6, <1>7, <2>1, OneSessionTyped
<1>9. OrderInv'
  BY <1>1, <1>6, <1>7, OneSessionOrders
<1>10. QED
  BY <1>8, <1>9

\* A renewal is committed.
LEMMA RenewalCommitKeeps ==
  ASSUME TypeOK, OrderInv, RowsInv, NEW s \in Sessions, RenewalCommit(s)
  PROVE  TypeOK' /\ OrderInv' /\ RowsInv'
<1>1. /\ UNCHANGED <<day, paid, order, credits, clawbacks, early, special, failures>>
      /\ sess[s].pc = "renewing" /\ End(s)
      /\ balance' = sess[s].bal + sess[s].quotas
      /\ renewals' = renewals + Cardinality(sess[s].due)
  BY DEF RenewalCommit, external, bounds
<1>2. sess[s] \in Renewing /\ sess[s].due \subseteq 1 .. Len(subs) /\ Len(subs) \in Nat
  BY <1>1, SessionByPc, TypeFacts DEF RowsInv
<1>3. Cardinality(sess[s].due) \in Nat
  <2>1. IsFiniteSet(1 .. Len(subs))
    BY <1>2, FS_Interval
  <2>2. IsFiniteSet(sess[s].due)
    BY <1>2, <2>1, FS_Subset
  <2>3. QED
    BY <2>2, FS_CardinalityType
<1>4. balance' \in Nat /\ renewals' \in Nat
  BY <1>1, <1>2, <1>3 DEF Renewing, TypeOK
<1>5. /\ sess' \in [Sessions -> Transaction] /\ sess'[s].pc = "idle"
      /\ \A t \in Sessions \ {s} : sess'[t] = sess[t]
  BY <1>1, SessionEnds
<1>6. ~AtPayment(s)' /\ ~AtOrder(s)'
  BY <1>5 DEF AtPayment, AtOrder
<1>7. subs' \in Seq(Subscription) /\ Len(subs') >= Len(subs)
  BY RenewalCommitRows DEF RowsStay
<1>8. TypeOK' /\ RowsInv'
  <2>1. /\ day' \in 0 .. LastDay /\ paid' \subseteq Orders
        /\ order' \in [Orders -> OrderRow \cup {Absent}]
        /\ credits' \in [Orders -> Nat] /\ clawbacks' \in [Orders -> Nat] /\ early' \subseteq Orders
        /\ special' \in 0 .. MaxSpecial /\ failures' \in 0 .. MaxFailures
    BY <1>1 DEF TypeOK
  <2>2. QED
    BY <1>4, <1>5, <1>6, <1>7, <2>1, OneSessionTyped
<1>9. OrderInv'
  BY <1>1, <1>5, <1>6, OneSessionOrders
<1>10. QED
  BY <1>8, <1>9

-----------------------------------------------------------------------------
(* The type of the state, and the locks of orders.                          *)

\* An order and the session that has it, whoever moves.
LEMMA StepKeeps ==
  ASSUME TypeOK, OrderInv, RowsInv, [Next]_vars
  PROVE  TypeOK' /\ OrderInv' /\ RowsInv'
<1>1. CASE \E o \in Orders : CreateOrder(o)
  BY <1>1, CreateOrderKeeps
<1>2. CASE \E o \in Orders : FailedWebhook(o)
  BY <1>2, FailedWebhookKeeps
<1>3. CASE (\E o \in Orders : CustomerPays(o)) \/ IssueElsewhere \/ NextDay
  BY <1>3, ElsewhereKeeps
<1>4. CASE RevokeSubscription
  BY <1>4, RevokeKeeps
<1>5. CASE \E o \in Orders, s \in Sessions : PaidWebhook(s, o) \/ RefundWebhook(s, o)
  BY <1>5, PaidWebhookKeeps, RefundWebhookKeeps
<1>6. CASE \E s \in Sessions : PayError(s) \/ Rollback(s)
  <2>1. PICK s \in Sessions : PayError(s) \/ Rollback(s)
    BY <1>6
  <2>2. /\ End(s) /\ failures' \in 0 .. MaxFailures
        /\ UNCHANGED <<day, paid, order, subs, balance, credits, clawbacks, early, renewals, special>>
    BY <2>1, BillingAssumption
    DEF PayError, Rollback, external, bounds, TypeOK, BillingAssumption
  <2>3. QED
    BY <2>2, EndKeeps
<1>7. CASE \E s \in Sessions :
             \/ PayRead(s) \/ PayCredit(s) \/ PayCommit(s) \/ RefundCommit(s)
             \/ GrantSubscription(s) \/ GrantCommit(s) \/ MonthlyRenewal(s) \/ RenewalCommit(s)
  BY <1>7, PayReadKeeps, PayCreditKeeps, PayCommitKeeps, RefundCommitKeeps,
     GrantSubscriptionKeeps, GrantCommitKeeps, MonthlyRenewalKeeps, RenewalCommitKeeps
<1>8. CASE UNCHANGED vars
  BY <1>8 DEF vars, TypeOK, OrderInv, RowsInv, AtOrder, AtPayment
<1>9. QED
  BY <1>1, <1>2, <1>3, <1>4, <1>5, <1>6, <1>7, <1>8 DEF Next, Notify, Proceed, Over

LEMMA InitHolds ==
  ASSUME Init
  PROVE  TypeOK /\ OrderInv /\ RowsInv
<1>1. \A s \in Sessions : sess[s] = Idle /\ sess[s].pc = "idle"
  BY DEF Init, Idle
<1>2. TypeOK
  <2>1. subs \in Seq(Subscription)
    BY DEF Init
  <2>2. \A s \in Sessions : sess[s].pc \notin {"ordered", "read", "credited"}
    BY <1>1
  <2>3. sess \in [Sessions -> {Idle} \cup Paying \cup Refunding \cup Granting \cup Renewing]
    BY DEF Init
  <2>4. QED
    BY <2>1, <2>2, <2>3, BillingAssumption DEF Init, TypeOK, BillingAssumption
<1>3. OrderInv /\ RowsInv
  BY <1>1 DEF Init, OrderInv, RowsInv, AtOrder, AtPayment
<1>4. QED
  BY <1>2, <1>3

LEMMA LocksInvariant == Spec => [](TypeOK /\ OrderInv /\ RowsInv)
BY InitHolds, StepKeeps, PTL DEF Spec

\* Every table and transaction is well typed, and the balance is never negative, though
\* credits write a balance read some time ago and refunds take back what may be spent.
THEOREM TypeCorrect == Spec => []TypeOK
BY LocksInvariant, PTL

-----------------------------------------------------------------------------
(* Payments.                                                                *)

\* An order whose refund was worked on before its payment was refunded since, or paid.
EarlyInv == \A o \in early : order[o].status \in {"refunded", "paid"}

\* The status of an order agrees with the credits of it that are not taken back, but for
\* an early refund, because whoever credits or refunds an order has its row locked since
\* it looked.
LEMMA StepCreditsOnce ==
  ASSUME TypeOK, OrderInv, EarlyInv, CreditedOncePerPayment, [Next]_vars
  PROVE  CreditedOncePerPayment' /\ EarlyInv'
<1> USE DEF CreditedOncePerPayment, EarlyInv
<1>0. early \subseteq Orders
  BY DEF TypeOK
<1>1. ASSUME NEW o \in Orders, CreateOrder(o) \/ FailedWebhook(o)
      PROVE  CreditedOncePerPayment' /\ EarlyInv'
  <2>1. /\ credits' = credits /\ clawbacks' = clawbacks /\ early' = early
        /\ order[o].status \notin {"paid", "refunded"} /\ order'[o].status # "paid"
        /\ \A x \in Orders \ {o} : order'[x] = order[x]
    <3>1. CASE CreateOrder(o)
      BY <3>1 DEF CreateOrder, TypeOK, Absent
    <3>2. CASE FailedWebhook(o)
      BY <3>2 DEF FailedWebhook, TypeOK, OrderRow, Absent
    <3>3. QED
      BY <1>1, <3>1, <3>2
  <2>2. CreditedOncePerPayment'
    BY <2>1
  <2>3. EarlyInv'
    BY <1>0, <2>1
  <2>4. QED
    BY <2>2, <2>3
<1>2. ASSUME NEW s \in Sessions, PayCommit(s)
      PROVE  CreditedOncePerPayment' /\ EarlyInv'
  <2> DEFINE o == sess[s].order
             e == IF o \in early THEN 1 ELSE 0
  <2>1. AtPayment(s) /\ AtOrder(s) /\ o \in Orders /\ order[o].status # "paid" /\ order[o] # Absent
    BY <1>2, TypeFacts DEF PayCommit, AtPayment, AtOrder, OrderInv
  <2>2. /\ clawbacks' = clawbacks /\ credits' = [credits EXCEPT ![o] = @ + 1]
        /\ order' = [order EXCEPT ![o].status = "paid"] /\ early' = early
    BY <1>2 DEF PayCommit
  <2>3. /\ credits'[o] = credits[o] + 1 /\ order'[o].status = "paid"
        /\ \A x \in Orders \ {o} : credits'[x] = credits[x] /\ order'[x] = order[x]
    BY <2>1, <2>2, TypeFacts DEF TypeOK, OrderRow
  <2>4. credits[o] \in Nat /\ clawbacks[o] \in Nat /\ credits[o] - clawbacks[o] = 0 - e
    BY <2>1 DEF TypeOK
  <2>5. credits'[o] - clawbacks'[o] = 1 - e
    BY <2>2, <2>3, <2>4
  <2>6. CreditedOncePerPayment'
    BY <2>2, <2>3, <2>5
  <2>7. EarlyInv'
    BY <1>0, <2>2, <2>3
  <2>8. QED
    BY <2>6, <2>7
<1>3. ASSUME NEW s \in Sessions, RefundCommit(s)
      PROVE  CreditedOncePerPayment' /\ EarlyInv'
  <2> DEFINE o == sess[s].order
             p == IF order[o].status = "paid" THEN 1 ELSE 0
             e == IF o \in early THEN 1 ELSE 0
             f == IF o \in early' THEN 1 ELSE 0
  <2>1. AtOrder(s) /\ o \in Orders /\ order[o].status # "refunded" /\ order[o] # Absent
    BY <1>3, TypeFacts DEF RefundCommit, AtOrder, OrderInv
  <2>2. /\ credits' = credits /\ clawbacks' = [clawbacks EXCEPT ![o] = @ + 1]
        /\ order' = [order EXCEPT ![o].status = "refunded"]
        /\ early' = IF order[o].status = "paid" THEN early ELSE early \cup {o}
    BY <1>3 DEF RefundCommit, TakeBack
  <2>3. /\ clawbacks'[o] = clawbacks[o] + 1 /\ order'[o].status = "refunded"
        /\ \A x \in Orders \ {o} : clawbacks'[x] = clawbacks[x] /\ order'[x] = order[x]
    BY <2>1, <2>2, TypeFacts DEF TypeOK, OrderRow
  <2>4. credits[o] \in Nat /\ clawbacks[o] \in Nat /\ credits[o] - clawbacks[o] = p - e
    BY <2>1 DEF TypeOK
  <2>5. p - e = 1 - f
    BY <2>1, <2>2
  <2>6. credits'[o] - clawbacks'[o] = 0 - f
    BY <2>2, <2>3, <2>4, <2>5
  <2>7. \A x \in Orders \ {o} : x \in early' <=> x \in early
    BY <2>2
  <2>8. CreditedOncePerPayment'
    BY <2>2, <2>3, <2>6, <2>7
  <2>9. EarlyInv'
    BY <1>0, <2>2, <2>3
  <2>10. QED
    BY <2>8, <2>9
<1>4. CASE UNCHANGED <<order, credits, clawbacks, early>>
  BY <1>4
<1>5. UNCHANGED <<order, credits, clawbacks, early>>
        \/ (\E o \in Orders : CreateOrder(o) \/ FailedWebhook(o))
        \/ (\E s \in Sessions : PayCommit(s) \/ RefundCommit(s))
  BY DEF Next, Notify, Proceed, Over, vars, external, bounds, CustomerPays, PaidWebhook,
         RefundWebhook, PayRead, PayError, PayCredit, GrantCommit, RenewalCommit,
         GrantSubscription, MonthlyRenewal, Rollback, RevokeSubscription, IssueElsewhere, NextDay
<1>6. QED
  BY <1>1, <1>2, <1>3, <1>4, <1>5

\* However often and in whatever order its notifications come, and however many are
\* worked on at once, a payment is credited once and provisioned with its credit, and a
\* refund takes that back once; but the quota of an order whose refund was worked on
\* before its payment is taken back once more than it was credited.
THEOREM PaymentsCreditedOnce == Spec => []CreditedOncePerPayment
<1>1. Init => CreditedOncePerPayment /\ EarlyInv
  BY DEF Init, CreditedOncePerPayment, EarlyInv, Absent
<1>2. QED
  BY <1>1, StepCreditsOnce, LocksInvariant, PTL DEF Spec

-----------------------------------------------------------------------------
(* Active subscriptions.                                                    *)

\* Only a commit of a payment that found no subscription of its plan, or of a grant,
\* makes a subscription active; no step takes a row away or moves it to another plan.
LEMMA StepRows ==
  ASSUME TypeOK, OrderInv, [Next]_vars
  PROVE  /\ RowsStay(subs, subs')
         /\ \/ ActiveIn(subs') \subseteq ActiveIn(subs)
            \/ \E s \in Sessions : PayCommit(s) /\ sess[s].same = {}
            \/ \E s \in Sessions : GrantCommit(s)
<1>1. CASE subs' = subs
  <2>1. subs \in Seq(Subscription) /\ Len(subs) \in Nat
    BY DEF TypeOK
  <2>2. QED
    BY <1>1, <2>1 DEF RowsStay, ActiveIn
<1>2. CASE \E s \in Sessions : PayCommit(s)
  BY <1>2, PayCommitRows
<1>3. CASE \E s \in Sessions : RefundCommit(s) \/ GrantCommit(s) \/ RenewalCommit(s)
  BY <1>3, RefundCommitRows, GrantCommitRows, RenewalCommitRows
<1>4. CASE RevokeSubscription
  <2>1. PICK i \in ActiveIn(subs) : subs' = Deactivate(subs, {i})
    BY <1>4 DEF RevokeSubscription
  <2>2. subs \in Seq(Subscription) /\ Len(subs) \in Nat
    BY DEF TypeOK
  <2>3. /\ subs' \in Seq(Subscription) /\ Len(subs') = Len(subs)
        /\ \A j \in DOMAIN subs : subs'[j] = IF j \in {i} THEN Ended ELSE subs[j]
        /\ ActiveIn(subs') = ActiveIn(subs) \ {i}
    BY <2>1, <2>2, Deactivated
  <2>4. QED
    BY <2>2, <2>3 DEF RowsStay
<1>5. \/ subs' = subs \/ RevokeSubscription \/ (\E s \in Sessions : PayCommit(s))
      \/ (\E s \in Sessions : RefundCommit(s) \/ GrantCommit(s) \/ RenewalCommit(s))
  BY DEF Next, Notify, Proceed, Over, vars, external, bounds, CreateOrder, CustomerPays,
         FailedWebhook, PaidWebhook, RefundWebhook, PayRead, PayError, PayCredit,
         GrantSubscription, MonthlyRenewal, Rollback, IssueElsewhere, NextDay
<1>6. QED
  BY <1>1, <1>2, <1>3, <1>4, <1>5

\* The plan of an order does not change.
LEMMA StepPlans ==
  ASSUME TypeOK, OrderInv, [Next]_vars, NEW o \in Orders, order[o] # Absent
  PROVE  order'[o].plan = order[o].plan
<1>1. CASE order' = order
  BY <1>1
<1>2. CASE \E x \in Orders : CreateOrder(x)
  BY <1>2 DEF CreateOrder, TypeOK
<1>3. ASSUME NEW x \in Orders, NEW v, order' = [order EXCEPT ![x].status = v]
      PROVE  order'[o].plan = order[o].plan
  BY <1>3, TypeFacts DEF TypeOK, OrderRow
<1>4. CASE \E x \in Orders : FailedWebhook(x)
  BY <1>3, <1>4 DEF FailedWebhook
<1>5. CASE \E s \in Sessions : PayCommit(s) \/ RefundCommit(s)
  <2>1. PICK s \in Sessions : PayCommit(s) \/ RefundCommit(s)
    BY <1>5
  <2>2. sess[s].order \in Orders
    BY <2>1, TypeFacts DEF PayCommit, RefundCommit, AtOrder
  <2>3. QED
    BY <1>3, <2>1, <2>2 DEF PayCommit, RefundCommit
<1>6. \/ order' = order \/ (\E x \in Orders : CreateOrder(x) \/ FailedWebhook(x))
      \/ (\E s \in Sessions : PayCommit(s) \/ RefundCommit(s))
  BY DEF Next, Notify, Proceed, Over, vars, external, bounds, CustomerPays, PaidWebhook,
         RefundWebhook, PayRead, PayError, PayCredit, GrantCommit, RenewalCommit,
         GrantSubscription, MonthlyRenewal, Rollback, RevokeSubscription, IssueElsewhere, NextDay
<1>7. QED
  BY <1>1, <1>2, <1>4, <1>5, <1>6

\* A session that does not move has still seen the rows there were.
LEMMA SeenStays ==
  ASSUME TypeOK, OrderInv, RowsInv, RowsStay(subs, subs'),
         NEW s \in Sessions, SeenOf(s), sess'[s] = sess[s],
         AtOrder(s) => order'[sess[s].order].plan = order[sess[s].order].plan
  PROVE  SeenOf(s)'
<1> SUFFICES ASSUME NEW i \in ActiveIn(subs'),
                    AtPayment(s) \/ sess[s].pc = "granting", i <= sess[s].seen
             PROVE  /\ sess[s].pc = "ordered" => i \in sess[s].drop \/ subs'[i].plan = Plan(s)'
                    /\ sess[s].pc \in {"read", "credited"} => i \in sess[s].drop \cup sess[s].same
                    /\ sess[s].pc = "granting" => i \in sess[s].drop
  BY DEF SeenOf, AtPayment
<1>1. sess[s].seen \in Nat /\ sess[s].seen <= Len(subs)
  BY SessionByPc DEF RowsInv, Paying, Granting
<1>2. subs' \in Seq(Subscription) /\ i \in 1 .. Len(subs')
  BY DEF RowsStay, ActiveIn
<1>3. i \in DOMAIN subs
  BY <1>1, <1>2 DEF TypeOK
<1>4. i \in ActiveIn(subs) /\ subs'[i].plan = subs[i].plan
  BY <1>3 DEF RowsStay
<1>5. sess[s].pc = "ordered" => Plan(s)' = Plan(s)
  BY DEF Plan, AtOrder
<1>6. QED
  BY <1>4, <1>5 DEF SeenOf

\* What sessions have seen, whoever moves.
LEMMA StepSeen ==
  ASSUME TypeOK, OrderInv, RowsInv, SeenInv, [Next]_vars
  PROVE  SeenInv'
<1>1. ASSUME NEW s \in Sessions, sess'[s] = sess[s]
      PROVE  SeenOf(s)'
  <2>1. AtOrder(s) => order'[sess[s].order].plan = order[sess[s].order].plan
    BY TypeFacts, StepPlans
  <2>2. QED
    BY <1>1, <2>1, StepRows, SeenStays DEF SeenInv
<1>2. CASE sess' = sess
  BY <1>1, <1>2 DEF SeenInv
<1>3. ASSUME NEW s \in Sessions, NEW x, sess' = [sess EXCEPT ![s] = x], SeenOf(s)'
      PROVE  SeenInv'
  <2>1. \A t \in Sessions \ {s} : sess'[t] = sess[t]
    BY <1>3 DEF TypeOK
  <2>2. QED
    BY <1>1, <1>3, <2>1 DEF SeenInv
<1>4. ASSUME NEW s \in Sessions, NEW x, sess' = [sess EXCEPT ![s] = x],
             x.pc \in {"idle", "refunding", "renewing"}
      PROVE  SeenInv'
  <2>1. sess'[s] = x
    BY <1>4 DEF TypeOK
  <2>2. SeenOf(s)'
    BY <1>4, <2>1 DEF SeenOf
  <2>3. QED
    BY <1>3, <1>4, <2>2
<1>5. CASE \E s \in Sessions : \/ PayError(s) \/ PayCommit(s) \/ RefundCommit(s) \/ GrantCommit(s)
                               \/ RenewalCommit(s) \/ Rollback(s)
  <2>1. PICK s \in Sessions : End(s)
    BY <1>5 DEF PayError, PayCommit, RefundCommit, GrantCommit, RenewalCommit, Rollback
  <2>2. Idle.pc = "idle"
    BY DEF Idle
  <2>3. QED
    BY <1>4, <2>1, <2>2 DEF End
<1>6. CASE \E s \in Sessions : MonthlyRenewal(s) \/ \E o \in Orders : RefundWebhook(s, o)
  <2>1. ASSUME NEW s \in Sessions, MonthlyRenewal(s)
        PROVE  SeenInv'
    <3> DEFINE x == [pc |-> "renewing", due |-> RenewalDue, day |-> day, bal |-> balance,
                     quotas |-> MapThenSumSet(LAMBDA i : Quota[subs[i].plan], RenewalDue)]
    <3>1. sess' = [sess EXCEPT ![s] = x] /\ x.pc = "renewing"
      BY <2>1 DEF MonthlyRenewal, Begin
    <3> HIDE DEF x
    <3>2. QED
      BY <1>4, <3>1
  <2>2. ASSUME NEW s \in Sessions, NEW o \in Orders, RefundWebhook(s, o)
        PROVE  SeenInv'
    <3> DEFINE x == [pc |-> "refunding", order |-> o, drop |-> ActiveOf(order[o].plan)]
    <3>1. sess' = [sess EXCEPT ![s] = x] /\ x.pc = "refunding"
      BY <2>2 DEF RefundWebhook, Begin
    <3> HIDE DEF x
    <3>2. QED
      BY <1>4, <3>1
  <2>3. QED
    BY <1>6, <2>1, <2>2
<1>7. CASE \E s \in Sessions, o \in Orders : PaidWebhook(s, o)
  <2>1. PICK s \in Sessions, o \in Orders : PaidWebhook(s, o)
    BY <1>7
  <2> DEFINE d == ActiveIn(subs) \ ActiveOf(order[o].plan)
             x == PaidTransaction(o, d)
  <2>2. sess' = [sess EXCEPT ![s] = x] /\ order' = order /\ subs' = subs
    BY <2>1 DEF PaidWebhook, Begin
  <2>3. sess'[s].pc = "ordered" /\ sess'[s].order = o /\ sess'[s].drop = d
    BY <2>2 DEF TypeOK, PaidTransaction
  <2>4. \A i \in ActiveIn(subs) : i \in d \/ subs[i].plan = order[o].plan
    BY DEF ActiveOf
  <2>5. SeenOf(s)'
    BY <2>2, <2>3, <2>4 DEF SeenOf, Plan, ActiveIn
  <2>6. QED
    BY <1>3, <2>2, <2>5
<1>8. CASE \E s \in Sessions : PayRead(s)
  <2>1. PICK s \in Sessions : PayRead(s)
    BY <1>8
  <2> DEFINE until == IF ActiveOf(Plan(s)) = {} THEN 0
                      ELSE subs[CHOOSE i \in ActiveOf(Plan(s)) : TRUE].expires
             x == [sess[s] EXCEPT !.pc = "read", !.drop = @ \cap ActiveIn(subs),
                                  !.same = ActiveOf(Plan(s)), !.expires = until]
  <2>2. sess' = [sess EXCEPT ![s] = x] /\ subs' = subs /\ sess[s].pc = "ordered"
    BY <2>1 DEF PayRead, TypeOK
  <2>3. sess[s] \in Paying
    BY <2>2, SessionByPc DEF AtPayment
  <2> HIDE DEF until
  <2>4. /\ sess'[s].pc = "read" /\ sess'[s].seen = sess[s].seen
        /\ sess'[s].drop = sess[s].drop \cap ActiveIn(subs)
        /\ sess'[s].same = ActiveOf(Plan(s))
    BY <2>2, <2>3 DEF TypeOK, Paying
  <2>5. \A i \in ActiveIn(subs) : i <= sess[s].seen =>
          i \in sess[s].drop \/ i \in ActiveOf(Plan(s))
    BY <2>2 DEF SeenInv, SeenOf, ActiveOf
  <2>6. SeenOf(s)'
    BY <2>2, <2>4, <2>5 DEF SeenOf, ActiveIn
  <2>7. QED
    BY <1>3, <2>2, <2>6
<1>9. CASE \E s \in Sessions : PayCredit(s)
  <2>1. PICK s \in Sessions : PayCredit(s)
    BY <1>9
  <2> DEFINE x == [sess[s] EXCEPT !.pc = "credited", !.bal = balance]
  <2>2. sess' = [sess EXCEPT ![s] = x] /\ subs' = subs /\ sess[s].pc = "read"
    BY <2>1 DEF PayCredit, TypeOK
  <2>3. sess[s] \in Paying
    BY <2>2, SessionByPc DEF AtPayment
  <2>4. /\ sess'[s].pc = "credited" /\ sess'[s].seen = sess[s].seen
        /\ sess'[s].drop = sess[s].drop /\ sess'[s].same = sess[s].same
    BY <2>2, <2>3 DEF TypeOK, Paying
  <2>5. SeenOf(s)'
    BY <2>2, <2>4 DEF SeenInv, SeenOf, ActiveIn
  <2>6. QED
    BY <1>3, <2>2, <2>5
<1>10. CASE \E s \in Sessions : GrantSubscription(s)
  <2>1. PICK s \in Sessions, p \in Plans :
          /\ Begin(s, [pc |-> "granting", plan |-> p, drop |-> ActiveIn(subs),
                       seen |-> Len(subs), bal |-> balance])
          /\ subs' = subs
    BY <1>10 DEF GrantSubscription
  <2> DEFINE x == [pc |-> "granting", plan |-> p, drop |-> ActiveIn(subs),
                   seen |-> Len(subs), bal |-> balance]
  <2>2. sess' = [sess EXCEPT ![s] = x]
    BY <2>1 DEF Begin
  <2>3. sess'[s].pc = "granting" /\ sess'[s].drop = ActiveIn(subs)
    BY <2>2 DEF TypeOK
  <2>4. SeenOf(s)'
    BY <2>1, <2>3 DEF SeenOf, ActiveIn
  <2>5. QED
    BY <1>3, <2>2, <2>4
<1>11. QED
  <2>1. \/ sess' = sess
        \/ \E s \in Sessions : \/ PayError(s) \/ PayCommit(s) \/ RefundCommit(s) \/ GrantCommit(s)
                               \/ RenewalCommit(s) \/ Rollback(s)
        \/ \E s \in Sessions : MonthlyRenewal(s) \/ \E o \in Orders : RefundWebhook(s, o)
        \/ \E s \in Sessions, o \in Orders : PaidWebhook(s, o)
        \/ \E s \in Sessions : PayRead(s) \/ PayCredit(s) \/ GrantSubscription(s)
    BY DEF Next, Notify, Proceed, Over, vars, CreateOrder, CustomerPays, FailedWebhook,
           RevokeSubscription, IssueElsewhere, NextDay
  <2>2. QED
    BY <1>2, <1>5, <1>6, <1>7, <1>8, <1>9, <1>10, <2>1

LEMMA SeenInvariant == Spec => []SeenInv
<1>1. Init => SeenInv
  BY DEF Init, SeenInv, SeenOf, Idle
<1>2. QED
  BY <1>1, StepSeen, LocksInvariant, PTL DEF Spec

\* A second subscription becomes active only by overlap.
LEMMA StepTwoActive ==
  ASSUME TypeOK, OrderInv, RowsInv, SeenInv, [Next]_vars,
         Cardinality(ActiveIn(subs')) > 1, Cardinality(ActiveIn(subs)) <= 1
  PROVE  \E s \in Sessions :
           /\ sess[s].pc \in {"credited", "granting"} /\ sess'[s] = Idle
           /\ sess[s].seen < Len(subs)
<1>1. Len(subs) \in Nat /\ ActiveIn(subs) \subseteq 1 .. Len(subs)
  BY DEF TypeOK, ActiveIn
<1>2. IsFiniteSet(ActiveIn(subs))
  <2>1. IsFiniteSet(1 .. Len(subs))
    BY <1>1, FS_Interval
  <2>2. QED
    BY <1>1, <2>1, FS_Subset
<1>3. ~(ActiveIn(subs') \subseteq ActiveIn(subs))
  <2>1. ActiveIn(subs') \subseteq ActiveIn(subs) =>
          Cardinality(ActiveIn(subs')) <= Cardinality(ActiveIn(subs))
            /\ Cardinality(ActiveIn(subs')) \in Nat
    BY <1>2, FS_Subset, FS_CardinalityType
  <2>2. Cardinality(ActiveIn(subs)) \in Nat
    BY <1>2, FS_CardinalityType
  <2>3. QED
    BY <2>1, <2>2
<1>4. PICK s \in Sessions :
        /\ sess[s].pc \in {"credited", "granting"} /\ End(s)
        /\ ActiveIn(subs') = (ActiveIn(subs) \ sess[s].drop) \cup {Len(subs) + 1}
        /\ sess[s].pc = "credited" => sess[s].same = {}
  <2>1. CASE \E s \in Sessions : PayCommit(s) /\ sess[s].same = {}
    BY <2>1, PayCommitRows DEF PayCommit
  <2>2. CASE \E s \in Sessions : GrantCommit(s)
    BY <2>2, GrantCommitRows DEF GrantCommit
  <2>3. QED
    BY <1>3, <2>1, <2>2, StepRows
<1>5. sess[s].seen \in Nat /\ sess[s].seen <= Len(subs)
  BY <1>4, SessionByPc DEF RowsInv, AtPayment, Paying, Granting
<1>6. sess[s].seen # Len(subs)
  <2> SUFFICES ASSUME sess[s].seen = Len(subs) PROVE FALSE
    OBVIOUS
  <2>1. \A i \in ActiveIn(subs) : i <= sess[s].seen
    BY <1>1
  <2>2. ActiveIn(subs) \subseteq sess[s].drop
    BY <1>4, <2>1 DEF SeenInv, SeenOf
  <2>3. ActiveIn(subs') = {Len(subs) + 1}
    BY <1>4, <2>2
  <2>4. Cardinality(ActiveIn(subs')) = 1
    BY <2>3, FS_Singleton
  <2>5. QED
    BY <2>4
<1>7. sess'[s] = Idle
  BY <1>4 DEF End, TypeOK
<1>8. QED
  BY <1>1, <1>4, <1>5, <1>6, <1>7

\* A user comes to have two active subscriptions only when two transactions overlap, one
\* committing a subscription after the other has looked for what to deactivate.
THEOREM TwoActiveNeedOverlap == Spec => TwoActiveOnlyByOverlap
<1>1. TypeOK /\ OrderInv /\ RowsInv /\ SeenInv /\ [Next]_vars =>
        [Cardinality(ActiveIn(subs')) > 1 /\ Cardinality(ActiveIn(subs)) <= 1 =>
           \E s \in Sessions :
             /\ sess[s].pc \in {"credited", "granting"} /\ sess'[s] = Idle
             /\ sess[s].seen < Len(subs)]_vars
  BY StepTwoActive
<1>2. QED
  BY <1>1, LocksInvariant, SeenInvariant, PTL DEF Spec, TwoActiveOnlyByOverlap
=============================================================================
