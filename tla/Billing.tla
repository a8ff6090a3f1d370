------------------------------- MODULE Billing -------------------------------
(***************************************************************************)
(* Orders, subscriptions and plan quotas of one organiser                   *)
(* (backend/src/main.py: create_payment, payment_webhook,                   *)
(* grant_subscription, revoke_subscription, _monthly_hc_renewal).           *)
(*                                                                          *)
(* The payment provider notifies the server of every payment until it is    *)
(* answered, so a notification may come twice or while another one is       *)
(* worked on.  The handler locks the row of its order, and only that row:   *)
(* subscriptions are deactivated by an UPDATE that locks the rows it        *)
(* changes, and read, like the balance, without a lock.                     *)
(***************************************************************************)
EXTENDS Integers, Sequences, FiniteSetsExt

CONSTANTS
  MaxOrders,     \* bound: rows of orders
  Sessions,      \* database sessions that can be open at once
  Plans,         \* the plans
  Sold,          \* the plans with a price, which create_payment accepts
  Renewed,       \* the plans _monthly_hc_renewal selects
  Quota,         \* Quota[p]: the monthly quota of units, 0 for None
  Days,          \* the lengths a paid order can have, monthly or annual
  GrantDays,     \* the length of a granted subscription
  RenewAfter,    \* the days after which the quota is credited again
  Opening,       \* the balance at the start
  IssueCost,     \* what a certificate costs
  LastDay,       \* bound: the days the model goes on for
  MaxSpecial,    \* bound: grants and revocations by the superadmin, and refunds
  MaxFailures    \* bound: transactions that are rolled back by an error

ASSUME BillingAssumption ==
  /\ MaxOrders \in Nat
  /\ Sold \subseteq Plans /\ Renewed \subseteq Plans
  /\ Quota \in [Plans -> Nat]
  /\ Days \subseteq Nat /\ GrantDays \in Nat /\ RenewAfter \in Nat
  /\ Opening \in Nat /\ IssueCost \in Nat \ {0}
  /\ LastDay \in Nat /\ MaxSpecial \in Nat /\ MaxFailures \in Nat

VARIABLES
  day,        \* the days since the start
  order,      \* order[o]: the committed row of o
  paid,       \* the orders the customer has paid at the provider
  subs,       \* the committed rows of subscriptions
  balance,    \* users.heptacoin_balance, committed
  credits,    \* credits[o]: the quota credits in transactions for order o
  clawbacks,  \* clawbacks[o]: how often the quota of order o was taken back
  early,      \* history: the orders refunded when they were not paid
  renewals,   \* the monthly quota credits in transactions
  sess,       \* sess[s]: what the open transaction of session s has read
  special,    \* grants, revocations and refunds so far
  failures    \* transactions rolled back by an error so far

external == <<day, paid>>
bounds   == <<special, failures>>
vars == <<day, order, paid, subs, balance, credits, clawbacks, early, renewals, sess,
          special, failures>>

\* The ids are given out one by one.
Orders == 1 .. MaxOrders

Absent == [status |-> "absent"]
\* open: the provider answered the checkout, the customer can pay.
OrderRow ==
  [status : {"pending", "paid", "failed", "refunded"}, plan : Sold, days : Days,
   open : BOOLEAN]

\* A subscription that was deactivated is never read again by a handler.
Ended == [active |-> FALSE]
Subscription ==
  {Ended} \cup [plan : Plans, active : {TRUE}, expires : Nat, credited : Nat]

\* drop: the subscriptions the UPDATE of the session deactivates; seen: how many
\* subscriptions there were when it began.  same: the active subscription of the
\* order's plan, if there is one; bal the balance the session has read.
Idle == [pc |-> "idle"]
Paying ==
  [pc : {"ordered", "read", "credited"}, order : Orders, drop : SUBSET Nat,
   seen : Nat, same : SUBSET Nat, expires : Nat, bal : Nat]
Refunding == [pc : {"refunding"}, order : Orders, drop : SUBSET Nat]
Granting  == [pc : {"granting"}, plan : Plans, drop : SUBSET Nat, seen : Nat, bal : Nat]
Renewing  == [pc : {"renewing"}, due : SUBSET Nat, day : Nat, bal : Nat, quotas : Nat]

\* The balance is never negative, though a refund takes back units that may have been
\* spent and credits write what they read some time ago.
TypeOK ==
  /\ day \in 0 .. LastDay
  /\ order \in [Orders -> OrderRow \cup {Absent}]
  /\ paid \subseteq Orders
  /\ subs \in Seq(Subscription)
  /\ balance \in Nat
  /\ credits \in [Orders -> Nat] /\ clawbacks \in [Orders -> Nat] /\ renewals \in Nat
  /\ early \subseteq Orders
  /\ sess \in [Sessions -> {Idle} \cup Paying \cup Refunding \cup Granting \cup Renewing]
  /\ \A s \in Sessions : sess[s].pc \in {"ordered", "read", "credited"} =>
       Cardinality(sess[s].same) <= 1 /\ sess[s].drop \cup sess[s].same \subseteq DOMAIN subs
  /\ special \in 0 .. MaxSpecial /\ failures \in 0 .. MaxFailures

Init ==
  /\ day = 0
  /\ order = [o \in Orders |-> Absent]
  /\ paid = {}
  /\ subs = <<>>
  /\ balance = Opening
  /\ credits = [o \in Orders |-> 0] /\ clawbacks = [o \in Orders |-> 0]
  /\ early = {}
  /\ renewals = 0
  /\ sess = [s \in Sessions |-> Idle]
  /\ special = 0 /\ failures = 0

-----------------------------------------------------------------------------

ActiveIn(rows) == {i \in DOMAIN rows : rows[i].active}
ActiveOf(p) == {i \in ActiveIn(subs) : subs[i].plan = p}

Plan(s) == order[sess[s].order].plan

\* The order whose row the session has locked, and the subscriptions.
HasOrder(s, o) ==
  sess[s].pc \in {"ordered", "read", "credited", "refunding"} /\ sess[s].order = o
Holds(s) ==
  CASE sess[s].pc = "read"     -> sess[s].drop
    [] sess[s].pc = "credited" -> sess[s].drop \cup sess[s].same
    [] OTHER                   -> {}

OrderFree(o) == \A s \in Sessions : ~HasOrder(s, o)
RowsFree(s, rows) == \A t \in Sessions \ {s} : rows \cap Holds(t) = {}

Deactivate(rows, dropped) ==
  [i \in DOMAIN rows |-> IF i \in dropped THEN Ended ELSE rows[i]]

\* A session starts with what its first statements read.
Begin(s, txn) == sess[s] = Idle /\ sess' = [sess EXCEPT ![s] = txn]
End(s) == sess' = [sess EXCEPT ![s] = Idle]

-----------------------------------------------------------------------------
(* Checkout.                                                                *)

\* create_payment commits the order, asks the provider for a checkout, and marks
\* the order failed if it gets none; until then nobody can pay it.
CreateOrder(o) ==
  /\ order[o] = Absent /\ \A i \in 1 .. o - 1 : order[i] # Absent
  /\ \E p \in Sold, n \in Days, open \in BOOLEAN :
       order' = [order EXCEPT ![o] =
         [status |-> IF open THEN "pending" ELSE "failed", plan |-> p, days |-> n, open |-> open]]
  /\ UNCHANGED <<external, subs, balance, credits, clawbacks, early, renewals, sess, bounds>>

\* At the provider: the customer pays, perhaps after a card was refused.
CustomerPays(o) ==
  /\ order[o] # Absent /\ order[o].open /\ o \notin paid
  /\ paid' = paid \cup {o}
  /\ UNCHANGED <<day, order, subs, balance, credits, clawbacks, early, renewals, sess, bounds>>

-----------------------------------------------------------------------------
(* payment_webhook.                                                         *)

\* "failed" of a refused card; it may come after "paid".
FailedWebhook(o) ==
  /\ order[o].status = "pending" /\ order[o].open /\ OrderFree(o)
  /\ order' = [order EXCEPT ![o].status = "failed"]
  /\ UNCHANGED <<external, subs, balance, credits, clawbacks, early, renewals, sess, bounds>>

PaidTransaction(o, drop) ==
  [pc |-> "ordered", order |-> o, drop |-> drop, seen |-> Len(subs),
   same |-> {}, expires |-> 0, bal |-> 0]

\* Mutant: SELECT of the order without FOR UPDATE.
PaidWebhookUnlocked(s, o) ==
  /\ o \in paid /\ order[o].status # "paid"
  /\ Begin(s, PaidTransaction(o, ActiveIn(subs) \ ActiveOf(order[o].plan)))
  /\ UNCHANGED <<external, order, subs, balance, credits, clawbacks, early, renewals, bounds>>

\* Mutant: subscriptions of other plans stay active.
PaidWebhookKeepingOthers(s, o) ==
  /\ o \in paid /\ order[o].status # "paid" /\ OrderFree(o)
  /\ Begin(s, PaidTransaction(o, {}))
  /\ UNCHANGED <<external, order, subs, balance, credits, clawbacks, early, renewals, bounds>>

\* Mutant: an order is only paid while it is pending.
PaidWebhookPending(s, o) ==
  /\ o \in paid /\ order[o].status = "pending" /\ OrderFree(o)
  /\ Begin(s, PaidTransaction(o, ActiveIn(subs) \ ActiveOf(order[o].plan)))
  /\ UNCHANGED <<external, order, subs, balance, credits, clawbacks, early, renewals, bounds>>

\* "paid" of an order that is not: its row is locked, and the UPDATE begins that
\* deactivates the subscriptions of other plans.  A paid order is left as it is.
PaidWebhook(s, o) ==
  /\ o \in paid /\ order[o].status # "paid" /\ OrderFree(o)
  /\ Begin(s, PaidTransaction(o, ActiveIn(subs) \ ActiveOf(order[o].plan)))
  /\ UNCHANGED <<external, order, subs, balance, credits, clawbacks, early, renewals, bounds>>

\* The UPDATE waits for the rows another session has changed and keeps those it
\* finds still active; then the active subscription of the plan is read.
PayRead(s) ==
  /\ sess[s].pc = "ordered"
  /\ RowsFree(s, sess[s].drop)
  /\ LET same == ActiveOf(Plan(s)) IN
       /\ Cardinality(same) <= 1
       /\ sess' = [sess EXCEPT ![s].pc = "read",
                   ![s].drop = @ \cap ActiveIn(subs),
                   ![s].same = same,
                   ![s].expires = IF same = {} THEN 0 ELSE subs[CHOOSE i \in same : TRUE].expires]
  /\ UNCHANGED <<external, order, subs, balance, credits, clawbacks, early, renewals, bounds>>

\* scalar_one_or_none raises MultipleResultsFound: the notification is answered
\* with an error, to be sent again.
PayError(s) ==
  /\ sess[s].pc = "ordered"
  /\ RowsFree(s, sess[s].drop)
  /\ Cardinality(ActiveOf(Plan(s))) > 1
  /\ End(s)
  /\ UNCHANGED <<external, order, subs, balance, credits, clawbacks, early, renewals, bounds>>

\* The new or extended subscription is flushed before the user is read.
PayCredit(s) ==
  /\ sess[s].pc = "read"
  /\ RowsFree(s, sess[s].same)
  /\ sess' = [sess EXCEPT ![s].pc = "credited", ![s].bal = balance]
  /\ UNCHANGED <<external, order, subs, balance, credits, clawbacks, early, renewals, bounds>>

PayCommit(s) ==
  /\ sess[s].pc = "credited"
  /\ LET o    == sess[s].order
         kept == Deactivate(subs, sess[s].drop)
         new  == [plan |-> Plan(s), active |-> TRUE, expires |-> day + order[o].days,
                  credited |-> day]
     IN  /\ order' = [order EXCEPT ![o].status = "paid"]
         /\ subs' =
              IF sess[s].same = {} THEN Append(kept, new)
              ELSE [i \in DOMAIN kept |->
                      IF i \in sess[s].same /\ kept[i].active
                      THEN [kept[i] EXCEPT !.credited = day,
                              !.expires = Max({sess[s].expires, day}) + order[o].days]
                      ELSE kept[i]]
         /\ balance' = IF Quota[Plan(s)] = 0 THEN balance ELSE sess[s].bal + Quota[Plan(s)]
         /\ credits' = [credits EXCEPT ![o] = @ + 1]
  /\ End(s)
  /\ UNCHANGED <<external, clawbacks, early, renewals, bounds>>

\* "refunded" of any order that is not: it may come before "paid" was worked on.
RefundWebhook(s, o) ==
  /\ special < MaxSpecial /\ special' = special + 1
  /\ order[o] # Absent /\ order[o].status # "refunded" /\ OrderFree(o)
  /\ Begin(s, [pc |-> "refunding", order |-> o, drop |-> ActiveOf(order[o].plan)])
  /\ UNCHANGED <<external, order, subs, balance, credits, clawbacks, early, renewals, failures>>

\* The quota is taken back, whether the order was credited or not.
TakeBack(o) ==
  /\ clawbacks' = [clawbacks EXCEPT ![o] = @ + 1]
  /\ early' = IF order[o].status = "paid" THEN early ELSE early \cup {o}

\* Mutant: the quota is taken back whatever is left of it.
RefundCommitUnfloored(s) ==
  /\ sess[s].pc = "refunding"
  /\ RowsFree(s, sess[s].drop)
  /\ order' = [order EXCEPT ![sess[s].order].status = "refunded"]
  /\ subs' = Deactivate(subs, sess[s].drop)
  /\ balance' = balance - Quota[Plan(s)]
  /\ TakeBack(sess[s].order)
  /\ End(s)
  /\ UNCHANGED <<external, credits, renewals, bounds>>

\* The balance is read FOR UPDATE; what is taken back never exceeds it.
RefundCommit(s) ==
  /\ sess[s].pc = "refunding"
  /\ RowsFree(s, sess[s].drop)
  /\ order' = [order EXCEPT ![sess[s].order].status = "refunded"]
  /\ subs' = Deactivate(subs, sess[s].drop)
  /\ balance' = balance - Min({Quota[Plan(s)], Max({0, balance})})
  /\ TakeBack(sess[s].order)
  /\ End(s)
  /\ UNCHANGED <<external, credits, renewals, bounds>>

-----------------------------------------------------------------------------
(* The superadmin and the scheduler.                                        *)

GrantSubscription(s) ==
  /\ special < MaxSpecial /\ special' = special + 1
  /\ \E p \in Plans :
       Begin(s, [pc |-> "granting", plan |-> p, drop |-> ActiveIn(subs),
                 seen |-> Len(subs), bal |-> balance])
  /\ UNCHANGED <<external, order, subs, balance, credits, clawbacks, early, renewals, failures>>

GrantCommit(s) ==
  /\ sess[s].pc = "granting"
  /\ RowsFree(s, sess[s].drop)
  /\ LET p == sess[s].plan IN
       /\ subs' = Append(Deactivate(subs, sess[s].drop),
                    [plan |-> p, active |-> TRUE, expires |-> day + GrantDays, credited |-> day])
       /\ balance' = IF Quota[p] = 0 THEN balance ELSE sess[s].bal + Quota[p]
  /\ End(s)
  /\ UNCHANGED <<external, order, credits, clawbacks, early, renewals, bounds>>

RevokeSubscription ==
  /\ special < MaxSpecial /\ special' = special + 1
  /\ \E i \in ActiveIn(subs) :
       /\ \A s \in Sessions : i \notin Holds(s)
       /\ subs' = Deactivate(subs, {i})
  /\ UNCHANGED <<external, order, balance, credits, clawbacks, early, renewals, sess, failures>>

\* _monthly_hc_renewal, one run at a time: the subscriptions and the balance are
\* read without a lock.
RenewalDue ==
  {i \in ActiveIn(subs) :
     /\ subs[i].plan \in Renewed /\ Quota[subs[i].plan] # 0
     /\ subs[i].expires > day
     /\ subs[i].credited + RenewAfter <= day}

MonthlyRenewal(s) ==
  /\ \A t \in Sessions : sess[t].pc # "renewing"
  /\ RenewalDue # {}
  /\ Begin(s, [pc |-> "renewing", due |-> RenewalDue, day |-> day, bal |-> balance,
               quotas |-> MapThenSumSet(LAMBDA i : Quota[subs[i].plan], RenewalDue)])
  /\ UNCHANGED <<external, order, subs, balance, credits, clawbacks, early, renewals, bounds>>

RenewalCommit(s) ==
  /\ sess[s].pc = "renewing"
  /\ RowsFree(s, sess[s].due)
  /\ subs' = [i \in DOMAIN subs |->
       IF i \in sess[s].due /\ subs[i].active
       THEN [subs[i] EXCEPT !.credited = sess[s].day] ELSE subs[i]]
  /\ balance' = sess[s].bal + sess[s].quotas
  /\ renewals' = renewals + Cardinality(sess[s].due)
  /\ End(s)
  /\ UNCHANGED <<external, order, credits, clawbacks, early, bounds>>

-----------------------------------------------------------------------------
(* The rest of the system.                                                  *)

\* A certificate is issued, in a transaction that locks the user and checks.
IssueElsewhere ==
  /\ balance >= IssueCost
  /\ balance' = balance - IssueCost
  /\ UNCHANGED <<external, order, subs, credits, clawbacks, early, renewals, sess, bounds>>

\* An error, a lost connection or a restart before the commit, or PostgreSQL
\* aborts the session because it and another wait for each other's rows.
Rollback(s) ==
  /\ sess[s] # Idle /\ failures < MaxFailures
  /\ failures' = failures + 1
  /\ End(s)
  /\ UNCHANGED <<external, order, subs, balance, credits, clawbacks, early, renewals, special>>

NextDay ==
  /\ day < LastDay
  /\ day' = day + 1
  /\ UNCHANGED <<order, paid, subs, balance, credits, clawbacks, early, renewals, sess, bounds>>

\* What an open transaction does next.
Proceed(s) ==
  \/ PayRead(s) \/ PayError(s) \/ PayCredit(s) \/ PayCommit(s)
  \/ RefundCommit(s) \/ GrantCommit(s) \/ RenewalCommit(s)

Notify(o) == \E s \in Sessions : PaidWebhook(s, o)

\* The last day of the model, with nothing under way.
Over ==
  /\ day = LastDay /\ \A s \in Sessions : sess[s] = Idle
  /\ UNCHANGED vars

Next ==
  \/ \E o \in Orders :
       \/ CreateOrder(o) \/ CustomerPays(o)
       \/ FailedWebhook(o) \/ Notify(o)
       \/ \E s \in Sessions : RefundWebhook(s, o)
  \/ \E s \in Sessions : Proceed(s) \/ GrantSubscription(s) \/ MonthlyRenewal(s) \/ Rollback(s)
  \/ RevokeSubscription \/ IssueElsewhere \/ NextDay \/ Over

Spec == Init /\ [][Next]_vars

\* An open transaction goes on, and the provider repeats the notification of a payment
\* until it is answered without an error, or refunds it.
FairSpec ==
  /\ Spec
  /\ \A s \in Sessions : WF_vars(Proceed(s))
  /\ \A o \in Orders : WF_vars(order[o].status # "refunded" /\ Notify(o))

-----------------------------------------------------------------------------
(* Properties.                                                              *)

\* A payment is credited once and provisioned with its credit, and a refund takes
\* that back once, however often and in whatever order the notifications come,
\* however many are worked on at once ("is idempotent on duplicate webhook",
\* TEST_COVERAGE_GAP_INVENTORY.md:48) - but for an order whose refund was worked on
\* before its payment: its quota is taken back once more than it was credited.
CreditedOncePerPayment ==
  \A o \in Orders :
    credits[o] - clawbacks[o] =
      (IF order[o].status = "paid" THEN 1 ELSE 0) - (IF o \in early THEN 1 ELSE 0)

\* "Plan changes never leave a user with two active subscriptions" (WP11, line 35),
\* with one exception: a second subscription becomes active only if two transactions
\* overlap, one committing a subscription after the other has looked for what to
\* deactivate.
TwoActiveOnlyByOverlap ==
  [][Cardinality(ActiveIn(subs')) > 1 /\ Cardinality(ActiveIn(subs)) <= 1 =>
       \E s \in Sessions :
         /\ sess[s].pc \in {"credited", "granting"} /\ sess'[s] = Idle
         /\ sess[s].seen < Len(subs)]_vars

\* The plan has two active subscriptions: scalar_one_or_none raises.
Wedged(o) == order[o] # Absent /\ Cardinality(ActiveOf(order[o].plan)) > 1

\* A payment is provisioned, though the order may be marked failed before, unless
\* its plan has come to have two active subscriptions.
PaymentsProvisioned ==
  \A o \in Orders : o \in paid ~> order[o].status \in {"paid", "refunded"} \/ Wedged(o)

=============================================================================
