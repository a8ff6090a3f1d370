---------------------------- MODULE CreditLedger ----------------------------
(***************************************************************************)
(* What the HeptaCoin model promises (docs/adr/0008): every account has a    *)
(* balance and a ledger of credits and spends; the two always agree, and no  *)
(* spend takes more than the balance holds.  How the requests that spend are *)
(* interleaved, and what they read when, is the matter of the modules that   *)
(* implement this one.                                                       *)
(***************************************************************************)
EXTENDS Integers

CONSTANTS
  Accounts,   \* the accounts
  Opening,    \* the balance of a new account, a natural number
  Amounts     \* the amounts that can be credited, natural numbers

VARIABLES
  balance,    \* balance[a]: what account a may still spend
  posted      \* posted[a]: opening balance plus posted credits minus posted spends

vars == <<balance, posted>>

Init ==
  /\ balance = [a \in Accounts |-> Opening]
  /\ posted = [a \in Accounts |-> Opening]

Post(a, n) ==
  /\ balance' = [balance EXCEPT ![a] = @ + n]
  /\ posted' = [posted EXCEPT ![a] = @ + n]

Credit(a) == \E n \in Amounts : Post(a, n)

Spend(a) == \E n \in 1 .. balance[a] : Post(a, -n)

Next == \E a \in Accounts : Credit(a) \/ Spend(a)

Spec == Init /\ [][Next]_vars
=============================================================================
