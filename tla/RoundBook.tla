----------------------------- MODULE RoundBook ------------------------------
(***************************************************************************)
(* What the contributor ledger promises to its readers, as one atomic step *)
(* per month: closed rounds form an append-only book without gaps, each    *)
(* round takes over exactly the balance its predecessor left, and at the   *)
(* very moment a round appears so do its obligations, at the published     *)
(* amounts; from then on they only move along the payment states.          *)
(***************************************************************************)
EXTENDS Integers, Collection

CONSTANTS Months, PaymentSteps,
          AllocatedCents(_),  \* what the entitlements of a round add up to
          Payees(_)           \* the accounts a round owes money to

VARIABLES book,     \* month -> round
          payable   \* <<month, account>> -> [amount, state]

bookVars == <<book, payable>>

Carried(m) == IF Has(book, m - 1) THEN book[m - 1].unallocated ELSE 0

\* The month that may be closed next: any one at first, then the next one.
Closable(m) == /\ \A k \in DOMAIN book : k < m
               /\ book # EmptyCollection => Has(book, m - 1)

Close(m) ==
  /\ Closable(m)
  /\ DOMAIN book' = DOMAIN book \cup {m}
  /\ book' = Put(book, m, book'[m])
  /\ book'[m].carry = Carried(m)
  /\ book'[m].unallocated = book'[m].pool - AllocatedCents(book'[m].ents)
  /\ payable' =
       [id \in DOMAIN payable \cup {<<m, acct>> : acct \in Payees(book'[m])} |->
          IF id \in DOMAIN payable THEN payable[id]
          ELSE [amount |-> book'[m].ents[id[2]].amount, state |-> "earned"]]

Pay(id) ==
  /\ \E to \in {step[2] : step \in PaymentSteps} :
       /\ <<payable[id].state, to>> \in PaymentSteps
       /\ payable' = [payable EXCEPT ![id].state = to]
  /\ UNCHANGED book

Init == book = EmptyCollection /\ payable = EmptyCollection

Next == \/ \E m \in Months : Close(m)
        \/ \E id \in DOMAIN payable : Pay(id)

Spec == Init /\ [][Next]_bookVars
=============================================================================
