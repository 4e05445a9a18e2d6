------------------------------ MODULE WrapSale ------------------------------
(***************************************************************************)
(* What one wrapped sale promises, without saying how: the customer's sats *)
(* are locked by a hold invoice, the merchant is paid out of the           *)
(* platform's float, the hold is then captured, and the books record the   *)
(* sale.  core/money/holdWrap.ts states the promise in its header comment; *)
(* module HoldWrap is the program that keeps it.                           *)
(***************************************************************************)

VARIABLES
  payer,   \* the customer's money: "free", "locked", "charged" or "returned"
  payee,   \* the merchant's money: "unpaid" or "paid"
  book     \* the sale in the ledger: "open", "closed" (no sale) or "sold"

vars == <<payer, payee, book>>

Init ==
  /\ payer = "free"
  /\ payee = "unpaid"
  /\ book = "open"

\* The customer pays the hold invoice: the HTLC is locked, nobody is credited.
Lock ==
  /\ payer = "free"
  /\ payer' = "locked"
  /\ UNCHANGED <<payee, book>>

\* The merchant's own invoice is paid; only for a sale a customer paid.
PayMerchant ==
  /\ payer # "free"
  /\ payee = "unpaid"
  /\ payee' = "paid"
  /\ UNCHANGED <<payer, book>>

\* The hold is captured: never before the merchant was paid.
Charge ==
  /\ payer = "locked"
  /\ payee = "paid"
  /\ payer' = "charged"
  /\ UNCHANGED <<payee, book>>

\* The hold is released and the customer has the sats back.
Return ==
  /\ payer = "locked"
  /\ payer' = "returned"
  /\ UNCHANGED <<payee, book>>

\* The sale is booked, once, and only for a merchant who was paid.
Sell ==
  /\ book = "open"
  /\ payee = "paid"
  /\ book' = "sold"
  /\ UNCHANGED <<payer, payee>>

\* The checkout is closed without a sale.
Close ==
  /\ book = "open"
  /\ book' = "closed"
  /\ UNCHANGED <<payer, payee>>

Next == Lock \/ PayMerchant \/ Charge \/ Return \/ Sell \/ Close

Spec == Init /\ [][Next]_vars
=============================================================================
