---------------------------- MODULE AdminPayments ----------------------------
(***************************************************************************)
(* The operator's tools on a wrapped sale and on the row of the card that  *)
(* is paying it: advance, cancel-hold and remediate-tx of                  *)
(* core/admin/adminPayments.ts, beside the driver, the reconciler of       *)
(* pending sends and a customer who may pay the same hold invoice by its   *)
(* QR code.                                                                *)
(*                                                                         *)
(* HoldWrap has the sale and CardTap the card's payment in full; here each *)
(* is only what the tools can tell apart.  A tool reads, asks the node and *)
(* writes in separate steps, and two operators may use it at once.         *)
(***************************************************************************)
CONSTANT Operators   \* bound: tools in use at once

VARIABLES
  wrap,      \* wrapStatus: "created", "open" (accepted to forwarded), "settled", "cancelled"
  hold,      \* the hold invoice on the node
  payer,     \* whose money the hold has or had: nobody's, the card's, another wallet's
  request,   \* the card's payment request
  row,       \* the status of the card's transaction
  tool       \* per operator: the tool, how far it is, and what it has read

vars == <<wrap, hold, payer, request, row, tool>>
world == <<wrap, hold, payer, request>>

At == {"idle", "cancel: look", "cancel: close", "cancel: rows", "prove", "finalize", "flip"}

TypeOK ==
  /\ wrap \in {"created", "open", "settled", "cancelled"}
  /\ hold \in {"open", "accepted", "settled", "refunded"}
  /\ payer \in {"nobody", "card", "other"} /\ request \in {"travels", "lost"}
  /\ row \in {"pending", "completed", "failed"}
  /\ tool \in [Operators -> [at: At, seen: {"none", "pending", "failed"}, force: BOOLEAN]]

Resting == [at |-> "idle", seen |-> "none", force |-> FALSE]

Init ==
  /\ wrap = "created" /\ hold = "open" /\ payer = "nobody" /\ request = "travels"
  /\ row = "pending" /\ tool = [o \in Operators |-> Resting]

Goes(o, at) == tool' = [tool EXCEPT ![o].at = at]
Leaves(o) == tool' = [tool EXCEPT ![o] = Resting]
Locked == hold \in {"accepted", "settled"}

-----------------------------------------------------------------------------
(* The customer, the driver and the reconciler *)

\* An open hold takes a payment, also after its sale was closed: the node's cancel
\* only acts on an accepted hold.
PayerPays(who) ==
  /\ hold = "open" /\ (who = "card" => request = "travels")
  /\ hold' = "accepted" /\ payer' = who
  /\ UNCHANGED <<wrap, request, row, tool>>

RequestLost ==
  /\ request = "travels" /\ payer # "card" /\ request' = "lost"
  /\ UNCHANGED <<wrap, hold, payer, row, tool>>

\* advanceWrap: a created sale whose hold is locked is forwarded, then captured, or
\* refunded when the forward fails; a closed sale's hold runs out.
Advanced ==
  \/ wrap = "created" /\ Locked /\ wrap' = "open" /\ UNCHANGED hold
  \/ wrap = "open" /\ hold = "accepted" /\ wrap' = "settled" /\ hold' = "settled"
  \/ wrap = "open" /\ hold = "accepted" /\ wrap' = "cancelled" /\ hold' = "refunded"

Driver == Advanced /\ UNCHANGED <<payer, request, row, tool>>

HoldRunsOut ==
  /\ wrap = "cancelled" /\ hold = "accepted" /\ hold' = "refunded"
  /\ UNCHANGED <<wrap, payer, request, row, tool>>

\* checkOwnSettlementProof: the sale's row, else the hold on the node.
OwnProof == wrap \in {"open", "settled"} \/ Locked

\* The reconciler's three answers: the proof, the card's wallet, or nothing.
Reconciles ==
  /\ row = "pending"
  /\ \/ OwnProof /\ row' = "completed"
     \/ request = "lost" /\ row' = "failed"
  /\ UNCHANGED <<world, tool>>

-----------------------------------------------------------------------------
(* cancel-hold *)

AskCancel(o) ==
  /\ tool[o].at = "idle" /\ wrap = "created" /\ Goes(o, "cancel: look")
  /\ UNCHANGED <<world, row>>

\* cancelWrap's look at the node: locked, it advances instead; not seen, it leaves it.
CancelLooks(o) ==
  /\ tool[o].at = "cancel: look"
  /\ \/ ~Locked /\ Goes(o, "cancel: close") /\ UNCHANGED world
     \/ Locked /\ Leaves(o) /\ (Advanced \/ UNCHANGED <<wrap, hold>>) /\ UNCHANGED <<payer, request>>
     \/ Leaves(o) /\ UNCHANGED world
  /\ UNCHANGED row

\* (mutant) The rows are failed whatever cancelWrap came to.
RowsFollow_Always(status) == TRUE
\* Only a cancelled sale fails its payers' rows.
RowsFollow(status) == status = "cancelled"

\* The conditional update, then the node's cancel, which nobody waits for.
CancelCloses(o) ==
  LET after == IF wrap = "created" THEN "cancelled" ELSE wrap IN
  /\ tool[o].at = "cancel: close" /\ wrap' = after
  /\ \/ UNCHANGED hold
     \/ wrap = "created" /\ hold = "accepted" /\ hold' = "refunded"
  /\ IF RowsFollow(after) THEN Goes(o, "cancel: rows") ELSE Leaves(o)
  /\ UNCHANGED <<payer, request, row>>

CancelFailsRows(o) ==
  /\ tool[o].at = "cancel: rows" /\ Leaves(o)
  /\ row' = IF row = "pending" THEN "failed" ELSE row
  /\ UNCHANGED world

-----------------------------------------------------------------------------
(* advance and remediate-tx *)

\* Any sale that is not finished can be advanced by hand.
AdminAdvances(o) ==
  /\ tool[o].at = "idle" /\ Advanced /\ UNCHANGED <<payer, request, row, tool>>

\* With force only when the operator knows from elsewhere that the card has paid.
AskRemediate(o) ==
  /\ tool[o].at = "idle" /\ row # "completed"
  /\ \E force \in {FALSE, payer = "card" /\ Locked} :
       tool' = [tool EXCEPT ![o] = [at |-> "prove", seen |-> row, force |-> force]]
  /\ UNCHANGED <<world, row>>

\* (mutant) A proof that cannot be had does not stop it.
Proven_NoMatter == TRUE
\* The card's wallet shows the payment, or this server's records do.
Proven == OwnProof \/ (payer = "card" /\ Locked)

Proves(o) ==
  /\ tool[o].at = "prove"
  /\ \/ (Proven \/ tool[o].force) /\ Goes(o, "finalize")
     \/ ~tool[o].force /\ Leaves(o)
  /\ UNCHANGED <<world, row>>

\* finalizePendingSend: a pending row is completed.
Finalizes(o) ==
  /\ tool[o].at = "finalize" /\ row' = IF row = "pending" THEN "completed" ELSE row
  /\ IF tool[o].seen = "failed" THEN Goes(o, "flip") ELSE Leaves(o)
  /\ UNCHANGED world

\* A row that was failed when the tool read it, and still is, is completed too.
Flips(o) ==
  /\ tool[o].at = "flip" /\ Leaves(o)
  /\ row' = IF row = "failed" THEN "completed" ELSE row
  /\ UNCHANGED world

-----------------------------------------------------------------------------
Next ==
  \/ \E who \in {"card", "other"} : PayerPays(who)
  \/ RequestLost \/ Driver \/ HoldRunsOut \/ Reconciles
  \/ \E o \in Operators :
       \/ AskCancel(o) \/ CancelLooks(o) \/ CancelCloses(o) \/ CancelFailsRows(o)
       \/ AdminAdvances(o) \/ AskRemediate(o) \/ Proves(o) \/ Finalizes(o) \/ Flips(o)

Spec == Init /\ [][Next]_vars

-----------------------------------------------------------------------------
(* Properties *)

\* "The hold was cancelled and no payment arrived": the row of a card whose payment was
\* captured is not failed, whoever cancelled, advanced or reconciled meanwhile.
CapturedNotFailed == hold = "settled" /\ payer = "card" => row # "failed"

\* A row is completed, by the reconciler or an operator, only when the invoice took a payment.
CompletedInvoiceWasPaid == row = "completed" => payer # "nobody"

\* "Authoritative proof of success": a completed row's card has paid.
CompletedCardWasCharged == row = "completed" => payer = "card"
=============================================================================
