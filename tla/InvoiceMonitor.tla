--------------------------- MODULE InvoiceMonitor ---------------------------
(***************************************************************************)
(* How a direct invoice is found to be paid (receive side of               *)
(* core/money/invoiceMonitor.ts): the fallback sweep walks all unpaid rows *)
(* page by page with a cursor, an account's reads check its newest rows,   *)
(* a wallet's paid callback (core/money/clinkWebhook.ts) names one, and so *)
(* does a send of this server that paid it.  All of them settle through    *)
(* the same conditional update.                                            *)
(*                                                                         *)
(* Invoices are numbered in the order of (created_at, id).  Each one has a *)
(* lane: "nwc" rows are looked up at the merchant's wallet, "capped" rows  *)
(* (LNURL verify and Blink) at their provider, a few per batch, "hook"     *)
(* rows wait for their callback, and "wrap" rows belong to the wrap driver *)
(* but take up room in a page all the same.  Left out: expired rows, which *)
(* stay in the window for a day, the page of list_transactions, a sweep    *)
(* that is still running when cron starts the next, and rows with a        *)
(* cardOrderId, which settle without a receipt: nothing in the repository  *)
(* writes that column.                                                     *)
(***************************************************************************)
EXTENDS Naturals, FiniteSets, FiniteSetsExt

CONSTANTS
  Lanes,    \* the lane of each invoice, a sequence
  Hooks,    \* callback requests under way at once
  Page,     \* SWEEP_MAX_INVOICES
  Newest,   \* RECONCILE_MAX_INVOICES
  Cap,      \* LNURL_CHECK_CAP, BLINK_CHECK_CAP
  MaxBoots  \* bound: restarts of the process

Invoices == DOMAIN Lanes

VARIABLES
  rows,      \* pending_invoices holds invoices 1..rows
  received,  \* those the merchant's wallet has been paid
  receipts,  \* per invoice: receive rows in transactions; paid_at is set with one
  cursor,    \* sweepCursor, 0 for null
  batch,     \* per reader (checkInvoiceBatch): the rows it has still to check
  found,     \* per caller: the invoice it has seen paid and not yet settled
  boots      \* restarts so far

vars == <<rows, received, receipts, cursor, batch, found, boots>>

-----------------------------------------------------------------------------
(* Types *)

Readers == {"sweep", "account"}
Callers == Readers \cup Hooks \cup {"send"}

TypeOK ==
  /\ rows \in Nat /\ 1..rows \subseteq Invoices
  /\ received \subseteq 1..rows
  /\ receipts \in [Invoices -> Nat]
  /\ cursor \in {0} \cup 1..rows
  /\ batch \in [Readers -> SUBSET (1..rows)]
  /\ found \in [Callers -> {0} \cup received]
  /\ boots \in 0..MaxBoots

Init ==
  /\ rows = 0
  /\ received = {}
  /\ receipts = [i \in Invoices |-> 0]
  /\ cursor = 0
  /\ batch = [k \in Readers |-> {}]
  /\ found = [k \in Callers |-> 0]
  /\ boots = 0

-----------------------------------------------------------------------------
(* Helpers *)

Unpaid == {i \in 1..rows : receipts[i] = 0}

First(n, S) == {i \in S : Cardinality({j \in S : j < i}) < n}
Last(n, S) == {i \in S : Cardinality({j \in S : j > i}) < n}

\* What checkInvoiceBatch looks at: of the capped lane only the first rows.
Checked(S) ==
  {i \in S : Lanes[i] = "nwc"} \cup First(Cap, {i \in S : Lanes[i] = "capped"})

Resting(k) == batch[k] = {} /\ found[k] = 0

-----------------------------------------------------------------------------
(* runFallbackSweep *)

\* (mutant) Every sweep starts with the oldest rows.
Pages_NoCursor == {First(Page, Unpaid)}

\* The page after the cursor, whose milliseconds may come before the row it
\* was taken from; from the start if that page is empty.
Pages ==
  LET after(S) == IF S = {} THEN First(Page, Unpaid) ELSE First(Page, S)
  IN {after({i \in Unpaid : i > cursor}), after({i \in Unpaid : i >= cursor})}

\* The cursor stands on the last row of a full page and goes back to the start
\* when the window is exhausted.
CursorAfter(page) == IF Cardinality(page) = Page THEN Max(page) ELSE 0

StartSweep ==
  /\ Resting("sweep") /\ Unpaid # {}
  /\ \E page \in Pages :
       /\ cursor' = CursorAfter(page)
       /\ batch' = [batch EXCEPT !["sweep"] = Checked(page)]
  /\ UNCHANGED <<rows, received, receipts, found, boots>>

\* doReconcile, while the account's history or balance is read.
StartReconcile ==
  /\ Resting("account") /\ Unpaid # {}
  /\ batch' = [batch EXCEPT !["account"] = Checked(Last(Newest, Unpaid))]
  /\ UNCHANGED <<rows, received, receipts, cursor, found, boots>>

-----------------------------------------------------------------------------
(* checkInvoiceBatch and settleInvoice *)

\* The next row is looked up.
CheckNext(k) ==
  /\ found[k] = 0 /\ batch[k] # {}
  /\ LET i == Min(batch[k])
     IN /\ found' = [found EXCEPT ![k] = IF i \in received THEN i ELSE 0]
        /\ batch' = [batch EXCEPT ![k] = @ \ {i}]
  /\ UNCHANGED <<rows, received, receipts, cursor, boots>>

\* The lookup fails.  A cooling relay cuts the batch short, which is this for
\* every row that is left.
CheckFails(k) ==
  /\ found[k] = 0 /\ batch[k] # {}
  /\ batch' = [batch EXCEPT ![k] = @ \ {Min(@)}]
  /\ UNCHANGED <<rows, received, receipts, cursor, found, boots>>

\* (mutant) The row is updated by id alone.
Settle_Unconditional(k) ==
  /\ found[k] # 0
  /\ receipts' = [receipts EXCEPT ![found[k]] = @ + 1]
  /\ found' = [found EXCEPT ![k] = 0]
  /\ UNCHANGED <<rows, received, cursor, batch, boots>>

\* settleInvoice: paid_at and the receipt in one transaction, while paid_at is
\* null.  A wrapped row is left to the driver (settleInvoiceByPaymentHash).
Settle(k) ==
  /\ found[k] # 0
  /\ LET i == found[k]
     IN receipts' = IF receipts[i] = 0 /\ Lanes[i] # "wrap"
                      THEN [receipts EXCEPT ![i] = 1] ELSE receipts
  /\ found' = [found EXCEPT ![k] = 0]
  /\ UNCHANGED <<rows, received, cursor, batch, boots>>

\* The update throws.
SettleFails(k) ==
  /\ found[k] # 0
  /\ found' = [found EXCEPT ![k] = 0]
  /\ UNCHANGED <<rows, received, receipts, cursor, batch, boots>>

\* processClinkWebhook: a paid callback, which may be lost and which the
\* wallet's startup recovery may repeat, so any number of them.  A row already
\* paid and a wrapped row (whose driver is kicked) it leaves alone.
Callback(h, i) ==
  /\ found[h] = 0
  /\ i \in received \cap Unpaid /\ Lanes[i] = "hook"
  /\ found' = [found EXCEPT ![h] = i]
  /\ UNCHANGED <<rows, received, receipts, cursor, batch, boots>>

\* A card or send of this server has paid the invoice, whatever its lane
\* (settleInvoiceByPaymentHash from card-tap.ts and from reconcilePendingSends).
PaidFromHere(i) ==
  /\ found["send"] = 0
  /\ i \in received \cap Unpaid
  /\ found' = [found EXCEPT !["send"] = i]
  /\ UNCHANGED <<rows, received, receipts, cursor, batch, boots>>

\* Everything but the database is gone.
Restart ==
  /\ boots < MaxBoots
  /\ boots' = boots + 1
  /\ cursor' = 0
  /\ batch' = [k \in Readers |-> {}]
  /\ found' = [k \in Callers |-> 0]
  /\ UNCHANGED <<rows, received, receipts>>

-----------------------------------------------------------------------------
(* Merchants and customers *)

Mint ==
  /\ rows + 1 \in Invoices
  /\ rows' = rows + 1
  /\ UNCHANGED <<received, receipts, cursor, batch, found, boots>>

Receive(i) ==
  /\ i \in 1..rows \ received
  /\ received' = received \cup {i}
  /\ UNCHANGED <<rows, receipts, cursor, batch, found, boots>>

-----------------------------------------------------------------------------
(* The specification *)

Next ==
  \/ Mint \/ StartSweep \/ StartReconcile \/ Restart
  \/ \E i \in Invoices :
       \/ Receive(i) \/ PaidFromHere(i)
       \/ \E h \in Hooks : Callback(h, i)
  \/ \E k \in Readers : CheckNext(k) \/ CheckFails(k)
  \/ \E k \in Callers : Settle(k) \/ SettleFails(k)

Spec == Init /\ [][Next]_vars

\* The sweep looks up a row that was paid.
SweepFinds == CheckNext("sweep") /\ found'["sweep"] # 0

SweepChecks == CheckNext("sweep") \/ CheckFails("sweep")
SweepSettles == Settle("sweep") \/ SettleFails("sweep")

\* Cron runs the sweep every two minutes and its batch goes on.  Nobody has to
\* read an account.  A lookup that is tried again and again succeeds some time,
\* and so does the update after it.
Fairness ==
  /\ WF_vars(StartSweep)
  /\ WF_vars(SweepChecks)
  /\ WF_vars(SweepSettles)
  /\ SF_vars(SweepFinds) /\ SF_vars(Settle("sweep"))

FairSpec == Spec /\ Fairness

-----------------------------------------------------------------------------
(* Properties *)

\* However many callers see an invoice paid, it is booked once, and an invoice
\* nobody paid is not.
BookedOnceIfReceived ==
  \A i \in Invoices : receipts[i] <= (IF i \in received THEN 1 ELSE 0)

\* A wrapped sale is never booked from here.
WrapsLeftAlone == \A i \in Invoices : Lanes[i] = "wrap" => receipts[i] = 0

\* The sweep reaches every invoice it can look up, whatever rows lie before it
\* and whatever is settled or minted between two pages.  The capped lane is
\* left out: the rows past the cap of every page are not reached.
PaidInvoiceIsSettled ==
  \A i \in Invoices :
    Lanes[i] = "nwc" => (i \in received ~> receipts[i] = 1)

=============================================================================
