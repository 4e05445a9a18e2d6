------------------------------ MODULE HoldWrap ------------------------------
(***************************************************************************)
(* The hold-wrap engine, core/money/holdWrap.ts: one wrapped sale, its row *)
(* in pending_invoices, the platform wallet's two records about it (the    *)
(* customer's hold invoice and the outgoing payment of the merchant's      *)
(* invoice), and the server processes that drive the row.                  *)
(*                                                                         *)
(* Every NWC call is two steps of the model: the wallet handles it, and    *)
(* the caller goes on with the answer, so that any other process may act   *)
(* in between.  A call may fail on either side of the wallet: the request  *)
(* may be lost, or the effect may happen and the reply be lost.  A row     *)
(* update is one step (one SQL UPDATE ... WHERE wrap_status IN from).      *)
(*                                                                         *)
(* Left out: logging and payment events; legacy rows without hold_preimage *)
(* or merchant_bolt11 (createWrappedInvoice always stores both), with the  *)
(* needs_reconciliation branches only such rows reach.                     *)
(***************************************************************************)
EXTENDS Naturals, FiniteSets

CONSTANTS
  Instances,    \* server processes sharing the database ("runs on autoscale")
  Closers,      \* concurrent cancelWrap calls
  Crashes,      \* TRUE: an instance may crash and restart at any point
  Refusals,     \* TRUE: the platform wallet may refuse a payment (balance,
                \* budget) without keeping a record of the attempt
  LateRequests, \* TRUE: a pay request may reach the wallet after its caller
                \* has given up on it
  HoldTimeouts  \* TRUE: past expiry the node may release an accepted hold

ASSUME SwitchAssumption ==
  {Crashes, Refusals, LateRequests, HoldTimeouts} \subseteq BOOLEAN

VARIABLES
  clock,      \* the row's expires_at: "live", "expired", "over" (grace passed)
  hold,       \* the node's hold invoice: "refunded" if a process had it cancelled,
              \* "released" if the node gave the HTLC back by itself
  out,        \* the node's outgoing payment of the merchant invoice
  late,       \* a pay request is still on its way though nobody waits for it
  status,     \* pending_invoices.wrap_status
  claimAge,   \* age of the 'forwarding' claim against the two time limits
  receipts,   \* receive rows of this sale in transactions
  earned,     \* a partner_earnings row exists (payment_hash is unique there)
  worker,     \* per instance: where its doAdvance stands
  reader,     \* per instance: status of a row selected but not yet advanced
  aged,       \* per instance: the claim was past FORWARD_ABANDON_MS when read
  throttled,  \* per instance: forwardRetryAt holds a recent retry
  closer      \* per cancelWrap call: where it stands

nodeVars == <<hold, out, late>>
rowVars == <<status, claimAge, receipts, earned>>
localVars == <<reader, aged, throttled>>
procVars == <<worker, localVars>>
vars == <<clock, nodeVars, rowVars, procVars, closer>>

-----------------------------------------------------------------------------
(* Types *)

OpenStates == {"created", "accepted", "forwarding", "forwarded"}
Status == OpenStates \cup {"settled", "cancelled", "needs_reconciliation"}
Clock == {"live", "expired", "over"}
Hold == {"open", "accepted", "settled", "refunded", "released", "lapsed"}
Outgoing == {"none", "pending", "settled", "failed"}
ClaimAge == {"fresh", "stale", "old"}
WorkerAt ==
  {"idle", "lookHold", "sawOpen", "sawFailed", "sawAccepted", "sawSettled",
   "claim", "pay", "payWait", "paid", "dup", "dupPaid", "refund", "refunded",
   "recover", "retry", "retryWait", "retryRefund", "giveUp",
   "settle", "settleFailed", "earn"}
CloserAt == {"idle", "lookup", "close", "cleanup"}

TypeOK ==
  /\ clock \in Clock
  /\ hold \in Hold
  /\ out \in Outgoing
  /\ late \in BOOLEAN
  /\ status \in Status
  /\ claimAge \in ClaimAge
  /\ receipts \in Nat
  /\ earned \in BOOLEAN
  /\ worker \in [Instances -> WorkerAt]
  /\ reader \in [Instances -> OpenStates \cup {"none"}]
  /\ aged \in [Instances -> BOOLEAN]
  /\ throttled \in [Instances -> BOOLEAN]
  /\ closer \in [Closers -> CloserAt]

\* createWrappedInvoice minted both invoices and the route stored the row.
Init ==
  /\ clock = "live"
  /\ hold = "open"
  /\ out = "none"
  /\ late = FALSE
  /\ status = "created"
  /\ claimAge = "fresh"
  /\ receipts = 0
  /\ earned = FALSE
  /\ worker = [p \in Instances |-> "idle"]
  /\ reader = [p \in Instances |-> "none"]
  /\ aged = [p \in Instances |-> FALSE]
  /\ throttled = [p \in Instances |-> FALSE]
  /\ closer = [c \in Closers |-> "idle"]

-----------------------------------------------------------------------------
(* The customer, the node and time (outside src/) *)

CustomerPays ==
  /\ hold = "open"
  /\ clock = "live"
  /\ hold' = "accepted"
  /\ UNCHANGED <<clock, out, late, rowVars, procVars, closer>>

HoldLapses ==
  /\ hold = "open"
  /\ clock # "live"
  /\ hold' = "lapsed"
  /\ UNCHANGED <<clock, out, late, rowVars, procVars, closer>>

NodeReleasesHold ==
  /\ HoldTimeouts
  /\ hold = "accepted"
  /\ clock # "live"
  /\ hold' = "released"
  /\ UNCHANGED <<clock, out, late, rowVars, procVars, closer>>

PaymentResolves ==
  /\ out = "pending"
  /\ out' \in {"settled", "failed"}
  /\ UNCHANGED <<clock, hold, late, rowVars, procVars, closer>>

LateRequestArrives ==
  /\ late
  /\ late' = FALSE
  /\ \/ out = "none" /\ out' = "pending"
     \/ out = "none" /\ Refusals /\ UNCHANGED out
     \/ out # "none" /\ UNCHANGED out
  /\ UNCHANGED <<clock, hold, rowVars, procVars, closer>>

Tick ==
  /\ \/ clock = "live" /\ clock' = "expired"
     \/ clock = "expired" /\ clock' = "over"
  /\ UNCHANGED <<nodeVars, rowVars, procVars, closer>>

\* FORWARD_STALE_MS, then FORWARD_ABANDON_MS, after the claim, as long as some
\* process may still look at its age (perhaps in a row it read earlier).
ClaimAges ==
  /\ \/ status = "forwarding"
     \/ \E p \in Instances : reader[p] = "forwarding" \/ worker[p] = "recover"
  /\ \/ claimAge = "fresh" /\ claimAge' = "stale"
     \/ claimAge = "stale" /\ claimAge' = "old"
  /\ UNCHANGED <<clock, nodeVars, status, receipts, earned, procVars, closer>>

-----------------------------------------------------------------------------
(* Helpers *)

Goto(p, at) == worker' = [worker EXCEPT ![p] = at]

\* (mutant) The update without its WHERE on the status.
SetWrapStatus_Unguarded(from, to) == status' = to

\* setWrapStatus: UPDATE ... WHERE wrap_status IN from; FALSE changes nothing.
SetWrapStatus(from, to) ==
  status' = IF status \in from THEN to ELSE status

\* Where doAdvance enters for the status in the row it was given.
EntryOf(s) ==
  CASE s = "created"    -> "lookHold"
    [] s = "accepted"   -> "claim"
    [] s = "forwarding" -> "recover"
    [] s = "forwarded"  -> "settle"

\* Recovery could not resolve the forward: flag it once the claim is old.
Unresolved(p) == IF aged[p] THEN "giveUp" ELSE "idle"

\* cancelHoldInvoice as the node runs it: it only acts on an accepted hold; a
\* pending one answers NOT_FOUND and stays payable.
CancelHoldOnNode ==
  hold' = IF hold = "accepted" THEN "refunded" ELSE hold

\* The frames of a worker's step: all but the node, all but the row, and all
\* but the worker's own position.
NodeStep == UNCHANGED <<clock, late, rowVars, localVars, closer>>
RowStep == UNCHANGED <<clock, nodeVars, localVars, closer>>
LocalStep == UNCHANGED <<clock, nodeVars, rowVars, localVars, closer>>

-----------------------------------------------------------------------------
(* Entering doAdvance *)

\* (mutant) A driver whose list of open states lacks 'forwarding'.
ReadRow_ForgetsForwarding(p) ==
  /\ reader[p] = "none"
  /\ status \in OpenStates \ {"forwarding"}
  /\ reader' = [reader EXCEPT ![p] = status]
  /\ UNCHANGED <<clock, nodeVars, rowVars, worker, aged, throttled, closer>>

\* A route, the driver, the monitor or a notification selects the open row.
ReadRow(p) ==
  /\ reader[p] = "none"
  /\ status \in OpenStates
  /\ reader' = [reader EXCEPT ![p] = status]
  /\ UNCHANGED <<clock, nodeVars, rowVars, worker, aged, throttled, closer>>

\* advanceWrap(row): join this instance's advance, else start one with the
\* row as it was read, however old that is by now.
AdvanceWrap(p) ==
  /\ reader[p] # "none"
  /\ IF worker[p] = "idle" THEN Goto(p, EntryOf(reader[p])) ELSE UNCHANGED worker
  /\ reader' = [reader EXCEPT ![p] = "none"]
  /\ UNCHANGED <<clock, nodeVars, rowVars, aged, throttled, closer>>

Crash(p) ==
  /\ Crashes
  /\ worker[p] # "idle" \/ reader[p] # "none" \/ throttled[p]
  /\ Goto(p, "idle")
  /\ reader' = [reader EXCEPT ![p] = "none"]
  /\ throttled' = [throttled EXCEPT ![p] = FALSE]
  /\ UNCHANGED <<clock, nodeVars, rowVars, aged, closer>>

-----------------------------------------------------------------------------
(* created: has the customer paid the hold? *)

LookHold(p) ==
  /\ worker[p] = "lookHold"
  /\ \/ hold = "accepted" /\ Goto(p, "sawAccepted")
     \/ hold = "settled" /\ Goto(p, "sawSettled")
     \/ hold \in {"refunded", "released", "lapsed"} /\ Goto(p, "sawFailed")
     \/ hold = "open" /\ Goto(p, "sawOpen")
  /\ LocalStep

LookHoldFails(p) ==
  /\ worker[p] = "lookHold"
  /\ Goto(p, "idle")
  /\ LocalStep

\* The loser of this race goes on to the claim, which it then loses too.
MarkAccepted(p) ==
  /\ worker[p] = "sawAccepted"
  /\ SetWrapStatus({"created"}, "accepted")
  /\ Goto(p, "claim")
  /\ UNCHANGED <<claimAge, receipts, earned>>
  /\ RowStep

\* (mutant) The closing status taken from the wire view, not the state machine.
MarkClosed_AsExpired(p) ==
  /\ \/ worker[p] = "sawFailed"
     \/ worker[p] = "sawOpen" /\ clock # "live"
  /\ SetWrapStatus({"created"}, "expired")
  /\ Goto(p, "idle")
  /\ UNCHANGED <<claimAge, receipts, earned>>
  /\ RowStep

MarkClosed(p) ==
  /\ \/ worker[p] = "sawFailed"
     \/ worker[p] = "sawOpen" /\ clock # "live"
  /\ SetWrapStatus({"created"}, "cancelled")
  /\ Goto(p, "idle")
  /\ UNCHANGED <<claimAge, receipts, earned>>
  /\ RowStep

StillUnpaid(p) ==
  /\ worker[p] = "sawOpen"
  /\ clock = "live"
  /\ Goto(p, "idle")
  /\ LocalStep

-----------------------------------------------------------------------------
(* accepted: claim the forward and pay the merchant *)

\* (mutant) Capture the hold first, forward afterwards.
Claim_SettlesFirst(p) ==
  /\ worker[p] = "claim"
  /\ SetWrapStatus({"accepted"}, "forwarding")
  /\ IF status = "accepted"
     THEN Goto(p, "settle") /\ claimAge' = "fresh"
     ELSE Goto(p, "idle") /\ UNCHANGED claimAge
  /\ UNCHANGED <<receipts, earned>>
  /\ RowStep

Claim(p) ==
  /\ worker[p] = "claim"
  /\ SetWrapStatus({"accepted"}, "forwarding")
  /\ IF status = "accepted"
     THEN Goto(p, "pay") /\ claimAge' = "fresh"
     ELSE Goto(p, "idle") /\ UNCHANGED claimAge
  /\ UNCHANGED <<receipts, earned>>
  /\ RowStep

\* payInvoice reaches the wallet.  A hash it already knows is a duplicate,
\* whatever became of the first attempt.
PayInvoice(p) ==
  /\ worker[p] \in {"pay", "retry"}
  /\ \/ /\ out = "none"
        /\ out' = "pending"
        /\ Goto(p, IF worker[p] = "pay" THEN "payWait" ELSE "retryWait")
     \/ /\ out = "none"
        /\ Refusals
        /\ Goto(p, IF worker[p] = "pay" THEN "refund" ELSE "retryRefund")
        /\ UNCHANGED out
     \/ /\ out # "none"
        /\ Goto(p, IF worker[p] = "pay" THEN "dup" ELSE Unresolved(p))
        /\ UNCHANGED out
  /\ UNCHANGED hold
  /\ NodeStep

PayAnswered(p) ==
  /\ worker[p] \in {"payWait", "retryWait"}
  /\ \/ out = "settled" /\ Goto(p, "paid")
     \/ /\ out = "failed"
        /\ Goto(p, IF worker[p] = "payWait" THEN "refund" ELSE "retryRefund")
  /\ LocalStep

\* (mutant) An ambiguous answer taken for success.
PayAmbiguous_AsPaid(p) ==
  /\ worker[p] \in {"pay", "payWait", "retry", "retryWait"}
  /\ Goto(p, "paid")
  /\ late' = (late \/ LateRequests)
  /\ UNCHANGED <<clock, hold, out, rowVars, localVars, closer>>

\* An ambiguous error: the request or its answer did not come through.
PayAmbiguous(p) ==
  /\ worker[p] \in {"pay", "payWait", "retry", "retryWait"}
  /\ Goto(p, IF worker[p] \in {"pay", "payWait"} THEN "idle" ELSE Unresolved(p))
  /\ late' \in {late, late \/ (LateRequests /\ worker[p] \in {"pay", "retry"})}
  /\ UNCHANGED <<clock, hold, out, rowVars, localVars, closer>>

MarkForwarded(p) ==
  /\ worker[p] = "paid"
  /\ SetWrapStatus({"forwarding"}, "forwarded")
  /\ Goto(p, IF status = "forwarding" THEN "settle" ELSE "idle")
  /\ UNCHANGED <<claimAge, receipts, earned>>
  /\ RowStep

\* (mutant) A duplicate that is still in flight taken for a failed one.
ResolveDuplicate_CancelsBlindly(p) ==
  /\ worker[p] = "dup"
  /\ \/ out = "settled" /\ Goto(p, "dupPaid")
     \/ out # "settled" /\ Goto(p, "refund")
  /\ LocalStep

\* "already paid": ask the node's own outgoing record, never cancel blindly.
ResolveDuplicate(p) ==
  /\ worker[p] = "dup"
  /\ \/ out = "settled" /\ Goto(p, "dupPaid")
     \/ out = "failed" /\ Goto(p, "refund")
     \/ Goto(p, "idle")
  /\ LocalStep

\* Here the code does not look at the result of the update.
MarkDuplicateForwarded(p) ==
  /\ worker[p] = "dupPaid"
  /\ SetWrapStatus({"forwarding"}, "forwarded")
  /\ Goto(p, "settle")
  /\ UNCHANGED <<claimAge, receipts, earned>>
  /\ RowStep

-----------------------------------------------------------------------------
(* Refunding the customer *)

\* cancelHoldTolerant: an error that says the hold is gone counts as done.
CancelHold(p) ==
  /\ worker[p] \in {"refund", "retryRefund"}
  /\ CancelHoldOnNode
  /\ Goto(p, "refunded")
  /\ UNCHANGED out
  /\ NodeStep

\* The request, or only its answer, is lost.
CancelHoldFails(p) ==
  /\ worker[p] \in {"refund", "retryRefund"}
  /\ CancelHoldOnNode \/ UNCHANGED hold
  /\ Goto(p, IF worker[p] = "refund" THEN "idle" ELSE Unresolved(p))
  /\ UNCHANGED out
  /\ NodeStep

MarkRefunded(p) ==
  /\ worker[p] = "refunded"
  /\ SetWrapStatus({"forwarding"}, "cancelled")
  /\ Goto(p, "idle")
  /\ UNCHANGED <<claimAge, receipts, earned>>
  /\ RowStep

-----------------------------------------------------------------------------
(* forwarding: recover a claim that crashed or ended ambiguous *)

ClaimTooFresh(p) ==
  /\ worker[p] = "recover"
  /\ claimAge = "fresh"
  /\ Goto(p, "idle")
  /\ LocalStep

\* (mutant) Recovery that takes an attempt in flight for a payment.
RecoverForward_PendingIsPaid(p) ==
  /\ worker[p] = "recover"
  /\ claimAge # "fresh"
  /\ out \in {"pending", "settled"}
  /\ Goto(p, "paid")
  /\ UNCHANGED <<clock, nodeVars, rowVars, localVars, closer>>

\* (mutant) Recovery that refunds when the node has no record of the forward.
RecoverForward_RefundsUnknown(p) ==
  /\ worker[p] = "recover"
  /\ claimAge # "fresh"
  /\ IF out = "settled" THEN Goto(p, "paid") ELSE Goto(p, "refund")
  /\ UNCHANGED <<clock, nodeVars, rowVars, localVars, closer>>

\* (mutant) Recovery that never hands an old claim to a person.
RecoverForward_NeverFlags(p) ==
  /\ worker[p] = "recover"
  /\ claimAge # "fresh"
  /\ \/ out = "settled" /\ Goto(p, "paid")
     \/ out = "failed" /\ Goto(p, "refund")
     \/ Goto(p, "idle")
  /\ UNCHANGED <<clock, nodeVars, rowVars, localVars, closer>>

\* The four answers of platformOutgoingState, and no answer at all.
RecoverForward(p) ==
  /\ worker[p] = "recover"
  /\ claimAge # "fresh"
  /\ aged' = [aged EXCEPT ![p] = (claimAge = "old")]
  /\ \/ out = "settled" /\ Goto(p, "paid") /\ UNCHANGED throttled
     \/ out = "failed" /\ Goto(p, "refund") /\ UNCHANGED throttled
     \/ /\ out = "none"
        /\ ~throttled[p]
        /\ Goto(p, "retry")
        /\ throttled' = [throttled EXCEPT ![p] = TRUE]
     \/ /\ Goto(p, IF claimAge = "old" THEN "giveUp" ELSE "idle")
        /\ UNCHANGED throttled
  /\ UNCHANGED <<clock, nodeVars, rowVars, reader, closer>>

\* FORWARD_RETRY_THROTTLE_MS after the last retry, or the entry was deleted.
ThrottleExpires(p) ==
  /\ throttled[p]
  /\ throttled' = [throttled EXCEPT ![p] = FALSE]
  /\ UNCHANGED <<clock, nodeVars, rowVars, worker, reader, aged, closer>>

GiveUp(p) ==
  /\ worker[p] = "giveUp"
  /\ SetWrapStatus({"forwarding"}, "needs_reconciliation")
  /\ Goto(p, "idle")
  /\ UNCHANGED <<claimAge, receipts, earned>>
  /\ RowStep

-----------------------------------------------------------------------------
(* forwarded: capture the hold and book the sale *)

\* isAlreadySettledError: a released hold may answer in words ("wrong invoice
\* state") that read as settled.
SettleHold(p) ==
  /\ worker[p] = "settle"
  /\ hold' = IF hold = "accepted" THEN "settled" ELSE hold
  /\ Goto(p, "sawSettled")
  /\ UNCHANGED out
  /\ NodeStep

SettleHoldFails(p) ==
  /\ worker[p] = "settle"
  /\ hold' \in {hold, IF hold = "accepted" THEN "settled" ELSE hold}
  /\ Goto(p, "settleFailed")
  /\ UNCHANGED out
  /\ NodeStep

\* Retry on the next pass, unless the hold is past expiry and grace.
AfterSettleFailed(p) ==
  /\ worker[p] = "settleFailed"
  /\ IF clock = "over"
     THEN SetWrapStatus({"forwarded"}, "needs_reconciliation")
     ELSE UNCHANGED status
  /\ Goto(p, "idle")
  /\ UNCHANGED <<claimAge, receipts, earned>>
  /\ RowStep

\* (mutant) The settling update without its list of states: any row, again.
FinalizeSettled_AnyRow(p) ==
  /\ worker[p] = "sawSettled"
  /\ status' = "settled"
  /\ receipts' = receipts + 1
  /\ Goto(p, "earn")
  /\ UNCHANGED <<claimAge, earned>>
  /\ RowStep

\* (mutant) The settling update only looks for 'forwarded' rows.
FinalizeSettled_OnlyForwarded(p) ==
  /\ worker[p] = "sawSettled"
  /\ status' = IF status = "forwarded" THEN "settled" ELSE status
  /\ receipts' = IF status = "forwarded" THEN receipts + 1 ELSE receipts
  /\ Goto(p, "earn")
  /\ UNCHANGED <<claimAge, earned>>
  /\ RowStep

\* finalizeSettled: the row and the merchant's receipt in one transaction.
FinalizeSettled(p) ==
  /\ worker[p] = "sawSettled"
  /\ LET marked == status \in OpenStates \cup {"needs_reconciliation"} IN
       /\ status' = IF marked THEN "settled" ELSE status
       /\ receipts' = IF marked THEN receipts + 1 ELSE receipts
  /\ Goto(p, "earn")
  /\ UNCHANGED <<claimAge, earned>>
  /\ RowStep

\* recordPartnerEarning runs after the commit, marked or not; it never throws
\* (a failed insert is only logged).
RecordPartnerEarning(p) ==
  /\ worker[p] = "earn"
  /\ earned' \in {earned, TRUE}
  /\ Goto(p, "idle")
  /\ UNCHANGED <<status, claimAge, receipts>>
  /\ RowStep

-----------------------------------------------------------------------------
(* cancelWrap: the terminal's Cancel, the driver's abandoned and expired     *)
(* checkouts, the stalled card payment, the admin's cancel-hold              *)

GotoCloser(c, at) == closer' = [closer EXCEPT ![c] = at]

StartCancelWrap(c) ==
  /\ closer[c] = "idle"
  /\ status = "created"
  /\ GotoCloser(c, "lookup")
  /\ UNCHANGED <<clock, nodeVars, rowVars, procVars>>

\* The wallet shows the payment: advance the (created) row instead.
CancelBecomesAdvance(c) ==
  /\ closer[c] = "lookup"
  /\ hold \in {"accepted", "settled"}
  /\ \E p \in Instances :
       IF worker[p] = "idle" THEN Goto(p, "lookHold") ELSE UNCHANGED worker
  /\ GotoCloser(c, "idle")
  /\ UNCHANGED <<clock, nodeVars, rowVars, localVars>>

CancelSeesUnpaid(c) ==
  /\ closer[c] = "lookup"
  /\ hold \notin {"accepted", "settled"}
  /\ GotoCloser(c, "close")
  /\ UNCHANGED <<clock, nodeVars, rowVars, procVars>>

CancelLookupFails(c) ==
  /\ closer[c] = "lookup"
  /\ GotoCloser(c, "idle")
  /\ UNCHANGED <<clock, nodeVars, rowVars, procVars>>

CloseCheckout(c) ==
  /\ closer[c] = "close"
  /\ SetWrapStatus({"created"}, "cancelled")
  /\ GotoCloser(c, IF status = "created" THEN "cleanup" ELSE "idle")
  /\ UNCHANGED <<clock, nodeVars, claimAge, receipts, earned, procVars>>

\* Fire and forget: the answer is not looked at, the request may be lost.
CleanupHold(c) ==
  /\ closer[c] = "cleanup"
  /\ CancelHoldOnNode \/ UNCHANGED hold
  /\ GotoCloser(c, "idle")
  /\ UNCHANGED <<clock, out, late, rowVars, procVars>>

CrashCloser(c) ==
  /\ Crashes
  /\ closer[c] # "idle"
  /\ GotoCloser(c, "idle")
  /\ UNCHANGED <<clock, nodeVars, rowVars, procVars>>

-----------------------------------------------------------------------------
(* The specification *)

World ==
  \/ CustomerPays \/ HoldLapses \/ NodeReleasesHold
  \/ PaymentResolves \/ LateRequestArrives
  \/ Tick \/ ClaimAges

\* One step of a doAdvance that is under way.
Advancing(p) ==
  \/ LookHold(p) \/ LookHoldFails(p)
  \/ MarkAccepted(p) \/ MarkClosed(p) \/ StillUnpaid(p)
  \/ Claim(p) \/ PayInvoice(p) \/ PayAnswered(p) \/ PayAmbiguous(p)
  \/ MarkForwarded(p) \/ ResolveDuplicate(p) \/ MarkDuplicateForwarded(p)
  \/ CancelHold(p) \/ CancelHoldFails(p) \/ MarkRefunded(p)
  \/ ClaimTooFresh(p) \/ RecoverForward(p) \/ GiveUp(p)
  \/ SettleHold(p) \/ SettleHoldFails(p) \/ AfterSettleFailed(p)
  \/ FinalizeSettled(p) \/ RecordPartnerEarning(p)

Worker(p) ==
  \/ ReadRow(p) \/ AdvanceWrap(p) \/ Crash(p) \/ ThrottleExpires(p)
  \/ Advancing(p)

Closer(c) ==
  \/ StartCancelWrap(c) \/ CancelBecomesAdvance(c) \/ CancelSeesUnpaid(c)
  \/ CancelLookupFails(c) \/ CloseCheckout(c) \/ CleanupHold(c)
  \/ CrashCloser(c)

Next ==
  \/ World
  \/ \E p \in Instances : Worker(p)
  \/ \E c \in Closers : Closer(c)

Spec == Init /\ [][Next]_vars

\* The driver's sweep keeps reading open rows, a process finishes what it
\* started (the runs that use this exclude crashes), payments resolve and
\* clocks move.  The relay may drop any number of calls, but a lookup, a settle
\* or a cancel that is repeated for ever is answered some time.
FairSpec ==
  /\ Spec
  /\ WF_vars(PaymentResolves) /\ WF_vars(Tick) /\ WF_vars(ClaimAges)
  /\ \A p \in Instances :
       /\ WF_vars(ReadRow(p)) /\ WF_vars(AdvanceWrap(p)) /\ WF_vars(Advancing(p))
       /\ SF_vars(LookHold(p)) /\ SF_vars(SettleHold(p)) /\ SF_vars(CancelHold(p))

-----------------------------------------------------------------------------
(* Properties *)

\* The merchant is always paid before the hold is settled, so the customer
\* never pays for nothing (holdWrap.ts header, point 5).
MerchantPaidFirst == hold = "settled" => out = "settled"

\* A sale that is shown as paid (wrapStatusView in core/server.ts reports both
\* statuses so) is one whose merchant was paid, whichever process, crash or
\* recovery path moved the row there.
PaidViewIsTrue == status \in {"forwarded", "settled"} => out = "settled"

\* The merchant's receipt exists exactly when the row is settled, and once:
\* finalizeSettled may run in several processes and again after a crash.
SaleBookedOnce == receipts = IF status = "settled" THEN 1 ELSE 0

\* A partner earns only on a sale whose merchant was paid.
EarningNeedsPaidMerchant == earned => out = "settled"

\* What the row, the ledger and the partner's share say of a sale is what became of its
\* money, whichever of the three branches, processes and restarts wrote them.
BooksAreTrue == PaidViewIsTrue /\ SaleBookedOnce /\ EarningNeedsPaidMerchant

Rank(s) ==
  CASE s = "created" -> 0 [] s = "accepted" -> 1 [] s = "forwarding" -> 2
    [] s = "forwarded" -> 3 [] s = "needs_reconciliation" -> 4
    [] s \in {"settled", "cancelled"} -> 5

\* The row only moves forward and a closed row is never reopened, however old
\* the row a process still holds.
StatusMovesForward ==
  [][status' # status => Rank(status) < Rank(status')]_vars

\* The server refunds the customer or pays the merchant, never both: the loss the
\* header calls the platform's only risk.  (What the node does by itself with a
\* hold that was not captured in time, no process can prevent.)
RefundedSaleNotForwarded == ~(hold = "refunded" /\ out = "settled")

\* A cancelled row is the end of the sale: its merchant was not and will not
\* be paid, not even by a request that is still on its way.
CancelledSaleNotForwarded ==
  status = "cancelled" => out \in {"none", "failed"} /\ ~(late /\ out = "none")

\* A partner earns only on a sale the books hold as settled.
EarningNeedsSettledRow == earned => status = "settled"

\* All three: no sale is both reversed and forwarded.
ReversedSaleNotForwarded ==
  RefundedSaleNotForwarded /\ CancelledSaleNotForwarded /\ EarningNeedsSettledRow

\* A checkout is closed only while no customer HTLC is locked (cancelWrap's
\* comment: only a `created` wrap, "no customer HTLC accepted").
ClosedOnlyUnpaid ==
  [][status = "created" /\ status' = "cancelled" => hold # "accepted"]_vars

\* A sale the customer has paid into does not hang: its row is settled,
\* cancelled or handed to a person.
PaidHoldIsDecided ==
  hold = "accepted" ~> status \in {"settled", "cancelled", "needs_reconciliation"}

\* "After this long stuck in forwarding with no resolution, flag for manual
\* review" (the comment on FORWARD_ABANDON_MS).
OldClaimIsFlagged ==
  status = "forwarding" /\ claimAge = "old" ~> status # "forwarding"

\* A merchant's payment ends in the books, or is flagged.
ForwardEndsInBooks ==
  out = "settled" ~> status \in {"settled", "needs_reconciliation"}

-----------------------------------------------------------------------------
(* The engine keeps the promise of WrapSale *)

Sale == INSTANCE WrapSale WITH
  payer <- CASE hold \in {"open", "lapsed"} -> "free"
             [] hold = "accepted" -> "locked"
             [] hold = "settled" -> "charged"
             [] hold \in {"refunded", "released"} -> "returned",
  payee <- IF out = "settled" THEN "paid" ELSE "unpaid",
  book <- CASE status = "settled" -> "sold"
            [] status = "cancelled" -> "closed"
            [] OTHER -> "open"

\* Every step of the engine is a step of the promise or invisible to it.
KeepsPromise == Sale!Spec
=============================================================================
