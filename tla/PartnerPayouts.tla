--------------------------- MODULE PartnerPayouts ---------------------------
(***************************************************************************)
(* Payouts of one partner's revenue share (core/money/partnerPayouts.ts):  *)
(* the request that books the whole balance, the executor that claims,     *)
(* mints an invoice at the partner's address and pays it from the platform *)
(* wallet, and the driver that requeues or reconciles what was interrupted.*)
(*                                                                         *)
(* A job is one call of executePayout or reconcilePayout; those in Drivers *)
(* are the driver's ticks, which alone look at rows they did not execute.  *)
(* Only requestPartnerPayout and the claim are conditional on the row's    *)
(* state; every later update names the row by id alone, as in the code.    *)
(*                                                                         *)
(* Driver ticks may overlap: setInterval starts one every minute, on every *)
(* instance of the server, however long the one before takes.              *)
(*                                                                         *)
(* Left out: setPayoutAddress, the audit rows and the lists, and the 10 s  *)
(* and 2 min ages at which the driver picks rows up.                       *)
(***************************************************************************)
EXTENDS Naturals, FiniteSetsExt

CONSTANTS
  Payouts,    \* rows the partner may request
  Jobs,       \* calls that may run at the same time
  Drivers,    \* those that are driver ticks
  MaxEarned,  \* bound: the partner's earnings stop here
  MaxMint,    \* bound: invoices minted for one payout
  MinPayout   \* MIN_PAYOUT_SATS

VARIABLES
  earned,  \* accrued fee shares
  state,   \* per payout: the row's state
  amount,  \* per payout: amount_sats
  bolt11,  \* per payout: the invoice on the row, 0 for none
  minted,  \* per payout: invoices minted so far
  old,     \* payouts not updated for REQUEUE_NO_INVOICE_MS
  pay,     \* per payout and invoice: the platform wallet's record
  job,     \* per job: what it does, for which payout, with which invoice
  broken,  \* payouts whose update after a settled payment threw
  retaken  \* payouts requeued by a tick that had read them before they went on

rowVars == <<earned, state, amount, bolt11, old>>
vars == <<rowVars, minted, pay, job, broken, retaken>>

-----------------------------------------------------------------------------
(* Types *)

Invoices == 1..MaxMint

Steps == {"claimed", "minted", "saved", "wait", "paid", "refused", "ambiguous",
          "requeue", "lookup", "foundSent", "foundFailed"}

Idle == [at |-> "idle"]

JobType == {Idle} \cup [at : Steps, p : Payouts, inv : 0..MaxMint]

\* Of the amounts NeverOverpaid says more.
TypeOK ==
  /\ earned \in 0..MaxEarned
  /\ state \in [Payouts -> {"none", "requested", "sending", "sent", "failed"}]
  /\ bolt11 \in [Payouts -> 0..MaxMint]
  /\ minted \in [Payouts -> 0..MaxMint]
  /\ old \subseteq Payouts
  /\ pay \in [Payouts -> [Invoices -> {"none", "pending", "settled", "failed"}]]
  /\ job \in [Jobs -> JobType]
  /\ broken \subseteq Payouts
  /\ retaken \subseteq Payouts

Init ==
  /\ earned = 0
  /\ state = [p \in Payouts |-> "none"]
  /\ amount = [p \in Payouts |-> 0]
  /\ bolt11 = [p \in Payouts |-> 0]
  /\ minted = [p \in Payouts |-> 0]
  /\ old = {}
  /\ pay = [p \in Payouts |-> [i \in Invoices |-> "none"]]
  /\ job = [j \in Jobs |-> Idle]
  /\ broken = {}
  /\ retaken = {}

-----------------------------------------------------------------------------
(* Helpers *)

AmountOf(ps) == SumFunctionOnSet(amount, ps)

InFlight == {p \in Payouts : state[p] \in {"requested", "sending"}}

\* balanceWith: earned minus sent, and minus what is in flight.
Unsent == AmountOf({p \in Payouts : state[p] = "sent"})
Reserved == AmountOf(InFlight)
Available == IF Unsent + Reserved <= earned THEN earned - Unsent - Reserved ELSE 0

At(j, step) == job[j].at = step
Goto(j, step) == job' = [job EXCEPT ![j].at = step]
Finish(j) == job' = [job EXCEPT ![j] = Idle]

\* Every update of the row refreshes updated_at.
Touch(p) == old' = old \ {p}

\* UPDATE ... WHERE id = p: whatever the row's state is by now.
SetState(p, s) ==
  /\ state' = [state EXCEPT ![p] = s]
  /\ Touch(p)

-----------------------------------------------------------------------------
(* Earnings and requests *)

\* recordPartnerEarning, once per settled sale.
Earn ==
  /\ earned < MaxEarned
  /\ earned' = earned + 1
  /\ UNCHANGED <<state, amount, bolt11, old, minted, pay, job, broken, retaken>>

\* (mutant) A request that does not look for a pending payout, and books
\* what is earned and not yet sent.
Request_IgnoresPending(p) ==
  /\ state[p] = "none"
  /\ earned >= Unsent + MinPayout
  /\ amount' = [amount EXCEPT ![p] = earned - Unsent]
  /\ SetState(p, "requested")
  /\ UNCHANGED <<earned, bolt11, minted, pay, job, broken, retaken>>

\* (mutant) The state left to the column's default, "queued".
Request_DefaultState(p) ==
  /\ state[p] = "none"
  /\ InFlight = {}
  /\ Available >= MinPayout
  /\ amount' = [amount EXCEPT ![p] = Available]
  /\ SetState(p, "queued")
  /\ UNCHANGED <<earned, bolt11, minted, pay, job, broken, retaken>>

\* requestPartnerPayout under the partner's row lock.
Request(p) ==
  /\ state[p] = "none"
  /\ InFlight = {}
  /\ Available >= MinPayout
  /\ amount' = [amount EXCEPT ![p] = Available]
  /\ SetState(p, "requested")
  /\ UNCHANGED <<earned, bolt11, minted, pay, job, broken, retaken>>

-----------------------------------------------------------------------------
(* executePayout *)

\* (mutant) The claim without its condition on the state.
Claim_Unguarded(j, p) ==
  /\ job[j] = Idle
  /\ state[p] \in {"requested", "sending"}
  /\ SetState(p, "sending")
  /\ job' = [job EXCEPT ![j] = [at |-> "claimed", p |-> p, inv |-> 0]]
  /\ UNCHANGED <<earned, amount, bolt11, minted, pay, broken, retaken>>

\* The kick after the request, or a driver's tick: requested -> sending.
Claim(j, p) ==
  /\ job[j] = Idle
  /\ state[p] = "requested"
  /\ SetState(p, "sending")
  /\ job' = [job EXCEPT ![j] = [at |-> "claimed", p |-> p, inv |-> 0]]
  /\ UNCHANGED <<earned, amount, bolt11, minted, pay, broken, retaken>>

\* The balance again, the float, and an invoice at the partner's address; each
\* of them may refuse.
Prepare(j) ==
  /\ At(j, "claimed")
  /\ LET p == job[j].p IN
     \/ /\ earned + amount[p] >= Unsent + Reserved
        /\ minted[p] < MaxMint
        /\ minted' = [minted EXCEPT ![p] = @ + 1]
        /\ job' = [job EXCEPT ![j] = [at |-> "minted", p |-> p, inv |-> minted[p] + 1]]
     \/ Goto(j, "refused") /\ UNCHANGED minted
  /\ UNCHANGED <<rowVars, pay, broken, retaken>>

SaveInvoice(j) ==
  /\ At(j, "minted")
  /\ bolt11' = [bolt11 EXCEPT ![job[j].p] = job[j].inv]
  /\ Touch(job[j].p)
  /\ Goto(j, "saved")
  /\ UNCHANGED <<earned, state, amount, minted, pay, broken, retaken>>

\* That update is inside the payment's try: if it throws, the payout is failed.
SaveInvoiceBreaks(j) ==
  /\ At(j, "minted")
  /\ Goto(j, "refused")
  /\ UNCHANGED <<rowVars, minted, pay, broken, retaken>>

\* pay_invoice reaches the wallet, is lost, or fails before it is sent.
SendPay(j) ==
  /\ At(j, "saved")
  /\ \/ /\ pay' = [pay EXCEPT ![job[j].p][job[j].inv] = "pending"]
        /\ Goto(j, "wait")
     \/ Goto(j, "wait") /\ UNCHANGED pay
     \/ Goto(j, "refused") /\ UNCHANGED pay
  /\ UNCHANGED <<rowVars, minted, broken, retaken>>

\* (mutant) Any reply taken for success.
PayReplies_AnyIsSuccess(j) ==
  /\ At(j, "wait")
  /\ pay[job[j].p][job[j].inv] # "none"
  /\ Goto(j, "paid")
  /\ UNCHANGED <<rowVars, minted, pay, broken, retaken>>

PayReplies(j) ==
  /\ At(j, "wait")
  /\ \/ pay[job[j].p][job[j].inv] = "settled" /\ Goto(j, "paid")
     \/ pay[job[j].p][job[j].inv] = "failed" /\ Goto(j, "refused")
  /\ UNCHANGED <<rowVars, minted, pay, broken, retaken>>

\* (mutant) A timeout taken for a refusal.
PayTimesOut_Refused(j) ==
  /\ At(j, "wait")
  /\ Goto(j, "refused")
  /\ UNCHANGED <<rowVars, minted, pay, broken, retaken>>

\* isAmbiguousPayError: reconcile instead of failing.
PayTimesOut(j) ==
  /\ At(j, "wait")
  /\ Goto(j, "ambiguous")
  /\ UNCHANGED <<rowVars, minted, pay, broken, retaken>>

MarkSent(j) ==
  /\ At(j, "paid")
  /\ SetState(job[j].p, "sent")
  /\ Finish(j)
  /\ UNCHANGED <<earned, amount, bolt11, minted, pay, broken, retaken>>

\* The update throws inside the payment's own try.
MarkSentBreaks(j) ==
  /\ At(j, "paid")
  /\ broken' = broken \cup {job[j].p}
  /\ Goto(j, "refused")
  /\ UNCHANGED <<rowVars, minted, pay, retaken>>

MarkFailed(j) ==
  /\ At(j, "refused")
  /\ SetState(job[j].p, "failed")
  /\ Finish(j)
  /\ UNCHANGED <<earned, amount, bolt11, minted, pay, broken, retaken>>

-----------------------------------------------------------------------------
(* reconcilePayout *)

\* Read the row: requeue it when no invoice was saved and it is old, look its
\* invoice up when there is one.
ReadSending(j, p) ==
  /\ \/ job[j] = Idle /\ j \in Drivers
     \/ At(j, "ambiguous") /\ job[j].p = p
  /\ state[p] = "sending"
  /\ \/ /\ bolt11[p] = 0 /\ p \in old
        /\ job' = [job EXCEPT ![j] = [at |-> "requeue", p |-> p, inv |-> 0]]
     \/ /\ bolt11[p] # 0
        /\ job' = [job EXCEPT ![j] = [at |-> "lookup", p |-> p, inv |-> bolt11[p]]]
  /\ UNCHANGED <<rowVars, minted, pay, broken, retaken>>

\* The row is no longer 'sending'.
NothingToReconcile(j) ==
  /\ At(j, "ambiguous")
  /\ state[job[j].p] # "sending"
  /\ Finish(j)
  /\ UNCHANGED <<rowVars, minted, pay, broken, retaken>>

\* The payout is where a requeue finds it, or another requeue has left it.
NobodyWentOn(p) ==
  state[p] = "requested" \/ (state[p] = "sending" /\ bolt11[p] = 0 /\ p \in old)

\* By id alone, whatever another tick has made of the row since it was read.
Requeue(j) ==
  /\ At(j, "requeue")
  /\ SetState(job[j].p, "requested")
  /\ retaken' = retaken \cup (IF NobodyWentOn(job[j].p) THEN {} ELSE {job[j].p})
  /\ Finish(j)
  /\ UNCHANGED <<earned, amount, bolt11, minted, pay, broken>>

\* (mutant) A payment the wallet still has pending taken for a failure.
LookUp_PendingIsFailed(j) ==
  /\ At(j, "lookup")
  /\ LET s == pay[job[j].p][job[j].inv] IN
     \/ s = "settled" /\ Goto(j, "foundSent") /\ UNCHANGED old
     \/ s \in {"failed", "pending"} /\ Goto(j, "foundFailed") /\ UNCHANGED old
     \/ s = "none" /\ Finish(j) /\ Touch(job[j].p)
  /\ UNCHANGED <<earned, state, amount, bolt11, minted, pay, broken, retaken>>

\* (mutant) A failure at the wallet taken for "still unknown".
LookUp_IgnoresFailed(j) ==
  /\ At(j, "lookup")
  /\ IF pay[job[j].p][job[j].inv] = "settled"
     THEN Goto(j, "foundSent") /\ UNCHANGED old
     ELSE Finish(j) /\ Touch(job[j].p)
  /\ UNCHANGED <<earned, state, amount, bolt11, minted, pay, broken, retaken>>

\* Only a definitive answer counts; otherwise, and whenever the wallet does
\* not answer, updated_at moves and the row waits for the next sweep.
LookUp(j) ==
  /\ At(j, "lookup")
  /\ LET s == pay[job[j].p][job[j].inv] IN
     \/ s = "settled" /\ Goto(j, "foundSent") /\ UNCHANGED old
     \/ s = "failed" /\ Goto(j, "foundFailed") /\ UNCHANGED old
     \/ s \in {"none", "pending"} /\ Finish(j) /\ Touch(job[j].p)
  /\ UNCHANGED <<earned, state, amount, bolt11, minted, pay, broken, retaken>>

LookUpFails(j) ==
  /\ At(j, "lookup")
  /\ Finish(j)
  /\ Touch(job[j].p)
  /\ UNCHANGED <<earned, state, amount, bolt11, minted, pay, broken, retaken>>

WriteFound(j) ==
  /\ \/ At(j, "foundSent") /\ SetState(job[j].p, "sent")
     \/ At(j, "foundFailed") /\ SetState(job[j].p, "failed")
  /\ Finish(j)
  /\ UNCHANGED <<earned, amount, bolt11, minted, pay, broken, retaken>>

-----------------------------------------------------------------------------
(* Time, the process and the wallet *)

\* Five minutes without an update; only of a row without an invoice does a tick
\* read the age.  An executor that is alive saves its invoice sooner: the float
\* and the two LNURL fetches before it have timeouts.
GetsOld(p) ==
  /\ state[p] = "sending" /\ bolt11[p] = 0 /\ p \notin old
  /\ \A j \in Jobs : job[j].at \in {"claimed", "minted", "refused"} => job[j].p # p
  /\ old' = old \cup {p}
  /\ UNCHANGED <<earned, state, amount, bolt11, minted, pay, job, broken, retaken>>

\* The process dies, or an update before the payment throws past the job.
Crash(j) ==
  /\ job[j] # Idle
  /\ Finish(j)
  /\ UNCHANGED <<rowVars, minted, pay, broken, retaken>>

PaymentEnds(p, i) ==
  /\ pay[p][i] = "pending"
  /\ \E s \in {"settled", "failed"} : pay' = [pay EXCEPT ![p][i] = s]
  /\ UNCHANGED <<rowVars, minted, job, broken, retaken>>

-----------------------------------------------------------------------------
(* The specification *)

Execute(j) ==
  \/ \E p \in Payouts : Claim(j, p)
  \/ Prepare(j) \/ SaveInvoice(j) \/ SaveInvoiceBreaks(j)
  \/ SendPay(j) \/ PayReplies(j) \/ PayTimesOut(j)
  \/ MarkSent(j) \/ MarkSentBreaks(j) \/ MarkFailed(j)

ReconcilePayout(j) ==
  \/ \E p \in Payouts : ReadSending(j, p)
  \/ NothingToReconcile(j) \/ Requeue(j) \/ LookUp(j) \/ LookUpFails(j) \/ WriteFound(j)

Next ==
  \/ Earn
  \/ \E p \in Payouts : Request(p) \/ GetsOld(p)
  \/ \E p \in Payouts, i \in Invoices : PaymentEnds(p, i)
  \/ \E j \in Jobs : Execute(j) \/ ReconcilePayout(j) \/ Crash(j)

Spec == Init /\ [][Next]_vars

ReadsSending(j) == \E p \in Payouts : ReadSending(j, p)

\* The driver ticks once a minute and asks the wallet, which answers again and
\* again; a job that has started goes on unless it dies.
FairSpec ==
  /\ Spec
  /\ \A j \in Drivers :
       /\ SF_vars(ReadsSending(j))
       /\ SF_vars(LookUp(j)) /\ SF_vars(WriteFound(j))
  /\ \A j \in Jobs : WF_vars(Execute(j) \/ ReconcilePayout(j))

-----------------------------------------------------------------------------
(* Properties.  Two lapses of the code are known exceptions: a payout paid *)
(* and booked as failed, because the update threw (broken), and one taken  *)
(* back by a tick that had read it long before (retaken).                  *)

SettledInvoices(p) == {i \in Invoices : pay[p][i] = "settled"}

\* However often it is interrupted, requeued and reconciled, one payout is paid
\* at most once.
PayoutPaidOnce == \A p \in Payouts : Cardinality(SettledInvoices(p)) <= 1

\* So it is, unless a slow tick took it back.
PaidOnceUnlessRetaken ==
  \A p \in Payouts \ retaken : Cardinality(SettledInvoices(p)) <= 1

\* What the partner was paid by each payout, once for each of its invoices that settled.
Received == [p \in Payouts |-> amount[p] * Cardinality(SettledInvoices(p))]

\* No payout is of more than was earned, nor does the partner ever receive more by the
\* payouts that are no exception.
NeverOverpaid ==
  /\ amount \in [Payouts -> 0..earned]
  /\ SumFunctionOnSet(Received, Payouts \ (broken \cup retaken)) <= earned

\* Requests that race one another, and requeued rows, never leave two payouts
\* in flight.
OnePayoutInFlight == Cardinality(InFlight \ retaken) <= 1

\* A payout the partner sees as sent has left the platform wallet.
SentWasPaid == \A p \in Payouts : state[p] = "sent" => SettledInvoices(p) # {}

\* A failed payout frees the balance for the next request: none of its invoices
\* is paid or may still be.
FailedIsNotPaid ==
  \A p \in Payouts \ (broken \cup retaken) :
    state[p] = "failed" => \A i \in Invoices : pay[p][i] \notin {"pending", "settled"}

\* A final row is not taken back by a slower executor or reconciler, nor by a
\* requeue but the one that makes it an exception.
FinalStays ==
  \A p \in Payouts \ (broken \cup retaken') :
    state[p] \in {"sent", "failed"} => state'[p] = state[p]
PayoutIsFinal == [][FinalStays]_vars

\* A payout the wallet has a final record of does not stay in flight.
RecordedPayoutResolves ==
  \A p \in Payouts, i \in Invoices :
    (state[p] = "sending" /\ bolt11[p] = i /\ pay[p][i] \in {"settled", "failed"})
      ~> state[p] \in {"sent", "failed"}

-----------------------------------------------------------------------------
(* Payouts keep the promise of PayCall *)

Holds(p, s) == \E i \in Invoices : pay[p][i] = s

AskedFor(p) == Cardinality({i \in Invoices : pay[p][i] # "none"})

MoneyOf(p) ==
  IF Holds(p, "settled") THEN "paid"
  ELSE IF Holds(p, "pending") THEN "pending"
  ELSE IF Holds(p, "failed") THEN "failed" ELSE "none"

\* A payout that was paid and whose update threw counts as completed here: its row is
\* the known exception.
VerdictOf(p) ==
  IF p \in broken \/ state[p] = "sent" THEN "completed"
  ELSE IF state[p] = "failed" THEN "failed" ELSE "open"

\* What PayCall says of payout p alone.
Promise(p) == INSTANCE PayCall WITH
  Payments <- {p},
  asked <- [q \in {p} |-> AskedFor(q)],
  money <- [q \in {p} |-> MoneyOf(q)],
  mine <- [q \in {p} |-> AskedFor(q) # 0],
  verdict <- [q \in {p} |-> VerdictOf(q)]

PromiseStarts == \A p \in Payouts : Promise(p)!Init

\* A step that changes what is known of p is one of PayCall.
PromiseKept(p) == [Promise(p)!Next]_(Promise(p)!vars)
AllPromisesKept == \A p \in Payouts \ retaken' : PromiseKept(p)

\* However many executors and reconcilers work on one payout, and whatever they are
\* interrupted in, the platform wallet is asked for it once, for one of its invoices, and
\* the row's verdict is true and final, for as long as no slow tick takes it back.
PayoutKeepsPromise == PromiseStarts /\ [][AllPromisesKept]_vars

=============================================================================
