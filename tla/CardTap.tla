------------------------------ MODULE CardTap ------------------------------
(***************************************************************************)
(* One Bolt Card: its taps and payment callbacks (plugins/card-tap.ts),    *)
(* the owner's switches (plugins/cards.ts), the send row each callback     *)
(* writes and everyone who may finish that row (processExternalPayment and *)
(* resolveAmbiguousPayment in core/money/feeEngine.ts, the reconciler in   *)
(* core/money/invoiceMonitor.ts).                                          *)
(*                                                                         *)
(* Every callback pays an invoice of its own, and every payment counts as  *)
(* one against the daily limit.  The calls in Own pay a hold invoice of    *)
(* this server; the wrap engine is here with what WrapSale promises.  A    *)
(* wallet call is two steps, request and answer; a row update is one.      *)
(*                                                                         *)
(* Left out: the crypto of p and c (a tap is its counter value), the       *)
(* per-tap limit and the 24 h horizon of the reconciler.                   *)
(***************************************************************************)
EXTENDS Naturals, FiniteSets

CONSTANTS
  Calls,        \* callback requests
  Own,          \* those that pay one of this server's hold invoices
  MaxTap,       \* bound: the card's counter stops here
  DailyLimit,   \* payments the card may make in a day
  PinTries      \* wrong PINs that lock the card (three in the code)

ASSUME CardAssumption ==
  /\ Own \subseteq Calls
  /\ MaxTap \in Nat
  /\ DailyLimit \in Nat
  /\ PinTries \in Nat \ {0}

VARIABLES
  card,     \* status: "active", "frozen" or "cancelled"
  counter,  \* the last accepted tap counter
  k1,       \* the tap whose challenge is pending, 0 for none
  pinFails, locked,   \* pin_fail_count and pin_locked_at
  call,     \* per callback: where it stands
  tapOf,    \* per callback: the tap whose k1 it carries
  seen,     \* per callback: the pin_fail_count returned with the k1
  reply,    \* per callback: what the terminal was told
  row,      \* per callback: status of its send row in transactions
  age,      \* per callback: age of that row against the reconciler's limits
  pay,      \* per callback: the paying wallet's record
  late,     \* per callback: its pay request is published, not yet at the wallet
  hold,     \* per own invoice: the hold on the platform node
  wrap,     \* per own invoice: the wrap row
  verdict,  \* per row: what the reconciler found and has not yet written
  broken    \* callbacks that paid and then could not write the row

cardVars == <<card, counter, k1, pinFails, locked>>
callVars == <<call, tapOf, seen, reply>>
worldVars == <<pay, late, hold, wrap>>
vars == <<cardVars, callVars, row, age, worldVars, verdict, broken>>

-----------------------------------------------------------------------------
(* Types *)

CallAt ==
  {"idle", "limits", "pin", "pinBad", "pinOk", "guard", "insert", "send", "wait",
   "paid", "refused", "ambiguous", "resolvedOk", "resolvedBad", "done"}

TypeOK ==
  /\ card \in {"active", "frozen", "cancelled"}
  /\ counter \in 0..MaxTap
  /\ k1 \in 0..MaxTap
  /\ pinFails \in 0..PinTries
  /\ locked \in BOOLEAN
  /\ call \in [Calls -> CallAt]
  /\ tapOf \in [Calls -> 0..MaxTap]
  /\ seen \in [Calls -> 0..PinTries - 1]
  /\ reply \in [Calls -> {"none", "ok", "error"}]
  /\ row \in [Calls -> {"none", "pending", "completed", "failed"}]
  /\ age \in [Calls -> {"young", "stale", "unguarded"}]
  /\ pay \in [Calls -> {"none", "pending", "settled", "failed"}]
  /\ late \in [Calls -> BOOLEAN]
  /\ hold \in [Own -> {"open", "accepted", "settled", "refunded"}]
  /\ wrap \in [Own -> {"created", "open", "settled", "cancelled"}]
  /\ verdict \in [Calls -> {"none", "completed", "failed", "close"}]
  /\ broken \subseteq Calls

Init ==
  /\ card = "active" /\ counter = 0 /\ k1 = 0
  /\ pinFails = 0 /\ locked = FALSE
  /\ call = [c \in Calls |-> "idle"]
  /\ tapOf = [c \in Calls |-> 0]
  /\ seen = [c \in Calls |-> 0]
  /\ reply = [c \in Calls |-> "none"]
  /\ row = [c \in Calls |-> "none"]
  /\ age = [c \in Calls |-> "young"]
  /\ pay = [c \in Calls |-> "none"]
  /\ late = [c \in Calls |-> FALSE]
  /\ hold = [c \in Own |-> "open"]
  /\ wrap = [c \in Own |-> "created"]
  /\ verdict = [c \in Calls |-> "none"]
  /\ broken = {}

-----------------------------------------------------------------------------
(* Helpers *)

Goto(c, at) == call' = [call EXCEPT ![c] = at]

\* The terminal is answered once; later answers find the response sent.
Answer(c, r) == reply' = [reply EXCEPT ![c] = IF @ = "none" THEN r ELSE @]

Reject(c) == Goto(c, "done") /\ Answer(c, "error")

\* A row that is pending, and recent enough for the in-flight guard.
Guarding(c) == row[c] = "pending" /\ age[c] # "unguarded"

Spent == Cardinality({c \in Calls : row[c] = "completed"})

\* (mutant) The update without its WHERE status = 'pending'.
FinalizePendingSend_Unguarded(c, s) == row' = [row EXCEPT ![c] = s]

\* finalizePendingSend: UPDATE ... WHERE status = 'pending'.
FinalizePendingSend(c, s) ==
  row' = IF row[c] = "pending" THEN [row EXCEPT ![c] = s] ELSE row

\* checkOwnSettlementProof: the wrap row, else the hold on the node.
OwnProof(c) ==
  /\ c \in Own
  /\ \/ wrap[c] \in {"open", "settled"}
     \/ hold[c] \in {"accepted", "settled"}

-----------------------------------------------------------------------------
(* The card and its owner *)

\* The owner freezes, thaws, cancels; leaving "active" drops the challenge.
SetStatus(s) ==
  /\ card # "cancelled"
  /\ s \in {"active", "frozen", "cancelled"} \ {card}
  /\ card' = s
  /\ k1' = IF s = "active" THEN k1 ELSE 0
  /\ UNCHANGED <<counter, pinFails, locked, callVars, row, age,
                 worldVars, verdict, broken>>

\* (mutant) The lock lifted, the count kept.
UnlockPin_KeepsCount ==
  /\ locked
  /\ locked' = FALSE
  /\ UNCHANGED <<card, counter, k1, pinFails, callVars, row, age, worldVars, verdict,
                 broken>>

UnlockPin ==
  /\ locked
  /\ locked' = FALSE
  /\ pinFails' = 0
  /\ UNCHANGED <<card, counter, k1, callVars, row, age, worldVars, verdict, broken>>

\* (mutant) The counter compared before the row lock was taken.
Tap_NoReplayCheck(n) ==
  /\ card # "cancelled" /\ ~locked
  /\ counter' = n
  /\ k1' = n
  /\ UNCHANGED <<card, pinFails, locked, callVars, row, age, worldVars, verdict, broken>>

\* A tap passes the SUN check; under the row lock a counter not above the
\* stored one is a replay.  A frozen card may tap; it fails at the callback,
\* which tests status and lock again in its own UPDATE.
Tap(n) ==
  /\ card # "cancelled" /\ ~locked
  /\ n > counter
  /\ counter' = n
  /\ k1' = n
  /\ UNCHANGED <<card, pinFails, locked, callVars, row, age, worldVars, verdict, broken>>

\* K1_TTL_MS after the tap.
ChallengeExpires ==
  /\ k1 # 0
  /\ k1' = 0
  /\ UNCHANGED <<card, counter, pinFails, locked, callVars, row, age,
                 worldVars, verdict, broken>>

-----------------------------------------------------------------------------
(* The callback, up to the send row *)

\* (mutant) The challenge is checked but not cleared.
Callback_KeepsChallenge(c, n) ==
  /\ call[c] = "idle"
  /\ tapOf' = [tapOf EXCEPT ![c] = n]
  /\ IF card = "active" /\ ~locked /\ k1 = n
     THEN /\ seen' = [seen EXCEPT ![c] = pinFails]
          /\ Goto(c, "limits")
          /\ UNCHANGED reply
     ELSE Reject(c) /\ UNCHANGED seen
  /\ UNCHANGED <<cardVars, row, age, worldVars, verdict, broken>>

\* One conditional UPDATE consumes the challenge.
Callback(c, n) ==
  /\ call[c] = "idle"
  /\ tapOf' = [tapOf EXCEPT ![c] = n]
  /\ IF card = "active" /\ ~locked /\ k1 = n
     THEN /\ k1' = 0
          /\ seen' = [seen EXCEPT ![c] = pinFails]
          /\ Goto(c, "limits")
          /\ UNCHANGED reply
     ELSE Reject(c) /\ UNCHANGED <<k1, seen>>
  /\ UNCHANGED <<card, counter, pinFails, locked, row, age, worldVars,
                 verdict, broken>>

CallStep == UNCHANGED <<tapOf, seen, age, worldVars, verdict, broken>>

\* Only completed sends count as spent; a PIN may be asked for.
CheckLimits(c) ==
  /\ call[c] = "limits"
  /\ \/ Spent + 1 > DailyLimit /\ Reject(c)
     \/ /\ Spent + 1 <= DailyLimit
        /\ \E at \in {"pin", "guard"} : Goto(c, at)
        /\ UNCHANGED reply
  /\ UNCHANGED <<cardVars, row>>
  /\ CallStep

\* verifyCardPin takes its time; a missing PIN is answered at once.
VerifyPin(c) ==
  /\ call[c] = "pin"
  /\ \/ Goto(c, "pinOk") /\ UNCHANGED reply
     \/ Goto(c, "pinBad") /\ UNCHANGED reply
     \/ Reject(c)
  /\ UNCHANGED <<cardVars, row>>
  /\ CallStep

\* The new count comes from the count read with the challenge.
CountWrongPin(c) ==
  /\ call[c] = "pinBad"
  /\ pinFails' = seen[c] + 1
  /\ locked' = (locked \/ seen[c] + 1 >= PinTries)
  /\ Reject(c)
  /\ UNCHANGED <<card, counter, k1, row>>
  /\ CallStep

ResetPinFails(c) ==
  /\ call[c] = "pinOk"
  /\ pinFails' = 0
  /\ Goto(c, "guard")
  /\ UNCHANGED <<card, counter, k1, locked, reply, row>>
  /\ CallStep

\* The in-flight guard, and the choice of the paying wallet.
CheckGuard(c) ==
  /\ call[c] = "guard"
  /\ \/ (\E d \in Calls : Guarding(d)) /\ Reject(c)
     \/ (\A d \in Calls : ~Guarding(d)) /\ Goto(c, "insert") /\ UNCHANGED reply
  /\ UNCHANGED <<cardVars, row>>
  /\ CallStep

\* No wallet that can send is assigned to the card.
NoFunding(c) ==
  /\ call[c] = "insert"
  /\ Reject(c)
  /\ UNCHANGED <<cardVars, row>>
  /\ CallStep

InsertPending(c) ==
  /\ call[c] = "insert"
  /\ row' = [row EXCEPT ![c] = "pending"]
  /\ Goto(c, "send")
  /\ UNCHANGED <<cardVars, reply>>
  /\ CallStep

-----------------------------------------------------------------------------
(* processExternalPayment and resolveAmbiguousPayment                      *)

RowStep == UNCHANGED <<cardVars, tapOf, seen, age, late, hold, wrap, verdict>>

\* pay_invoice is published, or fails before the wallet could act on it.
SendPay(c) ==
  /\ call[c] = "send"
  /\ \/ Goto(c, "wait") /\ late' = [late EXCEPT ![c] = TRUE]
     \/ Goto(c, "refused") /\ UNCHANGED late
  /\ UNCHANGED <<cardVars, tapOf, seen, reply, row, age, pay, hold, wrap, verdict,
                 broken>>

PayReplies(c) ==
  /\ call[c] = "wait"
  /\ \/ pay[c] = "settled" /\ Goto(c, "paid")
     \/ pay[c] = "failed" /\ Goto(c, "refused")
  /\ UNCHANGED <<reply, row, pay, broken>>
  /\ RowStep

\* (mutant) A reply timeout taken for a refusal.
PayTimesOut_Refused(c) ==
  /\ call[c] = "wait"
  /\ Goto(c, "refused")
  /\ UNCHANGED <<reply, row, pay, broken>>
  /\ RowStep

\* isAmbiguousPayError: the row stays pending.
PayTimesOut(c) ==
  /\ call[c] = "wait"
  /\ Goto(c, "ambiguous")
  /\ UNCHANGED <<reply, row, pay, broken>>
  /\ RowStep

FinalizePaid(c) ==
  /\ call[c] = "paid"
  /\ FinalizePendingSend(c, "completed")
  /\ Goto(c, "done")
  /\ Answer(c, "ok")
  /\ UNCHANGED <<pay, broken>>
  /\ RowStep

\* The write throws inside the same try as the payment: the catch block takes
\* the database's error for a definitive refusal.
FinalizePaidBreaks(c) ==
  /\ call[c] = "paid"
  /\ broken' = broken \cup {c}
  /\ Goto(c, "refused")
  /\ UNCHANGED <<reply, row, pay>>
  /\ RowStep

\* A write that throws here is only logged: the row stays pending.
FinalizeRefused(c) ==
  /\ call[c] = "refused"
  /\ FinalizePendingSend(c, "failed") \/ UNCHANGED row
  /\ Goto(c, "done")
  /\ Answer(c, "error")
  /\ UNCHANGED <<pay, broken>>
  /\ RowStep

\* (mutant) A lookup that only knows "not settled" from "settled".
ResolveLooks_NotPaidIsFailed(c) ==
  /\ call[c] = "ambiguous"
  /\ Goto(c, IF OwnProof(c) \/ pay[c] = "settled" THEN "resolvedOk" ELSE "resolvedBad")
  /\ UNCHANGED <<reply, row, pay, broken>>
  /\ RowStep

\* One poll: our own record of the invoice, else the paying wallet's record.
\* NOT_FOUND and every error poll again.
ResolveLooks(c) ==
  /\ call[c] = "ambiguous"
  /\ \/ (OwnProof(c) \/ pay[c] = "settled") /\ Goto(c, "resolvedOk")
     \/ pay[c] = "failed" /\ Goto(c, "resolvedBad")
  /\ UNCHANGED <<reply, row, pay, broken>>
  /\ RowStep

Resolved(c) ==
  /\ \/ /\ call[c] = "resolvedOk"
        /\ FinalizePendingSend(c, "completed")
        /\ Answer(c, "ok")
     \/ /\ call[c] = "resolvedBad"
        /\ FinalizePendingSend(c, "failed")
        /\ Answer(c, "error")
  /\ Goto(c, "done")
  /\ UNCHANGED <<pay, broken>>
  /\ RowStep

\* The polling window closes: accepted, the reconciler will finish the row.
ResolveGivesUp(c) ==
  /\ call[c] = "ambiguous"
  /\ Goto(c, "done")
  /\ Answer(c, "ok")
  /\ UNCHANGED <<row, pay, broken>>
  /\ RowStep

\* The terminal's deadline is near: accepted, the work goes on.
BudgetExpires(c) ==
  /\ call[c] \in {"insert", "send", "wait", "paid", "refused", "ambiguous",
                 "resolvedOk", "resolvedBad"}
  /\ reply[c] = "none"
  /\ Answer(c, "ok")
  /\ UNCHANGED <<call, row, pay, broken>>
  /\ RowStep

\* A restart ends every handler and every sweep; rows and wallets remain.
Restart ==
  /\ \E c \in Calls : call[c] \notin {"idle", "done"} \/ verdict[c] # "none"
  /\ call' = [c \in Calls |-> IF call[c] = "idle" THEN "idle" ELSE "done"]
  /\ verdict' = [c \in Calls |-> "none"]
  /\ UNCHANGED <<card, counter, k1, pinFails, locked, tapOf, seen, reply, row, age,
                 worldVars, broken>>

-----------------------------------------------------------------------------
(* The reconciler of pending sends *)

Reconcile(c, v) ==
  /\ verdict' = [verdict EXCEPT ![c] = v]
  /\ UNCHANGED <<cardVars, callVars, row, age, worldVars, broken>>

\* (mutant) NOT_FOUND believed at once.
ReconcileLooks_NoGrace(c) ==
  /\ row[c] = "pending" /\ verdict[c] = "none"
  /\ \/ pay[c] = "settled" /\ Reconcile(c, "completed")
     \/ pay[c] \in {"none", "failed"} /\ Reconcile(c, "failed")

\* (mutant) The own-invoice proof accepts an invoice nobody has paid yet.
ReconcileLooks_OpenHoldIsProof(c) ==
  /\ row[c] = "pending" /\ verdict[c] = "none"
  /\ c \in Own
  /\ Reconcile(c, "completed")

\* The wallet's lookup and its transaction list both lack the payment, and the
\* row is old enough for that to mean something.
CorroborateNotFound(c) == pay[c] = "none" /\ age[c] # "young"

\* (mutant) NOT_FOUND never believed.
ReconcileLooks_KeepsNotFound(c) ==
  /\ row[c] = "pending" /\ verdict[c] = "none"
  /\ \/ pay[c] = "settled" /\ Reconcile(c, "completed")
     \/ pay[c] = "failed" /\ Reconcile(c, "failed")

\* One row of a sweep, in the order of the code: the own-invoice proof, the
\* hold that never received a payment, the paying wallet's record, and the
\* absence of one.  Any source may fail to answer.
ReconcileLooks(c) ==
  /\ row[c] = "pending" /\ verdict[c] = "none"
  /\ \/ OwnProof(c) /\ Reconcile(c, "completed")
     \/ /\ c \in Own /\ age[c] # "young"
        /\ wrap[c] = "created" /\ hold[c] = "open"
        /\ Reconcile(c, "close")
     \/ pay[c] = "settled" /\ Reconcile(c, "completed")
     \/ pay[c] = "failed" /\ Reconcile(c, "failed")
     \/ CorroborateNotFound(c) /\ Reconcile(c, "failed")

\* cancelWrap, after its look at the hold: a created wrap is closed.  Of another it
\* returns the status, and "cancelled" fails the send whoever cancelled it.
ReconcileCloses(c) ==
  /\ verdict[c] = "close"
  /\ LET cancelled == wrap[c] \in {"created", "cancelled"} IN
     /\ wrap' = IF cancelled THEN [wrap EXCEPT ![c] = "cancelled"] ELSE wrap
     /\ verdict' = [verdict EXCEPT ![c] = IF cancelled THEN "failed" ELSE "none"]
  /\ UNCHANGED <<cardVars, callVars, row, age, pay, late, hold, broken>>

ReconcileWrites(c) ==
  /\ verdict[c] \in {"completed", "failed"}
  /\ FinalizePendingSend(c, verdict[c])
  /\ verdict' = [verdict EXCEPT ![c] = "none"]
  /\ UNCHANGED <<cardVars, callVars, age, worldVars, broken>>

\* Two minutes pass (120 s and 3 min are one limit here), then fifteen.  A
\* request is published, and delivered if ever, within the first limit.
RowAges(c) ==
  /\ row[c] = "pending" /\ call[c] # "send"
  /\ \/ age[c] = "young" /\ age' = [age EXCEPT ![c] = "stale"]
     \/ age[c] = "stale" /\ age' = [age EXCEPT ![c] = "unguarded"]
  /\ UNCHANGED <<cardVars, callVars, row, worldVars, verdict, broken>>

-----------------------------------------------------------------------------
(* The paying wallet, the node and the wrap engine *)

WorldStep == UNCHANGED <<cardVars, callVars, row, age, verdict, broken>>

RequestArrives(c) ==
  /\ late[c] /\ age[c] = "young"
  /\ late' = [late EXCEPT ![c] = FALSE]
  /\ pay' = [pay EXCEPT ![c] = "pending"]
  /\ UNCHANGED <<hold, wrap>>
  /\ WorldStep

\* An invoice of somebody else is paid; nobody pays an open hold by itself.
PaymentSettles(c) ==
  /\ c \notin Own /\ pay[c] = "pending"
  /\ pay' = [pay EXCEPT ![c] = "settled"]
  /\ UNCHANGED <<late, hold, wrap>>
  /\ WorldStep

\* No route, no liquidity: the payment ends before any hold was locked.
PaymentFails(c) ==
  /\ pay[c] = "pending"
  /\ c \in Own => hold[c] = "open"
  /\ pay' = [pay EXCEPT ![c] = "failed"]
  /\ UNCHANGED <<late, hold, wrap>>
  /\ WorldStep

\* The node takes the HTLC whatever the wrap row says.
HoldLocks(c) ==
  /\ pay[c] = "pending" /\ hold[c] = "open"
  /\ hold' = [hold EXCEPT ![c] = "accepted"]
  /\ UNCHANGED <<pay, late, wrap>>
  /\ WorldStep

EngineAccepts(c) ==
  /\ wrap[c] = "created" /\ hold[c] = "accepted"
  /\ wrap' = [wrap EXCEPT ![c] = "open"]
  /\ UNCHANGED <<pay, late, hold>>
  /\ WorldStep

\* The hold is captured, then the row is settled.
EngineSettles(c) ==
  /\ wrap[c] = "open"
  /\ \/ /\ hold[c] = "accepted"
        /\ hold' = [hold EXCEPT ![c] = "settled"]
        /\ pay' = [pay EXCEPT ![c] = "settled"]
        /\ UNCHANGED wrap
     \/ /\ hold[c] = "settled"
        /\ wrap' = [wrap EXCEPT ![c] = "settled"]
        /\ UNCHANGED <<pay, hold>>
  /\ UNCHANGED late
  /\ WorldStep

\* The forward failed and the hold is cancelled on the node; or the row was closed
\* with the HTLC already locked, and the node lets it time out.
HoldReleased(c) ==
  /\ hold[c] = "accepted" /\ wrap[c] \in {"open", "cancelled"}
  /\ hold' = [hold EXCEPT ![c] = "refunded"]
  /\ pay' = [pay EXCEPT ![c] = "failed"]
  /\ UNCHANGED <<late, wrap>>
  /\ WorldStep

\* After it, the row of the failed forward.
EngineRefunds(c) ==
  /\ hold[c] = "refunded" /\ wrap[c] = "open"
  /\ wrap' = [wrap EXCEPT ![c] = "cancelled"]
  /\ UNCHANGED <<pay, late, hold>>
  /\ WorldStep

\* The terminal or the driver cancels a checkout seen unpaid.
CheckoutCloses(c) ==
  /\ wrap[c] = "created"
  /\ wrap' = [wrap EXCEPT ![c] = "cancelled"]
  /\ UNCHANGED <<pay, late, hold>>
  /\ WorldStep

-----------------------------------------------------------------------------
(* The specification *)

Owner == UnlockPin \/ \E s \in {"active", "frozen", "cancelled"} : SetStatus(s)

CardCall(c) ==
  \/ \E n \in 1..MaxTap : Callback(c, n)
  \/ CheckLimits(c) \/ VerifyPin(c) \/ CountWrongPin(c) \/ ResetPinFails(c)
  \/ CheckGuard(c) \/ NoFunding(c) \/ InsertPending(c)

Payment(c) ==
  \/ SendPay(c) \/ PayReplies(c) \/ PayTimesOut(c) \/ FinalizePaid(c)
  \/ FinalizePaidBreaks(c) \/ FinalizeRefused(c) \/ ResolveLooks(c)
  \/ Resolved(c) \/ ResolveGivesUp(c) \/ BudgetExpires(c)

Reconciler(c) ==
  ReconcileLooks(c) \/ ReconcileCloses(c) \/ ReconcileWrites(c) \/ RowAges(c)

World(c) == RequestArrives(c) \/ PaymentSettles(c) \/ PaymentFails(c)

Engine(c) ==
  \/ HoldLocks(c) \/ EngineAccepts(c) \/ EngineSettles(c)
  \/ HoldReleased(c) \/ EngineRefunds(c) \/ CheckoutCloses(c)

Next ==
  \/ Owner \/ ChallengeExpires \/ Restart
  \/ \E n \in 1..MaxTap : Tap(n)
  \/ \E c \in Calls : CardCall(c) \/ Payment(c) \/ Reconciler(c) \/ World(c)
  \/ \E c \in Own : Engine(c)

Spec == Init /\ [][Next]_vars

\* The sweep runs every 20 s and every row in it is looked at and written; a
\* restart may interrupt it again and again.  A payment a wallet has started
\* ends, and so does a hold.
FairSpec ==
  /\ Spec
  /\ \A c \in Calls :
       /\ WF_vars(ReconcileLooks(c)) /\ WF_vars(RowAges(c))
       /\ SF_vars(ReconcileCloses(c)) /\ SF_vars(ReconcileWrites(c))
       /\ WF_vars(SendPay(c)) /\ WF_vars(PaymentFails(c))

-----------------------------------------------------------------------------
(* Properties *)

\* One tap of the card starts at most one payment, however its challenge is
\* replayed, delayed or presented twice.
TapPaysOnce ==
  \A n \in 1..MaxTap : Cardinality({c \in Calls : tapOf[c] = n /\ row[c] # "none"}) <= 1

\* A send the books call failed has not cost the customer anything, whoever
\* wrote the row; the callbacks whose own write broke are the known exception
\* (FailedSendNeverCharged).
FailedSendNotCharged ==
  \A c \in Calls \ broken : row[c] = "failed" => pay[c] # "settled"

\* A terminal told ERROR may ask for another tap: nothing was paid.
ErrorNotCharged ==
  \A c \in Calls \ broken : reply[c] = "error" => pay[c] # "settled"

\* A send the books call completed left the customer: settled at the wallet,
\* or at least locked in this server's hold.
CompletedSendWasPaid ==
  \A c \in Calls :
    row[c] = "completed" => IF c \in Own THEN hold[c] # "open" ELSE pay[c] = "settled"

\* The books and the terminal say of every send what happened to the customer's money.
SendVerdictIsTrue == FailedSendNotCharged /\ ErrorNotCharged /\ CompletedSendWasPaid

\* A final row is never rewritten by a slower callback or sweep.
VerdictStays == \A c \in Calls : row[c] \in {"completed", "failed"} => row'[c] = row[c]
SendIsFinal == [][VerdictStays]_vars

\* Every pending send reaches a verdict, through restarts, lost requests and
\* lost replies: the card's guard opens again for a reason.
PendingSendIsResolved ==
  \A c \in Calls : row[c] = "pending" ~> row[c] \in {"completed", "failed"}

\* What invoiceMonitor.ts says of every send: never falsely failed.
FailedSendNeverCharged ==
  \A c \in Calls : row[c] = "failed" => pay[c] # "settled"

\* What card-tap.ts says of the in-flight guard: while one payment of the card
\* is unresolved and recent, no other is made.
OneUnresolvedPerCard == Cardinality({c \in Calls : Guarding(c)}) <= 1

-----------------------------------------------------------------------------
(* The card's sends keep the promise of PayCall *)

\* The calls that pay an invoice of somebody else: one of this server's holds may be
\* completed while the hold is only locked.
Others == Calls \ Own

\* A callback that paid and could not write its row counts as completed here: its row is
\* the known exception.
Booked(c) ==
  IF c \in broken \/ row[c] = "completed" THEN "completed"
  ELSE IF row[c] = "failed" THEN "failed" ELSE "open"

CardPromise == INSTANCE PayCall WITH
  Payments <- Others,
  asked <- [c \in Others |-> IF pay[c] = "none" THEN 0 ELSE 1],
  money <- [c \in Others |-> IF pay[c] = "settled" THEN "paid" ELSE pay[c]],
  mine <- [c \in Others |-> pay[c] # "none"],
  verdict <- [c \in Others |-> Booked(c)]

\* A step on a send's row or money: one of PayCall's, and not on a final row.
CardStep == VerdictStays /\ [CardPromise!Next]_(CardPromise!vars)

\* Between the callback, its resolution and the reconciler, a send's verdict is true and
\* final, and a request that is still on its way when the books say failed is never
\* delivered.  This is CardPromise!Spec, said of the steps that change what it reads; of
\* the sends in Own it is that they are final.
CardKeepsPromise ==
  CardPromise!Init /\ [][UNCHANGED <<pay, row, broken>> \/ CardStep]_vars

=============================================================================
