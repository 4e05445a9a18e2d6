------------------------------ MODULE MCProgress ------------------------------
(***************************************************************************)
(* That money on its way comes to its end, for TLC: a wrapped sale, one    *)
(* whose payments the platform's wallet may refuse, a card's payments and  *)
(* a partner's payouts, in one state space. `which` is chosen once and for *)
(* all; the components it does not name rest in their initial states, so   *)
(* that each one's behaviours are exactly those of its own specification.  *)
(* The variables of a component carry its letter, and the two sales share  *)
(* theirs; its bounds are given where it is instantiated.                  *)
(***************************************************************************)
EXTENDS Naturals

Sales == {"wrap", "refused"}
Components == Sales \cup {"tap", "payout"}

VARIABLES
  which,
  wClock, wHold, wOut, wLate, wStatus, wClaimAge, wReceipts, wEarned, wWorker, wReader,
  wAged, wThrottled, wCloser,
  tCard, tCounter, tK1, tPinFails, tLocked, tCall, tTapOf, tSeen, tReply, tRow, tAge,
  tPay, tLate, tHold, tWrap, tVerdict, tBroken,
  pEarned, pState, pAmount, pBolt11, pMinted, pOld, pPay, pJob, pBroken, pRetaken

Wrap == INSTANCE HoldWrap WITH
  clock <- wClock, hold <- wHold, out <- wOut, late <- wLate, status <- wStatus,
  claimAge <- wClaimAge, receipts <- wReceipts, earned <- wEarned, worker <- wWorker,
  reader <- wReader, aged <- wAged, throttled <- wThrottled, closer <- wCloser,
  Instances <- {"i1"}, Closers <- {"c1"}, Crashes <- FALSE, Refusals <- FALSE,
  LateRequests <- FALSE, HoldTimeouts <- TRUE

Refused == INSTANCE HoldWrap WITH
  clock <- wClock, hold <- wHold, out <- wOut, late <- wLate, status <- wStatus,
  claimAge <- wClaimAge, receipts <- wReceipts, earned <- wEarned, worker <- wWorker,
  reader <- wReader, aged <- wAged, throttled <- wThrottled, closer <- wCloser,
  Instances <- {"i1"}, Closers <- {}, Crashes <- FALSE, Refusals <- TRUE,
  LateRequests <- TRUE, HoldTimeouts <- TRUE

Tap == INSTANCE CardTap WITH
  card <- tCard, counter <- tCounter, k1 <- tK1, pinFails <- tPinFails, locked <- tLocked,
  call <- tCall, tapOf <- tTapOf, seen <- tSeen, reply <- tReply, row <- tRow,
  age <- tAge, pay <- tPay, late <- tLate, hold <- tHold, wrap <- tWrap,
  verdict <- tVerdict, broken <- tBroken,
  Calls <- {"c1", "c2"}, Own <- {"c1"}, MaxTap <- 1, DailyLimit <- 1, PinTries <- 1

Payout == INSTANCE PartnerPayouts WITH
  earned <- pEarned, state <- pState, amount <- pAmount, bolt11 <- pBolt11,
  minted <- pMinted, old <- pOld, pay <- pPay, job <- pJob, broken <- pBroken,
  retaken <- pRetaken, Payouts <- {"p1"}, Jobs <- {"kick", "tick"}, Drivers <- {"tick"},
  MaxEarned <- 1, MaxMint <- 2, MinPayout <- 1

wrapVars == <<wClock, wHold, wOut, wLate, wStatus, wClaimAge, wReceipts,
             wEarned, wWorker, wReader, wAged, wThrottled, wCloser>>
tapVars == <<tCard, tCounter, tK1, tPinFails, tLocked, tCall, tTapOf, tSeen,
            tReply, tRow, tAge, tPay, tLate, tHold, tWrap, tVerdict, tBroken>>
payoutVars == <<pEarned, pState, pAmount, pBolt11, pMinted, pOld, pPay, pJob,
               pBroken, pRetaken>>
all == <<which, wrapVars, tapVars, payoutVars>>

-----------------------------------------------------------------------------
(* The specification *)

ProgressInit ==
  /\ which \in Components
  /\ Wrap!Init /\ Tap!Init /\ Payout!Init

Rest(components, vars) == IF which \in components THEN TRUE ELSE UNCHANGED vars

StepOf(components, action) ==
  /\ which \in components /\ action /\ UNCHANGED which
  /\ Rest(Sales, wrapVars) /\ Rest({"tap"}, tapVars) /\ Rest({"payout"}, payoutVars)

Step(component, action) == StepOf({component}, action)

ProgressNext ==
  \/ Step("wrap", Wrap!Next) \/ Step("refused", Refused!Next)
  \/ Step("tap", Tap!Next) \/ Step("payout", Payout!Next)

\* `which` never changes, so a fairness condition on a step of one component or another is
\* the one of the component it names: these are the FairSpecs of all three.
ProgressFairSpec ==
  /\ ProgressInit /\ [][ProgressNext]_all
  /\ WF_all(\/ StepOf(Sales, Wrap!PaymentResolves) \/ Step("tap", Tap!ReconcileLooks("c1"))
            \/ Step("payout", Payout!Execute("kick") \/ Payout!ReconcilePayout("kick")))
  /\ WF_all(\/ StepOf(Sales, Wrap!Tick) \/ Step("tap", Tap!ReconcileLooks("c2"))
            \/ Step("payout", Payout!Execute("tick") \/ Payout!ReconcilePayout("tick")))
  /\ WF_all(StepOf(Sales, Wrap!ClaimAges) \/ Step("tap", Tap!RowAges("c1")))
  /\ WF_all(StepOf(Sales, Wrap!ReadRow("i1")) \/ Step("tap", Tap!RowAges("c2")))
  /\ WF_all(StepOf(Sales, Wrap!AdvanceWrap("i1")) \/ Step("tap", Tap!SendPay("c1")))
  /\ WF_all(\/ Step("wrap", Wrap!Advancing("i1")) \/ Step("refused", Refused!Advancing("i1"))
            \/ Step("tap", Tap!SendPay("c2")))
  /\ WF_all(Step("tap", Tap!PaymentFails("c1")))
  /\ WF_all(Step("tap", Tap!PaymentFails("c2")))
  /\ SF_all(\/ StepOf(Sales, Wrap!LookHold("i1")) \/ Step("tap", Tap!ReconcileCloses("c1"))
            \/ Step("payout", Payout!ReadsSending("tick")))
  /\ SF_all(\/ StepOf(Sales, Wrap!SettleHold("i1")) \/ Step("tap", Tap!ReconcileWrites("c1"))
            \/ Step("payout", Payout!LookUp("tick")))
  /\ SF_all(\/ StepOf(Sales, Wrap!CancelHold("i1")) \/ Step("tap", Tap!ReconcileWrites("c2"))
            \/ Step("payout", Payout!WriteFound("tick")))

-----------------------------------------------------------------------------
(* Properties *)

\* HoldWrap: a sale the customer has paid into is decided or handed to a person.
PaidHoldIsDecided == Wrap!PaidHoldIsDecided

\* HoldWrap: an old claim is flagged, and a merchant's payment ends in the books.
ForwardEndsInBooks ==
  /\ Wrap!OldClaimIsFlagged
  /\ which = "wrap" /\ wOut = "settled" ~> wStatus \in {"settled", "needs_reconciliation"}

\* CardTap: a pending send reaches a verdict, through restarts and lost replies.
PendingSendIsResolved == Tap!PendingSendIsResolved

\* PartnerPayouts: a payout the wallet has a final record of does not stay in flight.
RecordedPayoutResolves == Payout!RecordedPayoutResolves
=============================================================================
