---------------------------- MODULE CardTapProofs ----------------------------
(***************************************************************************)
(* Theorems about CardTap, for any number of taps and callbacks and any    *)
(* limits: one payment for a tap and final rows first, then that the books *)
(* and the terminal tell the truth about every send, and that the sends    *)
(* implement PayCall.                                                      *)
(***************************************************************************)
EXTENDS CardTap, FiniteSetTheorems, TLAPS

\* The callback's challenge was accepted, and it still can pay or has paid.
Accepted(c) == call[c] \notin {"idle", "done"} \/ row[c] # "none"

\* An accepted callback holds a challenge that is no longer on the card and
\* that no other accepted callback holds.
ChallengesConsumed ==
  /\ k1 <= counter
  /\ \A c \in Calls : Accepted(c) =>
       /\ tapOf[c] \in 1..counter
       /\ tapOf[c] # k1
  /\ \A c, d \in Calls :
       Accepted(c) /\ Accepted(d) /\ tapOf[c] = tapOf[d] => c = d

\* Before InsertPending a callback has no row.
RowAfterGuard ==
  \A c \in Calls :
    call[c] \in {"idle", "limits", "pin", "pinBad", "pinOk", "guard", "insert"}
      => row[c] = "none"

\* An unlocked card has tries left, so no callback sets out with a full count.
TriesLeft == ~locked => pinFails < PinTries

\* The inductive invariant.
Inv == TypeOK /\ TriesLeft /\ ChallengesConsumed /\ RowAfterGuard

-----------------------------------------------------------------------------

LEMMA InitInv == Init => Inv
<1> SUFFICES ASSUME Init PROVE Inv
  OBVIOUS
<1> USE CardAssumption DEF Init
<1>1. TypeOK
  <2>1. locked \in BOOLEAN /\ late \in [Calls -> BOOLEAN]
    BY Zenon
  <2>2. seen \in [Calls -> 0..PinTries - 1] /\ pinFails \in 0..PinTries
    OBVIOUS
  <2> QED
    BY <2>1, <2>2 DEF TypeOK, CallAt
<1>4. TriesLeft
  BY DEF TriesLeft
<1>2. ChallengesConsumed
  BY DEF ChallengesConsumed, Accepted
<1>3. RowAfterGuard
  BY DEF RowAfterGuard
<1> QED
  BY <1>1, <1>2, <1>3, <1>4 DEF Inv

LEMMA TypeStep == TypeOK /\ TriesLeft /\ [Next]_vars => TypeOK'
<1> SUFFICES ASSUME TypeOK, TriesLeft, [Next]_vars PROVE TypeOK'
  OBVIOUS
<1> USE CardAssumption DEF TypeOK, CallAt, vars, cardVars, callVars, worldVars,
        Goto, Answer, Reject, FinalizePendingSend, CallStep, RowStep, WorldStep
<1>1. CASE UnlockPin
  <2>1. locked' \in BOOLEAN
    BY <1>1, Zenon DEF UnlockPin
  <2> QED
    BY <1>1, <2>1 DEF UnlockPin
<1>2. ASSUME NEW s \in {"active", "frozen", "cancelled"}, SetStatus(s)
      PROVE  TypeOK'
  BY <1>2 DEF SetStatus
<1>3. CASE ChallengeExpires
  BY <1>3 DEF ChallengeExpires
<1>4. CASE Restart
  BY <1>4 DEF Restart
<1>5. ASSUME NEW n \in 1..MaxTap, Tap(n) PROVE TypeOK'
  BY <1>5 DEF Tap
<1>6. ASSUME NEW c \in Calls, CardCall(c) PROVE TypeOK'
  <2>1. ASSUME NEW n \in 1..MaxTap, Callback(c, n)
        PROVE  TypeOK'
    <3>1. CASE ~locked
      <4>1. pinFails \in 0..PinTries - 1
        BY <3>1 DEF TriesLeft
      <4> QED
        BY <2>1, <4>1 DEF Callback
    <3>2. CASE locked
      BY <2>1, <3>2 DEF Callback
    <3> QED
      BY <3>1, <3>2
  <2>2. CASE CheckLimits(c)
    BY <2>2 DEF CheckLimits
  <2>3. CASE VerifyPin(c)
    BY <2>3 DEF VerifyPin
  <2>4. CASE CountWrongPin(c)
    BY <2>4 DEF CountWrongPin
  <2>5. CASE ResetPinFails(c)
    BY <2>5 DEF ResetPinFails
  <2>6. CASE CheckGuard(c)
    BY <2>6 DEF CheckGuard
  <2>7. CASE NoFunding(c)
    BY <2>7 DEF NoFunding
  <2>8. CASE InsertPending(c)
    BY <2>8 DEF InsertPending
  <2> QED
    BY <1>6, <2>1, <2>2, <2>3, <2>4, <2>5, <2>6, <2>7, <2>8 DEF CardCall
<1>7. ASSUME NEW c \in Calls, Payment(c) PROVE TypeOK'
  <2>1. CASE SendPay(c)
    <3>1. late' \in [Calls -> BOOLEAN]
      BY <2>1, Zenon DEF SendPay
    <3>2. call' \in [Calls -> CallAt]
      BY <2>1 DEF SendPay
    <3> QED
      BY <2>1, <3>1, <3>2 DEF SendPay
  <2>2. CASE PayReplies(c)
    BY <2>2 DEF PayReplies
  <2>3. CASE PayTimesOut(c)
    BY <2>3 DEF PayTimesOut
  <2>4. CASE FinalizePaid(c)
    BY <2>4 DEF FinalizePaid
  <2>5. CASE FinalizePaidBreaks(c)
    BY <2>5 DEF FinalizePaidBreaks
  <2>6. CASE FinalizeRefused(c)
    BY <2>6 DEF FinalizeRefused
  <2>7. CASE ResolveLooks(c)
    BY <2>7 DEF ResolveLooks
  <2>8. CASE Resolved(c)
    BY <2>8 DEF Resolved
  <2>9. CASE ResolveGivesUp(c)
    BY <2>9 DEF ResolveGivesUp
  <2>10. CASE BudgetExpires(c)
    BY <2>10 DEF BudgetExpires
  <2> QED
    BY <1>7, <2>1, <2>2, <2>3, <2>4, <2>5, <2>6, <2>7, <2>8, <2>9,
         <2>10 DEF Payment
<1>8. ASSUME NEW c \in Calls, Reconciler(c) PROVE TypeOK'
  <2>1. CASE ReconcileLooks(c)
    BY <2>1 DEF ReconcileLooks, Reconcile
  <2>2. CASE ReconcileCloses(c)
    BY <2>2 DEF ReconcileCloses
  <2>3. CASE ReconcileWrites(c)
    BY <2>3 DEF ReconcileWrites
  <2>4. CASE RowAges(c)
    BY <2>4 DEF RowAges
  <2> QED
    BY <1>8, <2>1, <2>2, <2>3, <2>4 DEF Reconciler
<1>9. ASSUME NEW c \in Calls, World(c) PROVE TypeOK'
  <2>1. CASE RequestArrives(c)
    BY <2>1 DEF RequestArrives
  <2>2. CASE PaymentSettles(c)
    BY <2>2 DEF PaymentSettles
  <2>3. CASE PaymentFails(c)
    BY <2>3 DEF PaymentFails
  <2> QED
    BY <1>9, <2>1, <2>2, <2>3 DEF World
<1>10. ASSUME NEW c \in Own, Engine(c) PROVE TypeOK'
  <2>1. CASE HoldLocks(c)
    BY <2>1 DEF HoldLocks
  <2>2. CASE EngineAccepts(c)
    BY <2>2 DEF EngineAccepts
  <2>3. CASE EngineSettles(c)
    BY <2>3 DEF EngineSettles
  <2>4. CASE HoldReleased(c)
    BY <2>4 DEF HoldReleased
  <2>5. CASE CheckoutCloses(c)
    BY <2>5 DEF CheckoutCloses
  <2>6. CASE EngineRefunds(c)
    BY <2>6 DEF EngineRefunds
  <2> QED
    BY <1>10, <2>1, <2>2, <2>3, <2>4, <2>5, <2>6 DEF Engine
<1>11. CASE UNCHANGED vars
  BY <1>11
<1> QED
  BY <1>1, <1>2, <1>3, <1>4, <1>5, <1>6, <1>7, <1>8, <1>9, <1>10,
       <1>11 DEF Next, Owner

\* A step that hands out no challenge and accepts no callback.
Quiet ==
  /\ k1' \in {k1, 0}
  /\ UNCHANGED <<counter, tapOf>>
  /\ \A c \in Calls : Accepted(c)' => Accepted(c)

LEMMA QuietStep == TypeOK /\ ChallengesConsumed /\ Quiet => ChallengesConsumed'
  BY DEF TypeOK, ChallengesConsumed, Quiet

LEMMA ConsumedStep ==
  TypeOK /\ RowAfterGuard /\ ChallengesConsumed /\ [Next]_vars
    => Quiet \/ ChallengesConsumed'
<1> SUFFICES ASSUME TypeOK, RowAfterGuard, ChallengesConsumed, [Next]_vars
             PROVE  Quiet \/ ChallengesConsumed'
  OBVIOUS
<1> USE CardAssumption DEF TypeOK, CallAt, vars, cardVars, callVars, worldVars,
        Goto, Answer, Reject, FinalizePendingSend, CallStep, RowStep, WorldStep,
        Quiet, Accepted
<1>1. CASE UnlockPin
  BY <1>1 DEF UnlockPin
<1>2. ASSUME NEW s \in {"active", "frozen", "cancelled"}, SetStatus(s)
      PROVE  Quiet \/ ChallengesConsumed'
  BY <1>2 DEF SetStatus
<1>3. CASE ChallengeExpires
  BY <1>3 DEF ChallengeExpires
<1>4. CASE Restart
  BY <1>4 DEF Restart
<1>5. ASSUME NEW n \in 1..MaxTap, Tap(n) PROVE Quiet \/ ChallengesConsumed'
  <2>1. \A c \in Calls : Accepted(c)' = Accepted(c)
    BY <1>5 DEF Tap
  <2>2. \A c \in Calls :
          Accepted(c) => tapOf[c] \in 1..counter' /\ tapOf[c] # k1'
    BY <1>5 DEF Tap, ChallengesConsumed
  <2>3. ChallengesConsumed'
    BY <1>5, <2>1, <2>2 DEF Tap, ChallengesConsumed
  <2> QED
    BY <2>3
<1>6. ASSUME NEW c \in Calls, CardCall(c) PROVE Quiet \/ ChallengesConsumed'
  <2>1. ASSUME NEW n \in 1..MaxTap, Callback(c, n)
        PROVE  Quiet \/ ChallengesConsumed'
    <3>1. CASE card = "active" /\ ~locked /\ k1 = n
      <4>1. \A d \in Calls \ {c} :
              Accepted(d)' = Accepted(d) /\ tapOf'[d] = tapOf[d]
        BY <2>1, <3>1 DEF Callback
      <4>2. k1' = 0 /\ tapOf'[c] = n /\ counter' = counter /\ n \in 1..counter
        BY <2>1, <3>1 DEF Callback, ChallengesConsumed
      <4>3. \A d \in Calls \ {c} :
              Accepted(d) => tapOf[d] # n /\ tapOf[d] \in 1..counter
        BY <3>1 DEF ChallengesConsumed
      <4>4. ChallengesConsumed'
        <5>1. \A d \in Calls :
                Accepted(d)' => tapOf'[d] \in 1..counter' /\ tapOf'[d] # k1'
          BY <4>1, <4>2, <4>3
        <5>2. ASSUME NEW d \in Calls, NEW e \in Calls,
                     Accepted(d)', Accepted(e)', tapOf'[d] = tapOf'[e]
              PROVE  d = e
          BY <4>1, <4>2, <4>3, <5>2 DEF ChallengesConsumed
        <5> QED
          BY <4>2, <5>1, <5>2 DEF ChallengesConsumed
      <4> QED
        BY <4>4
    <3>2. CASE ~(card = "active" /\ ~locked /\ k1 = n)
      <4>1. \A d \in Calls : Accepted(d)' => Accepted(d) /\ tapOf'[d] = tapOf[d]
        BY <2>1, <3>2 DEF Callback, RowAfterGuard
      <4>2. ChallengesConsumed'
        BY <2>1, <3>2, <4>1 DEF Callback, ChallengesConsumed
      <4> QED
        BY <4>2
    <3> QED
      BY <3>1, <3>2
  <2>2. CASE CheckLimits(c)
    BY <2>2 DEF CheckLimits
  <2>3. CASE VerifyPin(c)
    BY <2>3 DEF VerifyPin
  <2>4. CASE CountWrongPin(c)
    BY <2>4 DEF CountWrongPin
  <2>5. CASE ResetPinFails(c)
    BY <2>5 DEF ResetPinFails
  <2>6. CASE CheckGuard(c)
    BY <2>6 DEF CheckGuard
  <2>7. CASE NoFunding(c)
    BY <2>7 DEF NoFunding
  <2>8. CASE InsertPending(c)
    BY <2>8 DEF InsertPending
  <2> QED
    BY <1>6, <2>1, <2>2, <2>3, <2>4, <2>5, <2>6, <2>7, <2>8 DEF CardCall
<1>7. ASSUME NEW c \in Calls, Payment(c) PROVE Quiet \/ ChallengesConsumed'
  <2>1. CASE SendPay(c)
    BY <2>1 DEF SendPay
  <2>2. CASE PayReplies(c)
    BY <2>2 DEF PayReplies
  <2>3. CASE PayTimesOut(c)
    BY <2>3 DEF PayTimesOut
  <2>4. CASE FinalizePaid(c)
    BY <2>4 DEF FinalizePaid
  <2>5. CASE FinalizePaidBreaks(c)
    BY <2>5 DEF FinalizePaidBreaks
  <2>6. CASE FinalizeRefused(c)
    BY <2>6 DEF FinalizeRefused
  <2>7. CASE ResolveLooks(c)
    BY <2>7 DEF ResolveLooks
  <2>8. CASE Resolved(c)
    BY <2>8 DEF Resolved
  <2>9. CASE ResolveGivesUp(c)
    BY <2>9 DEF ResolveGivesUp
  <2>10. CASE BudgetExpires(c)
    BY <2>10 DEF BudgetExpires
  <2> QED
    BY <1>7, <2>1, <2>2, <2>3, <2>4, <2>5, <2>6, <2>7, <2>8, <2>9,
         <2>10 DEF Payment
<1>8. ASSUME NEW c \in Calls, Reconciler(c) PROVE Quiet \/ ChallengesConsumed'
  <2>1. CASE ReconcileLooks(c)
    BY <2>1 DEF ReconcileLooks, Reconcile
  <2>2. CASE ReconcileCloses(c)
    BY <2>2 DEF ReconcileCloses
  <2>3. CASE ReconcileWrites(c)
    BY <2>3 DEF ReconcileWrites
  <2>4. CASE RowAges(c)
    BY <2>4 DEF RowAges
  <2> QED
    BY <1>8, <2>1, <2>2, <2>3, <2>4 DEF Reconciler
<1>9. ASSUME NEW c \in Calls, World(c) PROVE Quiet \/ ChallengesConsumed'
  <2>1. CASE RequestArrives(c)
    BY <2>1 DEF RequestArrives
  <2>2. CASE PaymentSettles(c)
    BY <2>2 DEF PaymentSettles
  <2>3. CASE PaymentFails(c)
    BY <2>3 DEF PaymentFails
  <2> QED
    BY <1>9, <2>1, <2>2, <2>3 DEF World
<1>10. ASSUME NEW c \in Own, Engine(c) PROVE Quiet \/ ChallengesConsumed'
  <2>1. CASE HoldLocks(c)
    BY <2>1 DEF HoldLocks
  <2>2. CASE EngineAccepts(c)
    BY <2>2 DEF EngineAccepts
  <2>3. CASE EngineSettles(c)
    BY <2>3 DEF EngineSettles
  <2>4. CASE HoldReleased(c)
    BY <2>4 DEF HoldReleased
  <2>5. CASE CheckoutCloses(c)
    BY <2>5 DEF CheckoutCloses
  <2>6. CASE EngineRefunds(c)
    BY <2>6 DEF EngineRefunds
  <2> QED
    BY <1>10, <2>1, <2>2, <2>3, <2>4, <2>5, <2>6 DEF Engine
<1>11. CASE UNCHANGED vars
  BY <1>11
<1> QED
  BY <1>1, <1>2, <1>3, <1>4, <1>5, <1>6, <1>7, <1>8, <1>9, <1>10,
       <1>11 DEF Next, Owner

LEMMA RowStepInv ==
  TypeOK /\ TriesLeft /\ RowAfterGuard /\ [Next]_vars
    => TriesLeft' /\ RowAfterGuard'
<1> SUFFICES ASSUME TypeOK, TriesLeft, RowAfterGuard, [Next]_vars
             PROVE  TriesLeft' /\ RowAfterGuard'
  OBVIOUS
<1> USE CardAssumption DEF TypeOK, CallAt, vars, cardVars, callVars, worldVars,
        Goto, Answer, Reject, FinalizePendingSend, CallStep, RowStep, WorldStep,
        TriesLeft, RowAfterGuard
<1>1. CASE UnlockPin
  BY <1>1 DEF UnlockPin
<1>2. ASSUME NEW s \in {"active", "frozen", "cancelled"}, SetStatus(s)
      PROVE  TriesLeft' /\ RowAfterGuard'
  BY <1>2 DEF SetStatus
<1>3. CASE ChallengeExpires
  BY <1>3 DEF ChallengeExpires
<1>4. CASE Restart
  BY <1>4 DEF Restart
<1>5. ASSUME NEW n \in 1..MaxTap, Tap(n) PROVE TriesLeft' /\ RowAfterGuard'
  BY <1>5 DEF Tap
<1>6. ASSUME NEW c \in Calls, CardCall(c) PROVE TriesLeft' /\ RowAfterGuard'
  <2>1. ASSUME NEW n \in 1..MaxTap, Callback(c, n)
        PROVE  TriesLeft' /\ RowAfterGuard'
    <3>1. RowAfterGuard'
      BY <2>1 DEF Callback
    <3>2. TriesLeft'
      BY <2>1, Zenon DEF Callback
    <3> QED
      BY <3>1, <3>2
  <2>2. CASE CheckLimits(c)
    BY <2>2 DEF CheckLimits
  <2>3. CASE VerifyPin(c)
    BY <2>3 DEF VerifyPin
  <2>4. CASE CountWrongPin(c)
    <3>1. RowAfterGuard'
      BY <2>4 DEF CountWrongPin
    <3>2. pinFails' = seen[c] + 1 /\ (seen[c] + 1 >= PinTries => locked')
      BY <2>4, Zenon DEF CountWrongPin
    <3>3. seen[c] + 1 >= PinTries \/ seen[c] + 1 < PinTries
      OBVIOUS
    <3>4. TriesLeft'
      BY <3>2, <3>3, Zenon
    <3> QED
      BY <3>1, <3>4
  <2>5. CASE ResetPinFails(c)
    BY <2>5 DEF ResetPinFails
  <2>6. CASE CheckGuard(c)
    BY <2>6 DEF CheckGuard
  <2>7. CASE NoFunding(c)
    BY <2>7 DEF NoFunding
  <2>8. CASE InsertPending(c)
    BY <2>8 DEF InsertPending
  <2> QED
    BY <1>6, <2>1, <2>2, <2>3, <2>4, <2>5, <2>6, <2>7, <2>8 DEF CardCall
<1>7. ASSUME NEW c \in Calls, Payment(c) PROVE TriesLeft' /\ RowAfterGuard'
  <2>1. CASE SendPay(c)
    BY <2>1 DEF SendPay
  <2>2. CASE PayReplies(c)
    BY <2>2 DEF PayReplies
  <2>3. CASE PayTimesOut(c)
    BY <2>3 DEF PayTimesOut
  <2>4. CASE FinalizePaid(c)
    BY <2>4 DEF FinalizePaid
  <2>5. CASE FinalizePaidBreaks(c)
    BY <2>5 DEF FinalizePaidBreaks
  <2>6. CASE FinalizeRefused(c)
    BY <2>6 DEF FinalizeRefused
  <2>7. CASE ResolveLooks(c)
    BY <2>7 DEF ResolveLooks
  <2>8. CASE Resolved(c)
    BY <2>8 DEF Resolved
  <2>9. CASE ResolveGivesUp(c)
    BY <2>9 DEF ResolveGivesUp
  <2>10. CASE BudgetExpires(c)
    BY <2>10 DEF BudgetExpires
  <2> QED
    BY <1>7, <2>1, <2>2, <2>3, <2>4, <2>5, <2>6, <2>7, <2>8, <2>9,
         <2>10 DEF Payment
<1>8. ASSUME NEW c \in Calls, Reconciler(c) PROVE TriesLeft' /\ RowAfterGuard'
  <2>1. CASE ReconcileLooks(c)
    BY <2>1 DEF ReconcileLooks, Reconcile
  <2>2. CASE ReconcileCloses(c)
    BY <2>2 DEF ReconcileCloses
  <2>3. CASE ReconcileWrites(c)
    BY <2>3 DEF ReconcileWrites
  <2>4. CASE RowAges(c)
    BY <2>4 DEF RowAges
  <2> QED
    BY <1>8, <2>1, <2>2, <2>3, <2>4 DEF Reconciler
<1>9. ASSUME NEW c \in Calls, World(c) PROVE TriesLeft' /\ RowAfterGuard'
  <2>1. CASE RequestArrives(c)
    BY <2>1 DEF RequestArrives
  <2>2. CASE PaymentSettles(c)
    BY <2>2 DEF PaymentSettles
  <2>3. CASE PaymentFails(c)
    BY <2>3 DEF PaymentFails
  <2> QED
    BY <1>9, <2>1, <2>2, <2>3 DEF World
<1>10. ASSUME NEW c \in Own, Engine(c) PROVE TriesLeft' /\ RowAfterGuard'
  <2>1. CASE HoldLocks(c)
    BY <2>1 DEF HoldLocks
  <2>2. CASE EngineAccepts(c)
    BY <2>2 DEF EngineAccepts
  <2>3. CASE EngineSettles(c)
    BY <2>3 DEF EngineSettles
  <2>4. CASE HoldReleased(c)
    BY <2>4 DEF HoldReleased
  <2>5. CASE CheckoutCloses(c)
    BY <2>5 DEF CheckoutCloses
  <2>6. CASE EngineRefunds(c)
    BY <2>6 DEF EngineRefunds
  <2> QED
    BY <1>10, <2>1, <2>2, <2>3, <2>4, <2>5, <2>6 DEF Engine
<1>11. CASE UNCHANGED vars
  BY <1>11
<1> QED
  BY <1>1, <1>2, <1>3, <1>4, <1>5, <1>6, <1>7, <1>8, <1>9, <1>10,
       <1>11 DEF Next, Owner

LEMMA FinalStep ==
  TypeOK /\ RowAfterGuard /\ [Next]_vars
    => \A c \in Calls : row[c] \in {"completed", "failed"} => row'[c] = row[c]
<1> SUFFICES ASSUME TypeOK, RowAfterGuard, [Next]_vars,
                    NEW d \in Calls, row[d] \in {"completed", "failed"}
             PROVE  row'[d] = row[d]
  OBVIOUS
<1> USE CardAssumption DEF TypeOK, CallAt, vars, cardVars, callVars, worldVars,
        Goto, Answer, Reject, FinalizePendingSend, CallStep, RowStep, WorldStep,
        RowAfterGuard
<1>1. CASE UnlockPin
  BY <1>1 DEF UnlockPin
<1>2. ASSUME NEW s \in {"active", "frozen", "cancelled"}, SetStatus(s)
      PROVE  row'[d] = row[d]
  BY <1>2 DEF SetStatus
<1>3. CASE ChallengeExpires
  BY <1>3 DEF ChallengeExpires
<1>4. CASE Restart
  BY <1>4 DEF Restart
<1>5. ASSUME NEW n \in 1..MaxTap, Tap(n) PROVE row'[d] = row[d]
  BY <1>5 DEF Tap
<1>6. ASSUME NEW c \in Calls, CardCall(c) PROVE row'[d] = row[d]
  <2>1. ASSUME NEW n \in 1..MaxTap, Callback(c, n)
        PROVE  row'[d] = row[d]
    BY <2>1 DEF Callback
  <2>2. CASE CheckLimits(c)
    BY <2>2 DEF CheckLimits
  <2>3. CASE VerifyPin(c)
    BY <2>3 DEF VerifyPin
  <2>4. CASE CountWrongPin(c)
    BY <2>4 DEF CountWrongPin
  <2>5. CASE ResetPinFails(c)
    BY <2>5 DEF ResetPinFails
  <2>6. CASE CheckGuard(c)
    BY <2>6 DEF CheckGuard
  <2>7. CASE NoFunding(c)
    BY <2>7 DEF NoFunding
  <2>8. CASE InsertPending(c)
    BY <2>8 DEF InsertPending
  <2> QED
    BY <1>6, <2>1, <2>2, <2>3, <2>4, <2>5, <2>6, <2>7, <2>8 DEF CardCall
<1>7. ASSUME NEW c \in Calls, Payment(c) PROVE row'[d] = row[d]
  <2>1. CASE SendPay(c)
    BY <2>1 DEF SendPay
  <2>2. CASE PayReplies(c)
    BY <2>2 DEF PayReplies
  <2>3. CASE PayTimesOut(c)
    BY <2>3 DEF PayTimesOut
  <2>4. CASE FinalizePaid(c)
    BY <2>4 DEF FinalizePaid
  <2>5. CASE FinalizePaidBreaks(c)
    BY <2>5 DEF FinalizePaidBreaks
  <2>6. CASE FinalizeRefused(c)
    BY <2>6 DEF FinalizeRefused
  <2>7. CASE ResolveLooks(c)
    BY <2>7 DEF ResolveLooks
  <2>8. CASE Resolved(c)
    BY <2>8 DEF Resolved
  <2>9. CASE ResolveGivesUp(c)
    BY <2>9 DEF ResolveGivesUp
  <2>10. CASE BudgetExpires(c)
    BY <2>10 DEF BudgetExpires
  <2> QED
    BY <1>7, <2>1, <2>2, <2>3, <2>4, <2>5, <2>6, <2>7, <2>8, <2>9,
         <2>10 DEF Payment
<1>8. ASSUME NEW c \in Calls, Reconciler(c) PROVE row'[d] = row[d]
  <2>1. CASE ReconcileLooks(c)
    BY <2>1 DEF ReconcileLooks, Reconcile
  <2>2. CASE ReconcileCloses(c)
    BY <2>2 DEF ReconcileCloses
  <2>3. CASE ReconcileWrites(c)
    BY <2>3 DEF ReconcileWrites
  <2>4. CASE RowAges(c)
    BY <2>4 DEF RowAges
  <2> QED
    BY <1>8, <2>1, <2>2, <2>3, <2>4 DEF Reconciler
<1>9. ASSUME NEW c \in Calls, World(c) PROVE row'[d] = row[d]
  <2>1. CASE RequestArrives(c)
    BY <2>1 DEF RequestArrives
  <2>2. CASE PaymentSettles(c)
    BY <2>2 DEF PaymentSettles
  <2>3. CASE PaymentFails(c)
    BY <2>3 DEF PaymentFails
  <2> QED
    BY <1>9, <2>1, <2>2, <2>3 DEF World
<1>10. ASSUME NEW c \in Own, Engine(c) PROVE row'[d] = row[d]
  <2>1. CASE HoldLocks(c)
    BY <2>1 DEF HoldLocks
  <2>2. CASE EngineAccepts(c)
    BY <2>2 DEF EngineAccepts
  <2>3. CASE EngineSettles(c)
    BY <2>3 DEF EngineSettles
  <2>4. CASE HoldReleased(c)
    BY <2>4 DEF HoldReleased
  <2>5. CASE CheckoutCloses(c)
    BY <2>5 DEF CheckoutCloses
  <2>6. CASE EngineRefunds(c)
    BY <2>6 DEF EngineRefunds
  <2> QED
    BY <1>10, <2>1, <2>2, <2>3, <2>4, <2>5, <2>6 DEF Engine
<1>11. CASE UNCHANGED vars
  BY <1>11
<1> QED
  BY <1>1, <1>2, <1>3, <1>4, <1>5, <1>6, <1>7, <1>8, <1>9, <1>10,
       <1>11 DEF Next, Owner

LEMMA InvStep == Inv /\ [Next]_vars => Inv'
  BY TypeStep, ConsumedStep, QuietStep, RowStepInv DEF Inv

THEOREM SpecInv == Spec => []Inv
  BY InitInv, InvStep, PTL DEF Spec

\* Every variable stays in its type: the PIN counter within its tries, the tap
\* counter within the card's.
THEOREM SpecTypeOK == Spec => []TypeOK
  BY SpecInv, PTL DEF Inv

\* One tap never starts two payments, for any number of taps, callbacks and
\* replays (card-tap.ts: the counter under a row lock, the k1 consumed by one
\* conditional UPDATE).
THEOREM SpecTapPaysOnce == Spec => []TapPaysOnce
<1>1. ChallengesConsumed => TapPaysOnce
  <2> SUFFICES ASSUME ChallengesConsumed, NEW n \in 1..MaxTap
               PROVE  Cardinality(
                        {c \in Calls : tapOf[c] = n /\ row[c] # "none"}) <= 1
    BY DEF TapPaysOnce
  <2> DEFINE S == {c \in Calls : tapOf[c] = n /\ row[c] # "none"}
  <2>1. CASE S = {}
    <3>1. Cardinality(S) = 0
      BY <2>1, FS_EmptySet, Zenon
    <3> HIDE DEF S
    <3>2. Cardinality(S) <= 1
      BY <3>1
    <3> QED
      BY <3>2 DEF S
  <2>2. CASE S # {}
    <3>1. PICK c \in Calls : c \in S
      BY <2>2
    <3>2. S = {c}
      BY <3>1 DEF ChallengesConsumed, Accepted
    <3> QED
      <4>1. Cardinality({c}) = 1
        BY FS_Singleton
      <4>2. Cardinality(S) = 1
        BY <3>2, <4>1, Zenon
      <4> HIDE DEF S
      <4>3. Cardinality(S) <= 1
        BY <4>2
      <4> QED
        BY <4>3 DEF S
  <2> QED
    BY <2>1, <2>2
<1> QED
  BY <1>1, SpecInv, PTL DEF Inv

\* A send that is completed or failed keeps its verdict, whichever callback,
\* background remainder or sweep writes next (finalizePendingSend).
THEOREM SpecSendIsFinal == Spec => SendIsFinal
<1>1. Inv /\ [Next]_vars => VerdictStays
  BY FinalStep DEF Inv, VerdictStays
<1>2. Inv /\ [Next]_vars => [VerdictStays]_vars
  BY <1>1
<1> QED
  BY <1>2, SpecInv, PTL DEF Spec, SendIsFinal

-----------------------------------------------------------------------------
(* The truth of the verdicts *)

\* The wallet has not been asked.
NotSent == {"idle", "limits", "pin", "pinBad", "pinOk", "guard", "insert", "send"}

\* How the wallet's record of one payment, its request and, for an invoice of
\* this server, the hold and the wrap row hang together.
Money(c) ==
  /\ late[c] => pay[c] = "none"
  /\ call[c] \in NotSent => pay[c] = "none" /\ ~late[c] /\ age[c] = "young"
  /\ c \in Own =>
       /\ hold[c] = "accepted" => pay[c] = "pending"
       /\ hold[c] = "settled" <=> pay[c] = "settled"
       /\ hold[c] = "refunded" => pay[c] = "failed"
       /\ wrap[c] = "open" => hold[c] # "open"
       /\ wrap[c] = "settled" => hold[c] = "settled"
       /\ hold[c] = "settled" => wrap[c] \in {"open", "settled"}

\* The money has left the customer, or is at least locked in this server's hold.
Paid(c) == IF c \in Own THEN hold[c] # "open" ELSE pay[c] = "settled"

\* No payment will ever be made: it failed, the wrapped sale was closed, or the
\* request did not reach the wallet in time.
NeverPaid(c) ==
  \/ pay[c] = "failed"
  \/ c \in Own /\ wrap[c] = "cancelled"
  \/ /\ pay[c] = "none" /\ call[c] \notin NotSent
     /\ late[c] => age[c] # "young"

\* Both are for good.
Kept(c) == (Paid(c) => Paid(c)') /\ (NeverPaid(c) => NeverPaid(c)')

\* Whoever holds or wrote a verdict had the proof for it, and still has.
Knowledge(c) ==
  /\ call[c] \in {"paid", "resolvedOk"} => Paid(c)
  /\ verdict[c] = "completed" => Paid(c)
  /\ row[c] = "completed" => Paid(c)
  /\ call[c] = "refused" => c \in broken \/ NeverPaid(c)
  /\ call[c] = "resolvedBad" => NeverPaid(c)
  /\ verdict[c] = "failed" => NeverPaid(c)
  /\ verdict[c] = "close" => c \in Own
  /\ row[c] = "failed" => c \in broken \/ NeverPaid(c)
  /\ reply[c] = "error" => c \in broken \/ NeverPaid(c)

VerdictInv == \A c \in Calls : Money(c) /\ Knowledge(c)

-----------------------------------------------------------------------------

LEMMA InitVerdict == Init => VerdictInv
  BY CardAssumption DEF Init, VerdictInv, Money, Knowledge, NotSent

\* The money's records stay consistent, and what was paid or can no longer be
\* paid stays so, whichever process takes a step.
LEMMA MoneyStep ==
  ASSUME TypeOK, RowAfterGuard, [Next]_vars, NEW d \in Calls, Money(d)
  PROVE  Money(d)' /\ Kept(d)
<1> USE CardAssumption DEF TypeOK, CallAt, vars, cardVars, callVars, worldVars,
        Goto, Answer, Reject, FinalizePendingSend, CallStep, RowStep, WorldStep,
        RowAfterGuard, Money, Kept, Paid, NeverPaid, NotSent
<1>1. CASE UnlockPin
  BY <1>1 DEF UnlockPin
<1>2. ASSUME NEW s \in {"active", "frozen", "cancelled"}, SetStatus(s)
      PROVE  Money(d)' /\ Kept(d)
  BY <1>2 DEF SetStatus
<1>3. CASE ChallengeExpires
  BY <1>3 DEF ChallengeExpires
<1>4. CASE Restart
  BY <1>4 DEF Restart
<1>5. ASSUME NEW n \in 1..MaxTap, Tap(n) PROVE Money(d)' /\ Kept(d)
  BY <1>5 DEF Tap
<1>6. ASSUME NEW c \in Calls, CardCall(c) PROVE Money(d)' /\ Kept(d)
  <2>1. ASSUME NEW n \in 1..MaxTap, Callback(c, n) PROVE Money(d)' /\ Kept(d)
    BY <2>1 DEF Callback
  <2>2. CASE CheckLimits(c)
    BY <2>2 DEF CheckLimits
  <2>3. CASE VerifyPin(c)
    BY <2>3 DEF VerifyPin
  <2>4. CASE CountWrongPin(c)
    BY <2>4 DEF CountWrongPin
  <2>5. CASE ResetPinFails(c)
    BY <2>5 DEF ResetPinFails
  <2>6. CASE CheckGuard(c)
    BY <2>6 DEF CheckGuard
  <2>7. CASE NoFunding(c)
    BY <2>7 DEF NoFunding
  <2>8. CASE InsertPending(c)
    BY <2>8 DEF InsertPending
  <2> QED
    BY <1>6, <2>1, <2>2, <2>3, <2>4, <2>5, <2>6, <2>7, <2>8 DEF CardCall
<1>7. ASSUME NEW c \in Calls, Payment(c) PROVE Money(d)' /\ Kept(d)
  <2>1. CASE SendPay(c)
    BY <2>1 DEF SendPay
  <2>2. CASE PayReplies(c)
    BY <2>2 DEF PayReplies
  <2>3. CASE PayTimesOut(c)
    BY <2>3 DEF PayTimesOut
  <2>4. CASE FinalizePaid(c)
    BY <2>4 DEF FinalizePaid
  <2>5. CASE FinalizePaidBreaks(c)
    BY <2>5 DEF FinalizePaidBreaks
  <2>6. CASE FinalizeRefused(c)
    BY <2>6 DEF FinalizeRefused
  <2>7. CASE ResolveLooks(c)
    BY <2>7 DEF ResolveLooks, OwnProof
  <2>8. CASE Resolved(c)
    BY <2>8 DEF Resolved
  <2>9. CASE ResolveGivesUp(c)
    BY <2>9 DEF ResolveGivesUp
  <2>10. CASE BudgetExpires(c)
    BY <2>10 DEF BudgetExpires
  <2> QED
    BY <1>7, <2>1, <2>2, <2>3, <2>4, <2>5, <2>6, <2>7, <2>8, <2>9, <2>10 DEF Payment
<1>8. ASSUME NEW c \in Calls, Reconciler(c) PROVE Money(d)' /\ Kept(d)
  <2>1. CASE ReconcileLooks(c)
    BY <2>1 DEF ReconcileLooks, Reconcile, CorroborateNotFound, OwnProof
  <2>2. CASE ReconcileCloses(c)
    BY <2>2 DEF ReconcileCloses
  <2>3. CASE ReconcileWrites(c)
    BY <2>3 DEF ReconcileWrites
  <2>4. CASE RowAges(c)
    BY <2>4 DEF RowAges
  <2> QED
    BY <1>8, <2>1, <2>2, <2>3, <2>4 DEF Reconciler
<1>9. ASSUME NEW c \in Calls, World(c) PROVE Money(d)' /\ Kept(d)
  <2>1. CASE RequestArrives(c)
    BY <2>1 DEF RequestArrives
  <2>2. CASE PaymentSettles(c)
    BY <2>2 DEF PaymentSettles
  <2>3. CASE PaymentFails(c)
    BY <2>3 DEF PaymentFails
  <2> QED
    BY <1>9, <2>1, <2>2, <2>3 DEF World
<1>10. ASSUME NEW c \in Own, Engine(c) PROVE Money(d)' /\ Kept(d)
  <2> c \in Calls
    BY CardAssumption
  <2>1. CASE HoldLocks(c)
    BY <2>1 DEF HoldLocks
  <2>2. CASE EngineAccepts(c)
    BY <2>2 DEF EngineAccepts
  <2>3. CASE EngineSettles(c)
    BY <2>3 DEF EngineSettles
  <2>4. CASE HoldReleased(c)
    BY <2>4 DEF HoldReleased
  <2>5. CASE CheckoutCloses(c)
    BY <2>5 DEF CheckoutCloses
  <2>6. CASE EngineRefunds(c)
    BY <2>6 DEF EngineRefunds
  <2> QED
    BY <1>10, <2>1, <2>2, <2>3, <2>4, <2>5, <2>6 DEF Engine
<1>11. CASE UNCHANGED vars
  BY <1>11
<1> QED
  BY <1>1, <1>2, <1>3, <1>4, <1>5, <1>6, <1>7, <1>8, <1>9, <1>10,
       <1>11 DEF Next, Owner

\* Every verdict rests on a proof that was there when it was formed.
LEMMA KnowledgeStep ==
  ASSUME TypeOK, RowAfterGuard, [Next]_vars, NEW d \in Calls, Money(d), Knowledge(d)
  PROVE  Knowledge(d)'
<1>0. Kept(d)
  BY MoneyStep
<1> USE <1>0, CardAssumption DEF TypeOK, CallAt, vars, cardVars, callVars, worldVars,
        Goto, Answer, Reject, FinalizePendingSend, CallStep, RowStep, WorldStep,
        RowAfterGuard, Money, Kept, Paid, NeverPaid, NotSent, Knowledge
<1>1. CASE UnlockPin
  BY <1>1 DEF UnlockPin
<1>2. ASSUME NEW s \in {"active", "frozen", "cancelled"}, SetStatus(s)
      PROVE  Knowledge(d)'
  BY <1>2 DEF SetStatus
<1>3. CASE ChallengeExpires
  BY <1>3 DEF ChallengeExpires
<1>4. CASE Restart
  BY <1>4 DEF Restart
<1>5. ASSUME NEW n \in 1..MaxTap, Tap(n) PROVE Knowledge(d)'
  BY <1>5 DEF Tap
<1>6. ASSUME NEW c \in Calls, CardCall(c) PROVE Knowledge(d)'
  <2>1. ASSUME NEW n \in 1..MaxTap, Callback(c, n) PROVE Knowledge(d)'
    BY <2>1 DEF Callback
  <2>2. CASE CheckLimits(c)
    BY <2>2 DEF CheckLimits
  <2>3. CASE VerifyPin(c)
    BY <2>3 DEF VerifyPin
  <2>4. CASE CountWrongPin(c)
    BY <2>4 DEF CountWrongPin
  <2>5. CASE ResetPinFails(c)
    BY <2>5 DEF ResetPinFails
  <2>6. CASE CheckGuard(c)
    BY <2>6 DEF CheckGuard
  <2>7. CASE NoFunding(c)
    BY <2>7 DEF NoFunding
  <2>8. CASE InsertPending(c)
    BY <2>8 DEF InsertPending
  <2> QED
    BY <1>6, <2>1, <2>2, <2>3, <2>4, <2>5, <2>6, <2>7, <2>8 DEF CardCall
<1>7. ASSUME NEW c \in Calls, Payment(c) PROVE Knowledge(d)'
  <2>1. CASE SendPay(c)
    BY <2>1 DEF SendPay
  <2>2. CASE PayReplies(c)
    BY <2>2 DEF PayReplies
  <2>3. CASE PayTimesOut(c)
    BY <2>3 DEF PayTimesOut
  <2>4. CASE FinalizePaid(c)
    BY <2>4 DEF FinalizePaid
  <2>5. CASE FinalizePaidBreaks(c)
    BY <2>5 DEF FinalizePaidBreaks
  <2>6. CASE FinalizeRefused(c)
    BY <2>6 DEF FinalizeRefused
  <2>7. CASE ResolveLooks(c)
    BY <2>7 DEF ResolveLooks, OwnProof
  <2>8. CASE Resolved(c)
    BY <2>8 DEF Resolved
  <2>9. CASE ResolveGivesUp(c)
    BY <2>9 DEF ResolveGivesUp
  <2>10. CASE BudgetExpires(c)
    BY <2>10 DEF BudgetExpires
  <2> QED
    BY <1>7, <2>1, <2>2, <2>3, <2>4, <2>5, <2>6, <2>7, <2>8, <2>9, <2>10 DEF Payment
<1>8. ASSUME NEW c \in Calls, Reconciler(c) PROVE Knowledge(d)'
  <2>1. CASE ReconcileLooks(c)
    BY <2>1 DEF ReconcileLooks, Reconcile, CorroborateNotFound, OwnProof
  <2>2. CASE ReconcileCloses(c)
    BY <2>2 DEF ReconcileCloses
  <2>3. CASE ReconcileWrites(c)
    BY <2>3 DEF ReconcileWrites
  <2>4. CASE RowAges(c)
    BY <2>4 DEF RowAges
  <2> QED
    BY <1>8, <2>1, <2>2, <2>3, <2>4 DEF Reconciler
<1>9. ASSUME NEW c \in Calls, World(c) PROVE Knowledge(d)'
  <2>1. CASE RequestArrives(c)
    BY <2>1 DEF RequestArrives
  <2>2. CASE PaymentSettles(c)
    BY <2>2 DEF PaymentSettles
  <2>3. CASE PaymentFails(c)
    BY <2>3 DEF PaymentFails
  <2> QED
    BY <1>9, <2>1, <2>2, <2>3 DEF World
<1>10. ASSUME NEW c \in Own, Engine(c) PROVE Knowledge(d)'
  <2> c \in Calls
    BY CardAssumption
  <2>1. CASE HoldLocks(c)
    BY <2>1 DEF HoldLocks
  <2>2. CASE EngineAccepts(c)
    BY <2>2 DEF EngineAccepts
  <2>3. CASE EngineSettles(c)
    BY <2>3 DEF EngineSettles
  <2>4. CASE HoldReleased(c)
    BY <2>4 DEF HoldReleased
  <2>5. CASE CheckoutCloses(c)
    BY <2>5 DEF CheckoutCloses
  <2>6. CASE EngineRefunds(c)
    BY <2>6 DEF EngineRefunds
  <2> QED
    BY <1>10, <2>1, <2>2, <2>3, <2>4, <2>5, <2>6 DEF Engine
<1>11. CASE UNCHANGED vars
  BY <1>11
<1> HIDE <1>0, CardAssumption DEF TypeOK, CallAt, cardVars, callVars, worldVars,
        Goto, Answer, Reject, FinalizePendingSend, CallStep, RowStep, WorldStep,
        RowAfterGuard, Money, Kept, Paid, NeverPaid, NotSent, Knowledge
<1> QED
  BY <1>1, <1>2, <1>3, <1>4, <1>5, <1>6, <1>7, <1>8, <1>9, <1>10,
       <1>11 DEF Next, Owner

LEMMA VerdictStep == Inv /\ VerdictInv /\ [Next]_vars => VerdictInv'
  BY MoneyStep, KnowledgeStep DEF VerdictInv, Inv

LEMMA VerdictSpecInv == Spec => []VerdictInv
  BY InitVerdict, VerdictStep, SpecInv, PTL DEF Spec

\* The row and the terminal never say failed of a payment that went through,
\* nor completed of one that did not: what finalizePendingSend writes and what
\* the callback answers rest on a proof that stays true (feeEngine.ts,
\* invoiceMonitor.ts), however calls are lost, delayed and restarted.
THEOREM SpecSendVerdictIsTrue == Spec => []SendVerdictIsTrue
<1>1. ASSUME NEW c \in Calls, Money(c), NeverPaid(c)
      PROVE  pay[c] # "settled"
  BY <1>1 DEF Money, NeverPaid
<1>2. VerdictInv => SendVerdictIsTrue
  BY <1>1 DEF VerdictInv, Knowledge, Paid, SendVerdictIsTrue, FailedSendNotCharged,
              ErrorNotCharged, CompletedSendWasPaid
<1> QED
  BY <1>2, VerdictSpecInv, PTL

-----------------------------------------------------------------------------
(* PayCall, implemented by the callback, its resolution and the reconciler *)

BrokenWasPaid == \A c \in broken : Paid(c)

\* A step on the row of one call.
WritesRow(c) ==
  /\ UNCHANGED pay /\ broken \subseteq broken'
  /\ \A d \in Calls \ {c} : row'[d] = row[d] /\ (d \in broken' => d \in broken)

\* What a step may do to what the promise reads.
LEMMA WhatMoves ==
  ASSUME TypeOK, [Next]_vars
  PROVE  \/ UNCHANGED <<pay, row, broken>>
         \/ \E c \in Calls : WritesRow(c)
         \/ (\E c \in Calls : World(c)) /\ UNCHANGED <<row, broken>>
         \/ /\ \A c \in Others : pay'[c] = pay[c]
            /\ pay' \in [Calls -> {"none", "pending", "settled", "failed"}]
            /\ UNCHANGED <<row, broken>>
<1> USE CardAssumption DEF cardVars, callVars, worldVars
<1>1. CASE \/ Owner \/ ChallengeExpires \/ Restart \/ (\E n \in 1..MaxTap : Tap(n))
           \/ UNCHANGED vars
  BY <1>1 DEF Owner, UnlockPin, SetStatus, ChallengeExpires, Restart, Tap, vars
<1>2. ASSUME NEW c \in Calls, CardCall(c) PROVE UNCHANGED <<pay, row, broken>> \/ WritesRow(c)
  <2>1. CASE InsertPending(c)
    BY <2>1 DEF InsertPending, CallStep, WritesRow, TypeOK
  <2>2. CASE ~InsertPending(c)
    BY <1>2, <2>2 DEF CardCall, Callback, CheckLimits, VerifyPin, CountWrongPin, ResetPinFails,
                      CheckGuard, NoFunding, CallStep
  <2> QED
    BY <2>1, <2>2
<1>3. ASSUME NEW c \in Calls, Payment(c) PROVE UNCHANGED <<pay, row, broken>> \/ WritesRow(c)
  <2>1. CASE FinalizePaid(c) \/ FinalizePaidBreaks(c) \/ FinalizeRefused(c) \/ Resolved(c)
    BY <2>1 DEF FinalizePaid, FinalizePaidBreaks, FinalizeRefused, Resolved,
                FinalizePendingSend, WritesRow, TypeOK
  <2>2. CASE \/ SendPay(c) \/ PayReplies(c) \/ PayTimesOut(c) \/ ResolveLooks(c)
             \/ ResolveGivesUp(c) \/ BudgetExpires(c)
    BY <2>2 DEF SendPay, PayReplies, PayTimesOut, ResolveLooks, ResolveGivesUp, BudgetExpires
  <2> QED
    BY <1>3, <2>1, <2>2 DEF Payment
<1>4. ASSUME NEW c \in Calls, Reconciler(c) PROVE UNCHANGED <<pay, row, broken>> \/ WritesRow(c)
  <2>1. CASE ReconcileWrites(c)
    BY <2>1 DEF ReconcileWrites, FinalizePendingSend, WritesRow, TypeOK
  <2>2. CASE ReconcileLooks(c) \/ ReconcileCloses(c) \/ RowAges(c)
    BY <2>2 DEF ReconcileLooks, Reconcile, ReconcileCloses, RowAges
  <2> QED
    BY <1>4, <2>1, <2>2 DEF Reconciler
<1>5. ASSUME NEW c \in Calls, World(c) PROVE UNCHANGED <<row, broken>>
  BY <1>5 DEF World, RequestArrives, PaymentSettles, PaymentFails, WorldStep
<1>6. ASSUME NEW c \in Own, Engine(c)
      PROVE  /\ \A d \in Others : pay'[d] = pay[d]
             /\ pay' \in [Calls -> {"none", "pending", "settled", "failed"}]
             /\ UNCHANGED <<row, broken>>
  BY <1>6 DEF Engine, HoldLocks, EngineAccepts, EngineSettles, HoldReleased, EngineRefunds,
              CheckoutCloses, WorldStep, TypeOK, Others
<1> QED
  BY <1>1, <1>2, <1>3, <1>4, <1>5, <1>6 DEF Next

\* A callback whose write broke had been told that the payment went through.
LEMMA BrokenStep ==
  ASSUME Inv, VerdictInv, BrokenWasPaid, [Next]_vars
  PROVE  BrokenWasPaid'
<1>1. ASSUME NEW c \in Calls, Paid(c) PROVE Paid(c)'
  BY <1>1, MoneyStep DEF Inv, VerdictInv, Kept
<1>2. ASSUME NEW c \in broken' \ broken PROVE c \in Calls /\ Paid(c)
  <2>1. PICK d \in Calls : FinalizePaidBreaks(d)
    BY <1>2 DEF Next, vars, Owner, UnlockPin, SetStatus, ChallengeExpires, Restart, Tap, CardCall,
       Callback, CheckLimits, VerifyPin, CountWrongPin, ResetPinFails, CheckGuard, NoFunding,
       InsertPending, CallStep, Payment, SendPay, PayReplies, PayTimesOut, FinalizePaid,
       FinalizeRefused, ResolveLooks, Resolved, ResolveGivesUp, BudgetExpires, Reconciler,
       ReconcileLooks, Reconcile, ReconcileCloses, ReconcileWrites, RowAges, World,
       RequestArrives, PaymentSettles, PaymentFails, Engine, HoldLocks, EngineAccepts,
       EngineSettles, HoldReleased, EngineRefunds, CheckoutCloses, WorldStep
  <2> QED
    BY <1>2, <2>1 DEF FinalizePaidBreaks, VerdictInv, Knowledge
<1> QED
  BY <1>1, <1>2 DEF BrokenWasPaid, Inv, TypeOK

\* A written row says what is so afterwards, and no final row is written.
LEMMA RowMoves ==
  ASSUME Inv, Inv', VerdictInv, VerdictInv', BrokenWasPaid', [Next]_vars,
         NEW c \in Calls, WritesRow(c)
  PROVE  [CardPromise!Next]_(CardPromise!vars)
<1>1. \A d \in Others \ {c} : Booked(d)' = Booked(d)
  BY DEF WritesRow, Booked, Others
<1>2. UNCHANGED pay
  BY DEF WritesRow
<1>3. CASE c \notin Others \/ Booked(c)' = Booked(c)
  BY <1>1, <1>2, <1>3 DEF CardPromise!vars
<1>4. CASE c \in Others /\ Booked(c)' # Booked(c)
  <2>1. /\ Money(c)' /\ Knowledge(c)' /\ Knowledge(c) /\ c \notin Own
        /\ NeverPaid(c) => NeverPaid(c)'
        /\ row[c] \in {"completed", "failed"} => row'[c] = row[c]
    BY <1>4, MoneyStep, FinalStep DEF Inv, VerdictInv, Kept, Others
  <2>2. Paid(c)' => pay[c] = "settled"
    BY <1>2, <2>1 DEF Paid
  <2>3. NeverPaid(c)' => pay[c] \in {"none", "failed"}
    BY <1>2, <2>1 DEF NeverPaid
  <2>4. c \in broken' \/ row'[c] = "completed" => pay[c] = "settled"
    BY <2>1, <2>2 DEF BrokenWasPaid, Knowledge
  <2>5. row'[c] = "failed" /\ c \notin broken' => pay[c] \in {"none", "failed"}
    BY <2>1, <2>3 DEF Knowledge
  <2>6. Booked(c) = "open"
    <3>1. CASE row[c] = "failed" /\ c \notin broken
      <4>1. pay[c] # "settled"
        BY <2>1, <2>3, <3>1 DEF Knowledge
      <4> QED
        BY <1>4, <2>1, <2>4, <3>1, <4>1 DEF Booked
    <3>2. CASE row[c] = "completed" \/ c \in broken
      BY <1>4, <2>1, <3>2 DEF Booked, WritesRow
    <3> QED
      BY <3>1, <3>2 DEF Booked
  <2>7. CASE Booked(c)' = "completed"
    <3>1. pay[c] = "settled"
      BY <2>4, <2>7 DEF Booked
    <3>2. CardPromise!Complete(c)
      BY <1>1, <1>2, <1>4, <2>6, <2>7, <3>1 DEF CardPromise!Complete
    <3> QED
      BY <1>4, <3>2 DEF CardPromise!Next, CardPromise!Act
  <2>8. CASE Booked(c)' = "failed"
    <3>1. pay[c] \in {"none", "failed"}
      BY <2>5, <2>8 DEF Booked
    <3>2. CardPromise!Fail(c)
      BY <1>1, <1>2, <1>4, <2>6, <2>8, <3>1 DEF CardPromise!Fail
    <3> QED
      BY <1>4, <3>2 DEF CardPromise!Next, CardPromise!Act
  <2> QED
    BY <1>4, <2>6, <2>7, <2>8 DEF Booked
<1> QED
  BY <1>3, <1>4

\* The wallet takes a request, or ends a payment.
LEMMA MoneyMoves ==
  ASSUME Inv, VerdictInv, NEW c \in Calls, World(c), UNCHANGED <<row, broken>>
  PROVE  [CardPromise!Next]_(CardPromise!vars)
<1>1. \A d \in Others : Booked(d)' = Booked(d)
  BY DEF Booked
<1>2. PICK s \in {"pending", "settled", "failed"} : pay' = [pay EXCEPT ![c] = s]
  BY DEF World, RequestArrives, PaymentSettles, PaymentFails
<1>3. pay'[c] = s /\ \A d \in Calls \ {c} : pay'[d] = pay[d]
  BY <1>2 DEF Inv, TypeOK
<1>4. CASE c \notin Others
  <2>1. \A d \in Others : pay'[d] = pay[d]
    BY <1>3, <1>4 DEF Others
  <2> QED
    BY <1>1, <2>1 DEF CardPromise!vars
<1>5. CASE c \in Others
  <2>1. c \notin Own /\ Others \subseteq Calls /\ Money(c) /\ Knowledge(c)
    BY <1>5 DEF Others, VerdictInv
  <2>2. CASE RequestArrives(c)
    <3>1. pay[c] = "none" /\ s = "pending"
      BY <1>2, <1>3, <2>1, <2>2 DEF RequestArrives, Money, Inv, TypeOK
    <3>2. Booked(c) # "failed"
      BY <2>1, <2>2, <3>1 DEF RequestArrives, Booked, Knowledge, NeverPaid
    <3>3. CardPromise!Deliver(c)
      BY <1>1, <1>3, <1>5, <2>1, <3>1, <3>2 DEF CardPromise!Deliver
    <3> QED
      BY <1>5, <3>3 DEF CardPromise!Next, CardPromise!Act
  <2>3. CASE PaymentSettles(c)
    <3>1. pay[c] = "pending" /\ s = "settled"
      BY <1>2, <1>3, <2>1, <2>3 DEF PaymentSettles, Inv, TypeOK
    <3>2. CardPromise!Settle(c)
      BY <1>1, <1>3, <1>5, <2>1, <3>1 DEF CardPromise!Settle
    <3> QED
      BY <1>5, <3>2 DEF CardPromise!Next, CardPromise!Act
  <2>4. CASE PaymentFails(c)
    <3>1. pay[c] = "pending" /\ s = "failed"
      BY <1>2, <1>3, <2>1, <2>4 DEF PaymentFails, Inv, TypeOK
    <3>2. CardPromise!Refuse(c)
      BY <1>1, <1>3, <1>5, <2>1, <3>1 DEF CardPromise!Refuse
    <3> QED
      BY <1>5, <3>2 DEF CardPromise!Next, CardPromise!Act
  <2> QED
    BY <2>2, <2>3, <2>4 DEF World
<1> QED
  BY <1>4, <1>5

\* Every step of a callback, of the reconciler and of the wallet is one of PayCall, or none.
LEMMA CardMoves ==
  ASSUME Inv, Inv', VerdictInv, VerdictInv', BrokenWasPaid', [Next]_vars
  PROVE  UNCHANGED <<pay, row, broken>> \/ [CardPromise!Next]_(CardPromise!vars)
<1>1. TypeOK
  BY DEF Inv
<1>2. CASE (\A c \in Others : pay'[c] = pay[c]) /\ UNCHANGED <<row, broken>>
  BY <1>2 DEF CardPromise!vars, Booked
<1> QED
  BY <1>1, <1>2, WhatMoves, RowMoves, MoneyMoves

\* The card's callbacks and the reconciler implement PayCall: a verdict that is true and
\* final, and no request of a failed row delivered later, for every invoice of somebody
\* else; the sends that pay an invoice of this server are final, too.
THEOREM SpecCardKeepsPromise == Spec => CardKeepsPromise
<1>1. Init => CardPromise!Init /\ BrokenWasPaid
  <2> SUFFICES ASSUME Init PROVE CardPromise!Init /\ BrokenWasPaid
    OBVIOUS
  <2>1. \A c \in Others : pay[c] = "none" /\ Booked(c) = "open" /\ (pay[c] # "none") = FALSE
    BY DEF Init, Booked, Others
  <2>2. BrokenWasPaid
    BY DEF Init, BrokenWasPaid
  <2> QED
    BY <2>1, <2>2 DEF CardPromise!Init
<1>2. Inv /\ VerdictInv /\ BrokenWasPaid /\ [Next]_vars => BrokenWasPaid'
  BY BrokenStep
<1>3. Inv /\ Inv' /\ VerdictInv /\ VerdictInv' /\ BrokenWasPaid' /\ [Next]_vars
        => [UNCHANGED <<pay, row, broken>> \/ CardStep]_vars
  BY CardMoves, FinalStep DEF CardStep, VerdictStays, Inv
<1> QED
  BY <1>1, <1>2, <1>3, SpecInv, VerdictSpecInv, PTL DEF Spec, CardKeepsPromise

\* The same, as PayCall states it: the other steps change nothing that it reads.
THEOREM SpecImplementsPayCall == Spec => CardPromise!Spec
<1>1. [UNCHANGED <<pay, row, broken>> \/ CardStep]_vars
        => [CardPromise!Next]_(CardPromise!vars)
  <2>1. UNCHANGED vars => UNCHANGED <<pay, row, broken>>
    BY DEF vars, worldVars
  <2>2. UNCHANGED <<pay, row, broken>> => UNCHANGED CardPromise!vars
    BY DEF CardPromise!vars, Booked
  <2> QED
    BY <2>1, <2>2 DEF CardStep
<1> QED
  BY <1>1, SpecCardKeepsPromise, PTL DEF CardKeepsPromise, CardPromise!Spec

=============================================================================
