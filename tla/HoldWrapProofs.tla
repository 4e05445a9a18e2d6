--------------------------- MODULE HoldWrapProofs ---------------------------
(***************************************************************************)
(* Theorems about HoldWrap, for any set of server processes, any set of    *)
(* concurrent cancelWrap calls and any setting of the switches; the last   *)
(* four, about reversed sales, when a refused pay request leaves a record. *)
(*                                                                         *)
(* None of the invariants is inductive alone: that a settled hold means a  *)
(* paid merchant rests on what each process believes while it is between   *)
(* two calls, and on what the rows it still holds say.  Inv collects these *)
(* beliefs.                                                                *)
(***************************************************************************)
EXTENDS HoldWrap, TLAPS

\* Places in doAdvance a process only reaches once the merchant was paid.
AfterForward == {"paid", "dupPaid", "settle", "settleFailed", "sawSettled", "earn"}

\* Every trace a paid merchant leaves is true: in the node's hold, in the row,
\* in a row some process read, in a process's position and in the partner's
\* ledger.
PaidTraces ==
  /\ hold = "settled" => out = "settled"
  /\ status \in {"forwarded", "settled"} => out = "settled"
  /\ \A p \in Instances : reader[p] = "forwarded" => out = "settled"
  /\ \A p \in Instances : worker[p] \in AfterForward => out = "settled"
  /\ earned => out = "settled"

\* The inductive invariant.
Inv == TypeOK /\ PaidTraces /\ SaleBookedOnce

-----------------------------------------------------------------------------

LEMMA InitInv == Init => Inv
<1> SUFFICES ASSUME Init PROVE Inv
  OBVIOUS
<1> USE DEF Init
<1>1. TypeOK
  BY DEF TypeOK, Clock, Hold, Outgoing, Status, OpenStates, ClaimAge, WorkerAt,
         CloserAt
<1>2. PaidTraces
  BY DEF PaidTraces, AfterForward
<1>3. SaleBookedOnce
  BY DEF SaleBookedOnce
<1> QED
  BY <1>1, <1>2, <1>3 DEF Inv

LEMMA TypeStep == TypeOK /\ [Next]_vars => TypeOK'
<1> SUFFICES ASSUME TypeOK, [Next]_vars PROVE TypeOK'
  OBVIOUS
<1> USE DEF TypeOK, Clock, Hold, Outgoing, Status, OpenStates, ClaimAge, WorkerAt,
            CloserAt, vars, nodeVars, rowVars, procVars, localVars, Goto,
            GotoCloser, SetWrapStatus, NodeStep, RowStep, LocalStep
<1>1. CASE World
  <2>1. CASE CustomerPays
    BY <2>1 DEF CustomerPays
  <2>2. CASE HoldLapses
    BY <2>2 DEF HoldLapses
  <2>3. CASE NodeReleasesHold
    BY <2>3 DEF NodeReleasesHold
  <2>4. CASE PaymentResolves
    BY <2>4 DEF PaymentResolves
  <2>5. CASE LateRequestArrives
    <3>1. late' \in BOOLEAN
      BY <2>5, Zenon DEF LateRequestArrives
    <3>2. out' \in Outgoing
      BY <2>5 DEF LateRequestArrives
    <3> QED
      BY <2>5, <3>1, <3>2 DEF LateRequestArrives
  <2>6. CASE Tick
    BY <2>6 DEF Tick
  <2>7. CASE ClaimAges
    BY <2>7 DEF ClaimAges
  <2> QED
    BY <1>1, <2>1, <2>2, <2>3, <2>4, <2>5, <2>6, <2>7 DEF World
<1>2. ASSUME NEW p \in Instances, Worker(p) PROVE TypeOK'
  <2>1. CASE ReadRow(p)
    BY <2>1 DEF ReadRow
  <2>2. CASE AdvanceWrap(p)
    BY <2>2 DEF AdvanceWrap, EntryOf
  <2>3. CASE Crash(p)
    BY <2>3 DEF Crash
  <2>4. CASE ThrottleExpires(p)
    BY <2>4 DEF ThrottleExpires
  <2>5. CASE LookHold(p)
    BY <2>5 DEF LookHold
  <2>6. CASE LookHoldFails(p)
    BY <2>6 DEF LookHoldFails
  <2>7. CASE MarkAccepted(p)
    BY <2>7 DEF MarkAccepted
  <2>8. CASE MarkClosed(p)
    BY <2>8 DEF MarkClosed
  <2>9. CASE StillUnpaid(p)
    BY <2>9 DEF StillUnpaid
  <2>10. CASE Claim(p)
    BY <2>10 DEF Claim
  <2>11. CASE PayInvoice(p)
    BY <2>11 DEF PayInvoice, Unresolved
  <2>12. CASE PayAnswered(p)
    BY <2>12 DEF PayAnswered
  <2>13. CASE PayAmbiguous(p)
    <3>1. late' \in BOOLEAN
      BY <2>13, Zenon DEF PayAmbiguous
    <3>2. worker' \in [Instances -> WorkerAt]
      BY <2>13 DEF PayAmbiguous, Unresolved
    <3> QED
      BY <2>13, <3>1, <3>2 DEF PayAmbiguous
  <2>14. CASE MarkForwarded(p)
    BY <2>14 DEF MarkForwarded
  <2>15. CASE ResolveDuplicate(p)
    BY <2>15 DEF ResolveDuplicate
  <2>16. CASE MarkDuplicateForwarded(p)
    BY <2>16 DEF MarkDuplicateForwarded
  <2>17. CASE CancelHold(p)
    BY <2>17 DEF CancelHold, CancelHoldOnNode
  <2>18. CASE CancelHoldFails(p)
    BY <2>18 DEF CancelHoldFails, Unresolved, CancelHoldOnNode
  <2>19. CASE MarkRefunded(p)
    BY <2>19 DEF MarkRefunded
  <2>20. CASE ClaimTooFresh(p)
    BY <2>20 DEF ClaimTooFresh
  <2>21. CASE RecoverForward(p)
    <3>1. aged' \in [Instances -> BOOLEAN]
      BY <2>21 DEF RecoverForward
    <3>2. throttled' \in [Instances -> BOOLEAN]
      BY <2>21 DEF RecoverForward
    <3>3. worker' \in [Instances -> WorkerAt]
      BY <2>21 DEF RecoverForward
    <3> QED
      BY <2>21, <3>1, <3>2, <3>3 DEF RecoverForward
  <2>22. CASE GiveUp(p)
    BY <2>22 DEF GiveUp
  <2>23. CASE SettleHold(p)
    BY <2>23 DEF SettleHold
  <2>24. CASE SettleHoldFails(p)
    BY <2>24 DEF SettleHoldFails
  <2>25. CASE AfterSettleFailed(p)
    BY <2>25 DEF AfterSettleFailed
  <2>26. CASE FinalizeSettled(p)
    BY <2>26 DEF FinalizeSettled
  <2>27. CASE RecordPartnerEarning(p)
    <3>1. earned' \in BOOLEAN
      BY <2>27, Zenon DEF RecordPartnerEarning
    <3> QED
      BY <2>27, <3>1 DEF RecordPartnerEarning
  <2> QED
    BY <1>2, <2>1, <2>2, <2>3, <2>4, <2>5, <2>6, <2>7, <2>8, <2>9, <2>10, <2>11, <2>12,
       <2>13, <2>14, <2>15, <2>16, <2>17, <2>18, <2>19, <2>20, <2>21, <2>22, <2>23, <2>24, <2>25, <2>26, <2>27
    DEF Worker, Advancing
<1>3. ASSUME NEW c \in Closers, Closer(c) PROVE TypeOK'
  <2>1. CASE StartCancelWrap(c)
    BY <2>1 DEF StartCancelWrap
  <2>2. CASE CancelBecomesAdvance(c)
    BY <2>2 DEF CancelBecomesAdvance
  <2>3. CASE CancelSeesUnpaid(c)
    BY <2>3 DEF CancelSeesUnpaid
  <2>4. CASE CancelLookupFails(c)
    BY <2>4 DEF CancelLookupFails
  <2>5. CASE CloseCheckout(c)
    BY <2>5 DEF CloseCheckout
  <2>6. CASE CleanupHold(c)
    BY <2>6 DEF CleanupHold, CancelHoldOnNode
  <2>7. CASE CrashCloser(c)
    BY <2>7 DEF CrashCloser
  <2> QED
    BY <1>3, <2>1, <2>2, <2>3, <2>4, <2>5, <2>6, <2>7 DEF Closer
<1>4. CASE UNCHANGED vars
  BY <1>4
<1> QED
  BY <1>1, <1>2, <1>3, <1>4 DEF Next

\* A payment that went through stays so: no call and no late request undoes it.
LEMMA OutStable == [Next]_vars => (out = "settled" => out' = "settled")
<1> SUFFICES ASSUME [Next]_vars, out = "settled" PROVE out' = "settled"
  OBVIOUS
<1> USE DEF vars, nodeVars, rowVars, procVars, localVars, Goto, GotoCloser,
            SetWrapStatus, NodeStep, RowStep, LocalStep
<1>1. CASE World
  <2>1. CASE CustomerPays
    BY <2>1 DEF CustomerPays
  <2>2. CASE HoldLapses
    BY <2>2 DEF HoldLapses
  <2>3. CASE NodeReleasesHold
    BY <2>3 DEF NodeReleasesHold
  <2>4. CASE PaymentResolves
    BY <2>4 DEF PaymentResolves
  <2>5. CASE LateRequestArrives
    BY <2>5 DEF LateRequestArrives
  <2>6. CASE Tick
    BY <2>6 DEF Tick
  <2>7. CASE ClaimAges
    BY <2>7 DEF ClaimAges
  <2> QED
    BY <1>1, <2>1, <2>2, <2>3, <2>4, <2>5, <2>6, <2>7 DEF World
<1>2. ASSUME NEW p \in Instances, Worker(p) PROVE out' = "settled"
  <2>1. CASE ReadRow(p)
    BY <2>1 DEF ReadRow
  <2>2. CASE AdvanceWrap(p)
    BY <2>2 DEF AdvanceWrap, EntryOf
  <2>3. CASE Crash(p)
    BY <2>3 DEF Crash
  <2>4. CASE ThrottleExpires(p)
    BY <2>4 DEF ThrottleExpires
  <2>5. CASE LookHold(p)
    BY <2>5 DEF LookHold
  <2>6. CASE LookHoldFails(p)
    BY <2>6 DEF LookHoldFails
  <2>7. CASE MarkAccepted(p)
    BY <2>7 DEF MarkAccepted
  <2>8. CASE MarkClosed(p)
    BY <2>8 DEF MarkClosed
  <2>9. CASE StillUnpaid(p)
    BY <2>9 DEF StillUnpaid
  <2>10. CASE Claim(p)
    BY <2>10 DEF Claim
  <2>11. CASE PayInvoice(p)
    BY <2>11 DEF PayInvoice, Unresolved
  <2>12. CASE PayAnswered(p)
    BY <2>12 DEF PayAnswered
  <2>13. CASE PayAmbiguous(p)
    BY <2>13 DEF PayAmbiguous, Unresolved
  <2>14. CASE MarkForwarded(p)
    BY <2>14 DEF MarkForwarded
  <2>15. CASE ResolveDuplicate(p)
    BY <2>15 DEF ResolveDuplicate
  <2>16. CASE MarkDuplicateForwarded(p)
    BY <2>16 DEF MarkDuplicateForwarded
  <2>17. CASE CancelHold(p)
    BY <2>17 DEF CancelHold, CancelHoldOnNode
  <2>18. CASE CancelHoldFails(p)
    BY <2>18 DEF CancelHoldFails, Unresolved, CancelHoldOnNode
  <2>19. CASE MarkRefunded(p)
    BY <2>19 DEF MarkRefunded
  <2>20. CASE ClaimTooFresh(p)
    BY <2>20 DEF ClaimTooFresh
  <2>21. CASE RecoverForward(p)
    BY <2>21 DEF RecoverForward
  <2>22. CASE GiveUp(p)
    BY <2>22 DEF GiveUp
  <2>23. CASE SettleHold(p)
    BY <2>23 DEF SettleHold
  <2>24. CASE SettleHoldFails(p)
    BY <2>24 DEF SettleHoldFails
  <2>25. CASE AfterSettleFailed(p)
    BY <2>25 DEF AfterSettleFailed
  <2>26. CASE FinalizeSettled(p)
    BY <2>26 DEF FinalizeSettled
  <2>27. CASE RecordPartnerEarning(p)
    BY <2>27 DEF RecordPartnerEarning
  <2> QED
    BY <1>2, <2>1, <2>2, <2>3, <2>4, <2>5, <2>6, <2>7, <2>8, <2>9, <2>10,
       <2>11, <2>12, <2>13, <2>14, <2>15, <2>16, <2>17, <2>18, <2>19, <2>20,
       <2>21, <2>22, <2>23, <2>24, <2>25, <2>26, <2>27 DEF Worker, Advancing
<1>3. ASSUME NEW c \in Closers, Closer(c) PROVE out' = "settled"
  <2>1. CASE StartCancelWrap(c)
    BY <2>1 DEF StartCancelWrap
  <2>2. CASE CancelBecomesAdvance(c)
    BY <2>2 DEF CancelBecomesAdvance
  <2>3. CASE CancelSeesUnpaid(c)
    BY <2>3 DEF CancelSeesUnpaid
  <2>4. CASE CancelLookupFails(c)
    BY <2>4 DEF CancelLookupFails
  <2>5. CASE CloseCheckout(c)
    BY <2>5 DEF CloseCheckout
  <2>6. CASE CleanupHold(c)
    BY <2>6 DEF CleanupHold, CancelHoldOnNode
  <2>7. CASE CrashCloser(c)
    BY <2>7 DEF CrashCloser
  <2> QED
    BY <1>3, <2>1, <2>2, <2>3, <2>4, <2>5, <2>6, <2>7 DEF Closer
<1>4. CASE UNCHANGED vars
  BY <1>4
<1> QED
  BY <1>1, <1>2, <1>3, <1>4 DEF Next

LEMMA TracesStep == TypeOK /\ PaidTraces /\ [Next]_vars => PaidTraces'
<1> SUFFICES ASSUME TypeOK, PaidTraces, [Next]_vars PROVE PaidTraces'
  OBVIOUS
<1>0. out = "settled" => out' = "settled"
  BY OutStable
<1> USE <1>0 DEF TypeOK, PaidTraces, AfterForward, OpenStates,
            vars, nodeVars, rowVars, procVars, localVars, Goto, GotoCloser,
            SetWrapStatus, NodeStep, RowStep, LocalStep
<1>1. CASE World
  <2>1. CASE CustomerPays
    BY <2>1 DEF CustomerPays
  <2>2. CASE HoldLapses
    BY <2>2 DEF HoldLapses
  <2>3. CASE NodeReleasesHold
    BY <2>3 DEF NodeReleasesHold
  <2>4. CASE PaymentResolves
    BY <2>4 DEF PaymentResolves
  <2>5. CASE LateRequestArrives
    BY <2>5 DEF LateRequestArrives
  <2>6. CASE Tick
    BY <2>6 DEF Tick
  <2>7. CASE ClaimAges
    BY <2>7 DEF ClaimAges
  <2> QED
    BY <1>1, <2>1, <2>2, <2>3, <2>4, <2>5, <2>6, <2>7 DEF World
<1>2. ASSUME NEW p \in Instances, Worker(p) PROVE PaidTraces'
  <2>1. CASE ReadRow(p)
    BY <2>1 DEF ReadRow
  <2>2. CASE AdvanceWrap(p)
    BY <2>2 DEF AdvanceWrap, EntryOf
  <2>3. CASE Crash(p)
    BY <2>3 DEF Crash
  <2>4. CASE ThrottleExpires(p)
    BY <2>4 DEF ThrottleExpires
  <2>5. CASE LookHold(p)
    BY <2>5 DEF LookHold
  <2>6. CASE LookHoldFails(p)
    BY <2>6 DEF LookHoldFails
  <2>7. CASE MarkAccepted(p)
    BY <2>7 DEF MarkAccepted
  <2>8. CASE MarkClosed(p)
    BY <2>8 DEF MarkClosed
  <2>9. CASE StillUnpaid(p)
    BY <2>9 DEF StillUnpaid
  <2>10. CASE Claim(p)
    BY <2>10 DEF Claim
  <2>11. CASE PayInvoice(p)
    BY <2>11 DEF PayInvoice, Unresolved
  <2>12. CASE PayAnswered(p)
    BY <2>12 DEF PayAnswered
  <2>13. CASE PayAmbiguous(p)
    BY <2>13 DEF PayAmbiguous, Unresolved
  <2>14. CASE MarkForwarded(p)
    BY <2>14 DEF MarkForwarded
  <2>15. CASE ResolveDuplicate(p)
    BY <2>15 DEF ResolveDuplicate
  <2>16. CASE MarkDuplicateForwarded(p)
    BY <2>16 DEF MarkDuplicateForwarded
  <2>17. CASE CancelHold(p)
    BY <2>17 DEF CancelHold, CancelHoldOnNode
  <2>18. CASE CancelHoldFails(p)
    BY <2>18 DEF CancelHoldFails, Unresolved, CancelHoldOnNode
  <2>19. CASE MarkRefunded(p)
    BY <2>19 DEF MarkRefunded
  <2>20. CASE ClaimTooFresh(p)
    BY <2>20 DEF ClaimTooFresh
  <2>21. CASE RecoverForward(p)
    BY <2>21 DEF RecoverForward
  <2>22. CASE GiveUp(p)
    BY <2>22 DEF GiveUp
  <2>23. CASE SettleHold(p)
    BY <2>23 DEF SettleHold
  <2>24. CASE SettleHoldFails(p)
    BY <2>24 DEF SettleHoldFails
  <2>25. CASE AfterSettleFailed(p)
    BY <2>25 DEF AfterSettleFailed
  <2>26. CASE FinalizeSettled(p)
    BY <2>26 DEF FinalizeSettled
  <2>27. CASE RecordPartnerEarning(p)
    BY <2>27 DEF RecordPartnerEarning
  <2> QED
    BY <1>2, <2>1, <2>2, <2>3, <2>4, <2>5, <2>6, <2>7, <2>8, <2>9, <2>10,
       <2>11, <2>12, <2>13, <2>14, <2>15, <2>16, <2>17, <2>18, <2>19, <2>20,
       <2>21, <2>22, <2>23, <2>24, <2>25, <2>26, <2>27 DEF Worker, Advancing
<1>3. ASSUME NEW c \in Closers, Closer(c) PROVE PaidTraces'
  <2>1. CASE StartCancelWrap(c)
    BY <2>1 DEF StartCancelWrap
  <2>2. CASE CancelBecomesAdvance(c)
    BY <2>2 DEF CancelBecomesAdvance
  <2>3. CASE CancelSeesUnpaid(c)
    BY <2>3 DEF CancelSeesUnpaid
  <2>4. CASE CancelLookupFails(c)
    BY <2>4 DEF CancelLookupFails
  <2>5. CASE CloseCheckout(c)
    BY <2>5 DEF CloseCheckout
  <2>6. CASE CleanupHold(c)
    BY <2>6 DEF CleanupHold, CancelHoldOnNode
  <2>7. CASE CrashCloser(c)
    BY <2>7 DEF CrashCloser
  <2> QED
    BY <1>3, <2>1, <2>2, <2>3, <2>4, <2>5, <2>6, <2>7 DEF Closer
<1>4. CASE UNCHANGED vars
  BY <1>4
<1> QED
  BY <1>1, <1>2, <1>3, <1>4 DEF Next

LEMMA BookedStep == TypeOK /\ SaleBookedOnce /\ [Next]_vars => SaleBookedOnce'
<1> SUFFICES ASSUME TypeOK, SaleBookedOnce, [Next]_vars PROVE SaleBookedOnce'
  OBVIOUS
<1> USE DEF TypeOK, SaleBookedOnce, OpenStates,
            vars, nodeVars, rowVars, procVars, localVars, Goto, GotoCloser,
            SetWrapStatus, NodeStep, RowStep, LocalStep
<1>1. CASE World
  <2>1. CASE CustomerPays
    BY <2>1 DEF CustomerPays
  <2>2. CASE HoldLapses
    BY <2>2 DEF HoldLapses
  <2>3. CASE NodeReleasesHold
    BY <2>3 DEF NodeReleasesHold
  <2>4. CASE PaymentResolves
    BY <2>4 DEF PaymentResolves
  <2>5. CASE LateRequestArrives
    BY <2>5 DEF LateRequestArrives
  <2>6. CASE Tick
    BY <2>6 DEF Tick
  <2>7. CASE ClaimAges
    BY <2>7 DEF ClaimAges
  <2> QED
    BY <1>1, <2>1, <2>2, <2>3, <2>4, <2>5, <2>6, <2>7 DEF World
<1>2. ASSUME NEW p \in Instances, Worker(p) PROVE SaleBookedOnce'
  <2>1. CASE ReadRow(p)
    BY <2>1 DEF ReadRow
  <2>2. CASE AdvanceWrap(p)
    BY <2>2 DEF AdvanceWrap, EntryOf
  <2>3. CASE Crash(p)
    BY <2>3 DEF Crash
  <2>4. CASE ThrottleExpires(p)
    BY <2>4 DEF ThrottleExpires
  <2>5. CASE LookHold(p)
    BY <2>5 DEF LookHold
  <2>6. CASE LookHoldFails(p)
    BY <2>6 DEF LookHoldFails
  <2>7. CASE MarkAccepted(p)
    BY <2>7 DEF MarkAccepted
  <2>8. CASE MarkClosed(p)
    BY <2>8 DEF MarkClosed
  <2>9. CASE StillUnpaid(p)
    BY <2>9 DEF StillUnpaid
  <2>10. CASE Claim(p)
    BY <2>10 DEF Claim
  <2>11. CASE PayInvoice(p)
    BY <2>11 DEF PayInvoice, Unresolved
  <2>12. CASE PayAnswered(p)
    BY <2>12 DEF PayAnswered
  <2>13. CASE PayAmbiguous(p)
    BY <2>13 DEF PayAmbiguous, Unresolved
  <2>14. CASE MarkForwarded(p)
    BY <2>14 DEF MarkForwarded
  <2>15. CASE ResolveDuplicate(p)
    BY <2>15 DEF ResolveDuplicate
  <2>16. CASE MarkDuplicateForwarded(p)
    BY <2>16 DEF MarkDuplicateForwarded
  <2>17. CASE CancelHold(p)
    BY <2>17 DEF CancelHold, CancelHoldOnNode
  <2>18. CASE CancelHoldFails(p)
    BY <2>18 DEF CancelHoldFails, Unresolved, CancelHoldOnNode
  <2>19. CASE MarkRefunded(p)
    BY <2>19 DEF MarkRefunded
  <2>20. CASE ClaimTooFresh(p)
    BY <2>20 DEF ClaimTooFresh
  <2>21. CASE RecoverForward(p)
    BY <2>21 DEF RecoverForward
  <2>22. CASE GiveUp(p)
    BY <2>22 DEF GiveUp
  <2>23. CASE SettleHold(p)
    BY <2>23 DEF SettleHold
  <2>24. CASE SettleHoldFails(p)
    BY <2>24 DEF SettleHoldFails
  <2>25. CASE AfterSettleFailed(p)
    BY <2>25 DEF AfterSettleFailed
  <2>26. CASE FinalizeSettled(p)
    BY <2>26 DEF FinalizeSettled
  <2>27. CASE RecordPartnerEarning(p)
    BY <2>27 DEF RecordPartnerEarning
  <2> QED
    BY <1>2, <2>1, <2>2, <2>3, <2>4, <2>5, <2>6, <2>7, <2>8, <2>9, <2>10,
       <2>11, <2>12, <2>13, <2>14, <2>15, <2>16, <2>17, <2>18, <2>19, <2>20,
       <2>21, <2>22, <2>23, <2>24, <2>25, <2>26, <2>27 DEF Worker, Advancing
<1>3. ASSUME NEW c \in Closers, Closer(c) PROVE SaleBookedOnce'
  <2>1. CASE StartCancelWrap(c)
    BY <2>1 DEF StartCancelWrap
  <2>2. CASE CancelBecomesAdvance(c)
    BY <2>2 DEF CancelBecomesAdvance
  <2>3. CASE CancelSeesUnpaid(c)
    BY <2>3 DEF CancelSeesUnpaid
  <2>4. CASE CancelLookupFails(c)
    BY <2>4 DEF CancelLookupFails
  <2>5. CASE CloseCheckout(c)
    BY <2>5 DEF CloseCheckout
  <2>6. CASE CleanupHold(c)
    BY <2>6 DEF CleanupHold, CancelHoldOnNode
  <2>7. CASE CrashCloser(c)
    BY <2>7 DEF CrashCloser
  <2> QED
    BY <1>3, <2>1, <2>2, <2>3, <2>4, <2>5, <2>6, <2>7 DEF Closer
<1>4. CASE UNCHANGED vars
  BY <1>4
<1> QED
  BY <1>1, <1>2, <1>3, <1>4 DEF Next

LEMMA InvStep == Inv /\ [Next]_vars => Inv'
  BY TypeStep, TracesStep, BookedStep DEF Inv

LEMMA SpecInv == Spec => []Inv
  BY InitInv, InvStep, PTL DEF Spec

-----------------------------------------------------------------------------
(* The safety invariants *)

\* Every variable of the engine keeps its type, in every process.
THEOREM SpecTypeOK == Spec => []TypeOK
  BY SpecInv, PTL DEF Inv

\* The hold is only ever settled once the merchant was paid, whichever process
\* settles it, after whatever crashes and lost replies: the customer never
\* pays for nothing.
THEOREM SpecMerchantPaidFirst == Spec => []MerchantPaidFirst
<1>1. Inv => MerchantPaidFirst
  BY DEF Inv, PaidTraces, MerchantPaidFirst
<1> QED
  BY SpecInv, <1>1, PTL

\* A row that the status view shows as paid is one whose merchant was paid, the receipt
\* exists exactly when the row is settled, and once, and a partner only earns on a sale
\* whose merchant was paid, however many processes run finalizeSettled and how often.
THEOREM SpecBooksAreTrue == Spec => []BooksAreTrue
<1>1. Inv => PaidViewIsTrue
  BY DEF Inv, PaidTraces, PaidViewIsTrue
<1>2. Inv => EarningNeedsPaidMerchant
  BY DEF Inv, PaidTraces, EarningNeedsPaidMerchant
<1>3. Inv => BooksAreTrue
  BY <1>1, <1>2 DEF Inv, BooksAreTrue
<1> QED
  BY SpecInv, <1>3, PTL

-----------------------------------------------------------------------------
(* The row moves forward *)

LEMMA ForwardStep ==
  TypeOK /\ [Next]_vars => (status' # status => Rank(status) < Rank(status'))
<1> SUFFICES ASSUME TypeOK, [Next]_vars
             PROVE  status' # status => Rank(status) < Rank(status')
  OBVIOUS
<1> USE DEF TypeOK, Status, OpenStates, Rank,
            vars, nodeVars, rowVars, procVars, localVars, Goto, GotoCloser,
            SetWrapStatus, NodeStep, RowStep, LocalStep
<1>1. CASE World
  <2>1. CASE CustomerPays
    BY <2>1 DEF CustomerPays
  <2>2. CASE HoldLapses
    BY <2>2 DEF HoldLapses
  <2>3. CASE NodeReleasesHold
    BY <2>3 DEF NodeReleasesHold
  <2>4. CASE PaymentResolves
    BY <2>4 DEF PaymentResolves
  <2>5. CASE LateRequestArrives
    BY <2>5 DEF LateRequestArrives
  <2>6. CASE Tick
    BY <2>6 DEF Tick
  <2>7. CASE ClaimAges
    BY <2>7 DEF ClaimAges
  <2> QED
    BY <1>1, <2>1, <2>2, <2>3, <2>4, <2>5, <2>6, <2>7 DEF World
<1>2. ASSUME NEW p \in Instances,
       Worker(p) PROVE status' # status => Rank(status) < Rank(status')
  <2>1. CASE ReadRow(p)
    BY <2>1 DEF ReadRow
  <2>2. CASE AdvanceWrap(p)
    BY <2>2 DEF AdvanceWrap, EntryOf
  <2>3. CASE Crash(p)
    BY <2>3 DEF Crash
  <2>4. CASE ThrottleExpires(p)
    BY <2>4 DEF ThrottleExpires
  <2>5. CASE LookHold(p)
    BY <2>5 DEF LookHold
  <2>6. CASE LookHoldFails(p)
    BY <2>6 DEF LookHoldFails
  <2>7. CASE MarkAccepted(p)
    BY <2>7 DEF MarkAccepted
  <2>8. CASE MarkClosed(p)
    BY <2>8 DEF MarkClosed
  <2>9. CASE StillUnpaid(p)
    BY <2>9 DEF StillUnpaid
  <2>10. CASE Claim(p)
    BY <2>10 DEF Claim
  <2>11. CASE PayInvoice(p)
    BY <2>11 DEF PayInvoice, Unresolved
  <2>12. CASE PayAnswered(p)
    BY <2>12 DEF PayAnswered
  <2>13. CASE PayAmbiguous(p)
    BY <2>13 DEF PayAmbiguous, Unresolved
  <2>14. CASE MarkForwarded(p)
    BY <2>14 DEF MarkForwarded
  <2>15. CASE ResolveDuplicate(p)
    BY <2>15 DEF ResolveDuplicate
  <2>16. CASE MarkDuplicateForwarded(p)
    BY <2>16 DEF MarkDuplicateForwarded
  <2>17. CASE CancelHold(p)
    BY <2>17 DEF CancelHold, CancelHoldOnNode
  <2>18. CASE CancelHoldFails(p)
    BY <2>18 DEF CancelHoldFails, Unresolved, CancelHoldOnNode
  <2>19. CASE MarkRefunded(p)
    BY <2>19 DEF MarkRefunded
  <2>20. CASE ClaimTooFresh(p)
    BY <2>20 DEF ClaimTooFresh
  <2>21. CASE RecoverForward(p)
    BY <2>21 DEF RecoverForward
  <2>22. CASE GiveUp(p)
    BY <2>22 DEF GiveUp
  <2>23. CASE SettleHold(p)
    BY <2>23 DEF SettleHold
  <2>24. CASE SettleHoldFails(p)
    BY <2>24 DEF SettleHoldFails
  <2>25. CASE AfterSettleFailed(p)
    BY <2>25 DEF AfterSettleFailed
  <2>26. CASE FinalizeSettled(p)
    BY <2>26 DEF FinalizeSettled
  <2>27. CASE RecordPartnerEarning(p)
    BY <2>27 DEF RecordPartnerEarning
  <2> QED
    BY <1>2, <2>1, <2>2, <2>3, <2>4, <2>5, <2>6, <2>7, <2>8, <2>9, <2>10,
       <2>11, <2>12, <2>13, <2>14, <2>15, <2>16, <2>17, <2>18, <2>19, <2>20,
       <2>21, <2>22, <2>23, <2>24, <2>25, <2>26, <2>27 DEF Worker, Advancing
<1>3. ASSUME NEW c \in Closers,
       Closer(c) PROVE status' # status => Rank(status) < Rank(status')
  <2>1. CASE StartCancelWrap(c)
    BY <2>1 DEF StartCancelWrap
  <2>2. CASE CancelBecomesAdvance(c)
    BY <2>2 DEF CancelBecomesAdvance
  <2>3. CASE CancelSeesUnpaid(c)
    BY <2>3 DEF CancelSeesUnpaid
  <2>4. CASE CancelLookupFails(c)
    BY <2>4 DEF CancelLookupFails
  <2>5. CASE CloseCheckout(c)
    BY <2>5 DEF CloseCheckout
  <2>6. CASE CleanupHold(c)
    BY <2>6 DEF CleanupHold, CancelHoldOnNode
  <2>7. CASE CrashCloser(c)
    BY <2>7 DEF CrashCloser
  <2> QED
    BY <1>3, <2>1, <2>2, <2>3, <2>4, <2>5, <2>6, <2>7 DEF Closer
<1>4. CASE UNCHANGED vars
  BY <1>4
<1> QED
  BY <1>1, <1>2, <1>3, <1>4 DEF Next

\* No process, however old the row it holds, reopens a closed sale or takes the
\* row back to an earlier state.
THEOREM SpecStatusMovesForward == Spec => StatusMovesForward
<1>1. Inv /\ [Next]_vars => [status' # status => Rank(status) < Rank(status')]_vars
  BY ForwardStep DEF Inv
<1> QED
  BY SpecInv, <1>1, PTL DEF Spec, StatusMovesForward

-----------------------------------------------------------------------------
(* The refinement *)

\* Until the customer's HTLC is locked nothing was sent to the merchant, and no
\* process believes anything else.
NothingBeforeLock ==
  hold \in {"open", "lapsed"} =>
    /\ out = "none"
    /\ late = FALSE
    /\ status \in {"created", "cancelled"}
    /\ \A p \in Instances :
         /\ reader[p] \in {"none", "created"}
         /\ worker[p] \in {"idle", "lookHold", "sawOpen", "sawFailed"}

LEMMA LockStep == TypeOK /\ NothingBeforeLock /\ [Next]_vars => NothingBeforeLock'
<1> SUFFICES ASSUME TypeOK, NothingBeforeLock, [Next]_vars PROVE NothingBeforeLock'
  OBVIOUS
<1> USE DEF TypeOK, NothingBeforeLock, Hold, OpenStates,
            vars, nodeVars, rowVars, procVars, localVars, Goto, GotoCloser,
            SetWrapStatus, NodeStep, RowStep, LocalStep
<1>1. CASE World
  <2>1. CASE CustomerPays
    BY <2>1 DEF CustomerPays
  <2>2. CASE HoldLapses
    BY <2>2 DEF HoldLapses
  <2>3. CASE NodeReleasesHold
    BY <2>3 DEF NodeReleasesHold
  <2>4. CASE PaymentResolves
    BY <2>4 DEF PaymentResolves
  <2>5. CASE LateRequestArrives
    BY <2>5 DEF LateRequestArrives
  <2>6. CASE Tick
    BY <2>6 DEF Tick
  <2>7. CASE ClaimAges
    BY <2>7 DEF ClaimAges
  <2> QED
    BY <1>1, <2>1, <2>2, <2>3, <2>4, <2>5, <2>6, <2>7 DEF World
<1>2. ASSUME NEW p \in Instances, Worker(p) PROVE NothingBeforeLock'
  <2>1. CASE ReadRow(p)
    BY <2>1 DEF ReadRow
  <2>2. CASE AdvanceWrap(p)
    BY <2>2 DEF AdvanceWrap, EntryOf
  <2>3. CASE Crash(p)
    BY <2>3 DEF Crash
  <2>4. CASE ThrottleExpires(p)
    BY <2>4 DEF ThrottleExpires
  <2>5. CASE LookHold(p)
    BY <2>5 DEF LookHold
  <2>6. CASE LookHoldFails(p)
    BY <2>6 DEF LookHoldFails
  <2>7. CASE MarkAccepted(p)
    BY <2>7 DEF MarkAccepted
  <2>8. CASE MarkClosed(p)
    BY <2>8 DEF MarkClosed
  <2>9. CASE StillUnpaid(p)
    BY <2>9 DEF StillUnpaid
  <2>10. CASE Claim(p)
    BY <2>10 DEF Claim
  <2>11. CASE PayInvoice(p)
    BY <2>11 DEF PayInvoice, Unresolved
  <2>12. CASE PayAnswered(p)
    BY <2>12 DEF PayAnswered
  <2>13. CASE PayAmbiguous(p)
    BY <2>13 DEF PayAmbiguous, Unresolved
  <2>14. CASE MarkForwarded(p)
    BY <2>14 DEF MarkForwarded
  <2>15. CASE ResolveDuplicate(p)
    BY <2>15 DEF ResolveDuplicate
  <2>16. CASE MarkDuplicateForwarded(p)
    BY <2>16 DEF MarkDuplicateForwarded
  <2>17. CASE CancelHold(p)
    BY <2>17 DEF CancelHold, CancelHoldOnNode
  <2>18. CASE CancelHoldFails(p)
    BY <2>18 DEF CancelHoldFails, Unresolved, CancelHoldOnNode
  <2>19. CASE MarkRefunded(p)
    BY <2>19 DEF MarkRefunded
  <2>20. CASE ClaimTooFresh(p)
    BY <2>20 DEF ClaimTooFresh
  <2>21. CASE RecoverForward(p)
    BY <2>21 DEF RecoverForward
  <2>22. CASE GiveUp(p)
    BY <2>22 DEF GiveUp
  <2>23. CASE SettleHold(p)
    BY <2>23 DEF SettleHold
  <2>24. CASE SettleHoldFails(p)
    BY <2>24 DEF SettleHoldFails
  <2>25. CASE AfterSettleFailed(p)
    BY <2>25 DEF AfterSettleFailed
  <2>26. CASE FinalizeSettled(p)
    BY <2>26 DEF FinalizeSettled
  <2>27. CASE RecordPartnerEarning(p)
    BY <2>27 DEF RecordPartnerEarning
  <2> QED
    BY <1>2, <2>1, <2>2, <2>3, <2>4, <2>5, <2>6, <2>7, <2>8, <2>9, <2>10,
       <2>11, <2>12, <2>13, <2>14, <2>15, <2>16, <2>17, <2>18, <2>19, <2>20,
       <2>21, <2>22, <2>23, <2>24, <2>25, <2>26, <2>27 DEF Worker, Advancing
<1>3. ASSUME NEW c \in Closers, Closer(c) PROVE NothingBeforeLock'
  <2>1. CASE StartCancelWrap(c)
    BY <2>1 DEF StartCancelWrap
  <2>2. CASE CancelBecomesAdvance(c)
    BY <2>2 DEF CancelBecomesAdvance
  <2>3. CASE CancelSeesUnpaid(c)
    BY <2>3 DEF CancelSeesUnpaid
  <2>4. CASE CancelLookupFails(c)
    BY <2>4 DEF CancelLookupFails
  <2>5. CASE CloseCheckout(c)
    BY <2>5 DEF CloseCheckout
  <2>6. CASE CleanupHold(c)
    BY <2>6 DEF CleanupHold, CancelHoldOnNode
  <2>7. CASE CrashCloser(c)
    BY <2>7 DEF CrashCloser
  <2> QED
    BY <1>3, <2>1, <2>2, <2>3, <2>4, <2>5, <2>6, <2>7 DEF Closer
<1>4. CASE UNCHANGED vars
  BY <1>4
<1> QED
  BY <1>1, <1>2, <1>3, <1>4 DEF Next

LEMMA RefineStep ==
  Inv /\ NothingBeforeLock /\ [Next]_vars => [Sale!Next]_Sale!vars
<1> SUFFICES ASSUME Inv, NothingBeforeLock, [Next]_vars
             PROVE  [Sale!Next]_Sale!vars
  OBVIOUS
<1> USE DEF Inv, TypeOK, PaidTraces, NothingBeforeLock, AfterForward, Hold, Outgoing,
            Status, OpenStates,
            Sale!Next, Sale!vars, Sale!Lock, Sale!PayMerchant, Sale!Charge,
            Sale!Return, Sale!Sell, Sale!Close,
            vars, nodeVars, rowVars, procVars, localVars, Goto, GotoCloser,
            SetWrapStatus, NodeStep, RowStep, LocalStep
<1>1. CASE World
  <2>1. CASE CustomerPays
    BY <2>1 DEF CustomerPays
  <2>2. CASE HoldLapses
    BY <2>2 DEF HoldLapses
  <2>3. CASE NodeReleasesHold
    BY <2>3 DEF NodeReleasesHold
  <2>4. CASE PaymentResolves
    BY <2>4 DEF PaymentResolves
  <2>5. CASE LateRequestArrives
    BY <2>5 DEF LateRequestArrives
  <2>6. CASE Tick
    BY <2>6 DEF Tick
  <2>7. CASE ClaimAges
    BY <2>7 DEF ClaimAges
  <2> QED
    BY <1>1, <2>1, <2>2, <2>3, <2>4, <2>5, <2>6, <2>7 DEF World
<1>2. ASSUME NEW p \in Instances, Worker(p) PROVE [Sale!Next]_Sale!vars
  <2>1. CASE ReadRow(p)
    BY <2>1 DEF ReadRow
  <2>2. CASE AdvanceWrap(p)
    BY <2>2 DEF AdvanceWrap, EntryOf
  <2>3. CASE Crash(p)
    BY <2>3 DEF Crash
  <2>4. CASE ThrottleExpires(p)
    BY <2>4 DEF ThrottleExpires
  <2>5. CASE LookHold(p)
    BY <2>5 DEF LookHold
  <2>6. CASE LookHoldFails(p)
    BY <2>6 DEF LookHoldFails
  <2>7. CASE MarkAccepted(p)
    BY <2>7 DEF MarkAccepted
  <2>8. CASE MarkClosed(p)
    BY <2>8 DEF MarkClosed
  <2>9. CASE StillUnpaid(p)
    BY <2>9 DEF StillUnpaid
  <2>10. CASE Claim(p)
    BY <2>10 DEF Claim
  <2>11. CASE PayInvoice(p)
    BY <2>11 DEF PayInvoice, Unresolved
  <2>12. CASE PayAnswered(p)
    BY <2>12 DEF PayAnswered
  <2>13. CASE PayAmbiguous(p)
    BY <2>13 DEF PayAmbiguous, Unresolved
  <2>14. CASE MarkForwarded(p)
    BY <2>14 DEF MarkForwarded
  <2>15. CASE ResolveDuplicate(p)
    BY <2>15 DEF ResolveDuplicate
  <2>16. CASE MarkDuplicateForwarded(p)
    BY <2>16 DEF MarkDuplicateForwarded
  <2>17. CASE CancelHold(p)
    BY <2>17 DEF CancelHold, CancelHoldOnNode
  <2>18. CASE CancelHoldFails(p)
    BY <2>18 DEF CancelHoldFails, Unresolved, CancelHoldOnNode
  <2>19. CASE MarkRefunded(p)
    BY <2>19 DEF MarkRefunded
  <2>20. CASE ClaimTooFresh(p)
    BY <2>20 DEF ClaimTooFresh
  <2>21. CASE RecoverForward(p)
    BY <2>21 DEF RecoverForward
  <2>22. CASE GiveUp(p)
    BY <2>22 DEF GiveUp
  <2>23. CASE SettleHold(p)
    BY <2>23 DEF SettleHold
  <2>24. CASE SettleHoldFails(p)
    BY <2>24 DEF SettleHoldFails
  <2>25. CASE AfterSettleFailed(p)
    BY <2>25 DEF AfterSettleFailed
  <2>26. CASE FinalizeSettled(p)
    BY <2>26 DEF FinalizeSettled
  <2>27. CASE RecordPartnerEarning(p)
    BY <2>27 DEF RecordPartnerEarning
  <2> QED
    BY <1>2, <2>1, <2>2, <2>3, <2>4, <2>5, <2>6, <2>7, <2>8, <2>9, <2>10,
       <2>11, <2>12, <2>13, <2>14, <2>15, <2>16, <2>17, <2>18, <2>19, <2>20,
       <2>21, <2>22, <2>23, <2>24, <2>25, <2>26, <2>27 DEF Worker, Advancing
<1>3. ASSUME NEW c \in Closers, Closer(c) PROVE [Sale!Next]_Sale!vars
  <2>1. CASE StartCancelWrap(c)
    BY <2>1 DEF StartCancelWrap
  <2>2. CASE CancelBecomesAdvance(c)
    BY <2>2 DEF CancelBecomesAdvance
  <2>3. CASE CancelSeesUnpaid(c)
    BY <2>3 DEF CancelSeesUnpaid
  <2>4. CASE CancelLookupFails(c)
    BY <2>4 DEF CancelLookupFails
  <2>5. CASE CloseCheckout(c)
    BY <2>5 DEF CloseCheckout
  <2>6. CASE CleanupHold(c)
    BY <2>6 DEF CleanupHold, CancelHoldOnNode
  <2>7. CASE CrashCloser(c)
    BY <2>7 DEF CrashCloser
  <2> QED
    BY <1>3, <2>1, <2>2, <2>3, <2>4, <2>5, <2>6, <2>7 DEF Closer
<1>4. CASE UNCHANGED vars
  BY <1>4
<1> QED
  BY <1>1, <1>2, <1>3, <1>4 DEF Next

\* Every behaviour of the engine is one the abstract sale allows: the customer
\* is charged after the merchant is paid, refunded or left alone; the books
\* close once, and as a sale only when the merchant was paid.
THEOREM SpecKeepsPromise == Spec => KeepsPromise
<1>1. Init => Sale!Init /\ NothingBeforeLock
  BY DEF Init, Sale!Init, NothingBeforeLock
<1>2. Inv /\ NothingBeforeLock /\ [Next]_vars => NothingBeforeLock'
  BY LockStep DEF Inv
<1> QED
  BY SpecInv, RefineStep, <1>1, <1>2, PTL DEF Spec, KeepsPromise, Sale!Spec

-----------------------------------------------------------------------------

\* The hypothesis of the last four theorems: every attempt to pay leaves a record
\* at the wallet.  Without it the run wrap_refund refutes the first of them.
Recorded == ~Refusals

\* Places in doAdvance a process only reaches after some process has claimed
\* the forward.
Claimed ==
  {"pay", "payWait", "paid", "dup", "dupPaid", "refund", "refunded", "recover",
   "retry", "retryWait", "retryRefund", "giveUp", "settle", "settleFailed"}

\* Nobody has claimed the forward, and nobody holds a row that says so.
NeverClaimed ==
  /\ out = "none" /\ ~late
  /\ \A p \in Instances :
       worker[p] \notin Claimed /\ reader[p] \notin {"forwarding", "forwarded"}

\* The merchant was not paid and will not be.
Unforwarded == out = "failed" \/ (status = "cancelled" /\ NeverClaimed)

\* A process gives the money back, and a row or a hold tells so, only then.
Reversals ==
  /\ status \in {"created", "accepted"} => NeverClaimed
  /\ status = "cancelled" => Unforwarded
  /\ hold = "refunded" => Unforwarded
  /\ \A p \in Instances :
       /\ worker[p] \in {"refund", "refunded", "retryRefund"} => out = "failed"
       /\ worker[p] = "earn" => status = "settled"
  /\ \A c \in Closers : closer[c] = "cleanup" => status = "cancelled" /\ NeverClaimed
  /\ earned => status = "settled"

-----------------------------------------------------------------------------

LEMMA InitReversals == Init => Reversals
  BY DEF Init, Reversals, NeverClaimed, Unforwarded, Claimed

LEMMA ReversalsStep ==
  ASSUME Recorded, Inv, [Next]_vars, Reversals
  PROVE  Reversals'
<1> USE DEF Recorded, Inv, PaidTraces, AfterForward, TypeOK, Clock, Hold, Outgoing, Status,
            OpenStates, ClaimAge, WorkerAt, CloserAt, vars, nodeVars, rowVars, procVars,
            localVars, Goto, GotoCloser, SetWrapStatus, NodeStep, RowStep, LocalStep,
            Reversals, NeverClaimed, Unforwarded, Claimed
<1>1. CASE World
  <2>1. CASE CustomerPays
    BY <2>1 DEF CustomerPays
  <2>2. CASE HoldLapses
    BY <2>2 DEF HoldLapses
  <2>3. CASE NodeReleasesHold
    BY <2>3 DEF NodeReleasesHold
  <2>4. CASE PaymentResolves
    BY <2>4 DEF PaymentResolves
  <2>5. CASE LateRequestArrives
    BY <2>5 DEF LateRequestArrives
  <2>6. CASE Tick
    BY <2>6 DEF Tick
  <2>7. CASE ClaimAges
    BY <2>7 DEF ClaimAges
  <2> QED
    BY <1>1, <2>1, <2>2, <2>3, <2>4, <2>5, <2>6, <2>7 DEF World
<1>2. ASSUME NEW p \in Instances, Worker(p) PROVE Reversals'
  <2>1. CASE ReadRow(p)
    BY <2>1 DEF ReadRow
  <2>2. CASE AdvanceWrap(p)
    BY <2>2 DEF AdvanceWrap, EntryOf
  <2>3. CASE Crash(p)
    BY <2>3 DEF Crash
  <2>4. CASE ThrottleExpires(p)
    BY <2>4 DEF ThrottleExpires
  <2>5. CASE LookHold(p)
    BY <2>5 DEF LookHold
  <2>6. CASE LookHoldFails(p)
    BY <2>6 DEF LookHoldFails
  <2>7. CASE MarkAccepted(p)
    BY <2>7 DEF MarkAccepted
  <2>8. CASE MarkClosed(p)
    BY <2>8 DEF MarkClosed
  <2>9. CASE StillUnpaid(p)
    BY <2>9 DEF StillUnpaid
  <2>10. CASE Claim(p)
    BY <2>10 DEF Claim
  <2>11. CASE PayInvoice(p)
    BY <2>11 DEF PayInvoice, Unresolved
  <2>12. CASE PayAnswered(p)
    BY <2>12 DEF PayAnswered
  <2>13. CASE PayAmbiguous(p)
    BY <2>13 DEF PayAmbiguous, Unresolved
  <2>14. CASE MarkForwarded(p)
    BY <2>14 DEF MarkForwarded
  <2>15. CASE ResolveDuplicate(p)
    BY <2>15 DEF ResolveDuplicate
  <2>16. CASE MarkDuplicateForwarded(p)
    BY <2>16 DEF MarkDuplicateForwarded
  <2>17. CASE CancelHold(p)
    BY <2>17 DEF CancelHold, CancelHoldOnNode
  <2>18. CASE CancelHoldFails(p)
    BY <2>18 DEF CancelHoldFails, Unresolved, CancelHoldOnNode
  <2>19. CASE MarkRefunded(p)
    BY <2>19 DEF MarkRefunded
  <2>20. CASE ClaimTooFresh(p)
    BY <2>20 DEF ClaimTooFresh
  <2>21. CASE RecoverForward(p)
    BY <2>21 DEF RecoverForward
  <2>22. CASE GiveUp(p)
    BY <2>22 DEF GiveUp
  <2>23. CASE SettleHold(p)
    BY <2>23 DEF SettleHold
  <2>24. CASE SettleHoldFails(p)
    BY <2>24 DEF SettleHoldFails
  <2>25. CASE AfterSettleFailed(p)
    BY <2>25 DEF AfterSettleFailed
  <2>26. CASE FinalizeSettled(p)
    BY <2>26 DEF FinalizeSettled
  <2>27. CASE RecordPartnerEarning(p)
    BY <2>27 DEF RecordPartnerEarning
  <2> QED
    BY <1>2, <2>1, <2>2, <2>3, <2>4, <2>5, <2>6, <2>7, <2>8, <2>9, <2>10, <2>11, <2>12,
       <2>13, <2>14, <2>15, <2>16, <2>17, <2>18, <2>19, <2>20, <2>21, <2>22, <2>23, <2>24,
       <2>25, <2>26, <2>27 DEF Worker, Advancing
<1>3. ASSUME NEW c \in Closers, Closer(c) PROVE Reversals'
  <2>1. CASE StartCancelWrap(c)
    BY <2>1 DEF StartCancelWrap
  <2>2. CASE CancelBecomesAdvance(c)
    BY <2>2 DEF CancelBecomesAdvance
  <2>3. CASE CancelSeesUnpaid(c)
    BY <2>3 DEF CancelSeesUnpaid
  <2>4. CASE CancelLookupFails(c)
    BY <2>4 DEF CancelLookupFails
  <2>5. CASE CloseCheckout(c)
    BY <2>5 DEF CloseCheckout
  <2>6. CASE CleanupHold(c)
    BY <2>6 DEF CleanupHold, CancelHoldOnNode
  <2>7. CASE CrashCloser(c)
    BY <2>7 DEF CrashCloser
  <2> QED
    BY <1>3, <2>1, <2>2, <2>3, <2>4, <2>5, <2>6, <2>7 DEF Closer
<1>4. CASE UNCHANGED vars
  BY <1>4
<1> QED
  BY <1>1, <1>2, <1>3, <1>4 DEF Next

LEMMA SpecReversals == ASSUME Recorded PROVE Spec => []Reversals
  BY InitReversals, ReversalsStep, SpecInv, PTL DEF Spec

\* The customer is refunded or the merchant is paid, never both: the only risk
\* the header of holdWrap.ts leaves the platform.
THEOREM SpecRefundedSaleNotForwarded ==
  ASSUME Recorded PROVE Spec => []RefundedSaleNotForwarded
<1>1. Reversals => RefundedSaleNotForwarded
  BY DEF Reversals, Unforwarded, NeverClaimed, RefundedSaleNotForwarded
<1> QED
  BY <1>1, SpecReversals, PTL

\* A cancelled row is the end of the sale: no pay request, not even one still on
\* its way, pays its merchant.
THEOREM SpecCancelledSaleNotForwarded ==
  ASSUME Recorded PROVE Spec => []CancelledSaleNotForwarded
<1>1. Reversals => CancelledSaleNotForwarded
  BY DEF Reversals, Unforwarded, NeverClaimed, CancelledSaleNotForwarded
<1> QED
  BY <1>1, SpecReversals, PTL

\* A partner earns only on a sale the books hold as settled.
THEOREM SpecEarningNeedsSettledRow ==
  ASSUME Recorded PROVE Spec => []EarningNeedsSettledRow
<1>1. Reversals => EarningNeedsSettledRow
  BY DEF Reversals, EarningNeedsSettledRow
<1> QED
  BY <1>1, SpecReversals, PTL

-----------------------------------------------------------------------------

\* All three.
THEOREM SpecReversedSaleNotForwarded ==
  ASSUME Recorded PROVE Spec => []ReversedSaleNotForwarded
  BY SpecRefundedSaleNotForwarded, SpecCancelledSaleNotForwarded,
     SpecEarningNeedsSettledRow, PTL DEF ReversedSaleNotForwarded


=============================================================================
