------------------------ MODULE PartnerPayoutsProofs ------------------------
(***************************************************************************)
(* Theorems about PartnerPayouts, for any set of payouts, any number of    *)
(* executors, overlapping driver ticks and invoices.  Each job is followed *)
(* from before the invoice is saved on the row (EarlyJob) to after it      *)
(* (LateJob); a tick that is about to requeue a row is not counted: either *)
(* nobody went on with the row, or its requeue makes it retaken.  Then,    *)
(* from lemmas about sums over finite sets, that the partner never         *)
(* receives more than was earned; and that payouts implement PayCall.      *)
(***************************************************************************)
EXTENDS PartnerPayouts, Integers, FiniteSetTheorems, WellFoundedInduction, TLAPS

\* What the theorems assume of the constants: the bounds are numbers.
PayoutConstants == MaxEarned \in Nat /\ MaxMint \in Nat

\* Job j is on payout p, and does more than take it back.
On(j, p) == job[j] # Idle /\ job[j].p = p
Works(j, p) == On(j, p) /\ job[j].at # "requeue"

\* Nobody is about to send the payment of p, and no invoice of p has one.
NeverPaid(p) ==
  /\ \A i \in Invoices : pay[p][i] \in {"none", "failed"}
  /\ \A j \in Jobs : On(j, p) => job[j].at # "saved"

\* A job on p before an invoice is saved: while it is there the row is not old,
\* and a requeue makes it retaken.
EarlyJob(j, p) ==
  /\ state[p] = "sending" /\ p \notin old
  /\ job[j].at \in {"claimed", "minted", "refused"}
  /\ job[j].at = "minted" => job[j].inv \in Invoices

\* A job on p after that: it works with the invoice on the row, and what it is
\* about to write is what the wallet did.
LateJob(j, p) ==
  /\ job[j].inv = bolt11[p]
  /\ job[j].at \in {"saved", "wait", "paid", "refused", "ambiguous",
                    "lookup", "foundSent", "foundFailed"}
  /\ job[j].at = "saved" => state[p] = "sending" /\ pay[p][bolt11[p]] = "none"
  /\ job[j].at \in {"paid", "foundSent"} => pay[p][bolt11[p]] = "settled"
  /\ job[j].at = "foundFailed" => NeverPaid(p)
  /\ job[j].at = "refused" => p \in broken \/ NeverPaid(p)

\* Before an invoice is saved nothing was paid, and one job at most is at work.
BeforeInvoice(p) ==
  bolt11[p] = 0 =>
    /\ \A i \in Invoices : pay[p][i] = "none"
    /\ \A j \in Jobs : Works(j, p) => EarlyJob(j, p)
    /\ \A j, k \in Jobs : Works(j, p) /\ Works(k, p) => j = k

\* After that the row never goes back to requested, and no other invoice is paid.
AfterInvoice(p) ==
  bolt11[p] # 0 =>
    /\ state[p] \in {"sending", "sent", "failed"}
    /\ \A i \in Invoices \ {bolt11[p]} : pay[p][i] = "none"
    /\ \A j \in Jobs : Works(j, p) => LateJob(j, p)
    /\ \A j, k \in Jobs :
         On(j, p) /\ On(k, p) /\ job[j].at = "saved" /\ job[k].at = "saved" => j = k

\* The row says what became of the money.
RowIsTrue(p) ==
  /\ state[p] = "sent" => bolt11[p] # 0 /\ pay[p][bolt11[p]] = "settled"
  /\ state[p] = "failed" => p \in broken \/ NeverPaid(p)
  /\ p \in broken => bolt11[p] # 0 /\ pay[p][bolt11[p]] = "settled"

\* The inductive invariant, of the rows no tick took back.
PayoutInv(p) == BeforeInvoice(p) /\ AfterInvoice(p) /\ RowIsTrue(p)
Alone == \A p, q \in InFlight \ retaken : p = q
Inv == TypeOK /\ Alone /\ \A p \in Payouts \ retaken : PayoutInv(p)

-----------------------------------------------------------------------------

LEMMA InitInv == PayoutConstants /\ Init => Inv
<1> SUFFICES ASSUME PayoutConstants, Init PROVE Inv
  OBVIOUS
<1>1. TypeOK
  BY DEF PayoutConstants, Init, TypeOK, Invoices, JobType, Idle
<1>2. Alone
  BY DEF Init, Alone, InFlight
<1>3. ASSUME NEW p \in Payouts PROVE PayoutInv(p)
  BY DEF PayoutConstants, Init, PayoutInv, BeforeInvoice, AfterInvoice, RowIsTrue, NeverPaid,
         On, Works, Invoices, Idle
<1> QED
  BY <1>1, <1>2, <1>3 DEF Inv

\* A job that is at work has a payout and an invoice number.
LEMMA JobKnown ==
  ASSUME TypeOK, NEW j \in Jobs, job[j] # Idle
  PROVE  /\ job[j] \in [at : Steps, p : Payouts, inv : 0..MaxMint]
         /\ job[j].p \in Payouts /\ job[j].inv \in 0..MaxMint /\ job[j].at \in Steps
  BY DEF TypeOK, JobType

\* What Goto and Finish do to the jobs.
LEMMA GotoJob ==
  ASSUME TypeOK, NEW j \in Jobs, job[j] # Idle, NEW s \in Steps, Goto(j, s)
  PROVE  /\ job' \in [Jobs -> JobType]
         /\ job'[j] # Idle /\ job'[j].at = s
         /\ job'[j].p = job[j].p /\ job'[j].inv = job[j].inv
         /\ \A k \in Jobs \ {j} : job'[k] = job[k]
<1> DEFINE r == [at |-> s, p |-> job[j].p, inv |-> job[j].inv]
<1>1. job[j] \in [at : Steps, p : Payouts, inv : 0..MaxMint]
  BY JobKnown
<1>2. [job[j] EXCEPT !.at = s] = r
  BY <1>1
<1>3. job' = [job EXCEPT ![j] = r]
  BY <1>2 DEF Goto
<1>4. r \in [at : Steps, p : Payouts, inv : 0..MaxMint] /\ r.at = s
      /\ r.p = job[j].p /\ r.inv = job[j].inv /\ r # Idle
  BY <1>1 DEF Steps, Idle
<1> HIDE DEF r
<1> QED
  BY <1>3, <1>4 DEF TypeOK, JobType

LEMMA FinishJob ==
  ASSUME TypeOK, NEW j \in Jobs, Finish(j)
  PROVE  /\ job' \in [Jobs -> JobType]
         /\ job'[j] = Idle
         /\ \A k \in Jobs \ {j} : job'[k] = job[k]
  BY DEF TypeOK, Finish, JobType

LEMMA NewJob ==
  ASSUME TypeOK, NEW j \in Jobs, NEW s \in Steps, NEW p \in Payouts, NEW i \in 0..MaxMint,
         job' = [job EXCEPT ![j] = [at |-> s, p |-> p, inv |-> i]]
  PROVE  /\ job' \in [Jobs -> JobType]
         /\ job'[j] # Idle /\ job'[j].at = s /\ job'[j].p = p /\ job'[j].inv = i
         /\ \A k \in Jobs \ {j} : job'[k] = job[k]
<1> DEFINE r == [at |-> s, p |-> p, inv |-> i]
<1>1. r \in [at : Steps, p : Payouts, inv : 0..MaxMint] /\ r.at = s /\ r.p = p /\ r.inv = i
      /\ r # Idle
  BY DEF Steps, Idle
<1> HIDE DEF r
<1> QED
  BY <1>1 DEF TypeOK, JobType

LEMMA TypeStep == ASSUME PayoutConstants, TypeOK, [Next]_vars PROVE TypeOK'
<1> USE DEF PayoutConstants, vars, rowVars, SetState, Touch, At
<1>1. CASE Earn
  BY <1>1 DEF Earn, TypeOK
<1>2. ASSUME NEW q \in Payouts, Request(q) PROVE TypeOK'
  BY <1>2 DEF Request, TypeOK
<1>3. ASSUME NEW q \in Payouts, GetsOld(q) PROVE TypeOK'
  BY <1>3 DEF GetsOld, TypeOK
<1>4. ASSUME NEW q \in Payouts, NEW i \in Invoices, PaymentEnds(q, i) PROVE TypeOK'
  BY <1>4 DEF PaymentEnds, TypeOK
<1>5. ASSUME NEW j \in Jobs, Execute(j) \/ ReconcilePayout(j) \/ Crash(j) PROVE TypeOK'
  <2>1. ASSUME NEW q \in Payouts, Claim(j, q) PROVE TypeOK'
    <3>1. "claimed" \in Steps /\ 0 \in 0..MaxMint
          /\ job' = [job EXCEPT ![j] = [at |-> "claimed", p |-> q, inv |-> 0]]
      BY <2>1 DEF Claim, Steps
    <3>2. job' \in [Jobs -> JobType]
      BY <3>1, NewJob
    <3> QED
      BY <2>1, <3>2 DEF Claim, TypeOK
  <2>2. ASSUME NEW q \in Payouts, ReadSending(j, q) PROVE TypeOK'
    <3>1. job' \in [Jobs -> JobType]
      BY <2>2, NewJob DEF ReadSending, Steps, TypeOK
    <3> QED
      BY <2>2, <3>1 DEF ReadSending, TypeOK
  <2>3. CASE Prepare(j)
    <3>1. job[j] # Idle
      BY <2>3 DEF Prepare, Idle
    <3>2. CASE Goto(j, "refused") /\ UNCHANGED minted
      BY <2>3, <3>1, <3>2, GotoJob DEF Prepare, Steps, TypeOK
    <3>3. CASE ~(Goto(j, "refused") /\ UNCHANGED minted)
      <4> DEFINE q == job[j].p
      <4>1. q \in Payouts /\ minted[q] + 1 \in 0..MaxMint
            /\ minted' = [minted EXCEPT ![q] = minted[q] + 1]
            /\ job' = [job EXCEPT ![j] = [at |-> "minted", p |-> q, inv |-> minted[q] + 1]]
        BY <2>3, <3>1, <3>3, JobKnown DEF Prepare, TypeOK
      <4> HIDE DEF q
      <4>2. job' \in [Jobs -> JobType]
        BY <4>1, NewJob DEF Steps
      <4> QED
        BY <2>3, <4>1, <4>2 DEF Prepare, TypeOK
    <3> QED
      BY <3>2, <3>3
  <2>4. CASE SaveInvoice(j)
    <3>1. job[j] # Idle
      BY <2>4 DEF SaveInvoice, Idle
    <3>2. job' \in [Jobs -> JobType]
      BY <2>4, <3>1, GotoJob DEF SaveInvoice, Steps
    <3> QED
      BY <2>4, <3>1, <3>2, JobKnown DEF SaveInvoice, TypeOK
  <2>17. CASE SaveInvoiceBreaks(j)
    <3>1. job[j] # Idle
      BY <2>17 DEF SaveInvoiceBreaks, Idle
    <3>2. job' \in [Jobs -> JobType]
      BY <2>17, <3>1, GotoJob DEF SaveInvoiceBreaks, Steps
    <3> QED
      BY <2>17, <3>1, <3>2, JobKnown DEF SaveInvoiceBreaks, TypeOK
  <2>5. CASE SendPay(j)
    <3>1. job[j] # Idle
      BY <2>5 DEF SendPay, Idle
    <3>2. job' \in [Jobs -> JobType]
      BY <2>5, <3>1, GotoJob DEF SendPay, Steps
    <3>3. pay' \in [Payouts -> [Invoices -> {"none", "pending", "settled", "failed"}]]
      BY <2>5, <3>1, JobKnown DEF SendPay, TypeOK
    <3> QED
      BY <2>5, <3>2, <3>3 DEF SendPay, TypeOK
  <2>6. CASE PayReplies(j)
    <3>1. job[j] # Idle
      BY <2>6 DEF PayReplies, Idle
    <3>2. job' \in [Jobs -> JobType]
      BY <2>6, <3>1, GotoJob DEF PayReplies, Steps
    <3> QED
      BY <2>6, <3>1, <3>2, JobKnown DEF PayReplies, TypeOK
  <2>7. CASE PayTimesOut(j)
    <3>1. job[j] # Idle
      BY <2>7 DEF PayTimesOut, Idle
    <3>2. job' \in [Jobs -> JobType]
      BY <2>7, <3>1, GotoJob DEF PayTimesOut, Steps
    <3> QED
      BY <2>7, <3>1, <3>2, JobKnown DEF PayTimesOut, TypeOK
  <2>8. CASE MarkSent(j)
    <3>1. job[j] # Idle
      BY <2>8 DEF MarkSent, Idle
    <3>2. job' \in [Jobs -> JobType]
      BY <2>8, <3>1, FinishJob DEF MarkSent
    <3> QED
      BY <2>8, <3>1, <3>2, JobKnown DEF MarkSent, TypeOK
  <2>9. CASE MarkSentBreaks(j)
    <3>1. job[j] # Idle
      BY <2>9 DEF MarkSentBreaks, Idle
    <3>2. job' \in [Jobs -> JobType]
      BY <2>9, <3>1, GotoJob DEF MarkSentBreaks, Steps
    <3> QED
      BY <2>9, <3>1, <3>2, JobKnown DEF MarkSentBreaks, TypeOK
  <2>10. CASE MarkFailed(j)
    <3>1. job[j] # Idle
      BY <2>10 DEF MarkFailed, Idle
    <3>2. job' \in [Jobs -> JobType]
      BY <2>10, <3>1, FinishJob DEF MarkFailed
    <3> QED
      BY <2>10, <3>1, <3>2, JobKnown DEF MarkFailed, TypeOK
  <2>11. CASE NothingToReconcile(j)
    <3>1. job[j] # Idle
      BY <2>11 DEF NothingToReconcile, Idle
    <3>2. job' \in [Jobs -> JobType]
      BY <2>11, <3>1, FinishJob DEF NothingToReconcile
    <3> QED
      BY <2>11, <3>1, <3>2, JobKnown DEF NothingToReconcile, TypeOK
  <2>12. CASE Requeue(j)
    <3>1. job[j] # Idle
      BY <2>12 DEF Requeue, Idle
    <3>2. job' \in [Jobs -> JobType]
      BY <2>12, <3>1, FinishJob DEF Requeue
    <3> QED
      BY <2>12, <3>1, <3>2, JobKnown DEF Requeue, TypeOK
  <2>13. CASE LookUp(j)
    <3>1. job[j] # Idle
      BY <2>13 DEF LookUp, Idle
    <3>2. job' \in [Jobs -> JobType]
      BY <2>13, <3>1, GotoJob, FinishJob DEF LookUp, Steps
    <3> QED
      BY <2>13, <3>1, <3>2, JobKnown DEF LookUp, TypeOK
  <2>14. CASE LookUpFails(j)
    <3>1. job[j] # Idle
      BY <2>14 DEF LookUpFails, Idle
    <3>2. job' \in [Jobs -> JobType]
      BY <2>14, <3>1, FinishJob DEF LookUpFails
    <3> QED
      BY <2>14, <3>1, <3>2, JobKnown DEF LookUpFails, TypeOK
  <2>15. CASE WriteFound(j)
    <3>1. job[j] # Idle
      BY <2>15 DEF WriteFound, Idle
    <3>2. job' \in [Jobs -> JobType]
      BY <2>15, <3>1, FinishJob DEF WriteFound
    <3> QED
      BY <2>15, <3>1, <3>2, JobKnown DEF WriteFound, TypeOK
  <2>16. CASE Crash(j)
    <3>1. job[j] # Idle
      BY <2>16 DEF Crash, Idle
    <3>2. job' \in [Jobs -> JobType]
      BY <2>16, <3>1, FinishJob DEF Crash
    <3> QED
      BY <2>16, <3>1, <3>2, JobKnown DEF Crash, TypeOK
  <2> QED
    BY <1>5, <2>1, <2>2, <2>3, <2>4, <2>5, <2>6, <2>7, <2>8, <2>9,
       <2>10, <2>11, <2>12, <2>13, <2>14, <2>15, <2>16, <2>17
    DEF Execute, ReconcilePayout
<1>6. CASE UNCHANGED vars
  BY <1>6 DEF TypeOK
<1> QED
  BY <1>1, <1>2, <1>3, <1>4, <1>5, <1>6 DEF Next

\* Nothing about p changes but that it may be touched.
Untouched(p) ==
  /\ state'[p] = state[p] /\ bolt11'[p] = bolt11[p] /\ pay'[p] = pay[p]
  /\ p \in old' => p \in old
  /\ p \in broken <=> p \in broken'
  /\ \A k \in Jobs : On(k, p) \/ On(k, p)' => job'[k] = job[k]

LEMMA UntouchedStep ==
  ASSUME TypeOK, NEW p \in Payouts, PayoutInv(p), Untouched(p)
  PROVE  PayoutInv(p)'
<1>1. \A k \in Jobs : On(k, p)' => On(k, p) /\ job'[k] = job[k]
  BY DEF Untouched, On
<1>2. \A k \in Jobs : Works(k, p)' => Works(k, p) /\ job'[k] = job[k]
  BY <1>1 DEF Works
<1> QED
  BY <1>1, <1>2 DEF TypeOK, PayoutInv, BeforeInvoice, AfterInvoice, EarlyJob, LateJob,
              RowIsTrue, NeverPaid, Untouched

\* One job of p moves on, or ends, and the rows stay.
JobMoves(j, p) ==
  /\ state'[p] = state[p] /\ bolt11'[p] = bolt11[p] /\ pay'[p] = pay[p]
  /\ p \in old' => p \in old
  /\ p \in broken => p \in broken'
  /\ p \in broken' => p \in broken \/ (bolt11[p] # 0 /\ pay[p][bolt11[p]] = "settled")
  /\ \A k \in Jobs \ {j} : job'[k] = job[k]
  /\ On(j, p)
  /\ job'[j] # Idle => Works(j, p) /\ job'[j].p = p /\ job'[j].at # "saved"

LEMMA JobMovesStep ==
  ASSUME TypeOK, NEW p \in Payouts, NEW j \in Jobs, PayoutInv(p), JobMoves(j, p),
         job'[j] # Idle => IF bolt11[p] = 0 THEN EarlyJob(j, p)' ELSE LateJob(j, p)'
  PROVE  PayoutInv(p)'
<1>0. \A k \in Jobs : On(k, p)' => On(k, p) /\ (k # j => job'[k] = job[k])
  BY DEF JobMoves, On
<1>1. \A k \in Jobs : Works(k, p)' => Works(k, p) /\ (k # j => job'[k] = job[k])
  BY <1>0 DEF JobMoves, Works, On
<1>2. NeverPaid(p) => NeverPaid(p)'
  BY <1>0 DEF NeverPaid, JobMoves, On
<1>3. BeforeInvoice(p)'
  BY <1>1 DEF PayoutInv, BeforeInvoice, EarlyJob, JobMoves, Works, On
<1>4. AfterInvoice(p)'
  <2> SUFFICES ASSUME bolt11'[p] # 0 PROVE AfterInvoice(p)'
    BY DEF AfterInvoice
  <2>1. AfterInvoice(p) /\ bolt11[p] # 0
    BY DEF PayoutInv, JobMoves
  <2>2. ASSUME NEW k \in Jobs, Works(k, p)' PROVE LateJob(k, p)'
    <3>1. CASE k = j
      BY <2>1, <2>2, <3>1 DEF Works, On
    <3>2. CASE k # j
      BY <1>1, <1>2, <2>1, <2>2, <3>2 DEF AfterInvoice, LateJob, JobMoves
    <3> QED
      BY <3>1, <3>2
  <2>3. ASSUME NEW k \in Jobs, NEW l \in Jobs, On(k, p)', On(l, p)',
               job'[k].at = "saved", job'[l].at = "saved"
        PROVE  k = l
    BY <1>0, <2>1, <2>3 DEF AfterInvoice, JobMoves, On
  <2> QED
    BY <2>1, <2>2, <2>3 DEF AfterInvoice, JobMoves
<1>5. RowIsTrue(p)'
  BY <1>2 DEF PayoutInv, RowIsTrue, JobMoves
<1> QED
  BY <1>3, <1>4, <1>5 DEF PayoutInv

\* A failure at the wallet is the end of a payment.
LEMMA FailedIsNeverPaid ==
  ASSUME TypeOK, NEW p \in Payouts, PayoutInv(p), bolt11[p] # 0,
         pay[p][bolt11[p]] = "failed"
  PROVE  NeverPaid(p)
  BY DEF TypeOK, PayoutInv, AfterInvoice, LateJob, NeverPaid, Works

\* A job writes what it knows to be true of the money, and ends.
LEMMA RowDecided ==
  ASSUME NEW p \in Payouts, NEW j \in Jobs, PayoutInv(p), On(j, p), bolt11[p] # 0,
         UNCHANGED <<bolt11, pay, broken>>,
         job'[j] = Idle, \A k \in Jobs \ {j} : job'[k] = job[k],
         \/ state'[p] = "sent" /\ pay[p][bolt11[p]] = "settled"
         \/ state'[p] = "failed" /\ NeverPaid(p)
  PROVE  PayoutInv(p)'
<1>1. AfterInvoice(p) /\ RowIsTrue(p)
  BY DEF PayoutInv
<1>2. \A k \in Jobs : On(k, p)' => On(k, p) /\ k # j /\ job'[k] = job[k]
  BY DEF On
<1>3. NeverPaid(p) => NeverPaid(p)'
  BY <1>2 DEF NeverPaid
<1>4. BeforeInvoice(p)'
  BY DEF BeforeInvoice
<1>5. RowIsTrue(p)'
  BY <1>1, <1>3 DEF RowIsTrue
<1>6. ASSUME NEW k \in Jobs, Works(k, p)' PROVE LateJob(k, p)'
  <2>1. On(k, p) /\ LateJob(k, p) /\ job'[k] = job[k]
    BY <1>1, <1>2, <1>6 DEF AfterInvoice, Works
  <2>2. job[k].at # "saved"
    BY <2>1 DEF LateJob, NeverPaid
  <2> QED
    BY <1>3, <2>1, <2>2 DEF LateJob
<1>7. AfterInvoice(p)'
  BY <1>1, <1>2, <1>6 DEF AfterInvoice
<1> QED
  BY <1>4, <1>5, <1>7 DEF PayoutInv

LEMMA PayoutStep ==
  ASSUME PayoutConstants, TypeOK, [Next]_vars, NEW p \in Payouts, p \notin retaken', PayoutInv(p)
  PROVE  PayoutInv(p)'
<1> USE DEF PayoutConstants, vars, rowVars, SetState, Touch, At
<1>1. CASE Earn
  <2>1. Untouched(p)
    BY <1>1 DEF Earn, Untouched
  <2> QED
    BY <2>1, UntouchedStep
<1>2. ASSUME NEW q \in Payouts, Request(q) PROVE PayoutInv(p)'
  BY <1>2 DEF Request, TypeOK, PayoutInv, BeforeInvoice, AfterInvoice,
             EarlyJob, LateJob, RowIsTrue, NeverPaid, On, Works
<1>3. ASSUME NEW q \in Payouts, GetsOld(q) PROVE PayoutInv(p)'
  BY <1>3 DEF GetsOld, TypeOK, PayoutInv, BeforeInvoice, AfterInvoice,
             EarlyJob, LateJob, RowIsTrue, NeverPaid, On, Works
<1>4. ASSUME NEW q \in Payouts, NEW i \in Invoices, PaymentEnds(q, i) PROVE PayoutInv(p)'
  BY <1>4 DEF PaymentEnds, TypeOK, PayoutInv, BeforeInvoice, AfterInvoice,
             EarlyJob, LateJob, RowIsTrue, NeverPaid, On, Works
<1>5. ASSUME NEW j \in Jobs, Execute(j) \/ ReconcilePayout(j) \/ Crash(j) PROVE PayoutInv(p)'
  <2>1. ASSUME NEW q \in Payouts, Claim(j, q) PROVE PayoutInv(p)'
    <3>1. "claimed" \in Steps /\ 0 \in 0..MaxMint
          /\ job' = [job EXCEPT ![j] = [at |-> "claimed", p |-> q, inv |-> 0]]
      BY <2>1 DEF Claim, Steps
    <3>2. /\ job'[j] # Idle /\ job'[j].at = "claimed" /\ job'[j].p = q
          /\ \A k \in Jobs \ {j} : job'[k] = job[k]
      BY <3>1, NewJob
    <3>3. CASE p # q
      <4>1. Untouched(p)
        BY <2>1, <3>2, <3>3 DEF Claim, Untouched, On, TypeOK
      <4> QED
        BY <4>1, UntouchedStep
    <3>4. CASE p = q
      BY <2>1, <3>2, <3>4 DEF Claim, TypeOK, PayoutInv, BeforeInvoice, AfterInvoice,
             EarlyJob, LateJob, RowIsTrue, NeverPaid, On, Works
    <3> QED
      BY <3>3, <3>4
  <2>2. ASSUME NEW q \in Payouts, ReadSending(j, q) PROVE PayoutInv(p)'
    <3>1. PICK s \in {"requeue", "lookup"} :
            /\ job' = [job EXCEPT ![j] = [at |-> s, p |-> q, inv |-> bolt11[q]]]
            /\ IF s = "requeue" THEN bolt11[q] = 0 /\ q \in old ELSE bolt11[q] # 0
      BY <2>2 DEF ReadSending
    <3>2. s \in Steps /\ bolt11[q] \in 0..MaxMint
      BY DEF Steps, TypeOK
    <3>3. /\ job'[j] # Idle /\ job'[j].at = s /\ job'[j].p = q /\ job'[j].inv = bolt11[q]
          /\ \A k \in Jobs \ {j} : job'[k] = job[k]
      BY <3>1, <3>2, NewJob
    <3>4. CASE p # q
      <4>1. Untouched(p)
        BY <2>2, <3>3, <3>4 DEF ReadSending, Untouched, On, Idle
      <4> QED
        BY <4>1, UntouchedStep
    <3>5. CASE p = q
      <4>1. BeforeInvoice(p)'
        <5> SUFFICES ASSUME bolt11'[p] = 0 PROVE BeforeInvoice(p)'
          BY DEF BeforeInvoice
        <5>1. bolt11[p] = 0 /\ s = "requeue" /\ p \in old /\ state[p] = "sending"
              /\ UNCHANGED <<state, bolt11, old, pay>>
          BY <2>2, <3>1, <3>5 DEF ReadSending
        <5>2. \A k \in Jobs : Works(k, p)' => Works(k, p) /\ job'[k] = job[k]
          BY <3>3, <5>1 DEF Works, On
        <5> QED
          BY <5>1, <5>2 DEF PayoutInv, BeforeInvoice, EarlyJob
      <4>2. AfterInvoice(p)' /\ RowIsTrue(p)'
        BY <2>2, <3>1, <3>3, <3>5 DEF ReadSending, TypeOK, PayoutInv, BeforeInvoice, AfterInvoice,
             EarlyJob, LateJob, RowIsTrue, NeverPaid, On, Works
      <4> QED
        BY <4>1, <4>2 DEF PayoutInv
    <3> QED
      BY <3>4, <3>5
  <2>3. CASE Prepare(j)
    <3>1. job[j] # Idle /\ job[j].p \in Payouts
      BY <2>3, JobKnown DEF Prepare, Idle
    <3>2. /\ job'[j] # Idle /\ job'[j].p = job[j].p
          /\ job'[j].at = "refused" \/ (job'[j].at = "minted" /\ job'[j].inv \in Invoices)
          /\ \A k \in Jobs \ {j} : job'[k] = job[k]
      <4>1. CASE Goto(j, "refused")
        BY <3>1, <4>1, GotoJob DEF Steps
      <4>2. CASE ~Goto(j, "refused")
        <5> DEFINE q == job[j].p
                   i == minted[q] + 1
        <5>1. /\ q \in Payouts /\ i \in 0..MaxMint /\ i \in Invoices /\ "minted" \in Steps
              /\ job' = [job EXCEPT ![j] = [at |-> "minted", p |-> q, inv |-> i]]
          BY <2>3, <3>1, <4>2 DEF Prepare, TypeOK, Invoices, Steps
        <5> HIDE DEF i, q
        <5>2. /\ job'[j] # Idle /\ job'[j].at = "minted" /\ job'[j].p = q /\ job'[j].inv = i
              /\ \A k \in Jobs \ {j} : job'[k] = job[k]
          BY <5>1, NewJob
        <5> QED
          BY <5>1, <5>2 DEF q
      <4> QED
        BY <4>1, <4>2
    <3>3. CASE p # job[j].p
      <4>1. Untouched(p)
        BY <2>3, <3>2, <3>3 DEF Prepare, Untouched, On
      <4> QED
        BY <4>1, UntouchedStep
    <3>4. CASE p = job[j].p
      <4>1. On(j, p) /\ Works(j, p)
        BY <2>3, <3>1, <3>4 DEF Prepare, On, Works
      <4>2. JobMoves(j, p)
        BY <2>3, <3>1, <3>2, <3>4, <4>1 DEF Prepare, JobMoves, Idle, TypeOK
      <4>3. job'[j] # Idle => IF bolt11[p] = 0 THEN EarlyJob(j, p)' ELSE LateJob(j, p)'
        BY <2>3, <3>1, <3>2, <3>4, <4>1
        DEF Prepare, TypeOK, PayoutInv, BeforeInvoice, AfterInvoice, EarlyJob, LateJob, RowIsTrue,
            NeverPaid, On, Works
      <4> QED
        BY <4>2, <4>3, JobMovesStep
    <3> QED
      BY <3>3, <3>4
  <2>4. CASE SaveInvoice(j)
    <3>1. job[j] # Idle /\ job[j].p \in Payouts /\ job[j].inv \in 0..MaxMint
      BY <2>4, JobKnown DEF SaveInvoice, Idle
    <3>2. /\ job'[j] # Idle /\ job'[j].at = "saved" /\ job'[j].p = job[j].p
          /\ job'[j].inv = job[j].inv
          /\ \A k \in Jobs \ {j} : job'[k] = job[k]
      BY <2>4, <3>1, GotoJob DEF SaveInvoice, Steps
    <3>3. CASE p # job[j].p
      <4>1. Untouched(p)
        BY <2>4, <3>1, <3>2, <3>3 DEF SaveInvoice, Untouched, On, TypeOK
      <4> QED
        BY <4>1, UntouchedStep
    <3>4. CASE p = job[j].p
      <4>1. Works(j, p) /\ bolt11[p] = 0 /\ EarlyJob(j, p)
            /\ job[j].inv \in Invoices
        BY <2>4, <3>1, <3>4 DEF SaveInvoice, PayoutInv, BeforeInvoice, AfterInvoice, EarlyJob,
                                LateJob, On, Works
      <4>2. \A k \in Jobs : Works(k, p)' => k = j
        BY <3>2, <4>1 DEF On, Works, PayoutInv, BeforeInvoice
      <4>3. bolt11'[p] = job[j].inv /\ bolt11'[p] # 0 /\ UNCHANGED <<state, pay, broken>>
        BY <2>4, <3>4, <4>1 DEF SaveInvoice, TypeOK, Invoices
      <4>4. LateJob(j, p)'
        BY <3>2, <4>1, <4>3 DEF PayoutInv, BeforeInvoice, EarlyJob, LateJob
      <4> QED
        BY <4>1, <4>2, <4>3, <4>4
        DEF PayoutInv, BeforeInvoice, AfterInvoice, EarlyJob, RowIsTrue, Works
    <3> QED
      BY <3>3, <3>4
  <2>17. CASE SaveInvoiceBreaks(j)
    <3>1. job[j] # Idle /\ job[j].p \in Payouts /\ job[j].inv \in 0..MaxMint
      BY <2>17, JobKnown DEF SaveInvoiceBreaks, Idle
    <3>2. /\ job'[j] # Idle /\ job'[j].at = "refused" /\ job'[j].p = job[j].p
          /\ job'[j].inv = job[j].inv
          /\ \A k \in Jobs \ {j} : job'[k] = job[k]
      BY <2>17, <3>1, GotoJob DEF SaveInvoiceBreaks, Steps
    <3>3. CASE p # job[j].p
      <4>1. Untouched(p)
        BY <2>17, <3>1, <3>2, <3>3 DEF SaveInvoiceBreaks, Untouched, On
      <4> QED
        BY <4>1, UntouchedStep
    <3>4. CASE p = job[j].p
      <4>1. On(j, p) /\ Works(j, p)
        BY <2>17, <3>1, <3>4 DEF On, Works, SaveInvoiceBreaks
      <4>2. JobMoves(j, p)
        BY <2>17, <3>1, <3>2, <3>4, <4>1 DEF SaveInvoiceBreaks, JobMoves
      <4>3. bolt11[p] = 0 /\ EarlyJob(j, p)
        BY <2>17, <4>1 DEF SaveInvoiceBreaks, PayoutInv, BeforeInvoice, AfterInvoice, LateJob
      <4>4. EarlyJob(j, p)'
        BY <2>17, <3>2, <4>3 DEF SaveInvoiceBreaks, EarlyJob
      <4> QED
        BY <4>2, <4>3, <4>4, JobMovesStep
    <3> QED
      BY <3>3, <3>4
  <2>5. CASE SendPay(j)
    <3>1. job[j] # Idle /\ job[j].p \in Payouts /\ job[j].inv \in 0..MaxMint
      BY <2>5, JobKnown DEF SendPay, Idle
    <3>2. /\ job'[j] # Idle /\ job'[j].at \in {"wait", "refused"} /\ job'[j].p = job[j].p
          /\ job'[j].inv = job[j].inv
          /\ \A k \in Jobs \ {j} : job'[k] = job[k]
      BY <2>5, <3>1, GotoJob DEF SendPay, Steps
    <3>3. CASE p # job[j].p
      <4>1. Untouched(p)
        BY <2>5, <3>1, <3>2, <3>3 DEF SendPay, Untouched, On, TypeOK
      <4> QED
        BY <4>1, UntouchedStep
    <3>4. CASE p = job[j].p
      <4>1. Works(j, p) /\ bolt11[p] # 0 /\ LateJob(j, p)
            /\ job[j].at = "saved" /\ state[p] = "sending" /\ pay[p][bolt11[p]] = "none"
        <5>1. Works(j, p) /\ job[j].at = "saved"
          BY <2>5, <3>1, <3>4 DEF SendPay, On, Works
        <5>2. bolt11[p] # 0
          BY <5>1 DEF PayoutInv, BeforeInvoice, EarlyJob
        <5>3. LateJob(j, p)
          BY <5>1, <5>2 DEF PayoutInv, AfterInvoice
        <5> QED
          BY <5>1, <5>2, <5>3 DEF LateJob
      <4>2. \A k \in Jobs : On(k, p)' => On(k, p) /\ (k # j => job'[k] = job[k])
        BY <3>2, <4>1 DEF On, Works
      <4>7. \A k \in Jobs : Works(k, p)' => Works(k, p) /\ (k # j => job'[k] = job[k])
        BY <4>1, <4>2 DEF Works
      <4>3. \A k \in Jobs \ {j} :
              Works(k, p) => job[k].at \in {"wait", "ambiguous", "lookup"}
        BY <4>1 DEF PayoutInv, AfterInvoice, LateJob, NeverPaid, RowIsTrue, Works
      <4>4. /\ \A i \in Invoices \ {bolt11[p]} : pay'[p][i] = "none"
            /\ job'[j].at = "refused" => pay' = pay
            /\ UNCHANGED <<state, bolt11, broken>>
        <5>1. job[j].inv = bolt11[p]
          BY <4>1 DEF LateJob
        <5>2. \A i \in Invoices \ {bolt11[p]} : pay[p][i] = "none"
          BY <4>1 DEF PayoutInv, AfterInvoice
        <5>3. CASE pay' = pay
          BY <2>5, <5>2, <5>3 DEF SendPay
        <5>4. CASE pay' # pay
          <6>1. pay' = [pay EXCEPT ![p][bolt11[p]] = "pending"] /\ Goto(j, "wait")
            BY <2>5, <3>4, <5>1, <5>4 DEF SendPay
          <6>2. job'[j].at = "wait"
            BY <3>1, <6>1, GotoJob DEF Steps
          <6> QED
            BY <2>5, <5>2, <6>1, <6>2 DEF SendPay, TypeOK
        <5> QED
          BY <5>3, <5>4
      <4>5. job'[j].at = "refused" => NeverPaid(p)'
        BY <3>2, <4>1, <4>2, <4>3, <4>4 DEF NeverPaid, Works
      <4>6. \A k \in Jobs : Works(k, p)' => LateJob(k, p)' /\ job'[k].at # "saved"
        BY <3>2, <4>1, <4>7, <4>3, <4>4, <4>5 DEF PayoutInv, AfterInvoice, LateJob
      <4> QED
        BY <4>1, <4>4, <4>6 DEF PayoutInv, BeforeInvoice, AfterInvoice, RowIsTrue, Works
    <3> QED
      BY <3>3, <3>4
  <2>6. CASE PayReplies(j)
    <3>1. job[j] # Idle /\ job[j].p \in Payouts /\ job[j].inv \in 0..MaxMint
      BY <2>6, JobKnown DEF PayReplies, Idle
    <3>2. /\ job'[j] # Idle /\ job'[j].at \in {"paid", "refused"} /\ job'[j].p = job[j].p
          /\ job'[j].inv = job[j].inv
          /\ \A k \in Jobs \ {j} : job'[k] = job[k]
      BY <2>6, <3>1, GotoJob DEF PayReplies, Steps
    <3>3. CASE p # job[j].p
      <4>1. Untouched(p)
        BY <2>6, <3>1, <3>2, <3>3 DEF PayReplies, Untouched, On, TypeOK
      <4> QED
        BY <4>1, UntouchedStep
    <3>4. CASE p = job[j].p
      <4>1. On(j, p) /\ Works(j, p) /\ bolt11[p] # 0 /\ LateJob(j, p)
        BY <2>6, <3>1, <3>4
        DEF PayReplies, PayoutInv, BeforeInvoice, AfterInvoice, EarlyJob, On, Works
      <4>2. JobMoves(j, p)
        BY <2>6, <3>1, <3>2, <3>4, <4>1 DEF PayReplies, JobMoves
      <4>3. \/ job'[j].at = "paid" /\ pay[p][bolt11[p]] = "settled"
            \/ job'[j].at = "refused" /\ NeverPaid(p)
        <5>1. \/ Goto(j, "paid") /\ pay[p][bolt11[p]] = "settled"
              \/ Goto(j, "refused") /\ pay[p][bolt11[p]] = "failed"
          BY <2>6, <3>4, <4>1 DEF PayReplies, LateJob
        <5> QED
          BY <3>1, <4>1, <5>1, GotoJob, FailedIsNeverPaid DEF Steps
      <4>4. NeverPaid(p) => NeverPaid(p)'
        BY <4>2, <3>2 DEF NeverPaid, JobMoves, On, Works
      <4>5. LateJob(j, p)'
        BY <3>2, <4>1, <4>2, <4>3, <4>4 DEF LateJob, JobMoves
      <4> QED
        BY <4>1, <4>2, <4>5, JobMovesStep
    <3> QED
      BY <3>3, <3>4
  <2>7. CASE PayTimesOut(j)
    <3>1. job[j] # Idle /\ job[j].p \in Payouts /\ job[j].inv \in 0..MaxMint
      BY <2>7, JobKnown DEF PayTimesOut, Idle
    <3>2. /\ job'[j] # Idle /\ job'[j].at = "ambiguous" /\ job'[j].p = job[j].p
          /\ job'[j].inv = job[j].inv
          /\ \A k \in Jobs \ {j} : job'[k] = job[k]
      BY <2>7, <3>1, GotoJob DEF PayTimesOut, Steps
    <3>3. CASE p # job[j].p
      <4>1. Untouched(p)
        BY <2>7, <3>1, <3>2, <3>3 DEF PayTimesOut, Untouched, On, TypeOK
      <4> QED
        BY <4>1, UntouchedStep
    <3>4. CASE p = job[j].p
      <4>1. On(j, p) /\ Works(j, p)
        BY <2>7, <3>1, <3>4 DEF PayTimesOut, On, Works
      <4>2. JobMoves(j, p)
        BY <2>7, <3>1, <3>2, <3>4, <4>1 DEF PayTimesOut, JobMoves, Idle, TypeOK
      <4>3. job'[j] # Idle => IF bolt11[p] = 0 THEN EarlyJob(j, p)' ELSE LateJob(j, p)'
        BY <2>7, <3>1, <3>2, <3>4, <4>1
        DEF PayTimesOut, TypeOK, PayoutInv, BeforeInvoice, AfterInvoice, EarlyJob, LateJob,
            RowIsTrue, NeverPaid, On, Works
      <4> QED
        BY <4>2, <4>3, JobMovesStep
    <3> QED
      BY <3>3, <3>4
  <2>8. CASE MarkSent(j)
    <3>1. job[j] # Idle /\ job[j].p \in Payouts /\ job[j].inv \in 0..MaxMint
      BY <2>8, JobKnown DEF MarkSent, Idle
    <3>2. job'[j] = Idle /\ \A k \in Jobs \ {j} : job'[k] = job[k]
      BY <2>8, <3>1, FinishJob DEF MarkSent
    <3>3. CASE p # job[j].p
      <4>1. Untouched(p)
        BY <2>8, <3>1, <3>2, <3>3 DEF MarkSent, Untouched, On, TypeOK
      <4> QED
        BY <4>1, UntouchedStep
    <3>4. CASE p = job[j].p
      <4>1. On(j, p) /\ Works(j, p) /\ job[j].at = "paid"
        BY <2>8, <3>1, <3>4 DEF MarkSent, On, Works
      <4>2. bolt11[p] # 0 /\ pay[p][bolt11[p]] = "settled"
        BY <4>1 DEF PayoutInv, BeforeInvoice, AfterInvoice, EarlyJob, LateJob
      <4>3. UNCHANGED <<bolt11, pay, broken>> /\ state'[p] = "sent"
        BY <2>8, <3>1, <3>4 DEF MarkSent, TypeOK
      <4> QED
        BY <3>2, <4>1, <4>2, <4>3, RowDecided
    <3> QED
      BY <3>3, <3>4
  <2>9. CASE MarkSentBreaks(j)
    <3>1. job[j] # Idle /\ job[j].p \in Payouts /\ job[j].inv \in 0..MaxMint
      BY <2>9, JobKnown DEF MarkSentBreaks, Idle
    <3>2. /\ job'[j] # Idle /\ job'[j].at = "refused" /\ job'[j].p = job[j].p
          /\ job'[j].inv = job[j].inv
          /\ \A k \in Jobs \ {j} : job'[k] = job[k]
      BY <2>9, <3>1, GotoJob DEF MarkSentBreaks, Steps
    <3>3. CASE p # job[j].p
      <4>1. Untouched(p)
        BY <2>9, <3>1, <3>2, <3>3 DEF MarkSentBreaks, Untouched, On, TypeOK
      <4> QED
        BY <4>1, UntouchedStep
    <3>4. CASE p = job[j].p
      <4>1. On(j, p) /\ Works(j, p)
        BY <2>9, <3>1, <3>4 DEF MarkSentBreaks, On, Works
      <4>0. bolt11[p] # 0 /\ pay[p][bolt11[p]] = "settled"
        BY <2>9, <4>1 DEF MarkSentBreaks, PayoutInv, BeforeInvoice, EarlyJob, AfterInvoice,
                          LateJob
      <4>2. JobMoves(j, p)
        BY <2>9, <3>1, <3>2, <3>4, <4>0, <4>1 DEF MarkSentBreaks, JobMoves, Idle, TypeOK
      <4>3. job'[j] # Idle => IF bolt11[p] = 0 THEN EarlyJob(j, p)' ELSE LateJob(j, p)'
        BY <2>9, <3>1, <3>2, <3>4, <4>1
        DEF MarkSentBreaks, TypeOK, PayoutInv, BeforeInvoice, AfterInvoice, EarlyJob, LateJob,
            RowIsTrue, NeverPaid, On, Works
      <4> QED
        BY <4>2, <4>3, JobMovesStep
    <3> QED
      BY <3>3, <3>4
  <2>10. CASE MarkFailed(j)
    <3>1. job[j] # Idle /\ job[j].p \in Payouts /\ job[j].inv \in 0..MaxMint
      BY <2>10, JobKnown DEF MarkFailed, Idle
    <3>2. job'[j] = Idle /\ \A k \in Jobs \ {j} : job'[k] = job[k]
      BY <2>10, <3>1, FinishJob DEF MarkFailed
    <3>3. CASE p # job[j].p
      <4>1. Untouched(p)
        BY <2>10, <3>1, <3>2, <3>3 DEF MarkFailed, Untouched, On, TypeOK
      <4> QED
        BY <4>1, UntouchedStep
    <3>4. CASE p = job[j].p
      <4>1. Works(j, p) /\ state' = [state EXCEPT ![p] = "failed"] /\ job[j].at = "refused"
            /\ UNCHANGED <<bolt11, pay, broken>>
        BY <2>10, <3>1, <3>4 DEF MarkFailed, On, Works
      <4>2. \A k \in Jobs : Works(k, p)' => Works(k, p) /\ k # j /\ job'[k] = job[k]
        BY <3>2 DEF On, Works
      <4>3. BeforeInvoice(p)'
        BY <4>1, <4>2 DEF PayoutInv, BeforeInvoice
      <4>4. bolt11[p] # 0 => \A k \in Jobs : Works(k, p) => job[k].at # "saved"
        BY <4>1 DEF PayoutInv, AfterInvoice, LateJob, NeverPaid, RowIsTrue, Works
      <4>5. NeverPaid(p) => NeverPaid(p)'
        BY <3>2, <4>1 DEF NeverPaid, On
      <4>6. AfterInvoice(p)'
        BY <4>1, <4>2, <4>4, <4>5 DEF PayoutInv, AfterInvoice, LateJob, TypeOK, Works, On
      <4>7. RowIsTrue(p)'
        <5>1. p \in broken \/ NeverPaid(p)
          <6>1. CASE bolt11[p] = 0
            BY <4>1, <6>1 DEF PayoutInv, BeforeInvoice, EarlyJob, NeverPaid, Works
          <6>2. CASE bolt11[p] # 0
            BY <4>1, <6>2 DEF PayoutInv, AfterInvoice, LateJob
          <6> QED
            BY <6>1, <6>2
        <5> QED
          BY <4>1, <4>5, <5>1 DEF PayoutInv, RowIsTrue, TypeOK
      <4> QED
        BY <4>3, <4>6, <4>7 DEF PayoutInv
    <3> QED
      BY <3>3, <3>4
  <2>11. CASE NothingToReconcile(j)
    <3>1. job[j] # Idle /\ job[j].p \in Payouts /\ job[j].inv \in 0..MaxMint
      BY <2>11, JobKnown DEF NothingToReconcile, Idle
    <3>2. job'[j] = Idle /\ \A k \in Jobs \ {j} : job'[k] = job[k]
      BY <2>11, <3>1, FinishJob DEF NothingToReconcile
    <3>3. CASE p # job[j].p
      <4>1. Untouched(p)
        BY <2>11, <3>1, <3>2, <3>3 DEF NothingToReconcile, Untouched, On, TypeOK
      <4> QED
        BY <4>1, UntouchedStep
    <3>4. CASE p = job[j].p
      <4>1. On(j, p)
        BY <3>1, <3>4 DEF On
      <4>2. JobMoves(j, p)
        BY <2>11, <3>1, <3>2, <3>4, <4>1 DEF NothingToReconcile, JobMoves, Idle, TypeOK
      <4>3. job'[j] # Idle => IF bolt11[p] = 0 THEN EarlyJob(j, p)' ELSE LateJob(j, p)'
        BY <3>2
      <4> QED
        BY <4>2, <4>3, JobMovesStep
    <3> QED
      BY <3>3, <3>4
  <2>12. CASE Requeue(j)
    <3>1. job[j] # Idle /\ job[j].p \in Payouts /\ job[j].inv \in 0..MaxMint
      BY <2>12, JobKnown DEF Requeue, Idle
    <3>2. job'[j] = Idle /\ \A k \in Jobs \ {j} : job'[k] = job[k]
      BY <2>12, <3>1, FinishJob DEF Requeue
    <3>3. CASE p # job[j].p
      <4>1. Untouched(p)
        BY <2>12, <3>1, <3>2, <3>3 DEF Requeue, Untouched, On, TypeOK
      <4> QED
        BY <4>1, UntouchedStep
    <3>4. CASE p = job[j].p
      <4>1. NobodyWentOn(p)
        BY <2>12, <3>4 DEF Requeue
      <4>2. bolt11[p] = 0
        BY <4>1 DEF NobodyWentOn, PayoutInv, AfterInvoice
      <4>3. \A k \in Jobs : ~Works(k, p)
        BY <4>1, <4>2 DEF NobodyWentOn, PayoutInv, BeforeInvoice, EarlyJob
      <4>4. (\A i \in Invoices : pay[p][i] = "none") /\ p \notin broken
        BY <4>2 DEF PayoutInv, BeforeInvoice, RowIsTrue
      <4>5. UNCHANGED <<bolt11, pay, broken>> /\ state'[p] = "requested"
        BY <2>12, <3>1, <3>4 DEF Requeue, TypeOK
      <4>6. \A k \in Jobs : ~Works(k, p)'
        BY <3>2, <4>3 DEF Works, On
      <4> QED
        BY <4>2, <4>4, <4>5, <4>6 DEF PayoutInv, BeforeInvoice, AfterInvoice, RowIsTrue
    <3> QED
      BY <3>3, <3>4
  <2>13. CASE LookUp(j)
    <3>1. job[j] # Idle /\ job[j].p \in Payouts /\ job[j].inv \in 0..MaxMint
      BY <2>13, JobKnown DEF LookUp, Idle
    <3>2. /\ \A k \in Jobs \ {j} : job'[k] = job[k]
          /\ \/ job'[j] = Idle
             \/ /\ job'[j] # Idle /\ job'[j].p = job[j].p /\ job'[j].inv = job[j].inv
                /\ \/ job'[j].at = "foundSent" /\ pay[job[j].p][job[j].inv] = "settled"
                   \/ job'[j].at = "foundFailed" /\ pay[job[j].p][job[j].inv] = "failed"
      BY <2>13, <3>1, GotoJob, FinishJob DEF LookUp, Steps
    <3>3. CASE p # job[j].p
      <4>1. Untouched(p)
        BY <2>13, <3>1, <3>2, <3>3 DEF LookUp, Untouched, On, TypeOK
      <4> QED
        BY <4>1, UntouchedStep
    <3>4. CASE p = job[j].p
      <4>1. On(j, p) /\ Works(j, p)
        BY <2>13, <3>1, <3>4 DEF LookUp, On, Works
      <4>2. JobMoves(j, p)
        BY <2>13, <3>1, <3>2, <3>4, <4>1 DEF LookUp, JobMoves, Idle, TypeOK
      <4>3. job[j].at = "lookup" /\ UNCHANGED <<bolt11, pay, state>>
        BY <2>13 DEF LookUp, At
      <4>4. bolt11[p] # 0 /\ job[j].inv = bolt11[p]
            /\ \A i \in Invoices \ {bolt11[p]} : pay[p][i] = "none"
        BY <4>1, <4>3 DEF PayoutInv, BeforeInvoice, AfterInvoice, EarlyJob, LateJob
      <4>5. ASSUME job'[j] # Idle, job'[j].at = "foundFailed" PROVE NeverPaid(p)'
        <5>1. pay[p][bolt11[p]] = "failed"
          BY <3>2, <3>4, <4>4, <4>5
        <5>2. \A k \in Jobs : On(k, p) => job[k].at # "saved"
          BY <4>4, <5>1 DEF PayoutInv, AfterInvoice, LateJob, Works
        <5>3. \A k \in Jobs : On(k, p)' => job'[k].at # "saved"
          BY <3>2, <4>5, <5>2 DEF On, Works
        <5> QED
          BY <4>3, <4>4, <5>1, <5>3 DEF NeverPaid
      <4>6. job'[j] # Idle => LateJob(j, p)'
        BY <3>2, <3>4, <4>3, <4>4, <4>5 DEF LateJob
      <4>7. job'[j] # Idle => IF bolt11[p] = 0 THEN EarlyJob(j, p)' ELSE LateJob(j, p)'
        BY <4>4, <4>6
      <4> QED
        BY <4>2, <4>7, JobMovesStep
    <3> QED
      BY <3>3, <3>4
  <2>14. CASE LookUpFails(j)
    <3>1. job[j] # Idle /\ job[j].p \in Payouts /\ job[j].inv \in 0..MaxMint
      BY <2>14, JobKnown DEF LookUpFails, Idle
    <3>2. job'[j] = Idle /\ \A k \in Jobs \ {j} : job'[k] = job[k]
      BY <2>14, <3>1, FinishJob DEF LookUpFails
    <3>3. CASE p # job[j].p
      <4>1. Untouched(p)
        BY <2>14, <3>1, <3>2, <3>3 DEF LookUpFails, Untouched, On, TypeOK
      <4> QED
        BY <4>1, UntouchedStep
    <3>4. CASE p = job[j].p
      <4>1. On(j, p)
        BY <3>1, <3>4 DEF On
      <4>2. JobMoves(j, p)
        BY <2>14, <3>1, <3>2, <3>4, <4>1 DEF LookUpFails, JobMoves, Idle, TypeOK
      <4>3. job'[j] # Idle => IF bolt11[p] = 0 THEN EarlyJob(j, p)' ELSE LateJob(j, p)'
        BY <3>2
      <4> QED
        BY <4>2, <4>3, JobMovesStep
    <3> QED
      BY <3>3, <3>4
  <2>15. CASE WriteFound(j)
    <3>1. job[j] # Idle /\ job[j].p \in Payouts /\ job[j].inv \in 0..MaxMint
      BY <2>15, JobKnown DEF WriteFound, Idle
    <3>2. job'[j] = Idle /\ \A k \in Jobs \ {j} : job'[k] = job[k]
      BY <2>15, <3>1, FinishJob DEF WriteFound
    <3>3. CASE p # job[j].p
      <4>1. Untouched(p)
        BY <2>15, <3>1, <3>2, <3>3 DEF WriteFound, Untouched, On, TypeOK
      <4> QED
        BY <4>1, UntouchedStep
    <3>4. CASE p = job[j].p
      <4>1. On(j, p) /\ Works(j, p) /\ job[j].at \in {"foundSent", "foundFailed"}
        BY <2>15, <3>1, <3>4 DEF WriteFound, On, Works
      <4>2. /\ bolt11[p] # 0
            /\ job[j].at = "foundSent" => pay[p][bolt11[p]] = "settled"
            /\ job[j].at = "foundFailed" => NeverPaid(p)
        BY <4>1 DEF PayoutInv, BeforeInvoice, AfterInvoice, EarlyJob, LateJob
      <4>3. /\ UNCHANGED <<bolt11, pay, broken>>
            /\ \/ job[j].at = "foundSent" /\ state'[p] = "sent"
               \/ job[j].at = "foundFailed" /\ state'[p] = "failed"
        BY <2>15, <3>1, <3>4 DEF WriteFound, TypeOK
      <4> QED
        BY <3>2, <4>1, <4>2, <4>3, RowDecided
    <3> QED
      BY <3>3, <3>4
  <2>16. CASE Crash(j)
    <3>1. job[j] # Idle /\ job[j].p \in Payouts /\ job[j].inv \in 0..MaxMint
      BY <2>16, JobKnown DEF Crash, Idle
    <3>2. job'[j] = Idle /\ \A k \in Jobs \ {j} : job'[k] = job[k]
      BY <2>16, <3>1, FinishJob DEF Crash
    <3>3. CASE p # job[j].p
      <4>1. Untouched(p)
        BY <2>16, <3>1, <3>2, <3>3 DEF Crash, Untouched, On, TypeOK
      <4> QED
        BY <4>1, UntouchedStep
    <3>4. CASE p = job[j].p
      <4>1. On(j, p)
        BY <3>1, <3>4 DEF On
      <4>2. JobMoves(j, p)
        BY <2>16, <3>1, <3>2, <3>4, <4>1 DEF Crash, JobMoves, Idle, TypeOK
      <4>3. job'[j] # Idle => IF bolt11[p] = 0 THEN EarlyJob(j, p)' ELSE LateJob(j, p)'
        BY <2>16, <3>1, <3>2, <3>4, <4>1
        DEF Crash, TypeOK, PayoutInv, BeforeInvoice, AfterInvoice, EarlyJob, LateJob, RowIsTrue,
            NeverPaid, On, Works
      <4> QED
        BY <4>2, <4>3, JobMovesStep
    <3> QED
      BY <3>3, <3>4
  <2> QED
    BY <1>5, <2>1, <2>2, <2>3, <2>4, <2>5, <2>6, <2>7, <2>8, <2>9,
       <2>10, <2>11, <2>12, <2>13, <2>14, <2>15, <2>16, <2>17
    DEF Execute, ReconcilePayout
<1>6. CASE UNCHANGED vars
  <2>1. Untouched(p)
    BY <1>6 DEF Untouched, On
  <2> QED
    BY <2>1, UntouchedStep
<1> QED
  BY <1>1, <1>2, <1>3, <1>4, <1>5, <1>6 DEF Next

-----------------------------------------------------------------------------

\* The exceptions stay exceptions.
LEMMA ExceptionsStay ==
  ASSUME [Next]_vars
  PROVE  retaken \subseteq retaken' /\ broken \subseteq broken'
<1> USE DEF vars
<1>1. ASSUME NEW j \in Jobs, Execute(j) \/ ReconcilePayout(j) \/ Crash(j)
      PROVE  retaken \subseteq retaken' /\ broken \subseteq broken'
  <2>1. CASE MarkSentBreaks(j) \/ Requeue(j)
    BY <2>1 DEF MarkSentBreaks, Requeue
  <2>2. CASE ~ (MarkSentBreaks(j) \/ Requeue(j))
    BY <1>1, <2>2
    DEF Execute, ReconcilePayout, Claim, Prepare, SaveInvoice, SaveInvoiceBreaks, SendPay,
        PayReplies, PayTimesOut, MarkSent, MarkFailed, ReadSending, NothingToReconcile, LookUp,
        LookUpFails, WriteFound, Crash
  <2> QED
    BY <2>1, <2>2
<1>2. CASE ~ \E j \in Jobs : Execute(j) \/ ReconcilePayout(j) \/ Crash(j)
  BY <1>2 DEF Next, Earn, Request, GetsOld, PaymentEnds
<1> QED
  BY <1>1, <1>2

\* Who writes the rows' states.
LEMMA StateStays ==
  ASSUME [Next]_vars,
         \A q \in Payouts : ~Request(q),
         \A j \in Jobs : /\ \A q \in Payouts : ~Claim(j, q)
                        /\ ~MarkSent(j) /\ ~MarkFailed(j) /\ ~WriteFound(j) /\ ~Requeue(j)
  PROVE  UNCHANGED state
  BY DEF Next, vars, rowVars, Earn, GetsOld, PaymentEnds, Execute, ReconcilePayout, Prepare,
         SaveInvoice, SaveInvoiceBreaks, SendPay, PayReplies, PayTimesOut, MarkSentBreaks,
         ReadSending, NothingToReconcile, LookUp, LookUpFails, Crash

\* A step requests a payout when none is in flight, or adds none but a retaken one.
LEMMA AloneStep ==
  ASSUME PayoutConstants, TypeOK, Alone, [Next]_vars
  PROVE  Alone'
<1> USE DEF SetState, Touch, At, InFlight
<1>1. ASSUME NEW q \in Payouts, Request(q) PROVE Alone'
  <2>1. \A p \in Payouts \ {q} : state'[p] = state[p]
    BY <1>1 DEF Request, TypeOK
  <2>2. InFlight' \subseteq {q}
    BY <1>1, <2>1 DEF Request
  <2> QED
    BY <2>2 DEF Alone
<1>2. CASE (InFlight \ retaken)' \subseteq InFlight \ retaken
  BY <1>2 DEF Alone
<1>3. CASE UNCHANGED state
  BY <1>3, ExceptionsStay DEF Alone
<1>4. ASSUME NEW j \in Jobs, NEW q \in Payouts, Claim(j, q)
      PROVE  (InFlight \ retaken)' \subseteq InFlight \ retaken
  BY <1>4 DEF Claim, TypeOK
<1>5. ASSUME NEW j \in Jobs, MarkSent(j) \/ MarkFailed(j) \/ WriteFound(j)
      PROVE  (InFlight \ retaken)' \subseteq InFlight \ retaken
  <2>1. job[j] # Idle
    BY <1>5 DEF MarkSent, MarkFailed, WriteFound, Idle
  <2>2. job[j].p \in Payouts
    BY <2>1, JobKnown
  <2> QED
    BY <1>5, <2>2 DEF MarkSent, MarkFailed, WriteFound, TypeOK
<1>6. ASSUME NEW j \in Jobs, Requeue(j)
      PROVE  (InFlight \ retaken)' \subseteq InFlight \ retaken
  <2>1. job[j] # Idle
    BY <1>6 DEF Requeue, Idle
  <2>2. PICK q \in Payouts : q = job[j].p
    BY <2>1, JobKnown
  <2>3. /\ state' = [state EXCEPT ![q] = "requested"]
        /\ retaken' = retaken \cup (IF NobodyWentOn(q) THEN {} ELSE {q})
    BY <1>6, <2>2 DEF Requeue
  <2>4. CASE NobodyWentOn(q)
    BY <2>3, <2>4 DEF NobodyWentOn, TypeOK
  <2>5. CASE ~NobodyWentOn(q)
    BY <2>3, <2>5 DEF TypeOK
  <2> QED
    BY <2>4, <2>5
<1> QED
  BY <1>1, <1>2, <1>3, <1>4, <1>5, <1>6, StateStays

LEMMA InvStep == ASSUME PayoutConstants, Inv, [Next]_vars PROVE Inv'
<1>1. TypeOK' /\ Alone'
  BY TypeStep, AloneStep DEF Inv
<1>2. ASSUME NEW p \in Payouts \ retaken' PROVE PayoutInv(p)'
  BY ExceptionsStay, PayoutStep DEF Inv
<1> QED
  BY <1>1, <1>2 DEF Inv

THEOREM SpecInv == ASSUME PayoutConstants PROVE Spec => []Inv
<1>1. Init => Inv
  BY InitInv
<1>2. Inv /\ [Next]_vars => Inv'
  BY InvStep
<1> QED
  BY <1>1, <1>2, PTL DEF Spec

LEMMA AtMostOne ==
  ASSUME NEW S, \A x, y \in S : x = y
  PROVE  Cardinality(S) <= 1
<1>1. CASE S = {}
  <2>1. Cardinality(S) = 0
    BY <1>1, FS_EmptySet, Zenon
  <2> QED
    BY <2>1
<1>2. CASE S # {}
  <2>1. PICK x \in S : S = {x}
    BY <1>2
  <2>2. Cardinality({x}) = 1
    BY FS_Singleton
  <2>3. Cardinality(S) = 1
    BY <2>1, <2>2, Zenon
  <2> QED
    BY <2>3
<1> QED
  BY <1>1, <1>2

\* However a payout is interrupted, requeued and reconciled, and however many ticks
\* overlap, at most one of its invoices is ever paid, unless a tick that had read the row
\* before the others went on takes it back (reconcilePayout updates it by id alone).
THEOREM SpecPaidOnceUnlessRetaken ==
  ASSUME PayoutConstants PROVE Spec => []PaidOnceUnlessRetaken
<1>1. Inv => PaidOnceUnlessRetaken
  <2> SUFFICES ASSUME Inv, NEW p \in Payouts \ retaken
               PROVE  Cardinality(SettledInvoices(p)) <= 1
    BY DEF PaidOnceUnlessRetaken
  <2>1. \A i, k \in SettledInvoices(p) : i = k
    BY DEF Inv, PayoutInv, BeforeInvoice, AfterInvoice, SettledInvoices
  <2> QED
    BY <2>1, AtMostOne
<1> QED
  BY <1>1, SpecInv, PTL

\* Never two payouts of the partner in flight, one taken back apart: a request looks for
\* one under the partner's row lock, and any other requeued row was in flight still.
THEOREM SpecOnePayoutInFlight == ASSUME PayoutConstants PROVE Spec => []OnePayoutInFlight
<1>1. Inv => OnePayoutInFlight
  BY AtMostOne DEF Inv, Alone, OnePayoutInFlight
<1> QED
  BY <1>1, SpecInv, PTL

\* A failed payout, whose amount the partner may request again, was not paid and
\* never will be, unless its update was lost or a tick took it back.
THEOREM SpecFailedIsNotPaid == ASSUME PayoutConstants PROVE Spec => []FailedIsNotPaid
<1>1. Inv => FailedIsNotPaid
  BY DEF Inv, PayoutInv, RowIsTrue, NeverPaid, FailedIsNotPaid
<1> QED
  BY <1>1, SpecInv, PTL

\* A step takes no sent or failed payout back, but as an exception.
LEMMA FinalStep == ASSUME PayoutConstants, Inv, [Next]_vars PROVE FinalStays
<1>1. ASSUME NEW p \in Payouts \ (broken \cup retaken'), state[p] \in {"sent", "failed"}
      PROVE  state'[p] = state[p]
  <2> USE DEF SetState, Touch, At
  <2>1. PayoutInv(p) /\ TypeOK
    BY <1>1, ExceptionsStay DEF Inv
  <2>2. ASSUME NEW j \in Jobs, job[j] # Idle, job[j].p = p, job[j].at # "requeue"
        PROVE  /\ bolt11[p] # 0 /\ LateJob(j, p)
               /\ job[j].at \in {"paid", "foundSent"} => state[p] = "sent"
               /\ job[j].at \in {"refused", "foundFailed"} => state[p] = "failed"
    <3>1. Works(j, p)
      BY <2>2 DEF Works, On
    <3>2. bolt11[p] # 0 /\ LateJob(j, p)
      BY <1>1, <2>1, <3>1 DEF PayoutInv, BeforeInvoice, EarlyJob, AfterInvoice
    <3>3. bolt11[p] \in Invoices
      BY <2>1, <3>2 DEF TypeOK, Invoices, PayoutConstants
    <3> QED
      BY <1>1, <2>1, <3>2, <3>3 DEF PayoutInv, RowIsTrue, LateJob, NeverPaid
  <2>3. ASSUME NEW q \in Payouts, Request(q) PROVE state'[p] = state[p]
    BY <1>1, <2>1, <2>3 DEF Request, TypeOK
  <2>4. ASSUME NEW j \in Jobs, NEW q \in Payouts, Claim(j, q) PROVE state'[p] = state[p]
    BY <1>1, <2>1, <2>4 DEF Claim, TypeOK
  <2>5. ASSUME NEW j \in Jobs, MarkSent(j) \/ MarkFailed(j) \/ WriteFound(j)
        PROVE  state'[p] = state[p]
    <3>1. job[j] # Idle
      BY <2>5 DEF MarkSent, MarkFailed, WriteFound, Idle
    <3>2. CASE job[j].p # p
      BY <2>1, <2>5, <3>2 DEF MarkSent, MarkFailed, WriteFound, TypeOK
    <3>3. CASE job[j].p = p
      BY <2>1, <2>2, <2>5, <3>1, <3>3 DEF MarkSent, MarkFailed, WriteFound, TypeOK
    <3> QED
      BY <3>2, <3>3
  <2>6. ASSUME NEW j \in Jobs, Requeue(j) PROVE state'[p] = state[p]
    <3>1. CASE job[j].p # p
      BY <2>1, <2>6, <3>1 DEF Requeue, TypeOK
    <3>2. CASE job[j].p = p
      BY <1>1, <2>6, <3>2 DEF Requeue, NobodyWentOn
    <3> QED
      BY <3>1, <3>2
  <2> QED
    BY <2>3, <2>4, <2>5, <2>6, StateStays
<1> QED
  BY <1>1 DEF FinalStays

\* A sent or failed payout is not taken back, although every update but the claim
\* names the row by its id alone; the row of a lost update and one that a slow tick
\* requeues are the exceptions.
THEOREM SpecPayoutIsFinal == ASSUME PayoutConstants PROVE Spec => PayoutIsFinal
<1>1. Inv /\ [Next]_vars => [FinalStays]_vars
  BY FinalStep
<1> QED
  BY <1>1, SpecInv, PTL DEF Spec, PayoutIsFinal

-----------------------------------------------------------------------------
(* Where the exception comes from: a row is taken back only when two ticks *)
(* overlap.                                                                *)

\* A tick that is about to requeue a row has it to itself, if there is one tick.
RequeueIsDue(j) ==
  job[j] # Idle /\ job[j].at = "requeue" =>
    /\ j \in Drivers
    /\ state[job[j].p] = "sending" /\ bolt11[job[j].p] = 0 /\ job[j].p \in old

LEMMA DueStep ==
  ASSUME PayoutConstants, \A d, e \in Drivers : d = e, Inv, [Next]_vars,
         retaken = {}, \A j \in Jobs : RequeueIsDue(j)
  PROVE  retaken' = {} /\ \A j \in Jobs : RequeueIsDue(j)'
<1> USE DEF SetState, Touch, At
<1>1. TypeOK /\ \A p \in Payouts : PayoutInv(p)
  BY DEF Inv
<1>2. ASSUME NEW j \in Jobs, Requeue(j) PROVE retaken' = {}
  <2>1. job[j] # Idle /\ NobodyWentOn(job[j].p)
    BY <1>2 DEF Requeue, RequeueIsDue, NobodyWentOn, Idle
  <2> QED
    BY <1>2, <2>1 DEF Requeue
<1>3. retaken' = {}
  <2>1. CASE \A j \in Jobs : ~Requeue(j)
    BY <2>1 DEF Next, vars, Earn, Request, GetsOld, PaymentEnds, Execute, ReconcilePayout, Claim,
                Prepare, SaveInvoice, SaveInvoiceBreaks, SendPay, PayReplies, PayTimesOut,
                MarkSent, MarkSentBreaks, MarkFailed, ReadSending, NothingToReconcile, LookUp,
                LookUpFails, WriteFound, Crash
  <2> QED
    BY <1>2, <2>1
<1>4. ASSUME NEW j \in Jobs, job'[j] # Idle, job'[j].at = "requeue", job'[j] # job[j]
      PROVE  RequeueIsDue(j)'
  <2>1. PICK q \in Payouts : ReadSending(j, q)
    <3>1. ASSUME NEW k \in Jobs, \A q \in Payouts : ~ReadSending(k, q) /\ ~Claim(k, q),
                 Execute(k) \/ ReconcilePayout(k) \/ Crash(k)
          PROVE  FALSE
      <4>1. job[k] # Idle
        BY <3>1 DEF Execute, ReconcilePayout, Prepare, SaveInvoice, SaveInvoiceBreaks, SendPay,
                    PayReplies, PayTimesOut, MarkSent, MarkSentBreaks, MarkFailed,
                    NothingToReconcile, Requeue, LookUp, LookUpFails, WriteFound, Crash, Idle
      <4>2. CASE Prepare(k)
        <5>1. CASE Goto(k, "refused")
          BY <1>1, <1>4, <4>1, <5>1, GotoJob DEF Steps
        <5>2. CASE ~Goto(k, "refused")
          <6>1. PICK p \in Payouts, n \in 0..MaxMint :
                  job' = [job EXCEPT ![k] = [at |-> "minted", p |-> p, inv |-> n]]
            BY <1>1, <4>1, <4>2, <5>2, JobKnown DEF Prepare, TypeOK, PayoutConstants
          <6> QED
            BY <1>1, <1>4, <6>1, NewJob DEF Steps
        <5> QED
          BY <5>1, <5>2
      <4>3. CASE \/ SaveInvoice(k) \/ SaveInvoiceBreaks(k) \/ SendPay(k) \/ PayReplies(k)
                 \/ PayTimesOut(k) \/ MarkSentBreaks(k) \/ LookUp(k)
        BY <1>1, <1>4, <4>1, <4>3, GotoJob, FinishJob
        DEF SaveInvoice, SaveInvoiceBreaks, SendPay, PayReplies, PayTimesOut, MarkSentBreaks,
            LookUp, Steps
      <4>4. CASE \/ MarkSent(k) \/ MarkFailed(k) \/ NothingToReconcile(k) \/ Requeue(k)
                 \/ LookUpFails(k) \/ WriteFound(k) \/ Crash(k)
        BY <1>1, <1>4, <4>4, FinishJob
        DEF MarkSent, MarkFailed, NothingToReconcile, Requeue, LookUpFails, WriteFound, Crash
      <4> QED
        BY <3>1, <4>2, <4>3, <4>4 DEF Execute, ReconcilePayout
    <3>2. ASSUME NEW k \in Jobs, NEW q \in Payouts, Claim(k, q) PROVE FALSE
      <4>1. /\ "claimed" \in Steps /\ 0 \in 0..MaxMint
            /\ job' = [job EXCEPT ![k] = [at |-> "claimed", p |-> q, inv |-> 0]]
        BY <3>2 DEF Claim, Steps, PayoutConstants
      <4>2. job'[k].at = "claimed" /\ \A l \in Jobs \ {k} : job'[l] = job[l]
        BY <1>1, <4>1, NewJob
      <4> QED
        BY <1>4, <4>2
    <3>3. ASSUME NEW k \in Jobs, NEW q \in Payouts, ReadSending(k, q) PROVE k = j
      BY <1>1, <1>4, <3>3 DEF ReadSending, TypeOK
    <3> QED
      BY <1>4, <3>1, <3>2, <3>3
      DEF Next, vars, Earn, Request, GetsOld, PaymentEnds, Execute, ReconcilePayout
  <2>2. /\ bolt11[q] = 0 /\ q \in old /\ state[q] = "sending"
        /\ UNCHANGED <<state, bolt11, old>> /\ job'[j].p = q
    BY <1>1, <1>4, <2>1 DEF ReadSending, rowVars, TypeOK
  <2>3. j \in Drivers
    <3>1. ~Works(j, q)
      BY <1>1, <2>2 DEF PayoutInv, BeforeInvoice, EarlyJob
    <3> QED
      BY <2>1, <3>1 DEF ReadSending, Works, On, Idle
  <2> QED
    BY <2>2, <2>3 DEF RequeueIsDue
<1>5. ASSUME NEW j \in Jobs, job'[j] # Idle, job'[j].at = "requeue", job'[j] = job[j]
      PROVE  RequeueIsDue(j)'
  <2> PICK p \in Payouts : p = job[j].p
    BY <1>1, <1>5, JobKnown
  <2>1. j \in Drivers /\ state[p] = "sending" /\ bolt11[p] = 0 /\ p \in old
    BY <1>5 DEF RequeueIsDue
  <2>2. \A k \in Jobs : ~Works(k, p)
    BY <1>1, <2>1 DEF PayoutInv, BeforeInvoice, EarlyJob
  <2>3. ASSUME NEW k \in Jobs, Execute(k) \/ ReconcilePayout(k) \/ Crash(k)
        PROVE  state'[p] = state[p] /\ bolt11'[p] = bolt11[p] /\ (p \in old => p \in old')
    <3>1. CASE Requeue(k)
      <4>1. k # j
        BY <1>1, <1>5, <3>1, FinishJob DEF Requeue
      <4>2. job[k] # Idle /\ job[k].at = "requeue"
        BY <3>1 DEF Requeue, Idle
      <4> QED
        BY <2>1, <4>1, <4>2 DEF RequeueIsDue
    <3>2. CASE \/ SaveInvoice(k) \/ MarkSent(k) \/ MarkFailed(k) \/ LookUp(k) \/ LookUpFails(k)
               \/ WriteFound(k)
      <4>1. job[k] # Idle /\ job[k].at # "requeue"
        BY <3>2 DEF SaveInvoice, MarkSent, MarkFailed, LookUp, LookUpFails, WriteFound, Idle
      <4>2. job[k].p # p
        BY <2>2, <4>1 DEF Works, On
      <4> QED
        BY <1>1, <3>2, <4>2
        DEF SaveInvoice, MarkSent, MarkFailed, LookUp, LookUpFails, WriteFound, TypeOK
    <3>3. ASSUME NEW q \in Payouts, Claim(k, q)
          PROVE  state'[p] = state[p] /\ bolt11'[p] = bolt11[p] /\ (p \in old => p \in old')
      BY <1>1, <2>1, <3>3 DEF Claim, TypeOK
    <3>4. CASE \/ \E q \in Payouts : ReadSending(k, q)
               \/ Prepare(k) \/ SaveInvoiceBreaks(k) \/ SendPay(k) \/ PayReplies(k)
               \/ PayTimesOut(k) \/ MarkSentBreaks(k) \/ NothingToReconcile(k) \/ Crash(k)
      BY <3>4 DEF ReadSending, Prepare, SaveInvoiceBreaks, SendPay, PayReplies, PayTimesOut,
                  MarkSentBreaks, NothingToReconcile, Crash, rowVars
    <3> QED
      BY <2>3, <3>1, <3>2, <3>3, <3>4 DEF Execute, ReconcilePayout
  <2>4. ASSUME ~ \E k \in Jobs : Execute(k) \/ ReconcilePayout(k) \/ Crash(k)
        PROVE  state'[p] = state[p] /\ bolt11'[p] = bolt11[p] /\ (p \in old => p \in old')
    BY <1>1, <2>1, <2>4 DEF Next, vars, rowVars, Earn, Request, GetsOld, PaymentEnds, TypeOK
  <2>5. state'[p] = "sending" /\ bolt11'[p] = 0 /\ p \in old'
    BY <2>1, <2>3, <2>4
  <2> QED
    BY <1>5, <2>1, <2>5 DEF RequeueIsDue
<1> QED
  BY <1>3, <1>4, <1>5 DEF RequeueIsDue

\* With one tick at a time no row would ever be taken back, and the exceptions of the
\* theorems above would be the lost updates alone: it is the overlap of two ticks that
\* startPartnerPayoutDriver does not exclude.
THEOREM SpecTakenBackByOverlap ==
  ASSUME PayoutConstants, \A d, e \in Drivers : d = e PROVE Spec => [](retaken = {})
<1> DEFINE Due == retaken = {} /\ \A j \in Jobs : RequeueIsDue(j)
<1>1. Init => Due
  BY DEF Init, RequeueIsDue
<1>2. Inv /\ Due /\ [Next]_vars => Due'
  BY DueStep
<1>3. Due => retaken = {}
  OBVIOUS
<1> HIDE DEF Due
<1> QED
  BY <1>1, <1>2, <1>3, SpecInv, PTL DEF Spec

-----------------------------------------------------------------------------
(* A sent payout was paid, whatever ticks overlap: no invoice is sent      *)
(* twice, so what a job has seen settled stays settled.                    *)

\* A job has the invoice it mints to itself until it sends it, and sees it settled when
\* it is about to say so.
Tracks(j) ==
  job[j] # Idle =>
    /\ job[j].at \in {"minted", "saved"} =>
         /\ job[j].inv \in Invoices /\ job[j].inv <= minted[job[j].p]
         /\ pay[job[j].p][job[j].inv] = "none"
    /\ job[j].at \in {"wait", "lookup"} => job[j].inv \in Invoices
    /\ job[j].at \in {"paid", "foundSent"} =>
         job[j].inv \in Invoices /\ pay[job[j].p][job[j].inv] = "settled"

\* Job j has not sent invoice i of payout p yet.
HasUnsent(j, p, i) ==
  job[j] # Idle /\ job[j].at \in {"minted", "saved"} /\ job[j].p = p /\ job[j].inv = i

OwnInvoices ==
  \A j, k \in Jobs, p \in Payouts, i \in Invoices :
    HasUnsent(j, p, i) /\ HasUnsent(k, p, i) => j = k

MintedOnly == \A p \in Payouts, i \in Invoices : pay[p][i] # "none" => i <= minted[p]

Sound ==
  /\ \A j \in Jobs : Tracks(j)
  /\ OwnInvoices /\ MintedOnly /\ SentWasPaid

\* A settled invoice in words of the wallet's record.
LEMMA SettledIs ==
  ASSUME NEW p \in Payouts
  PROVE  SettledInvoices(p) # {} <=> \E i \in Invoices : pay[p][i] = "settled"
  BY DEF SettledInvoices

\* A job moves on, and the wallet is not asked.
LEMMA SoundMove ==
  ASSUME TypeOK, Sound, UNCHANGED <<minted, pay>>, NEW j \in Jobs,
         \A k \in Jobs \ {j} : job'[k] = job[k],
         Tracks(j)',
         \A p \in Payouts, i \in Invoices : HasUnsent(j, p, i)' => HasUnsent(j, p, i),
         \A p \in Payouts : state'[p] = "sent" => state[p] = "sent" \/ SettledInvoices(p) # {}
  PROVE  Sound'
<1>1. \A k \in Jobs : Tracks(k)'
  BY DEF Sound, Tracks
<1>2. \A k \in Jobs, p \in Payouts, i \in Invoices : HasUnsent(k, p, i)' => HasUnsent(k, p, i)
  BY DEF HasUnsent
<1>3. OwnInvoices' /\ MintedOnly'
  BY <1>2 DEF Sound, OwnInvoices, MintedOnly
<1>4. SentWasPaid'
  BY DEF Sound, SentWasPaid, SettledInvoices
<1> QED
  BY <1>1, <1>3, <1>4 DEF Sound

LEMMA SoundStep ==
  ASSUME PayoutConstants, TypeOK, Sound, [Next]_vars
  PROVE  Sound'
<1> USE DEF PayoutConstants, vars, rowVars, SetState, Touch, At
<1>1. CASE UNCHANGED <<minted, pay, job>> /\ (\A p \in Payouts : state'[p] = "sent" => state[p] = "sent")
  BY <1>1 DEF Sound, Tracks, OwnInvoices, HasUnsent, MintedOnly, SentWasPaid, SettledInvoices
<1>2. CASE Earn \/ (\E q \in Payouts : Request(q) \/ GetsOld(q)) \/ UNCHANGED vars
  BY <1>1, <1>2 DEF Earn, Request, GetsOld, TypeOK
<1>3. ASSUME NEW q \in Payouts, NEW i \in Invoices, PaymentEnds(q, i) PROVE Sound'
  <2>1. PICK s \in {"settled", "failed"} : pay' = [pay EXCEPT ![q][i] = s]
    BY <1>3 DEF PaymentEnds
  <2>2. UNCHANGED <<state, minted, job>> /\ pay[q][i] = "pending"
    BY <1>3 DEF PaymentEnds
  <2>3. \A p \in Payouts, k \in Invoices :
          pay'[p][k] = IF p = q /\ k = i THEN s ELSE pay[p][k]
    BY <2>1 DEF TypeOK
  <2>4. \A j \in Jobs : Tracks(j)'
    BY <2>2, <2>3, JobKnown DEF Sound, Tracks
  <2>5. OwnInvoices' /\ MintedOnly' /\ SentWasPaid'
    BY <2>2, <2>3 DEF Sound, OwnInvoices, HasUnsent, MintedOnly, SentWasPaid, SettledInvoices
  <2> QED
    BY <2>4, <2>5 DEF Sound
<1>4. ASSUME NEW j \in Jobs, Prepare(j) PROVE Sound'
  <2>1. job[j] # Idle /\ job[j].p \in Payouts
    BY <1>4, JobKnown DEF Prepare, Idle
  <2>2. CASE Goto(j, "refused") /\ UNCHANGED minted
    <3>1. job'[j].at = "refused" /\ \A k \in Jobs \ {j} : job'[k] = job[k]
      BY <2>1, <2>2, GotoJob DEF Steps
    <3>2. UNCHANGED <<minted, pay, state>>
      BY <1>4, <2>2 DEF Prepare
    <3> QED
      BY <3>1, <3>2, SoundMove DEF Tracks, HasUnsent
  <2>3. CASE ~ (Goto(j, "refused") /\ UNCHANGED minted)
    <3> PICK q \in Payouts : q = job[j].p
      BY <2>1
    <3> PICK n \in Nat : n = minted[q]
      BY DEF TypeOK
    <3>1. /\ n + 1 \in Invoices /\ n + 1 \in 0..MaxMint /\ "minted" \in Steps
          /\ minted' = [minted EXCEPT ![q] = n + 1] /\ UNCHANGED <<pay, state>>
          /\ job' = [job EXCEPT ![j] = [at |-> "minted", p |-> q, inv |-> n + 1]]
      BY <1>4, <2>3 DEF Prepare, TypeOK, Invoices, Steps
    <3>2. /\ job'[j] # Idle /\ job'[j].at = "minted" /\ job'[j].p = q /\ job'[j].inv = n + 1
          /\ \A k \in Jobs \ {j} : job'[k] = job[k]
      BY <3>1, NewJob
    <3>3. /\ minted'[q] = n + 1 /\ \A p \in Payouts \ {q} : minted'[p] = minted[p]
          /\ \A p \in Payouts : minted[p] \in Nat
      BY <3>1 DEF TypeOK
    <3>4. pay[q][n + 1] = "none"
      BY <3>1, <3>3 DEF Sound, MintedOnly
    <3>5. Tracks(j)'
      BY <3>1, <3>2, <3>3, <3>4 DEF Tracks
    <3>6. ASSUME NEW k \in Jobs \ {j} PROVE Tracks(k)'
      <4>1. Tracks(k) /\ job'[k] = job[k]
        BY <3>2 DEF Sound
      <4>2. job[k] # Idle => job[k].p \in Payouts /\ job[k].inv \in 0..MaxMint
        BY JobKnown
      <4>3. \A p \in Payouts, i \in 0..MaxMint : i <= minted[p] => i <= minted'[p]
        BY <3>3
      <4> QED
        BY <3>1, <4>1, <4>2, <4>3 DEF Tracks
    <3>7. ASSUME NEW k \in Jobs \ {j} PROVE ~HasUnsent(k, q, n + 1)
      BY <3>7, <3>3 DEF Sound, Tracks, HasUnsent
    <3>8. OwnInvoices'
      <4>1. ASSUME NEW k \in Jobs \ {j}, NEW p \in Payouts, NEW i \in Invoices
            PROVE  HasUnsent(k, p, i)' <=> HasUnsent(k, p, i)
        BY <3>2 DEF HasUnsent
      <4>2. ASSUME NEW p \in Payouts, NEW i \in Invoices, HasUnsent(j, p, i)'
            PROVE  p = q /\ i = n + 1
        BY <3>2, <4>2 DEF HasUnsent
      <4> QED
        BY <3>7, <4>1, <4>2 DEF Sound, OwnInvoices
    <3>9. MintedOnly' /\ SentWasPaid'
      BY <3>1, <3>3 DEF Sound, MintedOnly, SentWasPaid, SettledInvoices, Invoices
    <3> QED
      BY <3>5, <3>6, <3>8, <3>9 DEF Sound
  <2> QED
    BY <2>2, <2>3
<1>5. ASSUME NEW j \in Jobs, SendPay(j) PROVE Sound'
  <2>1. job[j] # Idle /\ job[j].p \in Payouts
    BY <1>5, JobKnown DEF SendPay, Idle
  <2> PICK q \in Payouts, i \in Invoices : q = job[j].p /\ i = job[j].inv
    BY <1>5, <2>1 DEF SendPay, Sound, Tracks
  <2>2. pay[q][i] = "none" /\ i <= minted[q] /\ HasUnsent(j, q, i)
    BY <1>5, <2>1 DEF SendPay, Sound, Tracks, HasUnsent
  <2>3. /\ job'[j] # Idle /\ job'[j].at \in {"wait", "refused"} /\ job'[j].inv = i
        /\ \A k \in Jobs \ {j} : job'[k] = job[k]
    BY <1>5, <2>1, GotoJob DEF SendPay, Steps
  <2>4. CASE UNCHANGED pay
    <3>1. UNCHANGED <<minted, pay, state>>
      BY <1>5, <2>4 DEF SendPay
    <3> QED
      BY <2>3, <3>1, SoundMove DEF Tracks, HasUnsent
  <2>5. CASE pay' = [pay EXCEPT ![q][i] = "pending"]
    <3>1. \A p \in Payouts, k \in Invoices :
            pay'[p][k] = IF p = q /\ k = i THEN "pending" ELSE pay[p][k]
      BY <2>5 DEF TypeOK
    <3>2. UNCHANGED <<state, minted>>
      BY <1>5 DEF SendPay
    <3>3. ASSUME NEW k \in Jobs \ {j} PROVE Tracks(k)' /\ ~HasUnsent(k, q, i)
      <4>1. Tracks(k) /\ job'[k] = job[k] /\ ~HasUnsent(k, q, i)
        BY <2>2, <2>3 DEF Sound, OwnInvoices
      <4>2. job[k] # Idle => job[k].p \in Payouts
        BY JobKnown
      <4> QED
        BY <2>2, <3>1, <3>2, <4>1, <4>2 DEF Tracks, HasUnsent
    <3>4. Tracks(j)'
      BY <2>3 DEF Tracks
    <3>5. \A k \in Jobs, p \in Payouts, n \in Invoices : HasUnsent(k, p, n)' => HasUnsent(k, p, n)
      BY <2>3 DEF HasUnsent
    <3>6. OwnInvoices' /\ MintedOnly' /\ SentWasPaid'
      BY <2>2, <3>1, <3>2, <3>5
      DEF Sound, OwnInvoices, MintedOnly, SentWasPaid, SettledInvoices
    <3> QED
      BY <3>3, <3>4, <3>6 DEF Sound
  <2> QED
    BY <1>5, <2>4, <2>5 DEF SendPay
<1>6. ASSUME NEW j \in Jobs,
             MarkSent(j) \/ MarkFailed(j) \/ WriteFound(j) \/ Requeue(j) \/ NothingToReconcile(j)
               \/ LookUpFails(j) \/ Crash(j) \/ SaveInvoiceBreaks(j) \/ PayTimesOut(j)
               \/ MarkSentBreaks(j)
      PROVE  Sound'
  <2>1. UNCHANGED <<minted, pay>> /\ job[j] # Idle
    BY <1>6 DEF MarkSent, MarkFailed, WriteFound, Requeue, NothingToReconcile, LookUpFails, Crash,
                SaveInvoiceBreaks, PayTimesOut, MarkSentBreaks, Idle
  <2>2. /\ \A k \in Jobs \ {j} : job'[k] = job[k]
        /\ job'[j] = Idle \/ job'[j].at \in {"refused", "ambiguous"}
    BY <1>6, <2>1, FinishJob, GotoJob
    DEF MarkSent, MarkFailed, WriteFound, Requeue, NothingToReconcile, LookUpFails, Crash,
        SaveInvoiceBreaks, PayTimesOut, MarkSentBreaks, Steps
  <2>3. ASSUME NEW p \in Payouts, state'[p] = "sent", state[p] # "sent"
        PROVE  SettledInvoices(p) # {}
    <3>1. job[j].at \in {"paid", "foundSent"} /\ job[j].p = p
      BY <1>6, <2>3 DEF MarkSent, MarkFailed, WriteFound, Requeue, NothingToReconcile, LookUpFails,
                        Crash, SaveInvoiceBreaks, PayTimesOut, MarkSentBreaks, TypeOK
    <3> QED
      BY <2>1, <3>1, SettledIs DEF Sound, Tracks
  <2> QED
    BY <2>1, <2>2, <2>3, SoundMove DEF Tracks, HasUnsent
<1>7. ASSUME NEW j \in Jobs, SaveInvoice(j) PROVE Sound'
  <2>1. job[j] # Idle /\ UNCHANGED <<minted, pay, state>>
    BY <1>7 DEF SaveInvoice, Idle
  <2>2. /\ job'[j] # Idle /\ job'[j].at = "saved" /\ job'[j].p = job[j].p
        /\ job'[j].inv = job[j].inv /\ \A k \in Jobs \ {j} : job'[k] = job[k]
    BY <1>7, <2>1, GotoJob DEF SaveInvoice, Steps
  <2>3. Tracks(j)' /\ \A p \in Payouts, i \in Invoices : HasUnsent(j, p, i)' => HasUnsent(j, p, i)
    BY <1>7, <2>1, <2>2 DEF SaveInvoice, Sound, Tracks, HasUnsent
  <2> QED
    BY <2>1, <2>2, <2>3, SoundMove
<1>8. ASSUME NEW j \in Jobs, PayReplies(j) \/ LookUp(j) PROVE Sound'
  <2>1. job[j] # Idle /\ UNCHANGED <<minted, pay, state>>
    BY <1>8 DEF PayReplies, LookUp, Idle
  <2>2. job[j].inv \in Invoices
    BY <1>8, <2>1 DEF PayReplies, LookUp, Sound, Tracks
  <2>3. /\ \A k \in Jobs \ {j} : job'[k] = job[k]
        /\ \/ job'[j] = Idle
           \/ job'[j] # Idle /\ job'[j].at \in {"refused", "foundFailed"}
           \/ /\ job'[j] # Idle /\ job'[j].at \in {"paid", "foundSent"}
              /\ job'[j].p = job[j].p /\ job'[j].inv = job[j].inv
              /\ pay[job[j].p][job[j].inv] = "settled"
    BY <1>8, <2>1, GotoJob, FinishJob DEF PayReplies, LookUp, Steps
  <2> QED
    BY <2>1, <2>2, <2>3, SoundMove DEF Tracks, HasUnsent
<1>9. ASSUME NEW j \in Jobs, NEW q \in Payouts, Claim(j, q) \/ ReadSending(j, q) PROVE Sound'
  <2>1. PICK s \in {"claimed", "requeue", "lookup"}, n \in 0..MaxMint :
          /\ job' = [job EXCEPT ![j] = [at |-> s, p |-> q, inv |-> n]]
          /\ s = "lookup" => n # 0
    BY <1>9 DEF Claim, ReadSending, TypeOK
  <2>2. /\ job'[j] # Idle /\ job'[j].at = s /\ job'[j].inv = n
        /\ \A k \in Jobs \ {j} : job'[k] = job[k]
    BY <2>1, NewJob DEF Steps
  <2>3. UNCHANGED <<minted, pay>> /\ \A p \in Payouts : state'[p] = "sent" => state[p] = "sent"
    BY <1>9 DEF Claim, ReadSending, TypeOK
  <2>4. s = "lookup" => n \in Invoices
    BY <2>1 DEF Invoices
  <2> QED
    BY <2>2, <2>3, <2>4, SoundMove DEF Tracks, HasUnsent
<1> QED
  BY <1>2, <1>3, <1>4, <1>5, <1>6, <1>7, <1>8, <1>9 DEF Next, Execute, ReconcilePayout

\* A payout the partner sees as sent has left the platform wallet, in every state of the
\* program: no row is an exception.
THEOREM SpecSentWasPaid == ASSUME PayoutConstants PROVE Spec => []SentWasPaid
<1>1. Init => Sound
  BY DEF Init, Sound, Tracks, OwnInvoices, HasUnsent, MintedOnly, SentWasPaid
<1>2. TypeOK /\ Sound /\ [Next]_vars => Sound'
  BY SoundStep DEF PayoutConstants
<1>3. Inv => TypeOK
  BY DEF Inv
<1>4. Sound => SentWasPaid
  BY DEF Sound
<1> QED
  BY <1>1, <1>2, <1>3, <1>4, SpecInv, PTL DEF Spec

-----------------------------------------------------------------------------
(* Sums over finite sets.  Induction is taken from the least element of a  *)
(* set of numbers, with what is to be shown given as a set.                *)

\* A nonempty set of naturals has a least element.
LEMMA LeastElement ==
  ASSUME NEW T, T \subseteq Nat, T # {}
  PROVE  \E i \in T : \A j \in T : i <= j
<1> DEFINE R == OpToRel(<, Nat)
<1>1. IsWellFoundedOn(R, Nat)
  BY NatLessThanWellFounded
<1>2. \A i, j \in Nat : j < i => <<j, i>> \in R
  BY DEF OpToRel
<1> HIDE DEF R
<1>3. PICK i \in T : \A j \in T : ~ (<<j, i>> \in R)
  BY <1>1, WFMin
<1>4. ASSUME NEW j \in T PROVE i <= j
  <2>1. i \in Nat /\ j \in Nat /\ ~(j < i)
    BY <1>2, <1>3
  <2> QED
    BY <2>1
<1> QED
  BY <1>4

\* Induction on a number, for a property given as the set of the numbers that have it.
LEMMA SetInduction ==
  ASSUME NEW P, 0 \in P, \A n \in Nat : n \in P => n + 1 \in P
  PROVE  Nat \subseteq P
<1> DEFINE T == {n \in Nat : n \notin P}
<1>1. SUFFICES ASSUME T # {} PROVE FALSE
  OBVIOUS
<1>2. PICK i \in T : \A j \in T : i <= j
  BY <1>1, LeastElement
<1>3. i \in Nat \ {0}
  BY <1>2
<1>4. i - 1 \in Nat /\ i - 1 \notin T
  BY <1>2, <1>3
<1>5. i - 1 \in P /\ i - 1 + 1 = i
  BY <1>4, <1>3
<1> QED
  BY <1>2, <1>4, <1>5

\* The subsets of S of n elements at most.
Small(S, n) == {s \in SUBSET S : Cardinality(s) <= n}

Pick(s) == CHOOSE x \in s : TRUE

\* g sums f over each set of D.
Sums(g, f, D) ==
  g = [s \in D |-> IF s = {} THEN 0 ELSE f[Pick(s)] + g[s \ {Pick(s)}]]

LEMMA SumsUnfold ==
  ASSUME NEW f, NEW S
  PROVE  SumFunctionOnSet(f, S) = (CHOOSE g : Sums(g, f, SUBSET S))[S]
  BY DEF SumFunctionOnSet, FoldFunctionOnSet, MapThenFoldSet, Sums, Pick

\* Taking the element that is picked out of a nonempty set.
LEMMA Smaller ==
  ASSUME NEW S, IsFiniteSet(S), NEW s, s \subseteq S, s # {}, NEW x \in s
  PROVE  /\ IsFiniteSet(s) /\ IsFiniteSet(s \ {x}) /\ s \ {x} \subseteq S
         /\ Cardinality(s) \in Nat \ {0} /\ Cardinality(s \ {x}) = Cardinality(s) - 1
<1>1. IsFiniteSet(s)
  BY FS_Subset
<1>2. Cardinality(s) \in Nat /\ Cardinality(s) # 0
  BY <1>1, FS_CardinalityType, FS_EmptySet
<1>3. IsFiniteSet(s \ {x}) /\ Cardinality(s \ {x}) = Cardinality(s) - 1
  BY <1>1, FS_RemoveElement
<1> QED
  BY <1>1, <1>2, <1>3

LEMMA Picked == ASSUME NEW s, s # {} PROVE Pick(s) \in s
  BY DEF Pick

\* There is such a function for every finite set.
LEMMA SumsExist ==
  ASSUME NEW f, NEW S, IsFiniteSet(S) PROVE \E g : Sums(g, f, SUBSET S)
<1> DEFINE P == {n \in Nat : \E g : Sums(g, f, Small(S, n))}
<1>1. 0 \in P
  <2>1. Small(S, 0) = {{}}
    <3>1. ASSUME NEW s \in Small(S, 0) PROVE s = {}
      <4>1. s \subseteq S /\ Cardinality(s) <= 0
        BY DEF Small
      <4>2. IsFiniteSet(s)
        BY <4>1, FS_Subset
      <4> QED
        BY <4>1, <4>2, FS_CardinalityType, FS_EmptySet
    <3>2. {} \in Small(S, 0)
      BY FS_EmptySet DEF Small
    <3> QED
      BY <3>1, <3>2
  <2>2. Sums([s \in {{}} |-> 0], f, {{}})
    BY DEF Sums
  <2> QED
    BY <2>1, <2>2
<1>2. ASSUME NEW n \in Nat, n \in P PROVE n + 1 \in P
  <2>1. PICK g : Sums(g, f, Small(S, n))
    BY <1>2
  <2> DEFINE h == [s \in Small(S, n + 1) |-> IF s = {} THEN 0 ELSE f[Pick(s)] + g[s \ {Pick(s)}]]
  <2>2. ASSUME NEW s \in Small(S, n) PROVE s \in Small(S, n + 1) /\ h[s] = g[s]
    <3>1. s \in Small(S, n + 1)
      <4>1. IsFiniteSet(s) /\ Cardinality(s) <= n
        BY FS_Subset DEF Small
      <4> QED
        BY <4>1, FS_CardinalityType DEF Small
    <3>2. g[s] = IF s = {} THEN 0 ELSE f[Pick(s)] + g[s \ {Pick(s)}]
      BY <2>1, <2>2 DEF Sums
    <3> QED
      BY <3>1, <3>2
  <2>3. ASSUME NEW s \in Small(S, n + 1), s # {} PROVE s \ {Pick(s)} \in Small(S, n)
    <3>1. s \subseteq S /\ Cardinality(s) <= n + 1
      BY DEF Small
    <3>2. s \ {Pick(s)} \subseteq S /\ Cardinality(s \ {Pick(s)}) = Cardinality(s) - 1 /\ Cardinality(s) \in Nat
      BY <2>3, <3>1, Picked, Smaller
    <3> QED
      BY <3>1, <3>2 DEF Small
  <2>4. ASSUME NEW s \in Small(S, n + 1)
        PROVE  h[s] = IF s = {} THEN 0 ELSE f[Pick(s)] + h[s \ {Pick(s)}]
    <3>1. CASE s = {}
      BY <3>1
    <3>2. CASE s # {}
      <4>1. h[s \ {Pick(s)}] = g[s \ {Pick(s)}]
        BY <2>2, <2>3, <3>2
      <4> HIDE DEF h
      <4>2. h[s] = f[Pick(s)] + g[s \ {Pick(s)}]
        BY <3>2 DEF h
      <4> QED
        BY <3>2, <4>1, <4>2
    <3> QED
      BY <3>1, <3>2
  <2>5. h = [s \in Small(S, n + 1) |-> h[s]]
    OBVIOUS
  <2>6. Sums(h, f, Small(S, n + 1))
    <3> HIDE DEF h
    <3> QED
      BY <2>4, <2>5 DEF Sums
  <2> QED
    BY <2>6
<1> HIDE DEF P
<1>3. Nat \subseteq P
  BY <1>1, <1>2, SetInduction
<1>4. Cardinality(S) \in Nat
  BY FS_CardinalityType
<1>5. Small(S, Cardinality(S)) = SUBSET S
  <2>1. \A s \in SUBSET S : Cardinality(s) <= Cardinality(S)
    BY FS_Subset
  <2> QED
    BY <2>1 DEF Small
<1> QED
  BY <1>3, <1>4, <1>5 DEF P

\* Two of them agree where both are defined.
LEMMA SumsAgree ==
  ASSUME NEW f, NEW S, NEW T, IsFiniteSet(S), T \subseteq S,
         NEW g, NEW h, Sums(g, f, SUBSET S), Sums(h, f, SUBSET T)
  PROVE  g[T] = h[T]
<1> DEFINE P == {n \in Nat : \A s \in Small(T, n) : g[s] = h[s]}
<1>1. ASSUME NEW s \in SUBSET T
      PROVE  /\ g[s] = IF s = {} THEN 0 ELSE f[Pick(s)] + g[s \ {Pick(s)}]
             /\ h[s] = IF s = {} THEN 0 ELSE f[Pick(s)] + h[s \ {Pick(s)}]
  BY DEF Sums
<1>2. IsFiniteSet(T)
  BY FS_Subset
<1>3. 0 \in P
  <2>1. ASSUME NEW s \in Small(T, 0) PROVE s = {}
    <3>1. s \subseteq T /\ Cardinality(s) <= 0
      BY DEF Small
    <3> QED
      BY <1>2, <3>1, FS_Subset, FS_CardinalityType, FS_EmptySet
  <2> QED
    BY <1>1, <2>1 DEF Small
<1>4. ASSUME NEW n \in Nat, n \in P PROVE n + 1 \in P
  <2>1. ASSUME NEW s \in Small(T, n + 1) PROVE g[s] = h[s]
    <3>1. s \subseteq T /\ Cardinality(s) <= n + 1
      BY DEF Small
    <3>2. CASE s = {}
      BY <1>1, <3>1, <3>2
    <3>3. CASE s # {}
      <4>1. Pick(s) \in s
        BY <3>3, Picked
      <4>2. s \ {Pick(s)} \in Small(T, n)
        <5>1. /\ s \ {Pick(s)} \subseteq T /\ Cardinality(s) \in Nat
              /\ Cardinality(s \ {Pick(s)}) = Cardinality(s) - 1
          BY <1>2, <3>1, <3>3, <4>1, Smaller
        <5> QED
          BY <3>1, <5>1 DEF Small
      <4>3. g[s \ {Pick(s)}] = h[s \ {Pick(s)}]
        BY <1>4, <4>2
      <4> QED
        BY <1>1, <3>1, <4>3
    <3> QED
      BY <3>2, <3>3
  <2> QED
    BY <2>1
<1> HIDE DEF P
<1>5. Nat \subseteq P
  BY <1>3, <1>4, SetInduction
<1>6. Cardinality(T) \in Nat /\ T \in Small(T, Cardinality(T))
  BY <1>2, FS_CardinalityType DEF Small
<1> QED
  BY <1>5, <1>6 DEF P

\* The sum over no element is 0, and over some that of one of them and the rest.
LEMMA SumUnfolds ==
  ASSUME NEW f, NEW S, IsFiniteSet(S)
  PROVE  SumFunctionOnSet(f, S) =
           IF S = {} THEN 0 ELSE f[Pick(S)] + SumFunctionOnSet(f, S \ {Pick(S)})
<1> DEFINE T == S \ {Pick(S)}
           g == CHOOSE k : Sums(k, f, SUBSET S)
           h == CHOOSE k : Sums(k, f, SUBSET T)
<1>1. Sums(g, f, SUBSET S)
  BY SumsExist
<1>2. Sums(h, f, SUBSET T)
  <2>1. IsFiniteSet(T)
    BY FS_Subset
  <2> QED
    BY <2>1, SumsExist
<1>3. SumFunctionOnSet(f, S) = g[S] /\ SumFunctionOnSet(f, T) = h[T]
  BY SumsUnfold
<1> HIDE DEF g, h
<1>4. g[T] = h[T]
  BY <1>1, <1>2, SumsAgree
<1>5. g[S] = IF S = {} THEN 0 ELSE f[Pick(S)] + g[T]
  BY <1>1 DEF Sums
<1> QED
  BY <1>3, <1>4, <1>5

\* Sums of numbers: each is a number, and any element may be taken out first.
SumsWell(f, s) ==
  /\ SumFunctionOnSet(f, s) \in Nat
  /\ \A x \in s : SumFunctionOnSet(f, s) = f[x] + SumFunctionOnSet(f, s \ {x})

LEMMA SumsAreWell ==
  ASSUME NEW S, IsFiniteSet(S), NEW f, \A x \in S : f[x] \in Nat
  PROVE  SumsWell(f, S)
<1> DEFINE P == {n \in Nat : \A s \in Small(S, n) : SumsWell(f, s)}
<1>1. ASSUME NEW s, s \subseteq S
      PROVE  /\ IsFiniteSet(s) /\ Cardinality(s) \in Nat /\ (Cardinality(s) = 0 => s = {})
             /\ s = {} => SumsWell(f, s)
             /\ s # {} => SumFunctionOnSet(f, s) = f[Pick(s)] + SumFunctionOnSet(f, s \ {Pick(s)})
  <2>1. IsFiniteSet(s)
    BY <1>1, FS_Subset
  <2>2. SumFunctionOnSet(f, s) = IF s = {} THEN 0 ELSE f[Pick(s)] + SumFunctionOnSet(f, s \ {Pick(s)})
    BY <2>1, SumUnfolds
  <2> QED
    BY <2>1, <2>2, FS_CardinalityType, FS_EmptySet DEF SumsWell
<1>2. 0 \in P
  <2>1. ASSUME NEW s \in Small(S, 0) PROVE SumsWell(f, s)
    <3>1. s \subseteq S /\ Cardinality(s) <= 0
      BY DEF Small
    <3>2. Cardinality(s) \in Nat /\ (Cardinality(s) = 0 => s = {})
      BY <1>1, <3>1
    <3>3. s = {}
      BY <3>1, <3>2
    <3> QED
      BY <1>1, <3>3
  <2> QED
    BY <2>1
<1>3. ASSUME NEW n \in Nat, n \in P PROVE n + 1 \in P
  <2>1. ASSUME NEW s \in Small(S, n + 1), s # {} PROVE SumsWell(f, s)
    <3> DEFINE y == Pick(s)
    <3>1. s \subseteq S /\ Cardinality(s) <= n + 1 /\ IsFiniteSet(s)
      BY <1>1 DEF Small
    <3>2. ASSUME NEW x \in s
          PROVE  s \ {x} \in Small(S, n) /\ SumsWell(f, s \ {x}) /\ SumFunctionOnSet(f, s \ {x}) \in Nat
      <4>1. s \ {x} \in Small(S, n)
        BY <3>1, <3>2, Smaller DEF Small
      <4> QED
        BY <1>3, <4>1 DEF SumsWell
    <3>3. y \in s /\ f[y] \in Nat
      BY <2>1, <3>1, Picked
    <3>4. SumFunctionOnSet(f, s) = f[y] + SumFunctionOnSet(f, s \ {y})
      BY <1>1, <2>1, <3>1
    <3> HIDE DEF y
    <3>5. ASSUME NEW x \in s, x # y
          PROVE  SumFunctionOnSet(f, s) = f[x] + SumFunctionOnSet(f, s \ {x})
      <4>1. (s \ {y}) \ {x} = (s \ {x}) \ {y}
        OBVIOUS
      <4>2. SumFunctionOnSet(f, s \ {y}) = f[x] + SumFunctionOnSet(f, (s \ {y}) \ {x})
        BY <3>2, <3>3, <3>5 DEF SumsWell
      <4>3. SumFunctionOnSet(f, s \ {x}) = f[y] + SumFunctionOnSet(f, (s \ {y}) \ {x})
        BY <3>2, <3>3, <3>5, <4>1 DEF SumsWell
      <4>4. s \ {y} \in Small(S, n) /\ (s \ {y}) \ {x} \subseteq S
        BY <3>1, <3>2, <3>3
      <4>5. SumFunctionOnSet(f, (s \ {y}) \ {x}) \in Nat
        <5>1. s \ {y} \subseteq S /\ x \in s \ {y} /\ s \ {y} # {}
          BY <3>5, <3>1
        <5>2. (s \ {y}) \ {x} \in Small(S, n)
          <6>1. Cardinality(s \ {y}) <= n
            BY <4>4 DEF Small
          <6>2. Cardinality((s \ {y}) \ {x}) = Cardinality(s \ {y}) - 1 /\ Cardinality(s \ {y}) \in Nat
            BY <5>1, Smaller
          <6> QED
            BY <6>1, <6>2, <4>4 DEF Small
        <5> QED
          BY <5>2, <1>3 DEF SumsWell
      <4>6. f[x] \in Nat
        BY <3>1, <3>5
      <4> QED
        BY <3>3, <3>4, <4>2, <4>3, <4>5, <4>6
    <3>6. SumFunctionOnSet(f, s) \in Nat
      <4>1. SumFunctionOnSet(f, s \ {y}) \in Nat
        BY <3>2, <3>3
      <4> QED
        BY <3>3, <3>4, <4>1
    <3> QED
      BY <3>4, <3>5, <3>6 DEF SumsWell
  <2>2. ASSUME NEW s \in Small(S, n + 1) PROVE SumsWell(f, s)
    BY <1>1, <2>1 DEF Small
  <2> QED
    BY <2>2
<1> HIDE DEF P
<1>4. Nat \subseteq P
  BY <1>2, <1>3, SetInduction
<1>5. Cardinality(S) \in Nat /\ S \in Small(S, Cardinality(S))
  BY FS_CardinalityType DEF Small
<1> QED
  BY <1>4, <1>5 DEF P

\* Induction on a finite set, for a property given as the set of the sets that have it.
LEMMA SubsetInduction ==
  ASSUME NEW S, IsFiniteSet(S), NEW Q, {} \in Q,
         \A s \in SUBSET S, x \in S : s \in Q => s \cup {x} \in Q
  PROVE  S \in Q
<1> DEFINE P == {n \in Nat : \A s \in Small(S, n) : s \in Q}
<1>1. ASSUME NEW s, s \subseteq S
      PROVE  IsFiniteSet(s) /\ Cardinality(s) \in Nat /\ (Cardinality(s) = 0 => s = {})
  BY <1>1, FS_Subset, FS_CardinalityType, FS_EmptySet
<1>2. 0 \in P
  <2>1. ASSUME NEW s \in Small(S, 0) PROVE s \in Q
    <3>1. s \subseteq S /\ Cardinality(s) <= 0
      BY DEF Small
    <3>2. Cardinality(s) \in Nat /\ (Cardinality(s) = 0 => s = {})
      BY <1>1, <3>1
    <3>3. s = {}
      BY <3>1, <3>2
    <3> QED
      BY <3>3
  <2> QED
    BY <2>1
<1>3. ASSUME NEW n \in Nat, n \in P PROVE n + 1 \in P
  <2>1. ASSUME NEW s \in Small(S, n + 1), s # {} PROVE s \in Q
    <3>1. PICK x \in s : TRUE
      BY <2>1
    <3>2. s \subseteq S /\ Cardinality(s) <= n + 1
      BY DEF Small
    <3>3. /\ s \ {x} \subseteq S /\ Cardinality(s) \in Nat
          /\ Cardinality(s \ {x}) = Cardinality(s) - 1
      BY <2>1, <3>1, <3>2, Smaller
    <3>4. s \ {x} \in Q
      BY <1>3, <3>2, <3>3 DEF Small
    <3>5. (s \ {x}) \cup {x} = s /\ x \in S
      BY <3>1, <3>2
    <3>6. (s \ {x}) \cup {x} \in Q
      BY <3>3, <3>4, <3>5
    <3> QED
      BY <3>5, <3>6
  <2>2. ASSUME NEW s \in Small(S, n + 1) PROVE s \in Q
    BY <2>1
  <2> QED
    BY <2>2
<1> HIDE DEF P
<1>4. Nat \subseteq P
  BY <1>2, <1>3, SetInduction
<1>5. Cardinality(S) \in Nat /\ S \in Small(S, Cardinality(S))
  BY FS_CardinalityType DEF Small
<1> QED
  BY <1>4, <1>5 DEF P

\* The sum over a part of S, and what one element more adds to it.
LEMMA SumOfPart ==
  ASSUME NEW S, IsFiniteSet(S), NEW f, \A x \in S : f[x] \in Nat, NEW s, s \subseteq S
  PROVE  /\ SumFunctionOnSet(f, s) \in Nat
         /\ s = {} => SumFunctionOnSet(f, s) = 0
         /\ \A x \in S \ s : SumFunctionOnSet(f, s \cup {x}) = f[x] + SumFunctionOnSet(f, s)
<1>1. IsFiniteSet(s) /\ \A x \in S : IsFiniteSet(s \cup {x})
  BY FS_Subset, FS_AddElement
<1>2. SumsWell(f, s)
  BY <1>1, SumsAreWell
<1>3. s = {} => SumFunctionOnSet(f, s) = 0
  BY <1>1, SumUnfolds
<1>4. ASSUME NEW x \in S \ s
      PROVE  SumFunctionOnSet(f, s \cup {x}) = f[x] + SumFunctionOnSet(f, s)
  <2>1. SumsWell(f, s \cup {x})
    BY <1>1, SumsAreWell
  <2>2. (s \cup {x}) \ {x} = s
    OBVIOUS
  <2> QED
    BY <2>1, <2>2 DEF SumsWell
<1> QED
  BY <1>2, <1>3, <1>4 DEF SumsWell

\* A sum is no more than another whose every term is no less, terms of 0 left aside.
LEMMA SumsCompare ==
  ASSUME NEW S, IsFiniteSet(S), NEW A, A \subseteq S, NEW B, B \subseteq S,
         NEW f, NEW g, \A x \in S : f[x] \in Nat /\ g[x] \in Nat,
         \A x \in A : IF x \in B THEN f[x] <= g[x] ELSE f[x] = 0
  PROVE  SumFunctionOnSet(f, A) <= SumFunctionOnSet(g, B)
<1> DEFINE F(s) == SumFunctionOnSet(f, A \cap s)
           G(s) == SumFunctionOnSet(g, B \cap s)
           Q == {s \in SUBSET S : F(s) <= G(s)}
<1>1. {} \in Q
  <2>1. A \cap {} = {} /\ B \cap {} = {}
    OBVIOUS
  <2>2. SumFunctionOnSet(f, {}) = 0 /\ SumFunctionOnSet(g, {}) = 0
    BY SumOfPart
  <2> QED
    BY <2>1, <2>2
<1>2. ASSUME NEW s \in SUBSET S, NEW x \in S, s \in Q PROVE s \cup {x} \in Q
  <2>1. CASE x \in s
    <3>1. s \cup {x} = s
      BY <2>1
    <3> QED
      BY <1>2, <3>1
  <2>2. CASE x \notin s
    <3>1. F(s) \in Nat /\ G(s) \in Nat /\ f[x] \in Nat /\ g[x] \in Nat /\ F(s) <= G(s)
      BY <1>2, SumOfPart
    <3>2. F(s \cup {x}) = IF x \in A THEN f[x] + F(s) ELSE F(s)
      <4>1. A \cap (s \cup {x}) = IF x \in A THEN (A \cap s) \cup {x} ELSE A \cap s
        OBVIOUS
      <4>2. SumFunctionOnSet(f, (A \cap s) \cup {x}) = f[x] + SumFunctionOnSet(f, A \cap s)
        BY <2>2, SumOfPart
      <4> QED
        BY <4>1, <4>2
    <3>3. G(s \cup {x}) = IF x \in B THEN g[x] + G(s) ELSE G(s)
      <4>1. B \cap (s \cup {x}) = IF x \in B THEN (B \cap s) \cup {x} ELSE B \cap s
        OBVIOUS
      <4>2. SumFunctionOnSet(g, (B \cap s) \cup {x}) = g[x] + SumFunctionOnSet(g, B \cap s)
        BY <2>2, SumOfPart
      <4> QED
        BY <4>1, <4>2
    <3> HIDE DEF F, G
    <3>4. F(s \cup {x}) <= G(s \cup {x})
      BY <3>1, <3>2, <3>3
    <3> QED
      BY <3>4
  <2> QED
    BY <2>1, <2>2
<1>3. S \in Q
  <2> HIDE DEF Q
  <2> QED
    BY <1>1, <1>2, SubsetInduction
<1>4. A \cap S = A /\ B \cap S = B
  OBVIOUS
<1> QED
  BY <1>3, <1>4

\* Two parts that share no element.
LEMMA SumsSplit ==
  ASSUME NEW S, IsFiniteSet(S), NEW A, A \subseteq S, NEW B, B \subseteq S, A \cap B = {},
         NEW f, \A x \in S : f[x] \in Nat
  PROVE  SumFunctionOnSet(f, A \cup B) = SumFunctionOnSet(f, A) + SumFunctionOnSet(f, B)
<1> DEFINE G(s) == SumFunctionOnSet(f, A \cup (B \cap s))
           H(s) == SumFunctionOnSet(f, B \cap s)
           Q == {s \in SUBSET S : G(s) = SumFunctionOnSet(f, A) + H(s)}
<1>1. {} \in Q
  <2>1. A \cup (B \cap {}) = A /\ B \cap {} = {}
    OBVIOUS
  <2>2. SumFunctionOnSet(f, {}) = 0 /\ SumFunctionOnSet(f, A) \in Nat
    BY SumOfPart
  <2> QED
    BY <2>1, <2>2
<1>2. ASSUME NEW s \in SUBSET S, NEW x \in S, s \in Q PROVE s \cup {x} \in Q
  <2>1. CASE x \in s \/ x \notin B
    <3>1. B \cap (s \cup {x}) = B \cap s
      BY <2>1
    <3> QED
      BY <1>2, <3>1
  <2>2. CASE x \notin s /\ x \in B
    <3>1. /\ A \cup (B \cap (s \cup {x})) = (A \cup (B \cap s)) \cup {x}
          /\ B \cap (s \cup {x}) = (B \cap s) \cup {x}
          /\ x \notin A
      BY <2>2
    <3>2. G(s \cup {x}) = f[x] + G(s)
      BY <2>2, <3>1, SumOfPart
    <3>3. H(s \cup {x}) = f[x] + H(s)
      BY <2>2, <3>1, SumOfPart
    <3>4. f[x] \in Nat /\ SumFunctionOnSet(f, A) \in Nat /\ H(s) \in Nat
          /\ G(s) = SumFunctionOnSet(f, A) + H(s)
      BY <1>2, SumOfPart
    <3> HIDE DEF G, H
    <3>5. G(s \cup {x}) = SumFunctionOnSet(f, A) + H(s \cup {x})
      BY <3>2, <3>3, <3>4
    <3> QED
      BY <3>5
  <2> QED
    BY <2>1, <2>2
<1>3. S \in Q
  <2> HIDE DEF Q
  <2> QED
    BY <1>1, <1>2, SubsetInduction
<1>4. B \cap S = B
  OBVIOUS
<1> QED
  BY <1>3, <1>4

\* Functions that agree on a set have the same sum over it.
LEMMA SumsSame ==
  ASSUME NEW S, IsFiniteSet(S), NEW A, A \subseteq S,
         NEW f, NEW g, \A x \in S : f[x] \in Nat /\ g[x] \in Nat, \A x \in A : f[x] = g[x]
  PROVE  SumFunctionOnSet(f, A) = SumFunctionOnSet(g, A)
<1>1. SumFunctionOnSet(f, A) \in Nat /\ SumFunctionOnSet(g, A) \in Nat
  BY SumOfPart
<1>2. SumFunctionOnSet(f, A) <= SumFunctionOnSet(g, A)
  BY SumsCompare
<1>3. SumFunctionOnSet(g, A) <= SumFunctionOnSet(f, A)
  BY SumsCompare
<1> QED
  BY <1>1, <1>2, <1>3

-----------------------------------------------------------------------------
(* The partner's balance.  Of the payouts that are no exception, what is   *)
(* in flight and what is sent come to no more than was earned: a request   *)
(* books what the balance leaves, and afterwards payouts only leave.       *)

Held == {p \in Payouts : state[p] \in {"requested", "sending", "sent"}}
Exceptions == broken \cup retaken

Ledger ==
  /\ earned \in Nat
  /\ amount \in [Payouts -> 0..earned]
  /\ AmountOf(Held \ Exceptions) <= earned

\* What is on the balance but for the exceptions is no more than all that is.
LEMMA PartIsLess ==
  ASSUME IsFiniteSet(Payouts), Ledger
  PROVE  AmountOf(Held \ Exceptions) \in Nat /\ AmountOf(Held \ Exceptions) <= AmountOf(Held)
<1>1. \A p \in Payouts : amount[p] \in Nat
  BY DEF Ledger
<1>2. Held \subseteq Payouts /\ Held \ Exceptions \subseteq Payouts
  BY DEF Held
<1>3. \A p \in Held \ Exceptions : IF p \in Held THEN amount[p] <= amount[p] ELSE amount[p] = 0
  BY <1>1, <1>2
<1>4. SumFunctionOnSet(amount, Held \ Exceptions) <= SumFunctionOnSet(amount, Held)
  BY <1>1, <1>2, <1>3, SumsCompare
<1> QED
  BY <1>1, <1>2, <1>4, SumOfPart DEF AmountOf

\* The balance in terms of Held: 0 when the exceptions have exhausted it.
LEMMA Balance ==
  ASSUME IsFiniteSet(Payouts), Ledger
  PROVE  /\ Available \in 0..earned
         /\ Available = 0 \/ Available + AmountOf(Held \ Exceptions) <= earned
<1> DEFINE Sent == {p \in Payouts : state[p] = "sent"}
<1>1. \A p \in Payouts : amount[p] \in Nat
  BY DEF Ledger
<1>2. Held = Sent \cup InFlight /\ Sent \cap InFlight = {} /\ Sent \subseteq Payouts
      /\ InFlight \subseteq Payouts
  BY DEF Held, InFlight
<1>3. Unsent \in Nat /\ Reserved \in Nat
  BY <1>1, <1>2, SumOfPart DEF Unsent, Reserved, AmountOf
<1>4. AmountOf(Held) = Unsent + Reserved
  BY <1>1, <1>2, SumsSplit DEF Unsent, Reserved, AmountOf
<1> QED
  BY <1>3, <1>4, PartIsLess DEF Available, Ledger

\* A request books no more than the balance leaves.
LEMMA RequestKeepsLedger ==
  ASSUME IsFiniteSet(Payouts), TypeOK, Ledger, NEW q \in Payouts, Request(q)
  PROVE  Ledger'
<1> DEFINE H == Held \ Exceptions
           a == amount'
<1>1. /\ q \notin Held /\ Held' = Held \cup {q} /\ Held \subseteq Payouts
      /\ UNCHANGED <<earned, broken, retaken>> /\ amount' = [amount EXCEPT ![q] = Available]
  BY DEF Request, SetState, TypeOK, Held
<1>2. Available \in 0..earned
  BY Balance
<1>3. amount' \in [Payouts -> 0..earned]
  BY <1>1, <1>2 DEF Ledger
<1>4. /\ \A p \in Payouts : amount[p] \in Nat /\ a[p] \in Nat
      /\ a[q] = Available /\ \A p \in H : a[p] = amount[p]
      /\ q \in Payouts \ H /\ H \subseteq Payouts
  BY <1>1, <1>3 DEF Ledger
<1>5. AmountOf(Held \ Exceptions)' = SumFunctionOnSet(a, (Held \ Exceptions)')
  BY DEF AmountOf
<1>6. (Held \ Exceptions)' = H \/ (Held \ Exceptions)' = H \cup {q}
  BY <1>1 DEF Exceptions
<1>7. AmountOf(H) \in Nat /\ AmountOf(H) <= earned
      /\ (Available = 0 \/ Available + AmountOf(H) <= earned)
  BY Balance, PartIsLess DEF Ledger
<1> HIDE DEF H, a
<1>8. SumFunctionOnSet(a, H) = AmountOf(H)
  BY <1>4, SumsSame DEF AmountOf
<1>9. SumFunctionOnSet(a, H \cup {q}) = Available + SumFunctionOnSet(a, H)
  BY <1>4, SumOfPart
<1>10. AmountOf(Held \ Exceptions)' <= earned
  BY <1>2, <1>5, <1>6, <1>7, <1>8, <1>9 DEF Ledger
<1> QED
  BY <1>1, <1>3, <1>10 DEF Ledger

\* Nothing but a request puts a payout on the balance, the exceptions apart.
LEMMA HeldShrinks ==
  ASSUME PayoutConstants, Inv, [Next]_vars, \A q \in Payouts : ~Request(q)
  PROVE  (Held \ Exceptions)' \subseteq Held \ Exceptions
<1> USE DEF SetState, Touch, At, Exceptions
<1>1. retaken \subseteq retaken' /\ broken \subseteq broken'
  BY ExceptionsStay
<1> SUFFICES ASSUME NEW p \in Payouts, p \notin broken, p \notin retaken', p \notin Held,
                    state'[p] # state[p]
             PROVE  FALSE
  BY <1>1 DEF Held
<1>2. PayoutInv(p) /\ TypeOK
  BY <1>1 DEF Inv
<1>3. state[p] = "none"
  BY <1>2, FinalStep DEF FinalStays, Held, TypeOK
<1>4. ASSUME NEW j \in Jobs PROVE ~Works(j, p)
  BY <1>2, <1>3 DEF PayoutInv, BeforeInvoice, EarlyJob, AfterInvoice
<1>5. ASSUME NEW j \in Jobs, NEW q \in Payouts, Claim(j, q) PROVE FALSE
  BY <1>2, <1>3, <1>5 DEF Claim, TypeOK
<1>6. ASSUME NEW j \in Jobs, MarkSent(j) \/ MarkFailed(j) \/ WriteFound(j) PROVE FALSE
  <2>1. job[j] # Idle /\ job[j].at # "requeue"
    BY <1>6 DEF MarkSent, MarkFailed, WriteFound, Idle
  <2>2. job[j].p # p
    BY <1>4, <2>1 DEF Works, On
  <2> QED
    BY <1>2, <1>6, <2>2 DEF MarkSent, MarkFailed, WriteFound, TypeOK
<1>7. ASSUME NEW j \in Jobs, Requeue(j) PROVE FALSE
  BY <1>2, <1>3, <1>7 DEF Requeue, NobodyWentOn, TypeOK
<1> QED
  BY <1>5, <1>6, <1>7, StateStays

\* Steps that request nothing keep the amounts, and lose no earnings.
LEMMA AmountsStay ==
  ASSUME Ledger, [Next]_vars, \A q \in Payouts : ~Request(q)
  PROVE  UNCHANGED amount /\ earned' \in Nat /\ earned <= earned'
<1> USE DEF Ledger, vars, rowVars
<1>1. CASE Earn
  BY <1>1 DEF Earn
<1>2. ASSUME NEW j \in Jobs, Execute(j) \/ ReconcilePayout(j) \/ Crash(j)
      PROVE  UNCHANGED <<amount, earned>>
  BY <1>2 DEF Execute, ReconcilePayout, Claim, Prepare, SaveInvoice, SaveInvoiceBreaks, SendPay,
              PayReplies, PayTimesOut, MarkSent, MarkSentBreaks, MarkFailed, ReadSending,
              NothingToReconcile, Requeue, LookUp, LookUpFails, WriteFound, Crash
<1>3. CASE (\E q \in Payouts : GetsOld(q))
             \/ (\E q \in Payouts, i \in Invoices : PaymentEnds(q, i)) \/ UNCHANGED vars
  BY <1>3 DEF GetsOld, PaymentEnds
<1> QED
  BY <1>1, <1>2, <1>3 DEF Next

LEMMA LedgerStep ==
  ASSUME IsFiniteSet(Payouts), PayoutConstants, Inv, Ledger, [Next]_vars
  PROVE  Ledger'
<1>1. CASE \E q \in Payouts : Request(q)
  BY <1>1, RequestKeepsLedger DEF Inv
<1>2. CASE \A q \in Payouts : ~Request(q)
  <2> DEFINE H == Held \ Exceptions
             G == (Held \ Exceptions)'
  <2>1. UNCHANGED amount /\ earned' \in Nat /\ earned <= earned' /\ earned \in Nat
    BY <1>2, AmountsStay DEF Ledger
  <2>2. amount' \in [Payouts -> 0..earned'] /\ \A p \in Payouts : amount[p] \in Nat
    BY <2>1 DEF Ledger
  <2>3. G \subseteq H /\ H \subseteq Payouts
    BY <1>2, HeldShrinks DEF Held
  <2>4. AmountOf(H) <= earned /\ AmountOf(Held \ Exceptions)' = SumFunctionOnSet(amount, G)
    BY <2>1 DEF Ledger, AmountOf
  <2> HIDE DEF G, H
  <2>5. \A p \in G : IF p \in H THEN amount[p] <= amount[p] ELSE amount[p] = 0
    BY <2>2, <2>3
  <2>6. G \subseteq Payouts
    BY <2>3
  <2>7. SumFunctionOnSet(amount, G) <= SumFunctionOnSet(amount, H)
    BY <2>2, <2>3, <2>5, <2>6, SumsCompare
  <2>8. SumFunctionOnSet(amount, G) \in Nat /\ SumFunctionOnSet(amount, H) \in Nat
    BY <2>2, <2>3, <2>6, SumOfPart
  <2>9. AmountOf(Held \ Exceptions)' <= earned'
    BY <2>1, <2>4, <2>7, <2>8 DEF AmountOf
  <2> QED
    BY <2>1, <2>2, <2>9 DEF Ledger
<1> QED
  BY <1>1, <1>2

LEMMA InitLedger == ASSUME IsFiniteSet(Payouts), Init PROVE Ledger
<1>1. Held = {} /\ earned = 0 /\ amount = [p \in Payouts |-> 0]
  BY DEF Init, Held
<1>2. \A p \in Payouts : amount[p] \in Nat
  BY <1>1
<1>3. Held \ Exceptions = {} /\ {} \subseteq Payouts
  BY <1>1
<1>4. SumFunctionOnSet(amount, {}) = 0
  BY <1>2, SumOfPart
<1>5. AmountOf(Held \ Exceptions) = 0
  BY <1>3, <1>4 DEF AmountOf
<1> QED
  BY <1>1, <1>5 DEF Ledger

\* What was paid is on the balance, and was paid once.
LEMMA LedgerCovers ==
  ASSUME IsFiniteSet(Payouts), PayoutConstants, Inv, Ledger
  PROVE  NeverOverpaid
<1>0. ASSUME NEW p \in Payouts PROVE amount[p] \in Nat /\ Received[p] \in Nat
  <2>1. IsFiniteSet(SettledInvoices(p))
    BY FS_Interval, FS_Subset DEF PayoutConstants, SettledInvoices, Invoices
  <2>2. amount[p] \in Nat /\ Cardinality(SettledInvoices(p)) \in Nat
    BY <2>1, FS_CardinalityType DEF Ledger
  <2> QED
    BY <2>2 DEF Received
<1>1. ASSUME NEW p \in Payouts \ Exceptions
      PROVE  IF p \in Held THEN Received[p] <= amount[p] ELSE Received[p] = 0
  <2>1. PayoutInv(p) /\ TypeOK /\ p \notin broken
    BY DEF Inv, Exceptions
  <2>2. Cardinality(SettledInvoices(p)) \in {0, 1}
    <3>1. \A i, k \in SettledInvoices(p) : i = k
      BY <2>1 DEF PayoutInv, BeforeInvoice, AfterInvoice, SettledInvoices
    <3>2. IsFiniteSet(SettledInvoices(p))
      BY FS_Interval, FS_Subset DEF PayoutConstants, SettledInvoices, Invoices
    <3> QED
      BY <3>1, <3>2, AtMostOne, FS_CardinalityType
  <2>3. p \notin Held => SettledInvoices(p) = {}
    BY <2>1 DEF TypeOK, PayoutInv, BeforeInvoice, AfterInvoice, RowIsTrue, NeverPaid, Held,
                SettledInvoices
  <2>4. amount[p] \in Nat /\ Received[p] = amount[p] * Cardinality(SettledInvoices(p))
    BY DEF Ledger, Received
  <2>5. CASE p \in Held
    <3> DEFINE n == Cardinality(SettledInvoices(p))
    <3>1. n = 0 \/ n = 1
      BY <2>2
    <3> HIDE DEF n
    <3>2. amount[p] * n \in Nat /\ amount[p] * n <= amount[p]
      BY <2>4, <3>1
    <3> QED
      BY <2>4, <2>5, <3>2 DEF n
  <2>6. CASE p \notin Held
    <3>1. Cardinality(SettledInvoices(p)) = 0
      BY <2>3, <2>6, FS_EmptySet, Zenon
    <3> QED
      BY <2>4, <2>6, <3>1
  <2> QED
    BY <2>4, <2>5, <2>6
<1>2. Held \ Exceptions \subseteq Payouts /\ Payouts \ Exceptions \subseteq Payouts
  BY DEF Held
<1>3. \A p \in Payouts \ Exceptions :
        IF p \in Held \ Exceptions THEN Received[p] <= amount[p] ELSE Received[p] = 0
  BY <1>1
<1>4. SumFunctionOnSet(Received, Payouts \ Exceptions) <= AmountOf(Held \ Exceptions)
  BY <1>0, <1>2, <1>3, SumsCompare DEF AmountOf
<1>5. /\ SumFunctionOnSet(Received, Payouts \ Exceptions) \in Nat
      /\ AmountOf(Held \ Exceptions) \in Nat
  BY <1>0, <1>2, SumOfPart DEF AmountOf
<1>6. SumFunctionOnSet(Received, Payouts \ Exceptions) <= earned
  BY <1>4, <1>5 DEF Ledger
<1> QED
  BY <1>6 DEF NeverOverpaid, Ledger, Exceptions

\* Whatever is requested, requeued and reconciled, the partner is paid no more than
\* was earned (requestPartnerPayout books what the balance leaves), the payouts apart
\* whose update after a settled payment was lost or that a tick took back.
THEOREM SpecNeverOverpaid ==
  ASSUME IsFiniteSet(Payouts), PayoutConstants
  PROVE  Spec => []NeverOverpaid
<1>1. Init => Inv /\ Ledger
  BY InitInv, InitLedger
<1>2. Inv /\ Ledger /\ [Next]_vars => (Inv /\ Ledger)'
  BY InvStep, LedgerStep
<1>3. Inv /\ Ledger => NeverOverpaid
  BY LedgerCovers
<1> QED
  BY <1>1, <1>2, <1>3, PTL DEF Spec

-----------------------------------------------------------------------------
(* PayCall, implemented for each payout by its executors and reconcilers.  *)

\* The wallet has no record of a payout, or one, of the invoice on the row.
Recorded(p) ==
  \/ /\ \A i \in Invoices : pay[p][i] = "none"
     /\ AskedFor(p) = 0 /\ MoneyOf(p) = "none"
  \/ /\ bolt11[p] \in Invoices /\ pay[p][bolt11[p]] \in {"pending", "settled", "failed"}
     /\ \A i \in Invoices \ {bolt11[p]} : pay[p][i] = "none"
     /\ AskedFor(p) = 1
     /\ MoneyOf(p) = IF pay[p][bolt11[p]] = "settled" THEN "paid" ELSE pay[p][bolt11[p]]

LEMMA OneRecord ==
  ASSUME PayoutConstants, TypeOK, NEW p \in Payouts, PayoutInv(p)
  PROVE  Recorded(p)
<1> DEFINE S == {i \in Invoices : pay[p][i] # "none"}
<1>1. \A i \in Invoices : pay[p][i] \in {"none", "pending", "settled", "failed"}
  BY DEF TypeOK
<1>2. CASE S = {}
  <2>1. Cardinality(S) = 0
    BY <1>2, FS_EmptySet, Zenon
  <2>2. \A i \in Invoices : pay[p][i] = "none"
    BY <1>2
  <2> QED
    BY <2>1, <2>2 DEF Recorded, AskedFor, MoneyOf, Holds
<1>3. CASE S # {}
  <2>1. bolt11[p] \in Invoices /\ S = {bolt11[p]}
    BY <1>3 DEF PayoutInv, BeforeInvoice, AfterInvoice, TypeOK, Invoices, PayoutConstants
  <2>2. Cardinality({bolt11[p]}) = 1
    BY FS_Singleton
  <2>3. Cardinality(S) = 1
    BY <2>1, <2>2, Zenon
  <2>4. \A i \in Invoices \ {bolt11[p]} : pay[p][i] = "none"
    BY <2>1
  <2>5. pay[p][bolt11[p]] \in {"pending", "settled", "failed"}
    BY <1>1, <2>1
  <2>6. \A s : s # "none" => (Holds(p, s) <=> pay[p][bolt11[p]] = s)
    BY <2>1, <2>4 DEF Holds
  <2>7. MoneyOf(p) = IF pay[p][bolt11[p]] = "settled" THEN "paid" ELSE pay[p][bolt11[p]]
    BY <2>5, <2>6 DEF MoneyOf
  <2> QED
    BY <2>1, <2>3, <2>4, <2>5, <2>7 DEF Recorded, AskedFor
<1> QED
  BY <1>2, <1>3

\* What the promise reads of a payout, unchanged where its row and record are.
LEMMA RecordStays ==
  ASSUME NEW p \in Payouts, pay'[p] = pay[p]
  PROVE  AskedFor(p)' = AskedFor(p) /\ MoneyOf(p)' = MoneyOf(p)
  BY DEF AskedFor, MoneyOf, Holds

\* A step that asks the wallet nothing: what the row says is true afterwards, and it was
\* not final, or does not change.
LEMMA RowCloses ==
  ASSUME PayoutConstants, TypeOK, TypeOK', FinalStays, NEW p \in Payouts \ retaken',
         PayoutInv(p), PayoutInv(p)', pay'[p] = pay[p], p \in broken => p \in broken'
  PROVE  PromiseKept(p)
<1>1. AskedFor(p)' = AskedFor(p) /\ MoneyOf(p)' = MoneyOf(p)
  BY RecordStays
<1>2. VerdictOf(p) # "open" => VerdictOf(p)' = VerdictOf(p)
  <2>1. CASE p \in broken
    BY <2>1 DEF VerdictOf
  <2>2. CASE p \notin broken /\ p \in broken'
    <3>1. bolt11'[p] \in Invoices /\ pay[p][bolt11'[p]] = "settled"
      BY <2>2 DEF PayoutInv, RowIsTrue, TypeOK, Invoices, PayoutConstants
    <3>2. state[p] # "failed"
      BY <2>2, <3>1 DEF PayoutInv, RowIsTrue, NeverPaid
    <3> QED
      BY <2>2, <3>2 DEF VerdictOf
  <2>3. CASE p \notin broken /\ p \notin broken'
    BY <2>3 DEF FinalStays, VerdictOf
  <2> QED
    BY <2>1, <2>2, <2>3
<1>3. CASE VerdictOf(p)' = VerdictOf(p)
  BY <1>1, <1>3 DEF PromiseKept, Promise!vars
<1>4. CASE VerdictOf(p)' # VerdictOf(p) /\ VerdictOf(p)' = "completed"
  <2>1. bolt11'[p] \in Invoices /\ pay[p][bolt11'[p]] = "settled"
    BY <1>4 DEF VerdictOf, PayoutInv, RowIsTrue, TypeOK, Invoices, PayoutConstants
  <2>2. MoneyOf(p) = "paid" /\ VerdictOf(p) = "open"
    BY <1>2, <1>4, <2>1 DEF MoneyOf, Holds
  <2>3. Promise(p)!Complete(p)
    BY <1>1, <1>4, <2>2 DEF Promise!Complete
  <2> QED
    BY <2>3 DEF PromiseKept, Promise!Next, Promise!Act
<1>5. CASE VerdictOf(p)' # VerdictOf(p) /\ VerdictOf(p)' = "failed"
  <2>1. \A i \in Invoices : pay[p][i] \in {"none", "failed"}
    BY <1>5 DEF VerdictOf, PayoutInv, RowIsTrue, NeverPaid
  <2>2. MoneyOf(p) \notin {"pending", "paid"} /\ VerdictOf(p) = "open"
    BY <1>2, <1>5, <2>1 DEF MoneyOf, Holds
  <2>3. Promise(p)!Fail(p)
    BY <1>1, <1>5, <2>2 DEF Promise!Fail
  <2> QED
    BY <2>3 DEF PromiseKept, Promise!Next, Promise!Act
<1> QED
  BY <1>2, <1>3, <1>4, <1>5 DEF VerdictOf

\* The request of a payout, the first of it.
LEMMA RequestLeaves ==
  ASSUME PayoutConstants, TypeOK, NEW p \in Payouts, PayoutInv(p), Recorded(p), Recorded(p)',
         NEW j \in Jobs, SendPay(j), job[j].p = p, pay'[p] # pay[p]
  PROVE  PromiseKept(p)
<1>2. job[j] # Idle /\ Works(j, p) /\ job[j].at = "saved"
  BY DEF SendPay, At, Idle, Works, On
<1>3. bolt11[p] # 0 /\ LateJob(j, p)
  BY <1>2 DEF PayoutInv, BeforeInvoice, EarlyJob, AfterInvoice
<1>4. bolt11[p] \in Invoices /\ pay[p][bolt11[p]] = "none" /\ job[j].inv = bolt11[p]
      /\ state[p] = "sending"
  BY <1>2, <1>3 DEF LateJob, TypeOK, Invoices, PayoutConstants
<1>5. UNCHANGED <<state, broken, bolt11>> /\ pay' = [pay EXCEPT ![p][bolt11[p]] = "pending"]
  BY <1>4 DEF SendPay, rowVars
<1>6. pay'[p][bolt11'[p]] = "pending"
  BY <1>4, <1>5 DEF TypeOK
<1>7. AskedFor(p)' = 1 /\ MoneyOf(p)' = "pending" /\ AskedFor(p) = 0 /\ MoneyOf(p) = "none"
  <2>1. pay'[p][bolt11'[p]] # "none" /\ bolt11'[p] \in Invoices
    BY <1>4, <1>5, <1>6
  <2> QED
    BY <1>4, <1>6, <2>1 DEF Recorded
<1>8. VerdictOf(p) # "failed" /\ VerdictOf(p)' = VerdictOf(p)
  BY <1>4, <1>5 DEF VerdictOf
<1>9. Promise(p)!Deliver(p)
  <2>1. (AskedFor(p)' # 0) = TRUE
    BY <1>7
  <2>2. [q \in {p} |-> AskedFor(q)' # 0] = [[q \in {p} |-> AskedFor(q) # 0] EXCEPT ![p] = TRUE]
    BY <2>1
  <2>3. /\ [q \in {p} |-> AskedFor(q)'] = [[q \in {p} |-> AskedFor(q)] EXCEPT ![p] = 1]
        /\ [q \in {p} |-> MoneyOf(q)'] = [[q \in {p} |-> MoneyOf(q)] EXCEPT ![p] = "pending"]
    BY <1>7
  <2> QED
    BY <1>7, <1>8, <2>2, <2>3 DEF Promise!Deliver
<1> QED
  BY <1>9 DEF PromiseKept, Promise!Next, Promise!Act

\* The wallet finishes a payment.
LEMMA WalletEnds ==
  ASSUME TypeOK, NEW p \in Payouts, Recorded(p), Recorded(p)',
         NEW i \in Invoices, PaymentEnds(p, i)
  PROVE  PromiseKept(p)
<1>2. PICK s \in {"settled", "failed"} : pay' = [pay EXCEPT ![p][i] = s]
  BY DEF PaymentEnds
<1>3. UNCHANGED <<state, broken, bolt11>>
  BY DEF PaymentEnds, rowVars
<1>4. i = bolt11[p] /\ AskedFor(p) = 1 /\ MoneyOf(p) = "pending"
  BY DEF Recorded, PaymentEnds
<1>5. pay'[p][bolt11'[p]] = s /\ bolt11'[p] \in Invoices
  BY <1>2, <1>3, <1>4 DEF TypeOK
<1>6. AskedFor(p)' = 1 /\ MoneyOf(p)' = IF s = "settled" THEN "paid" ELSE "failed"
  BY <1>5 DEF Recorded
<1>7. VerdictOf(p)' = VerdictOf(p)
  BY <1>3 DEF VerdictOf
<1>8. (AskedFor(p) # 0) = TRUE /\ (AskedFor(p)' # 0) = TRUE
  BY <1>4, <1>6
<1>9. /\ [q \in {p} |-> AskedFor(q)'] = [q \in {p} |-> AskedFor(q)]
      /\ [q \in {p} |-> AskedFor(q)' # 0] = [q \in {p} |-> AskedFor(q) # 0]
      /\ [q \in {p} |-> VerdictOf(q)'] = [q \in {p} |-> VerdictOf(q)]
  BY <1>4, <1>6, <1>7, <1>8
<1>10. CASE s = "settled"
  <2>1. [q \in {p} |-> MoneyOf(q)'] = [[q \in {p} |-> MoneyOf(q)] EXCEPT ![p] = "paid"]
    BY <1>6, <1>10
  <2>2. Promise(p)!Settle(p)
    BY <1>4, <1>9, <2>1 DEF Promise!Settle
  <2> QED
    BY <2>2 DEF PromiseKept, Promise!Next, Promise!Act
<1>11. CASE s = "failed"
  <2>1. [q \in {p} |-> MoneyOf(q)'] = [[q \in {p} |-> MoneyOf(q)] EXCEPT ![p] = "failed"]
    BY <1>6, <1>11
  <2>2. Promise(p)!Refuse(p)
    BY <1>4, <1>8, <1>9, <2>1 DEF Promise!Refuse
  <2> QED
    BY <2>2 DEF PromiseKept, Promise!Next, Promise!Act
<1> QED
  BY <1>10, <1>11

\* Who writes the wallet's record of a payout.
LEMMA PayStays ==
  ASSUME TypeOK, [Next]_vars, NEW p \in Payouts, pay'[p] # pay[p]
  PROVE  \/ \E j \in Jobs : SendPay(j) /\ job[j].p = p
         \/ \E i \in Invoices : PaymentEnds(p, i)
<1>1. ASSUME NEW j \in Jobs, SendPay(j) PROVE job[j].p = p
  BY <1>1 DEF SendPay, TypeOK
<1>2. ASSUME NEW q \in Payouts, NEW i \in Invoices, PaymentEnds(q, i) PROVE q = p
  BY <1>2 DEF PaymentEnds, TypeOK
<1>3. ASSUME NEW j \in Jobs, Execute(j) \/ ReconcilePayout(j) \/ Crash(j) PROVE SendPay(j)
  BY <1>3 DEF Execute, ReconcilePayout, Claim, Prepare, SaveInvoice, SaveInvoiceBreaks,
              PayReplies, PayTimesOut, MarkSent, MarkSentBreaks, MarkFailed, ReadSending,
              NothingToReconcile, Requeue, LookUp, LookUpFails, WriteFound, Crash
<1>4. CASE Earn \/ (\E q \in Payouts : Request(q) \/ GetsOld(q)) \/ UNCHANGED vars
  BY <1>4 DEF Earn, Request, GetsOld, vars
<1> QED
  BY <1>1, <1>2, <1>3, <1>4 DEF Next

AllRecorded == \A p \in Payouts \ retaken : Recorded(p)

\* Every step is for every payout one of PayCall, or none, unless it takes the payout back.
LEMMA PayoutMoves ==
  ASSUME PayoutConstants, Inv, Inv', AllRecorded, AllRecorded', [Next]_vars
  PROVE  AllPromisesKept
<1> SUFFICES ASSUME NEW p \in Payouts \ retaken' PROVE PromiseKept(p)
  BY DEF AllPromisesKept
<1>1. p \notin retaken /\ (p \in broken => p \in broken')
  BY ExceptionsStay
<1>2. TypeOK /\ TypeOK' /\ PayoutInv(p) /\ PayoutInv(p)' /\ Recorded(p) /\ Recorded(p)'
  BY <1>1 DEF Inv, AllRecorded
<1>3. CASE pay'[p] = pay[p]
  BY <1>1, <1>2, <1>3, FinalStep, RowCloses
<1>4. CASE pay'[p] # pay[p]
  BY <1>2, <1>4, PayStays, RequestLeaves, WalletEnds
<1> QED
  BY <1>3, <1>4

LEMMA PayoutStarts == ASSUME PayoutConstants, Init PROVE PromiseStarts
<1> SUFFICES ASSUME NEW p \in Payouts PROVE Promise(p)!Init
  BY DEF PromiseStarts
<1>1. PayoutInv(p) /\ TypeOK
  BY InitInv DEF Inv, Init
<1>2. Recorded(p)
  BY <1>1, OneRecord
<1>3. (\A i \in Invoices : pay[p][i] = "none") /\ state[p] = "none" /\ p \notin broken
  BY DEF Init
<1>4. AskedFor(p) = 0 /\ MoneyOf(p) = "none" /\ VerdictOf(p) = "open"
  BY <1>2, <1>3 DEF Recorded, VerdictOf
<1>5. (AskedFor(p) # 0) = FALSE
  BY <1>4
<1> QED
  BY <1>4, <1>5 DEF Promise!Init

\* However many executors and overlapping ticks there are, each payout keeps the promise
\* of PayCall until a tick takes it back: of all its invoices one is sent to the platform
\* wallet, once, and the row's verdict is true and final; a payout that was paid and whose
\* update was lost counts as completed.
THEOREM SpecPayoutKeepsPromise == ASSUME PayoutConstants PROVE Spec => PayoutKeepsPromise
<1>1. Inv => AllRecorded
  BY OneRecord DEF Inv, AllRecorded
<1>2. Init => PromiseStarts
  BY PayoutStarts
<1>3. Inv /\ Inv' /\ AllRecorded /\ AllRecorded' /\ [Next]_vars => [AllPromisesKept]_vars
  BY PayoutMoves
<1> QED
  BY <1>1, <1>2, <1>3, SpecInv, PTL DEF Spec, PayoutKeepsPromise

=============================================================================
