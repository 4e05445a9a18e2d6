----------------------------- MODULE WalletSends -----------------------------
(***************************************************************************)
(* Payments out of a Blink or CLINK wallet: processExternalPayment of      *)
(* feeEngine.ts with its two adapters (blink.ts, clink.ts), the three      *)
(* surfaces that pay with it (a RIC's withdrawal QR, a RIC's payment to a  *)
(* card, the app's pay screen) and the reconciler that asks Blink about    *)
(* the rows left pending.  CardTap has the card's payments and NwcClient   *)
(* the relay.                                                              *)
(*                                                                         *)
(* A request can arrive after its sender has given up, and the reconciler  *)
(* can look at a row whose request is still waiting for its reply.         *)
(*                                                                         *)
(* Assumption: each payment is for an invoice of its own, so that Blink's  *)
(* records under its hash are this payment's.                              *)
(***************************************************************************)
EXTENDS Naturals, FiniteSets

CONSTANTS
  Sends,      \* bound: the payments, numbers in the order of their rows' created_at
  Lane,       \* the wallet each is paid from: "blink" or "clink"
  Surface,    \* who asked: "withdraw" (all for one QR code), "transfer" or "pay"
  Batch,      \* how many rows a sweep takes
  Garbled     \* whether a wallet's reply may be one that nobody can read

VARIABLES
  row,       \* the status of each payment's row
  wallet,    \* where the request is: on its way, in the wallet's hands, paid, refused
  code,      \* how far the surface is with it
  told,      \* what the surface has answered
  claimed,   \* paid_at of the withdrawal
  expired,   \* whether the withdrawal's five minutes are over
  receipts   \* transfers booked for the card's holder

vars == <<row, wallet, code, told, claimed, expired, receipts>>

TypeOK ==
  /\ row \in [Sends -> {"none", "pending", "completed", "failed"}]
  /\ wallet \in [Sends -> {"none", "travels", "has it", "paid", "refused", "lost"}]
  /\ code \in [Sends -> {"none", "asks", "waits", "books", "done"}]
  /\ told \in [Sends -> {"none", "ok", "error", "unknown"}]
  /\ claimed \in BOOLEAN /\ expired \in BOOLEAN /\ receipts \subseteq Sends

All(x) == [s \in Sends |-> x]

Init ==
  /\ row = All("none") /\ wallet = All("none") /\ code = All("none") /\ told = All("none")
  /\ claimed = FALSE /\ expired = FALSE /\ receipts = {}

Set(f, s, x) == [f EXCEPT ![s] = x]

-----------------------------------------------------------------------------
(* The surfaces, up to the request *)

\* A withdrawal QR is good for an unclaimed withdrawal that has not expired.  The row
\* is inserted before the wallet is asked.
Begin(s) ==
  /\ code[s] = "none" /\ \A t \in Sends : t < s => code[t] # "none"
  /\ Surface[s] = "withdraw" => ~claimed /\ ~expired
  /\ row' = Set(row, s, "pending") /\ code' = Set(code, s, "asks")
  /\ UNCHANGED <<wallet, told, claimed, expired, receipts>>

\* resolvePayFunding: there is no wallet, or it only receives, and no row is written.
NoFunding(s) ==
  /\ code[s] = "none" /\ \A t \in Sends : t < s => code[t] # "none"
  /\ code' = Set(code, s, "done") /\ told' = Set(told, s, "error")
  /\ UNCHANGED <<row, wallet, claimed, expired, receipts>>

Ask(s) ==
  /\ code[s] = "asks"
  /\ code' = Set(code, s, "waits") /\ wallet' = Set(wallet, s, "travels")
  /\ UNCHANGED <<row, told, claimed, expired, receipts>>

-----------------------------------------------------------------------------
(* The wallets *)

Wallet(s, from, to) ==
  /\ wallet[s] = from /\ wallet' = Set(wallet, s, to)
  /\ UNCHANGED <<row, code, told, claimed, expired, receipts>>

Arrives(s) == Wallet(s, "travels", "has it")
GoesMissing(s) == Wallet(s, "travels", "lost")
Pays(s) == Wallet(s, "has it", "paid")
Refuses(s) == Wallet(s, "has it", "refused")

\* What the adapter can hear of a request.  "silence" is every way of not hearing:
\* Blink not reached, a 5xx, its own words for a passing fault, no status; CLINK's
\* deadline or a broken relay.  "garbled" is a body that is no JSON or has no data.
Heard(s) ==
  {"silence"}
  \union (IF Garbled /\ wallet[s] \in {"has it", "paid"} THEN {"garbled"} ELSE {})
  \union (IF wallet[s] = "refused" THEN {"refusal"} ELSE {})
  \union (IF wallet[s] = "paid" THEN {"success"} ELSE {})
  \union (IF wallet[s] = "has it" /\ Lane[s] = "blink" THEN {"in progress"} ELSE {})
  \union (IF wallet[s] = "paid" /\ Lane[s] = "clink" THEN {"wrong proof"} ELSE {})

-----------------------------------------------------------------------------
(* The reply *)

\* (mutant) Whatever is not a success has failed, unless nothing was heard.
Unsure_SilenceOnly(reply) == reply = "silence"
\* BlinkAmbiguousError and ClinkAmbiguousError.
Unsure(reply) == reply \in {"silence", "in progress", "wrong proof"}

\* finalizePendingSend: a row somebody has ended already stays as it is.
Finalized(s, status) == IF row[s] = "pending" THEN Set(row, s, status) ELSE row

\* What each surface says of a payment whose outcome is unknown: only the pay screen
\* knows AmbiguousPaymentError.
ToldUnsure(s) == IF Surface[s] = "pay" THEN "unknown" ELSE "error"

HearSuccess(s) ==
  /\ code[s] = "waits" /\ "success" \in Heard(s)
  /\ row' = Finalized(s, "completed") /\ code' = Set(code, s, "books")
  /\ UNCHANGED <<wallet, told, claimed, expired, receipts>>

HearUnsure(s) ==
  /\ code[s] = "waits" /\ \E reply \in Heard(s) : reply # "success" /\ Unsure(reply)
  /\ code' = Set(code, s, "done") /\ told' = Set(told, s, ToldUnsure(s))
  /\ UNCHANGED <<row, wallet, claimed, expired, receipts>>

HearFailure(s) ==
  /\ code[s] = "waits" /\ \E reply \in Heard(s) : reply # "success" /\ ~Unsure(reply)
  /\ row' = Finalized(s, "failed")
  /\ code' = Set(code, s, "done") /\ told' = Set(told, s, "error")
  /\ UNCHANGED <<wallet, claimed, expired, receipts>>

\* Blink's wallet id cannot be read: nothing was asked.
NotAsked(s) ==
  /\ code[s] = "asks" /\ Lane[s] = "blink"
  /\ row' = Finalized(s, "failed")
  /\ code' = Set(code, s, "done") /\ told' = Set(told, s, "error")
  /\ UNCHANGED <<wallet, claimed, expired, receipts>>

\* The payment is made: the withdrawal is marked claimed, the holder's row inserted.
Books(s) ==
  /\ code[s] = "books" /\ code' = Set(code, s, "done") /\ told' = Set(told, s, "ok")
  /\ claimed' = (claimed \/ Surface[s] = "withdraw")
  /\ receipts' = IF Surface[s] = "transfer" THEN receipts \union {s} ELSE receipts
  /\ UNCHANGED <<row, wallet, expired>>

\* That write fails, and the surface reports its error.
BookingFails(s) ==
  /\ code[s] = "books" /\ Surface[s] # "pay"
  /\ code' = Set(code, s, "done") /\ told' = Set(told, s, "error")
  /\ UNCHANGED <<row, wallet, claimed, expired, receipts>>

-----------------------------------------------------------------------------
(* The reconciler, time and restarts *)

Pending == {s \in Sends : row[s] = "pending"}

\* (mutant) A sweep is short of one row.
Swept_OneShort == {s \in Pending : Cardinality({t \in Pending : t < s}) + 1 < Batch}
\* The oldest pending rows; a CLINK wallet has nothing to look up, so its rows stay.
Swept == {s \in Pending : Cardinality({t \in Pending : t < s}) < Batch}

\* Blink's own record, once it has one, ends the row.
Reconcile(s) ==
  /\ s \in Swept /\ Lane[s] = "blink" /\ wallet[s] \in {"paid", "refused"}
  /\ row' = Set(row, s, IF wallet[s] = "paid" THEN "completed" ELSE "failed")
  /\ UNCHANGED <<wallet, code, told, claimed, expired, receipts>>

Expires ==
  /\ ~expired /\ expired' = TRUE
  /\ UNCHANGED <<row, wallet, code, told, claimed, receipts>>

\* The process stops: whoever was waiting hears nothing.
Restart ==
  /\ code' = [s \in Sends |-> IF code[s] = "none" THEN "none" ELSE "done"] /\ code' # code
  /\ UNCHANGED <<row, wallet, told, claimed, expired, receipts>>

Step(s) ==
  \/ Begin(s) \/ NoFunding(s) \/ Ask(s) \/ NotAsked(s)
  \/ Arrives(s) \/ GoesMissing(s) \/ Pays(s) \/ Refuses(s)
  \/ HearSuccess(s) \/ HearUnsure(s) \/ HearFailure(s) \/ Books(s) \/ BookingFails(s)
  \/ Reconcile(s)

Next == (\E s \in Sends : Step(s)) \/ Expires \/ Restart

\* startInvoiceMonitor sweeps on a timer.
Fairness == \A s \in Sends : WF_vars(Reconcile(s))

Spec == Init /\ [][Next]_vars /\ Fairness

-----------------------------------------------------------------------------
(* Properties *)

\* What the books say is what happened: a row that says completed was paid; one that
\* says failed was not and never will be, for nothing of it is on its way or in the
\* wallet's hands; a holder is credited only for a transfer that was paid, and a
\* withdrawal is claimed only when one of its payments was made.
VerdictMatchesWallet ==
  /\ \A s \in Sends : /\ row[s] = "completed" => wallet[s] = "paid"
                      /\ row[s] = "failed" => wallet[s] \in {"none", "refused"}
  /\ \A s \in receipts : wallet[s] = "paid"
  /\ claimed => \E s \in Sends : Surface[s] = "withdraw" /\ wallet[s] = "paid"

\* A Blink payment that was made is completed, though nobody waited for its reply, as
\* long as the rows before it do not fill a sweep (rows that nobody can answer for, of
\* a CLINK wallet or of a request that never arrived, stay pending for a day).
PaidSendCompletes == \A s \in Sends :
  Lane[s] = "blink" /\ wallet[s] = "paid" /\ Cardinality({t \in Sends : t < s}) < Batch
    ~> row[s] = "completed"

\* "Callers must ... NEVER retry the payment or report definitive failure": a surface
\* that answers with an error has not paid.
ErrorMeansNotPaid == \A s \in Sends : told[s] = "error" => wallet[s] # "paid"

-----------------------------------------------------------------------------
(* A send keeps the promise of PayCall *)

MoneyOf(s) ==
  IF wallet[s] = "has it" THEN "pending"
  ELSE IF wallet[s] = "refused" THEN "failed"
  ELSE IF wallet[s] = "paid" THEN "paid" ELSE "none"

Booked(s) == IF row[s] \in {"completed", "failed"} THEN row[s] ELSE "open"

SendPromise == INSTANCE PayCall WITH
  Payments <- Sends,
  asked <- [s \in Sends |-> IF MoneyOf(s) = "none" THEN 0 ELSE 1],
  money <- [s \in Sends |-> MoneyOf(s)],
  mine <- [s \in Sends |-> MoneyOf(s) # "none"],
  verdict <- [s \in Sends |-> Booked(s)]

\* Whoever hears what of a request, the verdict on it is true and final, and one that
\* arrives after its sender gave up is not of a send that was failed.
SendKeepsPromise == SendPromise!Spec

=============================================================================
