----------------------------- MODULE Reconciles -----------------------------
(***************************************************************************)
(* Looking for payments while an account's balance or history is read      *)
(* (reconcileAccountInvoices and reconcileAccountInvoicesBounded of        *)
(* core/money/invoiceMonitor.ts, called by GET /api/wallet/balance and by  *)
(* plugins/reports.ts), for one account.  A read joins the look that is    *)
(* running, starts one, or does without if one started a moment ago, and   *)
(* waits for it three seconds at most.  What a look does to the rows is    *)
(* InvoiceMonitor's StartReconcile; here it takes as long as it likes, and *)
(* may never end: a promise of the wallet library that nobody resolves.    *)
(***************************************************************************)
EXTENDS Naturals

CONSTANTS
  Reads,    \* bound: reads of the account's balance or history
  MaxLooks  \* bound: looks started

VARIABLES
  looks,   \* looks started so far; the newest is the only one inflightReconciles can hold
  running, \* looks that have not ended
  joined,  \* the look in inflightReconciles, 0 for none
  recent,  \* lastReconcileAt is less than RECONCILE_DEBOUNCE_MS ago
  read     \* each read: where it is, the look it waits for, the one that ran as it came

vars == <<looks, running, joined, recent, read>>

Early == [at |-> "early", on |-> 0, beside |-> 0]

TypeOK ==
  /\ looks \in 0..MaxLooks /\ running \subseteq 1..looks
  /\ joined \in {0} \union running /\ recent \in BOOLEAN
  /\ read \in [Reads -> [at: {"early", "waits", "late", "answered"},
                         on: 0..MaxLooks, beside: 0..MaxLooks]]

Init ==
  /\ looks = 0 /\ running = {} /\ joined = 0 /\ recent = FALSE
  /\ read = [r \in Reads |-> Early]

\* (mutant) Only the time of the last look is asked for.
Joins_Never == FALSE
Joins == joined # 0

\* A read asks for a look: it joins the one that runs, or finds that there was one a moment
\* ago and goes on, or starts one.
Ask(r) ==
  /\ read[r].at = "early"
  /\ LET goes(at, on) == read' = [read EXCEPT ![r] = [at |-> at, on |-> on, beside |-> joined]] IN
       IF Joins THEN goes("waits", joined) /\ UNCHANGED <<looks, running, joined, recent>>
       ELSE IF recent THEN goes("answered", 0) /\ UNCHANGED <<looks, running, joined, recent>>
       ELSE /\ looks < MaxLooks
            /\ looks' = looks + 1 /\ running' = running \union {looks + 1}
            /\ joined' = looks + 1 /\ recent' = TRUE
            /\ goes("waits", looks + 1)

\* doReconcile ends, or throws: either way inflightReconciles is emptied and the reads go on.
Ends(l) ==
  /\ l \in running
  /\ running' = running \ {l} /\ joined' = 0
  /\ read' = [r \in Reads |-> IF read[r].at = "waits" /\ read[r].on = l
                              THEN [read[r] EXCEPT !.at = "answered"] ELSE read[r]]
  /\ UNCHANGED <<looks, recent>>

\* (mutant) The read waits for the look itself.
GivesUp_Never(r) == r \notin Reads
GivesUp(r) == read[r].at = "waits"

\* RECONCILE_TIMEOUT_MS is over: the read goes on, the look too.
TimeIsUp(r) ==
  /\ GivesUp(r) /\ read' = [read EXCEPT ![r].at = "late"]
  /\ UNCHANGED <<looks, running, joined, recent>>

DebouncePasses ==
  /\ recent /\ recent' = FALSE
  /\ UNCHANGED <<looks, running, joined, read>>

Next ==
  \/ DebouncePasses
  \/ \E r \in Reads: Ask(r) \/ TimeIsUp(r)
  \/ \E l \in 1..MaxLooks: Ends(l)

Spec == Init /\ [][Next]_vars

\* The timer of a read fires.  Nothing says that a look ends.
Timers == \E r \in Reads: TimeIsUp(r)
FairSpec == Spec /\ WF_vars(Timers)

-----------------------------------------------------------------------------
(* Properties *)

\* Balance and history, read together, both see what one look finds
\* (invoiceMonitor.ts:342): a read that came while a look ran is not answered before the
\* look has ended, unless its own three seconds are over; and there is one look at a time.
ParallelReadsSeeIt ==
  /\ \A r \in Reads: read[r].at = "answered" => read[r].beside \notin running
  /\ \A k, l \in running: k = l

\* A read is answered even if the look it waits for never ends.
ReadsAreAnswered ==
  \A r \in Reads: (read[r].at = "waits") ~> (read[r].at \in {"late", "answered"})
=============================================================================
