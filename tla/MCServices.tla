----------------------------- MODULE MCServices -----------------------------
(***************************************************************************)
(* Three services that share no variable, side by side in one state space: *)
(* the admission of wrapped sales, the driver that advances them and the   *)
(* monitor of direct invoices.  `which` is chosen once and for all; the    *)
(* other two rest in their initial states, so each service's behaviours    *)
(* are exactly those of its own specification.  The properties of the      *)
(* admission are WrapGate's own.                                           *)
(***************************************************************************)
EXTENDS WrapGate

CONSTANTS
  c1, c2,
  MaxSales, Batch, Chunk, MaxRestarts,
  Lanes, Hooks, Page, Newest, Cap, MaxBoots

VARIABLES
  which,
  row, locked, clock, polled, heard, pass, drive, restarts,
  rows, received, receipts, cursor, batch, found, boots

Driver == INSTANCE WrapDriver
Monitor == INSTANCE InvoiceMonitor

MCCheckouts == {c1, c2}
MCLanes == <<"wrap", "hook", "capped", "nwc">>

gateVars == <<sale, checkout, cache>>
driverVars == <<row, locked, clock, polled, heard, pass, drive, restarts>>
monitorVars == <<rows, received, receipts, cursor, batch, found, boots>>
all == <<which, gateVars, driverVars, monitorVars>>

-----------------------------------------------------------------------------
(* The specification *)

ServicesInit ==
  /\ which \in {"gate", "driver", "monitor"}
  /\ Init /\ Driver!Init /\ Monitor!Init

\* A step of one service: whichever of these `which` names, the others resting.
Step(gate, driver, monitor) ==
  /\ UNCHANGED which
  /\ \/ which = "gate" /\ gate /\ UNCHANGED <<driverVars, monitorVars>>
     \/ which = "driver" /\ driver /\ UNCHANGED <<gateVars, monitorVars>>
     \/ which = "monitor" /\ monitor /\ UNCHANGED <<gateVars, driverVars>>

ServicesNext == Step(Next, Driver!Next, Monitor!Next)

\* `which` never changes, so a fairness condition on a step of one service or
\* another is the one of the service it names.  Admission promises nothing.
ServicesFairSpec ==
  /\ ServicesInit /\ [][ServicesNext]_all
  /\ SF_all(Step(FALSE, Driver!CollectAll, Monitor!SweepFinds))
  /\ SF_all(Step(FALSE, \E s \in Driver!Sales : Driver!Succeeds(s), Monitor!Settle("sweep")))
  /\ WF_all(Step(FALSE, Driver!Sweep, Monitor!StartSweep))
  /\ WF_all(Step(FALSE, FALSE, Monitor!SweepChecks))
  /\ WF_all(Step(FALSE, FALSE, Monitor!SweepSettles))
  /\ \A s \in 1..MaxSales :
       /\ WF_all(Step(FALSE, Driver!Returns(s), FALSE))
       /\ WF_all(Step(FALSE, Driver!Ages(s), FALSE))

-----------------------------------------------------------------------------
(* Properties *)

\* Every service's state has its type.
AllTypesOK == TypeOK /\ Driver!TypeOK /\ Monitor!TypeOK

\* WrapDriver: only a checkout nobody asks about is closed as abandoned.
OnlyUnaskedAbandoned == Driver!OnlyUnaskedAbandoned

\* WrapDriver and InvoiceMonitor: a sweep keeps to MAX_CONCURRENT_ADVANCES; an invoice is
\* booked once if it was paid, and never otherwise; a wrapped sale is never booked from here.
SweepsAreSafe == Driver!NoStampede /\ Monitor!BookedOnceIfReceived /\ Monitor!WrapsLeftAlone

\* WrapDriver and InvoiceMonitor: every sale comes to an end, and the sweep settles every paid
\* invoice it can look up.
SweepsGetThere == Driver!OpenSaleEnds /\ Monitor!PaidInvoiceIsSettled

=============================================================================
