----------------------------- MODULE WrapDriver -----------------------------
(***************************************************************************)
(* When open sales are advanced (core/money/wrapDriver.ts, with the status *)
(* route and the wallet notifications that call it): one sweep at a time   *)
(* reads the oldest open rows, closes checkouts nobody asks about, and     *)
(* advances those that were kicked or not looked at lately, a few at once. *)
(* A device's poll kicks the sweep; a notification advances at once.       *)
(*                                                                         *)
(* Sales are numbered in the order of their created_at.  What a pass does  *)
(* is the business of HoldWrap; here it moves the row as far as the state  *)
(* of the hold allows, or fails and leaves it.  A sweep may start whenever *)
(* none is running: the 5 s timer, a kick's setTimeout and a cooling relay *)
(* differ only in when.                                                    *)
(***************************************************************************)
EXTENDS Naturals, FiniteSets, FiniteSetsExt

CONSTANTS
  MaxSales,    \* bound: checkouts
  Batch,       \* SWEEP_BATCH
  Chunk,       \* MAX_CONCURRENT_ADVANCES
  MaxRestarts  \* bound: restarts of the process

Sales == 1..MaxSales

VARIABLES
  row,       \* per sale: wrap_status; "taken" is accepted, forwarding or forwarded
  locked,    \* sales whose hold the customer has paid
  clock,     \* per sale: "young" (under 3 min), "old", or "expired"
  polled,    \* sales some device asked about within 3 minutes
  heard,     \* those this process heard about: lastInterest within 3 minutes
  pass,      \* per sale: who works on it, "none" if it is not inFlight
  drive,     \* running: where drive() is, the rows it read and has left
  restarts

vars == <<row, locked, clock, polled, heard, pass, drive, restarts>>

-----------------------------------------------------------------------------
(* Types *)

OpenStates == {"created", "taken"}

Quiet == [at |-> "idle", rows |-> {}, left |-> {}]

TypeOK ==
  /\ row \in [Sales -> OpenStates \cup {"none", "closed"}]
  /\ locked \subseteq Sales
  /\ clock \in [Sales -> {"young", "old", "expired"}]
  /\ heard \subseteq polled /\ polled \subseteq Sales
  /\ pass \in [Sales -> {"none", "drive", "now", "close"}]
  /\ drive \in [at : {"idle", "closing", "advancing"}, rows : SUBSET Sales, left : SUBSET Sales]
  /\ restarts \in 0..MaxRestarts

Init ==
  /\ row = [s \in Sales |-> "none"]
  /\ locked = {} /\ polled = {} /\ heard = {}
  /\ clock = [s \in Sales |-> "young"]
  /\ pass = [s \in Sales |-> "none"]
  /\ drive = Quiet
  /\ restarts = 0

-----------------------------------------------------------------------------
(* Helpers *)

Open == {s \in Sales : row[s] \in OpenStates}
InFlight == {s \in Sales : pass[s] # "none"}
Driven == {s \in Sales : pass[s] = "drive"}

\* The n first of a set of sales.
Oldest(n, S) == {s \in S : Cardinality({r \in S : r < s}) < n}

\* advanceOne's first half, for the sales of S that are not in flight.
StartPasses(S, who) ==
  pass' = [s \in Sales |-> IF s \in S \ InFlight THEN who ELSE pass[s]]

\* Where an advance can take the row: nowhere while the hold is unpaid and
\* alive, anywhere ahead once it is paid, and nowhere again if a call fails.
Outcomes(s) ==
  CASE row[s] = "created" /\ s \in locked -> {"created", "taken", "closed"}
    [] row[s] = "created" /\ clock[s] = "expired" -> {"created", "closed"}
    [] row[s] = "taken" -> {"taken", "closed"}
    [] OTHER -> {row[s]}

\* (mutant) What was heard about a sale outlives it.
SetRow_KeepsInterest(s, to) ==
  /\ row' = [row EXCEPT ![s] = to]
  /\ IF to = "closed"
       THEN /\ polled' = polled \ {s} /\ UNCHANGED heard
            /\ locked' = locked \ {s}
            /\ clock' = [clock EXCEPT ![s] = "young"]
       ELSE UNCHANGED <<polled, heard, locked, clock>>

\* The row ends up in state to; a closed sale is forgotten.
SetRow(s, to) ==
  /\ row' = [row EXCEPT ![s] = to]
  /\ IF to = "closed"
       THEN /\ polled' = polled \ {s} /\ heard' = heard \ {s}
            /\ locked' = locked \ {s}
            /\ clock' = [clock EXCEPT ![s] = "young"]
       ELSE UNCHANGED <<polled, heard, locked, clock>>

-----------------------------------------------------------------------------
(* The sweep *)

\* running is set and the rows are read.  A sweep that finds none does nothing.
StartDrive ==
  /\ drive.at = "idle" /\ Open # {}
  /\ LET rows == Oldest(Batch, Open)
     IN drive' = [at |-> "closing", rows |-> rows,
                  left |-> {s \in rows : row[s] = "created"}]
  /\ UNCHANGED <<row, locked, clock, polled, heard, pass, restarts>>

\* (mutant) The age of the checkout counts, not the last poll.
Dead_ByAge(s) == clock[s] # "young"

\* Checkouts of the batch that are dead: past their expiry, or nobody asked
\* about them for three minutes as far as this process knows.
Dead(s) == clock[s] = "expired" \/ (clock[s] = "old" /\ s \notin heard)

Closable == {s \in drive.left : s \notin InFlight /\ Dead(s)}

\* The loop closes one checkout after the other.  (The code reads the clock once
\* per sweep, so a sale that dies during the loop waits for the next one.)
CloseNext ==
  /\ drive.at = "closing" /\ Closable # {}
  /\ \A s \in Sales : pass[s] # "close"
  /\ LET s == Min(Closable)
     IN /\ pass' = [pass EXCEPT ![s] = "close"]
        /\ drive' = [drive EXCEPT !.left = {r \in @ : r > s}]
  /\ UNCHANGED <<row, locked, clock, polled, heard, restarts>>

\* (mutant) Only sales somebody asks about are due.
CollectDue_HeardOnly(due) ==
  /\ drive.at = "closing" /\ Closable = {}
  /\ \A s \in Sales : pass[s] # "close"
  /\ due \subseteq (drive.rows \cap heard) \ InFlight
  /\ drive' = [at |-> "advancing", rows |-> {}, left |-> due]
  /\ UNCHANGED <<row, locked, clock, polled, heard, pass, restarts>>

\* Nothing more to close.  Of the rows that are not in flight those are due that
\* were kicked since the last sweep or not advanced for MIN_INTERVAL_MS: any of
\* them, since that depends on the time of the last pass alone.
CollectDue(due) ==
  /\ drive.at = "closing" /\ Closable = {}
  /\ \A s \in Sales : pass[s] # "close"
  /\ due \subseteq drive.rows \ InFlight
  /\ drive' = [at |-> "advancing", rows |-> {}, left |-> due]
  /\ UNCHANGED <<row, locked, clock, polled, heard, pass, restarts>>

\* (mutant) The next chunk without waiting for the last one.
NextChunk_NoWait ==
  /\ drive.at = "advancing" /\ drive.left # {}
  /\ LET chunk == Oldest(Chunk, drive.left)
     IN /\ StartPasses(chunk, "drive")
        /\ drive' = [drive EXCEPT !.left = @ \ chunk]
  /\ UNCHANGED <<row, locked, clock, polled, heard, restarts>>

\* The next chunk, once every advance of the last one has come back.
NextChunk ==
  /\ drive.at = "advancing" /\ Driven = {} /\ drive.left # {}
  /\ LET chunk == Oldest(Chunk, drive.left)
     IN /\ StartPasses(chunk, "drive")
        /\ drive' = [drive EXCEPT !.left = @ \ chunk]
  /\ UNCHANGED <<row, locked, clock, polled, heard, restarts>>

EndDrive ==
  /\ drive.at = "advancing" /\ Driven = {} /\ drive.left = {}
  /\ drive' = Quiet
  /\ UNCHANGED <<row, locked, clock, polled, heard, pass, restarts>>

\* An advance comes back; its sale may be where it was.
EndPass(s, to) ==
  /\ pass[s] \in {"drive", "now"}
  /\ to \in Outcomes(s)
  /\ SetRow(s, to)
  /\ pass' = [pass EXCEPT ![s] = "none"]
  /\ UNCHANGED <<drive, restarts>>

\* cancelWrap comes back: an unpaid checkout is closed, a paid one advanced,
\* and a failed lookup leaves it open.
EndClose(s, to) ==
  /\ pass[s] = "close"
  /\ to \in Outcomes(s) \/ (to = "closed" /\ row[s] = "created" /\ s \notin locked)
  /\ SetRow(s, to)
  /\ pass' = [pass EXCEPT ![s] = "none"]
  /\ UNCHANGED <<drive, restarts>>

-----------------------------------------------------------------------------
(* The callers *)

Create(s) ==
  /\ row[s] = "none" /\ \A r \in Sales : r < s => row[r] # "none"
  /\ row' = [row EXCEPT ![s] = "created"]
  /\ UNCHANGED <<locked, clock, polled, heard, pass, drive, restarts>>

\* A device asks for the status of an open sale (wrapStatusView, kickWrap).
Poll(s) ==
  /\ s \in Open
  /\ polled' = polled \cup {s}
  /\ heard' = heard \cup {s}
  /\ UNCHANGED <<row, locked, clock, pass, drive, restarts>>

\* A notification that the hold was paid, or its replay (advanceWrapNow).
Notify(s) ==
  /\ s \in Open \cap locked /\ s \notin InFlight
  /\ StartPasses({s}, "now")
  /\ UNCHANGED <<row, locked, clock, polled, heard, drive, restarts>>

\* The merchant cancels at the terminal (cancelWrap outside the driver).
Cancel(s) ==
  /\ row[s] = "created" /\ s \notin locked
  /\ SetRow(s, "closed")
  /\ UNCHANGED <<pass, drive, restarts>>

-----------------------------------------------------------------------------
(* The customer, time and the process *)

PayHold(s) ==
  /\ row[s] = "created" /\ s \notin locked /\ clock[s] # "expired"
  /\ locked' = locked \cup {s}
  /\ UNCHANGED <<row, clock, polled, heard, pass, drive, restarts>>

Ages(s) ==
  /\ s \in Open /\ clock[s] # "expired"
  /\ clock' = [clock EXCEPT ![s] = IF @ = "young" THEN "old" ELSE "expired"]
  /\ UNCHANGED <<row, locked, polled, heard, pass, drive, restarts>>

\* Three minutes without a poll.
GoesQuiet(s) ==
  /\ s \in polled /\ clock[s] # "young"
  /\ polled' = polled \ {s}
  /\ heard' = heard \ {s}
  /\ UNCHANGED <<row, locked, clock, pass, drive, restarts>>

\* Everything but the rows is gone, and startWrapDriver sweeps at once.
Restart ==
  /\ restarts < MaxRestarts
  /\ restarts' = restarts + 1
  /\ heard' = {}
  /\ pass' = [s \in Sales |-> "none"]
  /\ drive' = Quiet
  /\ UNCHANGED <<row, locked, clock, polled>>

-----------------------------------------------------------------------------
(* The specification *)

Sweep ==
  \/ StartDrive \/ CloseNext \/ NextChunk \/ EndDrive
  \/ \E due \in SUBSET Sales : CollectDue(due)

Returns(s) == \E to \in OpenStates \cup {"closed"} : EndPass(s, to) \/ EndClose(s, to)

\* An advance or a close that changes the row.
Succeeds(s) ==
  \E to \in (OpenStates \cup {"closed"}) \ {row[s]} : EndPass(s, to) \/ EndClose(s, to)

Next ==
  \/ Sweep
  \/ \E s \in Sales :
       \/ Returns(s) \/ Create(s) \/ Poll(s) \/ Notify(s) \/ Cancel(s)
       \/ PayHold(s) \/ Ages(s) \/ GoesQuiet(s)
  \/ Restart

Spec == Init /\ [][Next]_vars

\* Every row of the batch that is not in flight is due: none of them was
\* advanced within MIN_INTERVAL_MS, or all were kicked.
CollectAll == CollectDue(drive.rows \ InFlight)

\* The timer keeps starting sweeps, calls of the wallet come back and some time
\* succeed, and time passes.  Nobody has to poll, pay or notify.
Fairness ==
  /\ WF_vars(Sweep)
  /\ SF_vars(CollectAll)
  /\ SF_vars(\E s \in Sales : Succeeds(s))
  /\ \A s \in Sales :
       /\ WF_vars(Returns(s))
       /\ WF_vars(Ages(s))

FairSpec == Spec /\ Fairness

-----------------------------------------------------------------------------
(* Properties *)

\* One sweep never has more advances under way than MAX_CONCURRENT_ADVANCES,
\* whatever kicks, notifications and closes do meanwhile.
NoStampede == Cardinality(Driven) <= Chunk

\* Every sale comes to an end: a paid one is driven through, one that expired
\* unpaid is closed, also while a device goes on asking about it.
OpenSaleEnds == \A s \in Sales : s \in Open ~> row[s] = "closed"

\* Only a checkout nobody has asked about for three minutes is closed as
\* abandoned.  lastInterest belongs to a process: after a restart the first
\* sweep closes checkouts that are still being asked about.
OnlyUnaskedAbandoned ==
  [][restarts' = 0 =>
       \A s \in Sales :
         (pass[s] # "close" /\ pass'[s] = "close" /\ clock[s] # "expired") => s \notin polled]_vars

=============================================================================
