------------------------------ MODULE WrapGate ------------------------------
(***************************************************************************)
(* Admission of wrapped sales (createWrappedInvoice, openWrapStats and     *)
(* platformBalanceSats of core/money/holdWrap.ts, with the insert in       *)
(* core/server.ts): a sale is wrapped while fewer than WRAP_MAX_OPEN holds *)
(* are open and the platform's float can pay every merchant it owes.       *)
(* Otherwise it falls back to a direct invoice, which leaves no trace      *)
(* here.  The counts are read before three awaits (balance, merchant's     *)
(* invoice, hold invoice) and the row is inserted after them.              *)
(*                                                                         *)
(* A sale owes its merchant one unit while it is created, accepted or      *)
(* forwarding.  One that is closed, or whose hold expired more than an     *)
(* hour ago, is not counted any more and frees its place for a later one.  *)
(* The balance is any figure up to Funds: it moves with every payment.     *)
(***************************************************************************)
EXTENDS Integers, FiniteSets

CONSTANTS
  Places,     \* places for rows: the sales that may be open at one time
  Checkouts,  \* requests for an invoice that may run at the same time
  MaxOpen,    \* WRAP_MAX_OPEN
  MaxPct,     \* WRAP_FLOAT_MAX_PCT
  Margin,     \* FLOAT_MARGIN_SATS
  Funds       \* the most the platform wallet ever holds

GateConstants ==
  /\ IsFiniteSet(Places) /\ IsFiniteSet(Checkouts) /\ Checkouts # {}
  /\ MaxOpen \in Nat \ {0}
  /\ MaxPct \in Nat /\ Margin \in Nat /\ Funds \in Nat

VARIABLES
  sale,      \* per place: "none", "owing" or "forwarded"
  checkout,  \* per request: where createWrappedInvoice is, and what it read
  cache      \* cachedPlatformBalance: at most one figure

vars == <<sale, checkout, cache>>

-----------------------------------------------------------------------------
(* Types *)

Idle == [at |-> "idle"]

TypeOK ==
  /\ sale \in [Places -> {"none", "owing", "forwarded"}]
  /\ checkout \in [Checkouts -> {Idle} \cup [at : {"counted", "passed"}, owed : Nat]]
  /\ cache \in {{}} \cup {{b} : b \in 0..Funds}

Init ==
  /\ sale = [s \in Places |-> "none"]
  /\ checkout = [c \in Checkouts |-> Idle]
  /\ cache = {}

-----------------------------------------------------------------------------
(* createWrappedInvoice *)

\* openWrapStats
Counted == {s \in Places : sale[s] # "none"}
Obligations == {s \in Places : sale[s] = "owing"}

\* The usage test, with n obligations and a balance of b.
FitsFloat(n, b) == b > 0 /\ (n + Margin) * 100 <= MaxPct * b

Busy == {c \in Checkouts : checkout[c] # Idle}

\* (mutant) The ceiling compared with > instead of >=.
CountOpen_OffByOne(c) ==
  /\ c \notin Busy
  /\ Cardinality(Counted) <= MaxOpen
  /\ checkout' = [checkout EXCEPT ![c] = [at |-> "counted", owed |-> Cardinality(Obligations)]]
  /\ UNCHANGED <<sale, cache>>

CountOpen(c) ==
  /\ c \notin Busy
  /\ Cardinality(Counted) < MaxOpen
  /\ checkout' = [checkout EXCEPT ![c] = [at |-> "counted", owed |-> Cardinality(Obligations)]]
  /\ UNCHANGED <<sale, cache>>

\* platformBalanceSats: the cached figure, or what the wallet answers.
Balances == IF cache = {} THEN 0..Funds ELSE cache

\* (mutant) The sale that is asked for is left out of the sum.
CheckFloat_WithoutThisSale(c) ==
  /\ c \in Busy /\ checkout[c].at = "counted"
  /\ \E b \in Balances :
       /\ cache' = {b}
       /\ checkout' = [checkout EXCEPT ![c] =
            IF FitsFloat(@.owed, b) THEN [@ EXCEPT !.at = "passed"] ELSE Idle]
  /\ UNCHANGED sale

\* The float gate, with this sale among the obligations.
CheckFloat(c) ==
  /\ c \in Busy /\ checkout[c].at = "counted"
  /\ \E b \in Balances :
       /\ cache' = {b}
       /\ checkout' = [checkout EXCEPT ![c] =
            IF FitsFloat(@.owed + 1, b) THEN [@ EXCEPT !.at = "passed"] ELSE Idle]
  /\ UNCHANGED sale

\* A wallet call fails, or the process dies: the sale goes direct.
MintFails(c) ==
  /\ c \in Busy
  /\ checkout' = [checkout EXCEPT ![c] = Idle]
  /\ UNCHANGED <<sale, cache>>

\* Both invoices are minted and the route inserts the row.
Insert(c, s) ==
  /\ c \in Busy /\ checkout[c].at = "passed"
  /\ sale[s] = "none"
  /\ sale' = [sale EXCEPT ![s] = "owing"]
  /\ checkout' = [checkout EXCEPT ![c] = Idle]
  /\ UNCHANGED cache

CacheExpires ==
  /\ cache # {}
  /\ cache' = {}
  /\ UNCHANGED <<sale, checkout>>

-----------------------------------------------------------------------------
(* What becomes of a sale *)

\* The merchant is paid out of the float.
Forward(s) ==
  /\ sale[s] = "owing"
  /\ sale' = [sale EXCEPT ![s] = "forwarded"]
  /\ UNCHANGED <<checkout, cache>>

\* Settled, cancelled, flagged, or expired for more than an hour.
Leave(s) ==
  /\ sale[s] # "none"
  /\ sale' = [sale EXCEPT ![s] = "none"]
  /\ UNCHANGED <<checkout, cache>>

-----------------------------------------------------------------------------
(* The specification *)

Next ==
  \/ \E c \in Checkouts : CountOpen(c) \/ CheckFloat(c) \/ MintFails(c)
  \/ \E c \in Checkouts, s \in Places : Insert(c, s)
  \/ CacheExpires
  \/ \E s \in Places : Forward(s) \/ Leave(s)

Spec == Init /\ [][Next]_vars

-----------------------------------------------------------------------------
(* Properties *)

\* The ceiling is tested before the insert (openWrapStats): checkouts that race
\* one another exceed it, but never by more than all of them but one.
OpenNearCap == Cardinality(Counted) < MaxOpen + Cardinality(Checkouts)

\* What the platform owes to merchants exceeds the share of the float that
\* WRAP_FLOAT_MAX_PCT allows by no more than the same: it fits without all the
\* racing checkouts but one.
OwedNearFloat ==
  LET n == Cardinality(Obligations) + 1 - Cardinality(Checkouts)
  IN n >= 1 => FitsFloat(n, Funds)

\* However the checkouts race, each limit is missed by fewer sales than there are of them.
AdmissionNearLimits == OpenNearCap /\ OwedNearFloat

=============================================================================
