----------------------------- MODULE WaitsProofs ------------------------------
(***************************************************************************)
(* Proofs about MCWaits: for every number of payments, runs, connections,  *)
(* reads and requests, and every bound of the flow and of the retries, the *)
(* safety invariants of the six components hold, each by itself and side   *)
(* by side in the state space that TLC explores.                           *)
(*                                                                         *)
(* Each component has an inductive invariant of its own (SendInv, LinkInv, *)
(* FlowInv, LookInv, AllowInv; the subscription's type is inductive as it  *)
(* stands), and a step of the whole is a step of one of them at most.  The *)
(* payments implement PayCall.                                             *)
(***************************************************************************)
EXTENDS MCWaits, Sequences, WellFoundedInduction, TLAPS

-----------------------------------------------------------------------------
(* Payments out of a Blink or CLINK wallet *)

\* No wallet's reply is one that nobody can read: with such replies VerdictMatchesWallet
\* fails, since the reply to a paid request is then booked as a failure.
SendConstants == MaxSends \in Nat /\ ~Garbled

\* Nothing is asked of a wallet before the request is sent, the row of a payment
\* about to be asked for is pending, and what is booked has been paid.
SendInv ==
  /\ Send!TypeOK /\ Send!VerdictMatchesWallet
  /\ \A s \in 1..MaxSends :
       /\ sCode[s] = "none" => sWallet[s] = "none" /\ sRow[s] = "none"
       /\ sCode[s] = "asks" => sRow[s] = "pending" /\ sWallet[s] = "none"
       /\ sCode[s] = "books" => sWallet[s] = "paid"

LEMMA SendInit == ASSUME Send!Init PROVE SendInv
  BY DEF Send!Init, SendInv, Send!All, Send!TypeOK, Send!VerdictMatchesWallet

\* A row is ended with what was heard, or was ended already.
LEMMA SendFinalized ==
  ASSUME SendInv, NEW s \in 1..MaxSends, NEW status \in {"completed", "failed"},
         sRow' = Send!Finalized(s, status)
  PROVE  /\ sRow' \in [1..MaxSends -> {"none", "pending", "completed", "failed"}]
         /\ \A t \in 1..MaxSends : t # s => sRow'[t] = sRow[t]
         /\ sRow'[s] \in {sRow[s], status}
  BY DEF Send!Finalized, Send!Set, SendInv, Send!TypeOK

\* A reply that is true of the wallet keeps the invariant.
LEMMA SendHears ==
  ASSUME SendInv, NEW s \in 1..MaxSends, NEW status \in {"completed", "failed"},
         sRow' = Send!Finalized(s, status),
         status = "completed" => sWallet[s] = "paid",
         status = "failed" => sWallet[s] \in {"none", "refused"},
         NEW next \in {"books", "done"}, next = "books" => sWallet[s] = "paid",
         sCode' = [sCode EXCEPT ![s] = next],
         sTold' \in [1..MaxSends -> {"none", "ok", "error", "unknown"}],
         UNCHANGED <<sWallet, sClaimed, sExpired, sReceipts>>
  PROVE  SendInv'
<1>1. /\ sRow' \in [1..MaxSends -> {"none", "pending", "completed", "failed"}]
      /\ \A t \in 1..MaxSends : t # s => sRow'[t] = sRow[t]
      /\ sRow'[s] \in {sRow[s], status}
  BY SendFinalized
<1>2. sCode' \in [1..MaxSends -> {"none", "asks", "waits", "books", "done"}]
      /\ \A t \in 1..MaxSends : t # s => sCode'[t] = sCode[t]
      /\ sCode'[s] = next
  BY DEF SendInv, Send!TypeOK
<1>3. Send!TypeOK'
  BY <1>1, <1>2 DEF SendInv, Send!TypeOK
<1>4. ASSUME NEW t \in 1..MaxSends
      PROVE  /\ sRow'[t] = "completed" => sWallet'[t] = "paid"
             /\ sRow'[t] = "failed" => sWallet'[t] \in {"none", "refused"}
  BY <1>1 DEF SendInv, Send!VerdictMatchesWallet
<1>5. ASSUME NEW t \in 1..MaxSends
      PROVE  /\ sCode'[t] = "none" => sWallet'[t] = "none" /\ sRow'[t] = "none"
             /\ sCode'[t] = "asks" => sRow'[t] = "pending" /\ sWallet'[t] = "none"
             /\ sCode'[t] = "books" => sWallet'[t] = "paid"
  <2>1. CASE t = s
    BY <1>2, <2>1
  <2>2. CASE t # s
    BY <1>1, <1>2, <2>2 DEF SendInv
  <2> QED
    BY <2>1, <2>2
<1>6. Send!VerdictMatchesWallet'
  BY <1>4 DEF SendInv, Send!VerdictMatchesWallet
<1> QED
  BY <1>3, <1>5, <1>6 DEF SendInv

LEMMA SendStep ==
  ASSUME SendConstants, SendInv, [Send!Next]_(Send!vars)
  PROVE  SendInv'
<1> USE DEF SendInv, Send!TypeOK, Send!VerdictMatchesWallet, Send!Set
<1>1. ASSUME NEW s \in 1..MaxSends, Send!Begin(s) \/ Send!NoFunding(s) \/ Send!Ask(s)
      PROVE  SendInv'
  <2>1. CASE Send!Begin(s)
    BY <2>1 DEF Send!Begin
  <2>2. CASE Send!NoFunding(s)
    BY <2>2 DEF Send!NoFunding
  <2>3. CASE Send!Ask(s)
    BY <2>3 DEF Send!Ask
  <2> QED
    BY <1>1, <2>1, <2>2, <2>3
<1>2. ASSUME NEW s \in 1..MaxSends, NEW from \in {"travels", "has it"},
             NEW to \in {"has it", "lost", "paid", "refused"}, Send!Wallet(s, from, to)
      PROVE  SendInv'
  <2>1. sWallet[s] = from /\ sWallet' = [sWallet EXCEPT ![s] = to]
        /\ UNCHANGED <<sRow, sCode, sTold, sClaimed, sExpired, sReceipts>>
    BY <1>2 DEF Send!Wallet
  <2>2. \A t \in 1..MaxSends : sWallet'[t] = sWallet[t] \/ sWallet[t] \in {"travels", "has it"}
    BY <2>1
  <2>3. Send!TypeOK'
    BY <2>1
  <2>w. \A t \in 1..MaxSends : sWallet[t] \in {"none", "paid", "refused"} => sWallet'[t] = sWallet[t]
    BY <2>2
  <2>4. Send!VerdictMatchesWallet'
    <3>1. \A t \in 1..MaxSends : /\ sRow[t] = "completed" => sWallet'[t] = "paid"
                                 /\ sRow[t] = "failed" => sWallet'[t] \in {"none", "refused"}
      BY <2>w
    <3>2. \A t \in sReceipts : sWallet'[t] = "paid"
      BY <2>w
    <3>3. sClaimed => \E t \in 1..MaxSends : Surface[t] = "withdraw" /\ sWallet'[t] = "paid"
      BY <2>w
    <3> QED
      BY <2>1, <3>1, <3>2, <3>3
  <2>5. \A t \in 1..MaxSends :
          /\ sCode[t] = "none" => sWallet'[t] = "none" /\ sRow[t] = "none"
          /\ sCode[t] = "asks" => sRow[t] = "pending" /\ sWallet'[t] = "none"
          /\ sCode[t] = "books" => sWallet'[t] = "paid"
    BY <2>w
  <2> QED
    BY <2>1, <2>3, <2>4, <2>5
<1>3. ASSUME NEW s \in 1..MaxSends, Send!NotAsked(s)
      PROVE  SendInv'
  <2>1. sCode' = [sCode EXCEPT ![s] = "done"] /\ sTold' = [sTold EXCEPT ![s] = "error"]
        /\ UNCHANGED <<sWallet, sClaimed, sExpired, sReceipts>> /\ sWallet[s] = "none"
        /\ sRow' = Send!Finalized(s, "failed")
    BY <1>3 DEF Send!NotAsked
  <2> QED
    BY <2>1, SendHears
<1>4. ASSUME NEW s \in 1..MaxSends, Send!HearSuccess(s)
      PROVE  SendInv'
  <2>1. sWallet[s] = "paid"
    BY <1>4 DEF Send!HearSuccess, Send!Heard
  <2>2. sCode' = [sCode EXCEPT ![s] = "books"]
        /\ UNCHANGED <<sWallet, sTold, sClaimed, sExpired, sReceipts>>
        /\ sRow' = Send!Finalized(s, "completed")
    BY <1>4 DEF Send!HearSuccess
  <2> QED
    BY <2>1, <2>2, SendHears
<1>5. ASSUME NEW s \in 1..MaxSends, Send!HearUnsure(s)
      PROVE  SendInv'
  <2>1. sCode' = [sCode EXCEPT ![s] = "done"]
        /\ sTold' = [sTold EXCEPT ![s] = Send!ToldUnsure(s)]
        /\ UNCHANGED <<sRow, sWallet, sClaimed, sExpired, sReceipts>>
    BY <1>5 DEF Send!HearUnsure
  <2>2. Send!ToldUnsure(s) \in {"unknown", "error"}
    BY DEF Send!ToldUnsure
  <2> QED
    BY <2>1, <2>2
<1>6. ASSUME NEW s \in 1..MaxSends, Send!HearFailure(s)
      PROVE  SendInv'
  <2>1. PICK reply \in Send!Heard(s) : reply # "success" /\ ~Send!Unsure(reply)
    BY <1>6 DEF Send!HearFailure
  <2>2. sWallet[s] = "refused"
    BY <2>1 DEF Send!Heard, Send!Unsure, SendConstants
  <2>3. sCode' = [sCode EXCEPT ![s] = "done"] /\ sTold' = [sTold EXCEPT ![s] = "error"]
        /\ UNCHANGED <<sWallet, sClaimed, sExpired, sReceipts>>
        /\ sRow' = Send!Finalized(s, "failed")
    BY <1>6 DEF Send!HearFailure
  <2> QED
    BY <2>2, <2>3, SendHears
<1>7. ASSUME NEW s \in 1..MaxSends, Send!Books(s)
      PROVE  SendInv'
  BY <1>7 DEF Send!Books
<1>8. ASSUME NEW s \in 1..MaxSends, Send!BookingFails(s)
      PROVE  SendInv'
  BY <1>8 DEF Send!BookingFails
<1>9. ASSUME NEW s \in 1..MaxSends, Send!Reconcile(s)
      PROVE  SendInv'
  <2>1. sRow[s] = "pending"
    BY <1>9 DEF Send!Reconcile, Send!Swept, Send!Pending
  <2> QED
    BY <1>9, <2>1 DEF Send!Reconcile
<1>10. CASE Send!Expires
  BY <1>10 DEF Send!Expires
<1>11. CASE Send!Restart
  BY <1>11 DEF Send!Restart
<1>12. CASE UNCHANGED Send!vars
  BY <1>12 DEF Send!vars
<1> QED
  BY <1>1, <1>2, <1>3, <1>4, <1>5, <1>6, <1>7, <1>8, <1>9, <1>10, <1>11, <1>12
     DEF Send!Next, Send!Step, Send!Arrives, Send!GoesMissing, Send!Pays, Send!Refuses

\* The same invariant says what PayCall promises.  A step that writes one row at most:
\* what it says is true afterwards, and no final row is written.
LEMMA SendRowMoves ==
  ASSUME SendInv, SendInv', UNCHANGED sWallet, NEW s \in 1..MaxSends,
         \A t \in 1..MaxSends : t # s => sRow'[t] = sRow[t],
         sRow[s] \in {"completed", "failed"} => sRow'[s] = sRow[s]
  PROVE  [Send!SendPromise!Next]_(Send!SendPromise!vars)
<1>1. \A t \in 1..MaxSends : t # s => Send!Booked(t)' = Send!Booked(t)
  BY DEF Send!Booked
<1>2. \A t \in 1..MaxSends : Send!MoneyOf(t)' = Send!MoneyOf(t)
  BY DEF Send!MoneyOf
<1>3. /\ sRow'[s] = "completed" => sWallet[s] = "paid"
      /\ sRow'[s] = "failed" => sWallet[s] \in {"none", "refused"}
  BY DEF SendInv, Send!VerdictMatchesWallet
<1>4. CASE Send!Booked(s)' = Send!Booked(s)
  BY <1>1, <1>2, <1>4 DEF Send!SendPromise!vars
<1>5. CASE Send!Booked(s)' # Send!Booked(s)
  <2>1. Send!Booked(s) = "open" /\ sRow'[s] \in {"completed", "failed"}
        /\ Send!Booked(s)' = sRow'[s]
    BY <1>5 DEF Send!Booked
  <2>2. CASE sRow'[s] = "completed"
    <3>1. Send!SendPromise!Complete(s)
      BY <1>1, <1>2, <1>3, <2>1, <2>2 DEF Send!SendPromise!Complete, Send!MoneyOf
    <3> QED
      BY <3>1 DEF Send!SendPromise!Next, Send!SendPromise!Act
  <2>3. CASE sRow'[s] = "failed"
    <3>1. Send!SendPromise!Fail(s)
      BY <1>1, <1>2, <1>3, <2>1, <2>3 DEF Send!SendPromise!Fail, Send!MoneyOf
    <3> QED
      BY <3>1 DEF Send!SendPromise!Next, Send!SendPromise!Act
  <2> QED
    BY <2>1, <2>2, <2>3
<1> QED
  BY <1>4, <1>5

\* The wallet takes a request, which may have been given up, and ends it.
LEMMA SendMoneyMoves ==
  ASSUME SendInv, NEW s \in 1..MaxSends,
         NEW from \in {"none", "travels", "has it"},
         NEW to \in {"travels", "has it", "lost", "paid", "refused"},
         sWallet[s] = from, sWallet' = [sWallet EXCEPT ![s] = to], UNCHANGED sRow,
         to \in {"paid", "refused"} <=> from = "has it", to = "has it" => from = "travels"
  PROVE  [Send!SendPromise!Next]_(Send!SendPromise!vars)
<1>1. /\ sWallet'[s] = to /\ \A t \in 1..MaxSends : t # s => sWallet'[t] = sWallet[t]
      /\ \A t \in 1..MaxSends : t # s => Send!MoneyOf(t)' = Send!MoneyOf(t)
      /\ \A t \in 1..MaxSends : Send!Booked(t)' = Send!Booked(t)
  BY DEF SendInv, Send!TypeOK, Send!MoneyOf, Send!Booked
<1>2. CASE to \in {"travels", "lost"}
  <2>1. Send!MoneyOf(s)' = Send!MoneyOf(s)
    BY <1>1, <1>2 DEF Send!MoneyOf
  <2>2. \A t \in 1..MaxSends : Send!MoneyOf(t)' = Send!MoneyOf(t)
    BY <1>1, <2>1
  <2> QED
    BY <1>1, <2>2 DEF Send!SendPromise!vars
<1>3. CASE to = "has it"
  <2>1. Send!Booked(s) # "failed" /\ Send!MoneyOf(s) = "none" /\ Send!MoneyOf(s)' = "pending"
    BY <1>1, <1>3 DEF SendInv, Send!VerdictMatchesWallet, Send!Booked, Send!MoneyOf
  <2>2. Send!SendPromise!Deliver(s)
    BY <1>1, <2>1 DEF Send!SendPromise!Deliver
  <2> QED
    BY <2>2 DEF Send!SendPromise!Next, Send!SendPromise!Act
<1>4. CASE to \in {"paid", "refused"}
  <2>1. /\ Send!MoneyOf(s) = "pending"
        /\ Send!MoneyOf(s)' = IF to = "paid" THEN "paid" ELSE "failed"
    BY <1>1, <1>4 DEF Send!MoneyOf
  <2>2. CASE to = "paid"
    <3>1. Send!SendPromise!Settle(s)
      BY <1>1, <2>1, <2>2 DEF Send!SendPromise!Settle
    <3> QED
      BY <3>1 DEF Send!SendPromise!Next, Send!SendPromise!Act
  <2>3. CASE to = "refused"
    <3>1. Send!SendPromise!Refuse(s)
      BY <1>1, <2>1, <2>3 DEF Send!SendPromise!Refuse
    <3> QED
      BY <3>1 DEF Send!SendPromise!Next, Send!SendPromise!Act
  <2> QED
    BY <1>4, <2>2, <2>3
<1> QED
  BY <1>2, <1>3, <1>4

LEMMA SendMoves ==
  ASSUME SendInv, SendInv', [Send!Next]_(Send!vars)
  PROVE  [Send!SendPromise!Next]_(Send!SendPromise!vars)
<1>1. CASE UNCHANGED <<sRow, sWallet>>
  BY <1>1 DEF Send!SendPromise!vars, Send!MoneyOf, Send!Booked
<1>2. ASSUME NEW s \in 1..MaxSends,
             \/ Send!Begin(s) \/ Send!NotAsked(s) \/ Send!HearSuccess(s) \/ Send!HearFailure(s)
             \/ Send!Reconcile(s)
      PROVE  [Send!SendPromise!Next]_(Send!SendPromise!vars)
  <2>1. PICK status \in {"pending", "completed", "failed"} :
          sRow' = [sRow EXCEPT ![s] = status] \/ sRow' = Send!Finalized(s, status)
    BY <1>2 DEF Send!Begin, Send!NotAsked, Send!HearSuccess, Send!HearFailure, Send!Reconcile,
                Send!Set
  <2>2. \A t \in 1..MaxSends : t # s => sRow'[t] = sRow[t]
    BY <2>1 DEF SendInv, Send!TypeOK, Send!Finalized, Send!Set
  <2>3. UNCHANGED sWallet
    BY <1>2 DEF Send!Begin, Send!NotAsked, Send!HearSuccess, Send!HearFailure, Send!Reconcile
  <2>4. sRow[s] \in {"completed", "failed"} => sRow'[s] = sRow[s]
    BY <1>2 DEF SendInv, Send!Begin, Send!NotAsked, Send!HearSuccess, Send!HearFailure,
                Send!Reconcile, Send!Swept, Send!Pending, Send!Finalized
  <2> QED
    BY <2>2, <2>3, <2>4, SendRowMoves
<1>3. ASSUME NEW s \in 1..MaxSends,
             \/ Send!Ask(s) \/ Send!Arrives(s) \/ Send!GoesMissing(s) \/ Send!Pays(s)
             \/ Send!Refuses(s)
      PROVE  [Send!SendPromise!Next]_(Send!SendPromise!vars)
  <2>1. CASE Send!Ask(s)
    <3>1. sWallet[s] = "none" /\ sWallet' = [sWallet EXCEPT ![s] = "travels"] /\ UNCHANGED sRow
      BY <2>1 DEF Send!Ask, Send!Set, SendInv
    <3> QED
      BY <3>1, SendMoneyMoves
  <2>2. CASE Send!Arrives(s) \/ Send!GoesMissing(s) \/ Send!Pays(s) \/ Send!Refuses(s)
    <3>1. PICK from \in {"travels", "has it"}, to \in {"has it", "lost", "paid", "refused"} :
            /\ Send!Wallet(s, from, to)
            /\ to \in {"paid", "refused"} <=> from = "has it"
            /\ to = "has it" => from = "travels"
      BY <2>2 DEF Send!Arrives, Send!GoesMissing, Send!Pays, Send!Refuses
    <3>2. sWallet[s] = from /\ sWallet' = [sWallet EXCEPT ![s] = to] /\ UNCHANGED sRow
      BY <3>1 DEF Send!Wallet, Send!Set
    <3> QED
      BY <3>1, <3>2, SendMoneyMoves
  <2> QED
    BY <1>3, <2>1, <2>2
<1>4. ASSUME NEW s \in 1..MaxSends,
             Send!NoFunding(s) \/ Send!HearUnsure(s) \/ Send!Books(s) \/ Send!BookingFails(s)
      PROVE  UNCHANGED <<sRow, sWallet>>
  BY <1>4 DEF Send!NoFunding, Send!HearUnsure, Send!Books, Send!BookingFails
<1>5. CASE Send!Expires \/ Send!Restart \/ UNCHANGED Send!vars
  BY <1>1, <1>5 DEF Send!Expires, Send!Restart, Send!vars
<1> QED
  BY <1>1, <1>2, <1>3, <1>4, <1>5 DEF Send!Next, Send!Step

LEMMA SendStarts == ASSUME Send!Init PROVE Send!SendPromise!Init
<1>1. \A s \in 1..MaxSends : /\ Send!MoneyOf(s) = "none" /\ Send!Booked(s) = "open"
                             /\ (Send!MoneyOf(s) # "none") = FALSE
  BY DEF Send!Init, Send!All, Send!MoneyOf, Send!Booked
<1> QED
  BY <1>1 DEF Send!SendPromise!Init

-----------------------------------------------------------------------------
(* The Rizful queue and its runs *)

LinkConstants == MaxRuns \in Nat /\ MaxConns \in Nat

RowType ==
  [status: {"none", "pending", "running", "done", "error"}, stale: BOOLEAN, young: BOOLEAN,
   uri: BOOLEAN, conn: 0..MaxConns]
JobType == [at: {"none", "starts", "flow", "probe", "save", "write", "fail"}, conn: 0..MaxConns]

\* One run at a time is being worked off, and none while the flag is down.
OneAtWork(busy, jobs) ==
  /\ \A r, s \in Link!Runs : jobs[r].at # "none" /\ jobs[s].at # "none" => r = s
  /\ busy \/ \A r \in Link!Runs : jobs[r].at = "none"

\* A connection on its way to the row of run r has been saved, as the wallet of that run.
Bound(saved, made, r, c) == c \in Link!Conns /\ c <= made.conns /\ saved[c] \in {0, r}

\* What is said of saved connections holds of those that a run or a request to link
\* again has found and not yet written.
LinkInv ==
  /\ Link!TypeOK /\ Link!LinkIsItsWallet /\ OneAtWork(rActive, rJob)
  /\ \A c \in Link!Conns : c > rMade.conns => rSaved[c] = 0
  /\ \A r \in Link!Runs : rJob[r].at = "write" => Bound(rSaved, rMade, r, rJob[r].conn)
  /\ \A k \in Relinks :
       /\ rRelink[k].at # "none" => rRelink[k].run \in Link!Runs
       /\ rRelink[k].at = "write" => Bound(rSaved, rMade, rRelink[k].run, rRelink[k].conn)

LEMMA LinkInit == ASSUME LinkConstants, Link!Init PROVE LinkInv
<1>1. Link!TypeOK
  <2>1. 0 \in 0..MaxConns /\ 0 \in 0..MaxRuns
    BY DEF LinkConstants
  <2>2. Link!NoRow \in RowType /\ Link!Idle \in JobType
        /\ Link!NoLink \in [at: {"none", "save", "write"}, run: 0..MaxRuns, conn: 0..MaxConns]
    BY <2>1 DEF Link!NoRow, Link!Idle, Link!NoLink, RowType, JobType
  <2>3. [runs |-> 0, conns |-> 0] \in [runs: 0..MaxRuns, conns: 0..MaxConns]
    BY <2>1
  <2>4. rRow \in [Link!Runs -> RowType] /\ rJob \in [Link!Runs -> JobType]
    BY <2>2 DEF Link!Init
  <2>q. rQueue \in Seq(Link!Runs) /\ rActive = FALSE
    BY DEF Link!Init
  <2>5. rLate \subseteq Link!Runs
        /\ rPost \in [Posts -> BOOLEAN] /\ rSaved \in [Link!Conns -> 0..MaxRuns]
    BY <2>1 DEF Link!Init
  <2>6. rMade \in [runs: 0..MaxRuns, conns: 0..MaxConns]
        /\ rRelink \in [Relinks -> [at: {"none", "save", "write"}, run: 0..MaxRuns, conn: 0..MaxConns]]
    BY <2>2, <2>3 DEF Link!Init
  <2> QED
    BY <2>4, <2>q, <2>5, <2>6 DEF Link!TypeOK, RowType, JobType
<1>2. Link!LinkIsItsWallet /\ OneAtWork(rActive, rJob)
  BY DEF Link!Init, Link!LinkIsItsWallet, OneAtWork, Link!NoRow, Link!Idle
<1>3. \A r \in Link!Runs : rJob[r].at # "write"
  BY DEF Link!Init, Link!Idle
<1>4. \A k \in Relinks : rRelink[k].at = "none"
  BY DEF Link!Init, Link!NoLink
<1> QED
  BY <1>1, <1>2, <1>3, <1>4 DEF Link!Init, LinkInv

\* A set of numbers that has a member has a least one.
LEMMA LeastExists ==
  ASSUME NEW S \in SUBSET Nat, S # {}
  PROVE  \E m \in S : \A n \in S : m <= n
<1>1. PICK m \in S : \A n \in S : ~(<<n, m>> \in OpToRel(<, Nat))
  BY NatLessThanWellFounded, WFMin
<1>2. \A n \in S : ~(n < m)
  BY <1>1 DEF OpToRel
<1> QED
  BY <1>2

\* The newest of some runs is one of them.
LEMMA NewestIsOne ==
  ASSUME LinkConstants, NEW rs \in SUBSET Link!Runs, rs # {}
  PROVE  Link!Newest(rs) \in rs
<1> DEFINE T == {MaxRuns - r : r \in rs}
<1>1. T \in SUBSET Nat
  BY DEF LinkConstants, Link!Runs
<1>2. PICK r \in rs : TRUE
  OBVIOUS
<1>3. MaxRuns - r \in T
  OBVIOUS
<1> HIDE DEF T
<1>4. PICK t \in T : \A u \in T : t <= u
  BY <1>1, <1>3, LeastExists
<1>5. PICK m \in rs : t = MaxRuns - m
  BY <1>4 DEF T
<1>6. \A n \in rs : MaxRuns - m <= MaxRuns - n
  BY <1>4, <1>5 DEF T
<1>7. \A n \in rs : n <= m
  BY <1>6 DEF LinkConstants, Link!Runs
<1> QED
  BY <1>7 DEF Link!Newest

\* A drain keeps one run at a time: it takes one only if the flag is down.
LEMMA DrainKeeps ==
  ASSUME LinkConstants, NEW busy \in BOOLEAN, NEW q \in Seq(Link!Runs),
         NEW jobs \in [Link!Runs -> JobType], OneAtWork(busy, jobs), Link!Drain(busy, q, jobs)
  PROVE  /\ rActive' \in BOOLEAN /\ rQueue' \in Seq(Link!Runs)
         /\ rJob' \in [Link!Runs -> JobType] /\ OneAtWork(rActive', rJob')
         /\ \A r \in Link!Runs : rJob'[r].at = "write" => rJob'[r] = jobs[r]
<1>1. CASE Link!Takes(busy, q)
  <2>1. Head(q) \in Link!Runs /\ Tail(q) \in Seq(Link!Runs)
    BY <1>1 DEF Link!Takes
  <2>2. rActive' = TRUE /\ rQueue' = Tail(q)
        /\ rJob' = [jobs EXCEPT ![Head(q)] = [at |-> "starts", conn |-> 0]]
    BY <1>1 DEF Link!Drain, Link!Idle
  <2>3. ~busy
    BY <1>1 DEF Link!Takes
  <2>4. 0 \in 0..MaxConns
    BY DEF LinkConstants
  <2>5. rJob' \in [Link!Runs -> JobType]
    BY <2>1, <2>2, <2>4 DEF JobType
  <2>6. \A r \in Link!Runs : r # Head(q) => rJob'[r] = jobs[r] /\ rJob'[r].at = "none"
    BY <2>1, <2>2, <2>3 DEF OneAtWork
  <2>7. rJob'[Head(q)].at = "starts"
    BY <2>1, <2>2
  <2> QED
    BY <2>1, <2>2, <2>5, <2>6, <2>7 DEF OneAtWork
<1>2. CASE ~Link!Takes(busy, q)
  BY <1>2 DEF Link!Drain
<1> QED
  BY <1>1, <1>2

\* Writing a row keeps what is said of rows if the connection in it was there, or is
\* none, or is the wallet of its run.
LEMMA RowChanges ==
  ASSUME LinkInv, NEW r \in Link!Runs, NEW new \in RowType, rRow' = [rRow EXCEPT ![r] = new],
         new.conn \in {0, rRow[r].conn} \/ rSaved[new.conn] = r, UNCHANGED rSaved
  PROVE  rRow' \in [Link!Runs -> RowType] /\ Link!LinkIsItsWallet'
<1>1. rRow \in [Link!Runs -> RowType] /\ Link!LinkIsItsWallet
  BY DEF LinkInv, Link!TypeOK, RowType
<1> QED
  BY <1>1 DEF Link!LinkIsItsWallet

\* A run goes on to a step that is no write.
LEMMA JobGoes ==
  ASSUME LinkInv, NEW r \in Link!Runs, NEW at \in {"flow", "probe", "save", "fail"},
         rJob[r].at # "none", Link!Goes(r, at), UNCHANGED rActive
  PROVE  /\ rJob' \in [Link!Runs -> JobType] /\ OneAtWork(rActive', rJob')
         /\ \A x \in Link!Runs : rJob'[x].at = "write" => rJob'[x] = rJob[x]
<1>1. rJob \in [Link!Runs -> JobType] /\ OneAtWork(rActive, rJob)
  BY DEF LinkInv, Link!TypeOK, JobType
<1>2. rJob' = [rJob EXCEPT ![r] = [rJob[r] EXCEPT !.at = at]]
  BY DEF Link!Goes
<1>3. [rJob[r] EXCEPT !.at = at] \in JobType /\ [rJob[r] EXCEPT !.at = at].at = at
  BY <1>1 DEF JobType
<1>4. rJob' \in [Link!Runs -> JobType] /\ rJob'[r].at = at
      /\ \A x \in Link!Runs : x # r => rJob'[x] = rJob[x]
  BY <1>1, <1>2, <1>3
<1> QED
  BY <1>1, <1>4 DEF OneAtWork

\* A run is over and the next is taken.
LEMMA JobEnds ==
  ASSUME LinkConstants, LinkInv, NEW r \in Link!Runs, rJob[r].at # "none", Link!AfterRun(r)
  PROVE  /\ rActive' \in BOOLEAN /\ rQueue' \in Seq(Link!Runs)
         /\ rJob' \in [Link!Runs -> JobType] /\ OneAtWork(rActive', rJob')
         /\ \A x \in Link!Runs : rJob'[x].at = "write" => rJob'[x] = rJob[x]
<1> DEFINE jobs == [rJob EXCEPT ![r] = Link!Idle]
<1>1. rJob \in [Link!Runs -> JobType] /\ OneAtWork(rActive, rJob) /\ rQueue \in Seq(Link!Runs)
  BY DEF LinkInv, Link!TypeOK, JobType
<1>2. Link!Idle \in JobType /\ Link!Idle.at = "none"
  BY DEF Link!Idle, JobType, LinkConstants
<1>3. jobs \in [Link!Runs -> JobType] /\ \A x \in Link!Runs : jobs[x] \in {rJob[x], Link!Idle}
  BY <1>1, <1>2
<1>4. \A x \in Link!Runs : jobs[x].at = "none"
  BY <1>1, <1>2 DEF OneAtWork
<1>5. Link!Drain(FALSE, rQueue, jobs)
  BY DEF Link!AfterRun
<1> HIDE DEF jobs
<1>6. OneAtWork(FALSE, jobs)
  BY <1>4 DEF OneAtWork
<1>7. /\ rActive' \in BOOLEAN /\ rQueue' \in Seq(Link!Runs)
      /\ rJob' \in [Link!Runs -> JobType] /\ OneAtWork(rActive', rJob')
      /\ \A x \in Link!Runs : rJob'[x].at = "write" => rJob'[x] = jobs[x]
  BY <1>1, <1>3, <1>5, <1>6, DrainKeeps
<1> QED
  BY <1>4, <1>7

\* A run's progress is written, or the write fails unnoticed.
LEMMA ProgressWritten ==
  ASSUME LinkInv, NEW r \in Link!Runs, rRow' \in {rRow, Link!Progress(r)}, UNCHANGED rSaved
  PROVE  rRow' \in [Link!Runs -> RowType] /\ Link!LinkIsItsWallet'
<1>1. rRow \in [Link!Runs -> RowType] /\ Link!LinkIsItsWallet
  BY DEF LinkInv, Link!TypeOK, RowType
<1>2. CASE rRow' = rRow
  BY <1>1, <1>2 DEF Link!LinkIsItsWallet
<1>3. CASE rRow' = Link!Progress(r)
  <2> DEFINE new == [rRow[r] EXCEPT !.status = "running", !.stale = FALSE]
  <2>1. rRow' = [rRow EXCEPT ![r] = new]
    BY <1>1, <1>3 DEF Link!Progress
  <2>2. new \in RowType /\ new.conn = rRow[r].conn
    BY <1>1 DEF RowType
  <2> HIDE DEF new
  <2> QED
    BY <2>1, <2>2, RowChanges
<1> QED
  BY <1>2, <1>3

\* A connection is saved for the wallet of run w: everything found before stays true.
LEMMA ConnSaved ==
  ASSUME LinkConstants, LinkInv, NEW w \in Link!Runs, NEW c \in Link!Conns, c = rMade.conns + 1,
         rSaved' = [rSaved EXCEPT ![c] = w], rMade' = [rMade EXCEPT !.conns = c], UNCHANGED rRow
  PROVE  /\ rSaved' \in [Link!Conns -> 0..MaxRuns]
         /\ rMade' \in [runs: 0..MaxRuns, conns: 0..MaxConns]
         /\ Link!LinkIsItsWallet'
         /\ \A d \in Link!Conns : d > rMade'.conns => rSaved'[d] = 0
         /\ \A r \in Link!Runs, d \in Link!Conns : Bound(rSaved, rMade, r, d) => Bound(rSaved', rMade', r, d)
         /\ Bound(rSaved', rMade', w, c)
<1>1. rSaved \in [Link!Conns -> 0..MaxRuns] /\ rMade \in [runs: 0..MaxRuns, conns: 0..MaxConns]
      /\ rRow \in [Link!Runs -> RowType]
  BY DEF LinkInv, Link!TypeOK, RowType
<1>2. w \in 0..MaxRuns /\ c \in 0..MaxConns
  BY DEF LinkConstants, Link!Runs, Link!Conns
<1>3. rMade'.conns = c /\ rMade' \in [runs: 0..MaxRuns, conns: 0..MaxConns]
  BY <1>1, <1>2
<1>4. rSaved[c] = 0
  BY <1>1 DEF LinkInv, Link!Conns
<1>5. \A r \in Link!Runs : rRow[r].conn # 0 => rRow[r].conn \in Link!Conns
  BY <1>1 DEF RowType, Link!Conns, LinkConstants
<1>6. Link!LinkIsItsWallet'
  BY <1>1, <1>4, <1>5 DEF LinkInv, Link!LinkIsItsWallet, Link!Runs
<1>7. \A d \in Link!Conns : d > rMade'.conns => rSaved'[d] = 0
  BY <1>1, <1>3 DEF LinkInv, Link!Conns
<1>8. \A r \in Link!Runs, d \in Link!Conns : Bound(rSaved, rMade, r, d) => Bound(rSaved', rMade', r, d)
  BY <1>1, <1>3 DEF Bound, Link!Conns
<1>9. Bound(rSaved', rMade', w, c)
  BY <1>1, <1>3 DEF Bound, Link!Conns
<1> QED
  BY <1>1, <1>2, <1>3, <1>6, <1>7, <1>8, <1>9

LEMMA LinkStep ==
  ASSUME LinkConstants, LinkInv, [Link!Next]_(Link!vars)
  PROVE  LinkInv'
<1> USE DEF Link!process, Link!requests
<1> DEFINE RelinkType == [at: {"none", "save", "write"}, run: 0..MaxRuns, conn: 0..MaxConns]
<1>t. /\ rRow \in [Link!Runs -> RowType] /\ rJob \in [Link!Runs -> JobType]
      /\ rSaved \in [Link!Conns -> 0..MaxRuns] /\ rMade \in [runs: 0..MaxRuns, conns: 0..MaxConns]
      /\ rQueue \in Seq(Link!Runs) /\ rActive \in BOOLEAN /\ OneAtWork(rActive, rJob)
      /\ rLate \in SUBSET Link!Runs /\ rPost \in [Posts -> BOOLEAN]
      /\ rRelink \in [Relinks -> RelinkType]
  BY DEF LinkInv, Link!TypeOK, RowType, JobType
<1>1. ASSUME NEW p \in Posts, Link!PostChecks(p) PROVE LinkInv'
  BY <1>1 DEF Link!PostChecks, LinkInv, Link!TypeOK, Link!LinkIsItsWallet, Bound
<1>2. ASSUME NEW p \in Posts, Link!PostInserts(p) PROVE LinkInv'
  <2> DEFINE r == rMade.runs + 1
             new == [Link!NoRow EXCEPT !.status = "pending", !.young = TRUE]
  <2>1. r \in Link!Runs /\ Append(rQueue, r) \in Seq(Link!Runs)
    BY <1>2, <1>t DEF Link!PostInserts, LinkConstants, Link!Runs
  <2>2. Link!Drain(rActive, Append(rQueue, r), rJob)
    BY <1>2 DEF Link!PostInserts
  <2>q. rJob \in [Link!Runs -> JobType] /\ rActive \in BOOLEAN /\ OneAtWork(rActive, rJob)
    BY <1>t
  <2>3. /\ rActive' \in BOOLEAN /\ rQueue' \in Seq(Link!Runs)
        /\ rJob' \in [Link!Runs -> JobType] /\ OneAtWork(rActive', rJob')
        /\ \A x \in Link!Runs : rJob'[x].at = "write" => rJob'[x] = rJob[x]
    BY <2>q, <2>1, <2>2, DrainKeeps
  <2>4. rMade' = [rMade EXCEPT !.runs = r]
    BY <1>2 DEF Link!PostInserts
  <2>5. r \in 0..MaxRuns
    BY <2>1 DEF Link!Runs, LinkConstants
  <2>6. rMade' \in [runs: 0..MaxRuns, conns: 0..MaxConns] /\ rMade'.conns = rMade.conns
    BY <1>t, <2>4, <2>5
  <2>7. Link!NoRow \in RowType /\ Link!NoRow.conn = 0
    BY DEF Link!NoRow, RowType, LinkConstants
  <2>8. new \in RowType /\ new.conn = 0
    BY <2>7 DEF RowType
  <2>9. rRow' = [rRow EXCEPT ![r] = new]
    BY <1>2 DEF Link!PostInserts
  <2>10. rPost' \in [Posts -> BOOLEAN] /\ UNCHANGED <<rSaved, rLate, rRelink>>
    BY <1>2, <1>t DEF Link!PostInserts
  <2> HIDE DEF r, new
  <2>11. rRow' \in [Link!Runs -> RowType] /\ Link!LinkIsItsWallet'
    BY <2>1, <2>8, <2>9, <2>10, RowChanges
  <2> QED
    BY <1>t, <2>3, <2>6, <2>10, <2>11 DEF LinkInv, Link!TypeOK, RowType, JobType, Bound
<1>3. ASSUME NEW r \in Link!Runs, Link!Starts(r) \/ Link!StepSent(r) \/ Link!StepLands(r)
      PROVE  LinkInv'
  <2>1. CASE Link!Starts(r)
    <3>1. rRow' \in [Link!Runs -> RowType] /\ Link!LinkIsItsWallet'
      BY <2>1, ProgressWritten DEF Link!Starts
    <3>2. /\ rJob' \in [Link!Runs -> JobType] /\ OneAtWork(rActive', rJob')
          /\ \A x \in Link!Runs : rJob'[x].at = "write" => rJob'[x] = rJob[x]
      BY <2>1, JobGoes DEF Link!Starts
    <3> QED
      BY <2>1, <1>t, <3>1, <3>2 DEF Link!Starts, LinkInv, Link!TypeOK, RowType, JobType, Bound
  <2>2. CASE Link!StepSent(r)
    BY <2>2 DEF Link!StepSent, LinkInv, Link!TypeOK, Link!LinkIsItsWallet, Bound
  <2>3. CASE Link!StepLands(r)
    <3>1. rRow' \in [Link!Runs -> RowType] /\ Link!LinkIsItsWallet'
      BY <2>3, ProgressWritten DEF Link!StepLands
    <3> QED
      BY <2>3, <1>t, <3>1 DEF Link!StepLands, LinkInv, Link!TypeOK, RowType, JobType, Bound
  <2> QED
    BY <1>3, <2>1, <2>2, <2>3
<1>4. ASSUME NEW r \in Link!Runs, Link!FlowEnds(r) PROVE LinkInv'
  <2>1. PICK at \in {"flow", "probe", "save", "fail"} : Link!Goes(r, at)
    BY <1>4 DEF Link!FlowEnds
  <2>2. rJob[r].at # "none" /\ UNCHANGED <<rRow, rSaved, rMade, rQueue, rActive, rLate, rPost, rRelink>>
    BY <1>4 DEF Link!FlowEnds
  <2>3. /\ rJob' \in [Link!Runs -> JobType] /\ OneAtWork(rActive', rJob')
        /\ \A x \in Link!Runs : rJob'[x].at = "write" => rJob'[x] = rJob[x]
    BY <2>1, <2>2, JobGoes
  <2> QED
    BY <2>2, <1>t, <2>3 DEF LinkInv, Link!TypeOK, RowType, JobType, Bound, Link!LinkIsItsWallet
<1>5. ASSUME NEW r \in Link!Runs, Link!Saves(r) PROVE LinkInv'
  <2>1. PICK c \in Link!Conns : Link!Links(r, c) /\ rJob' = [rJob EXCEPT ![r] = [at |-> "write", conn |-> c]]
    BY <1>5 DEF Link!Saves
  <2>2. rJob[r].at = "save" /\ UNCHANGED <<rRow, rQueue, rActive, rLate, rPost, rRelink>>
    BY <1>5 DEF Link!Saves
  <2>3. c \in 0..MaxConns
    BY DEF Link!Conns, LinkConstants
  <2>4. rJob' \in [Link!Runs -> JobType]
    BY <1>t, <2>1, <2>3 DEF JobType
  <2>5. rJob'[r].at = "write" /\ rJob'[r].conn = c
        /\ \A x \in Link!Runs : x # r => rJob'[x] = rJob[x]
    BY <1>t, <2>1
  <2>6. OneAtWork(rActive', rJob')
    BY <1>t, <2>2, <2>5 DEF OneAtWork
  <2>7. /\ rSaved' \in [Link!Conns -> 0..MaxRuns]
        /\ rMade' \in [runs: 0..MaxRuns, conns: 0..MaxConns]
        /\ Link!LinkIsItsWallet'
        /\ \A d \in Link!Conns : d > rMade'.conns => rSaved'[d] = 0
        /\ \A x \in Link!Runs, d \in Link!Conns : Bound(rSaved, rMade, x, d) => Bound(rSaved', rMade', x, d)
        /\ Bound(rSaved', rMade', r, c)
    <3>1. CASE Link!Dup(r) # {}
      <4>1. c \in Link!Conns /\ rSaved[c] = r /\ UNCHANGED <<rSaved, rMade>>
        BY <2>1, <3>1 DEF Link!Links, Link!Dup
      <4>2. c <= rMade.conns
        BY <4>1, <1>t DEF LinkInv, Link!Runs, Link!Conns
      <4> QED
        BY <1>t, <2>2, <4>1, <4>2 DEF Bound, LinkInv, Link!LinkIsItsWallet
    <3>2. CASE Link!Dup(r) = {}
      BY <2>1, <2>2, <3>2, ConnSaved DEF Link!Links
    <3> QED
      BY <3>1, <3>2
  <2>8. \A x \in Link!Runs : rJob'[x].at = "write" => Bound(rSaved', rMade', x, rJob'[x].conn)
    <3>1. ASSUME NEW x \in Link!Runs, x # r, rJob'[x].at = "write"
          PROVE  Bound(rSaved', rMade', x, rJob'[x].conn)
      <4>1. Bound(rSaved, rMade, x, rJob[x].conn)
        BY <2>5, <3>1 DEF LinkInv
      <4>2. rJob[x].conn \in Link!Conns
        BY <4>1 DEF Bound
      <4> QED
        BY <2>5, <2>7, <3>1, <4>1, <4>2 DEF Bound
    <3>2. Bound(rSaved', rMade', r, rJob'[r].conn)
      BY <2>5, <2>7 DEF Bound
    <3> QED
      BY <3>1, <3>2
  <2>9. \A k \in Relinks : rRelink'[k].at = "write" => Bound(rSaved', rMade', rRelink'[k].run, rRelink'[k].conn)
    <3>1. ASSUME NEW k \in Relinks, rRelink'[k].at = "write"
          PROVE  Bound(rSaved', rMade', rRelink'[k].run, rRelink'[k].conn)
      <4>1. Bound(rSaved, rMade, rRelink[k].run, rRelink[k].conn) /\ rRelink[k].run \in Link!Runs
        BY <2>2, <3>1 DEF LinkInv
      <4>2. rRelink[k].conn \in Link!Conns
        BY <4>1 DEF Bound
      <4> QED
        BY <2>2, <2>7, <4>1, <4>2 DEF Bound
    <3> QED
      BY <3>1
  <2> QED
    BY <1>t, <2>2, <2>4, <2>6, <2>7, <2>8, <2>9 DEF LinkInv, Link!TypeOK, RowType, JobType
<1>6. ASSUME NEW r \in Link!Runs, Link!Writes(r) PROVE LinkInv'
  <2>1. CASE Link!Goes(r, "fail") /\ UNCHANGED <<rRow, rQueue, rActive>>
    <3>1. rJob[r].at # "none" /\ UNCHANGED <<rSaved, rMade, rLate, rPost, rRelink>>
      BY <1>6 DEF Link!Writes
    <3>2. /\ rJob' \in [Link!Runs -> JobType] /\ OneAtWork(rActive', rJob')
          /\ \A x \in Link!Runs : rJob'[x].at = "write" => rJob'[x] = rJob[x]
      BY <2>1, <3>1, JobGoes
    <3> QED
      BY <1>t, <2>1, <3>1, <3>2 DEF LinkInv, Link!TypeOK, RowType, JobType, Bound, Link!LinkIsItsWallet
  <2>2. CASE ~(Link!Goes(r, "fail") /\ UNCHANGED <<rRow, rQueue, rActive>>)
    <3> DEFINE new == [rRow[r] EXCEPT !.status = "done", !.stale = FALSE, !.uri = TRUE,
                                      !.conn = rJob[r].conn]
    <3>1. /\ rJob[r].at = "write" /\ rSaved[rJob[r].conn] # 0 /\ Link!AfterRun(r)
          /\ UNCHANGED <<rSaved, rMade, rLate, rPost, rRelink>>
      BY <1>6, <2>2 DEF Link!Writes
    <3>2. rRow' = [rRow EXCEPT ![r] = new]
      BY <1>6, <1>t, <2>2 DEF Link!Writes
    <3>3. rSaved[rJob[r].conn] = r
      BY <3>1 DEF LinkInv, Bound
    <3>4. rJob[r].conn \in 0..MaxConns
      BY <1>t DEF JobType
    <3>r. rRow[r] \in RowType
      BY <1>t
    <3>5. new \in RowType /\ new.conn = rJob[r].conn
      BY <3>r, <3>4 DEF RowType
    <3> HIDE DEF new
    <3>6. rRow' \in [Link!Runs -> RowType] /\ Link!LinkIsItsWallet'
      BY <3>1, <3>2, <3>3, <3>5, RowChanges
    <3>7. /\ rActive' \in BOOLEAN /\ rQueue' \in Seq(Link!Runs)
          /\ rJob' \in [Link!Runs -> JobType] /\ OneAtWork(rActive', rJob')
          /\ \A x \in Link!Runs : rJob'[x].at = "write" => rJob'[x] = rJob[x]
      BY <3>1, JobEnds
    <3> QED
      BY <1>t, <3>1, <3>6, <3>7 DEF LinkInv, Link!TypeOK, RowType, JobType, Bound
  <2> QED
    BY <2>1, <2>2
<1>7. ASSUME NEW r \in Link!Runs, Link!Fails(r) PROVE LinkInv'
  <2> DEFINE new == [rRow[r] EXCEPT !.status = "error", !.stale = FALSE]
  <2>1. /\ rJob[r].at # "none" /\ Link!AfterRun(r)
        /\ UNCHANGED <<rSaved, rMade, rLate, rPost, rRelink>>
    BY <1>7 DEF Link!Fails
  <2>2. rRow' = rRow \/ rRow' = [rRow EXCEPT ![r] = new]
    BY <1>7, <1>t DEF Link!Fails
  <2>r. rRow[r] \in RowType
    BY <1>t
  <2>3. new \in RowType /\ new.conn = rRow[r].conn
    BY <2>r DEF RowType
  <2> HIDE DEF new
  <2>4. rRow' \in [Link!Runs -> RowType] /\ Link!LinkIsItsWallet'
    BY <1>t, <2>1, <2>2, <2>3, RowChanges DEF LinkInv, Link!LinkIsItsWallet
  <2>5. /\ rActive' \in BOOLEAN /\ rQueue' \in Seq(Link!Runs)
        /\ rJob' \in [Link!Runs -> JobType] /\ OneAtWork(rActive', rJob')
        /\ \A x \in Link!Runs : rJob'[x].at = "write" => rJob'[x] = rJob[x]
    BY <2>1, JobEnds
  <2> QED
    BY <1>t, <2>1, <2>4, <2>5 DEF LinkInv, Link!TypeOK, RowType, JobType, Bound
<1>8. ASSUME NEW r \in Link!Runs, Link!GoesStale(r) \/ Link!Ages(r) PROVE LinkInv'
  <2>1. PICK new \in RowType : rRow' = [rRow EXCEPT ![r] = new] /\ new.conn = rRow[r].conn
    <3>1. CASE Link!GoesStale(r)
      <4> DEFINE n == [rRow[r] EXCEPT !.stale = TRUE]
      <4>r. rRow[r] \in RowType
        BY <1>t
      <4>1. n \in RowType /\ n.conn = rRow[r].conn
        BY <4>r DEF RowType
      <4>2. rRow' = [rRow EXCEPT ![r] = n]
        BY <3>1, <1>t DEF Link!GoesStale
      <4> QED
        BY <4>1, <4>2
    <3>2. CASE Link!Ages(r)
      <4> DEFINE n == [rRow[r] EXCEPT !.young = FALSE]
      <4>r. rRow[r] \in RowType
        BY <1>t
      <4>1. n \in RowType /\ n.conn = rRow[r].conn
        BY <4>r DEF RowType
      <4>2. rRow' = [rRow EXCEPT ![r] = n]
        BY <3>2, <1>t DEF Link!Ages
      <4> QED
        BY <4>1, <4>2
    <3> QED
      BY <1>8, <3>1, <3>2
  <2>2. UNCHANGED <<rSaved, rMade, rQueue, rActive, rJob, rLate, rPost, rRelink>>
    BY <1>8 DEF Link!GoesStale, Link!Ages
  <2>3. rRow' \in [Link!Runs -> RowType] /\ Link!LinkIsItsWallet'
    BY <2>1, <2>2, RowChanges
  <2> QED
    BY <1>t, <2>2, <2>3 DEF LinkInv, Link!TypeOK, RowType, JobType, Bound
<1>9. ASSUME NEW c \in Link!Conns, Link!Remove(c) PROVE LinkInv'
  <2>1. rSaved' = [rSaved EXCEPT ![c] = 0]
        /\ rRow' = [r \in Link!Runs |-> IF rRow[r].conn = c THEN [rRow[r] EXCEPT !.conn = 0] ELSE rRow[r]]
        /\ UNCHANGED <<rMade, rQueue, rActive, rJob, rLate, rPost, rRelink>>
    BY <1>9 DEF Link!Remove
  <2>2. 0 \in 0..MaxConns /\ 0 \in 0..MaxRuns
    BY DEF LinkConstants
  <2>r. \A x \in RowType : [x EXCEPT !.conn = 0] \in RowType /\ [x EXCEPT !.conn = 0].conn = 0
    BY <2>2 DEF RowType
  <2>3. \A r \in Link!Runs : [rRow[r] EXCEPT !.conn = 0] \in RowType /\ [rRow[r] EXCEPT !.conn = 0].conn = 0
    BY <1>t, <2>r
  <2>4. rRow' \in [Link!Runs -> RowType]
        /\ \A r \in Link!Runs : rRow'[r].conn # 0 => rRow'[r].conn = rRow[r].conn /\ rRow[r].conn # c
    BY <1>t, <2>1, <2>3
  <2>5. rSaved' \in [Link!Conns -> 0..MaxRuns] /\ rSaved'[c] = 0
        /\ \A d \in Link!Conns : d # c => rSaved'[d] = rSaved[d]
    BY <1>t, <2>1, <2>2
  <2>6. Link!LinkIsItsWallet'
    <3>1. ASSUME NEW r \in Link!Runs, rRow'[r].conn # 0 PROVE rSaved'[rRow'[r].conn] = r
      <4>1. rSaved[rRow[r].conn] = r /\ rRow[r].conn \in Link!Conns
        BY <1>t, <2>4, <3>1 DEF LinkInv, Link!LinkIsItsWallet, RowType, Link!Conns, LinkConstants
      <4> QED
        BY <2>4, <2>5, <3>1, <4>1
    <3> QED
      BY <3>1 DEF Link!LinkIsItsWallet
  <2>7. \A r, d : Bound(rSaved, rMade, r, d) => Bound(rSaved', rMade', r, d)
    BY <2>1, <2>5 DEF Bound
  <2>8. \A d \in Link!Conns : d > rMade'.conns => rSaved'[d] = 0
    BY <2>1, <2>5 DEF LinkInv
  <2>9. \A r \in Link!Runs : rJob'[r].at = "write" => Bound(rSaved', rMade', r, rJob'[r].conn)
    BY <2>1, <2>7 DEF LinkInv, Bound
  <2>10. \A k \in Relinks :
           /\ rRelink'[k].at # "none" => rRelink'[k].run \in Link!Runs
           /\ rRelink'[k].at = "write" => Bound(rSaved', rMade', rRelink'[k].run, rRelink'[k].conn)
    BY <2>1, <2>7 DEF LinkInv, Bound
  <2> QED
    BY <1>t, <2>1, <2>4, <2>5, <2>6, <2>8, <2>9, <2>10 DEF LinkInv, Link!TypeOK, RowType, JobType
<1>10. ASSUME NEW k \in Relinks, Link!RelinkReads(k) PROVE LinkInv'
  <2> DEFINE rs == {r \in Link!Runs : rRow[r].status = "done" /\ rRow[r].conn = 0 /\ rRow[r].uri}
             r == Link!Newest(rs)
             c == CHOOSE c \in Link!Dup(r) : TRUE
             new == IF Link!Dup(r) = {} THEN [Link!NoLink EXCEPT !.at = "save", !.run = r]
                    ELSE [at |-> "write", run |-> r, conn |-> c]
  <2>1. rs \in SUBSET Link!Runs /\ rs # {}
    BY <1>10 DEF Link!RelinkReads
  <2>2. rRelink' = [rRelink EXCEPT ![k] = new]
        /\ UNCHANGED <<rRow, rSaved, rMade, rQueue, rActive, rJob, rLate, rPost>>
    BY <1>10 DEF Link!RelinkReads
  <2> HIDE DEF rs
  <2>3. r \in Link!Runs
    BY <2>1, NewestIsOne
  <2>4. r \in 0..MaxRuns /\ r # 0
    BY <2>3 DEF Link!Runs, LinkConstants
  <2> HIDE DEF r
  <2>5. new \in RelinkType /\ new.run = r /\ (new.at = "write" => Bound(rSaved, rMade, new.run, new.conn))
    <3>1. CASE Link!Dup(r) = {}
      <4>1. Link!NoLink \in RelinkType
        BY DEF Link!NoLink, LinkConstants
      <4> HIDE DEF c
      <4> QED
        BY <2>4, <3>1, <4>1
    <3>2. CASE Link!Dup(r) # {}
      <4>1. c \in Link!Dup(r)
        BY <3>2
      <4> HIDE DEF c
      <4>2. c \in Link!Conns /\ rSaved[c] = r
        BY <4>1 DEF Link!Dup
      <4>3. c <= rMade.conns
        BY <1>t, <2>4, <4>2 DEF LinkInv, Link!Conns
      <4>4. c \in 0..MaxConns
        BY <4>2 DEF Link!Conns, LinkConstants
      <4>5. new = [at |-> "write", run |-> r, conn |-> c]
        BY <3>2
      <4> QED
        BY <2>4, <4>2, <4>3, <4>4, <4>5 DEF Bound
    <3> QED
      BY <3>1, <3>2
  <2> HIDE DEF new
  <2>6. rRelink' \in [Relinks -> RelinkType]
    BY <1>t, <2>2, <2>5
  <2>7. \A j \in Relinks : rRelink'[j] = IF j = k THEN new ELSE rRelink[j]
    BY <1>t, <2>2
  <2>8. \A j \in Relinks :
          /\ rRelink'[j].at # "none" => rRelink'[j].run \in Link!Runs
          /\ rRelink'[j].at = "write" => Bound(rSaved', rMade', rRelink'[j].run, rRelink'[j].conn)
    BY <2>2, <2>3, <2>5, <2>7 DEF LinkInv, Bound
  <2> QED
    BY <1>t, <2>2, <2>6, <2>8 DEF LinkInv, Link!TypeOK, RowType, JobType, Bound, Link!LinkIsItsWallet
<1>11. ASSUME NEW k \in Relinks, Link!RelinkSaves(k) PROVE LinkInv'
  <2> DEFINE c == rMade.conns + 1
             w == rRelink[k].run
             new == [rRelink[k] EXCEPT !.at = "write", !.conn = c]
  <2>1. /\ rRelink[k].at = "save" /\ c \in Link!Conns /\ rSaved' = [rSaved EXCEPT ![c] = w]
        /\ rMade' = [rMade EXCEPT !.conns = c]
        /\ UNCHANGED <<rRow, rQueue, rActive, rJob, rLate, rPost>>
    BY <1>11 DEF Link!RelinkSaves
  <2>2. rRelink' = [rRelink EXCEPT ![k] = new]
    BY <1>11, <1>t DEF Link!RelinkSaves
  <2>3. w \in Link!Runs
    BY <2>1 DEF LinkInv
  <2>4. c \in 0..MaxConns
    BY <2>1 DEF Link!Conns, LinkConstants
  <2>5. new \in RelinkType /\ new.run = w /\ new.conn = c
    BY <1>t, <2>4
  <2>c. c = rMade.conns + 1
    OBVIOUS
  <2> HIDE DEF new, w, c
  <2>6. /\ rSaved' \in [Link!Conns -> 0..MaxRuns]
        /\ rMade' \in [runs: 0..MaxRuns, conns: 0..MaxConns]
        /\ Link!LinkIsItsWallet'
        /\ \A d \in Link!Conns : d > rMade'.conns => rSaved'[d] = 0
        /\ \A x \in Link!Runs, d \in Link!Conns : Bound(rSaved, rMade, x, d) => Bound(rSaved', rMade', x, d)
        /\ Bound(rSaved', rMade', w, c)
    BY <2>1, <2>3, <2>c, ConnSaved
  <2>7. rRelink' \in [Relinks -> RelinkType]
        /\ \A j \in Relinks : rRelink'[j] = IF j = k THEN new ELSE rRelink[j]
    BY <1>t, <2>2, <2>5
  <2>8. ASSUME NEW j \in Relinks
        PROVE  /\ rRelink'[j].at # "none" => rRelink'[j].run \in Link!Runs
               /\ rRelink'[j].at = "write" => Bound(rSaved', rMade', rRelink'[j].run, rRelink'[j].conn)
    <3>1. CASE j = k
      BY <2>3, <2>5, <2>6, <2>7, <3>1 DEF Bound
    <3>2. CASE j # k
      <4>1. rRelink'[j] = rRelink[j]
        BY <2>7, <3>2
      <4>2. rRelink[j].at = "write" =>
              Bound(rSaved, rMade, rRelink[j].run, rRelink[j].conn) /\ rRelink[j].conn \in Link!Conns
        BY DEF LinkInv, Bound
      <4>3. rRelink[j].at # "none" => rRelink[j].run \in Link!Runs
        BY DEF LinkInv
      <4> QED
        BY <2>6, <4>1, <4>2, <4>3 DEF Bound
    <3> QED
      BY <3>1, <3>2
  <2>9. ASSUME NEW r \in Link!Runs, rJob'[r].at = "write" PROVE Bound(rSaved', rMade', r, rJob'[r].conn)
    <3>1. Bound(rSaved, rMade, r, rJob[r].conn) /\ rJob[r].conn \in Link!Conns
      BY <2>1, <2>9 DEF LinkInv, Bound
    <3> QED
      BY <2>1, <2>6, <3>1 DEF Bound
  <2> QED
    BY <1>t, <2>1, <2>6, <2>7, <2>8, <2>9 DEF LinkInv, Link!TypeOK, RowType, JobType
<1>12. ASSUME NEW k \in Relinks, Link!RelinkFails(k) PROVE LinkInv'
  <2>1. Link!NoLink \in RelinkType /\ Link!NoLink.at = "none"
    BY DEF Link!NoLink, LinkConstants
  <2>2. rRelink' = [rRelink EXCEPT ![k] = Link!NoLink]
        /\ UNCHANGED <<rRow, rSaved, rMade, rQueue, rActive, rJob, rLate, rPost>>
    BY <1>12 DEF Link!RelinkFails
  <2>3. rRelink' \in [Relinks -> RelinkType]
        /\ \A j \in Relinks : rRelink'[j] = rRelink[j] \/ rRelink'[j].at = "none"
    BY <1>t, <2>1, <2>2
  <2> QED
    BY <1>t, <2>2, <2>3 DEF LinkInv, Link!TypeOK, RowType, JobType, Bound, Link!LinkIsItsWallet
<1>13. ASSUME NEW k \in Relinks, Link!RelinkWrites(k) PROVE LinkInv'
  <2> DEFINE r == rRelink[k].run
             c == rRelink[k].conn
             new == [rRow[r] EXCEPT !.conn = c, !.stale = FALSE]
  <2>1. Link!NoLink \in RelinkType /\ Link!NoLink.at = "none"
    BY DEF Link!NoLink, LinkConstants
  <2>2. rRelink' = [rRelink EXCEPT ![k] = Link!NoLink] /\ rRelink[k].at = "write"
        /\ UNCHANGED <<rSaved, rMade, rQueue, rActive, rJob, rLate, rPost>>
    BY <1>13 DEF Link!RelinkWrites
  <2>3. rRelink' \in [Relinks -> RelinkType]
        /\ \A j \in Relinks : rRelink'[j] = rRelink[j] \/ rRelink'[j].at = "none"
    BY <1>t, <2>1, <2>2
  <2>4. r \in Link!Runs /\ rSaved[c] \in {0, r} /\ c \in Link!Conns
    BY <2>2 DEF LinkInv, Bound
  <2>5. rRow' = rRow \/ (rSaved[c] # 0 /\ rRow' = [rRow EXCEPT ![r] = new])
    BY <1>13, <1>t, <2>4 DEF Link!RelinkWrites
  <2>r. rRow[r] \in RowType /\ c \in 0..MaxConns
    BY <1>t, <2>4 DEF Link!Conns, LinkConstants
  <2>6. new \in RowType /\ new.conn = c
    BY <2>r DEF RowType
  <2> HIDE DEF r, c, new
  <2>7. rRow' \in [Link!Runs -> RowType] /\ Link!LinkIsItsWallet'
    <3>1. CASE rRow' = rRow
      BY <1>t, <2>2, <3>1 DEF LinkInv, Link!LinkIsItsWallet
    <3>2. CASE rSaved[c] # 0 /\ rRow' = [rRow EXCEPT ![r] = new]
      BY <2>2, <2>4, <2>6, <3>2, RowChanges
    <3> QED
      BY <2>5, <3>1, <3>2
  <2> QED
    BY <1>t, <2>2, <2>3, <2>7 DEF LinkInv, Link!TypeOK, RowType, JobType, Bound
<1>14. CASE Link!Restart
  <2>1. Link!Idle \in JobType /\ Link!Idle.at = "none"
    BY DEF Link!Idle, JobType, LinkConstants
  <2>2. Link!NoLink \in RelinkType /\ Link!NoLink.at = "none"
    BY DEF Link!NoLink, LinkConstants
  <2>3. /\ rQueue' = <<>> /\ rActive' = FALSE /\ rJob' = [r \in Link!Runs |-> Link!Idle]
        /\ rLate' = {} /\ rPost' = [p \in Posts |-> FALSE]
        /\ rRelink' = [k \in Relinks |-> Link!NoLink] /\ UNCHANGED <<rRow, rSaved, rMade>>
    BY <1>14 DEF Link!Restart
  <2>4. rJob' \in [Link!Runs -> JobType] /\ OneAtWork(rActive', rJob')
        /\ \A r \in Link!Runs : rJob'[r].at = "none"
    BY <2>1, <2>3 DEF OneAtWork
  <2>5. rRelink' \in [Relinks -> RelinkType] /\ \A k \in Relinks : rRelink'[k].at = "none"
    BY <2>2, <2>3
  <2>q. rQueue' \in Seq(Link!Runs) /\ rActive' = FALSE
    BY <2>3
  <2>6. rLate' \in SUBSET Link!Runs /\ rPost' \in [Posts -> BOOLEAN]
    BY <2>3
  <2>7. Link!TypeOK'
    BY <1>t, <2>3, <2>4, <2>5, <2>q, <2>6 DEF Link!TypeOK, RowType, JobType
  <2> QED
    BY <2>3, <2>4, <2>5, <2>7 DEF LinkInv, Link!LinkIsItsWallet
<1>15. CASE UNCHANGED Link!vars
  BY <1>15 DEF Link!vars, LinkInv, Link!TypeOK, Link!LinkIsItsWallet, Bound
<1> QED
  BY <1>1, <1>2, <1>3, <1>4, <1>5, <1>6, <1>7, <1>8, <1>9, <1>10, <1>11, <1>12, <1>13, <1>14, <1>15
     DEF Link!Next, Link!JobStep

-----------------------------------------------------------------------------
(* One run of the flow *)

FlowConstants == Addresses \in Nat /\ Clicks \in Nat /\ Polls \in Nat

\* What each stretch of the run has open: nothing before the connection, no page and no
\* account before the page, and no context the browser was not told of after the finally.
FlowOpen ==
  /\ fAt \in {"inbox", "session", "connect"} =>
       fConn = "none" /\ fContext = "none" /\ fAccount = "none"
  /\ fAt = "context" => fConn = "open" /\ fContext = "none" /\ fAccount = "none"
  /\ fAt = "page" => fConn = "open" /\ fContext \in {"held", "returned"} /\ fAccount = "none"
  /\ fAt \in Flow!Drives \cup {"closeTarget", "dispose"} =>
       fConn = "open" /\ fContext \in {"held", "returned"}
  /\ fAt = "closeConn" => fContext \in {"returned", "refused"}
  /\ fAt = "ended" =>
       fConn # "open" /\ (fAccount # "none" => fContext \in {"returned", "refused"})

FlowInv == Flow!TypeOK /\ FlowOpen

LEMMA FlowInit == ASSUME FlowConstants, Flow!Init PROVE FlowInv
<1>1. fTries \in 0..(Addresses + Clicks + 2) /\ fLeft \in 0..Polls
  BY DEF FlowConstants, Flow!Init
<1>2. Flow!TypeOK
  BY <1>1 DEF Flow!Init, Flow!TypeOK
<1> QED
  BY <1>2 DEF Flow!Init, FlowInv, FlowOpen, Flow!Drives, Flow!Waits

\* How a step goes on: to the next step, or to one more try of the same.
LEMMA FlowGoes ==
  ASSUME FlowConstants, Flow!TypeOK, NEW to,
         Flow!Go(to) \/ (Flow!Again(to) /\ (fTries = 0 \/ fTries < Clicks \/ fTries + 1 < Addresses))
  PROVE  fAt' = to /\ fTries' \in 0..(Addresses + Clicks + 2) /\ fLeft' \in 0..Polls
  BY DEF FlowConstants, Flow!TypeOK, Flow!Go, Flow!Again

LEMMA FlowTypeStep ==
  ASSUME FlowConstants, Flow!TypeOK, [Flow!Next]_(Flow!vars)
  PROVE  Flow!TypeOK'
<1> USE DEF Flow!browser, Flow!site
<1>1. CASE Flow!Inbox \/ Flow!Session
  BY <1>1, FlowGoes DEF Flow!Inbox, Flow!Session, Flow!Refuse, Flow!TypeOK
<1>2. CASE Flow!Connect \/ Flow!OpenContext \/ Flow!OpenPage
  BY <1>2, FlowGoes DEF Flow!Connect, Flow!OpenContext, Flow!OpenPage, Flow!OpenFails, Flow!Refuse,
                        Flow!TypeOK, Flow!Drives
<1>3. CASE Flow!Look
  <2>1. fLeft' \in 0..Polls
    BY <1>3 DEF Flow!Look, Flow!LookedOnce, Flow!TypeOK, FlowConstants
  <2> QED
    BY <1>3, <2>1 DEF Flow!Look, Flow!TypeOK
<1>4. CASE Flow!CommandFails \/ Flow!SubmitUnanswered
  BY <1>4 DEF Flow!CommandFails, Flow!SubmitUnanswered, Flow!Throw, Flow!TypeOK
<1>5. CASE Flow!Signup \/ Flow!BotCheck \/ Flow!Submitted \/ Flow!Mail \/ Flow!Verified
  BY <1>5, FlowGoes DEF Flow!Signup, Flow!BotCheck, Flow!Submitted, Flow!Mail, Flow!Verified,
                        Flow!Throw, Flow!TypeOK, Flow!Drives, Flow!Waits
<1>6. CASE Flow!Submit \/ Flow!FollowLink
  BY <1>6, FlowGoes DEF Flow!Submit, Flow!FollowLink, Flow!TypeOK, Flow!Drives, Flow!Waits
<1>7. CASE Flow!OpenToken \/ Flow!ReadCode
  <2>1. fLeft' \in 0..Polls
    BY <1>7 DEF Flow!OpenToken, Flow!ReadCode, Flow!Throw, Flow!TypeOK, FlowConstants
  <2> QED
    BY <1>7, <2>1 DEF Flow!OpenToken, Flow!ReadCode, Flow!Throw, Flow!TypeOK, Flow!Drives, Flow!Waits
<1>8. CASE Flow!Exchange
  <2>1. fWallet' \in BOOLEAN /\ UNCHANGED <<fUp, fConn, fContext, fAccount>>
    BY <1>8 DEF Flow!Exchange, Flow!TypeOK
  <2>2. CASE fAt' = "closeTarget" /\ UNCHANGED <<fTries, fLeft>> /\ fResult' \in {"wallet", "error"}
    BY <2>1, <2>2 DEF Flow!TypeOK
  <2>3. CASE fTries = 0 /\ Flow!Again("token") /\ UNCHANGED fResult
    <3>1. fAt' = "token" /\ fTries' \in 0..(Addresses + Clicks + 2) /\ fLeft' \in 0..Polls
      BY <2>3, FlowGoes
    <3> QED
      BY <2>1, <2>3, <3>1 DEF Flow!TypeOK, Flow!Drives
  <2> QED
    BY <1>8, <2>2, <2>3 DEF Flow!Exchange, Flow!Throw
<1>9. CASE Flow!CloseTarget \/ Flow!DisposeContext \/ Flow!CloseConn
  BY <1>9 DEF Flow!CloseTarget, Flow!DisposeContext, Flow!Dispose, Flow!CloseConn, Flow!TypeOK
<1>10. CASE Flow!BrowserGoes
  BY <1>10 DEF Flow!BrowserGoes, Flow!TypeOK
<1>11. CASE UNCHANGED Flow!vars
  BY <1>11 DEF Flow!vars, Flow!TypeOK
<1> QED
  BY <1>1, <1>2, <1>3, <1>4, <1>5, <1>6, <1>7, <1>8, <1>9, <1>10, <1>11
     DEF Flow!Next, Flow!Step, Flow!Ended

LEMMA FlowOpenStep ==
  ASSUME FlowOpen, [Flow!Next]_(Flow!vars)
  PROVE  FlowOpen'
<1> USE DEF Flow!browser, Flow!site, FlowOpen, Flow!Drives, Flow!Waits
<1>1. CASE Flow!Inbox \/ Flow!Session
  BY <1>1 DEF Flow!Inbox, Flow!Session, Flow!Refuse, Flow!Go, Flow!Again
<1>2. CASE Flow!Connect \/ Flow!OpenContext \/ Flow!OpenPage
  BY <1>2 DEF Flow!Connect, Flow!OpenContext, Flow!OpenPage, Flow!OpenFails, Flow!Refuse, Flow!Go
<1>3. CASE Flow!Look
  BY <1>3 DEF Flow!Look
<1>4. CASE Flow!CommandFails \/ Flow!SubmitUnanswered
  BY <1>4 DEF Flow!CommandFails, Flow!SubmitUnanswered, Flow!Throw
<1>5. CASE Flow!Signup \/ Flow!BotCheck \/ Flow!Submitted \/ Flow!Mail \/ Flow!Verified
  BY <1>5 DEF Flow!Signup, Flow!BotCheck, Flow!Submitted, Flow!Mail, Flow!Verified, Flow!Throw,
              Flow!Go, Flow!Again
<1>6. CASE Flow!Submit \/ Flow!FollowLink
  BY <1>6 DEF Flow!Submit, Flow!FollowLink, Flow!Go
<1>7. CASE Flow!OpenToken \/ Flow!ReadCode
  BY <1>7 DEF Flow!OpenToken, Flow!ReadCode, Flow!Throw
<1>8. CASE Flow!Exchange
  BY <1>8 DEF Flow!Exchange, Flow!Throw, Flow!Again
<1>9. CASE Flow!CloseTarget \/ Flow!DisposeContext \/ Flow!CloseConn
  BY <1>9 DEF Flow!CloseTarget, Flow!DisposeContext, Flow!Dispose, Flow!CloseConn
<1>10. CASE Flow!BrowserGoes
  BY <1>10 DEF Flow!BrowserGoes
<1>11. CASE UNCHANGED Flow!vars
  BY <1>11 DEF Flow!vars
<1> QED
  BY <1>1, <1>2, <1>3, <1>4, <1>5, <1>6, <1>7, <1>8, <1>9, <1>10, <1>11
     DEF Flow!Next, Flow!Step, Flow!Ended

LEMMA FlowStep ==
  ASSUME FlowConstants, FlowInv, [Flow!Next]_(Flow!vars)
  PROVE  FlowInv'
  BY FlowTypeStep, FlowOpenStep DEF FlowInv

-----------------------------------------------------------------------------
(* The subscription *)

NotifyConstants == MaxPause \in Nat

LEMMA NotifyInit == ASSUME NotifyConstants, Notify!Init PROVE Notify!TypeOK
<1>1. nPause \in 0..MaxPause
  BY DEF NotifyConstants, Notify!Init
<1> QED
  BY <1>1 DEF Notify!Init, Notify!TypeOK

LEMMA NotifyStep ==
  ASSUME NotifyConstants, Notify!TypeOK, [Notify!Next]_(Notify!vars)
  PROVE  Notify!TypeOK'
<1> USE DEF Notify!TypeOK
<1>1. CASE Notify!Start \/ Notify!Stop \/ Notify!Relay \/ UNCHANGED Notify!vars
  BY <1>1 DEF Notify!Start, Notify!Stop, Notify!Relay, Notify!vars
<1>2. CASE Notify!Subscribes
  BY <1>2 DEF Notify!Subscribes, NotifyConstants
<1>3. CASE Notify!SubscribeFails
  <2>1. Notify!Doubled \in 0..MaxPause
    BY DEF Notify!Doubled, NotifyConstants
  <2>2. Notify!ScheduleRetry \in {"none", "set", "spent"}
    BY DEF Notify!ScheduleRetry
  <2> QED
    BY <1>3, <2>1, <2>2 DEF Notify!SubscribeFails
<1>4. CASE Notify!TimerFires
  BY <1>4 DEF Notify!TimerFires, Notify!Fired
<1> QED
  BY <1>1, <1>2, <1>3, <1>4 DEF Notify!Next, Notify!Step

-----------------------------------------------------------------------------
(* Looks for payments while an account is read *)

LookConstants == MaxLooks \in Nat

\* The look that runs is the one that reads join.
LookInv ==
  /\ Look!TypeOK /\ Look!ParallelReadsSeeIt
  /\ lRunning = IF lJoined = 0 THEN {} ELSE {lJoined}
  /\ \A r \in Reads : lRead[r].beside <= lLooks

LEMMA LookInit == ASSUME LookConstants, Look!Init PROVE LookInv
<1>1. 0 \in 0..MaxLooks
  BY DEF LookConstants
<1>2. \A r \in Reads : lRead[r] = Look!Early
  BY DEF Look!Init
<1>3. Look!Early \in [at: {"early", "waits", "late", "answered"}, on: 0..MaxLooks, beside: 0..MaxLooks]
      /\ Look!Early.beside = 0 /\ Look!Early.at = "early"
  BY <1>1 DEF Look!Early
<1>4. lRead \in [Reads -> [at: {"early", "waits", "late", "answered"},
                         on: 0..MaxLooks, beside: 0..MaxLooks]]
  BY <1>3 DEF Look!Init
<1>5. lLooks = 0 /\ lRunning = {} /\ lJoined = 0 /\ lRecent = FALSE
  BY DEF Look!Init
<1>6. Look!TypeOK
  BY <1>1, <1>4, <1>5 DEF Look!TypeOK
<1> QED
  BY <1>2, <1>3, <1>5, <1>6 DEF LookInv, Look!ParallelReadsSeeIt

LEMMA LookStep ==
  ASSUME LookConstants, LookInv, [Look!Next]_(Look!vars)
  PROVE  LookInv'
<1> DEFINE ReadType == [at: {"early", "waits", "late", "answered"}, on: 0..MaxLooks, beside: 0..MaxLooks]
<1>1. CASE Look!DebouncePasses \/ UNCHANGED Look!vars
  BY <1>1 DEF Look!DebouncePasses, Look!vars, LookInv, Look!TypeOK, Look!ParallelReadsSeeIt
<1>2. ASSUME NEW r \in Reads, Look!Ask(r) PROVE LookInv'
  <2>1. lJoined \in 0..MaxLooks /\ lJoined <= lLooks
    BY DEF LookInv, Look!TypeOK, LookConstants
  <2>2. CASE Look!Joins
    <3>1. lRead' = [lRead EXCEPT ![r] = [at |-> "waits", on |-> lJoined, beside |-> lJoined]]
          /\ UNCHANGED <<lLooks, lRunning, lJoined, lRecent>>
      BY <1>2, <2>2 DEF Look!Ask
    <3>2. [at |-> "waits", on |-> lJoined, beside |-> lJoined] \in ReadType
      BY <2>1
    <3>3. lRead' \in [Reads -> ReadType]
      BY <3>1, <3>2 DEF LookInv, Look!TypeOK
    <3>4. \A s \in Reads : \/ lRead'[s] = lRead[s]
                           \/ lRead'[s].at = "waits" /\ lRead'[s].beside = lJoined
      BY <3>1 DEF LookInv, Look!TypeOK
    <3> QED
      BY <2>1, <3>1, <3>3, <3>4 DEF LookInv, Look!TypeOK, Look!ParallelReadsSeeIt
  <2>3. CASE ~Look!Joins /\ lRecent
    <3>1. lRead' = [lRead EXCEPT ![r] = [at |-> "answered", on |-> 0, beside |-> lJoined]]
          /\ UNCHANGED <<lLooks, lRunning, lJoined, lRecent>>
      BY <1>2, <2>3 DEF Look!Ask
    <3>2. lRunning = {} /\ lJoined = 0
      BY <2>3 DEF Look!Joins, LookInv
    <3>3. [at |-> "answered", on |-> 0, beside |-> lJoined] \in ReadType
      BY <2>1, <3>2
    <3>4. lRead' \in [Reads -> ReadType]
      BY <3>1, <3>3 DEF LookInv, Look!TypeOK
    <3>5. \A s \in Reads : lRead'[s] = lRead[s] \/ lRead'[s].beside = 0
      BY <3>1, <3>2 DEF LookInv, Look!TypeOK
    <3> QED
      BY <2>1, <3>1, <3>2, <3>4, <3>5 DEF LookInv, Look!TypeOK, Look!ParallelReadsSeeIt
  <2>4. CASE ~Look!Joins /\ ~lRecent
    <3>1. /\ lRead' = [lRead EXCEPT ![r] = [at |-> "waits", on |-> lLooks + 1, beside |-> lJoined]]
          /\ lLooks < MaxLooks /\ lLooks' = lLooks + 1
          /\ lRunning' = lRunning \union {lLooks + 1} /\ lJoined' = lLooks + 1 /\ lRecent' = TRUE
      BY <1>2, <2>4 DEF Look!Ask
    <3>2. lRunning' = {lLooks + 1} /\ lJoined = 0
      BY <2>4, <3>1 DEF Look!Joins, LookInv
    <3>3. lLooks \in 0..MaxLooks /\ lLooks + 1 \in 0..MaxLooks /\ lLooks + 1 # 0
      BY <3>1 DEF LookInv, Look!TypeOK, LookConstants
    <3>4. [at |-> "waits", on |-> lLooks + 1, beside |-> lJoined] \in ReadType
      BY <2>1, <3>3
    <3>5. lRead' \in [Reads -> ReadType]
      BY <3>1, <3>4 DEF LookInv, Look!TypeOK
    <3>6. \A s \in Reads : lRead'[s].beside <= lLooks
      BY <2>1, <3>1 DEF LookInv, Look!TypeOK
    <3>7. Look!TypeOK'
      BY <3>1, <3>2, <3>3, <3>5 DEF Look!TypeOK
    <3>8. Look!ParallelReadsSeeIt'
      BY <3>2, <3>3, <3>5, <3>6 DEF Look!ParallelReadsSeeIt
    <3>9. \A s \in Reads : lRead'[s].beside <= lLooks'
      BY <3>1, <3>3, <3>5, <3>6
    <3> QED
      BY <3>1, <3>2, <3>3, <3>7, <3>8, <3>9 DEF LookInv
  <2> QED
    BY <2>2, <2>3, <2>4
<1>3. ASSUME NEW r \in Reads, Look!TimeIsUp(r) PROVE LookInv'
  <2> DEFINE new == [lRead[r] EXCEPT !.at = "late"]
  <2>1. lRead' = [lRead EXCEPT ![r] = new] /\ UNCHANGED <<lLooks, lRunning, lJoined, lRecent>>
    BY <1>3 DEF Look!TimeIsUp, LookInv, Look!TypeOK
  <2>2. new \in ReadType /\ new.at = "late" /\ new.beside = lRead[r].beside
    BY DEF LookInv, Look!TypeOK
  <2> HIDE DEF new
  <2>3. lRead' \in [Reads -> ReadType]
        /\ \A s \in Reads : /\ lRead'[s].beside = lRead[s].beside
                            /\ lRead'[s].at \in {lRead[s].at, "late"}
    BY <2>1, <2>2 DEF LookInv, Look!TypeOK
  <2> QED
    BY <2>1, <2>3 DEF LookInv, Look!TypeOK, Look!ParallelReadsSeeIt
<1>4. ASSUME NEW l \in 1..MaxLooks, Look!Ends(l) PROVE LookInv'
  <2>1. /\ l \in lRunning /\ lRunning' = lRunning \ {l} /\ lJoined' = 0
        /\ lRead' = [r \in Reads |-> IF lRead[r].at = "waits" /\ lRead[r].on = l
                                     THEN [lRead[r] EXCEPT !.at = "answered"] ELSE lRead[r]]
        /\ UNCHANGED <<lLooks, lRecent>>
    BY <1>4 DEF Look!Ends
  <2>2. lRunning' = {}
    BY <2>1 DEF LookInv
  <2>3. \A r \in Reads : [lRead[r] EXCEPT !.at = "answered"] \in ReadType
                         /\ [lRead[r] EXCEPT !.at = "answered"].beside = lRead[r].beside
    BY DEF LookInv, Look!TypeOK
  <2>4. lRead' \in [Reads -> ReadType] /\ \A r \in Reads : lRead'[r].beside = lRead[r].beside
    BY <2>1, <2>3 DEF LookInv, Look!TypeOK
  <2> QED
    BY <2>1, <2>2, <2>4 DEF LookInv, Look!TypeOK, Look!ParallelReadsSeeIt
<1> QED
  BY <1>1, <1>2, <1>3, <1>4 DEF Look!Next

-----------------------------------------------------------------------------
(* Requests for an allowance *)

\* What the SDK was given is what the wallet did, and what the wallet did stays done.
AllowInv ==
  /\ Allow!TypeOK /\ Allow!ToldIsTrue
  /\ \A r \in Requests :
       /\ aReply[r] = "ok" => aWallet[r] = "allowed"
       /\ aReply[r] = "GFY" => aWallet[r] = "declined"
       /\ aWallet[r] = "allowed" => aAllowed

LEMMA AllowInit == ASSUME Allow!Init PROVE AllowInv
  BY DEF Allow!Init, AllowInv, Allow!TypeOK, Allow!ToldIsTrue, Allow!Sent

LEMMA AllowStep ==
  ASSUME AllowInv, [Allow!Next]_(Allow!vars)
  PROVE  AllowInv'
<1> USE DEF AllowInv, Allow!TypeOK, Allow!ToldIsTrue, Allow!Sent
<1>1. ASSUME NEW r \in Requests, Allow!Ask(r) PROVE AllowInv'
  BY <1>1 DEF Allow!Ask
<1>2. ASSUME NEW r \in Requests, Allow!Arrives(r) \/ Allow!Approves(r) \/ Allow!Declines(r)
      PROVE  AllowInv'
  <2>1. CASE Allow!Arrives(r)
    BY <2>1 DEF Allow!Arrives
  <2>2. CASE Allow!Approves(r)
    BY <2>2 DEF Allow!Approves
  <2>3. CASE Allow!Declines(r)
    BY <2>3 DEF Allow!Declines
  <2> QED
    BY <1>2, <2>1, <2>2, <2>3
<1>3. ASSUME NEW r \in Requests, Allow!Replies(r) \/ Allow!SocketFails(r) PROVE AllowInv'
  BY <1>3 DEF Allow!Replies, Allow!SocketFails
<1>4. ASSUME NEW r \in Requests, Allow!Answered(r) \/ Allow!Expires(r) PROVE AllowInv'
  BY <1>4 DEF Allow!Answered, Allow!Expires, Allow!Told, Allow!Stopped, Allow!Authorizes
<1>5. CASE UNCHANGED Allow!vars
  BY <1>5 DEF Allow!vars
<1> QED
  BY <1>1, <1>2, <1>3, <1>4, <1>5 DEF Allow!Next

-----------------------------------------------------------------------------
(* The six side by side *)

WaitsConstants ==
  SendConstants /\ LinkConstants /\ FlowConstants /\ NotifyConstants /\ LookConstants

WaitsInv == SendInv /\ LinkInv /\ FlowInv /\ Notify!TypeOK /\ LookInv /\ AllowInv

\* A step of the whole is a step of one component at most.
LEMMA OneMoves ==
  ASSUME [WaitsNext]_all
  PROVE  /\ [Send!Next]_(Send!vars) /\ [Link!Next]_(Link!vars) /\ [Flow!Next]_(Flow!vars)
         /\ [Notify!Next]_(Notify!vars) /\ [Look!Next]_(Look!vars) /\ [Allow!Next]_(Allow!vars)
  BY DEF WaitsNext, Step, Rest, all, Send!vars, sendVars, Link!vars, linkVars, Flow!vars, flowVars,
         Notify!vars, notifyVars, Look!vars, lookVars, Allow!vars, allowVars

LEMMA SpecWaitsInv == ASSUME WaitsConstants PROVE WaitsFairSpec => []WaitsInv
<1>1. WaitsInit => WaitsInv
  BY SendInit, LinkInit, FlowInit, NotifyInit, LookInit, AllowInit
     DEF WaitsConstants, WaitsInit, WaitsInv
<1>2. WaitsInv /\ [WaitsNext]_all => WaitsInv'
  BY OneMoves, SendStep, LinkStep, FlowStep, NotifyStep, LookStep, AllowStep
     DEF WaitsConstants, WaitsInv
<1> QED
  BY <1>1, <1>2, PTL DEF WaitsFairSpec

-----------------------------------------------------------------------------
(* Theorems *)

\* Every component's state has its type.
THEOREM SpecTypesOK == ASSUME WaitsConstants PROVE WaitsFairSpec => []TypesOK
<1>1. WaitsInv => TypesOK
  BY DEF WaitsInv, SendInv, LinkInv, FlowInv, LookInv, AllowInv, TypesOK
<1> QED
  BY <1>1, SpecWaitsInv, PTL

\* A row of a payment out of a Blink or CLINK wallet says completed only if the wallet
\* paid and failed only if it never will, a holder is credited and a withdrawal claimed
\* only for what was paid; a merchant is told of an allowance what the wallet did. This
\* holds however requests, replies, sweeps, deadlines and restarts interleave.
THEOREM SpecVerdictsAreTrue == ASSUME WaitsConstants PROVE WaitsFairSpec => []VerdictsAreTrue
<1>1. WaitsInv => VerdictsAreTrue
  BY DEF WaitsInv, SendInv, AllowInv, VerdictsAreTrue
<1> QED
  BY <1>1, SpecWaitsInv, PTL

\* One run at a time has the browser, a row points at its own run's wallet although
\* connections are removed and linked again meanwhile, and a run that got as far as a
\* page closes its connection and tells the browser to give up its context.
THEOREM SpecRunsKeepApart == ASSUME WaitsConstants PROVE WaitsFairSpec => []RunsKeepApart
<1>1. WaitsInv => RunsKeepApart
  BY DEF WaitsInv, LinkInv, FlowInv, FlowOpen, OneAtWork, RunsKeepApart, Link!RunsAreSerial,
         Flow!LeavesNothingOpen
<1> QED
  BY <1>1, SpecWaitsInv, PTL

\* A read that came while a look ran is not answered before that look has ended, unless
\* its own time was up, and there is one look at a time.
THEOREM SpecParallelReadsSeeIt == ASSUME WaitsConstants PROVE WaitsFairSpec => []ParallelReadsSeeIt
<1>1. WaitsInv => ParallelReadsSeeIt
  BY DEF WaitsInv, LookInv, ParallelReadsSeeIt
<1> QED
  BY <1>1, SpecWaitsInv, PTL

\* A send out of a Blink or CLINK wallet implements PayCall: whoever hears what of the
\* request, and whoever writes the row, the verdict is true and final, and a request that
\* arrives after its sender gave up is not of a send that was failed.
THEOREM SpecSendKeepsPromise == ASSUME WaitsConstants PROVE WaitsFairSpec => SendKeepsPromise
<1>1. WaitsInit => Send!SendPromise!Init
  BY SendStarts DEF WaitsInit
<1>2. WaitsInv /\ WaitsInv' /\ [WaitsNext]_all
        => [Send!SendPromise!Next]_(Send!SendPromise!vars)
  BY OneMoves, SendMoves DEF WaitsInv
<1> QED
  BY <1>1, <1>2, SpecWaitsInv, PTL
     DEF WaitsFairSpec, SendKeepsPromise, Send!SendKeepsPromise, Send!SendPromise!Spec

=============================================================================
