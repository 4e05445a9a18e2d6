--------------------------- MODULE NwcClientProofs ---------------------------
(***************************************************************************)
(* A pay call reaches the wallet once at most, and what its row says is    *)
(* what the wallet did: for any number of pay calls and reads that share   *)
(* one connection.                                                         *)
(*                                                                         *)
(* Both rest on what the client knows of a request.  A call that may still *)
(* be tried has not been delivered (Untried): the errors after which a pay *)
(* call is tried again are raised before delivery.  A call that is over is *)
(* never delivered again unless a relay kept it (late), and a row is old   *)
(* only when no relay has (OldRowsAreQuiet).  So a row that says failed is *)
(* of a payment the wallet refused, or of a call that can no longer become *)
(* one (FailedForGood).  From the same facts the client implements PayCall.*)
(***************************************************************************)
EXTENDS NwcClient, TLAPS

\* A call is a payment or a read, and "none" is the sweep at rest.
NwcConstants == Pays \intersect Reads = {} /\ "none" \notin Pays

\* What a call and the reconciler may be doing.
CallType == [at: {"idle", "open", "wait", "backoff", "ok", "failed"}, try: 0..2,
             live: BOOLEAN, nip04: BOOLEAN, pinned: BOOLEAN]
SweepType == [of: Pays \union {"none"}, step: {"none", "hash", "invoice", "list", "again"}]

USE DEF CallType, SweepType

\* The attempts of a call that has one before it.
Tries ==
  \A c \in Calls : /\ call[c].at = "idle" => call[c].try = 0
                   /\ call[c].at = "backoff" => call[c].try = 1

\* The reconciler is at a row as long as it has a step to take.
AtARow == sweep.step # "none" => sweep.of \in Pays

ClientTypes == ClientTypeOK /\ Tries /\ AtARow

\* Call p may still be sent: no request of it was delivered or is on its way.
Untried(p) == call[p].at \in {"idle", "open", "backoff"} => asked[p] = 0 /\ p \notin late

\* One delivery at most, of which the one a relay kept is the last.
OneRequest(p) == asked[p] \in {0, 1} /\ (asked[p] = 1 => p \notin late)

\* The wallet has a record of p's own only if it was asked.
AskedIfMine(p) == mine[p] => asked[p] = 1 /\ wallet[p] # "none"

\* An old row's call is over and no relay has its request.
OldRowsAreQuiet(p) == aged[p] => call[p].at = "failed" /\ p \notin late

\* Only an old row gets to the second opinion.
SecondIsOld == sweep.step = "again" => aged[sweep.of]

\* Nothing of p is with the wallet, nor will be.
NeverSent(p) == call[p].at = "failed" /\ p \notin late /\ ~mine[p]

FailedForGood(p) == row[p] = "failed" => wallet[p] = "failed" \/ NeverSent(p)

CompletedIsPaid(p) == row[p] = "completed" => wallet[p] = "paid"

PayInv(p) ==
  /\ Untried(p) /\ OneRequest(p) /\ AskedIfMine(p) /\ OldRowsAreQuiet(p)
  /\ FailedForGood(p) /\ CompletedIsPaid(p)

ClientInv == ClientTypes /\ SecondIsOld /\ \A p \in Pays : PayInv(p)

-----------------------------------------------------------------------------
(* What a failure does *)

LEMMA IdleType ==
  /\ NoCall \in CallType /\ NoCall.at = "idle" /\ NoCall.try = 0
  /\ \A at \in {"ok", "failed"} :
       /\ [NoCall EXCEPT !.at = at] \in CallType
       /\ [NoCall EXCEPT !.at = at].at = at /\ [NoCall EXCEPT !.at = at].try = 0
  <1>1. NoCall \in CallType /\ NoCall.at = "idle" /\ NoCall.try = 0
    BY DEF NoCall
  <1> QED
    BY <1>1

\* A call that fails backs off or is over; it backs off only from its first
\* attempt and on an error that allows it, and the others lose a connection at
\* most.
LEMMA FailsEffect ==
  ASSUME ClientTypes, NEW c \in Calls, NEW err \in Errors, Fails(c, err)
  PROVE  /\ call' \in [Calls -> CallType]
         /\ \A d \in Calls \ {c} : call'[d].at = call[d].at /\ call'[d].try = call[d].try
         /\ \/ /\ call'[c].at = "backoff" /\ call'[c].try = 1
               /\ PinsNow(err) \/ MayRetry(c, err)
               /\ row' = row
            \/ call'[c].at = "failed" /\ call'[c].try = 0 /\ row' = RowAfter(c, err)
         /\ client' = "none" /\ pin' \in BOOLEAN /\ cooldown' \in BOOLEAN
         /\ UNCHANGED <<veil, aged, sweep>>
  <1> DEFINE again == call[c].try = 1 /\ (PinsNow(err) \/ MayRetry(c, err))
             back == [Evicted[c] EXCEPT !.at = "backoff", !.live = FALSE, !.pinned = PinsNow(err)]
             over == [NoCall EXCEPT !.at = "failed"]
             new == IF again THEN back ELSE over
  <1>1. call \in [Calls -> CallType]
    BY DEF ClientTypes, ClientTypeOK
  <1>2. Evicted \in [Calls -> CallType]
        /\ \A d \in Calls : Evicted[d].at = call[d].at /\ Evicted[d].try = call[d].try
    BY <1>1 DEF Evicted
  <1>3. call' = [Evicted EXCEPT ![c] = new]
    BY <1>2 DEF Fails
  <1>4. PinsNow(err) \in BOOLEAN
    BY DEF PinsNow
  <1>5. /\ new \in CallType
        /\ again => new.at = "backoff" /\ new.try = 1
        /\ ~again => new.at = "failed" /\ new.try = 0
    <2>1. back \in CallType /\ back.at = "backoff" /\ back.try = Evicted[c].try
      BY <1>2, <1>4
    <2>2. over \in CallType /\ over.at = "failed" /\ over.try = 0
      BY IdleType
    <2>3. again => Evicted[c].try = 1
      BY <1>2
    <2> HIDE DEF again, back, over
    <2> QED
      BY <2>1, <2>2, <2>3
  <1>6. call' \in [Calls -> CallType] /\ call'[c] = new
        /\ \A d \in Calls \ {c} : call'[d] = Evicted[d]
    <2> HIDE DEF new
    <2> QED
      BY <1>2, <1>3, <1>5
  <1>7. row' = IF again THEN row ELSE RowAfter(c, err)
    BY DEF Fails
  <1>8. /\ client' = "none" /\ pin' \in BOOLEAN /\ cooldown' \in BOOLEAN
        /\ UNCHANGED <<veil, aged, sweep>>
    BY <1>1, <1>4 DEF Fails, ClientTypes, ClientTypeOK
  <1> HIDE DEF new
  <1> QED
    BY <1>2, <1>5, <1>6, <1>7, <1>8

\* An attempt opens the call and counts.
LEMMA AttemptEffect ==
  ASSUME ClientTypes, NEW c \in Calls, call[c].at \in {"idle", "backoff"}, Attempt(c)
  PROVE  /\ call' \in [Calls -> CallType]
         /\ \A d \in Calls \ {c} : call'[d] = call[d]
         /\ call'[c].at = "open" /\ client' \in {"plain", "nip04"}
  <1>1. call \in [Calls -> CallType] /\ client \in {"none", "plain", "nip04"}
    BY DEF ClientTypes, ClientTypeOK
  <1>2. call[c].try + 1 \in 0..2
    BY DEF ClientTypes, Tries
  <1>3. (GetClient = "nip04") \in BOOLEAN
    OBVIOUS
  <1>4. call' \in [Calls -> CallType] /\ call'[c].at = "open"
        /\ \A d \in Calls \ {c} : call'[d] = call[d]
    BY <1>1, <1>2, <1>3 DEF Attempt
  <1>5. client' \in {"plain", "nip04"}
    BY <1>1 DEF Attempt, GetClient
  <1> QED
    BY <1>4, <1>5

\* A delivery counts, and makes a record of the call's own unless there is one.
LEMMA DeliveredEffect ==
  ASSUME ClientTypes, NEW c \in Calls, Delivered(c)
  PROVE  /\ asked' \in [Calls -> Nat] /\ asked'[c] = asked[c] + 1
         /\ \A d \in Calls \ {c} : asked'[d] = asked[d]
         /\ wallet' \in [Pays -> {"none", "pending", "paid", "failed"}]
         /\ mine' \in [Pays -> BOOLEAN]
         /\ \A p \in Pays \ {c} : wallet'[p] = wallet[p] /\ mine'[p] = mine[p]
         /\ c \in Pays =>
              \/ wallet[c] = "none" /\ wallet'[c] = "pending" /\ mine'[c]
              \/ wallet[c] # "none" /\ wallet'[c] = wallet[c] /\ mine'[c] = mine[c]
  <1>1. asked' \in [Calls -> Nat] /\ asked'[c] = asked[c] + 1
        /\ \A d \in Calls \ {c} : asked'[d] = asked[d]
    BY DEF Delivered, ClientTypes, ClientTypeOK
  <1>2. CASE c \in Pays /\ wallet[c] = "none"
    BY <1>1, <1>2 DEF Delivered, ClientTypes, ClientTypeOK
  <1>3. CASE ~(c \in Pays /\ wallet[c] = "none")
    BY <1>1, <1>3 DEF Delivered, ClientTypes, ClientTypeOK
  <1> QED
    BY <1>2, <1>3

\* A verdict decides a pending row, of one payment.
LEMMA DecidedEffect ==
  ASSUME ClientTypes, NEW p \in Pays, NEW state
  PROVE  /\ Decided(p, state) \in [Pays -> {"pending", "completed", "failed"}]
         /\ \A q \in Pays \ {p} : Decided(p, state)[q] = row[q]
         /\ \/ Decided(p, state)[p] = row[p]
            \/ state = "paid" /\ Decided(p, state)[p] = "completed"
            \/ state = "failed" /\ Decided(p, state)[p] = "failed"
  BY DEF Decided, ClientTypes, ClientTypeOK

\* A failed call's row says failed only of a payment, after an error that proves it.
LEMMA RowAfterEffect ==
  ASSUME ClientTypes, NEW c \in Calls, NEW err \in Errors
  PROVE  /\ RowAfter(c, err) \in [Pays -> {"pending", "completed", "failed"}]
         /\ \A q \in Pays \ {c} : RowAfter(c, err)[q] = row[q]
         /\ c \in Pays =>
              \/ RowAfter(c, err)[c] = row[c]
              \/ err \notin Ambiguous /\ RowAfter(c, err)[c] = "failed"
  <1>1. CASE c \in Pays /\ err \notin Ambiguous
    BY <1>1, DecidedEffect DEF RowAfter
  <1>2. CASE ~(c \in Pays /\ err \notin Ambiguous)
    BY <1>2 DEF RowAfter, ClientTypes, ClientTypeOK
  <1> QED
    BY <1>1, <1>2

-----------------------------------------------------------------------------
(* The invariant *)

LEMMA ClientInitInv == ASSUME NwcConstants PROVE ClientInit => ClientInv
<1> SUFFICES ASSUME ClientInit PROVE ClientInv
  OBVIOUS
<1>1. NoCall.at = "idle" /\ NoCall.try = 0 /\ NoCall \in CallType
  BY IdleType
<1>2. ClientTypes
  BY <1>1 DEF ClientInit, ClientTypes, ClientTypeOK, Tries, AtARow, NoSweep
<1>3. \A p \in Pays : PayInv(p)
  BY <1>1 DEF ClientInit, PayInv, Untried, OneRequest, AskedIfMine, OldRowsAreQuiet, FailedForGood,
              CompletedIsPaid, Calls
<1>4. SecondIsOld
  BY DEF ClientInit, SecondIsOld, NoSweep
<1> QED
  BY <1>2, <1>3, <1>4 DEF ClientInv

\* A payment that a step leaves alone keeps its part of the invariant.
LEMMA Undisturbed ==
  ASSUME NEW p \in Pays, PayInv(p), UNCHANGED <<call[p].at, asked[p], wallet[p], mine[p], row[p],
                                                aged[p]>>,
         p \in late' <=> p \in late
  PROVE  PayInv(p)'
  BY DEF PayInv, Untried, OneRequest, AskedIfMine, OldRowsAreQuiet, FailedForGood, NeverSent,
         CompletedIsPaid

\* An attempt: what may still be sent has not been.
LEMMA AttemptStep ==
  ASSUME ClientInv, NEW c \in Calls, Begin(c) \/ Retry(c)
  PROVE  ClientInv'
  <1>1. /\ call[c].at \in {"idle", "backoff"} /\ Attempt(c)
        /\ UNCHANGED <<pin, veil, cooldown, late, asked, wallet, mine, row, aged, sweep>>
    BY DEF Begin, Retry
  <1>2. ClientTypes /\ Pays \subseteq Calls
    BY DEF ClientInv, Calls
  <1>3. ClientTypes'
    <2>1. /\ call' \in [Calls -> CallType] /\ client' \in {"plain", "nip04"}
          /\ call'[c].at = "open" /\ \A d \in Calls \ {c} : call'[d] = call[d]
      BY <1>1, <1>2, AttemptEffect
    <2>2. ClientTypeOK'
      BY <1>1, <1>2, <2>1 DEF ClientTypes, ClientTypeOK
    <2>3. Tries' /\ AtARow'
      BY <1>1, <1>2, <2>1 DEF ClientTypes, Tries, AtARow
    <2> QED
      BY <2>2, <2>3 DEF ClientTypes
  <1>4. SecondIsOld'
    BY <1>1 DEF ClientInv, SecondIsOld
  <1>5. ASSUME NEW p \in Pays PROVE PayInv(p)'
    <2>1. CASE p # c
      <3>1. call'[p] = call[p]
        BY <1>1, <1>2, <2>1, AttemptEffect
      <3> QED
        BY <1>1, <3>1, Undisturbed DEF ClientInv
    <2>2. CASE p = c
      <3>1. call'[p].at = "open"
        BY <1>1, <1>2, <2>2, AttemptEffect
      <3>2. PayInv(p) /\ call[p].at # "failed"
        BY <1>1, <2>2 DEF ClientInv
      <3> QED
        BY <1>1, <2>2, <3>1, <3>2
        DEF PayInv, Untried, OneRequest, AskedIfMine, OldRowsAreQuiet, FailedForGood, NeverSent,
            CompletedIsPaid
    <2> QED
      BY <2>1, <2>2
  <1> QED
    BY <1>3, <1>4, <1>5 DEF ClientInv

\* Whatever a failure leaves of the request, types stay.
LEMMA FailsTypes ==
  ASSUME ClientTypes, NEW c \in Calls, NEW err \in Errors, Fails(c, err),
         asked' \in [Calls -> Nat], late' \in SUBSET Pays, mine' \in [Pays -> BOOLEAN],
         wallet' \in [Pays -> {"none", "pending", "paid", "failed"}]
  PROVE  ClientTypes'
  <1>1. row' \in [Pays -> {"pending", "completed", "failed"}]
    BY FailsEffect, RowAfterEffect DEF ClientTypes, ClientTypeOK
  <1>2. /\ client' \in {"none", "plain", "nip04"} /\ pin' \in BOOLEAN /\ cooldown' \in BOOLEAN
        /\ UNCHANGED <<veil, aged, sweep>>
        /\ call' \in [Calls -> CallType]
    BY FailsEffect
  <1>3. ClientTypeOK'
    BY <1>1, <1>2 DEF ClientTypes, ClientTypeOK
  <1>4. Tries'
    <2>1. /\ \A d \in Calls \ {c} : call'[d].at = call[d].at /\ call'[d].try = call[d].try
          /\ \/ call'[c].at = "backoff" /\ call'[c].try = 1
             \/ call'[c].at = "failed"
      BY FailsEffect
    <2> QED
      BY <2>1 DEF ClientTypes, Tries
  <1>5. AtARow'
    BY <1>2 DEF ClientTypes, AtARow
  <1> QED
    BY <1>3, <1>4, <1>5 DEF ClientTypes

\* A failed call leaves the payments of others as they were.
LEMMA FailsElsewhere ==
  ASSUME ClientInv, NEW c \in Calls, NEW err \in Errors, Fails(c, err), NEW p \in Pays \ {c},
         UNCHANGED <<asked[p], wallet[p], mine[p]>>, p \in late' <=> p \in late
  PROVE  PayInv(p)'
  <1>1. ClientTypes /\ PayInv(p) /\ p \in Calls \ {c}
    BY DEF ClientInv, Calls
  <1>2. call'[p].at = call[p].at /\ UNCHANGED aged
    BY <1>1, FailsEffect
  <1>3. row'[p] = row[p]
    BY <1>1, FailsEffect, RowAfterEffect
  <1> QED
    BY <1>1, <1>2, <1>3, Undisturbed

\* A failure before the request was delivered: the call may be tried again, or its
\* row says failed of a payment the wallet was never asked for.
LEMMA FailsToSendStep ==
  ASSUME ClientInv, NEW c \in Calls, FailsToSend(c)
  PROVE  ClientInv'
  <1>1. PICK err \in PreSend : Fails(c, err)
    BY DEF FailsToSend
  <1>2. /\ call[c].at = "open" /\ UNCHANGED <<late, asked, wallet, mine>>
        /\ err \in Errors
    BY <1>1 DEF FailsToSend, PreSend, Errors
  <1>3. ClientTypes /\ Pays \subseteq Calls
    BY DEF ClientInv, Calls
  <1>4. ClientTypes'
    BY <1>1, <1>2, <1>3, FailsTypes DEF ClientTypes, ClientTypeOK
  <1>5. UNCHANGED <<aged, sweep>>
    BY <1>1, <1>2, <1>3, FailsEffect
  <1>6. SecondIsOld'
    BY <1>5 DEF ClientInv, SecondIsOld
  <1>7. ASSUME NEW p \in Pays PROVE PayInv(p)'
    <2>1. CASE p # c
      BY <1>1, <1>2, <2>1, FailsElsewhere
    <2>2. CASE p = c
      <3>1. \/ call'[p].at = "backoff" /\ row' = row
            \/ call'[p].at = "failed" /\ row'[p] \in {row[p], "failed"}
        BY <1>1, <1>2, <1>3, <2>2, FailsEffect, RowAfterEffect
      <3>2. PayInv(p) /\ call[p].at = "open"
        BY <1>2, <2>2 DEF ClientInv
      <3>3. asked[p] = 0 /\ p \notin late /\ ~mine[p] /\ ~aged[p]
        BY <3>2 DEF PayInv, Untried, AskedIfMine, OldRowsAreQuiet
      <3>4. row[p] = "failed" => wallet[p] = "failed"
        BY <3>2 DEF PayInv, FailedForGood, NeverSent
      <3>5. Untried(p)' /\ OneRequest(p)' /\ AskedIfMine(p)' /\ OldRowsAreQuiet(p)'
        BY <1>2, <1>5, <3>3 DEF Untried, OneRequest, AskedIfMine, OldRowsAreQuiet
      <3>6. FailedForGood(p)'
        BY <1>2, <3>1, <3>3, <3>4 DEF FailedForGood, NeverSent
      <3>7. CompletedIsPaid(p)'
        BY <1>2, <3>1, <3>2 DEF PayInv, CompletedIsPaid
      <3> QED
        BY <3>5, <3>6, <3>7 DEF PayInv
    <2> QED
      BY <2>1, <2>2
  <1> QED
    BY <1>4, <1>6, <1>7 DEF ClientInv

\* A request that is delivered: the first, of a call that waits for its answer.
LEMMA PublishStep ==
  ASSUME ClientInv, NEW c \in Calls, Publish(c)
  PROVE  ClientInv'
  <1>1. /\ call[c].at = "open" /\ Delivered(c) /\ call' = [call EXCEPT ![c].at = "wait"]
        /\ UNCHANGED <<client, pin, veil, cooldown, late, row, aged, sweep>>
    BY DEF Publish
  <1>2. ClientTypes /\ Pays \subseteq Calls
    BY DEF ClientInv, Calls
  <1>3. /\ call' \in [Calls -> CallType]
        /\ call'[c].at = "wait" /\ \A d \in Calls \ {c} : call'[d] = call[d]
    <2> DEFINE new == [call[c] EXCEPT !.at = "wait"]
    <2>1. call \in [Calls -> CallType]
      BY <1>2 DEF ClientTypes, ClientTypeOK
    <2>2. new \in CallType /\ new.at = "wait"
      BY <2>1
    <2>3. call' = [call EXCEPT ![c] = new]
      BY <1>1
    <2> HIDE DEF new
    <2> QED
      BY <2>1, <2>2, <2>3
  <1>4. ClientTypes'
    <2>1. ClientTypeOK'
      <3>1. /\ asked' \in [Calls -> Nat] /\ mine' \in [Pays -> BOOLEAN]
            /\ wallet' \in [Pays -> {"none", "pending", "paid", "failed"}]
        BY <1>1, <1>2, DeliveredEffect
      <3> QED
        BY <1>1, <1>2, <1>3, <3>1 DEF ClientTypes, ClientTypeOK
    <2>2. Tries' /\ AtARow'
      BY <1>1, <1>2, <1>3 DEF ClientTypes, Tries, AtARow
    <2> QED
      BY <2>1, <2>2 DEF ClientTypes
  <1>5. SecondIsOld'
    BY <1>1 DEF ClientInv, SecondIsOld
  <1>6. ASSUME NEW p \in Pays PROVE PayInv(p)'
    <2>1. CASE p # c
      <3>1. UNCHANGED <<asked[p], wallet[p], mine[p], call[p]>>
        BY <1>1, <1>2, <1>3, <2>1, DeliveredEffect
      <3> QED
        BY <1>1, <3>1, Undisturbed DEF ClientInv
    <2>2. CASE p = c
      <3>1. /\ asked'[p] = asked[p] + 1
            /\ \/ wallet[p] = "none" /\ wallet'[p] = "pending" /\ mine'[p]
               \/ wallet[p] # "none" /\ wallet'[p] = wallet[p] /\ mine'[p] = mine[p]
        BY <1>1, <1>2, <2>2, DeliveredEffect
      <3>2. PayInv(p) /\ call[p].at = "open" /\ call'[p].at = "wait"
        BY <1>1, <1>3, <2>2 DEF ClientInv
      <3>3. asked[p] = 0 /\ p \notin late /\ ~aged[p]
        BY <3>2 DEF PayInv, Untried, OldRowsAreQuiet
      <3>4. row[p] = "failed" => wallet[p] = "failed"
        BY <3>2 DEF PayInv, FailedForGood, NeverSent
      <3>5. Untried(p)' /\ OneRequest(p)' /\ AskedIfMine(p)' /\ OldRowsAreQuiet(p)'
        BY <1>1, <3>1, <3>2, <3>3 DEF Untried, OneRequest, AskedIfMine, OldRowsAreQuiet
      <3>6. FailedForGood(p)' /\ CompletedIsPaid(p)'
        BY <1>1, <3>1, <3>2, <3>4 DEF PayInv, FailedForGood, CompletedIsPaid
      <3> QED
        BY <3>5, <3>6 DEF PayInv
    <2> QED
      BY <2>1, <2>2
  <1> QED
    BY <1>4, <1>5, <1>6 DEF ClientInv

\* A pay call that fails after its request may have left is over, and its row says
\* failed only if the wallet said so.
LEMMA FailsSent ==
  ASSUME ClientInv, NEW p \in Pays, NEW err \in Errors \ PreSend, Fails(p, err)
  PROVE  /\ call'[p].at = "failed" /\ UNCHANGED <<aged, sweep>>
         /\ row'[p] = row[p] \/ (err = "refused" /\ row'[p] = "failed")
  <1>1. ClientTypes /\ p \in Calls
    BY DEF ClientInv, Calls
  <1>2. ~PinsNow(err) /\ ~MayRetry(p, err)
    BY DEF PinsNow, MayRetry, PreSend
  <1>3. err \in Ambiguous \/ err = "refused"
    BY DEF Errors, PreSend, Ambiguous, Unheard
  <1> QED
    BY <1>1, <1>2, <1>3, FailsEffect, RowAfterEffect

\* The relay's acknowledgement does not come: the call is over, delivered or not.
LEMMA PublishTimesOutStep ==
  ASSUME ClientInv, NEW c \in Calls, PublishTimesOut(c)
  PROVE  ClientInv'
  <1> DEFINE err == "publishTimeout"
  <1>1. /\ call[c].at = "open" /\ Fails(c, err) /\ err \in Errors \ PreSend
        /\ \/ Delivered(c) /\ UNCHANGED late
           \/ /\ late' \in {late, late \union ({c} \intersect Pays)}
              /\ UNCHANGED <<asked, wallet, mine>>
    BY DEF PublishTimesOut, Errors, PreSend, Unheard
  <1> HIDE DEF err
  <1>2. ClientTypes /\ Pays \subseteq Calls
    BY DEF ClientInv, Calls
  <1>3. /\ asked' \in [Calls -> Nat] /\ late' \in SUBSET Pays /\ mine' \in [Pays -> BOOLEAN]
        /\ wallet' \in [Pays -> {"none", "pending", "paid", "failed"}]
    <2>1. CASE Delivered(c) /\ UNCHANGED late
      BY <1>2, <2>1, DeliveredEffect DEF ClientTypes, ClientTypeOK
    <2>2. CASE /\ late' \in {late, late \union ({c} \intersect Pays)}
               /\ UNCHANGED <<asked, wallet, mine>>
      BY <1>2, <2>2 DEF ClientTypes, ClientTypeOK
    <2> QED
      BY <1>1, <2>1, <2>2
  <1>4. ClientTypes'
    BY <1>1, <1>2, <1>3, FailsTypes
  <1>5. UNCHANGED <<aged, sweep>>
    BY <1>1, <1>2, FailsEffect
  <1>6. SecondIsOld'
    BY <1>5 DEF ClientInv, SecondIsOld
  <1>7. ASSUME NEW p \in Pays PROVE PayInv(p)'
    <2>1. CASE p # c
      <3>1. UNCHANGED <<asked[p], wallet[p], mine[p]>> /\ (p \in late' <=> p \in late)
        <4>1. CASE Delivered(c) /\ UNCHANGED late
          BY <1>2, <2>1, <4>1, DeliveredEffect
        <4>2. CASE late' \in {late, late \union ({c} \intersect Pays)}
                   /\ UNCHANGED <<asked, wallet, mine>>
          BY <2>1, <4>2
        <4> QED
          BY <1>1, <4>1, <4>2
      <3> QED
        BY <1>1, <2>1, <3>1, FailsElsewhere
    <2>2. CASE p = c
      <3>1. call'[p].at = "failed" /\ row'[p] = row[p]
        BY <1>1, <2>2, FailsSent DEF err
      <3>2. PayInv(p) /\ call[p].at = "open"
        BY <1>1, <2>2 DEF ClientInv
      <3>3. asked[p] = 0 /\ p \notin late /\ ~mine[p] /\ ~aged[p]
        BY <3>2 DEF PayInv, Untried, AskedIfMine, OldRowsAreQuiet
      <3>4. row[p] = "failed" => wallet[p] = "failed"
        BY <3>2 DEF PayInv, FailedForGood, NeverSent
      <3>5. \/ /\ asked'[p] = 1 /\ p \notin late' /\ wallet'[p] # "none"
               /\ wallet'[p] = wallet[p] \/ wallet[p] = "none"
            \/ UNCHANGED <<asked[p], wallet[p], mine[p]>>
        <4>1. CASE Delivered(c) /\ UNCHANGED late
          BY <1>2, <2>2, <3>3, <4>1, DeliveredEffect
        <4> QED
          BY <1>1, <4>1
      <3>6. Untried(p)' /\ OneRequest(p)' /\ AskedIfMine(p)' /\ OldRowsAreQuiet(p)'
        BY <1>5, <3>1, <3>3, <3>5 DEF Untried, OneRequest, AskedIfMine, OldRowsAreQuiet
      <3>7. FailedForGood(p)' /\ CompletedIsPaid(p)'
        BY <3>1, <3>2, <3>4, <3>5 DEF PayInv, FailedForGood, CompletedIsPaid
      <3> QED
        BY <3>6, <3>7 DEF PayInv
    <2> QED
      BY <2>1, <2>2
  <1> QED
    BY <1>4, <1>6, <1>7 DEF ClientInv

\* An answer or its absence changes no request: a call that fails on it is over, and
\* its row says failed only if the wallet refused.
LEMMA UnansweredStep ==
  ASSUME ClientInv, NEW c \in Calls, NEW err \in Errors, Fails(c, err), call[c].at = "wait",
         c \in Pays => err \notin PreSend /\ (err = "refused" => wallet[c] = "failed"),
         UNCHANGED <<late, asked, wallet, mine>>
  PROVE  ClientInv'
  <1>1. ClientTypes /\ Pays \subseteq Calls
    BY DEF ClientInv, Calls
  <1>2. ClientTypes'
    BY <1>1, FailsTypes DEF ClientTypes, ClientTypeOK
  <1>3. UNCHANGED <<aged, sweep>>
    BY <1>1, FailsEffect
  <1>4. SecondIsOld'
    BY <1>3 DEF ClientInv, SecondIsOld
  <1>5. ASSUME NEW p \in Pays PROVE PayInv(p)'
    <2>1. CASE p # c
      BY <2>1, FailsElsewhere
    <2>2. CASE p = c
      <3>1. /\ call'[p].at = "failed"
            /\ row'[p] = row[p] \/ (wallet[p] = "failed" /\ row'[p] = "failed")
        BY <2>2, FailsSent
      <3>2. PayInv(p) /\ call[p].at = "wait"
        BY <2>2 DEF ClientInv
      <3>3. row[p] = "failed" => wallet[p] = "failed"
        BY <3>2 DEF PayInv, FailedForGood, NeverSent
      <3>4. Untried(p)' /\ OneRequest(p)' /\ AskedIfMine(p)' /\ OldRowsAreQuiet(p)'
        BY <1>3, <3>1, <3>2 DEF PayInv, Untried, OneRequest, AskedIfMine, OldRowsAreQuiet
      <3>5. FailedForGood(p)' /\ CompletedIsPaid(p)'
        BY <3>1, <3>2, <3>3 DEF PayInv, FailedForGood, CompletedIsPaid
      <3> QED
        BY <3>4, <3>5 DEF PayInv
    <2> QED
      BY <2>1, <2>2
  <1> QED
    BY <1>2, <1>4, <1>5 DEF ClientInv

LEMMA ReplyIsErrorStep ==
  ASSUME NwcConstants, ClientInv, NEW c \in Calls, ReplyIsError(c)
  PROVE  ClientInv'
  <1>1. /\ call[c].at = "wait" /\ Answer(c) \in Errors /\ Fails(c, Answer(c))
        /\ UNCHANGED <<late, asked, wallet, mine>>
    BY DEF ReplyIsError
  <1>2. ASSUME c \in Pays
        PROVE  Answer(c) \notin PreSend /\ (Answer(c) = "refused" => wallet[c] = "failed")
    <2>1. c \notin Reads
      BY <1>2 DEF NwcConstants
    <2> QED
      BY <1>2, <2>1 DEF Answer, PreSend
  <1> QED
    BY <1>1, <1>2, UnansweredStep

LEMMA ReplyTimesOutStep ==
  ASSUME ClientInv, NEW c \in Calls, ReplyTimesOut(c)
  PROVE  ClientInv'
  BY UnansweredStep DEF ReplyTimesOut, Errors, PreSend, Unheard

\* An answer that is a success: the call's own payment was made.
LEMMA ReplyStep ==
  ASSUME NwcConstants, ClientInv, NEW c \in Calls, Reply(c)
  PROVE  ClientInv'
  <1>1. /\ call[c].at = "wait" /\ Answer(c) = "ok"
        /\ call' = [call EXCEPT ![c] = [NoCall EXCEPT !.at = "ok"]]
        /\ row' = IF c \in Pays THEN Decided(c, "paid") ELSE row
        /\ UNCHANGED <<client, pin, veil, cooldown, late, asked, wallet, mine, aged, sweep>>
    BY DEF Reply
  <1>2. ClientTypes /\ Pays \subseteq Calls
    BY DEF ClientInv, Calls
  <1>3. /\ call' \in [Calls -> CallType]
        /\ call'[c].at = "ok" /\ \A d \in Calls \ {c} : call'[d] = call[d]
    <2> DEFINE over == [NoCall EXCEPT !.at = "ok"]
    <2>2. over \in CallType /\ over.at = "ok"
      BY IdleType
    <2>3. call \in [Calls -> CallType] /\ call' = [call EXCEPT ![c] = over]
      BY <1>1, <1>2 DEF ClientTypes, ClientTypeOK
    <2> HIDE DEF over
    <2> QED
      BY <2>2, <2>3
  <1>4. row' \in [Pays -> {"pending", "completed", "failed"}]
        /\ \A q \in Pays \ {c} : row'[q] = row[q]
    <2>1. CASE c \in Pays
      BY <1>1, <1>2, <2>1, DecidedEffect
    <2>2. CASE c \notin Pays
      BY <1>1, <1>2, <2>2 DEF ClientTypes, ClientTypeOK
    <2> QED
      BY <2>1, <2>2
  <1>5. ClientTypes'
    BY <1>1, <1>2, <1>3, <1>4 DEF ClientTypes, ClientTypeOK, Tries, AtARow
  <1>6. SecondIsOld'
    BY <1>1 DEF ClientInv, SecondIsOld
  <1>7. ASSUME NEW p \in Pays PROVE PayInv(p)'
    <2>1. CASE p # c
      BY <1>1, <1>2, <1>3, <1>4, <2>1, Undisturbed DEF ClientInv
    <2>2. CASE p = c
      <3>1. wallet[p] = "paid"
        BY <1>1, <2>2 DEF NwcConstants, Answer
      <3>2. row'[p] = row[p] \/ row'[p] = "completed"
        BY <1>1, <1>2, <2>2, DecidedEffect
      <3>3. PayInv(p) /\ call[p].at = "wait" /\ call'[p].at = "ok"
        BY <1>1, <1>3, <2>2 DEF ClientInv
      <3> QED
        BY <1>1, <3>1, <3>2, <3>3
        DEF PayInv, Untried, OneRequest, AskedIfMine, OldRowsAreQuiet, FailedForGood, NeverSent,
            CompletedIsPaid
    <2> QED
      BY <2>1, <2>2
  <1> QED
    BY <1>5, <1>6, <1>7 DEF ClientInv

\* A request that a relay kept arrives: the first of its call, which is over.
LEMMA DeliveredLateStep ==
  ASSUME ClientInv, NEW d \in Pays, DeliveredLate(d)
  PROVE  ClientInv'
  <1>1. /\ d \in late /\ late' = late \ {d} /\ Delivered(d)
        /\ UNCHANGED <<client, pin, veil, cooldown, call, row, aged, sweep>>
    BY DEF DeliveredLate
  <1>2. ClientTypes /\ Pays \subseteq Calls
    BY DEF ClientInv, Calls
  <1>3. ClientTypes'
    <2>1. /\ asked' \in [Calls -> Nat] /\ mine' \in [Pays -> BOOLEAN]
          /\ wallet' \in [Pays -> {"none", "pending", "paid", "failed"}]
      BY <1>1, <1>2, DeliveredEffect
    <2> QED
      BY <1>1, <1>2, <2>1 DEF ClientTypes, ClientTypeOK, Tries, AtARow
  <1>4. SecondIsOld'
    BY <1>1 DEF ClientInv, SecondIsOld
  <1>5. ASSUME NEW p \in Pays PROVE PayInv(p)'
    <2>1. CASE p # d
      <3>1. UNCHANGED <<asked[p], wallet[p], mine[p]>>
        BY <1>1, <1>2, <2>1, DeliveredEffect
      <3> QED
        BY <1>1, <2>1, <3>1, Undisturbed DEF ClientInv
    <2>2. CASE p = d
      <3>1. PayInv(p) /\ p \in late
        BY <1>1, <2>2 DEF ClientInv
      <3>2. asked[p] = 0 /\ ~aged[p] /\ call[p].at \notin {"idle", "open", "backoff"}
        BY <3>1 DEF PayInv, OneRequest, OldRowsAreQuiet, Untried
      <3>3. row[p] = "failed" => wallet[p] = "failed"
        BY <3>1 DEF PayInv, FailedForGood, NeverSent
      <3>4. /\ asked'[p] = 1 /\ p \notin late' /\ wallet'[p] # "none"
            /\ wallet'[p] = wallet[p] \/ wallet[p] = "none"
        BY <1>1, <1>2, <2>2, <3>2, DeliveredEffect
      <3>5. Untried(p)' /\ OneRequest(p)' /\ AskedIfMine(p)' /\ OldRowsAreQuiet(p)'
        BY <1>1, <3>2, <3>4 DEF Untried, OneRequest, AskedIfMine, OldRowsAreQuiet
      <3>6. FailedForGood(p)' /\ CompletedIsPaid(p)'
        BY <1>1, <3>1, <3>3, <3>4 DEF PayInv, FailedForGood, CompletedIsPaid
      <3> QED
        BY <3>5, <3>6 DEF PayInv
    <2> QED
      BY <2>1, <2>2
  <1> QED
    BY <1>3, <1>4, <1>5 DEF ClientInv

\* The wallet decides, or the invoice's owner pays it elsewhere: a payment that was
\* made or refused stays so.
LEMMA WalletStep ==
  ASSUME ClientInv, NEW d \in Pays, WalletPays(d) \/ WalletRefuses(d) \/ OwnerPays(d)
  PROVE  ClientInv'
  <1>1. /\ UNCHANGED <<client, pin, veil, cooldown, call, late, asked, mine, row, aged, sweep>>
        /\ \/ wallet[d] = "pending" /\ wallet' = [wallet EXCEPT ![d] = "paid"]
           \/ wallet[d] = "pending" /\ wallet' = [wallet EXCEPT ![d] = "failed"]
           \/ wallet[d] = "none" /\ wallet' = [wallet EXCEPT ![d] = "pending"]
    BY DEF WalletPays, WalletRefuses, OwnerPays
  <1>2. ClientTypes
    BY DEF ClientInv
  <1>3. /\ wallet' \in [Pays -> {"none", "pending", "paid", "failed"}]
        /\ \A p \in Pays \ {d} : wallet'[p] = wallet[p]
        /\ wallet[d] \in {"none", "pending"} /\ wallet'[d] # "none"
    BY <1>1, <1>2 DEF ClientTypes, ClientTypeOK
  <1>4. ClientTypes' /\ SecondIsOld'
    BY <1>1, <1>2, <1>3 DEF ClientInv, SecondIsOld, ClientTypes, ClientTypeOK, Tries, AtARow
  <1>5. ASSUME NEW p \in Pays PROVE PayInv(p)'
    <2>1. CASE p # d
      BY <1>1, <1>3, <2>1, Undisturbed DEF ClientInv
    <2>2. CASE p = d
      <3>1. PayInv(p)
        BY DEF ClientInv
      <3> QED
        BY <1>1, <1>3, <2>2, <3>1
        DEF PayInv, Untried, OneRequest, AskedIfMine, OldRowsAreQuiet, FailedForGood, NeverSent,
            CompletedIsPaid
    <2> QED
      BY <2>1, <2>2
  <1> QED
    BY <1>4, <1>5 DEF ClientInv

\* A row gets old when its call is over and no relay has its request.
LEMMA AgeStep ==
  ASSUME ClientInv, NEW d \in Pays, Age(d)
  PROVE  ClientInv'
  <1>1. /\ call[d].at = "failed" /\ d \notin late /\ aged' = [aged EXCEPT ![d] = TRUE]
        /\ UNCHANGED <<client, pin, veil, cooldown, call, late, asked, wallet, mine, row, sweep>>
    BY DEF Age
  <1>2. ClientTypes
    BY DEF ClientInv
  <1>3. aged' \in [Pays -> BOOLEAN] /\ aged'[d] /\ \A p \in Pays \ {d} : aged'[p] = aged[p]
    BY <1>1, <1>2 DEF ClientTypes, ClientTypeOK
  <1>4. ClientTypes'
    BY <1>1, <1>2, <1>3 DEF ClientTypes, ClientTypeOK, Tries, AtARow
  <1>5. SecondIsOld'
    BY <1>1, <1>2, <1>3 DEF ClientInv, SecondIsOld, ClientTypes, AtARow
  <1>6. ASSUME NEW p \in Pays PROVE PayInv(p)'
    <2>1. CASE p # d
      BY <1>1, <1>3, <2>1, Undisturbed DEF ClientInv
    <2>2. CASE p = d
      <3>1. PayInv(p)
        BY DEF ClientInv
      <3> QED
        BY <1>1, <1>3, <2>2, <3>1
        DEF PayInv, Untried, OneRequest, AskedIfMine, OldRowsAreQuiet, FailedForGood, NeverSent,
            CompletedIsPaid
    <2> QED
      BY <2>1, <2>2
  <1> QED
    BY <1>4, <1>5, <1>6 DEF ClientInv

\* The reconciler moves on or gives up without a verdict.
LEMMA QuietStep ==
  ASSUME ClientInv, UNCHANGED <<pin, veil, call, late, asked, wallet, mine, row, aged>>,
         client' \in {client, "none"}, cooldown' \in BOOLEAN,
         sweep' \in SweepType,
         AtARow', sweep'.step = "again" => aged[sweep'.of]
  PROVE  ClientInv'
  <1>1. ClientTypes' /\ SecondIsOld'
    BY DEF ClientInv, ClientTypes, ClientTypeOK, Tries, SecondIsOld
  <1>2. ASSUME NEW p \in Pays PROVE PayInv(p)'
    BY Undisturbed DEF ClientInv
  <1> QED
    BY <1>1, <1>2 DEF ClientInv

\* The reconciler decides a row, and is done.
LEMMA VerdictStep ==
  ASSUME ClientInv, NEW d \in Pays, NEW state, row' = Decided(d, state), sweep' = NoSweep,
         UNCHANGED <<client, pin, veil, call, late, asked, wallet, mine, aged, cooldown>>,
         state = "paid" => wallet[d] = "paid",
         state = "failed" => wallet[d] = "failed" \/ NeverSent(d)
  PROVE  ClientInv'
  <1>1. ClientTypes
    BY DEF ClientInv
  <1>2. /\ row' \in [Pays -> {"pending", "completed", "failed"}]
        /\ \A q \in Pays \ {d} : row'[q] = row[q]
        /\ \/ row'[d] = row[d]
           \/ state = "paid" /\ row'[d] = "completed"
           \/ state = "failed" /\ row'[d] = "failed"
    BY <1>1, DecidedEffect
  <1>3. ClientTypes' /\ SecondIsOld'
    BY <1>1, <1>2 DEF ClientTypes, ClientTypeOK, Tries, AtARow, NoSweep, SecondIsOld
  <1>4. ASSUME NEW p \in Pays PROVE PayInv(p)'
    <2>1. CASE p # d
      BY <1>2, <2>1, Undisturbed DEF ClientInv
    <2>2. CASE p = d
      <3>1. PayInv(p)
        BY DEF ClientInv
      <3> QED
        BY <1>2, <2>2, <3>1
        DEF PayInv, Untried, OneRequest, AskedIfMine, OldRowsAreQuiet, FailedForGood, NeverSent,
            CompletedIsPaid
    <2> QED
      BY <2>1, <2>2
  <1> QED
    BY <1>3, <1>4 DEF ClientInv

\* A search that finds the payment reports what the wallet did; one that does not
\* goes on, and fails an old row only if the wallet shows every payment it knows.
LEMMA SweepStep ==
  ASSUME NwcConstants, ClientInv, SweepSteps
  PROVE  ClientInv'
  <1>1. ClientTypes /\ sweep \in SweepType
        /\ (sweep.step # "none" => sweep.of \in Pays)
        /\ cooldown \in BOOLEAN
        /\ (sweep.step = "again" => aged[sweep.of])
    BY DEF ClientInv, ClientTypes, ClientTypeOK, AtARow, SecondIsOld
  <1>2. NoSweep \in SweepType
        /\ NoSweep.step = "none"
    BY DEF NoSweep
  <1>3. ASSUME NEW p \in Pays, StartLookup(p) PROVE ClientInv'
    <2>1. /\ sweep' = [of |-> p, step |-> "hash"]
          /\ UNCHANGED <<client, pin, veil, call, late, asked, wallet, mine, row, aged, cooldown>>
      BY <1>3 DEF StartLookup, Rest
    <2> QED
      BY <1>1, <2>1, QuietStep DEF AtARow
  <1>4. ASSUME Found PROVE ClientInv'
    <2>1. /\ sweep.of \in Pays /\ row' = Decided(sweep.of, wallet[sweep.of]) /\ sweep' = NoSweep
          /\ UNCHANGED <<client, pin, veil, call, late, asked, wallet, mine, aged, cooldown>>
      BY <1>1, <1>4 DEF Found, Rest
    <2> QED
      BY <2>1, VerdictStep
  <1>5. ASSUME Missed PROVE ClientInv'
    <2>1. /\ sweep.step \in {"hash", "invoice"}
          /\ sweep' = [sweep EXCEPT !.step = IF sweep.step = "hash" THEN "invoice" ELSE "list"]
          /\ UNCHANGED <<client, pin, veil, call, late, asked, wallet, mine, row, aged, cooldown>>
      BY <1>5 DEF Missed, Rest
    <2>2. /\ sweep' \in SweepType
          /\ sweep'.of = sweep.of /\ sweep'.step \in {"invoice", "list"}
      BY <1>1, <2>1
    <2> QED
      BY <1>1, <2>1, <2>2, QuietStep DEF AtARow
  <1>6. ASSUME SearchFails PROVE ClientInv'
    <2>1. /\ sweep.step = "list"
          /\ \/ /\ sweep' = IF aged[sweep.of] THEN [sweep EXCEPT !.step = "again"] ELSE NoSweep
                /\ UNCHANGED cooldown
             \/ sweep' = NoSweep /\ cooldown' \in {cooldown, TRUE}
          /\ UNCHANGED <<client, pin, veil, call, late, asked, wallet, mine, row, aged>>
      BY <1>6 DEF SearchFails, Rest
    <2>2. \/ sweep' = NoSweep
          \/ /\ sweep' \in SweepType
             /\ sweep'.of = sweep.of /\ sweep'.step = "again" /\ aged[sweep.of]
      BY <1>1, <2>1
    <2>3. cooldown' \in BOOLEAN
      BY <1>1, <2>1
    <2> QED
      BY <1>1, <1>2, <2>1, <2>2, <2>3, QuietStep DEF AtARow
  <1>7. ASSUME Corroborate PROVE ClientInv'
    <2>1. PICK complete \in BOOLEAN :
            /\ complete => ~Known(sweep.of)
            /\ row' = Decided(sweep.of, AbsentVerdict(complete))
      BY <1>7 DEF Corroborate
    <2>2. /\ sweep.step = "again" /\ sweep.of \in Pays /\ sweep' = NoSweep
          /\ UNCHANGED <<client, pin, veil, call, late, asked, wallet, mine, aged, cooldown>>
      BY <1>1, <1>7 DEF Corroborate, Rest
    <2>3. AbsentVerdict(complete) # "paid"
      BY DEF AbsentVerdict
    <2>4. ASSUME AbsentVerdict(complete) = "failed" PROVE NeverSent(sweep.of)
      <3>1. wallet[sweep.of] = "none"
        BY <2>1, <2>4 DEF AbsentVerdict, Known
      <3>2. PayInv(sweep.of) /\ aged[sweep.of] /\ mine[sweep.of] \in BOOLEAN
        BY <1>1, <2>2 DEF ClientInv, ClientTypes, ClientTypeOK
      <3> QED
        BY <3>1, <3>2 DEF PayInv, OldRowsAreQuiet, AskedIfMine, NeverSent
    <2> QED
      BY <2>1, <2>2, <2>3, <2>4, VerdictStep
  <1>8. ASSUME CorroborationFails PROVE ClientInv'
    <2>1. /\ sweep' = NoSweep /\ cooldown' \in BOOLEAN
          /\ UNCHANGED <<client, pin, veil, call, late, asked, wallet, mine, row, aged>>
      BY <1>1, <1>8 DEF CorroborationFails, Rest
    <2> QED
      BY <1>2, <2>1, QuietStep DEF AtARow
  <1> QED
    BY <1>3, <1>4, <1>5, <1>6, <1>7, <1>8 DEF SweepSteps

LEMMA ClientInvStep == ASSUME NwcConstants PROVE ClientInv /\ [ClientNext]_clientVars => ClientInv'
<1> SUFFICES ASSUME ClientInv, [ClientNext]_clientVars PROVE ClientInv'
  OBVIOUS
<1>1. ClientTypes /\ sweep \in SweepType
      /\ AtARow /\ (sweep.step = "again" => aged[sweep.of])
  BY DEF ClientInv, ClientTypes, ClientTypeOK, SecondIsOld
<1>2. ASSUME NEW c \in Calls, CallSteps(c) PROVE ClientInv'
  BY <1>2, AttemptStep, FailsToSendStep, PublishStep, PublishTimesOutStep, ReplyStep,
     ReplyIsErrorStep, ReplyTimesOutStep DEF CallSteps
<1>3. ASSUME NEW p \in Pays,
             WalletPays(p) \/ WalletRefuses(p) \/ OwnerPays(p) \/ DeliveredLate(p) \/ Age(p)
      PROVE  ClientInv'
  BY <1>3, WalletStep, DeliveredLateStep, AgeStep
<1>4. ASSUME IdleClose PROVE ClientInv'
  BY <1>1, <1>4, QuietStep DEF IdleClose, AtARow, ClientTypes, ClientTypeOK
<1>5. ASSUME CooldownEnds PROVE ClientInv'
  BY <1>1, <1>5, QuietStep DEF CooldownEnds, Rest, AtARow
<1>6. ASSUME UNCHANGED clientVars PROVE ClientInv'
  BY <1>1, <1>6, QuietStep DEF clientVars, AtARow, ClientTypes, ClientTypeOK
<1> QED
  BY <1>2, <1>3, <1>4, <1>5, <1>6, SweepStep DEF ClientNext

LEMMA ClientSpecInv == ASSUME NwcConstants PROVE ClientSpec => []ClientInv
  BY ClientInitInv, ClientInvStep, PTL DEF ClientSpec

-----------------------------------------------------------------------------
(* The theorems *)

\* The wallet gets one request of a pay call at most: a payment is never tried again
\* after its request may have been sent, whoever closes the shared client meanwhile.
THEOREM SpecPayReachesOnce == ASSUME NwcConstants PROVE ClientSpec => []PayReachesOnce
<1>1. ClientInv => PayReachesOnce
  BY DEF ClientInv, PayInv, OneRequest, PayReachesOnce
<1> QED
  BY <1>1, ClientSpecInv, PTL

\* A send fails only if the wallet is not paying on its behalf and completes only if
\* its invoice was paid, whether a call's error, a lookup or the second opinion
\* decides.
THEOREM SpecVerdictsAreTrue == ASSUME NwcConstants PROVE ClientSpec => []VerdictsAreTrue
<1>1. ClientInv => VerdictsAreTrue
  BY DEF ClientInv, PayInv, FailedForGood, NeverSent, CompletedIsPaid, VerdictsAreTrue
<1> QED
  BY <1>1, ClientSpecInv, PTL

-----------------------------------------------------------------------------
(* The promise of PayCall *)

\* A record of a refusal is the call's own.
RefusedIsMine == \A p \in Pays : wallet[p] = "failed" => mine[p]

LEMMA RefusedStep ==
  ASSUME ClientInv, RefusedIsMine, [ClientNext]_clientVars
  PROVE  RefusedIsMine'
<1>1. ClientTypes
  BY DEF ClientInv
<1>2. CASE UNCHANGED <<wallet, mine>>
  BY <1>2 DEF RefusedIsMine
<1>3. ASSUME NEW c \in Calls, Delivered(c) PROVE RefusedIsMine'
  BY <1>1, <1>3, DeliveredEffect DEF RefusedIsMine
<1>4. ASSUME NEW p \in Pays, WalletPays(p) \/ WalletRefuses(p) \/ OwnerPays(p)
      PROVE  RefusedIsMine'
  BY <1>1, <1>4
  DEF WalletPays, WalletRefuses, OwnerPays, RefusedIsMine, ClientTypes, ClientTypeOK
<1>5. ASSUME NEW c \in Calls, CallSteps(c) PROVE UNCHANGED <<wallet, mine>> \/ Delivered(c)
  BY <1>5 DEF CallSteps, Begin, Retry, FailsToSend, Publish, PublishTimesOut, Reply,
              ReplyIsError, ReplyTimesOut
<1>6. ASSUME NEW p \in Pays, DeliveredLate(p) \/ Age(p)
      PROVE  UNCHANGED <<wallet, mine>> \/ Delivered(p)
  BY <1>6 DEF DeliveredLate, Age
<1>7. CASE IdleClose \/ SweepSteps \/ CooldownEnds \/ UNCHANGED clientVars
  BY <1>2, <1>7 DEF IdleClose, SweepSteps, StartLookup, Found, Missed, SearchFails,
                    Corroborate, CorroborationFails, CooldownEnds, Rest, clientVars
<1> QED
  BY <1>2, <1>3, <1>4, <1>5, <1>6, <1>7 DEF ClientNext, Calls

\* A step that decides one pending row at most: what it says is true afterwards, and
\* the money has not moved.
LEMMA BooksMove ==
  ASSUME ClientInv, ClientInv', UNCHANGED <<asked, wallet, mine>>, NEW p \in Pays,
         \A q \in Pays \ {p} : row'[q] = row[q], row'[p] # row[p] => row[p] = "pending"
  PROVE  [CallPromise!Next]_(CallPromise!vars)
<1>1. /\ row \in [Pays -> {"pending", "completed", "failed"}]
      /\ row' \in [Pays -> {"pending", "completed", "failed"}]
  BY DEF ClientInv, ClientTypes, ClientTypeOK
<1>2. /\ row'[p] = "failed" => ~ (mine[p] /\ wallet[p] \in {"pending", "paid"})
      /\ row'[p] = "completed" => wallet[p] = "paid"
  BY DEF ClientInv, PayInv, FailedForGood, NeverSent, CompletedIsPaid
<1>3. CASE row'[p] = row[p]
  <2>1. \A q \in Pays : row'[q] = row[q]
    BY <1>3
  <2> QED
    BY <2>1 DEF CallPromise!vars
<1>4. CASE row'[p] # row[p] /\ row'[p] = "completed"
  <2>1. CallPromise!Complete(p)
    BY <1>1, <1>2, <1>4 DEF CallPromise!Complete
  <2> QED
    BY <2>1 DEF CallPromise!Next, CallPromise!Act
<1>5. CASE row'[p] # row[p] /\ row'[p] = "failed"
  <2>1. CallPromise!Fail(p)
    BY <1>1, <1>2, <1>5 DEF CallPromise!Fail
  <2> QED
    BY <2>1 DEF CallPromise!Next, CallPromise!Act
<1> QED
  BY <1>1, <1>3, <1>4, <1>5

\* A request reaches the wallet: the first of its call, which was not given up.
LEMMA RequestMoves ==
  ASSUME NwcConstants, ClientInv, RefusedIsMine, NEW c \in Calls, Delivered(c), UNCHANGED row,
         c \in Pays => call[c].at = "open" \/ c \in late
  PROVE  [CallPromise!Next]_(CallPromise!vars)
<1>1. ClientTypes /\ Pays \subseteq Calls
  BY DEF ClientInv, Calls
<1>2. /\ asked' \in [Calls -> Nat] /\ asked'[c] = asked[c] + 1
      /\ \A d \in Calls \ {c} : asked'[d] = asked[d]
      /\ wallet' \in [Pays -> {"none", "pending", "paid", "failed"}]
      /\ mine' \in [Pays -> BOOLEAN]
      /\ \A p \in Pays \ {c} : wallet'[p] = wallet[p] /\ mine'[p] = mine[p]
      /\ c \in Pays =>
           \/ wallet[c] = "none" /\ wallet'[c] = "pending" /\ mine'[c]
           \/ wallet[c] # "none" /\ wallet'[c] = wallet[c] /\ mine'[c] = mine[c]
  BY <1>1, DeliveredEffect
<1>3. wallet \in [Pays -> {"none", "pending", "paid", "failed"}] /\ mine \in [Pays -> BOOLEAN]
  BY <1>1 DEF ClientTypes, ClientTypeOK
<1>4. CASE c \notin Pays
  <2>1. wallet' = wallet /\ mine' = mine /\ \A p \in Pays : asked'[p] = asked[p]
    BY <1>1, <1>2, <1>3, <1>4
  <2> QED
    BY <2>1 DEF CallPromise!vars
<1>5. CASE c \in Pays
  <2>1. asked[c] = 0
    BY <1>5 DEF ClientInv, PayInv, Untried, OneRequest
  <2>2. row[c] # "failed"
    BY <1>5, <2>1 DEF ClientInv, PayInv, FailedForGood, NeverSent, AskedIfMine, RefusedIsMine
  <2>3. /\ [p \in Pays |-> asked'[p]] = [[p \in Pays |-> asked[p]] EXCEPT ![c] = 1]
        /\ wallet' = [wallet EXCEPT ![c] = IF wallet[c] = "none" THEN "pending" ELSE wallet[c]]
    <3>1. asked'[c] = 1 /\ \A p \in Pays \ {c} : asked'[p] = asked[p]
      BY <1>1, <1>2, <1>5, <2>1
    <3>2. [p \in Pays |-> asked'[p]] = [[p \in Pays |-> asked[p]] EXCEPT ![c] = 1]
      BY <1>5, <3>1
    <3>3. wallet'[c] = IF wallet[c] = "none" THEN "pending" ELSE wallet[c]
      BY <1>2, <1>5
    <3>4. wallet' = [wallet EXCEPT ![c] = IF wallet[c] = "none" THEN "pending" ELSE wallet[c]]
      BY <1>2, <1>3, <1>5, <3>3
    <3> QED
      BY <3>2, <3>4
  <2>4. /\ wallet[c] = "none" => mine' = [mine EXCEPT ![c] = TRUE]
        /\ wallet[c] # "none" => mine' = mine
    <3>1. mine'[c] \in BOOLEAN /\ mine[c] \in BOOLEAN
      BY <1>2, <1>3, <1>5
    <3>2. CASE wallet[c] = "none"
      <4>1. mine'[c] = TRUE
        BY <1>2, <1>5, <3>1, <3>2
      <4> QED
        BY <1>2, <1>3, <3>2, <4>1
    <3>3. CASE wallet[c] # "none"
      <4>1. mine'[c] = mine[c]
        BY <1>2, <1>5, <3>3
      <4> QED
        BY <1>2, <1>3, <3>3, <4>1
    <3> QED
      BY <3>2, <3>3
  <2>5. CallPromise!Deliver(c)
    BY <1>2, <1>3, <1>5, <2>1, <2>2, <2>3, <2>4 DEF CallPromise!Deliver
  <2> QED
    BY <1>5, <2>5 DEF CallPromise!Next, CallPromise!Act
<1> QED
  BY <1>4, <1>5

\* The wallet, or the owner's other one, acts on one payment.
LEMMA MoneyMoves ==
  ASSUME ClientInv, NEW p \in Pays, WalletPays(p) \/ WalletRefuses(p) \/ OwnerPays(p)
  PROVE  [CallPromise!Next]_(CallPromise!vars)
<1>1. CallPromise!Settle(p) \/ CallPromise!Refuse(p) \/ CallPromise!PayElsewhere(p)
  BY DEF WalletPays, WalletRefuses, OwnerPays, CallPromise!Settle, CallPromise!Refuse,
         CallPromise!PayElsewhere
<1> QED
  BY <1>1 DEF CallPromise!Next, CallPromise!Act

\* Only a pending row is decided, of one payment.
LEMMA DecidesPending ==
  ASSUME ClientTypes, NEW p \in Pays, NEW state
  PROVE  /\ \A q \in Pays \ {p} : Decided(p, state)[q] = row[q]
         /\ Decided(p, state)[p] # row[p] => row[p] = "pending"
  BY DecidedEffect DEF Decided

LEMMA FailsDecides ==
  ASSUME ClientTypes, NEW c \in Calls, NEW err \in Errors, Fails(c, err)
  PROVE  /\ \A q \in Pays \ {c} : row'[q] = row[q]
         /\ c \in Pays /\ row'[c] # row[c] => row[c] = "pending" /\ err \notin Ambiguous
<1>1. row' = row \/ (c \in Pays /\ err \notin Ambiguous /\ row' = Decided(c, "failed"))
  BY DEF Fails, RowAfter
<1> QED
  BY <1>1, DecidesPending

\* Nothing that the promise is about changes.
LEMMA NothingMoves ==
  ASSUME UNCHANGED <<asked, wallet, mine, row>>
  PROVE  [CallPromise!Next]_(CallPromise!vars)
  BY DEF CallPromise!vars

LEMMA FailureMoves ==
  ASSUME ClientInv, ClientInv', NEW c \in Calls, NEW err \in Errors, Fails(c, err),
         UNCHANGED <<asked, wallet, mine>>
  PROVE  [CallPromise!Next]_(CallPromise!vars)
<1>1. ClientTypes
  BY DEF ClientInv
<1>2. CASE c \in Pays
  BY <1>1, <1>2, BooksMove, FailsDecides
<1>3. CASE c \notin Pays
  <2>1. row' = row
    BY <1>3 DEF Fails, RowAfter
  <2> QED
    BY <2>1, NothingMoves
<1> QED
  BY <1>2, <1>3

LEMMA CallMoves ==
  ASSUME NwcConstants, ClientInv, ClientInv', RefusedIsMine, NEW c \in Calls, CallSteps(c)
  PROVE  [CallPromise!Next]_(CallPromise!vars)
<1>1. ClientTypes
  BY DEF ClientInv
<1>2. CASE Begin(c) \/ Retry(c)
  BY <1>2, NothingMoves DEF Begin, Retry
<1>3. CASE FailsToSend(c) \/ ReplyIsError(c) \/ ReplyTimesOut(c)
  <2>1. PICK err \in Errors : Fails(c, err)
    BY <1>3 DEF FailsToSend, ReplyIsError, ReplyTimesOut, Errors, PreSend, Unheard
  <2>2. UNCHANGED <<asked, wallet, mine>>
    BY <1>3 DEF FailsToSend, ReplyIsError, ReplyTimesOut
  <2> QED
    BY <2>1, <2>2, FailureMoves
<1>4. CASE Publish(c)
  BY <1>4, RequestMoves DEF Publish
<1>5. CASE PublishTimesOut(c)
  <2>1. /\ call[c].at = "open" /\ "publishTimeout" \in Errors /\ Fails(c, "publishTimeout")
        /\ Delivered(c) \/ UNCHANGED <<asked, wallet, mine>>
    BY <1>5 DEF PublishTimesOut, Errors, Unheard
  <2>2. row' = row
    BY <2>1 DEF Fails, RowAfter, Ambiguous, Unheard
  <2> QED
    BY <2>1, <2>2, NothingMoves, RequestMoves
<1>6. CASE Reply(c)
  <2>1. UNCHANGED <<asked, wallet, mine>> /\ row' = IF c \in Pays THEN Decided(c, "paid") ELSE row
    BY <1>6 DEF Reply
  <2> QED
    BY <1>1, <2>1, NothingMoves, BooksMove, DecidesPending
<1> QED
  BY <1>2, <1>3, <1>4, <1>5, <1>6 DEF CallSteps

\* Every step of the client, the relay and the reconciler is one of PayCall, or none.
LEMMA ClientMoves ==
  ASSUME NwcConstants, ClientInv, ClientInv', RefusedIsMine, [ClientNext]_clientVars
  PROVE  [CallPromise!Next]_(CallPromise!vars)
<1>1. ClientTypes /\ (sweep.step # "none" => sweep.of \in Pays)
  BY DEF ClientInv, ClientTypes, AtARow
<1>2. ASSUME NEW p \in Pays, DeliveredLate(p) PROVE [CallPromise!Next]_(CallPromise!vars)
  BY <1>2, RequestMoves DEF DeliveredLate, Calls
<1>3. CASE Found \/ Corroborate
  <2>1. /\ sweep.of \in Pays /\ UNCHANGED <<asked, wallet, mine>>
        /\ \E state : row' = Decided(sweep.of, state)
    BY <1>1, <1>3 DEF Found, Corroborate, Rest
  <2> QED
    BY <1>1, <2>1, BooksMove, DecidesPending
<1>4. CASE \/ \E p \in Pays : StartLookup(p) \/ Age(p)
           \/ Missed \/ SearchFails \/ CorroborationFails \/ IdleClose \/ CooldownEnds
           \/ UNCHANGED clientVars
  BY <1>4, NothingMoves DEF StartLookup, Age, Missed, SearchFails, CorroborationFails, IdleClose,
                            CooldownEnds, Rest, clientVars
<1> QED
  BY <1>2, <1>3, <1>4, CallMoves, MoneyMoves DEF ClientNext, SweepSteps

LEMMA ClientStarts == ClientInit => CallPromise!Init /\ RefusedIsMine
<1> SUFFICES ASSUME ClientInit PROVE CallPromise!Init /\ RefusedIsMine
  OBVIOUS
<1>1. \A p \in Pays : p \in Calls
  BY DEF Calls
<1> QED
  BY <1>1 DEF ClientInit, CallPromise!Init, RefusedIsMine

\* The client and the reconciler implement PayCall: one request of a payment at most, a
\* verdict that is true and final, and no request delivered for a row that says failed.
THEOREM SpecClientKeepsPromise == ASSUME NwcConstants PROVE ClientSpec => ClientKeepsPromise
<1>1. ClientInit => CallPromise!Init /\ RefusedIsMine
  BY ClientStarts
<1>2. ClientInv /\ RefusedIsMine /\ [ClientNext]_clientVars => RefusedIsMine'
  BY RefusedStep
<1>3. ClientInv /\ ClientInv' /\ RefusedIsMine /\ [ClientNext]_clientVars
        => [CallPromise!Next]_(CallPromise!vars)
  BY ClientMoves
<1> QED
  BY <1>1, <1>2, <1>3, ClientSpecInv, PTL DEF ClientSpec, ClientKeepsPromise, CallPromise!Spec

=============================================================================
