------------------------------ MODULE NwcClient ------------------------------
(***************************************************************************)
(* nwc.ts: the cached wallet connection, the single retry, and what a pay  *)
(* call that failed means; and the second opinion invoiceMonitor.ts takes  *)
(* before it fails a send the wallet does not know.                        *)
(*                                                                         *)
(* All calls here use one wallet URL, so they share one cached client: a   *)
(* call that fails evicts and closes whatever client is cached by then,    *)
(* which may be the one another call is waiting on.  The wallet may take a *)
(* request and never be heard of again; a pay call must then neither be    *)
(* sent twice nor be reported as failed.                                   *)
(*                                                                         *)
(* Taken from the wallet library, which is not part of this repository:    *)
(* the errors it raises, and that "failed to publish", "rate-limited", "no *)
(* info event" and "failed to connect" mean the request was not delivered. *)
(***************************************************************************)
EXTENDS Naturals, FiniteSets

CONSTANTS
  Pays,   \* calls of payInvoice, each for an invoice of its own
  Reads   \* calls of withClient: balances, lookups, mints

Calls == Pays \union Reads

VARIABLES
  client,    \* clientCache's entry: "none", "plain", or "nip04" if made under a pin
  pin,       \* encryptionPins holds nip04 for the URL
  veil,      \* the URL is the house wallet's, whose info event is reliable
  cooldown,  \* relayInCooldown(nwcUrl)
  call,      \* what each call is doing
  late,      \* pay requests a relay still holds after its acknowledgement was given up
  asked,     \* how many of a call's requests reached the wallet
  wallet,    \* the wallet's record of each pay call's invoice
  mine,      \* the record is of that call, not of the owner paying it elsewhere
  row,       \* the send row behind each pay call
  aged,      \* the row is older than SEND_NOT_FOUND_FAIL_AGE_MS
  sweep      \* the reconciler's lookup of one row

clientVars == <<client, pin, veil, cooldown, call, late, asked, wallet, mine, row, aged, sweep>>

\* The errors: no info event; the relay refuses the request or the connection;
\* published, perhaps, and no acknowledgement or no answer; the wallet's own.
Unheard == {"publishTimeout", "replyTimeout"}
Errors == {"noinfo", "unsent", "refused", "already"} \union Unheard

\* (mutant) Only the publish timeout is told apart.
Ambiguous_PublishOnly == {"publishTimeout", "already"}

\* isPreSendPayRetryable (which noteRelayOverload counts as overload too),
\* isTransientRelayError and isAmbiguousPayError.
PreSend == {"noinfo", "unsent"}
Transient == PreSend \union Unheard
Ambiguous == Unheard \union {"already"}

NoCall == [at |-> "idle", try |-> 0, live |-> FALSE, nip04 |-> FALSE, pinned |-> FALSE]
NoSweep == [of |-> "none", step |-> "none"]

ClientTypeOK ==
  /\ client \in {"none", "plain", "nip04"}
  /\ pin \in BOOLEAN /\ veil \in BOOLEAN /\ cooldown \in BOOLEAN
  /\ call \in [Calls -> [at: {"idle", "open", "wait", "backoff", "ok", "failed"}, try: 0..2,
                         live: BOOLEAN, nip04: BOOLEAN, pinned: BOOLEAN]]
  /\ late \in SUBSET Pays /\ asked \in [Calls -> Nat]
  /\ wallet \in [Pays -> {"none", "pending", "paid", "failed"}]
  /\ mine \in [Pays -> BOOLEAN]
  /\ row \in [Pays -> {"pending", "completed", "failed"}]
  /\ aged \in [Pays -> BOOLEAN]
  /\ sweep \in [of: Pays \union {"none"}, step: {"none", "hash", "invoice", "list", "again"}]

ClientInit ==
  /\ client = "none" /\ pin = FALSE /\ veil \in BOOLEAN /\ cooldown = FALSE
  /\ call = [c \in Calls |-> NoCall]
  /\ late = {} /\ asked = [c \in Calls |-> 0]
  /\ wallet = [p \in Pays |-> "none"] /\ mine = [p \in Pays |-> FALSE]
  /\ row = [p \in Pays |-> "pending"]
  /\ aged = [p \in Pays |-> FALSE]
  /\ sweep = NoSweep

-----------------------------------------------------------------------------
(* The cached client *)

\* getClient: the cached client, or a new one that takes the pin as it is now.
GetClient == IF client # "none" THEN client ELSE IF pin THEN "nip04" ELSE "plain"

\* One attempt of call c: it holds the client it got until that client is closed.
Attempt(c) ==
  /\ client' = GetClient
  /\ call' = [call EXCEPT ![c].at = "open", ![c].try = @ + 1, ![c].live = TRUE,
                          ![c].nip04 = GetClient = "nip04"]

\* evictClient: every call on the cached client loses it.
Evicted == [c \in Calls |-> [call[c] EXCEPT !.live = @ /\ client = "none"]]

Begin(c) ==
  /\ call[c].at = "idle" /\ Attempt(c)
  /\ UNCHANGED <<pin, veil, cooldown, late, asked, wallet, mine, row, aged, sweep>>

\* The second and last attempt, after the back-off if there is one.
Retry(c) ==
  /\ call[c].at = "backoff" /\ Attempt(c)
  /\ UNCHANGED <<pin, veil, cooldown, late, asked, wallet, mine, row, aged, sweep>>

\* The minute's timer closes a client nobody has asked for in five minutes.
IdleClose ==
  /\ client # "none" /\ \A c \in Calls : call[c].at \notin {"open", "wait"}
  /\ client' = "none"
  /\ UNCHANGED <<pin, veil, cooldown, call, late, asked, wallet, mine, row, aged, sweep>>

-----------------------------------------------------------------------------
(* A call that fails *)

\* maybePinNip04Fallback: this error pins nip04 for the URL.
PinsNow(err) == err = "noinfo" /\ ~veil /\ ~pin

\* (mutant) A pay call retries whatever any other call would.
MayRetry_AnyTransient(c, err) == err \in Transient

\* Whether call c may be tried again after err.
MayRetry(c, err) == IF c \in Pays THEN err \in PreSend ELSE err \in Transient

\* finalizePendingSend: only a pending row is decided, and only by an outcome.
Decided(p, state) ==
  IF row[p] # "pending" \/ state \notin {"paid", "failed"} THEN row
  ELSE [row EXCEPT ![p] = IF state = "paid" THEN "completed" ELSE "failed"]

\* What a failed pay call leaves of its row: an ambiguous one stays pending.
RowAfter(c, err) ==
  IF c \in Pays /\ err \notin Ambiguous THEN Decided(c, "failed") ELSE row

\* The catch blocks of payInvoice and withClient.
Fails(c, err) ==
  LET again == call[c].try = 1 /\ (PinsNow(err) \/ MayRetry(c, err))
  IN /\ client' = "none"
     /\ call' = [Evicted EXCEPT ![c] =
          IF again THEN [@ EXCEPT !.at = "backoff", !.live = FALSE, !.pinned = PinsNow(err)]
          ELSE [NoCall EXCEPT !.at = "failed"]]
     /\ pin' = IF call[c].try = 1 THEN pin \/ PinsNow(err) ELSE pin /\ ~call[c].pinned
     /\ cooldown' = (cooldown \/ (call[c].try = 2 /\ err \in PreSend))
     /\ row' = IF again THEN row ELSE RowAfter(c, err)
     /\ UNCHANGED <<veil, aged, sweep>>

\* Before the request is delivered.  A client made under a pin does not negotiate.
FailsToSend(c) ==
  /\ call[c].at = "open"
  /\ \E err \in PreSend : (err = "noinfo" => ~call[c].nip04) /\ Fails(c, err)
  /\ UNCHANGED <<late, asked, wallet, mine>>

-----------------------------------------------------------------------------
(* The wallet, external *)

\* The request reaches the wallet, which starts paying an invoice it does not
\* have a record of.
Delivered(c) ==
  LET starts == c \in Pays /\ wallet[c] = "none"
  IN /\ asked' = [asked EXCEPT ![c] = @ + 1]
     /\ wallet' = IF starts THEN [wallet EXCEPT ![c] = "pending"] ELSE wallet
     /\ mine' = IF starts THEN [mine EXCEPT ![c] = TRUE] ELSE mine

Publish(c) ==
  /\ call[c].at = "open" /\ Delivered(c)
  /\ call' = [call EXCEPT ![c].at = "wait"]
  /\ UNCHANGED <<client, pin, veil, cooldown, late, row, aged, sweep>>

\* The relay does not acknowledge in time; it may have delivered all the same, or
\* deliver later.
PublishTimesOut(c) ==
  /\ call[c].at = "open" /\ Fails(c, "publishTimeout")
  /\ \/ Delivered(c) /\ UNCHANGED late
     \/ late' \in {late, late \union ({c} \intersect Pays)} /\ UNCHANGED <<asked, wallet, mine>>

DeliveredLate(p) ==
  /\ p \in late /\ late' = late \ {p} /\ Delivered(p)
  /\ UNCHANGED <<client, pin, veil, cooldown, call, row, aged, sweep>>

WalletPays(p) ==
  /\ wallet[p] = "pending" /\ wallet' = [wallet EXCEPT ![p] = "paid"]
  /\ UNCHANGED <<client, pin, veil, cooldown, call, late, asked, mine, row, aged, sweep>>

WalletRefuses(p) ==
  /\ wallet[p] = "pending" /\ mine[p] /\ wallet' = [wallet EXCEPT ![p] = "failed"]
  /\ UNCHANGED <<client, pin, veil, cooldown, call, late, asked, mine, row, aged, sweep>>

\* The owner pays the invoice from elsewhere.  Assumption: that attempt succeeds;
\* if it failed, a lookup could not tell its record from the call's.
OwnerPays(p) ==
  /\ wallet[p] = "none" /\ wallet' = [wallet EXCEPT ![p] = "pending"]
  /\ UNCHANGED <<client, pin, veil, cooldown, call, late, asked, mine, row, aged, sweep>>

\* The answer to a pay call, "none" while there is none; a read is answered at once.
Answer(c) ==
  CASE c \in Reads -> "ok"
    [] c \in Pays /\ ~mine[c] -> "already"
    [] OTHER -> CASE wallet[c] = "paid" -> "ok" [] wallet[c] = "failed" -> "refused" [] OTHER -> "none"

Reply(c) ==
  /\ call[c].at = "wait" /\ call[c].live /\ Answer(c) = "ok"
  /\ call' = [call EXCEPT ![c] = [NoCall EXCEPT !.at = "ok"]]
  /\ row' = IF c \in Pays THEN Decided(c, "paid") ELSE row
  /\ UNCHANGED <<client, pin, veil, cooldown, late, asked, wallet, mine, aged, sweep>>

ReplyIsError(c) ==
  /\ call[c].at = "wait" /\ call[c].live
  /\ Answer(c) \in Errors /\ Fails(c, Answer(c))
  /\ UNCHANGED <<late, asked, wallet, mine>>

\* No answer comes, or it comes to a client that was closed meanwhile.
ReplyTimesOut(c) ==
  /\ call[c].at = "wait" /\ Fails(c, "replyTimeout")
  /\ UNCHANGED <<late, asked, wallet, mine>>

-----------------------------------------------------------------------------
(* reconcilePendingSends for the sends whose call ended ambiguously *)

\* The grace passes.  Assumption: no relay delivers a request that old.
Age(p) ==
  /\ call[p].at = "failed" /\ row[p] = "pending" /\ ~aged[p] /\ p \notin late
  /\ aged' = [aged EXCEPT ![p] = TRUE]
  /\ UNCHANGED <<client, pin, veil, cooldown, call, late, asked, wallet, mine, row, sweep>>

Rest == UNCHANGED <<client, pin, veil, call, late, asked, wallet, mine, aged>>

StartLookup(p) ==
  /\ sweep = NoSweep /\ call[p].at # "idle" /\ row[p] = "pending" /\ ~cooldown
  /\ sweep' = [of |-> p, step |-> "hash"]
  /\ UNCHANGED <<cooldown, row>> /\ Rest

Known(p) == wallet[p] # "none"

\* One step of the search found the payment: its state decides the row.
Found ==
  /\ sweep.step # "none" /\ Known(sweep.of)
  /\ row' = Decided(sweep.of, wallet[sweep.of])
  /\ sweep' = NoSweep /\ UNCHANGED cooldown /\ Rest

\* By hash, then by invoice, then in the list of fifty: each may miss or fail.
\* Wallets index one form or the other, and the list is cut short.
Missed ==
  /\ sweep.step \in {"hash", "invoice"}
  /\ sweep' = [sweep EXCEPT !.step = IF @ = "hash" THEN "invoice" ELSE "list"]
  /\ UNCHANGED <<cooldown, row>> /\ Rest

\* The search throws what the lookup by invoice threw: NOT_FOUND, which asks for
\* the second opinion once the row is old, or an error of the relay.
SearchFails ==
  /\ sweep.step = "list"
  /\ \/ /\ sweep' = IF aged[sweep.of] THEN [sweep EXCEPT !.step = "again"] ELSE NoSweep
        /\ UNCHANGED cooldown
     \/ sweep' = NoSweep /\ cooldown' \in {cooldown, TRUE}
  /\ UNCHANGED row /\ Rest

\* (mutant) The truncated page is believed.
AbsentVerdict_AnyPage(complete) == "failed"

\* corroborateNotFound: the verdict on a payment absent from the page.
\* A complete page shows every payment the wallet knows; a truncated one may not.
AbsentVerdict(complete) == IF complete THEN "failed" ELSE "unknown"

Corroborate ==
  /\ sweep.step = "again"
  /\ \E complete \in BOOLEAN :
       /\ complete => ~Known(sweep.of)
       /\ row' = Decided(sweep.of, AbsentVerdict(complete))
  /\ sweep' = NoSweep /\ UNCHANGED cooldown /\ Rest

\* The list cannot be had: nothing is decided.
CorroborationFails ==
  /\ sweep.step = "again"
  /\ sweep' = NoSweep /\ cooldown' \in {cooldown, TRUE}
  /\ UNCHANGED row /\ Rest

CooldownEnds ==
  /\ cooldown /\ cooldown' = FALSE
  /\ UNCHANGED <<row, sweep>> /\ Rest

-----------------------------------------------------------------------------
(* The specification *)

CallSteps(c) ==
  \/ Begin(c) \/ Retry(c) \/ FailsToSend(c) \/ Publish(c) \/ PublishTimesOut(c)
  \/ Reply(c) \/ ReplyIsError(c) \/ ReplyTimesOut(c)

SweepSteps ==
  \/ \E p \in Pays : StartLookup(p)
  \/ Found \/ Missed \/ SearchFails \/ Corroborate \/ CorroborationFails

ClientNext ==
  \/ \E c \in Calls : CallSteps(c)
  \/ IdleClose
  \/ \E p \in Pays : WalletPays(p) \/ WalletRefuses(p) \/ OwnerPays(p) \/ DeliveredLate(p) \/ Age(p)
  \/ SweepSteps
  \/ CooldownEnds

ClientSpec == ClientInit /\ [][ClientNext]_clientVars

-----------------------------------------------------------------------------
(* Properties *)

\* "NEVER auto-retry a payment after the request may have been sent": whatever
\* fails, and whoever closes the shared client under it, the wallet gets one
\* request of a pay call at most.
PayReachesOnce == \A p \in Pays : asked[p] <= 1

\* A send fails only if the wallet is not paying on its behalf and completes only
\* if its invoice was paid: an error that is not ambiguous, a lookup and a second
\* opinion all have to be right about that.
VerdictsAreTrue ==
  \A p \in Pays :
    /\ row[p] = "failed" => ~ (mine[p] /\ wallet[p] \in {"pending", "paid"})
    /\ row[p] = "completed" => wallet[p] = "paid"

-----------------------------------------------------------------------------
(* The client keeps the promise of PayCall *)

CallPromise == INSTANCE PayCall WITH
  Payments <- Pays,
  asked <- [p \in Pays |-> asked[p]],
  money <- wallet,
  mine <- mine,
  verdict <- [p \in Pays |-> IF row[p] = "pending" THEN "open" ELSE row[p]]

\* Whatever the relay does to the shared connection, a payment is asked for once at
\* most, its row tells the truth and is final, and one whose row says failed is not
\* delivered afterwards.
ClientKeepsPromise == CallPromise!Spec

=============================================================================
