# A verification project for openLN

openLN is a non-custodial Lightning commerce server: it mints invoices at the
merchant's own wallet, wraps them in hold invoices of a platform wallet to take
a fee, pays for Bolt Cards out of the cardholder's connected wallet, and keeps
the books. It holds no keys, so almost everything that can go wrong is a matter
of *order*: several server processes, a wallet that answers late or never over
Nostr relays, a database row that must agree with what the wallet did.

This directory has TLA+ modules of those parts, TLC configurations that check
them on small instances, and proofs for TLAPS that hold for every instance. All
paths below are relative to `src/`.

    cd tla
    tlc -workers 2 -config MCHoldWrap_safety.cfg MCHoldWrap   # any run of PROJECT.json
    tlapm HoldWrapProofs.tla

## 1. The system

The server (`core/server.ts`) is one Node process, deployed so that several
instances may run at once on one Postgres database ("Production runs on
autoscale", `core/money/holdWrap.ts:34`). Every Map and Set in a module is
therefore state of one instance and gone after a restart; what instances share
is rows. Within an instance handlers interleave at every `await`.

| component | state | operations | talks to |
|---|---|---|---|
| hold-wrap engine `holdWrap.ts` | a row of `pending_invoices` (`wrap_status`, claim time), per-instance retry throttle | create, advanceWrap, cancelWrap, finalizeSettled | platform wallet (hold, pay, lookup, settle, cancel), books, partner earnings |
| wrap driver `wrapDriver.ts` | `running`, `inFlight`, `kicked`, `lastPass`, `lastInterest` | sweep (5 s), kick, advanceWrapNow | engine |
| wallet notifications `nwcNotifications.ts` | one subscription, its retry timer | start, retry, stop | platform wallet, driver |
| Bolt Card taps `card-tap.ts` | the card row: status, counter, pending k1, PIN tries, limits | tap, callback | fee engine |
| fee engine `feeEngine.ts` | rows of `transactions` | processExternalPayment, finalizePendingSend, resolveAmbiguousPayment | cardholder's wallet |
| RIC sends, app sends `posbox.ts`, `server.ts` | a withdrawal QR, rows of `transactions` | withdrawal callback, send to a card, pay | fee engine |
| invoice monitor `invoiceMonitor.ts` | unpaid invoices, sweep cursor, pending sends, looks in flight | settle, batch check, reconcile an account, sweep, reconcilePendingSends | wallets, engine, fee engine |
| partner share and payouts `partnerShare.ts`, `partnerPayouts.ts` | `partner_earnings`, `partner_payouts` | accrue, request, execute, reconcile, driver tick (60 s) | platform wallet, partner's Lightning address |
| NWC client `nwc.ts` | client cache, per-relay cooldown | pay, mint, lookup, hold operations, one retry | relays |
| funding sources `walletSource.ts`, `/api/connections` | saved wallets, the default, assignments, the mirror in `accounts` | connect, resolve, assign, remove | all payers |
| wallet adapters `lnAddress.ts`, `blink.ts`, `clink.ts`, `lnurlTarget.ts` | none | mint, verify, pay, ask for an allowance | third-party HTTP, Nostr |
| POS checkout routes `server.ts` | none of their own | invoice by lane, LNURL callback, cancel, status | engine, adapters, monitor |
| CLINK hook `clinkWebhook.ts` | hook id and bearer secret | ensure, rotate, process a callback | invoice monitor |
| cards `cards.ts`, `auth/card-pin.ts` | card rows, provisioning tokens | issue, freeze, wipe, PIN, mark written | card writer, RIC |
| card writer `card-writer/`, `NfcWriter` | an NTAG424 half-way through being written | write, wipe, verify | local bridge, card rows |
| accounts `auth/service.ts` | entities, accounts, device tokens | register, login, migrate, authenticate, change the password | all routes |
| Rizful set-up `plugins/rizful.ts`, `rizfulProvision.ts` | in-memory queue, `rizful_provisions`, a browser context | post, drain, process, re-link, one run | a headless browser, a mailbox, saved wallets |
| RIC management `plugins/ric-management.ts` | telemetry rows, a release on disk | hello, status, manifest, chunk | firmware |
| RIC firmware `firmware/esp32-pos` | the device's checkout, NFC session, OTA state | invoice, poll, tap, cancel, update | HTTP routes |
| admin `core/admin/*` | none of its own | advance, cancel-hold, lookup, remediate | engine, fee engine |
| exchange rates `price.ts` | a quote per source and currency, one minute | getBtcPriceFor | CoinGecko, Binance |
| Telegram link `plugins/telegram-link.ts` | codes, links | mint, redeem, unlink | support bot |
| books, payment log, reports | append-only events | record, classify, query | |

What makes each hard, and what makes it right:

- **Hold wrap.** The platform pays the merchant *before* it captures the
  customer's hold. Two instances, the driver, a kick, a checkout's status poll
  and an admin may all advance one row; a process dies between two calls; a pay
  request times out and arrives anyway; a hold expires. Right means: never
  charge a customer whose merchant was not paid, never refund a customer whose
  merchant was, book a sale once, and let no sale hang.
- **Card taps and sends.** A tap's challenge may be replayed or presented twice
  at once; the answer of a pay call may be lost; the reconciler, the callback
  and the wrap engine all write verdicts. Right means: one payment per tap, no
  "failed" for a payment that went through, no final row rewritten, no send
  pending for ever. The same holds for sends from Blink and CLINK wallets.
- **Payouts.** Claim, mint, save, pay and book are five writes with crashes and
  timeouts between them. Right means: each payout is paid once, the partner is
  never paid more than was earned, and what the wallet recorded gets booked.
- **Wrap driver and admission.** Sweeps, kicks, notifications and closes work on
  the same rows, and one hung promise under a module-wide mutex stops all sales;
  the float gate is a check before an insert. Right means: every sale ends,
  nobody's checkout is closed under him, and what is owed stays near the float's
  share however many checkouts race.
- **Receive side.** Sweep, account reconcile and hook settle one invoice. Right
  means: booked once and only if paid, wrapped sales left to the engine, every
  paid invoice found, and no read of an account held up by a wallet.
- **NWC client.** All calls of one wallet share one connection, which any failing
  call closes. Right means: the wallet gets one request of a pay call at most, and
  an error is called definite only if the payment was not made.
- **Checkout.** A sale falls from the wrapped lane to a direct one at many points.
  Right means: no sale on an invoice that nobody can see paid.
- **Funding sources and accounts.** Check-then-write on defaults, hooks and
  password migration; a registration of two inserts. Right means: a send is judged
  by the wallet that paid it, and what was set last on purpose stays.
- **Cards and their writer.** A chip lifted off in mid-write, two chips on one
  record, a wipe reported while a setup link is asked for. Right means: one
  record is always enough to wipe a chip, and keys are not handed out twice.
- **Rizful, RIC, firmware.** Restart in the middle, a browser that hangs, a
  release replaced while it is being read, posts after a revocation. Right means:
  one run at a time, nothing left open, no account blocked for good, a device
  boots only a whole image.

`PROJECT.json` lists every component with its status and every hazard at the
line where it bites, with the properties that would catch it.

## 2. Modules

| module | what it is |
|---|---|
| `WrapSale` | abstract: what one wrapped sale promises (money of the customer, money of the merchant, the ledger) |
| `HoldWrap` | `holdWrap.ts` for one sale: row, node, any number of server instances and cancelWrap calls |
| `PayCall` | abstract: what a payment out of a wallet promises, whoever asks for it and by whatever protocol |
| `WrapGate` | the ceiling and the float gate of createWrappedInvoice with racing checkouts |
| `WrapDriver` | when several open sales are advanced or closed: sweep, chunks, kicks, notifications |
| `Notifications` | the subscription to what the platform wallet pushes, with its retries |
| `CardTap` | one card: taps, callbacks, the send rows, the reconciler, the wrap engine as seen from a payer |
| `WalletSends` | payments out of Blink and CLINK wallets, their three surfaces and the reconciler's batch |
| `Allowances` | a request for a spending allowance to a CLINK wallet |
| `PartnerPayouts` | request, execute and reconcile of one partner's payouts |
| `NwcClient` | the cached connection, the single retry, the error classes, the second opinion on NOT_FOUND |
| `SavedWallets` | an account's wallets, default, assignments and legacy mirror; which wallet judges a send |
| `Checkout` | from a request to an invoice, by lane; a CLINK offer's hook |
| `InvoiceMonitor` | direct invoices: sweep with its cursor, account reconcile, paid callback, one conditional update |
| `Reconciles` | reads of an account that look for payments first |
| `CardRecords`, `CardWriter` | the life of a card's record; the tools that write and wipe chips with it (EXTENDS CardRecords) |
| `Accounts`, `TelegramLink` | passwords and their migration; codes that link a Telegram user |
| `AdminPayments` | an operator's advance, cancel-hold and remediate beside the driver and the reconciler |
| `Rizful`, `RizfulFlow` | the queue of one-click wallet runs; one run with its browser, mailbox and page |
| `RicDevices`, `FirmwareUpdate` | device tokens and telemetry; an update over the air |
| `Prices` | exchange rates from two services and a cache |
| `*Proofs` | theorems, section 4 |
| `MCHoldWrap`, `MCCardTap`, `MCPartnerPayouts`, `MCWalletSends` | one component for TLC: model values and symmetry |
| `MCServices`, `MCProgress`, `MCWaits`, `MCMerchant` | several components for TLC, one of them chosen in Init |

**Several components in one state space.** In the last four a variable `which` is
chosen in the initial state and never changes; only the component it names takes
steps, the others rest. States of the components add up and do not multiply, and
each one's behaviours are exactly those of its own specification. `MCMerchant` has
eleven components: payouts and the NWC client keep variables of their own, the other
nine share `x1` to `x8`, and a property of one of those is stated under
`which = ...`. Payouts and cards are taken twice there, with a bound each for TLC:
`"payout"` with no row taken back (`NoneRetaken`) and `"ticks"` with one (`OneRetaken`:
one sat earned, no failing update), `"card"` with the first card and its requests
(`OneCard`) and `"keys"` with both and none (`TwoResults`); for the saved wallets
there is `SavedBeforeSends`. `MCSpec` is `MerchantSpec` under these `Bounds`, and `MCCardTap` has `CardRests` in the same way:
what is proved is of the specification without them. The other bounds of `MCMerchant`
and `MCWaits` are in their cfg files, so that what the modules say, and what is proved
of them, is for any values. Where two
components do interact, the one that is modelled in less detail is part of the
other's module: the wrap engine in `CardTap` and `AdminPayments`, the driver's
advance in `WrapDriver`, a look's effect in `Reconciles`.

**Two abstract specifications.** `WrapSale` is what a wrapped sale promises; the hold-wrap
engine implements it (`KeepsPromise`), and `CardTap` moves the hold of a sale of this
server as it allows. `PayCall` is what a payment out of a wallet promises: the wallet is
asked once at most and not for a payment that was given up; the books close a payment
once, as completed only when it was paid, and as failed only when the wallet is not
paying on its behalf. Four components implement it, each with a refinement mapping at the
end of its module:

| component | a payment is | asked, money | verdict |
|---|---|---|---|
| `NwcClient` (`CallPromise`) | a pay call | requests the wallet got; its record, which the owner may have caused (`mine`) | the send's row |
| `CardTap` (`CardPromise`) | a callback that pays somebody else's invoice | the wallet's record | the send's row, completed also where its update threw (`broken`) |
| `WalletSends` (`SendPromise`) | a send | the wallet's record, none while the request is on its way | the send's row |
| `PartnerPayouts` (`Promise(p)`, one for each payout, until a tick takes it back) | a payout, with all its invoices and attempts | how many invoices the platform wallet was asked for; the best of their records | the payout's row, `requested` and `sending` being open |

So the answer to "may this be asked again, may it be failed?" is the same in all four,
although one has retries on a shared connection, one a terminal that waits, one replies
of two protocols, and one a queue that mints a new invoice when it is interrupted. Calls
of `CardTap` that pay a sale of this server are left out: those may be completed while
the hold is only locked (section 5). PayCall speaks of the books; what a surface answers to
a person is in SendVerdictIsTrue and in the violation `ric_sends`.

**How a wallet call is modelled.** A call over NWC is two steps: the wallet
handles the request, then the caller goes on with the answer, and every other
actor may act in between. The request may be lost, the wallet may act and its
reply be lost, and (HoldWrap with `LateRequests`, CardTap, NwcClient and
WalletSends always) a request may arrive after its caller has given up. Callers
branch on the same classes of error as the code: refused, ambiguous, not found. A
row update is one step, with the `WHERE` clause as its condition; a read that is
used after an `await` is kept in a variable of the process that read it.

### HoldWrap and the code

`worker[p]` is the program counter of one `doAdvance` (`holdWrap.ts:594-875`) in
instance *p*: `ReadRow` is the select of a caller, `AdvanceWrap` the dispatch on
the status *that was read*, which may be stale; the remaining actions are the
awaits of doAdvance, in order. The in-flight map of `advanceWrap` is one worker
per instance. `claimAge` is the row's `forwarding_at` against
`FORWARD_STALE_MS` and `FORWARD_ABANDON_MS`, `clock` the expiry and its grace,
`throttled` the per-instance `forwardRetryAt`. `closer` is `cancelWrap`. `hold`
and `out` are the node's own records. Legacy rows without a stored preimage or
merchant invoice are left out.

### CardTap, WalletSends, Allowances and the code

`CardTap`: `call[c]` is the program counter of one callback: `Callback` is the
request up to the consumption of the k1 (card-tap.ts), then limits, PIN, the
in-flight guard, `InsertPending` and the pay call of `processExternalPayment`,
`resolveAmbiguousPayment` with its budget, and the answer to the terminal.
`verdict[c]` is what `reconcilePendingSends` has found and not yet written. For
calls in `Own` the invoice is a hold of this server: `hold` and `wrap` move as
`WrapSale` allows, which is what `checkOwnSettlementProof` reads. Assumption: a
published pay request reaches the wallet, if at all, within the reconciler's two
minute non-arrival limit (`age = "young"` in `RequestArrives`); the code makes
the same assumption when it fails a send on NOT_FOUND
(`invoiceMonitor.ts:705`). A definite error is written as failed by an update whose own
failure is swallowed (`feeEngine.ts:265`): the row may stay pending while the terminal is
told ERROR. The engine gives a hold back in two steps, the node and then the row
(`HoldReleased`, `EngineRefunds`), and `cancelWrap` reports a wrap somebody else has
cancelled as cancelled (`ReconcileCloses`).

`WalletSends` is the same engine with the other two adapters. `code[s]` is how far
a surface is with its payment, `wallet[s]` where the request is: on its way, in the
wallet's hands, paid or refused. The three surfaces differ in what they do with an
error: the withdrawal callback (`plugins/posbox.ts`) leaves the QR open, send-to-card
credits the holder only after success, the pay screen returns the engine's verdict.
`Batch` is the ten rows of `reconcilePendingSends`. Assumption: each payment is for
an invoice of its own, so that Blink's records under a hash are this payment's.
`Garbled` turns on replies that nobody can read; the runs leave it off (section 5).

`Allowances`: a request to `/api/connections/:id/authorize` until it is answered,
with the wallet's owner deciding at any time, the SDK's reply and its socket.

### NwcClient and the code

`client` is the one cached client of a wallet URL and `call[c]` a call that uses it:
`Attempt`, delivery, the wallet's answer, and what `withClient` or `payInvoice` does
with an error (evict and close the cached client, wait, try once more). A call that
fails closes whatever client is cached by then, so another call's reply is lost under
it. `asked[p]` counts the requests of a pay call the wallet got. `sweep` is the part
of the reconciler that asks about an old row: by hash, by invoice, in the list, and
after that again by hash before it fails the row. What the wallet library raises is
external: "failed to publish", "rate-limited", "no info event" and "failed to
connect" mean that nothing was delivered. Assumption: no relay delivers a request
older than the age at which NOT_FOUND counts.

### PartnerPayouts and the code

`job[j]` is one call of `executePayout` or `reconcilePayout`; jobs in `Drivers`
are ticks of the payout driver and may pick up rows they did not execute. Any number
of ticks may overlap: `startPartnerPayoutDriver` starts one every minute on every
instance, whether or not the one before is over (`partnerPayouts.ts:251-276`).
`requestPartnerPayout` (under a row lock) and the claim are conditional on the
state; every other update names the row by id alone, exactly as in the code, and
that is the point of the runs. `retaken` is not state of the code: it collects the
payouts that a requeue took back although, since the tick read them, others had gone on
with them (`NobodyWentOn` is false), the one thing overlapping ticks can do wrong. An
update that saves the minted invoice and throws books the payout failed
(`SaveInvoiceBreaks`), since it is inside the payment's try. `old` is `updated_at` past five minutes; a live
executor reaches its saved invoice before that, since what it waits for has
timeouts.

### WrapGate, WrapDriver, Notifications and the code

`WrapGate`: `checkout[c]` is one `createWrappedInvoice`; `CountOpen` is
`openWrapStats` and the ceiling, `CheckFloat` the balance (cached or read) and the
percentage, `Insert` the route's insert after both mints. A place of `Places` whose
row is closed or expired for an hour is free for a later sale, so the module is
not bounded in time.

`WrapDriver`: `drive` is the local state of the one `drive()` that may run, `pass`
is `inFlight` with who put the hash there, `heard` is `lastInterest` (per process)
and `polled` what devices really did. `Poll` is `wrapStatusView` with `kickWrap`,
`Notify` is `advanceWrapNow`. What an advance does to the row is `Outcomes`, a
summary of HoldWrap: nowhere while the hold is unpaid and alive, ahead once it
is paid, nowhere when a call fails. Which rows are due is any subset of those not
in flight: that stands for `MIN_INTERVAL_MS`, `kicked` and the relay's cool-down.

`Notifications`: `at` is the one promise chain of `subscribe`, `timer` the variable
`retryTimer` (set, or fired and not yet forgotten), `pause` the doublings of the wait.

### SavedWallets, Checkout, InvoiceMonitor, Reconciles and the code

`SavedWallets`: `req[r]` is one of the `/api/connections` routes between two of its
statements, with what it read. A removed connection empties every pointer at it, as
the foreign keys of migrations 0018 and 0019 do. `send[s].via` is the snapshot
`connection_id` of a payment; the reconciler asks that wallet, or what the account
resolves to when there is none.

`Checkout`: `req[r]` goes through `POST /api/pos/invoice` or the LNURL callback: the
wrapped mint, its fall-back, the lane of the merchant's wallet and the row that is
stored; `row[r]` is that row with what can see it paid. `hookReq` are requests for
an offer's hook between `ensureClinkHook`'s check and its write. `world` is what the
providers do, which may change after an address was saved.

`InvoiceMonitor`: an invoice's number is its place in the order (created_at, id),
its lane says who can look it up. `batch[k]` and `found[k]` are the loop of
`checkInvoiceBatch` in one reader and the row a caller has seen paid. `Callback(h, i)`
is a paid callback of the merchant's wallet, which may be lost and, since the wallet's
startup recovery repeats it (`clinkWebhook.ts:8-9`), may come any number of times;
`PaidFromHere` is the fast path of a card or a send of this server that paid the
invoice. The cursor's
milliseconds are why `Pages` may start at the cursor's own row. `Reconciles` has
`inflightReconciles`, the debounce and the three seconds a read waits; a look takes
as long as it likes there, and may never end.

### CardRecords, CardWriter and the code

A row of `rec` is a card with its status and whether its setup link can still be
redeemed; a request that reads the row and then updates it is two steps. `chip[x]` is
an NTAG424: five keys (each the factory's or a card's), the address, and whether SDM
is on. A flow is the list of commands of `card-writer/engine/boltcard.js`, or of the
RIC's wipe screen, with the session it needs; a command is obeyed or refused and a
lifted card ends the flow before or after the chip obeyed. Assumption: a chip is as
`card-writer/tests/mock.mjs` has it.

### Accounts, TelegramLink, AdminPayments and the code

`Accounts`: a hash is its format and the password it is of; `rehash` is the write
that `login` does not wait for. `TelegramLink`: a redemption's five statements, with
`telegram_links` holding an account and a person once each. `AdminPayments`: `tool[o]`
is one tool of `adminPayments.ts` with what it has read; the sale and the card's row
are reduced to what the tools distinguish.

### Rizful, RizfulFlow, RicDevices, FirmwareUpdate, Prices and the code

`Rizful`: `queue` and `active` are the process's, `row` the table; `late` are progress
writes under way when a run ends. `RizfulFlow`: one `runRizfulFlow`, wait by wait;
`left` is what remains of a wait's deadline, and any command of the browser may fail
or get no answer. A `context` the browser was told to give up and did not is `"refused"`:
`CdpPage.close` swallows that error. `RicDevices`: a post is authorised, then written under the row lock
if its token still stands. `FirmwareUpdate`: a file is the number of its release or
half written; the device's slots, journal and report are its flash. `Prices`: a call
of `getBtcPriceFor` with the calls it makes in turn; a quote is its currency and
whether it ever came out of an expired entry.

## 3. Runs

| run | instance | shows |
|---|---|---|
| `wrap_safety` | HoldWrap: 2 instances, 1 cancelWrap; crashes, late requests, holds released by the node | MerchantPaidFirst, BooksAreTrue (PaidViewIsTrue, SaleBookedOnce, EarningNeedsPaidMerchant), ReversedSaleNotForwarded, StatusMovesForward, and the refinement KeepsPromise |
| `card_safety` | CardTap: 2 taps, 2 callbacks (one own hold); once both have begun, the card itself is left alone (`CardRests`) | TapPaysOnce; SendVerdictIsTrue (the row and the terminal never say failed of a payment that went through, nor completed of one that did not); CardKeepsPromise (the refinement of PayCall, and SendIsFinal) |
| `services` | WrapGate: 4 places, 2 checkouts, ceiling 2. WrapDriver: 2 sales, chunks of 1, 1 restart. InvoiceMonitor: 4 invoices of 4 lanes, pages of 2, 1 callback at a time, 1 send, 1 restart | AdmissionNearLimits (OpenNearCap, OwedNearFloat); OnlyUnaskedAbandoned; SweepsAreSafe (booked once if received, wrapped sales left alone, a sweep within MAX_CONCURRENT_ADVANCES); SweepsGetThere (OpenSaleEnds of the driver, PaidInvoiceIsSettled of the monitor) |
| `progress` | HoldWrap: 1 instance, 1 cancelWrap, node may release, once with every attempt on record and once with payments the wallet may refuse. CardTap: 1 tap, 2 callbacks. PartnerPayouts: 1 payout, a kick and a tick | PaidHoldIsDecided, ForwardEndsInBooks (with OldClaimIsFlagged), PendingSendIsResolved, RecordedPayoutResolves |
| `waits` | WalletSends: 3 sends (CLINK, Blink, Blink) on 3 surfaces, batches of 2. Rizful: 2 runs, 2 connections. RizfulFlow: 2 addresses, clicks and polls. Notifications: 6 pauses. Reconciles: 3 reads, 2 looks. Allowances: 2 requests | VerdictsAreTrue, PaidSendCompletes, RunsKeepApart, RunsGoOn, WaitsEnd, ParallelReadsSeeIt, EventuallySubscribed, and the refinement SendKeepsPromise |
| `merchant` | PartnerPayouts: 2 payouts, 2 jobs that may both be driver ticks, once with no row taken back, once with one; NwcClient: 1 pay call, 1 read; SavedWallets: 3 wallets of 3 kinds, 2 rows, 2 requests, 1 send, which begins when the wallets are saved and before requests overlap; CardWriter: 2 cards, 1 chip, 1 tool, 1 data key, once with the first card and a request, once with both cards, none, and at most two results to report; AdminPayments: 2 operators; FirmwareUpdate: 2 releases, 2 chunks, 1 deployment; RicDevices: 2 posts; Checkout: 1 request, 2 reads of the hook; Prices: 2 calls, 2 currencies; Accounts: 2 logins, 2 changes; TelegramLink: 2 accounts, people, codes and redemptions | PayoutsAreSound, NeverOverpaid, PaymentsAskedOnce, BooksFollowWallets, CardKeysAreWhole, UpdatesAreWhole, SalesAreSound, AccountsStayInOrder, StaysForGood, and the refinement PaymentsKeepPromise |
| `wrap_refund` (violation) | HoldWrap: 1 instance, refusals | refunded *and* forwarded, without a crash |
| `wrap_cancel` (violation) | HoldWrap: 1 instance, 1 cancelWrap | a checkout closed with the customer's HTLC locked |
| `card_guard` (violation) | as card_safety | two callbacks both pass the in-flight guard |
| `card_dberror` (violation) | as card_safety | a settled payment booked as failed after a database error |
| `payouts_double` (violation) | PartnerPayouts: 2 overlapping ticks | a sent payout requeued and paid again |
| `ric_sends` (violation) | WalletSends: one withdrawal QR, scanned twice | a paid withdrawal answered with an error, and its QR open for another |

A property of `merchant`, `waits` or `services` named here is a conjunction of those
of its components; the comments in `MCMerchant`, `MCWaits` and `MCServices` say of which.

**Bounds, and why they are enough.** One sale in HoldWrap: the engine's rows share
nothing but the float, which is WrapGate's. Two instances: every conflict in
`holdWrap.ts` is between the holder of a stale row and one other process, and the
safety theorems cover any number of both. Two callbacks and two taps: a replay
needs one tap and two callbacks, the guard and the daily limit need two taps;
`DailyLimit = 1` and `PinTries = 1` make both limits bite. `MaxTap = 1` in
`progress` because the property is about one row at a time. Two payouts and two
jobs, both of which may be ticks: a requeue conflict needs two on one payout, the
balance needs a second payout; `MaxEarned = 2` with `MinPayout = 1` lets a second request happen beside
or after the first, `MaxMint = 2` lets one payout mint again after a requeue
(what happens to a third attempt is the second once more). With a row taken back
(`"ticks"`) one sat is enough to see what the exception leaves of the properties, and
the other payout is the one that is not exempt. A card
at rest (`CardRests`) loses nothing: what the owner, a tap or the challenge's time do
matters only before a callback has read the card, and all of it happens while one has
not begun.
In `services` two checkouts race past a ceiling of two, and four places leave room
to see how far; a chunk of one makes two sales wait for each other; the payable
invoice stands behind three the sweep cannot settle and a page holds two, so only
a cursor that moves reaches it. The batch of 40 is larger than the number of sales
in that run: when more sales are open, the oldest rows can keep later ones out of
the batch for as long as they stay open.

In `merchant` one pay call and one read are the least that share a connection, each
with its retry, and the theorem covers any number. Two overlapping requests with two
rows reach every conflict of two routes in SavedWallets; three wallets are one per
kind of mirror (NWC, Lightning address, none). Requests that overlap before a payment
(`SavedBeforeSends`) would leave it the pointers single ones can leave, or none, and
SendJudgedByItsWallet speaks of payments that had one. A chip is torn in the middle of one
card's keys, of which one data key and the master key are the least, and meets a
second card; a chip's keys are there by hand whether or not a link still is, so
`TwoResults` leaves links to the requests' part. That the order holds for any number of keys is proved. Two releases and
one deployment are enough for an offer and its chunks to come from different files;
two posts for a merge. Two redemptions, codes, people and accounts are each other's
conflict. In `waits` a CLINK row nobody can answer for stands before two Blink ones
and a batch holds two, so it is one row short of keeping the second out; two runs of
Rizful are one that blocks and one that waits; two looks and three reads let one read
join, one come after the debounce. Two clicks, polls and addresses stand for eight,
a deadline's worth, and five: the last of each is the branch that differs. Six
doublings of the pause are where the code's limit of five minutes has been reached.

Deadlock is not checked: a sale, a card whose counter reached its bound and a
paid-out partner really come to rest.

**Fairness.** `HoldWrap!FairSpec`: the driver's sweep reads open rows every five
seconds (`ReadRow`, `AdvanceWrap`, weak), a step under way goes on (`Advancing`,
weak), and a call repeated for ever is answered some time (`LookHold`,
`SettleHold`, `CancelHold`, strong, since each attempt may fail and lead away).
Payments end and clocks move. The run excludes crashes: with endless crashes
nothing finishes, with finitely many the last restart starts the argument again.
It also assumes that every call of the wallet library settles in the end; a call
that never does is listed as a hazard of the wrap driver. `CardTap!FairSpec`: the
20 s sweep looks at every row (weak) and its writes get through although
restarts interrupt it (strong); a payment the wallet started ends. The sweep's
batch of ten is a hazard of its own, which `WalletSends` has.
`PartnerPayouts!FairSpec`: the driver ticks and the wallet answers again and again
(strong, since a tick may die), a started job goes on. `MCProgress` states these three
together: since `which` never changes, one condition on a step of one component
or another is each component's own.
`WrapDriver!Fairness`: sweeps go on (weak), every row that can be due is due
again and again and some advance succeeds again and again (strong, since
notifications and failing calls get in between), every call comes back and time
passes (weak). No device, customer or notification is obliged to do anything.
`InvoiceMonitor!Fairness`: cron starts sweeps and their batches go on (weak); a
lookup or update tried again and again succeeds (strong). Reading an account is
nobody's duty, so PaidInvoiceIsSettled rests on the sweep alone. SweepsGetThere is
OpenSaleEnds and PaidInvoiceIsSettled, of two components that share no state.
`MCWaits` needs weak fairness only, of what has a clock or a caller in the code: the
20 s sweep of pending sends (`Reconcile`), the fifteen minutes after which a run of
Rizful is stale and the drain loop's next step (`GoesStale`, `JobStep`), the deadlines
of a run's waits (`RizfulFlow!Step`), the retry timer (`Notifications!Step`), the
three seconds of a read (`Reconciles!Timers`) and the deadline of an allowance
(`Allowances!Ends`). No wallet, owner, page, mail or relay has to answer;
EventuallySubscribed has the relay stay up in its hypothesis.

**Findings.** Six runs end in a violation on purpose: each checks a sentence of
the code's own comments that the code does not keep. `PROJECT.json` quotes the
sentence and gives the line. The properties of the passing runs name the exception
where one of these is possible: `broken` is the set of callbacks or payouts whose
row update threw after the payment had settled, `retaken` that of the payouts a late
tick took back.

## 4. Proofs

**HoldWrapProofs**, for any set of instances and closers and any setting of the
switches. The inductive invariant is

    Inv == TypeOK /\ PaidTraces /\ SaleBookedOnce

`PaidTraces` says what each trace of a paid merchant rests on: a settled hold, a
row in `forwarded` or `settled`, an earning, and every worker at a step that the
code only reaches after it learned that the payment succeeded (`paid`,
`dupPaid`, `settle`, `settleFailed`, `sawSettled`, `earn`) all imply
`out = "settled"`. The last part is the strengthening: `MerchantPaidFirst` alone is
not inductive, since nothing in it says why the worker about to settle the hold may
do so; and because `out` never leaves `"settled"`, a worker's knowledge cannot go
stale, which is why no lock is needed. From `Inv` follow SpecTypeOK,
SpecMerchantPaidFirst, SpecBooksAreTrue and SpecStatusMovesForward. For SpecKeepsPromise one
more invariant is needed (`NothingBeforeLock`: while the hold is open or lapsed
the merchant is unpaid and no request or claim exists), and then each action maps
to a step of WrapSale or to a stutter.

The same module, under the one hypothesis `Recorded == ~Refusals` (every attempt to pay
leaves a record in the wallet): no sale the server took back was forwarded
(SpecReversedSaleNotForwarded, of which SpecRefundedSaleNotForwarded,
SpecCancelledSaleNotForwarded and SpecEarningNeedsSettledRow are the parts), crashes,
late requests and holds released by the node included. A hold that the node gives
back by itself is `"released"` and one that the server gives back `"refunded"`: the
promise is about the second, and nothing the server does can prevent the first. The
strengthening `Reversals` says that a process about to give money back has seen the
one attempt fail, and that a row is cancelled only with `NeverClaimed`: no process
has claimed the forward and none holds a row that says so. Without the hypothesis
`wrap_refund` is the counterexample.

**CardTapProofs**, for any number of calls, taps, limits and tries. The inductive
invariant is

    Inv == TypeOK /\ TriesLeft /\ ChallengesConsumed /\ RowAfterGuard

`ChallengesConsumed`: a tap a callback carries is not the pending challenge and
not above the card's counter, and no two callbacks carry the same tap.
`RowAfterGuard`: a callback that has no row yet has not passed the insert. Together
they give SpecTapPaysOnce: k1 is consumed by a compare-and-set before anything is
paid, and the counter only grows, so a tap's challenge is never handed out again.
`TriesLeft` is what TypeOK needs: a card that is not locked has tries left, so a
callback sets out with a count below the limit. SpecSendIsFinal is an action
property from the same invariant.

SpecSendVerdictIsTrue needs more. Many processes write verdicts and none of them holds
a lock, so the argument is about evidence. `Paid(c)` and `NeverPaid(c)` (the payment
failed, the sale was closed, or the request can no longer arrive) are each for good
(`Kept`), and `Knowledge` says that every verdict held by a process, written to a row
or given to the terminal was taken with the matching evidence; `Money` ties the
wallet's record to the hold of a sale of this server. The exception is `broken`, which
`card_dberror` shows to be needed.

SpecCardKeepsPromise and SpecImplementsPayCall are the refinement of PayCall. `WritesRow`
lists the few ways a row can change, `WhatMoves` what a step changes of what the mapping
reads, and RowMoves and MoneyMoves are the two halves: a row that becomes failed is of a
call that is `NeverPaid`, so the money is not there and cannot come, and a request can
still arrive only while its row is open.

**PartnerPayoutsProofs**, for any payouts, invoices, executors and overlapping driver
ticks; `PayoutConstants` says only that two bounds are numbers. The invariant is about
every payout that is not `retaken`, and its jobs are followed through two phases, those
apart that are about to requeue it. Before an invoice is saved one job at most is at
work (`BeforeInvoice`, `EarlyJob`); after that the row never goes back to requested, no
other invoice of it is ever paid, and what a job is about to write is what the wallet did
(`AfterInvoice`, `LateJob`). A tick that requeues the row while it is still old and
without an invoice puts it back where a claim finds it, however many ticks do so; if
anybody has gone on with it meanwhile, that step makes the row `retaken`. From these
follow SpecPaidOnceUnlessRetaken, SpecFailedIsNotPaid, SpecPayoutIsFinal (a final row
stays final, `FinalStep`, because whoever could write it again has nothing else to write,
or takes it back in that step) and, with the row lock of a request, SpecOnePayoutInFlight.
SpecSentWasPaid has no exception: an invoice belongs to the job that minted it until it
is sent (`OwnInvoices`), so what a job has seen settled is, whichever rows were taken
back. `payouts_double` shows that the exception is needed, and SpecTakenBackByOverlap
that overlap is all there is to it: were no two ticks ever to overlap, `retaken` would
stay empty.

SpecNeverOverpaid adds that the payouts are finitely many. A request books what
`balanceWith` leaves, so `Ledger` is the invariant: the amounts of the payouts that hold
money (`Held`: requested, sending or sent) add up to no more than was earned.
The exceptions are on neither side of that sum. PaidOnceUnlessRetaken makes what was
received of a payout its amount at most, and FailedIsNotPaid says that a payout whose amount is free again holds none. The sums are
`SumFunctionOnSet` of the community modules; that a fold over a set takes one member more
as its value plus the rest, that a part is no more than the whole, and that smaller
values have a smaller sum are lemmas, each shown by induction on finite sets in the form
the provers take (a set of the sets for which it holds).

SpecPayoutKeepsPromise, the refinement of PayCall: `Recorded` says what the wallet knows
of a payout (nothing, or a record of one invoice, the saved one), so that the count of
invoices asked for is 0 or 1; `RequestLeaves` is the one step that makes it 1, and shows
the row open; `RowCloses` that a row closes with the wallet's record.

**NwcClientProofs**, for any disjoint sets of pay calls and reads on one connection
(`NwcConstants`): SpecPayReachesOnce and SpecVerdictsAreTrue. A call that may still be
tried has not been delivered (`Untried`), a delivery is the last (`OneRequest`), and
only rows whose request no relay keeps are old enough for NOT_FOUND to count
(`OldRowsAreQuiet`); so a failed row is of a payment the wallet refused or never had
(`FailedForGood`). SpecClientKeepsPromise is the refinement of PayCall: the same facts
at the step that delivers a request and at those that close a row.

**ServicesProofs**, of the three services of MCServices side by side
(`ServicesConstants`): SpecAllTypesOK, SpecAdmissionNearLimits,
SpecOnlyUnaskedAbandoned and SpecSweepsAreSafe. A step of the whole is a step of one
service at most (`OneMoves`), so each has an invariant of its own.

- *Admission*, for any finite number of places and checkouts and any ceiling, share,
  margin and float. The invariant counts a checkout in progress as a sale already
  there: `OpenRoom` (open holds and busy checkouts together stay below ceiling plus
  checkouts) is inductive where OpenNearCap is not, because a checkout that has passed
  the ceiling inserts later without looking again. For the float only checkouts count
  whose test can still succeed (`Live`); they had read obligations that leave room for
  one more sale, so `FloatRoom` holds with all of them added.
- *Driver*: `HeardAll` (in a process that was not restarted, what it heard of a device
  is what the device did) carries OnlyUnaskedAbandoned from the process's memory to
  the device; that a sweep drives no more than a chunk is inductive as it stands.
- *Monitor*, for any lanes, sizes and callbacks at once: that a caller only ever carries
  an invoice it saw paid (a part of TypeOK) is what makes BookedOnceIfReceived inductive.

**WaitsProofs**, of the six components of MCWaits, for any number of sends, runs,
connections, posts, reads, looks and requests (`WaitsConstants`): SpecTypesOK,
SpecVerdictsAreTrue, SpecRunsKeepApart, SpecParallelReadsSeeIt and SpecSendKeepsPromise.
For the sends, `SendInv` adds what a surface knows when it asks and when it books: nothing
is asked for a row that is not pending, nothing booked that the wallet has not paid, and
before a surface begins there is neither a row nor a request; with that each step is one
of PayCall's or a stutter (SendMoves).
`~Garbled` is a hypothesis, with which the limit in section 5 is left out. For the
queue of Rizful, `LinkInv` follows a connection from the moment it is saved to the row
it is written to (`Bound`), through a run and through a request to link again, and
`OneAtWork` is the drain loop's flag. A run of the flow that is not over has what it
opened still to close (`FlowOpen`). For reads of an account, `LookInv` says that one
look at most is running, the one that reads join.

**CardWriterProofs**, for any cards, requests, chips, tools and number of data keys:
what the cards of `merchant` keep. MasterKeyLast says that a chip with a card's master
key has no other card's key, and it is not inductive: what a command may write depends
on what those before it have done to the chip. `Reached(y, h, at)` says, of a chip *y*
under a flow *h*, what the commands before the *at*-th have achieved: the address, the
master key open, SDM, and the data keys up to the one it has come to. A lifted card ends
the flow and needs nothing.
`RecordInv` is the other half: the row of a card reported as written is used, and has no
setup link nor gets one.

**MerchantProofs**, of the eleven components of MCMerchant under `MerchantConstants`.
`MerchantInv` says of every component that its invariant holds while `which` names it,
and MerchantKeepsSpecs that, of the payouts and the NWC client, whose variables are their
own, a behaviour of MerchantSpec is one of their specifications, so that their theorems
carry over. What is needed beyond each property:

- *Saved wallets*: `SavedInv` ties a send's snapshot to the wallet that paid it, which is
  still there as long as the snapshot stands. `OrderInv` is InOrderOneByOne with the
  request under way: what it will write fits the rows as they are (`Fits`), and the
  mirror may differ from the default only while a request is about to write it. That a
  default can be chosen among the rows that are left is that a nonempty set of numbers
  has a least element (`LeastElement`, by well-foundedness).
- *Operator's tools*: `SaleInv` ties the hold to its payer and a failed row to a payment
  that cannot be captured any more; `ToolsInv` says what a tool that has read a row or a
  proof may still rely on.
- *Updates*: `SoundDevice` follows the device through an update: what it downloads is the
  newer image it was offered, what its journal and its boot switch are about to name is
  in flash as a whole, and what it has confirmed runs. *RIC devices*: an authorised post
  is of a device; the properties are inductive beside that.
- *Checkout*: a charge that is sold directly has seen what can see it paid
  (`SoundCharge`). *Prices*: what a call or an entry holds is of its currency, and an
  answer of CoinGecko is old only in a call that saw it fail (`TrueCache`, `TrueCall`).
- *Accounts*: an account that registered here, or has no password, never has a hash of an
  older format, so no login rewrites one. *Telegram*: a redemption that is about to mark
  its code has linked somebody.

From it: SpecMerchantTypes, SpecPayoutsAreSound, SpecPaymentsAskedOnce,
SpecBooksFollowWallets, SpecCardKeysAreWhole, SpecUpdatesAreWhole, SpecSalesAreSound,
SpecAccountsStayInOrder, the action property SpecStaysForGood, and, from the theorems of
the two components, MerchantNeverOverpaid and SpecPaymentsKeepPromise.

**Assumptions.** The constants' own, `SwitchAssumption` and `CardAssumption`, which TLC
evaluates in runs of their modules, and hypotheses that the theorems state:
`PayoutConstants`, `Recorded`, `NwcConstants`, `ServicesConstants`, `WaitsConstants` and
`MerchantConstants`, each of which a run satisfies. They say that bounds are numbers,
checkouts and (for NeverOverpaid) payouts finitely many, that calls of two kinds and the
name of no wallet are distinct, that payments resolve through a slot, that the dollar is
a currency, that every attempt leaves a record, and that replies can be read. The last
two are about the world, and a run or section 5 shows what happens without them.

**Only model-checked.** Every safety property of the passing runs, the refinements
included, is proved. Liveness under fairness stays with TLC: SweepsGetThere,
PaidHoldIsDecided, ForwardEndsInBooks, PendingSendIsResolved, RecordedPayoutResolves,
PaidSendCompletes, RunsGoOn, WaitsEnd and EventuallySubscribed; so does everything about
ENABLED.

## 5. Not modelled, and why

Cryptography of cards, keys and sealing is byte-level computation without state.
What the adapters parse (addresses, metadata, invoices, GraphQL, mails and pages) is
abstracted to what the callers tell apart. Amounts of prices are floating-point
numbers, so `Prices` is about which quote, not about its value. Reports, lists, mail,
drawing, item lists, shop pages and guides decide nothing. Audit rows and log events
are left out of every module: they are written beside the state and never read by it.
`subscribeSubWalletInvoice` and `processInternalPayment` have no caller, and nothing writes
`card_order_id`, so no invoice settles without a receipt (`invoiceMonitor.ts:102-105`). The fee of a
sale so small that it comes to zero (`holdWrap.ts:231`) is one comparison and sends the
sale down `Checkout`'s direct lane.

**Limits of the code that are exceptions in a property.**

- OnlyUnaskedAbandoned speaks of a process that was not restarted: `lastInterest` is
  memory of one process, `startWrapDriver` sweeps at once, and TLC refutes the
  property with one restart (a checkout older than three minutes is closed while its
  device still polls, `wrapDriver.ts:120` against the comment on lines 35-36).
- PaidInvoiceIsSettled speaks of invoices looked up over NWC: of the LNURL and Blink
  rows only the first ten of every page are checked (`invoiceMonitor.ts:194`), and a
  CLINK invoice has no observer but its callback.
- PaidSendCompletes speaks of rows with fewer than a batch before them: ten rows that
  no wallet can answer for keep the rest from being looked at for as long as they are
  pending (`invoiceMonitor.ts:609`).
- SendJudgedByItsWallet and InOrderOneByOne leave out a removed connection, and the
  second also requests that overlap (below).
- SoldBlindOnlyIfDropped leaves out offers (below), and UrlStays the hooks that some
  request under way found missing or with another id (`UrlSettled`): the second of two
  first reads overwrites the id and secret the first was given, and a request that
  stops between its read and its write can later put an id back that others have
  replaced (`clinkWebhook.ts:81`). The second case takes three requests; it is why
  the condition speaks of every request and not of the reader alone.
- ChangedPasswordStays leaves out an account migrated with a hash of an older format:
  a login that read that hash writes a new one of the old password whenever it gets to
  it, also after the password was changed (`auth/service.ts:79`).
- OldQuoteNeedsOutage leaves out a Binance price in a currency other than the dollar. It is
  joined from Binance's dollar price and a ratio of two CoinGecko quotes, which may be
  expired ones when CoinGecko is down; the result is stored as new, and calls of the next
  minute are given it though no service fails them (`price.ts:70-75`).
- LeavesNothingOpen leaves out a run whose page never opened: the context is created
  first, and only a page that was made disposes of it (`cdpBrowser.ts:92-93`). Of the
  others it says that the browser was told to give the context up; a command that fails
  or has no answer is swallowed (`cdpBrowser.ts:159-160`), and the context stays.
- PaidOnceUnlessRetaken, OnePayoutInFlight, FailedIsNotPaid, NeverOverpaid, FinalStays and
  PayoutKeepsPromise leave out a payout that a late tick's requeue took back
  (`partnerPayouts.ts:213-216`), the case of `payouts_double`; and FailedIsNotPaid,
  NeverOverpaid and FinalStays one whose update threw after its payment settled.
- VerdictMatchesWallet needs `Garbled = FALSE`: a reply of Blink that cannot be parsed
  is not among the errors that count as ambiguous (`blink.ts:252`), though the comment
  on `BlinkAmbiguousError` says "no (usable) reply" (`blink.ts:189-195`).

**Stated in a module, refuted by TLC, and without a run of their own.** They are kept
in the modules to show where a promise ends:

- `SavedWallets!ResolvesToSaved`: removing the default first deletes it, which empties the
  pointer, so the test for "was it the default" never holds and the account is left
  without one (`server.ts:715-720` with `migrations/0018_account_connections.sql`).
- `SavedWallets!PaidSendNotFailed`: the same foreign key empties the snapshot of a
  pending send, which the reconciler then reads as a row without one and judges by
  another wallet, against its comment (`invoiceMonitor.ts:643-656`).
- `Rizful!OneRunPerAccount`: two posts at once both find no run (`rizful.ts:240` against
  lines 11-13).
- `Checkout!NeverSoldBlind`: the hook of an offer is made by openLN when the offer is
  saved, so it says nothing of whether the wallet calls it (`server.ts:834-838`).
- `CardWriter!DeletedWasWiped`: a second chip written with a card's keys, or one lifted
  off, is not known to the record that is deleted (`cards.ts:51`).
- `AdminPayments!CompletedCardWasCharged`: the proof that an own invoice was paid does not
  say by whom, so a customer who pays the same invoice by its QR completes the card's
  row.

**Left out of a module.** `checkOwnSettlementProof` takes an accepted hold as success
for the payer (`feeEngine.ts:311`); a hold refunded after that leaves the card's row
completed, and `Paid` in CardTapProofs is defined accordingly. A code of
`telegram-link.ts` can be redeemed by two people one after the other until it is
marked (lines 68 and 81). Two telemetry posts that arrive in the other order leave the
older state. The house wallet's key is made on first use without a lock, and one that
cannot be read is replaced (`nwc.ts:128-150`).

## 6. Plan

Done: `WrapSale`, `HoldWrap`, `CardTap`, `PartnerPayouts`, `WrapGate`, `WrapDriver`,
`InvoiceMonitor`; then the NWC client, saved wallets, the checkout's lanes, other
wallets' sends, cards and their writer, the operator's tools, accounts, Rizful, RIC
devices and updates, notifications, reads of an account, allowances, prices and the
Telegram link; `PayCall` and its four refinements; and a theorem for every safety
property the runs check. Next, the most important first:

1. The calls of `CardTap` that pay a sale of this server as an instance of PayCall whose
   money is the hold, which needs a promise for "locked" between pending and paid.
2. The operators that are pure data (the pages of the monitor, the batch of the
   reconciler, the chain of a send's wallets) as lemmas of their own, so that the
   proofs about them stop unfolding them.
3. A driver call that never settles, as a fault of WrapDriver; the page of
   `list_transactions`, expired rows and overlapping sweeps in InvoiceMonitor.
4. The RIC's checkout as a client of HoldWrap and CardTap: cancel, power loss, a poll
   that comes too late.
5. The arithmetic of the fee split against a reference definition over bounded inputs.
