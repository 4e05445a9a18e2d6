------------------------------ MODULE MCMerchant ------------------------------
(***************************************************************************)
(* The parts of the server around a merchant whose promises are about      *)
(* safety alone, in one state space: payouts, the NWC client, saved        *)
(* wallets, cards and their writer, the operator's tools, firmware         *)
(* updates, RIC devices, the checkout's lanes, prices, accounts and the    *)
(* Telegram link.                                                          *)
(*                                                                         *)
(* `which` is chosen once and for all.  Payouts and the NWC client have    *)
(* variables of their own and rest in their initial states unless it names *)
(* them; x1 to x8 are the variables of whichever other component it names. *)
(* So each one's behaviours are exactly those of its own specification,    *)
(* and a property of one is stated under the condition that `which` names  *)
(* it.                                                                     *)
(*                                                                         *)
(* MerchantSpec is what is proved about.  TLC takes MCSpec, where payouts  *)
(* and cards come twice, with a bound of their own each: payouts while no  *)
(* tick comes late, and with one that a late tick takes back; requests     *)
(* around the first card, and chips that meet several.  A third bound is   *)
(* on the saved wallets.                                                   *)
(***************************************************************************)
EXTENDS PartnerPayouts, NwcClient, TLC

CONSTANTS
  WalletRequests, Wallets, Kind, Slots, SlotNeeds, Sends, SendSlot, MaxRows,
  CardRequests, NCards, Chips, Tools, DataKeys,
  Operators,
  Releases, Chunks, MaxStalls, MaxDeploys,
  Devices, Posts,
  SaleRequests, HookReads, MaxHooks, MaxMoves,
  Currencies, Dollar, PriceCalls,
  Passwords, Logins, Changes,
  Accounts, People, Codes, Claims

\* What TLC takes for Kind and SlotNeeds.
MCKind == [a |-> "nwc", b |-> "lnaddress", c |-> "ndebit"]
MCSlotNeeds == [cards_send |-> "send"]

VARIABLES
  which,
  x1, x2, x3, x4, x5, x6, x7, x8

Saved == INSTANCE SavedWallets WITH
  saved <- x1, made <- x2, default <- x3, slot <- x4, mirror <- x5, req <- x6,
  overlap <- x7, send <- x8, Requests <- WalletRequests

Card == INSTANCE CardWriter WITH
  rec <- x1, req <- x2, reported <- x3, chip <- x4, hand <- x5, job <- x6, ended <- x7,
  Requests <- CardRequests

Admin == INSTANCE AdminPayments WITH
  wrap <- x1, hold <- x2, payer <- x3, request <- x4, row <- x5, tool <- x6

Update == INSTANCE FirmwareUpdate WITH
  files <- x1, deploy <- x2, deploys <- x3, request <- x4, device <- x5

Rics == INSTANCE RicDevices WITH token <- x1, telemetry <- x2, post <- x3

Pos == INSTANCE Checkout WITH
  conn <- x1, pasted <- x2, shown <- x3, made <- x4, hookReq <- x5, world <- x6,
  req <- x7, row <- x8, Requests <- SaleRequests

Rates == INSTANCE Prices WITH
  cache <- x1, call <- x2, down <- x3, Calls <- PriceCalls

Login == INSTANCE Accounts WITH
  entity <- x1, account <- x2, chosen <- x3, born <- x4, signup <- x5, rehash <- x6,
  change <- x7

Bot == INSTANCE TelegramLink WITH
  owner <- x1, good <- x2, used <- x3, link <- x4, claim <- x5, made <- x6

all == <<which, vars, clientVars, x1, x2, x3, x4, x5, x6, x7, x8>>

-----------------------------------------------------------------------------
(* The specification *)

\* The variables from the n-th on, which the component does not use.
Spare8 == x8 = 0
Spare7 == x7 = 0 /\ Spare8
Spare6 == x6 = 0 /\ Spare7
Spare4 == x4 = 0 /\ x5 = 0 /\ Spare6
Spare1 == x1 = 0 /\ x2 = 0 /\ x3 = 0 /\ Spare4

MerchantInit ==
  /\ Init
  /\ ClientInit
  /\ \/ which \in {"payout", "ticks"} /\ ~veil /\ Spare1
     \/ which = "nwc" /\ Spare1
     \/ /\ ~veil
        /\ \/ which = "wallets" /\ Saved!Init
           \/ which \in {"card", "keys"} /\ Card!Init /\ Spare8
           \/ which = "admin" /\ Admin!Init /\ Spare7
           \/ which = "update" /\ Update!Init /\ Spare6
           \/ which = "rics" /\ Rics!Init /\ Spare4
           \/ which = "checkout" /\ Pos!Init
           \/ which = "prices" /\ Rates!Init /\ Spare4
           \/ which = "accounts" /\ Login!Init /\ Spare8
           \/ which = "telegram" /\ Bot!Init /\ Spare7

\* The variables from the n-th on rest.
Rest8 == UNCHANGED x8
Rest7 == UNCHANGED <<x7, x8>>
Rest6 == UNCHANGED <<x6, x7, x8>>
Rest4 == UNCHANGED <<x4, x5, x6, x7, x8>>
Rest1 == UNCHANGED <<x1, x2, x3, x4, x5, x6, x7, x8>>

Step(component, action) ==
  which = component /\ action /\ UNCHANGED <<which, vars, clientVars>>

MerchantNext ==
  \/ which \in {"payout", "ticks"} /\ Next /\ UNCHANGED <<which, clientVars>> /\ Rest1
  \/ which = "nwc" /\ ClientNext /\ UNCHANGED <<which, vars>> /\ Rest1
  \/ Step("wallets", Saved!Next)
  \/ which \in {"card", "keys"} /\ Step(which, Card!Next /\ Rest8)
  \/ Step("admin", Admin!Next /\ Rest7)
  \/ Step("update", Update!Next /\ Rest6)
  \/ Step("rics", Rics!Next /\ Rest4)
  \/ Step("checkout", Pos!Next)
  \/ Step("prices", Rates!Next /\ Rest4)
  \/ Step("accounts", Login!Next /\ Rest8)
  \/ Step("telegram", Bot!Next /\ Rest7)

MerchantSpec == MerchantInit /\ [][MerchantNext]_all

\* The bounds.  No payout is retaken, or a single one is, of what one sale earned.
NoneRetaken == retaken' = {}
OneRetaken == earned' <= 1 /\ retaken' \subseteq {CHOOSE p \in Payouts : TRUE} /\ broken' = {}

\* Around chips, a link is spent by a report and at most two results are reported.
OneCard == \A c \in DOMAIN x1 : c > 1 => x1'[c] = x1[c]
TwoResults ==
  /\ x2' = x2 /\ Cardinality(x7') <= 2
  /\ \A c \in DOMAIN x1 : x1[c].link => x1'[c].link \/ x1'[c].used

\* Wallets are saved before a payment begins, and requests overlap after it.
SavedBeforeSends ==
  \A s \in Sends :
    /\ x8'[s].state # "none" => \A r \in WalletRequests : x6'[r].op # "insert"
    /\ x7' /\ x8'[s] # x8[s] => x8[s].state # "none"

Bounds ==
  /\ which = "payout" => NoneRetaken
  /\ which = "ticks" => OneRetaken
  /\ which = "card" => OneCard
  /\ which = "keys" => TwoResults
  /\ which = "wallets" => SavedBeforeSends

MCSpec == MerchantInit /\ [][MerchantNext /\ Bounds]_all

\* The instances of the server, the ticks, the requests, the operators, ... are
\* interchangeable.
ProcessSymmetry == Permutations(Operators)

-----------------------------------------------------------------------------
(* Properties *)

\* Every component's state has its type.
TypesOK ==
  /\ TypeOK /\ ClientTypeOK
  /\ which = "wallets" => Saved!TypeOK
  /\ which \in {"card", "keys"} => Card!TypeOK
  /\ which = "admin" => Admin!TypeOK
  /\ which = "update" => Update!TypeOK
  /\ which = "rics" => Rics!TypeOK
  /\ which = "checkout" => Pos!TypeOK
  /\ which = "prices" => Rates!TypeOK
  /\ which = "accounts" => Login!TypeOK
  /\ which = "telegram" => Bot!TypeOK

\* PartnerPayouts: a payout is paid once, one at a time, and its row says what became of the
\* money, but for one a late tick took back.
PayoutsAreSound == PaidOnceUnlessRetaken /\ OnePayoutInFlight /\ SentWasPaid /\ FailedIsNotPaid

\* NwcClient: a retry, a closed connection or a lost reply never asks the wallet twice for one
\* payment, and what the books then say of it is so.
PaymentsAskedOnce == PayReachesOnce /\ VerdictsAreTrue

\* SavedWallets and AdminPayments: a send is judged by the wallet that paid it, and by what
\* its hold did, whatever is reassigned or repaired by hand meanwhile.
BooksFollowWallets ==
  /\ which = "wallets" => Saved!SendJudgedByItsWallet
  /\ which = "admin" => Admin!CapturedNotFailed /\ Admin!CompletedInvoiceWasPaid

\* CardWriter and CardRecords: no chip ends with keys that no one record can wipe, reports are
\* true, and keys are not handed out again once a chip has them.
CardKeysAreWhole ==
  which \in {"card", "keys"} => Card!MasterKeyLast /\ Card!ReportsAreTrue /\ Card!ReportedForGood

\* FirmwareUpdate and RicDevices: a device runs the image it was offered, a confirmation is of
\* what runs, and the dashboard never joins the state of one update to the code of another.
UpdatesAreWhole ==
  /\ which = "update" => Update!UpdateIsItsVersion /\ Update!ConfirmedIsRunning
  /\ which = "rics" => Rics!UpdateIsOneReport

\* Prices and Checkout: a sale is priced in its own currency, by a quote that is old only if
\* the service failed, and is not given an invoice nobody can see paid.
SalesAreSound ==
  /\ which = "prices" => Rates!QuoteIsItsCurrency /\ Rates!OldQuoteNeedsOutage
  /\ which = "checkout" => Pos!SoldBlindOnlyIfDropped

\* SavedWallets, Accounts and TelegramLink: saved wallets stay in order, a changed password
\* stays, and a code is spent only by a redemption that linked somebody.
AccountsStayInOrder ==
  /\ which = "wallets" => Saved!InOrderOneByOne
  /\ which = "accounts" => Login!ChangedPasswordStays
  /\ which = "telegram" => Bot!SpentCodeLinked

\* A cancelled card, a revoked device, a final payout and the URL of a hook stay what they
\* are, whatever request had read them before.
StaysForGood ==
  [][ /\ FinalStays
      /\ which \in {"card", "keys"} => Card!CancelledStays
      /\ which = "rics" => Rics!RevokedStays
      /\ which = "checkout" => Pos!UrlStays ]_all

\* PartnerPayouts and NwcClient: payouts and pay calls keep the promise of PayCall, in every
\* step that changes what it is about.
PaymentsKeepPromise ==
  /\ PromiseStarts /\ CallPromise!Init
  /\ [][ /\ which \in {"payout", "ticks"} =>
              UNCHANGED <<state, pay, broken>> \/ AllPromisesKept
         /\ which = "nwc" =>
              UNCHANGED <<asked, wallet, mine, row>> \/ [CallPromise!Next]_(CallPromise!vars) ]_all
=============================================================================
