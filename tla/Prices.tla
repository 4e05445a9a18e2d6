------------------------------- MODULE Prices -------------------------------
(***************************************************************************)
(* Exchange rates: getBtcPriceFor of core/money/price.ts, which prices a   *)
(* sale in fiat from CoinGecko, or from Binance with CoinGecko for the     *)
(* ratio between the currency and the dollar.                              *)
(*                                                                         *)
(* A quote is abstracted to the currency it is in and to whether it was    *)
(* ever taken from a cache entry past its minute.  Both services are       *)
(* external and may fail at any call.                                      *)
(***************************************************************************)
EXTENDS Naturals

CONSTANTS
  Currencies,  \* the fiat currencies asked for, the dollar among them
  Dollar,      \* usd
  Calls        \* bound: calls in progress at once

Sources == {"coingecko", "binance"}

VARIABLES
  cache,  \* currencyCache, by source and currency
  call,   \* a call: where it is, what it asks, the quotes it holds and what it returned
  down    \* calls a service has failed in

vars == <<cache, call, down>>

Quotes == [of: Currencies, old: BOOLEAN]
None == [of |-> "none", old |-> FALSE]  \* the price 0
Empty == [quote |-> None, fresh |-> FALSE]
Idle == [at |-> "idle", currency |-> Dollar, source |-> "coingecko",
         spot |-> None, fx |-> None, got |-> None]

TypeOK ==
  /\ cache \in [Sources \X Currencies -> [quote: Quotes \union {None}, fresh: BOOLEAN]]
  /\ call \in [Calls -> [at: {"idle", "binance", "fx", "base", "plain", "returned"},
                         currency: Currencies, source: Sources,
                         spot: Quotes \union {None}, fx: Quotes \union {None},
                         got: Quotes \union {None}]]
  /\ down \subseteq Calls

Init ==
  /\ cache = [k \in Sources \X Currencies |-> Empty]
  /\ call = [c \in Calls |-> Idle] /\ down = {}

New(cur) == [of |-> cur, old |-> FALSE]
Entry(q) == [quote |-> q, fresh |-> TRUE]
Had(k) == cache[k].quote # None

\* (mutant) Whatever is in the cache will do.
Fresh_Any(k) == Had(k)
\* An entry younger than its minute is returned without a call.
Fresh(k) == cache[k].fresh

\* The price of an entry, however old.
Held(k) == IF Had(k) THEN [cache[k].quote EXCEPT !.old = @ \/ ~cache[k].fresh] ELSE None

Return(c, q) == call' = [call EXCEPT ![c].at = "returned", ![c].got = q]

-----------------------------------------------------------------------------
(* The call *)

Ask(c) ==
  /\ call[c].at \in {"idle", "returned"}
  /\ \E cur \in Currencies, s \in Sources:
       call' = [call EXCEPT ![c] =
         IF Fresh(<<s, cur>>)
         THEN [Idle EXCEPT !.at = "returned", !.currency = cur, !.source = s,
                           !.got = Held(<<s, cur>>)]
         ELSE [Idle EXCEPT !.at = IF s = "binance" THEN "binance" ELSE "plain",
                           !.currency = cur, !.source = s]]
  /\ down' = down \ {c}
  /\ UNCHANGED cache

\* Binance answers in dollars: that is the price of the dollar, and of another currency
\* once the ratio is known.
BinanceAnswers(c) ==
  /\ call[c].at = "binance"
  /\ IF call[c].currency = Dollar
     THEN /\ Return(c, New(Dollar))
          /\ cache' = [cache EXCEPT ![<<"binance", Dollar>>] = Entry(New(Dollar))]
     ELSE /\ call' = [call EXCEPT ![c].at = "fx", ![c].spot = New(Dollar)]
          /\ UNCHANGED cache
  /\ UNCHANGED down

\* Without Binance the whole question goes to CoinGecko, its cache first.
BinanceFails(c) ==
  /\ call[c].at = "binance"
  /\ LET k == <<"coingecko", call[c].currency>>
     IN IF Fresh(k) THEN Return(c, Held(k)) ELSE call' = [call EXCEPT ![c].at = "plain"]
  /\ down' = down \union {c}
  /\ UNCHANGED cache

\* What CoinGecko's part of a call can give: an entry of its minute without asking, or a
\* new quote, which is kept, or after a failure the entry there is.
Asked(cur) ==
  LET k == <<"coingecko", cur>> IN
  {[q |-> New(cur), cache |-> [cache EXCEPT ![k] = Entry(New(cur))], failed |-> FALSE],
   [q |-> Held(k), cache |-> cache, failed |-> TRUE]}
CoinGecko(cur) ==
  LET k == <<"coingecko", cur>>
  IN IF Fresh(k) THEN {[q |-> Held(k), cache |-> cache, failed |-> FALSE]} ELSE Asked(cur)

Notes(c, r) == down' = IF r.failed THEN down \union {c} ELSE down

Plain(c) ==
  /\ call[c].at = "plain"
  /\ \E r \in Asked(call[c].currency): Return(c, r.q) /\ cache' = r.cache /\ Notes(c, r)

Fx(c) ==
  /\ call[c].at = "fx"
  /\ \E r \in CoinGecko(call[c].currency):
       /\ call' = [call EXCEPT ![c].at = "base", ![c].fx = r.q]
       /\ cache' = r.cache /\ Notes(c, r)

\* (mutant) Without the ratio the dollar price is returned.
Converted_Spot(spot, fx, base) ==
  IF None \notin {fx, base} THEN [of |-> fx.of, old |-> fx.old \/ base.old] ELSE spot
\* Binance's dollars by the ratio of the two CoinGecko prices; without either there is no
\* price, never the dollar's under another name.
Converted(spot, fx, base) ==
  IF None \notin {fx, base} THEN [of |-> fx.of, old |-> fx.old \/ base.old] ELSE None

\* A price that could be made is kept as new, whatever it was made from.
Base(c) ==
  /\ call[c].at = "base"
  /\ \E r \in CoinGecko(Dollar):
       LET p == Converted(call[c].spot, call[c].fx, r.q) IN
       /\ Return(c, p) /\ Notes(c, r)
       /\ cache' = IF p = None THEN r.cache
                   ELSE [r.cache EXCEPT ![<<"binance", call[c].currency>>] = Entry(p)]

-----------------------------------------------------------------------------
(* Time *)

\* An entry's minute is over.
Ages(k) ==
  /\ cache[k].fresh /\ cache' = [cache EXCEPT ![k].fresh = FALSE]
  /\ UNCHANGED <<call, down>>

Next ==
  \/ \E c \in Calls:
       Ask(c) \/ BinanceAnswers(c) \/ BinanceFails(c) \/ Plain(c) \/ Fx(c) \/ Base(c)
  \/ \E k \in Sources \X Currencies: Ages(k)

Spec == Init /\ [][Next]_vars

-----------------------------------------------------------------------------
(* Properties *)

\* A sale in one currency is never priced with another's quote, whichever of the two
\* services answered, failed or was cached on the way (price.ts:78): no price is the price 0,
\* which callers refuse.
QuoteIsItsCurrency ==
  \A c \in Calls:
    call[c].at = "returned" => call[c].got = None \/ call[c].got.of = call[c].currency

\* A quote past its minute is used only because the service failed in this very call.  Of a
\* Binance price only CoinGecko's share is held to that: see README.
OldQuoteNeedsOutage ==
  \A c \in Calls:
    (call[c].at = "returned" /\ call[c].source = "coingecko" /\ call[c].got.old) => c \in down
=============================================================================
