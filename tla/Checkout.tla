------------------------------ MODULE Checkout ------------------------------
(***************************************************************************)
(* From a request to the invoice a customer is shown: POST                 *)
(* /api/pos/invoice and the LNURL callback of core/server.ts, which mint a *)
(* wrapped invoice (createWrappedInvoice of core/money/holdWrap.ts) and    *)
(* fall back to a direct one on the merchant's own wallet, and the         *)
(* callback ("hook") of a CLINK offer (core/money/clinkWebhook.ts) that a  *)
(* direct invoice on an offer depends on.                                  *)
(*                                                                         *)
(* HoldWrap has what becomes of a wrapped invoice, WrapGate what admits    *)
(* it, InvoiceMonitor who looks at a direct one, SavedWallets which wallet *)
(* is resolved.  Here there is one saved wallet of each kind, the platform *)
(* wallet and the providers may refuse at any step, and a provider may     *)
(* change what it does after its address or offer was saved.               *)
(***************************************************************************)
EXTENDS Naturals

CONSTANTS
  Requests,   \* bound: requests for an invoice, from either route
  HookReads,  \* bound: requests for the offer's hook values in progress at once
  MaxHooks,   \* bound: hook ids and secrets ever made
  MaxMoves    \* bound: how often the offer moves

\* The wallets an invoice can be made on.
Kinds == {"nwc", "blink", "address", "offer"}
\* merchantFundingFromSource: a CLINK debit code only sends, and there may be no wallet.
Sources == Kinds \union {"debit", "none"}
Hooks == [id: 0..MaxHooks, secret: 0..MaxHooks]  \* 0: none
NoHook == [id |-> 0, secret |-> 0]

VARIABLES
  conn,    \* the saved wallets: whether the address served verify when it was connected,
           \* the offer's hook, and the offer's pointer
  pasted,  \* the hook values the merchant has put into the wallet app
  shown,   \* the hook values the merchant has been shown
  made,    \* ids and secrets made so far
  hookReq, \* requests for the hook values: the id they found, and whether they rotate
  world,   \* what the providers do: the address serves verify, where the offer is now
  req,     \* requests: where they are and what they took from the saved wallet
  row      \* the row of a request in pending_invoices, and what lets it be seen as paid

vars == <<conn, pasted, shown, made, hookReq, world, req, row>>
hookVars == <<pasted, shown, made, hookReq>>

Watches == {"driver", "wallet", "verify", "hook", "nothing"}
Idle == [at |-> "idle", kind |-> "nwc", verify |-> FALSE, hooked |-> FALSE, pointer |-> 0,
         asked |-> 0, path |-> "wrap", watch |-> "nothing"]
NoReq == [at |-> "idle", id |-> 0, rotate |-> FALSE]

TypeOK ==
  /\ conn \in [verify: BOOLEAN, hook: Hooks, pointer: 0..MaxMoves]
  /\ pasted \in Hooks /\ shown \subseteq Hooks /\ made \in 0..MaxHooks
  /\ hookReq \in [HookReads -> [at: {"idle", "write"}, id: 0..MaxHooks, rotate: BOOLEAN]]
  /\ world \in [verifies: BOOLEAN, pointer: 0..MaxMoves]
  /\ req \in [Requests -> [at: {"idle", "mint", "again", "hold", "store", "answered", "refused"},
                           kind: Kinds, verify: BOOLEAN, hooked: BOOLEAN, pointer: 0..MaxMoves,
                           asked: 0..MaxMoves, path: {"wrap", "direct"}, watch: Watches]]
  /\ row \in [Requests -> Watches \union {"none"}]

\* An offer saved before there were hooks has none; connecting one makes it at once.
Init ==
  /\ conn \in [verify: BOOLEAN, hook: {NoHook, [id |-> 1, secret |-> 1]}, pointer: {0}]
  /\ pasted = NoHook /\ shown = {conn.hook} \ {NoHook} /\ made = conn.hook.id
  /\ hookReq = [h \in HookReads |-> NoReq]
  /\ world = [verifies |-> conn.verify, pointer |-> 0]
  /\ req = [r \in Requests |-> Idle] /\ row = [r \in Requests |-> "none"]

-----------------------------------------------------------------------------
(* The hook of an offer *)

\* ensureClinkHook and rotateClinkHook: the row is read, and written later.
ReadsHook(h, rotate) ==
  hookReq' = [hookReq EXCEPT ![h] = [at |-> "write", id |-> conn.hook.id, rotate |-> rotate]]

\* Settings shows the values; an offer without them gets them.
ShowHook(h) ==
  /\ hookReq[h].at = "idle" /\ made < MaxHooks
  /\ \/ conn.hook.secret # 0 /\ shown' = shown \union {conn.hook} /\ UNCHANGED hookReq
     \/ conn.hook.secret = 0 /\ ReadsHook(h, FALSE) /\ UNCHANGED shown
  /\ UNCHANGED <<conn, pasted, made, world, req, row>>

RotateHook(h) ==
  /\ hookReq[h].at = "idle" /\ made < MaxHooks /\ ReadsHook(h, TRUE)
  /\ UNCHANGED <<conn, pasted, shown, made, world, req, row>>

\* (mutant) Rotating makes the pair anew.
HookAfter_NewPair(old, n) == [id |-> n, secret |-> n]
\* The id that was found is kept, a new secret is made.
HookAfter(old, n) == [id |-> IF old # 0 THEN old ELSE n, secret |-> n]

WriteHook(h) ==
  /\ hookReq[h].at = "write" /\ made < MaxHooks
  /\ LET hook == HookAfter(hookReq[h].id, made + 1) IN
       conn' = [conn EXCEPT !.hook = hook] /\ shown' = shown \union {hook}
  /\ made' = made + 1 /\ hookReq' = [hookReq EXCEPT ![h] = NoReq]
  /\ UNCHANGED <<pasted, world, req, row>>

\* The merchant copies values shown to them into the wallet app, or never does.
Paste ==
  /\ \E hook \in shown: hook # pasted /\ pasted' = hook
  /\ UNCHANGED <<conn, shown, made, hookReq, world, req, row>>

-----------------------------------------------------------------------------
(* The providers *)

DropVerify ==
  /\ world.verifies /\ world' = [world EXCEPT !.verifies = FALSE]
  /\ UNCHANGED <<conn, hookVars, req, row>>

MoveOffer ==
  /\ world.pointer < MaxMoves /\ world' = [world EXCEPT !.pointer = @ + 1]
  /\ UNCHANGED <<conn, hookVars, req, row>>

-----------------------------------------------------------------------------
(* The request *)

Put(r, changes) == req' = [req EXCEPT ![r] = changes]
Refuse(r) == Put(r, [req[r] EXCEPT !.at = "refused"])

\* (mutant) Whatever can mint may sell directly.
MayGoDirect_Any(r) == r \in Requests
\* Policy A: an address without verify, and an offer without a hook, sell only wrapped.
MayGoDirect(r) ==
  /\ req[r].kind = "address" => req[r].verify
  /\ req[r].kind = "offer" => req[r].hooked

\* createWrappedInvoice returned null, and the route falls back.
GoDirect(r) ==
  IF MayGoDirect(r) THEN Put(r, [req[r] EXCEPT !.at = "mint", !.path = "direct",
                                             !.asked = req[r].pointer])
  ELSE Refuse(r)

\* The wallet is resolved once; the request keeps what it saw.  The terminal sells on the
\* wallet of its slot, which may be of any kind, as may the default one an address sells on.
Resolve(r) ==
  /\ req[r].at = "idle"
  /\ \E k \in Sources:
       IF k \notin Kinds THEN Refuse(r)
       ELSE Put(r, [Idle EXCEPT !.at = "mint", !.kind = k, !.verify = conn.verify,
                                !.hooked = conn.hook.secret # 0,
                                !.pointer = conn.pointer, !.asked = conn.pointer])
  /\ UNCHANGED <<conn, hookVars, world, row>>

\* No platform wallet, no fee to take, the cap, or the float: see WrapGate.
NotWrapped(r) ==
  /\ req[r].at = "mint" /\ req[r].path = "wrap" /\ GoDirect(r)
  /\ UNCHANGED <<conn, hookVars, world, row>>

Moved(r) == req[r].kind = "offer" /\ req[r].asked # world.pointer

\* The merchant's wallet makes an invoice, for the wrap or for the sale itself, and with it
\* comes what the sale could be seen by.
Minted(r, watch) ==
  /\ req[r].at \in {"mint", "again"}
  /\ Put(r, [req[r] EXCEPT !.at = IF req[r].path = "wrap" THEN "hold" ELSE "store",
                          !.watch = watch])
  /\ UNCHANGED <<conn, hookVars, world, row>>

MintNwc(r) == req[r].kind = "nwc" /\ Minted(r, "wallet")
MintBlink(r) == req[r].kind = "blink" /\ Minted(r, "wallet")

\* requestLnurlInvoice: a verify URL that is missing or not safe to fetch is no error.
MintLnurl(r) ==
  req[r].kind = "address" /\ Minted(r, IF world.verifies THEN "verify" ELSE "nothing")

\* clinkRequestInvoice: the wallet answers at the place the offer is at.
MintOffer(r) == req[r].kind = "offer" /\ ~Moved(r) /\ Minted(r, "hook")

\* updateConnectionClinkPointer: by the id of the connection, whatever is saved there by now.
SavePointer(pointer) == conn' = [conn EXCEPT !.pointer = pointer]

\* mintNofferInvoice: an offer that has moved says where to, once; the new place is tried
\* even if it could not be saved.
Adopt(r) ==
  /\ req[r].at = "mint" /\ Moved(r)
  /\ SavePointer(world.pointer) \/ UNCHANGED conn
  /\ Put(r, [req[r] EXCEPT !.at = "again", !.asked = world.pointer])
  /\ UNCHANGED <<hookVars, world, row>>

\* No invoice from the merchant's wallet: of a wrap the route goes on, of a direct sale
\* nothing is left.
MintFails(r) ==
  /\ req[r].at \in {"mint", "again"}
  /\ IF req[r].path = "wrap" THEN GoDirect(r) ELSE Refuse(r)
  /\ UNCHANGED <<conn, hookVars, world, row>>

Hold(r) ==
  /\ req[r].at = "hold" /\ Put(r, [req[r] EXCEPT !.at = "store", !.watch = "driver"])
  /\ UNCHANGED <<conn, hookVars, world, row>>

\* The hold is refused, unanswered, or came with a hash of the wallet's own and is cancelled.
HoldFails(r) ==
  /\ req[r].at = "hold" /\ GoDirect(r)
  /\ UNCHANGED <<conn, hookVars, world, row>>

\* The row is written before the invoice is answered.
Store(r) ==
  /\ req[r].at = "store"
  /\ \/ row' = [row EXCEPT ![r] = req[r].watch] /\ Put(r, [req[r] EXCEPT !.at = "answered"])
     \/ Refuse(r) /\ UNCHANGED row  \* the insert failed
  /\ UNCHANGED <<conn, hookVars, world>>

Next ==
  \/ \E h \in HookReads: ShowHook(h) \/ RotateHook(h) \/ WriteHook(h)
  \/ Paste \/ DropVerify \/ MoveOffer
  \/ \E r \in Requests:
       \/ Resolve(r) \/ NotWrapped(r) \/ Adopt(r) \/ MintFails(r)
       \/ MintNwc(r) \/ MintBlink(r) \/ MintLnurl(r) \/ MintOffer(r)
       \/ Hold(r) \/ HoldFails(r) \/ Store(r)

Spec == Init /\ [][Next]_vars

-----------------------------------------------------------------------------
(* Properties *)

\* An invoice that was answered can be seen as paid.
Seen(r) ==
  /\ row[r] # "nothing"
  /\ row[r] = "hook" => pasted = conn.hook

\* An invoice the customer was shown for an address that never served verify is a wrapped
\* one, whatever failed on the way to it and whenever: a direct sale nothing can see needs
\* a provider that stopped serving what it served when it was connected.
SoldBlindOnlyIfDropped ==
  \A r \in Requests: row[r] = "nothing" => conn.verify /\ ~world.verifies

\* Every request for the hook that is in progress has found the id that is there.
UrlSettled ==
  conn.hook.id # 0 /\ \A h \in HookReads: hookReq[h].at = "write" => hookReq[h].id = conn.hook.id

\* The id of an offer's hook is settled for good, so that the URL in the wallet app goes on
\* working (clinkWebhook.ts:87), from the start if it was saved with the offer.  Of an offer
\* that had none, a request that found none can still replace the id another made, and one
\* that found the replaced one puts it back.
UrlStays == UrlSettled => conn'.hook.id = conn.hook.id /\ UrlSettled'
HookKeepsItsUrl == [][UrlStays]_vars

\* "refuse (policy A) so we never sell blind" (server.ts:834-838): refuted.  The hook of an
\* offer is made by openLN when the offer is saved, so that every offer counts as having
\* one, while the wallet calls it only if the merchant has pasted it there.
NeverSoldBlind ==
  \A r \in Requests: req[r].at = "answered" /\ req[r].kind = "offer" => Seen(r)
=============================================================================
