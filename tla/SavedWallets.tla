---------------------------- MODULE SavedWallets ----------------------------
(***************************************************************************)
(* The wallets one account has saved: server.ts's /api/connections routes  *)
(* (connect, set default, assign to a feature, remove),                    *)
(* walletSource.ts, which answers which wallet a payment uses, and the     *)
(* part of the send reconciler that asks a wallet about an earlier send.   *)
(*                                                                         *)
(* Every route reads and writes in separate statements, so two requests    *)
(* interleave.  The database sets a pointer at a removed connection to     *)
(* NULL by itself (migrations/0018 and 0019).  The legacy wallet fields of *)
(* the account mirror the default connection and answer when there is none.*)
(***************************************************************************)
EXTENDS Naturals, FiniteSets

CONSTANTS
  Wallets,   \* wallets outside (strings other than "none", "unset", "veil")
  Kind,      \* the kind of connection each is saved as
  Slots,     \* feature assignments, each "..._receive" or "..._send"
  SlotNeeds, \* what each slot needs: "receive" or "send"
  Requests,  \* request handlers
  Sends,     \* payments by card or device
  SendSlot,  \* the slot payments resolve through
  MaxRows    \* bound: connections ever saved

VARIABLES
  saved,    \* account_connections: the wallet behind each row, or "none"
  made,     \* rows ever inserted; ids are handed out in this order
  default,  \* accounts.default_connection_id, 0 for NULL
  slot,     \* the four assignment columns
  mirror,   \* the legacy fields: a wallet, "unset", or "veil" for the house wallet
  req,      \* what each request handler is doing
  overlap,  \* history: two requests have been in progress at once
  send      \* each payment: its connection_id column (via), the wallet that paid it

vars == <<saved, made, default, slot, mirror, req, overlap, send>>

Rows == 1..MaxRows
Saved == {i \in Rows : saved[i] # "none"}

\* connectionCapabilities
CanReceive(w) == Kind[w] \in {"nwc", "blink", "lnaddress", "noffer"}
CanSend(w) == w = "veil" \/ (w \in Wallets /\ Kind[w] \in {"nwc", "blink", "ndebit"})

Quiet == [op |-> "none", row |-> 0, wallet |-> "none", slot |-> "none"]
NoSend == [state |-> "none", chain |-> <<0, 0>>, via |-> 0, wallet |-> "none", paid |-> FALSE]

TypeOK ==
  /\ saved \in [Rows -> Wallets \union {"none"}] /\ made \in 0..MaxRows
  /\ default \in 0..MaxRows /\ slot \in [Slots -> 0..MaxRows]
  /\ mirror \in Wallets \union {"unset", "veil"}
  /\ req \in [Requests -> [op: {"none", "insert", "ask", "default", "sync", "mirror", "remove", "after",
                                "assign"},
                           row: 0..MaxRows, wallet: Wallets \union {"none", "unset", "veil"},
                           slot: Slots \union {"none"}]]
  /\ overlap \in BOOLEAN
  /\ send \in [Sends -> [state: {"none", "read", "sent", "completed", "failed", "refused"},
                         chain: (0..MaxRows) \X (0..MaxRows), via: 0..MaxRows,
                         wallet: Wallets \union {"none", "unset", "veil"}, paid: BOOLEAN]]

\* A new account: nothing saved, wallet setup not completed.
Init ==
  /\ saved = [i \in Rows |-> "none"] /\ made = 0
  /\ default = 0 /\ slot = [s \in Slots |-> 0] /\ mirror = "unset"
  /\ req = [r \in Requests |-> Quiet] /\ overlap = FALSE
  /\ send = [s \in Sends |-> NoSend]

-----------------------------------------------------------------------------
(* Requests.  Each begins with its reads, and every write is a step of its   *)
(* own.  A write of a pointer at a removed row fails on the foreign key.     *)

Begins(r, to) ==
  /\ req[r] = Quiet /\ req' = [req EXCEPT ![r] = to]
  /\ overlap' = (overlap \/ \E q \in Requests : req[q] # Quiet)
  /\ UNCHANGED <<saved, made, default, slot, mirror, send>>

Goes(r, to) == req' = [req EXCEPT ![r] = to] /\ UNCHANGED overlap

\* POST /api/wallet/connect: a wallet saved already is refused.
BeginConnect(r, w) ==
  /\ \A i \in Rows : saved[i] # w
  /\ Begins(r, [Quiet EXCEPT !.op = "insert", !.wallet = w])

\* The wallet does not answer the check: nothing is changed.
ConnectRefused(r) ==
  /\ req[r].op = "insert" /\ Goes(r, Quiet)
  /\ UNCHANGED <<saved, made, default, slot, mirror, send>>

Insert(r) ==
  /\ req[r].op = "insert" /\ made < MaxRows
  /\ made' = made + 1 /\ saved' = [saved EXCEPT ![made + 1] = req[r].wallet]
  /\ Goes(r, [Quiet EXCEPT !.op = "ask", !.row = made + 1])
  /\ UNCHANGED <<default, slot, mirror, send>>

\* assignDefaultIfUnset: whether there is a default yet.
AskDefault(r) ==
  /\ req[r].op = "ask"
  /\ Goes(r, IF default = 0 THEN [req[r] EXCEPT !.op = "default"] ELSE Quiet)
  /\ UNCHANGED <<saved, made, default, slot, mirror, send>>

\* POST /api/connections/:id/default
BeginDefault(r, i) ==
  /\ i \in Saved /\ Begins(r, [Quiet EXCEPT !.op = "default", !.row = i])

WriteDefault(r) ==
  /\ req[r].op = "default"
  /\ IF req[r].row \in Saved
     THEN default' = req[r].row /\ Goes(r, [Quiet EXCEPT !.op = "sync"])
     ELSE UNCHANGED default /\ Goes(r, Quiet)
  /\ UNCHANGED <<saved, made, slot, mirror, send>>

\* (mutant) Only NWC and Blink have legacy fields worth writing.
MirrorOf_FullWalletsOnly(i) ==
  IF i = 0 THEN "unset" ELSE IF Kind[saved[i]] \in {"nwc", "blink"} THEN saved[i] ELSE mirror

\* syncLegacyWalletMirror: what the legacy fields say of default connection i.  A
\* CLINK pointer has no legacy form: it is written like an NWC wallet without URL.
MirrorOf(i) ==
  IF i = 0 THEN "unset" ELSE IF Kind[saved[i]] \in {"noffer", "ndebit"} THEN "veil" ELSE saved[i]

SyncReads(r) ==
  /\ req[r].op = "sync"
  /\ Goes(r, [Quiet EXCEPT !.op = "mirror", !.wallet = MirrorOf(default)])
  /\ UNCHANGED <<saved, made, default, slot, mirror, send>>

SyncWrites(r) ==
  /\ req[r].op = "mirror" /\ mirror' = req[r].wallet /\ Goes(r, Quiet)
  /\ UNCHANGED <<saved, made, default, slot, send>>

\* POST /api/connections/assign, one slot: a wallet fit for it, or none.
BeginAssign(r, s, i) ==
  /\ i # 0 => i \in Saved /\ (IF SlotNeeds[s] = "send" THEN CanSend(saved[i]) ELSE CanReceive(saved[i]))
  /\ Begins(r, [Quiet EXCEPT !.op = "assign", !.row = i, !.slot = s])

WriteSlot(r) ==
  /\ req[r].op = "assign" /\ Goes(r, Quiet)
  /\ slot' = IF req[r].row \in Saved \union {0} THEN [slot EXCEPT ![req[r].slot] = req[r].row] ELSE slot
  /\ UNCHANGED <<saved, made, default, mirror, send>>

\* DELETE /api/connections/:id: the last wallet stays.
BeginRemove(r, i) ==
  /\ i \in Saved /\ Cardinality(Saved) > 1
  /\ Begins(r, [Quiet EXCEPT !.op = "remove", !.row = i])

\* ON DELETE SET NULL on every column that points at the row.
RemoveRow(r) ==
  LET i == req[r].row
      Nulled(p) == IF p = i THEN 0 ELSE p
  IN /\ req[r].op = "remove" /\ Goes(r, [req[r] EXCEPT !.op = "after"])
     /\ saved' = [saved EXCEPT ![i] = "none"] /\ default' = Nulled(default)
     /\ slot' = [s \in Slots |-> Nulled(slot[s])]
     /\ send' = [s \in Sends |-> [send[s] EXCEPT !.via = Nulled(@)]]
     /\ UNCHANGED <<made, mirror>>

\* The route then looks whether it removed the default.
AfterRemove(r) ==
  LET wasDefault == default = req[r].row
      next == IF Saved = {} THEN 0 ELSE CHOOSE i \in Saved : \A j \in Saved : i <= j
  IN /\ req[r].op = "after"
     /\ default' = IF wasDefault THEN next ELSE default
     /\ Goes(r, IF wasDefault THEN [Quiet EXCEPT !.op = "sync"] ELSE Quiet)
     /\ UNCHANGED <<saved, made, slot, mirror, send>>

-----------------------------------------------------------------------------
(* Payments *)

\* resolveWalletSource reads the account; the chain is the slot, then the default.
BeginSend(s) ==
  /\ send[s] = NoSend
  /\ send' = [send EXCEPT ![s] = [@ EXCEPT !.state = "read", !.chain = <<slot[SendSlot], default>>,
                                           !.wallet = mirror]]
  /\ UNCHANGED <<saved, made, default, slot, mirror, req, overlap>>

\* The row a chain resolves to: its first link still there, 0 for the legacy fields.
FirstSaved(chain) ==
  IF chain[1] \in Saved THEN chain[1] ELSE IF chain[2] \in Saved THEN chain[2] ELSE 0

\* The connections are read, the row is inserted with its snapshot and the wallet
\* pays or not; its answer is lost, so the reconciler will have to find out.
Pay(s) ==
  LET i == FirstSaved(send[s].chain)
      w == IF i = 0 THEN send[s].wallet ELSE saved[i]
  IN /\ send[s].state = "read"
     /\ IF CanSend(w)
        THEN \E paid \in BOOLEAN :
               send' = [send EXCEPT ![s] = [state |-> "sent", chain |-> <<0, 0>>, via |-> i,
                                            wallet |-> w, paid |-> paid]]
        ELSE send' = [send EXCEPT ![s] = [NoSend EXCEPT !.state = "refused"]]
     /\ UNCHANGED <<saved, made, default, slot, mirror, req, overlap>>

\* (mutant) The account's wallet of today answers.
AskedWallet_Today(s) == IF FirstSaved(<<0, default>>) = 0 THEN mirror ELSE saved[default]

\* The wallet the reconciler asks: the snapshot's, else the account's default.
AskedWallet(s) ==
  IF send[s].via # 0 THEN saved[send[s].via] ELSE IF default # 0 THEN saved[default] ELSE mirror

\* A wallet asked about its own payment knows; another NWC wallet does not know it,
\* and not to be known fails the send.  A Blink wallet leaves it, others have no say.
Reconcile(s) ==
  LET w == AskedWallet(s)
      nwc == w = "veil" \/ (w \in Wallets /\ Kind[w] = "nwc")
      answers == nwc \/ (w \in Wallets /\ Kind[w] = "blink" /\ w = send[s].wallet)
  IN /\ send[s].state = "sent" /\ answers
     /\ send' = [send EXCEPT ![s] = IF w = send[s].wallet /\ @.paid
                                     THEN [NoSend EXCEPT !.state = "completed"]
                                     ELSE [@ EXCEPT !.state = "failed"]]
     /\ UNCHANGED <<saved, made, default, slot, mirror, req, overlap>>

-----------------------------------------------------------------------------
(* The specification *)

RequestSteps(r) ==
  \/ \E w \in Wallets : BeginConnect(r, w)
  \/ ConnectRefused(r) \/ Insert(r) \/ AskDefault(r) \/ WriteDefault(r)
  \/ SyncReads(r) \/ SyncWrites(r) \/ WriteSlot(r) \/ RemoveRow(r) \/ AfterRemove(r)
  \/ \E i \in Rows : BeginDefault(r, i) \/ BeginRemove(r, i)
  \/ \E s \in Slots, i \in 0..MaxRows : BeginAssign(r, s, i)

Next ==
  \/ \E r \in Requests : RequestSteps(r)
  \/ \E s \in Sends : BeginSend(s) \/ Pay(s) \/ Reconcile(s)

Spec == Init /\ [][Next]_vars

-----------------------------------------------------------------------------
(* Properties *)

AtRest == \A r \in Requests : req[r] = Quiet

\* "Reassigning a feature's wallet never reroutes money that is in flight": while a
\* send's snapshot stands, no change of default or assignment has a paid send
\* called failed.
SendJudgedByItsWallet ==
  \A s \in Sends : send[s].state = "failed" /\ send[s].paid => send[s].via = 0

\* One request at a time keeps the account in order: a wallet is saved once, the
\* last one stays, and the default's legacy fields name it.  Requests that overlap
\* are left out because each of the three fails then, and so are the mirrors of a
\* CLINK default, which has no legacy form, and of a default that was removed.
InOrderOneByOne ==
  AtRest /\ ~overlap =>
    /\ \A i, j \in Saved : saved[i] = saved[j] => i = j
    /\ made > 0 => Saved # {}
    /\ default # 0 /\ Kind[saved[default]] \notin {"noffer", "ndebit"} => mirror = saved[default]

\* "Falls back to the legacy account wallet fields when an account has no saved
\* connections yet": with wallets saved and nothing in progress, what the account
\* pays and is paid with is a saved one.
ResolvesToSaved == AtRest /\ Saved # {} => default \in Saved

\* "A snapshot whose connection was removed is left for a later sweep rather than
\* guessed": a paid send is never called failed.
PaidSendNotFailed == \A s \in Sends : ~ (send[s].state = "failed" /\ send[s].paid)

=============================================================================
