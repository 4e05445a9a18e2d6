------------------------------- MODULE PayCall -------------------------------
(***************************************************************************)
(* What a payment out of a wallet promises, whoever asks for it and by     *)
(* whatever protocol, without saying how: the wallet is asked once at      *)
(* most, the verdict in the books is what became of the money, it is not   *)
(* taken back, and a payment that was given up is not delivered later.     *)
(*                                                                         *)
(* The payment functions keep it together with the reconcilers that finish *)
(* what they leave pending: NwcClient is the relay's client, WalletSends   *)
(* the Blink and CLINK wallets, CardTap the card's payments and            *)
(* PartnerPayouts the payouts from the platform wallet.                    *)
(***************************************************************************)
EXTENDS Naturals

CONSTANT Payments

VARIABLES
  asked,   \* per payment: how many requests reached the wallet
  money,   \* the wallet's record of its invoice: "none", "pending", "paid", "failed"
  mine,    \* the record is of this payment, not of the owner paying from elsewhere
  verdict  \* the books: "open", "completed" or "failed"

vars == <<asked, money, mine, verdict>>

Init ==
  /\ asked = [p \in Payments |-> 0]
  /\ money = [p \in Payments |-> "none"]
  /\ mine = [p \in Payments |-> FALSE]
  /\ verdict = [p \in Payments |-> "open"]

\* The request reaches the wallet: the only one, and not of a payment given up.  An
\* invoice the wallet knows already is not paid again.
Deliver(p) ==
  /\ asked[p] = 0 /\ verdict[p] # "failed"
  /\ asked' = [asked EXCEPT ![p] = 1]
  /\ \/ /\ money[p] = "none"
        /\ money' = [money EXCEPT ![p] = "pending"]
        /\ mine' = [mine EXCEPT ![p] = TRUE]
     \/ money[p] # "none" /\ UNCHANGED <<money, mine>>
  /\ UNCHANGED verdict

\* The wallet's owner pays the invoice without this server.
PayElsewhere(p) ==
  /\ money[p] = "none"
  /\ money' = [money EXCEPT ![p] = "pending"]
  /\ UNCHANGED <<asked, mine, verdict>>

\* The wallet pays the invoice, or gives up.
Settle(p) ==
  /\ money[p] = "pending"
  /\ money' = [money EXCEPT ![p] = "paid"]
  /\ UNCHANGED <<asked, mine, verdict>>

Refuse(p) ==
  /\ money[p] = "pending" /\ mine[p]
  /\ money' = [money EXCEPT ![p] = "failed"]
  /\ UNCHANGED <<asked, mine, verdict>>

\* The books close a payment, once: as completed only when it was paid, as failed only
\* when the wallet is not paying on its behalf.
Complete(p) ==
  /\ verdict[p] = "open" /\ money[p] = "paid"
  /\ verdict' = [verdict EXCEPT ![p] = "completed"]
  /\ UNCHANGED <<asked, money, mine>>

Fail(p) ==
  /\ verdict[p] = "open" /\ ~ (mine[p] /\ money[p] \in {"pending", "paid"})
  /\ verdict' = [verdict EXCEPT ![p] = "failed"]
  /\ UNCHANGED <<asked, money, mine>>

Act(p) ==
  \/ Deliver(p) \/ PayElsewhere(p) \/ Settle(p) \/ Refuse(p) \/ Complete(p) \/ Fail(p)

Next == \E p \in Payments : Act(p)

Spec == Init /\ [][Next]_vars
=============================================================================
