---------------------------- MODULE TelegramLink ----------------------------
(***************************************************************************)
(* Connecting a Telegram user to an account (plugins/telegram-link.ts):    *)
(* the app mints a code, the support bot redeems it.  A redemption reads   *)
(* the code and the links, deletes the account's old link, inserts the new *)
(* one and marks the code, each in a statement of its own; the bot may     *)
(* redeem one code for two people at once, and the process may stop        *)
(* anywhere.  telegram_links holds an account and a person once each.      *)
(***************************************************************************)
EXTENDS Naturals

CONSTANTS
  Accounts,
  People,   \* Telegram users
  Codes,    \* bound: codes ever minted
  Claims    \* bound: redemptions in progress at once

None == "none"

VARIABLES
  owner,  \* the account of a code, None until it is minted
  good,   \* codes that have not expired
  used,   \* codes with used_at
  link,   \* telegram_links: the person of an account
  claim,  \* redemptions: where they are, their code and person
  made    \* codes whose redemption has inserted a link

vars == <<owner, good, used, link, claim, made>>

Idle == [at |-> "idle", code |-> None, person |-> None]

TypeOK ==
  /\ owner \in [Codes -> Accounts \union {None}]
  /\ good \subseteq Codes /\ used \subseteq Codes /\ made \subseteq Codes
  /\ link \in [Accounts -> People \union {None}]
  /\ claim \in [Claims -> [at: {"idle", "again", "taken", "delete", "insert", "mark"},
                           code: Codes \union {None}, person: People \union {None}]]

Init ==
  /\ owner = [k \in Codes |-> None] /\ good = {} /\ used = {} /\ made = {}
  /\ link = [a \in Accounts |-> None] /\ claim = [c \in Claims |-> Idle]

Account(c) == owner[claim[c].code]
Go(c, at) == claim' = [claim EXCEPT ![c].at = at]
Answer(c) == claim' = [claim EXCEPT ![c] = Idle]

-----------------------------------------------------------------------------
(* The signed-in app *)

Mint(k) ==
  /\ owner[k] = None
  /\ \E a \in Accounts: owner' = [owner EXCEPT ![k] = a]
  /\ good' = good \union {k}
  /\ UNCHANGED <<used, link, claim, made>>

Expire(k) ==
  /\ k \in good /\ good' = good \ {k}
  /\ UNCHANGED <<owner, used, link, claim, made>>

Unlink(a) ==
  /\ link[a] # None /\ link' = [link EXCEPT ![a] = None]
  /\ UNCHANGED <<owner, good, used, claim, made>>

-----------------------------------------------------------------------------
(* POST /api/telegram/claim *)

\* A code that is unknown or expired is refused, which changes nothing.
Claim(c) ==
  /\ claim[c].at = "idle"
  /\ \E k \in good, p \in People:
       claim' = [claim EXCEPT ![c] =
         [at |-> IF k \in used THEN "again" ELSE "taken", code |-> k, person |-> p]]
  /\ UNCHANGED <<owner, good, used, link, made>>

\* The code was redeemed before: fine if it was by the same person.
Again(c) ==
  /\ claim[c].at = "again" /\ Answer(c)
  /\ UNCHANGED <<owner, good, used, link, made>>

\* The person may be linked to one account only.
Taken(c) ==
  /\ claim[c].at = "taken"
  /\ IF \E a \in Accounts \ {Account(c)}: link[a] = claim[c].person
     THEN Answer(c) ELSE Go(c, "delete")
  /\ UNCHANGED <<owner, good, used, link, made>>

Delete(c) ==
  /\ claim[c].at = "delete" /\ link' = [link EXCEPT ![Account(c)] = None] /\ Go(c, "insert")
  /\ UNCHANGED <<owner, good, used, made>>

\* Neither the account nor the person is in the table.
Fits(c) == link[Account(c)] = None /\ \A a \in Accounts: link[a] # claim[c].person

\* (mutant) A row that is in the way is no error.
Insert_Ignores(c) ==
  /\ claim[c].at = "insert" /\ Go(c, "mark")
  /\ IF Fits(c) THEN /\ link' = [link EXCEPT ![Account(c)] = claim[c].person]
                     /\ made' = made \union {claim[c].code}
     ELSE UNCHANGED <<link, made>>
  /\ UNCHANGED <<owner, good, used>>
Insert(c) ==
  /\ claim[c].at = "insert"
  /\ IF Fits(c) THEN /\ link' = [link EXCEPT ![Account(c)] = claim[c].person]
                     /\ made' = made \union {claim[c].code} /\ Go(c, "mark")
     ELSE Answer(c) /\ UNCHANGED <<link, made>>
  /\ UNCHANGED <<owner, good, used>>

Mark(c) ==
  /\ claim[c].at = "mark" /\ used' = used \union {claim[c].code} /\ Answer(c)
  /\ UNCHANGED <<owner, good, link, made>>

\* The process stops, or the statement fails.
Breaks(c) ==
  /\ claim[c].at # "idle" /\ Answer(c)
  /\ UNCHANGED <<owner, good, used, link, made>>

Next ==
  \/ \E k \in Codes: Mint(k) \/ Expire(k)
  \/ \E a \in Accounts: Unlink(a)
  \/ \E c \in Claims: \/ Claim(c) \/ Again(c) \/ Taken(c) \/ Delete(c) \/ Insert(c)
                      \/ Mark(c) \/ Breaks(c)

Spec == Init /\ [][Next]_vars

-----------------------------------------------------------------------------
(* Properties *)

\* A code is spent only by a redemption that linked somebody, however redemptions overlap
\* and wherever one breaks: whoever lost the old link on the way can try the code again.
\* And nobody answers for two accounts.
SpentCodeLinked ==
  /\ used \subseteq made
  /\ \A a, b \in Accounts: link[a] = link[b] /\ link[a] # None => a = b
=============================================================================
