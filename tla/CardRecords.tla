----------------------------- MODULE CardRecords -----------------------------
(***************************************************************************)
(* plugins/cards.ts: the life of a card's record, from the keys made when  *)
(* it is issued, through the setup link that hands them out and the report *)
(* that the chip was written, to cancellation and deletion.                *)
(*                                                                         *)
(* A request that changes a record it has read first is two steps, with    *)
(* other requests in between: what the row was and the UPDATE, under the   *)
(* condition the code gives it.  A route that selects only to see whether  *)
(* the row exists is one.                                                  *)
(***************************************************************************)
EXTENDS Naturals, Sequences

CONSTANTS
  NCards,    \* bound: the cards issued
  Requests   \* bound: the requests in flight at once

Cards == 1..NCards   \* in the order of created_at
None == 0            \* no card; on a chip, the factory key

VARIABLES
  rec,       \* the rows of the cards table; link: provision_token is set and has not expired
  req,       \* the requests between their read and their update
  reported   \* cards whose write or wipe a tool has reported, and the row took it

recordVars == <<rec, req, reported>>

NoRow == [status |-> "none", link |-> FALSE, used |-> FALSE]
NoReq == [op |-> "none", card |-> None, saw |-> "none", to |-> "none"]

Exists(c) == rec[c].status \notin {"none", "deleted"}

RecordsTypeOK ==
  /\ rec \in [Cards -> [status: {"none", "active", "frozen", "cancelled", "deleted"},
                        link: BOOLEAN, used: BOOLEAN]]
  /\ req \in [Requests -> [op: {"none", "patch", "delete", "renew", "written", "wiped"},
                           card: 0..NCards, saw: {"none", "active", "frozen", "cancelled"},
                           to: {"none", "active", "frozen", "cancelled"}]]
  /\ reported \subseteq Cards

RecordsInit ==
  /\ rec = [c \in Cards |-> NoRow]
  /\ req = [r \in Requests |-> NoReq]
  /\ reported = {}

-----------------------------------------------------------------------------
(* Single statements *)

Set(c, row) == rec' = [rec EXCEPT ![c] = row]

\* POST cards: keys, a PIN, and a setup link for a day.
Issue(c) ==
  /\ rec[c].status = "none" /\ \A d \in Cards : d < c => rec[d].status # "none"
  /\ Set(c, [NoRow EXCEPT !.status = "active", !.link = TRUE])
  /\ UNCHANGED <<req, reported>>

LinkExpires(c) ==
  /\ rec[c].link /\ Set(c, [rec[c] EXCEPT !.link = FALSE])
  /\ UNCHANGED <<req, reported>>

\* GET provision/:token takes the token away and returns the keys.  Only the hash
\* of the last link made is kept, so an earlier one finds no row.
Redeem(c) ==
  /\ rec[c].status = "active" /\ rec[c].link
  /\ Set(c, [rec[c] EXCEPT !.link = FALSE])
  /\ UNCHANGED <<req, reported>>

\* GET next-provision returns the keys of the oldest of these, and leaves its token.
Waiting == {c \in Cards : rec[c].status = "active" /\ rec[c].link /\ ~rec[c].used}
NextProvision(c) == c \in Waiting /\ \A d \in Waiting : c <= d

\* What a report that the chip is written, or wiped, makes of the row.
Written(row) == [row EXCEPT !.link = FALSE, !.used = TRUE]
Wiped(row) == [Written(row) EXCEPT !.status = "cancelled"]

MarkWritten(c) ==
  /\ rec[c].status = "active"
  /\ Set(c, Written(rec[c])) /\ reported' = reported \union {c}
  /\ UNCHANGED req

MarkWiped(c) ==
  /\ Exists(c)
  /\ Set(c, Wiped(rec[c])) /\ reported' = reported \union {c}
  /\ UNCHANGED req

\* A tap the server accepts sets last_used_at (card-tap.ts) and leaves the token.
Tapped(c) ==
  /\ rec[c].status = "active"
  /\ Set(c, [rec[c] EXCEPT !.used = TRUE])
  /\ UNCHANGED <<req, reported>>

-----------------------------------------------------------------------------
(* Requests that read the row first *)

\* What the row must be for the request to go on to its update.
Accepts(op, row) ==
  CASE op = "patch" -> row.status # "cancelled"
    [] op = "delete" -> row.status = "cancelled"
    [] op \in {"renew", "written"} -> row.status = "active" /\ ~row.used
    [] op = "wiped" -> row.status # "cancelled"

Ask(r, op, c, to) ==
  /\ req[r] = NoReq /\ Exists(c) /\ Accepts(op, rec[c])
  /\ req' = [req EXCEPT ![r] = [op |-> op, card |-> c, saw |-> rec[c].status, to |-> to]]
  /\ UNCHANGED <<rec, reported>>

\* (mutant) PATCH updates by id alone.
PatchHolds_ById(r) == Exists(req[r].card)
\* The WHERE of PATCH: the status is still the one it read.
PatchHolds(r) == rec[req[r].card].status = req[r].saw

\* (mutant) A new link for any card that is still active.
RenewHolds_AnyActive(c) == rec[c].status = "active"
\* The WHERE of a new setup link.
RenewHolds(c) == rec[c].status = "active" /\ ~rec[c].used

\* PATCH: every status but active takes the setup link away.
Patched(row, to) == [row EXCEPT !.status = to, !.link = @ /\ to = "active"]

\* The update, which may match no row; app-confirm's go by id alone.
Update(r) ==
  LET c == req[r].card IN
  /\ req[r] # NoReq /\ req' = [req EXCEPT ![r] = NoReq]
  /\ CASE req[r].op = "patch" /\ PatchHolds(r) -> Set(c, Patched(rec[c], req[r].to))
       [] req[r].op = "delete" /\ rec[c].status = "cancelled" ->
            Set(c, [NoRow EXCEPT !.status = "deleted"])
       [] req[r].op = "renew" /\ RenewHolds(c) -> Set(c, [rec[c] EXCEPT !.link = TRUE])
       [] req[r].op = "written" /\ Exists(c) -> Set(c, Written(rec[c]))
       [] req[r].op = "wiped" /\ Exists(c) -> Set(c, Wiped(rec[c]))
       [] OTHER -> UNCHANGED rec
  /\ reported' = IF req[r].op \in {"written", "wiped"} /\ Exists(c)
                   THEN reported \union {c} ELSE reported

OwnerRequest(r) ==
  \E c \in Cards :
    \/ \E to \in {"active", "frozen", "cancelled"} : Ask(r, "patch", c, to)
    \/ Ask(r, "delete", c, "none")
    \/ Ask(r, "renew", c, "none")

-----------------------------------------------------------------------------
(* Properties *)

\* "Cancelled cards cannot be reactivated": whatever request was reading the row
\* while the wipe was reported, a cancelled card stays so until it is deleted.
CancelledStays ==
  \A c \in Cards : rec[c].status = "cancelled" => rec'[c].status \in {"cancelled", "deleted"}
CancelledForGood == [][CancelledStays]_rec

\* A card reported as written or wiped never has a setup link again, so its keys
\* are not handed to a second chip: neither the link it had, nor one an owner was
\* asking for at that moment.
ReportedForGood == \A c \in reported : ~rec[c].link
=============================================================================
