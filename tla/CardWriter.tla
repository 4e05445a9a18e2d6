----------------------------- MODULE CardWriter -----------------------------
(***************************************************************************)
(* The card writer (card-writer/engine, card-writer/web) and the RIC's     *)
(* write and wipe screens, at work on NTAG424 chips with the keys that     *)
(* CardRecords hands out.                                                  *)
(*                                                                         *)
(* A flow is a list of commands, each of which the chip obeys or refuses;  *)
(* the first refusal ends it, and a card taken off the reader ends it      *)
(* anywhere, before or after the chip obeyed.  A chip is thus often left   *)
(* with some keys of a card and some factory keys.  Reading the UID and    *)
(* random-UID mode change no key and no file, and can only end a flow.     *)
(*                                                                         *)
(* Assumption: the chip is as card-writer/tests/mock.mjs has it: a command *)
(* needs a session under key 0, a changed key 0 ends the session, and a    *)
(* key changes only if the old one was named.                              *)
(***************************************************************************)
EXTENDS CardRecords

CONSTANTS
  Chips,     \* bound: the chips
  Tools,     \* bound: the writers and RICs
  DataKeys   \* bound: how many of the keys 1 to 4 a chip has here

VARIABLES
  chip,   \* keys (None is the factory key, else the card's), address, SDM on
  hand,   \* the keys a tool has loaded: state.pending, state.pendingWipe
  job,    \* the flow a tool is running, with what is in its hand: the chip, the next command
  ended   \* flows that ended well, which can still be reported: <<kind, card>>

vars == <<rec, req, reported, chip, hand, job, ended>>

KeyNos == 0..DataKeys
Keys(c) == [n \in KeyNos |-> c]

NoHand == [kind |-> "none", card |-> None, keys |-> Keys(None)]
NoJob == [chip |-> "none", at |-> 0]

TypeOK ==
  /\ RecordsTypeOK
  /\ chip \in [Chips -> [key: [KeyNos -> 0..NCards], url: 0..NCards, sdm: BOOLEAN]]
  /\ hand \in [Tools -> [kind: {"none", "write", "wipe"}, card: 0..NCards, keys: [KeyNos -> 0..NCards]]]
  /\ job \in [Tools -> [chip: Chips \union {"none"}, at: 0..(DataKeys + 5)]]
  /\ ended \subseteq {"write", "wipe"} \X Cards

Init ==
  /\ RecordsInit
  /\ chip = [x \in Chips |-> [key |-> Keys(None), url |-> None, sdm |-> FALSE]]
  /\ hand = [t \in Tools |-> NoHand]
  /\ job = [t \in Tools |-> NoJob]
  /\ ended = {}

-----------------------------------------------------------------------------
(* What a tool holds *)

Load(t, kind, c, keys) ==
  /\ job[t] = NoJob
  /\ hand' = [hand EXCEPT ![t] = [kind |-> kind, card |-> c, keys |-> keys]]
  /\ UNCHANGED <<chip, job, ended>>

\* "Get next card", with a device token.
LoadNextProvision(t) ==
  /\ \E c \in Cards : NextProvision(c) /\ Load(t, "write", c, Keys(c))
  /\ UNCHANGED recordVars

\* A setup link: the keys come with its token gone.
LoadProvisionInput(t) ==
  \E c \in Cards : Redeem(c) /\ Load(t, "write", c, Keys(c))

\* Keys typed in or pasted: the owner's page shows them while the row exists.
LoadManualKeys(t) ==
  /\ \E c \in Cards : Exists(c) /\ Load(t, "write", c, Keys(c))
  /\ UNCHANGED recordVars

\* wipe-keys and the wipe export answer for any row, whatever its status.  The
\* form takes the keys one by one, so some may be given as factory keys.
LoadWipeKeys(t) ==
  /\ \E c \in Cards, keys \in [KeyNos -> {None} \union Cards] :
       /\ Exists(c) /\ \A n \in KeyNos : keys[n] \in {None, c}
       /\ Load(t, "wipe", c, keys)
  /\ UNCHANGED recordVars

\* "Write another", another page, a RIC that is done.
Drop(t) ==
  /\ job[t] = NoJob /\ hand[t] # NoHand
  /\ hand' = [hand EXCEPT ![t] = NoHand]
  /\ UNCHANGED <<recordVars, chip, job, ended>>

-----------------------------------------------------------------------------
(* The flows *)

Cmd(do, n) == [do |-> do, n |-> n]
ChangeKeys == [n \in 1..(DataKeys + 1) |-> Cmd("key", IF n > DataKeys THEN 0 ELSE n)]

\* writeBoltCard and wipeBoltCard: the master key is the last of the keys.
Flow(kind) ==
  IF kind = "write"
    THEN <<Cmd("ndef", 0), Cmd("auth", 0), Cmd("settings", 0)>> \o ChangeKeys
    ELSE <<Cmd("auth", 0), Cmd("settings", 0)>> \o ChangeKeys \o <<Cmd("ndef", 0)>>

\* The keys the flow puts on the chip, and those it takes to be there: a writer
\* counts on factory keys.
NewKey(h) == IF h.kind = "write" THEN h.card ELSE None
OldKey(h, n) == IF h.kind = "write" THEN None ELSE h.keys[n]

\* A flow starts when a chip is on the reader.
Start(t, x) ==
  /\ hand[t] # NoHand /\ job[t] = NoJob /\ \A u \in Tools : job[u].chip # x
  /\ job' = [job EXCEPT ![t] = [chip |-> x, at |-> 1]]
  /\ UNCHANGED <<recordVars, chip, hand, ended>>

Running(t) == job[t] # NoJob /\ job[t].at <= Len(Flow(hand[t].kind))
Done(t) == job[t] # NoJob /\ ~Running(t)

\* authenticateEv2First opens the session a secure command needs; a changed key 0
\* ends it.
InSession(flow, at) ==
  \E i \in 1..(at - 1) : flow[i].do = "auth" /\ \A k \in (i + 1)..(at - 1) : flow[k] # Cmd("key", 0)

\* Whether chip y obeys: the file is free until SDM locks it to key 0.
Obeys(y, h, at) ==
  LET flow == Flow(h.kind)   cmd == flow[at] IN
  CASE cmd.do = "ndef" -> ~y.sdm
    [] cmd.do = "auth" -> y.key[0] = OldKey(h, 0)
    [] cmd.do = "settings" -> InSession(flow, at)
    [] cmd.do = "key" -> InSession(flow, at) /\ (cmd.n = 0 \/ y.key[cmd.n] = OldKey(h, cmd.n))

Obeyed(y, h, cmd) ==
  CASE cmd.do = "ndef" -> [y EXCEPT !.url = NewKey(h)]
    [] cmd.do = "auth" -> y
    [] cmd.do = "settings" -> [y EXCEPT !.sdm = h.kind = "write"]
    [] cmd.do = "key" -> [y EXCEPT !.key[cmd.n] = NewKey(h)]

\* (mutant) A key the chip refuses is passed over.
AfterRefusal_GoOn(t) ==
  IF Flow(hand[t].kind)[job[t].at].do = "key" THEN [job[t] EXCEPT !.at = @ + 1] ELSE NoJob
\* A status word other than OK throws.
AfterRefusal(t) == NoJob

Command(t) ==
  LET x == job[t].chip   at == job[t].at IN
  /\ Running(t)
  /\ IF Obeys(chip[x], hand[t], at)
       THEN /\ chip' = [chip EXCEPT ![x] = Obeyed(@, hand[t], Flow(hand[t].kind)[at])]
            /\ job' = [job EXCEPT ![t].at = @ + 1]
       ELSE job' = [job EXCEPT ![t] = AfterRefusal(t)] /\ UNCHANGED chip
  /\ UNCHANGED <<recordVars, hand, ended>>

\* The card leaves the reader, or the bridge fails.
Torn(t) ==
  /\ Running(t) /\ job' = [job EXCEPT ![t] = NoJob]
  /\ UNCHANGED <<recordVars, chip, hand, ended>>

\* The RIC calls a card wiped whether or not its address could be cleared.
AddressNotCleared(t) ==
  /\ Running(t) /\ hand[t].kind = "wipe" /\ job[t].at = Len(Flow("wipe"))
  /\ job' = [job EXCEPT ![t].at = @ + 1]
  /\ UNCHANGED <<recordVars, chip, hand, ended>>

\* The flow is over and its result on the screen.
Finish(t) ==
  /\ Done(t) /\ job' = [job EXCEPT ![t] = NoJob]
  /\ ended' = ended \union {<<hand[t].kind, hand[t].card>>}
  /\ UNCHANGED <<recordVars, chip, hand>>

\* "Mark written", "Mark wiped" and the RIC's calls: at once, late, twice or never.
Report(c) ==
  /\ \/ <<"write", c>> \in ended /\ MarkWritten(c)
     \/ <<"wipe", c>> \in ended /\ MarkWiped(c)
  /\ UNCHANGED <<chip, hand, job, ended>>

\* The phone app reports with app-confirm, under the card's key 4.
AppConfirm(r, c) ==
  /\ \/ <<"write", c>> \in ended /\ Ask(r, "written", c, "none")
     \/ <<"wipe", c>> \in ended /\ Ask(r, "wiped", c, "none")
  /\ UNCHANGED <<chip, hand, job, ended>>

\* A terminal reads the chip; the server decrypts p with key 1 and checks c with key 2.
SunValid(x, c) == chip[x].sdm /\ chip[x].url = c /\ \A n \in 1..DataKeys : n <= 2 => chip[x].key[n] = c

Tap(x) ==
  /\ \A t \in Tools : job[t].chip # x
  /\ \E c \in Cards : SunValid(x, c) /\ ~rec[c].used /\ Tapped(c)
  /\ UNCHANGED <<chip, hand, job, ended>>

-----------------------------------------------------------------------------

RecordStep ==
  /\ \/ \E c \in Cards : Issue(c) \/ LinkExpires(c)
     \/ \E r \in Requests : OwnerRequest(r) \/ Update(r)
  /\ UNCHANGED <<chip, hand, job, ended>>

ToolStep(t) ==
  \/ LoadNextProvision(t) \/ LoadProvisionInput(t) \/ LoadManualKeys(t) \/ LoadWipeKeys(t) \/ Drop(t)
  \/ \E x \in Chips : Start(t, x)
  \/ Command(t) \/ Torn(t) \/ AddressNotCleared(t) \/ Finish(t)

Next ==
  \/ RecordStep
  \/ \E t \in Tools : ToolStep(t)
  \/ \E c \in Cards : Report(c) \/ \E r \in Requests : AppConfirm(r, c)
  \/ \E x \in Chips : Tap(x)

Spec == Init /\ [][Next]_vars

-----------------------------------------------------------------------------
(* Properties *)

\* A chip whose master key is a card's has only that card's keys and factory
\* keys beside it, however many writes and wipes were torn and whichever cards
\* they were for: that card's record is enough to wipe it.
MasterKeyLast ==
  \A x \in Chips : LET k == chip[x].key IN k[0] # None => \A n \in KeyNos : k[n] \in {None, k[0]}

\* A tool that says "written" has left all of the card's keys and its address on
\* the chip; one that says "wiped" has left none: what the server then records of
\* the chip is so.
ReportsAreTrue ==
  \A t \in Tools : Done(t) =>
    LET y == chip[job[t].chip] IN
    /\ y.key = Keys(NewKey(hand[t])) /\ y.sdm = (hand[t].kind = "write")
    /\ hand[t].kind = "write" => y.url = hand[t].card

\* "The API must refuse to delete a card that was not wiped first": no chip still
\* has keys whose only copy is gone.
DeletedWasWiped ==
  \A x \in Chips : \A n \in KeyNos :
    chip[x].key[n] # None => rec[chip[x].key[n]].status # "deleted"
=============================================================================
