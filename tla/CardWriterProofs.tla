-------------------------- MODULE CardWriterProofs --------------------------
(***************************************************************************)
(* What the cards of MCMerchant keep of CardRecords and CardWriter, for    *)
(* any number of cards, requests, chips, tools and data keys: an invariant *)
(* of the records (RecordInv), one of the chips under the tools            *)
(* (ToolsSound, whose part Reached says how far each command of a flow has *)
(* brought a chip), the step that keeps both, and the properties that      *)
(* follow.  MerchantProofs states them of the specification.               *)
(***************************************************************************)
EXTENDS MCMerchant, Sequences, SequenceTheorems, TLAPS

-----------------------------------------------------------------------------
(* The records *)

CardConstants == NCards \in Nat /\ DataKeys \in Nat

RowType ==
  [status: {"none", "active", "frozen", "cancelled", "deleted"}, link: BOOLEAN, used: BOOLEAN]

\* A reported card is used, as long as its row is there, so that a new link is refused; a
\* row that has not been issued is not used.
SoundRow(row1, isReported) ==
  /\ row1 \in RowType
  /\ row1.status = "none" => row1.used = FALSE
  /\ isReported => row1.link = FALSE /\ (row1.used = TRUE \/ row1.status = "deleted")

RowsSound ==
  /\ x1 \in [Card!Cards -> RowType] /\ x3 \subseteq Card!Cards
  /\ \A c \in Card!Cards : SoundRow(x1[c], c \in x3)

\* A request is about a row it saw, and a PATCH saw one that was not cancelled.
SoundAsk(q) ==
  /\ q \in [op: {"none", "patch", "delete", "renew", "written", "wiped"},
            card: 0..NCards, saw: {"none", "active", "frozen", "cancelled"},
              to: {"none", "active", "frozen", "cancelled"}]
  /\ q # Card!NoReq => q.card \in Card!Cards /\ q.saw # "none"
  /\ q.op = "patch" => q.saw # "cancelled" /\ q.to \in {"active", "frozen", "cancelled"}

AsksSound ==
  /\ DOMAIN x2 = CardRequests /\ x2 = [r \in CardRequests |-> x2[r]]
  /\ \A r \in CardRequests : SoundAsk(x2[r])

RecordInv == RowsSound /\ AsksSound

LEMMA NoReqSound == CardConstants => SoundAsk(Card!NoReq)
<1>1. CardConstants => 0 \in 0..NCards
  BY DEF CardConstants
<1>2. Card!NoReq = [op |-> "none", card |-> 0, saw |-> "none", to |-> "none"]
  BY DEF Card!NoReq, Card!None
<1> QED
  BY <1>1, <1>2 DEF SoundAsk

LEMMA RecordInit == CardConstants /\ Card!RecordsInit => RecordInv
<1>1. SoundRow(Card!NoRow, FALSE)
  BY DEF Card!NoRow, SoundRow, RowType
<1>2. CardConstants => SoundAsk(Card!NoReq)
  BY NoReqSound
<1>3. Card!NoRow \in RowType
  BY <1>1 DEF SoundRow
<1>4. \A c \in Card!Cards : SoundRow(Card!NoRow, c \in {})
  BY <1>1 DEF SoundRow
<1> QED
  BY <1>2, <1>3, <1>4 DEF Card!RecordsInit, RecordInv, RowsSound, AsksSound

\* The row of card c becomes another, or stays.
LEMMA RowMoves ==
  ASSUME RowsSound, NEW c \in Card!Cards, NEW to, Card!Set(c, to),
         x3' \in {x3, x3 \union {c}}, SoundRow(to, c \in x3'),
         x1[c].status = "cancelled" => to.status \in {"cancelled", "deleted"}
  PROVE  RowsSound' /\ Card!CancelledStays
<1>1. to \in RowType /\ x1' = [x1 EXCEPT ![c] = to]
  BY DEF SoundRow, Card!Set
<1>2. x1' \in [Card!Cards -> RowType] /\ x3' \subseteq Card!Cards
  BY <1>1 DEF RowsSound
<1>3. \A d \in Card!Cards : d # c => x1'[d] = x1[d] /\ (d \in x3' <=> d \in x3)
  BY <1>1 DEF RowsSound
<1>4. x1'[c] = to
  BY <1>1 DEF RowsSound
<1>5. \A d \in Card!Cards : SoundRow(x1'[d], d \in x3')
  BY <1>3, <1>4 DEF RowsSound, SoundRow
<1>6. Card!CancelledStays
  BY <1>3, <1>4 DEF Card!CancelledStays
<1> QED
  BY <1>2, <1>5, <1>6 DEF RowsSound

LEMMA AskMoves ==
  ASSUME AsksSound, NEW r \in CardRequests, NEW to, SoundAsk(to), x2' = [x2 EXCEPT ![r] = to]
  PROVE  AsksSound'
<1>1. DOMAIN x2' = CardRequests /\ x2' = [s \in CardRequests |-> x2'[s]]
  BY DEF AsksSound
<1>2. \A s \in CardRequests : SoundAsk(x2'[s])
  BY DEF AsksSound
<1> QED
  BY <1>1, <1>2 DEF AsksSound

\* What the statements make of a row.
LEMMA RowFacts ==
  ASSUME NEW row1, NEW isReported, SoundRow(row1, isReported)
  PROVE  /\ SoundRow([row1 EXCEPT !.link = FALSE], isReported)
         /\ [row1 EXCEPT !.link = FALSE].status = row1.status
         /\ row1.status # "none" =>
              SoundRow(Card!Written(row1), TRUE) /\ SoundRow(Card!Wiped(row1), TRUE)
         /\ Card!Written(row1).status = row1.status /\ Card!Wiped(row1).status = "cancelled"
         /\ row1.status = "active" => SoundRow([row1 EXCEPT !.used = TRUE], isReported)
         /\ [row1 EXCEPT !.used = TRUE].status = row1.status
         /\ row1.status = "active" /\ row1.used = FALSE =>
              SoundRow([row1 EXCEPT !.link = TRUE], isReported)
         /\ [row1 EXCEPT !.link = TRUE].status = row1.status
  BY DEF SoundRow, RowType, Card!Written, Card!Wiped

LEMMA PatchedRow ==
  ASSUME NEW row1, NEW isReported, SoundRow(row1, isReported),
         row1.status \notin {"none", "deleted"},
         NEW to \in {"active", "frozen", "cancelled"}
  PROVE  SoundRow(Card!Patched(row1, to), isReported)
<1>1. row1 \in RowType /\ row1.link \in BOOLEAN
  BY DEF SoundRow, RowType
<1>2. (row1.link /\ to = "active") \in BOOLEAN
  OBVIOUS
<1>3. PICK link1 \in BOOLEAN : link1 = (row1.link /\ to = "active")
  BY <1>2
<1>4. row1.link = FALSE => link1 = FALSE
  BY <1>3
<1>5. Card!Patched(row1, to) = [row1 EXCEPT !.status = to, !.link = link1]
  BY <1>3 DEF Card!Patched
<1>6. SoundRow([row1 EXCEPT !.status = to, !.link = link1], isReported)
  BY <1>1, <1>4 DEF SoundRow, RowType
<1> QED
  BY <1>5, <1>6

\* The statements of a request, and the reads before them.
LEMMA StatementStep ==
  ASSUME CardConstants, RecordInv, NEW c \in Card!Cards,
         \/ Card!Issue(c) \/ Card!LinkExpires(c) \/ Card!Redeem(c)
         \/ Card!MarkWritten(c) \/ Card!MarkWiped(c) \/ Card!Tapped(c)
  PROVE  RecordInv' /\ Card!CancelledStays
<1>0. RowsSound /\ AsksSound /\ SoundRow(x1[c], c \in x3) /\ x1[c] \in RowType
  BY DEF RecordInv, RowsSound
<1>1. ASSUME RowsSound', x2' = x2 PROVE RecordInv'
  BY <1>0, <1>1 DEF RecordInv, AsksSound
<1>2. CASE Card!Issue(c)
  <2>1. SoundRow([Card!NoRow EXCEPT !.status = "active", !.link = TRUE], FALSE)
    BY DEF SoundRow, RowType, Card!NoRow
  <2>2. c \notin x3
    BY <1>0, <1>2 DEF Card!Issue, SoundRow
  <2>3. SoundRow([Card!NoRow EXCEPT !.status = "active", !.link = TRUE], c \in x3')
    BY <1>2, <2>1, <2>2 DEF Card!Issue, SoundRow
  <2> QED
    BY <1>0, <1>1, <1>2, <2>3, RowMoves DEF Card!Issue
<1>3. CASE Card!LinkExpires(c) \/ Card!Redeem(c)
  <2>1. Card!Set(c, [x1[c] EXCEPT !.link = FALSE]) /\ x2' = x2 /\ x3' = x3
    BY <1>3 DEF Card!LinkExpires, Card!Redeem
  <2> QED
    BY <1>0, <1>1, <2>1, RowMoves, RowFacts
<1>4. CASE Card!MarkWritten(c)
  <2>1. /\ Card!Set(c, Card!Written(x1[c])) /\ x2' = x2 /\ x3' = x3 \union {c}
        /\ x1[c].status = "active"
    BY <1>4 DEF Card!MarkWritten
  <2>2. SoundRow(Card!Written(x1[c]), c \in x3')
    BY <1>0, <2>1, RowFacts DEF SoundRow
  <2> QED
    BY <1>0, <1>1, <2>1, <2>2, RowMoves
<1>5. CASE Card!MarkWiped(c)
  <2>1. /\ Card!Set(c, Card!Wiped(x1[c])) /\ x2' = x2 /\ x3' = x3 \union {c}
        /\ x1[c].status # "none"
    BY <1>5 DEF Card!MarkWiped, Card!Exists
  <2>2. SoundRow(Card!Wiped(x1[c]), c \in x3') /\ Card!Wiped(x1[c]).status = "cancelled"
    BY <1>0, <2>1, RowFacts DEF SoundRow
  <2> QED
    BY <1>0, <1>1, <2>1, <2>2, RowMoves
<1>6. CASE Card!Tapped(c)
  <2>1. /\ Card!Set(c, [x1[c] EXCEPT !.used = TRUE]) /\ x2' = x2 /\ x3' = x3
        /\ x1[c].status = "active"
    BY <1>6 DEF Card!Tapped
  <2> QED
    BY <1>0, <1>1, <2>1, RowMoves, RowFacts
<1> QED
  BY <1>2, <1>3, <1>4, <1>5, <1>6

\* A request that reads, and one that writes.
LEMMA AskStep ==
  ASSUME CardConstants, RecordInv, NEW r \in CardRequests, NEW c \in Card!Cards,
         NEW op \in {"patch", "delete", "renew", "written", "wiped"},
         NEW to \in {"none", "active", "frozen", "cancelled"},
         op = "patch" => to \in {"active", "frozen", "cancelled"}, Card!Ask(r, op, c, to)
  PROVE  RecordInv' /\ Card!CancelledStays
<1> DEFINE q == [op |-> op, card |-> c, saw |-> x1[c].status, to |-> to]
<1>1. /\ x2' = [x2 EXCEPT ![r] = q] /\ UNCHANGED <<x1, x3>>
      /\ x1[c].status \notin {"none", "deleted"} /\ Card!Accepts(op, x1[c])
  BY DEF Card!Ask, Card!Exists
<1>2. x1[c].status \in {"none", "active", "frozen", "cancelled", "deleted"} /\ c \in 0..NCards
  BY DEF RecordInv, RowsSound, RowType, Card!Cards, CardConstants
<1>3. op = "patch" => x1[c].status # "cancelled"
  BY <1>1 DEF Card!Accepts
<1>4. SoundAsk(q)
  <2>1. x1[c].status \in {"active", "frozen", "cancelled"}
        /\ q.card = c /\ q.op = op /\ q.saw = x1[c].status /\ q.to = to
    BY <1>1, <1>2
  <2>2. q \in [op: {"none", "patch", "delete", "renew", "written", "wiped"},
              card: 0..NCards, saw: {"none", "active", "frozen", "cancelled"},
              to: {"none", "active", "frozen", "cancelled"}]
    BY <1>2, <2>1
  <2> HIDE DEF q
  <2> QED
    BY <1>1, <1>3, <2>1, <2>2 DEF SoundAsk
<1> HIDE DEF q
<1>5. AsksSound'
  BY <1>1, <1>4, AskMoves DEF RecordInv
<1> QED
  BY <1>1, <1>5 DEF RecordInv, RowsSound, Card!CancelledStays

LEMMA UpdateRowStep ==
  ASSUME CardConstants, RecordInv, NEW r \in CardRequests, Card!Update(r)
  PROVE  RecordInv' /\ Card!CancelledStays
<1> DEFINE c == x2[r].card
<1>0. /\ RowsSound /\ AsksSound /\ SoundAsk(x2[r]) /\ x2[r] # Card!NoReq
      /\ x2' = [x2 EXCEPT ![r] = Card!NoReq]
  BY DEF RecordInv, AsksSound, Card!Update
<1>1. c \in Card!Cards /\ SoundRow(x1[c], c \in x3) /\ x1[c] \in RowType
  BY <1>0 DEF SoundAsk, RowsSound
<1>2. AsksSound'
  <2>1. SoundAsk(Card!NoReq)
    BY NoReqSound
  <2> QED
    BY <1>0, <2>1, AskMoves
<1>3. ASSUME RowsSound' /\ Card!CancelledStays PROVE RecordInv' /\ Card!CancelledStays
  BY <1>2, <1>3 DEF RecordInv
<1>4. x3' = IF x2[r].op \in {"written", "wiped"} /\ Card!Exists(c) THEN x3 \union {c} ELSE x3
  BY DEF Card!Update
<1>5. CASE x1' = x1 /\ x3' = x3
  BY <1>0, <1>3, <1>5 DEF RowsSound, Card!CancelledStays
<1>6. CASE x2[r].op = "patch" /\ Card!PatchHolds(r)
  <2>1. /\ Card!Set(c, Card!Patched(x1[c], x2[r].to)) /\ x3' = x3
        /\ x1[c].status \notin {"none", "deleted", "cancelled"}
        /\ x2[r].to \in {"active", "frozen", "cancelled"}
    BY <1>0, <1>4, <1>6 DEF Card!Update, Card!PatchHolds, SoundAsk
  <2> HIDE DEF c
  <2> QED
    BY <1>0, <1>1, <1>3, <2>1, RowMoves, PatchedRow
<1>7. CASE x2[r].op = "delete" /\ x1[c].status = "cancelled"
  <2>1. Card!Set(c, [Card!NoRow EXCEPT !.status = "deleted"]) /\ x3' = x3
    BY <1>4, <1>7 DEF Card!Update
  <2>2. SoundRow([Card!NoRow EXCEPT !.status = "deleted"], c \in x3')
        /\ [Card!NoRow EXCEPT !.status = "deleted"].status = "deleted"
    BY DEF SoundRow, RowType, Card!NoRow
  <2> HIDE DEF c
  <2> QED
    BY <1>0, <1>1, <1>3, <2>1, <2>2, RowMoves
<1>8. CASE x2[r].op = "renew" /\ Card!RenewHolds(c)
  <2>1. /\ Card!Set(c, [x1[c] EXCEPT !.link = TRUE]) /\ x3' = x3
        /\ x1[c].status = "active" /\ x1[c].used = FALSE
    BY <1>1, <1>4, <1>8 DEF Card!Update, Card!RenewHolds, RowType
  <2> HIDE DEF c
  <2> QED
    BY <1>0, <1>1, <1>3, <2>1, RowMoves, RowFacts
<1>9. CASE x2[r].op = "written" /\ Card!Exists(c)
  <2>1. /\ Card!Set(c, Card!Written(x1[c])) /\ x3' = x3 \union {c} /\ x1[c].status # "none"
    BY <1>4, <1>9 DEF Card!Update, Card!Exists
  <2> HIDE DEF c
  <2>2. SoundRow(Card!Written(x1[c]), c \in x3') /\ Card!Written(x1[c]).status = x1[c].status
    BY <1>1, <2>1, RowFacts DEF SoundRow
  <2> QED
    BY <1>0, <1>1, <1>3, <2>1, <2>2, RowMoves
<1>10. CASE x2[r].op = "wiped" /\ Card!Exists(c)
  <2>1. /\ Card!Set(c, Card!Wiped(x1[c])) /\ x3' = x3 \union {c} /\ x1[c].status # "none"
    BY <1>4, <1>10 DEF Card!Update, Card!Exists
  <2> HIDE DEF c
  <2>2. SoundRow(Card!Wiped(x1[c]), c \in x3') /\ Card!Wiped(x1[c]).status = "cancelled"
    BY <1>1, <2>1, RowFacts DEF SoundRow
  <2> QED
    BY <1>0, <1>1, <1>3, <2>1, <2>2, RowMoves
<1>11. CASE ~ \/ x2[r].op = "patch" /\ Card!PatchHolds(r)
              \/ x2[r].op = "delete" /\ x1[c].status = "cancelled"
              \/ x2[r].op = "renew" /\ Card!RenewHolds(c)
              \/ x2[r].op \in {"written", "wiped"} /\ Card!Exists(c)
  <2>1. x1' = x1 /\ x3' = x3
    BY <1>4, <1>11 DEF Card!Update
  <2> QED
    BY <1>5, <2>1
<1> QED
  BY <1>6, <1>7, <1>8, <1>9, <1>10, <1>11

LEMMA RecordRests ==
  ASSUME RecordInv, UNCHANGED Card!recordVars
  PROVE  RecordInv' /\ Card!CancelledStays
  BY DEF Card!recordVars, RecordInv, RowsSound, AsksSound, Card!CancelledStays

-----------------------------------------------------------------------------
(* The flows *)

FlowKinds == {"write", "wipe"}
AnyCommand == [do: {"ndef", "auth", "settings", "key"}, n: Nat]

LEMMA FlowIsThis ==
  ASSUME CardConstants
  PROVE  /\ \A kind \in FlowKinds : Len(Card!Flow(kind)) = DataKeys + 4
         /\ LET f == Card!Flow("write") IN
            /\ f[1] = Card!Cmd("ndef", 0) /\ f[2] = Card!Cmd("auth", 0)
            /\ f[3] = Card!Cmd("settings", 0)
            /\ \A n \in 1..DataKeys : f[n + 3] = Card!Cmd("key", n)
            /\ f[DataKeys + 4] = Card!Cmd("key", 0)
         /\ LET f == Card!Flow("wipe") IN
            /\ f[1] = Card!Cmd("auth", 0) /\ f[2] = Card!Cmd("settings", 0)
            /\ \A n \in 1..DataKeys : f[n + 2] = Card!Cmd("key", n)
            /\ f[DataKeys + 3] = Card!Cmd("key", 0) /\ f[DataKeys + 4] = Card!Cmd("ndef", 0)
<1> DEFINE keys == Card!ChangeKeys
           start == <<Card!Cmd("ndef", 0), Card!Cmd("auth", 0), Card!Cmd("settings", 0)>>
           open == <<Card!Cmd("auth", 0), Card!Cmd("settings", 0)>>
           end == <<Card!Cmd("ndef", 0)>>
<1>0. DataKeys \in Nat
  BY DEF CardConstants
<1>1. /\ keys \in Seq(AnyCommand) /\ Len(keys) = DataKeys + 1
      /\ \A n \in 1..DataKeys : keys[n] = Card!Cmd("key", n)
      /\ keys[DataKeys + 1] = Card!Cmd("key", 0)
  <2>1. keys \in [1..(DataKeys + 1) -> AnyCommand]
    BY <1>0 DEF Card!ChangeKeys, Card!Cmd, AnyCommand
  <2>2. keys \in Seq(AnyCommand)
    BY <1>0, <2>1, IsASeq
  <2>3. DOMAIN keys = 1..(DataKeys + 1)
    BY <2>1
  <2>4. Len(keys) = DataKeys + 1
    BY <1>0, <2>2, <2>3, LenProperties
  <2>5. /\ \A n \in 1..DataKeys : keys[n] = Card!Cmd("key", n)
        /\ keys[DataKeys + 1] = Card!Cmd("key", 0)
    BY <1>0 DEF Card!ChangeKeys
  <2> QED
    BY <2>2, <2>4, <2>5
<1>2. /\ start \in Seq(AnyCommand) /\ Len(start) = 3
      /\ start[1] = Card!Cmd("ndef", 0) /\ start[2] = Card!Cmd("auth", 0)
      /\ start[3] = Card!Cmd("settings", 0)
  BY DEF Card!Cmd, AnyCommand
<1>3. /\ open \in Seq(AnyCommand) /\ Len(open) = 2
      /\ open[1] = Card!Cmd("auth", 0) /\ open[2] = Card!Cmd("settings", 0)
  BY DEF Card!Cmd, AnyCommand
<1>4. end \in Seq(AnyCommand) /\ Len(end) = 1 /\ end[1] = Card!Cmd("ndef", 0)
  BY DEF Card!Cmd, AnyCommand
<1>5. Card!Flow("write") = start \o keys /\ Card!Flow("wipe") = (open \o keys) \o end
  BY DEF Card!Flow
<1> HIDE DEF keys, start, open, end
<1>6. /\ Len(start \o keys) = DataKeys + 4
      /\ \A i \in 1..(DataKeys + 4) : (start \o keys)[i] = IF i <= 3 THEN start[i] ELSE keys[i - 3]
  <2>1. /\ Len(start \o keys) = Len(start) + Len(keys)
        /\ \A i \in 1..Len(start) + Len(keys) :
             (start \o keys)[i] = IF i <= Len(start) THEN start[i] ELSE keys[i - Len(start)]
    BY <1>1, <1>2, ConcatProperties
  <2>2. Len(start) + Len(keys) = DataKeys + 4 /\ Len(start) = 3
    BY <1>0, <1>1, <1>2
  <2> QED
    BY <2>1, <2>2
<1>7. /\ open \o keys \in Seq(AnyCommand) /\ Len(open \o keys) = DataKeys + 3
      /\ \A i \in 1..(DataKeys + 3) : (open \o keys)[i] = IF i <= 2 THEN open[i] ELSE keys[i - 2]
  <2>1. /\ open \o keys \in Seq(AnyCommand) /\ Len(open \o keys) = Len(open) + Len(keys)
        /\ \A i \in 1..Len(open) + Len(keys) :
             (open \o keys)[i] = IF i <= Len(open) THEN open[i] ELSE keys[i - Len(open)]
    BY <1>1, <1>3, ConcatProperties
  <2>2. Len(open) + Len(keys) = DataKeys + 3 /\ Len(open) = 2
    BY <1>0, <1>1, <1>3
  <2> QED
    BY <2>1, <2>2
<1>8. /\ Len((open \o keys) \o end) = DataKeys + 4
      /\ \A i \in 1..(DataKeys + 4) :
           ((open \o keys) \o end)[i] = IF i <= DataKeys + 3 THEN (open \o keys)[i]
                                                             ELSE end[i - (DataKeys + 3)]
  <2> DEFINE body == open \o keys
  <2>1. body \in Seq(AnyCommand) /\ Len(body) = DataKeys + 3
    BY <1>7
  <2> HIDE DEF body
  <2>2. /\ Len(body \o end) = Len(body) + Len(end)
        /\ \A i \in 1..Len(body) + Len(end) :
             (body \o end)[i] = IF i <= Len(body) THEN body[i] ELSE end[i - Len(body)]
    BY <2>1, <1>4, ConcatProperties
  <2>3. Len(body) + Len(end) = DataKeys + 4
    BY <1>0, <1>4, <2>1
  <2>4. /\ Len(body \o end) = DataKeys + 4
        /\ \A i \in 1..(DataKeys + 4) :
             (body \o end)[i] = IF i <= DataKeys + 3 THEN body[i] ELSE end[i - (DataKeys + 3)]
    BY <2>1, <2>2, <2>3
  <2> QED
    BY <2>4 DEF body
<1>9. LET f == Card!Flow("write") IN
      /\ f[1] = Card!Cmd("ndef", 0) /\ f[2] = Card!Cmd("auth", 0)
      /\ f[3] = Card!Cmd("settings", 0)
      /\ \A n \in 1..DataKeys : f[n + 3] = Card!Cmd("key", n)
      /\ f[DataKeys + 4] = Card!Cmd("key", 0)
  <2>1. \A i \in 1..(DataKeys + 4) : Card!Flow("write")[i] = IF i <= 3 THEN start[i] ELSE keys[i - 3]
    BY <1>5, <1>6
  <2>2. /\ Card!Flow("write")[1] = start[1] /\ Card!Flow("write")[2] = start[2]
        /\ Card!Flow("write")[3] = start[3]
    BY <1>0, <2>1
  <2>3. Card!Flow("write")[DataKeys + 4] = keys[DataKeys + 1]
    <3>1. /\ DataKeys + 4 \in 1..(DataKeys + 4) /\ ~(DataKeys + 4 <= 3)
          /\ (DataKeys + 4) - 3 = DataKeys + 1
      BY <1>0
    <3> QED
      BY <2>1, <3>1
  <2>4. ASSUME NEW n \in 1..DataKeys PROVE Card!Flow("write")[n + 3] = keys[n]
    <3>1. n + 3 \in 1..(DataKeys + 4) /\ ~(n + 3 <= 3) /\ (n + 3) - 3 = n
      BY <1>0
    <3> QED
      BY <2>1, <3>1
  <2> QED
    BY <1>1, <1>2, <2>2, <2>3, <2>4
<1>10. LET f == Card!Flow("wipe") IN
       /\ f[1] = Card!Cmd("auth", 0) /\ f[2] = Card!Cmd("settings", 0)
       /\ \A n \in 1..DataKeys : f[n + 2] = Card!Cmd("key", n)
       /\ f[DataKeys + 3] = Card!Cmd("key", 0) /\ f[DataKeys + 4] = Card!Cmd("ndef", 0)
  <2> DEFINE body == open \o keys   g == body \o end
  <2>1. Card!Flow("wipe") = g
    BY <1>5
  <2>2. /\ \A i \in 1..(DataKeys + 3) : body[i] = IF i <= 2 THEN open[i] ELSE keys[i - 2]
        /\ \A i \in 1..(DataKeys + 4) :
             g[i] = IF i <= DataKeys + 3 THEN body[i] ELSE end[i - (DataKeys + 3)]
    BY <1>7, <1>8
  <2> HIDE DEF body, g
  <2>3. /\ \A i \in 1..(DataKeys + 3) : g[i] = IF i <= 2 THEN open[i] ELSE keys[i - 2]
        /\ g[DataKeys + 4] = end[1]
    <3>1. \A i \in 1..(DataKeys + 3) : i \in 1..(DataKeys + 4) /\ i <= DataKeys + 3
      BY <1>0
    <3>2. DataKeys + 4 \in 1..(DataKeys + 4) /\ ~(DataKeys + 4 <= DataKeys + 3)
          /\ (DataKeys + 4) - (DataKeys + 3) = 1
      BY <1>0
    <3> QED
      BY <2>2, <3>1, <3>2
  <2>4. g[1] = open[1] /\ g[2] = open[2]
    BY <1>0, <2>3
  <2>5. g[DataKeys + 3] = keys[DataKeys + 1]
    <3>1. /\ DataKeys + 3 \in 1..(DataKeys + 3) /\ ~(DataKeys + 3 <= 2)
          /\ (DataKeys + 3) - 2 = DataKeys + 1
      BY <1>0
    <3> QED
      BY <2>3, <3>1
  <2>6. ASSUME NEW n \in 1..DataKeys PROVE g[n + 2] = keys[n]
    <3>1. n + 2 \in 1..(DataKeys + 3) /\ ~(n + 2 <= 2) /\ (n + 2) - 2 = n
      BY <1>0
    <3> QED
      BY <2>3, <3>1
  <2> QED
    BY <1>1, <1>3, <1>4, <2>1, <2>3, <2>4, <2>5, <2>6
<1>11. \A kind \in FlowKinds : Len(Card!Flow(kind)) = DataKeys + 4
  BY <1>5, <1>6, <1>8 DEF FlowKinds
<1> QED
  BY <1>9, <1>10, <1>11

-----------------------------------------------------------------------------
(* A chip under a tool *)

ChipType == [key: [Card!KeyNos -> 0..NCards], url: 0..NCards, sdm: BOOLEAN]
HandType == [kind: {"none", "write", "wipe"}, card: 0..NCards, keys: [Card!KeyNos -> 0..NCards]]

\* The master key is the first of a wipe and the last of a write.
KeptWhole(y) == y.key[0] # 0 => \A n \in Card!KeyNos : y.key[n] \in {0, y.key[0]}

SoundHand(h) ==
  /\ h \in HandType
  /\ h.kind # "none" => h.card \in Card!Cards
  /\ h.kind = "none" => h = Card!NoHand

\* What the commands before the at-th have made of chip y.
Reached(y, h, at) ==
  /\ h.kind = "write" =>
       /\ at >= 2 => y.url = h.card
       /\ at >= 3 /\ at <= DataKeys + 4 => y.key[0] = 0
       /\ at >= 4 => y.sdm = TRUE
       /\ \A n \in 1..DataKeys : n + 3 < at => y.key[n] = h.card
       /\ at >= DataKeys + 5 => y.key[0] = h.card
  /\ h.kind = "wipe" =>
       /\ at >= 3 => y.sdm = FALSE
       /\ \A n \in 1..DataKeys : n + 2 < at => y.key[n] = 0
       /\ at >= DataKeys + 4 => y.key[0] = 0

\* What a key command makes of a chip.
LEMMA KeyChanges ==
  ASSUME CardConstants, NEW y \in ChipType, NEW n \in Card!KeyNos, NEW v \in 0..NCards
  PROVE  /\ [y EXCEPT !.key[n] = v] \in ChipType
         /\ [y EXCEPT !.key[n] = v].key[n] = v
         /\ \A m \in Card!KeyNos : m # n => [y EXCEPT !.key[n] = v].key[m] = y.key[m]
         /\ [y EXCEPT !.key[n] = v].url = y.url /\ [y EXCEPT !.key[n] = v].sdm = y.sdm
  BY DEF ChipType

LEMMA WriteCommand ==
  ASSUME CardConstants, NEW y \in ChipType, NEW h, SoundHand(h), h.kind = "write",
         NEW at \in 1..(DataKeys + 4), KeptWhole(y), Reached(y, h, at), Card!Obeys(y, h, at)
  PROVE  LET z == Card!Obeyed(y, h, Card!Flow(h.kind)[at])
         IN  z \in ChipType /\ KeptWhole(z) /\ Reached(z, h, at + 1)
<1> DEFINE f == Card!Flow("write")   z == Card!Obeyed(y, h, f[at])
<1>0. /\ DataKeys \in Nat /\ NCards \in Nat /\ 0 \in Card!KeyNos
      /\ \A n \in 1..DataKeys : n \in Card!KeyNos
      /\ Card!KeyNos = 0..DataKeys
      /\ h.card \in 0..NCards /\ h.card # 0 /\ Card!NewKey(h) = h.card
      /\ \A n : Card!OldKey(h, n) = 0
  BY DEF CardConstants, Card!KeyNos, SoundHand, HandType, Card!Cards, Card!NewKey,
         Card!OldKey, Card!None
<1>1. /\ f[1] = Card!Cmd("ndef", 0) /\ f[2] = Card!Cmd("auth", 0) /\ f[3] = Card!Cmd("settings", 0)
      /\ \A n \in 1..DataKeys : f[n + 3] = Card!Cmd("key", n)
      /\ f[DataKeys + 4] = Card!Cmd("key", 0)
  BY FlowIsThis
<1>2. Card!Flow(h.kind) = f
  OBVIOUS
<1> HIDE DEF f
<1>3. CASE at = 1
  <2>1. z = [y EXCEPT !.url = h.card]
    BY <1>0, <1>1, <1>3 DEF Card!Obeyed, Card!Cmd
  <2> HIDE DEF z
  <2>2. z \in ChipType /\ z.key = y.key /\ z.url = h.card /\ z.sdm = y.sdm
    BY <1>0, <2>1 DEF ChipType
  <2>3. Reached(z, h, at + 1)
    BY <1>0, <1>3, <2>2 DEF Reached
  <2> QED
    BY <1>2, <2>2, <2>3 DEF KeptWhole, z
<1>4. CASE at = 2
  <2>1. z = y
    BY <1>1, <1>4 DEF Card!Obeyed, Card!Cmd
  <2>2. y.key[0] = 0
    <3>1. Card!Flow(h.kind)[at].do = "auth"
      BY <1>1, <1>2, <1>4 DEF Card!Cmd
    <3>2. y.key[0] = Card!OldKey(h, 0)
      BY <3>1 DEF Card!Obeys
    <3> QED
      BY <1>0, <3>2
  <2> HIDE DEF z
  <2>3. Reached(z, h, at + 1)
    BY <1>0, <1>4, <2>1, <2>2 DEF Reached
  <2> QED
    BY <1>2, <2>1, <2>3 DEF z
<1>5. CASE at = 3
  <2>1. z = [y EXCEPT !.sdm = (h.kind = "write")]
    BY <1>1, <1>5 DEF Card!Obeyed, Card!Cmd
  <2>2. z = [y EXCEPT !.sdm = TRUE]
    BY <2>1
  <2> HIDE DEF z
  <2>3. z \in ChipType /\ z.key = y.key /\ z.url = y.url /\ z.sdm = TRUE
    BY <2>2 DEF ChipType
  <2>4. Reached(z, h, at + 1)
    BY <1>0, <1>5, <2>3 DEF Reached
  <2> QED
    BY <1>2, <2>3, <2>4 DEF KeptWhole, z
<1>6. CASE at \in 4..(DataKeys + 3)
  <2>1. PICK n \in 1..DataKeys : at = n + 3
    <3>1. at - 3 \in 1..DataKeys /\ at = (at - 3) + 3
      BY <1>0, <1>6
    <3> QED
      BY <3>1
  <2>2. z = [y EXCEPT !.key[n] = h.card]
    <3>1. f[at] = Card!Cmd("key", n)
      BY <1>1, <2>1
    <3> QED
      BY <1>0, <3>1 DEF Card!Obeyed, Card!Cmd
  <2> HIDE DEF z
  <2>3. z \in ChipType /\ z.key[n] = h.card /\ z.url = y.url /\ z.sdm = y.sdm
        /\ \A m \in Card!KeyNos : m # n => z.key[m] = y.key[m]
    BY <1>0, <2>2, KeyChanges
  <2>4. n # 0 /\ y.key[0] = 0 /\ z.key[0] = 0
    BY <1>0, <2>1, <2>3 DEF Reached
  <2>5. Reached(z, h, at + 1)
    <3>1. at >= 2 /\ at >= 3 /\ at >= 4 /\ at <= DataKeys + 3
      BY <1>0, <1>6
    <3>2. y.url = h.card /\ y.sdm = TRUE /\ \A m \in 1..DataKeys : m < n => y.key[m] = h.card
      BY <1>0, <2>1, <3>1 DEF Reached
    <3>3. \A m \in 1..DataKeys : m + 3 < at + 1 => z.key[m] = h.card
      <4> TAKE m \in 1..DataKeys
      <4>1. m \in Int /\ n \in Int /\ (m + 3 < at + 1 => m < n \/ m = n)
        BY <2>1
      <4> QED
        BY <1>0, <2>3, <3>2, <4>1
    <3>4. ~(at + 1 >= DataKeys + 5)
      BY <1>0, <3>1
    <3> QED
      BY <2>3, <2>4, <3>2, <3>3, <3>4 DEF Reached
  <2> QED
    BY <1>2, <2>3, <2>4, <2>5 DEF KeptWhole, z
<1>7. CASE at = DataKeys + 4
  <2>1. z = [y EXCEPT !.key[0] = h.card]
    BY <1>0, <1>1, <1>7 DEF Card!Obeyed, Card!Cmd
  <2> HIDE DEF z
  <2>2. z \in ChipType /\ z.key[0] = h.card /\ z.url = y.url /\ z.sdm = y.sdm
        /\ \A m \in Card!KeyNos : m # 0 => z.key[m] = y.key[m]
    BY <1>0, <2>1, KeyChanges
  <2>3. y.url = h.card /\ y.sdm = TRUE /\ \A m \in 1..DataKeys : y.key[m] = h.card
    BY <1>0, <1>7 DEF Reached
  <2>4. \A m \in 1..DataKeys : m # 0 /\ z.key[m] = h.card
    BY <1>0, <2>2, <2>3
  <2>5. \A m \in Card!KeyNos : z.key[m] = h.card
    BY <1>0, <2>2, <2>4
  <2>6. Reached(z, h, at + 1)
    BY <1>0, <1>7, <2>2, <2>3, <2>4 DEF Reached
  <2> QED
    BY <1>2, <2>2, <2>5, <2>6, <1>0 DEF KeptWhole, z
<1>8. at = 1 \/ at = 2 \/ at = 3 \/ at \in 4..(DataKeys + 3) \/ at = DataKeys + 4
  BY <1>0
<1> QED
  BY <1>3, <1>4, <1>5, <1>6, <1>7, <1>8

LEMMA WipeCommand ==
  ASSUME CardConstants, NEW y \in ChipType, NEW h, SoundHand(h), h.kind = "wipe",
         NEW at \in 1..(DataKeys + 4), KeptWhole(y), Reached(y, h, at)
  PROVE  LET z == Card!Obeyed(y, h, Card!Flow(h.kind)[at])
         IN  z \in ChipType /\ KeptWhole(z) /\ Reached(z, h, at + 1)
<1> DEFINE f == Card!Flow("wipe")   z == Card!Obeyed(y, h, f[at])
<1>0. /\ DataKeys \in Nat /\ NCards \in Nat /\ 0 \in Card!KeyNos /\ 0 \in 0..NCards
      /\ \A n \in 1..DataKeys : n \in Card!KeyNos
      /\ Card!KeyNos = 0..DataKeys
      /\ Card!NewKey(h) = 0
  BY DEF CardConstants, Card!KeyNos, Card!NewKey, Card!None
<1>1. /\ f[1] = Card!Cmd("auth", 0) /\ f[2] = Card!Cmd("settings", 0)
      /\ \A n \in 1..DataKeys : f[n + 2] = Card!Cmd("key", n)
      /\ f[DataKeys + 3] = Card!Cmd("key", 0) /\ f[DataKeys + 4] = Card!Cmd("ndef", 0)
  BY FlowIsThis
<1>2. Card!Flow(h.kind) = f
  OBVIOUS
<1> HIDE DEF f
<1>3. CASE at = 1
  <2>1. z = y
    BY <1>1, <1>3 DEF Card!Obeyed, Card!Cmd
  <2> HIDE DEF z
  <2>2. Reached(z, h, at + 1)
    BY <1>0, <1>3, <2>1 DEF Reached
  <2> QED
    BY <1>2, <2>1, <2>2 DEF z
<1>4. CASE at = 2
  <2>1. z = [y EXCEPT !.sdm = (h.kind = "write")]
    BY <1>1, <1>4 DEF Card!Obeyed, Card!Cmd
  <2>2. z = [y EXCEPT !.sdm = FALSE]
    BY <2>1
  <2> HIDE DEF z
  <2>3. z \in ChipType /\ z.key = y.key /\ z.url = y.url /\ z.sdm = FALSE
    BY <2>2 DEF ChipType
  <2>4. Reached(z, h, at + 1)
    BY <1>0, <1>4, <2>3 DEF Reached
  <2> QED
    BY <1>2, <2>3, <2>4 DEF KeptWhole, z
<1>5. CASE at \in 3..(DataKeys + 2)
  <2>1. PICK n \in 1..DataKeys : at = n + 2
    <3>1. at - 2 \in 1..DataKeys /\ at = (at - 2) + 2
      BY <1>0, <1>5
    <3> QED
      BY <3>1
  <2>2. z = [y EXCEPT !.key[n] = 0]
    <3>1. f[at] = Card!Cmd("key", n)
      BY <1>1, <2>1
    <3> QED
      BY <1>0, <3>1 DEF Card!Obeyed, Card!Cmd
  <2> HIDE DEF z
  <2>3. z \in ChipType /\ z.key[n] = 0 /\ z.url = y.url /\ z.sdm = y.sdm
        /\ \A m \in Card!KeyNos : m # n => z.key[m] = y.key[m]
    BY <1>0, <2>2, KeyChanges
  <2>4. n # 0 /\ z.key[0] = y.key[0]
    BY <1>0, <2>1, <2>3
  <2>5. Reached(z, h, at + 1)
    <3>1. at >= 3 /\ at <= DataKeys + 2
      BY <1>0, <1>5
    <3>2. y.sdm = FALSE /\ \A m \in 1..DataKeys : m < n => y.key[m] = 0
      BY <1>0, <2>1, <3>1 DEF Reached
    <3>3. \A m \in 1..DataKeys : m + 2 < at + 1 => z.key[m] = 0
      <4> TAKE m \in 1..DataKeys
      <4>1. m \in Int /\ n \in Int /\ (m + 2 < at + 1 => m < n \/ m = n)
        BY <2>1
      <4> QED
        BY <1>0, <2>3, <3>2, <4>1
    <3>4. ~(at + 1 >= DataKeys + 4)
      BY <1>0, <3>1
    <3> QED
      BY <2>3, <3>2, <3>3, <3>4 DEF Reached
  <2>6. KeptWhole(z)
    BY <1>0, <2>3, <2>4 DEF KeptWhole
  <2> QED
    BY <1>2, <2>3, <2>5, <2>6 DEF z
<1>6. CASE at = DataKeys + 3
  <2>1. z = [y EXCEPT !.key[0] = 0]
    BY <1>0, <1>1, <1>6 DEF Card!Obeyed, Card!Cmd
  <2> HIDE DEF z
  <2>2. z \in ChipType /\ z.key[0] = 0 /\ z.sdm = y.sdm
        /\ \A m \in Card!KeyNos : m # 0 => z.key[m] = y.key[m]
    BY <1>0, <2>1, KeyChanges
  <2>3. y.sdm = FALSE /\ \A m \in 1..DataKeys : y.key[m] = 0
    BY <1>0, <1>6 DEF Reached
  <2>4. \A m \in 1..DataKeys : m # 0 /\ z.key[m] = 0
    BY <1>0, <2>2, <2>3
  <2>5. Reached(z, h, at + 1)
    BY <1>0, <1>6, <2>2, <2>3, <2>4 DEF Reached
  <2> QED
    BY <1>2, <2>2, <2>5 DEF KeptWhole, z
<1>7. CASE at = DataKeys + 4
  <2>1. z = [y EXCEPT !.url = 0]
    BY <1>0, <1>1, <1>7 DEF Card!Obeyed, Card!Cmd
  <2> HIDE DEF z
  <2>2. z \in ChipType /\ z.key = y.key /\ z.sdm = y.sdm
    BY <1>0, <2>1 DEF ChipType
  <2>3. y.sdm = FALSE /\ y.key[0] = 0 /\ \A m \in 1..DataKeys : y.key[m] = 0
    BY <1>0, <1>7 DEF Reached
  <2>4. Reached(z, h, at + 1)
    BY <2>2, <2>3 DEF Reached
  <2> QED
    BY <1>2, <2>2, <2>4 DEF KeptWhole, z
<1>8. at = 1 \/ at = 2 \/ at \in 3..(DataKeys + 2) \/ at = DataKeys + 3 \/ at = DataKeys + 4
  BY <1>0
<1> QED
  BY <1>3, <1>4, <1>5, <1>6, <1>7, <1>8

-----------------------------------------------------------------------------
(* The tools *)

ToolJob == [chip: Chips \union {"none"}, at: 0..(DataKeys + 5)]

\* A tool at work has a hand, and its chip is as far as its flow.
AtWork(t) ==
  /\ x6[t].chip \in Chips /\ x6[t].at >= 1 /\ x5[t].kind # "none"
  /\ Reached(x4[x6[t].chip], x5[t], x6[t].at)

ChipsSound == x4 \in [Chips -> ChipType] /\ \A x \in Chips : KeptWhole(x4[x])
HandsSound == x5 \in [Tools -> HandType] /\ \A t \in Tools : SoundHand(x5[t])
JobsSound ==
  /\ x6 \in [Tools -> ToolJob] /\ \A t \in Tools : x6[t] # Card!NoJob => AtWork(t)
  /\ \A t, u \in Tools :
       t # u /\ x6[t] # Card!NoJob /\ x6[u] # Card!NoJob => x6[t].chip # x6[u].chip
EndsSound == x7 \subseteq FlowKinds \X Card!Cards

ToolsSound == ChipsSound /\ HandsSound /\ JobsSound /\ EndsSound
CardInv == RecordInv /\ ToolsSound

LEMMA CardInit == CardConstants /\ Card!Init => CardInv
<1> SUFFICES ASSUME CardConstants, Card!Init PROVE CardInv
  OBVIOUS
<1>0. 0 \in 0..NCards /\ 0 \in 0..(DataKeys + 5) /\ Card!None = 0
  BY DEF CardConstants, Card!None
<1>1. RecordInv
  BY RecordInit DEF Card!Init
<1>2. ChipsSound
  <2> DEFINE y == [key |-> Card!Keys(Card!None), url |-> Card!None, sdm |-> FALSE]
  <2>1. y \in ChipType /\ KeptWhole(y)
    BY <1>0 DEF ChipType, KeptWhole, Card!Keys, Card!KeyNos, CardConstants
  <2>2. x4 = [x \in Chips |-> y]
    BY DEF Card!Init
  <2> HIDE DEF y
  <2> QED
    BY <2>1, <2>2 DEF ChipsSound
<1>3. HandsSound
  <2>1. Card!NoHand \in HandType /\ Card!NoHand.kind = "none"
    BY <1>0 DEF HandType, Card!NoHand, Card!Keys
  <2>2. SoundHand(Card!NoHand)
    BY <2>1 DEF SoundHand
  <2> QED
    BY <2>1, <2>2 DEF HandsSound, Card!Init
<1>4. JobsSound
  <2>1. Card!NoJob \in ToolJob
    BY <1>0 DEF ToolJob, Card!NoJob
  <2> QED
    BY <2>1 DEF JobsSound, Card!Init
<1>5. EndsSound
  BY DEF EndsSound, Card!Init
<1> QED
  BY <1>1, <1>2, <1>3, <1>4, <1>5 DEF CardInv, ToolsSound

LEMMA ToolsRest ==
  ASSUME ToolsSound, UNCHANGED <<x4, x5, x6, x7>>
  PROVE  ToolsSound'
  BY DEF ToolsSound, ChipsSound, HandsSound, JobsSound, EndsSound, AtWork

\* A hand is filled or emptied while its tool does nothing.
LEMMA HandMoves ==
  ASSUME ToolsSound, NEW t \in Tools, x6[t] = Card!NoJob, NEW h, SoundHand(h),
         x5' = [x5 EXCEPT ![t] = h], UNCHANGED <<x4, x6, x7>>
  PROVE  ToolsSound'
<1>1. h \in HandType
  BY DEF SoundHand
<1>2. HandsSound'
  BY <1>1 DEF ToolsSound, HandsSound
<1>3. ASSUME NEW u \in Tools, x6'[u] # Card!NoJob PROVE AtWork(u)'
  <2>1. u # t /\ x5'[u] = x5[u] /\ x6[u] # Card!NoJob
    BY <1>3 DEF ToolsSound, HandsSound
  <2> QED
    BY <2>1 DEF ToolsSound, JobsSound, AtWork
<1> QED
  BY <1>2, <1>3 DEF ToolsSound, ChipsSound, JobsSound, EndsSound

\* A tool's flow goes on, or ends, and no other chip changes.
LEMMA FlowMoves ==
  ASSUME ToolsSound, NEW t \in Tools, x6[t] # Card!NoJob, NEW j \in ToolJob,
         x6' = [x6 EXCEPT ![t] = j], x5' = x5, ChipsSound', EndsSound',
         \A x \in Chips : x # x6[t].chip => x4'[x] = x4[x],
         j # Card!NoJob => /\ j.chip = x6[t].chip /\ j.at >= 1
                           /\ Reached(x4'[j.chip], x5[t], j.at)
  PROVE  ToolsSound'
<1>1. x6' \in [Tools -> ToolJob] /\ x6'[t] = j /\ \A u \in Tools : u # t => x6'[u] = x6[u]
  BY DEF ToolsSound, JobsSound
<1>2. /\ AtWork(t)
      /\ \A u \in Tools : u # t /\ x6[u] # Card!NoJob => AtWork(u) /\ x6[u].chip # x6[t].chip
  BY DEF ToolsSound, JobsSound
<1>3. ASSUME NEW u \in Tools, x6'[u] # Card!NoJob PROVE AtWork(u)'
  <2>1. CASE u = t
    BY <1>1, <1>2, <1>3, <2>1 DEF AtWork
  <2>2. CASE u # t
    BY <1>1, <1>2, <1>3, <2>2 DEF AtWork
  <2> QED
    BY <2>1, <2>2
<1>4. \A u, v \in Tools :
        u # v /\ x6'[u] # Card!NoJob /\ x6'[v] # Card!NoJob => x6'[u].chip # x6'[v].chip
  BY <1>1 DEF ToolsSound, JobsSound
<1>5. JobsSound'
  BY <1>1, <1>3, <1>4 DEF JobsSound
<1> QED
  BY <1>5 DEF ToolsSound, HandsSound

LEMMA StartStep ==
  ASSUME CardConstants, ToolsSound, NEW t \in Tools, NEW x \in Chips, Card!Start(t, x)
  PROVE  ToolsSound'
<1> DEFINE j == [chip |-> x, at |-> 1]
<1>0. /\ x5[t] # Card!NoHand /\ \A u \in Tools : x6[u].chip # x
      /\ x6' = [x6 EXCEPT ![t] = j] /\ UNCHANGED <<x4, x5, x7>>
  BY DEF Card!Start
<1>1. j \in ToolJob /\ j.chip = x /\ j.at = 1
  BY DEF ToolJob, CardConstants
<1> HIDE DEF j
<1>2. x6' \in [Tools -> ToolJob] /\ x6'[t] = j /\ \A u \in Tools : u # t => x6'[u] = x6[u]
  BY <1>0, <1>1 DEF ToolsSound, JobsSound
<1>3. Reached(x4[x], x5[t], 1) /\ x5[t].kind # "none"
  BY <1>0 DEF Reached, CardConstants, ToolsSound, HandsSound, SoundHand
<1>4. ASSUME NEW u \in Tools, x6'[u] # Card!NoJob PROVE AtWork(u)'
  <2>1. CASE u = t
    BY <1>0, <1>1, <1>2, <1>3, <2>1 DEF AtWork
  <2>2. CASE u # t
    BY <1>0, <1>2, <1>4, <2>2 DEF AtWork, ToolsSound, JobsSound
  <2> QED
    BY <2>1, <2>2
<1>5. \A u, v \in Tools :
        u # v /\ x6'[u] # Card!NoJob /\ x6'[v] # Card!NoJob => x6'[u].chip # x6'[v].chip
  BY <1>0, <1>1, <1>2 DEF ToolsSound, JobsSound
<1>6. JobsSound'
  BY <1>2, <1>4, <1>5 DEF JobsSound
<1> QED
  BY <1>0, <1>6 DEF ToolsSound, ChipsSound, HandsSound, EndsSound

\* What is so of a tool whose flow runs.
LEMMA RunningFacts ==
  ASSUME CardConstants, ToolsSound, NEW t \in Tools, x6[t] # Card!NoJob
  PROVE  /\ x6[t] \in ToolJob /\ AtWork(t) /\ x5[t].kind \in FlowKinds /\ SoundHand(x5[t])
         /\ Len(Card!Flow(x5[t].kind)) = DataKeys + 4
         /\ x4[x6[t].chip] \in ChipType /\ KeptWhole(x4[x6[t].chip])
         /\ Card!Running(t) <=> x6[t].at \in 1..(DataKeys + 4)
         /\ Card!Done(t) <=> x6[t].at = DataKeys + 5
<1>0. DataKeys \in Nat
  BY DEF CardConstants
<1>1. x6[t] \in ToolJob /\ AtWork(t) /\ SoundHand(x5[t])
  BY DEF ToolsSound, JobsSound, HandsSound
<1>2. x5[t].kind \in FlowKinds
  BY <1>1 DEF AtWork, SoundHand, HandType, FlowKinds
<1>3. x4[x6[t].chip] \in ChipType /\ KeptWhole(x4[x6[t].chip])
  BY <1>1 DEF AtWork, ToolsSound, ChipsSound
<1>4. Len(Card!Flow(x5[t].kind)) = DataKeys + 4
  BY <1>2, FlowIsThis
<1>5. x6[t].at \in 1..(DataKeys + 5)
  BY <1>0, <1>1 DEF AtWork, ToolJob
<1>6. Card!Running(t) <=> x6[t].at \in 1..(DataKeys + 4)
  BY <1>0, <1>4, <1>5 DEF Card!Running
<1>7. Card!Done(t) <=> x6[t].at = DataKeys + 5
  BY <1>0, <1>5, <1>6 DEF Card!Done
<1> QED
  BY <1>1, <1>2, <1>3, <1>4, <1>6, <1>7

LEMMA CommandStep ==
  ASSUME CardConstants, ToolsSound, NEW t \in Tools, Card!Command(t)
  PROVE  ToolsSound'
<1> DEFINE x == x6[t].chip
           at == x6[t].at
           h == x5[t]
           z == Card!Obeyed(x4[x], h, Card!Flow(h.kind)[at])
           j == [x6[t] EXCEPT !.at = @ + 1]
<1>0. DataKeys \in Nat
  BY DEF CardConstants
<1>1. x6[t] # Card!NoJob /\ Card!Running(t)
  BY DEF Card!Command, Card!Running
<1>2. /\ x6[t] \in ToolJob /\ AtWork(t) /\ h.kind \in FlowKinds /\ SoundHand(h)
      /\ x4[x] \in ChipType /\ KeptWhole(x4[x]) /\ at \in 1..(DataKeys + 4)
  BY <1>1, RunningFacts
<1>3. CASE Card!Obeys(x4[x], h, at)
  <2>1. x4' = [x4 EXCEPT ![x] = z] /\ x6' = [x6 EXCEPT ![t] = j] /\ UNCHANGED <<x5, x7>>
    BY <1>3 DEF Card!Command
  <2>2. z \in ChipType /\ KeptWhole(z) /\ Reached(z, h, at + 1)
    BY <1>2, <1>3, WriteCommand, WipeCommand DEF FlowKinds, AtWork
  <2>3. j \in ToolJob /\ j.chip = x /\ j.at = at + 1
    BY <1>0, <1>2 DEF ToolJob
  <2> HIDE DEF z, j
  <2>4. x4' \in [Chips -> ChipType] /\ x4'[x] = z /\ \A c \in Chips : c # x => x4'[c] = x4[c]
    BY <1>2, <2>1, <2>2 DEF ToolsSound, ChipsSound, AtWork
  <2>5. ChipsSound'
    BY <2>2, <2>4 DEF ToolsSound, ChipsSound
  <2>6. at + 1 >= 1
    BY <1>0, <1>2
  <2>7. EndsSound'
    BY <2>1 DEF ToolsSound, EndsSound
  <2>8. Reached(x4'[j.chip], x5[t], j.at)
    BY <2>2, <2>3, <2>4
  <2> QED
    BY <1>1, <2>1, <2>3, <2>4, <2>5, <2>6, <2>7, <2>8, FlowMoves
<1>4. CASE ~Card!Obeys(x4[x], h, at)
  <2>1. x4' = x4 /\ x6' = [x6 EXCEPT ![t] = Card!NoJob] /\ UNCHANGED <<x5, x7>>
    BY <1>4 DEF Card!Command, Card!AfterRefusal
  <2>2. Card!NoJob \in ToolJob
    BY <1>0 DEF ToolJob, Card!NoJob
  <2>3. ChipsSound' /\ EndsSound'
    BY <2>1 DEF ToolsSound, ChipsSound, EndsSound
  <2> QED
    BY <1>1, <2>1, <2>2, <2>3, FlowMoves
<1> QED
  BY <1>3, <1>4

LEMMA FlowEnds ==
  ASSUME CardConstants, ToolsSound, NEW t \in Tools,
         Card!Torn(t) \/ Card!AddressNotCleared(t) \/ Card!Finish(t)
  PROVE  ToolsSound'
<1>0. DataKeys \in Nat
  BY DEF CardConstants
<1>1. x6[t] # Card!NoJob /\ x5' = x5 /\ x4' = x4
  BY DEF Card!Torn, Card!AddressNotCleared, Card!Finish, Card!Running, Card!Done
<1>2. /\ x6[t] \in ToolJob /\ AtWork(t) /\ x5[t].kind \in FlowKinds /\ SoundHand(x5[t])
  BY <1>1, RunningFacts
<1>3. Card!NoJob \in ToolJob
  BY <1>0 DEF ToolJob, Card!NoJob
<1>4. ChipsSound'
  BY <1>1 DEF ToolsSound, ChipsSound
<1>5. CASE Card!Torn(t)
  <2>1. x6' = [x6 EXCEPT ![t] = Card!NoJob] /\ x7' = x7
    BY <1>5 DEF Card!Torn
  <2>2. EndsSound'
    BY <2>1 DEF ToolsSound, EndsSound
  <2> QED
    BY <1>1, <1>3, <1>4, <2>1, <2>2, FlowMoves
<1>6. CASE Card!Finish(t)
  <2>1. x6' = [x6 EXCEPT ![t] = Card!NoJob] /\ x7' = x7 \union {<<x5[t].kind, x5[t].card>>}
    BY <1>6 DEF Card!Finish
  <2>2. x5[t].card \in Card!Cards
    BY <1>2 DEF AtWork, SoundHand
  <2>3. EndsSound'
    BY <1>2, <2>1, <2>2 DEF ToolsSound, EndsSound
  <2> QED
    BY <1>1, <1>3, <1>4, <2>1, <2>3, FlowMoves
<1>7. CASE Card!AddressNotCleared(t)
  <2> DEFINE j == [x6[t] EXCEPT !.at = @ + 1]
  <2>1. x6' = [x6 EXCEPT ![t] = j] /\ x7' = x7 /\ x5[t].kind = "wipe"
    BY <1>7 DEF Card!AddressNotCleared
  <2>2. x6[t].at = DataKeys + 4
    BY <1>7, FlowIsThis DEF Card!AddressNotCleared, FlowKinds
  <2>3. j \in ToolJob /\ j.chip = x6[t].chip /\ j.at = DataKeys + 5
    BY <1>0, <1>2, <2>2 DEF ToolJob
  <2> HIDE DEF j
  <2>4. Reached(x4[x6[t].chip], x5[t], DataKeys + 5)
    BY <1>0, <1>2, <2>1, <2>2 DEF AtWork, Reached
  <2>5. EndsSound'
    BY <2>1 DEF ToolsSound, EndsSound
  <2>6. j.at >= 1 /\ Reached(x4'[j.chip], x5[t], j.at)
    BY <1>0, <1>1, <2>3, <2>4
  <2> QED
    BY <1>1, <1>4, <2>1, <2>3, <2>5, <2>6, FlowMoves
<1> QED
  BY <1>5, <1>6, <1>7

\* The keys a tool may be given.
LEMMA LoadStep ==
  ASSUME CardConstants, ToolsSound, NEW t \in Tools,
         \/ Card!LoadNextProvision(t) \/ Card!LoadProvisionInput(t) \/ Card!LoadManualKeys(t)
         \/ Card!LoadWipeKeys(t) \/ Card!Drop(t)
  PROVE  ToolsSound'
<1>0. 0 \in 0..NCards /\ \A c \in Card!Cards : c \in 0..NCards
  BY DEF CardConstants, Card!Cards
<1>1. ASSUME NEW kind \in {"write", "wipe"}, NEW c \in Card!Cards,
             NEW ks \in [Card!KeyNos -> 0..NCards],
             Card!Load(t, kind, c, ks)
      PROVE  ToolsSound'
  <2> DEFINE h == [kind |-> kind, card |-> c, keys |-> ks]
  <2>1. h \in HandType /\ h.kind = kind /\ h.card = c
    BY <1>0 DEF HandType
  <2>2. x6[t] = Card!NoJob /\ x5' = [x5 EXCEPT ![t] = h] /\ UNCHANGED <<x4, x6, x7>>
    BY <1>1 DEF Card!Load
  <2> HIDE DEF h
  <2>3. SoundHand(h)
    BY <2>1 DEF SoundHand
  <2> QED
    BY <2>2, <2>3, HandMoves
<1>2. \A c \in Card!Cards : Card!Keys(c) \in [Card!KeyNos -> 0..NCards]
  BY <1>0 DEF Card!Keys
<1>3. CASE Card!LoadNextProvision(t) \/ Card!LoadProvisionInput(t) \/ Card!LoadManualKeys(t)
  <2>1. \E c \in Card!Cards : Card!Load(t, "write", c, Card!Keys(c))
    BY <1>3 DEF Card!LoadNextProvision, Card!LoadProvisionInput, Card!LoadManualKeys
  <2> QED
    BY <1>1, <1>2, <2>1
<1>4. CASE Card!LoadWipeKeys(t)
  <2>1. \E c \in Card!Cards, ks \in [Card!KeyNos -> {Card!None} \union Card!Cards] :
          Card!Load(t, "wipe", c, ks)
    BY <1>4 DEF Card!LoadWipeKeys
  <2>2. \A ks \in [Card!KeyNos -> {Card!None} \union Card!Cards] : ks \in [Card!KeyNos -> 0..NCards]
    BY <1>0 DEF Card!None
  <2> QED
    BY <1>1, <2>1, <2>2
<1>5. CASE Card!Drop(t)
  <2>1. SoundHand(Card!NoHand)
    BY <1>0 DEF SoundHand, HandType, Card!NoHand, Card!Keys, Card!None
  <2> QED
    BY <1>5, <2>1, HandMoves DEF Card!Drop
<1> QED
  BY <1>3, <1>4, <1>5

\* What the tools do to the records, and what the records' own steps leave of the tools.
LEMMA CardStep ==
  ASSUME CardConstants, CardInv, [Card!Next]_(Card!vars)
  PROVE  CardInv' /\ Card!CancelledStays
<1>0. RecordInv /\ ToolsSound
  BY DEF CardInv
<1>1. ASSUME RecordInv' /\ Card!CancelledStays, ToolsSound' PROVE CardInv' /\ Card!CancelledStays
  BY <1>1 DEF CardInv
<1>2. CASE UNCHANGED Card!vars
  <2>1. UNCHANGED Card!recordVars /\ UNCHANGED <<x4, x5, x6, x7>>
    BY <1>2 DEF Card!vars, Card!recordVars
  <2> QED
    BY <1>0, <1>1, <2>1, RecordRests, ToolsRest
<1>3. CASE Card!RecordStep
  <2>1. ToolsSound'
    BY <1>0, <1>3, ToolsRest DEF Card!RecordStep
  <2>2. CASE \E c \in Card!Cards : Card!Issue(c) \/ Card!LinkExpires(c)
    BY <1>0, <1>1, <2>1, <2>2, StatementStep
  <2>3. CASE \E r \in CardRequests : Card!OwnerRequest(r)
    <3>1. PICK r \in CardRequests : Card!OwnerRequest(r)
      BY <2>3
    <3>2. PICK c \in Card!Cards, op \in {"patch", "delete", "renew"},
               to \in {"none", "active", "frozen", "cancelled"} :
            Card!Ask(r, op, c, to) /\ (op = "patch" => to \in {"active", "frozen", "cancelled"})
      BY <3>1 DEF Card!OwnerRequest
    <3> QED
      BY <1>0, <1>1, <2>1, <3>2, AskStep
  <2>4. CASE \E r \in CardRequests : Card!Update(r)
    BY <1>0, <1>1, <2>1, <2>4, UpdateRowStep
  <2> QED
    BY <1>3, <2>2, <2>3, <2>4 DEF Card!RecordStep
<1>4. CASE \E t \in Tools : Card!ToolStep(t)
  <2>1. PICK t \in Tools : Card!ToolStep(t)
    BY <1>4
  <2>2. CASE \/ Card!LoadNextProvision(t) \/ Card!LoadProvisionInput(t) \/ Card!LoadManualKeys(t)
             \/ Card!LoadWipeKeys(t) \/ Card!Drop(t)
    <3>1. ToolsSound'
      BY <1>0, <2>2, LoadStep
    <3>2. RecordInv' /\ Card!CancelledStays
      <4>1. CASE Card!LoadProvisionInput(t)
        BY <1>0, <4>1, StatementStep DEF Card!LoadProvisionInput
      <4>2. CASE \/ Card!LoadNextProvision(t) \/ Card!LoadManualKeys(t)
                 \/ Card!LoadWipeKeys(t) \/ Card!Drop(t)
        <5>1. UNCHANGED Card!recordVars
          BY <4>2 DEF Card!LoadNextProvision, Card!LoadManualKeys, Card!LoadWipeKeys, Card!Drop
        <5> QED
          BY <1>0, <5>1, RecordRests
      <4> QED
        BY <2>2, <4>1, <4>2
    <3> QED
      BY <1>1, <3>1, <3>2
  <2>3. CASE (\E x \in Chips : Card!Start(t, x)) \/ Card!Command(t) \/ Card!Torn(t)
             \/ Card!AddressNotCleared(t) \/ Card!Finish(t)
    <3>1. ToolsSound'
      BY <1>0, <2>3, StartStep, CommandStep, FlowEnds
    <3>2. UNCHANGED Card!recordVars
      BY <2>3 DEF Card!Start, Card!Command, Card!Torn, Card!AddressNotCleared, Card!Finish
    <3> QED
      BY <1>0, <1>1, <3>1, <3>2, RecordRests
  <2> QED
    BY <2>1, <2>2, <2>3 DEF Card!ToolStep
<1>5. CASE \E c \in Card!Cards : Card!Report(c) \/ \E r \in CardRequests : Card!AppConfirm(r, c)
  <2>1. PICK c \in Card!Cards : Card!Report(c) \/ \E r \in CardRequests : Card!AppConfirm(r, c)
    BY <1>5
  <2>2. ToolsSound'
    <3>1. UNCHANGED <<x4, x5, x6, x7>>
      BY <2>1 DEF Card!Report, Card!AppConfirm
    <3> QED
      BY <1>0, <3>1, ToolsRest
  <2>3. CASE Card!Report(c)
    <3>1. Card!MarkWritten(c) \/ Card!MarkWiped(c)
      BY <2>3 DEF Card!Report
    <3> QED
      BY <1>0, <1>1, <2>2, <3>1, StatementStep
  <2>4. CASE \E r \in CardRequests : Card!AppConfirm(r, c)
    <3>1. PICK r \in CardRequests, op \in {"written", "wiped"} : Card!Ask(r, op, c, "none")
      BY <2>4 DEF Card!AppConfirm
    <3> QED
      BY <1>0, <1>1, <2>2, <3>1, AskStep
  <2> QED
    BY <2>1, <2>3, <2>4
<1>6. CASE \E x \in Chips : Card!Tap(x)
  <2>1. /\ \E c \in Card!Cards : Card!Tapped(c)
        /\ UNCHANGED <<x4, x5, x6, x7>>
    BY <1>6 DEF Card!Tap
  <2> QED
    BY <1>0, <1>1, <2>1, StatementStep, ToolsRest
<1> QED
  BY <1>2, <1>3, <1>4, <1>5, <1>6 DEF Card!Next

LEMMA CardProperties ==
  ASSUME CardConstants, CardInv
  PROVE  Card!TypeOK /\ Card!MasterKeyLast /\ Card!ReportsAreTrue /\ Card!ReportedForGood
<1>0. RowsSound /\ AsksSound /\ ChipsSound /\ HandsSound /\ JobsSound /\ EndsSound /\ ToolsSound
  BY DEF CardInv, RecordInv, ToolsSound
<1>1. Card!TypeOK
  <2>1. Card!RecordsTypeOK
    <3>1. x2 \in [CardRequests -> [op: {"none", "patch", "delete", "renew", "written", "wiped"},
                           card: 0..NCards, saw: {"none", "active", "frozen", "cancelled"},
                           to: {"none", "active", "frozen", "cancelled"}]]
      BY <1>0 DEF AsksSound, SoundAsk
    <3> QED
      BY <1>0, <3>1 DEF Card!RecordsTypeOK, RowsSound, RowType
  <2>2. x4 \in [Chips -> [key: [Card!KeyNos -> 0..NCards], url: 0..NCards, sdm: BOOLEAN]]
    BY <1>0 DEF ChipsSound, ChipType
  <2>3. x5 \in [Tools -> [kind: {"none", "write", "wipe"}, card: 0..NCards,
                        keys: [Card!KeyNos -> 0..NCards]]]
    BY <1>0 DEF HandsSound, HandType
  <2>4. x6 \in [Tools -> [chip: Chips \union {"none"}, at: 0..(DataKeys + 5)]]
    BY <1>0 DEF JobsSound, ToolJob
  <2>5. x7 \subseteq {"write", "wipe"} \X Card!Cards
    BY <1>0 DEF EndsSound, FlowKinds
  <2> QED
    BY <2>1, <2>2, <2>3, <2>4, <2>5 DEF Card!TypeOK
<1>2. Card!MasterKeyLast
  BY <1>0 DEF Card!MasterKeyLast, ChipsSound, KeptWhole, Card!None
<1>3. Card!ReportedForGood
  BY <1>0 DEF Card!ReportedForGood, RowsSound, SoundRow
<1>4. Card!ReportsAreTrue
  <2> SUFFICES ASSUME NEW t \in Tools, Card!Done(t)
               PROVE  LET y == x4[x6[t].chip] IN
                      /\ y.key = Card!Keys(Card!NewKey(x5[t])) /\ y.sdm = (x5[t].kind = "write")
                      /\ x5[t].kind = "write" => y.url = x5[t].card
    BY DEF Card!ReportsAreTrue
  <2> DEFINE y == x4[x6[t].chip]   h == x5[t]
  <2>0. DataKeys \in Nat /\ x6[t] # Card!NoJob
    BY DEF CardConstants, Card!Done
  <2>1. /\ h.kind \in FlowKinds /\ y \in ChipType /\ Reached(y, h, DataKeys + 5)
    BY <1>0, <2>0, RunningFacts DEF AtWork
  <2> HIDE DEF y, h
  <2>2. /\ h.kind = "write" =>
             /\ y.url = h.card /\ y.sdm = TRUE /\ y.key[0] = h.card
             /\ \A n \in 1..DataKeys : y.key[n] = h.card
        /\ h.kind = "wipe" => y.sdm = FALSE /\ y.key[0] = 0 /\ \A n \in 1..DataKeys : y.key[n] = 0
    BY <2>0, <2>1 DEF Reached
  <2>3. \A n \in Card!KeyNos : n = 0 \/ n \in 1..DataKeys
    BY <2>0 DEF Card!KeyNos
  <2>4. \A n \in Card!KeyNos : y.key[n] = Card!NewKey(h)
    BY <2>1, <2>2, <2>3 DEF FlowKinds, Card!NewKey, Card!None
  <2>5. y.key = [n \in Card!KeyNos |-> y.key[n]]
    BY <2>1 DEF ChipType
  <2>6. y.key = Card!Keys(Card!NewKey(h))
    BY <2>4, <2>5 DEF Card!Keys
  <2>7. y.sdm = (h.kind = "write")
    BY <2>1, <2>2 DEF FlowKinds
  <2> QED
    BY <2>2, <2>6, <2>7 DEF y, h
<1> QED
  BY <1>1, <1>2, <1>3, <1>4
=============================================================================
