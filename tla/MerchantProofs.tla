--------------------------- MODULE MerchantProofs ---------------------------
(***************************************************************************)
(* Theorems about MerchantSpec, which composes the components whose        *)
(* promises are about safety alone, for every value of their constants.    *)
(* Each component gets an invariant of its own, the lemma that its steps   *)
(* keep it, and the properties it implies; cards, payouts and the NWC      *)
(* client have theirs in modules of their own.  At the end MerchantInv     *)
(* says of every component that its invariant holds while `which` names    *)
(* it, and the theorems are read off it.                                   *)
(***************************************************************************)
EXTENDS CardWriterProofs, PartnerPayoutsProofs, NwcClientProofs, FiniteSetTheorems

-----------------------------------------------------------------------------
(* SavedWallets *)

\* "none" is no wallet, and payments resolve through a slot.
WalletConstants ==
  MaxRows \in Nat /\ "none" \notin Wallets /\ SendSlot \in Slots

Purses == Wallets \union {"unset", "veil"}
WriteType ==
  [op: {"none", "insert", "ask", "default", "sync", "mirror", "remove", "after", "assign"},
   row: 0..MaxRows, wallet: Purses \union {"none"}, slot: Slots \union {"none"}]
SendType ==
  [state: {"none", "read", "sent", "completed", "failed", "refused"},
   chain: (0..MaxRows) \X (0..MaxRows), via: 0..MaxRows, wallet: Purses \union {"none"}, paid: BOOLEAN]

\* Rows are filled in order, and a pointer is at a row that is there.
RowsInv ==
  /\ x1 \in [Saved!Rows -> Wallets \union {"none"}] /\ x2 \in 0..MaxRows
  /\ \A i \in Saved!Rows : i > x2 => x1[i] = "none"
  /\ x3 \in Saved!Saved \union {0}
  /\ x4 \in [Slots -> 0..MaxRows]
  /\ x5 \in Purses

\* What a request is about to write.
SoundWrite(q) ==
  /\ q \in WriteType
  /\ q.op = "insert" => q.wallet \in Wallets
  /\ q.op = "mirror" => q.wallet \in Purses
  /\ q.op \in {"ask", "default", "remove", "after"} => q.row \in Saved!Rows
  /\ q.op = "assign" => q.slot \in Slots

\* A snapshot that stands is of the row's wallet, which is there.
SoundSend(p) ==
  /\ p \in SendType
  /\ p.via # 0 => p.via \in Saved!Saved /\ x1[p.via] = p.wallet
  /\ p.state = "failed" /\ p.paid = TRUE => p.via = 0

SavedInv ==
  /\ RowsInv
  /\ x6 \in [WalletRequests -> WriteType] /\ \A r \in WalletRequests : SoundWrite(x6[r])
  /\ x7 \in BOOLEAN
  /\ DOMAIN x8 = Sends /\ x8 = [s \in Sends |-> x8[s]] /\ \A s \in Sends : SoundSend(x8[s])

LEMMA SavedInit == WalletConstants /\ Saved!Init => SavedInv
<1> SUFFICES ASSUME WalletConstants, Saved!Init PROVE SavedInv
  OBVIOUS
<1>1. RowsInv
  BY DEF Saved!Init, RowsInv, Saved!Rows, Saved!Saved, Purses, WalletConstants
<1>2. Saved!Quiet \in WriteType /\ SoundWrite(Saved!Quiet)
  BY DEF Saved!Quiet, WriteType, SoundWrite, WalletConstants
<1>3. Saved!NoSend \in SendType /\ SoundSend(Saved!NoSend)
  BY DEF Saved!NoSend, SendType, SoundSend, WalletConstants
<1> QED
  BY <1>1, <1>2, <1>3 DEF Saved!Init, SavedInv

\* A request begins or goes on, and touches no wallet.
LEMMA WriteMoves ==
  ASSUME SavedInv, NEW r \in WalletRequests, NEW to, SoundWrite(to), x6' = [x6 EXCEPT ![r] = to],
         UNCHANGED <<x1, x8>>, RowsInv', x7' \in BOOLEAN
  PROVE  SavedInv'
<1>1. to \in WriteType
  BY DEF SoundWrite
<1>2. x6' \in [WalletRequests -> WriteType] /\ \A q \in WalletRequests : SoundWrite(x6'[q])
  BY <1>1 DEF SavedInv
<1>3. \A s \in Sends : SoundSend(x8[s])'
  BY DEF SavedInv, SoundSend, Saved!Saved
<1> QED
  BY <1>2, <1>3 DEF SavedInv

LEMMA SavedStep ==
  ASSUME WalletConstants, SavedInv, [Saved!Next]_Saved!vars
  PROVE  SavedInv'
<1> USE DEF WalletConstants
<1>0. /\ RowsInv /\ x6 \in [WalletRequests -> WriteType] /\ x7 \in BOOLEAN
      /\ \A r \in WalletRequests : SoundWrite(x6[r]) /\ x6[r] \in WriteType
      /\ DOMAIN x8 = Sends /\ x8 = [s \in Sends |-> x8[s]] /\ \A s \in Sends : SoundSend(x8[s])
  BY DEF SavedInv
<1>q. Saved!Quiet \in WriteType /\ SoundWrite(Saved!Quiet)
  BY DEF Saved!Quiet, WriteType, SoundWrite
<1>b. ASSUME NEW r \in WalletRequests, NEW to, SoundWrite(to), Saved!Begins(r, to) PROVE SavedInv'
  <2>1. UNCHANGED <<x1, x2, x3, x4, x5, x8>> /\ x6' = [x6 EXCEPT ![r] = to]
    BY <1>b DEF Saved!Begins
  <2>2. x7' \in BOOLEAN
    BY <1>b DEF Saved!Begins
  <2>3. RowsInv'
    BY <1>0, <2>1 DEF RowsInv, Saved!Saved
  <2> QED
    BY <1>b, <2>1, <2>2, <2>3, WriteMoves
<1>g. ASSUME NEW r \in WalletRequests, NEW to, SoundWrite(to), Saved!Goes(r, to), RowsInv',
             UNCHANGED <<x1, x8>>
      PROVE  SavedInv'
  BY <1>0, <1>g, WriteMoves DEF Saved!Goes
<1>s. Saved!Saved \subseteq Saved!Rows /\ Saved!Rows = 1..MaxRows
      /\ \A i \in Saved!Saved : x1[i] \in Wallets /\ i <= x2
  BY <1>0 DEF RowsInv, Saved!Saved, Saved!Rows
<1>1. ASSUME NEW r \in WalletRequests, NEW w \in Wallets, Saved!BeginConnect(r, w) PROVE SavedInv'
  <2>1. SoundWrite([Saved!Quiet EXCEPT !.op = "insert", !.wallet = w])
    BY <1>q DEF SoundWrite, WriteType, Purses
  <2> QED
    BY <1>1, <1>b, <2>1 DEF Saved!BeginConnect
<1>2. ASSUME NEW r \in WalletRequests, Saved!ConnectRefused(r) PROVE SavedInv'
  BY <1>0, <1>2, <1>g, <1>q DEF Saved!ConnectRefused, RowsInv, Saved!Saved
<1>3. ASSUME NEW r \in WalletRequests, Saved!Insert(r) PROVE SavedInv'
  <2> DEFINE n == x2 + 1
             to == [Saved!Quiet EXCEPT !.op = "ask", !.row = n]
  <2>1. /\ n \in Saved!Rows /\ n \in 0..MaxRows /\ x2' = n /\ x1' = [x1 EXCEPT ![n] = x6[r].wallet]
        /\ x6' = [x6 EXCEPT ![r] = to] /\ x7' = x7 /\ UNCHANGED <<x3, x4, x5, x8>>
        /\ x6[r].wallet \in Wallets /\ x1[n] = "none" /\ x2 \in Nat
    BY <1>0, <1>3 DEF Saved!Insert, Saved!Goes, RowsInv, Saved!Rows, SoundWrite
  <2>2. to \in WriteType /\ to.op = "ask" /\ to.row = n
    BY <1>q, <2>1 DEF WriteType
  <2> HIDE DEF to
  <2>3. /\ x1' \in [Saved!Rows -> Wallets \union {"none"}]
        /\ \A i \in Saved!Saved : i \in Saved!Saved' /\ x1'[i] = x1[i]
    BY <1>0, <2>1 DEF RowsInv, Saved!Saved, Saved!Rows
  <2>4. \A i \in Saved!Rows : i > x2' => x1'[i] = "none"
    BY <1>0, <2>1 DEF RowsInv, Saved!Rows
  <2> HIDE DEF n
  <2>5. RowsInv'
    BY <1>0, <2>1, <2>3, <2>4 DEF RowsInv
  <2>6. \A q \in WalletRequests : x6'[q] \in WriteType /\ SoundWrite(x6'[q])
    BY <1>0, <2>1, <2>2 DEF SoundWrite
  <2>7. \A s \in Sends : SoundSend(x8[s])'
    BY <1>0, <2>1, <2>3 DEF SoundSend
  <2> QED
    BY <1>0, <2>1, <2>5, <2>6, <2>7 DEF SavedInv
<1>4. ASSUME NEW r \in WalletRequests, Saved!AskDefault(r) PROVE SavedInv'
  <2> DEFINE to == IF x3 = 0 THEN [x6[r] EXCEPT !.op = "default"] ELSE Saved!Quiet
  <2>1. Saved!Goes(r, to) /\ UNCHANGED <<x1, x2, x3, x4, x5, x8>> /\ x6[r].op = "ask"
    BY <1>4 DEF Saved!AskDefault
  <2>2. RowsInv'
    BY <1>0, <2>1 DEF RowsInv, Saved!Saved
  <2>3. SoundWrite(to)
    BY <1>0, <1>q, <2>1 DEF SoundWrite, WriteType
  <2> HIDE DEF to
  <2> QED
    BY <1>g, <2>1, <2>2, <2>3
<1>5. ASSUME NEW r \in WalletRequests, NEW i \in Saved!Rows,
             Saved!BeginDefault(r, i) \/ Saved!BeginRemove(r, i)
      PROVE  SavedInv'
  <2>1. i \in 0..MaxRows
    BY <1>s
  <2>2. SoundWrite([Saved!Quiet EXCEPT !.op = "default", !.row = i])
        /\ SoundWrite([Saved!Quiet EXCEPT !.op = "remove", !.row = i])
    BY <1>q, <2>1 DEF SoundWrite, WriteType
  <2> QED
    BY <1>5, <1>b, <2>2 DEF Saved!BeginDefault, Saved!BeginRemove
<1>6. ASSUME NEW r \in WalletRequests, Saved!WriteDefault(r) PROVE SavedInv'
  <2>1. UNCHANGED <<x1, x2, x4, x5, x8>>
    BY <1>6 DEF Saved!WriteDefault
  <2>2. SoundWrite([Saved!Quiet EXCEPT !.op = "sync"])
    BY <1>q DEF SoundWrite, WriteType
  <2>3. CASE x6[r].row \in Saved!Saved
    BY <1>0, <1>6, <1>g, <2>1, <2>2, <2>3 DEF Saved!WriteDefault, RowsInv, Saved!Saved
  <2>4. CASE x6[r].row \notin Saved!Saved
    BY <1>0, <1>6, <1>g, <1>q, <2>1, <2>4 DEF Saved!WriteDefault, RowsInv, Saved!Saved
  <2> QED
    BY <2>3, <2>4
<1>7. ASSUME NEW r \in WalletRequests, Saved!SyncReads(r) PROVE SavedInv'
  <2> DEFINE w == Saved!MirrorOf(x3)
             to == [Saved!Quiet EXCEPT !.op = "mirror", !.wallet = w]
  <2>1. Saved!Goes(r, to) /\ UNCHANGED <<x1, x2, x3, x4, x5, x8>>
    BY <1>7 DEF Saved!SyncReads
  <2>2. w \in Purses
    BY <1>0, <1>s DEF RowsInv, Saved!MirrorOf, Purses
  <2> HIDE DEF w
  <2>3. SoundWrite(to)
    BY <1>q, <2>2 DEF SoundWrite, WriteType
  <2>4. RowsInv'
    BY <1>0, <2>1 DEF RowsInv, Saved!Saved
  <2> QED
    BY <1>g, <2>1, <2>3, <2>4
<1>8. ASSUME NEW r \in WalletRequests, Saved!SyncWrites(r) PROVE SavedInv'
  <2>1. x5' \in Purses /\ UNCHANGED <<x1, x2, x3, x4, x8>> /\ Saved!Goes(r, Saved!Quiet)
    BY <1>0, <1>8 DEF Saved!SyncWrites, SoundWrite
  <2>2. RowsInv'
    BY <1>0, <2>1 DEF RowsInv, Saved!Saved
  <2> QED
    BY <1>g, <1>q, <2>1, <2>2
<1>9. ASSUME NEW r \in WalletRequests, NEW s \in Slots, NEW i \in 0..MaxRows,
             Saved!BeginAssign(r, s, i)
      PROVE  SavedInv'
  <2>1. SoundWrite([Saved!Quiet EXCEPT !.op = "assign", !.row = i, !.slot = s])
    BY <1>q DEF SoundWrite, WriteType
  <2> QED
    BY <1>9, <1>b, <2>1 DEF Saved!BeginAssign
<1>10. ASSUME NEW r \in WalletRequests, Saved!WriteSlot(r) PROVE SavedInv'
  <2>1. UNCHANGED <<x1, x2, x3, x5, x8>> /\ Saved!Goes(r, Saved!Quiet) /\ x6[r].row \in 0..MaxRows
    BY <1>0, <1>10 DEF Saved!WriteSlot, WriteType
  <2>2. x4' \in [Slots -> 0..MaxRows]
    BY <1>0, <1>10, <2>1 DEF Saved!WriteSlot, RowsInv
  <2>3. RowsInv'
    BY <1>0, <2>1, <2>2 DEF RowsInv, Saved!Saved
  <2> QED
    BY <1>g, <1>q, <2>1, <2>3
<1>11. ASSUME NEW r \in WalletRequests, Saved!RemoveRow(r) PROVE SavedInv'
  <2> DEFINE i == x6[r].row
             Nulled(p) == IF p = i THEN 0 ELSE p
             to == [x6[r] EXCEPT !.op = "after"]
  <2>1. /\ x6' = [x6 EXCEPT ![r] = to] /\ x7' = x7 /\ UNCHANGED <<x2, x5>> /\ x6[r].op = "remove"
        /\ x1' = [x1 EXCEPT ![i] = "none"] /\ x3' = Nulled(x3)
        /\ x4' = [s \in Slots |-> Nulled(x4[s])]
        /\ x8' = [s \in Sends |-> [x8[s] EXCEPT !.via = Nulled(x8[s].via)]]
    BY <1>11 DEF Saved!RemoveRow, Saved!Goes
  <2>2. i \in Saved!Rows
    BY <1>0, <2>1 DEF SoundWrite
  <2>3. /\ x1' \in [Saved!Rows -> Wallets \union {"none"}]
        /\ \A j \in Saved!Saved : j # i => j \in Saved!Saved' /\ x1'[j] = x1[j]
        /\ \A j \in Saved!Rows : j > x2' => x1'[j] = "none"
    BY <1>0, <2>1, <2>2 DEF RowsInv, Saved!Saved
  <2>4. x3' \in Saved!Saved' \union {0} /\ x4' \in [Slots -> 0..MaxRows]
    BY <1>0, <2>1, <2>3 DEF RowsInv
  <2>5. RowsInv'
    BY <1>0, <2>1, <2>3, <2>4 DEF RowsInv
  <2>6. SoundWrite(to)
    BY <1>0, <2>1, <2>2 DEF SoundWrite, WriteType
  <2>7. \A q \in WalletRequests : x6'[q] \in WriteType /\ SoundWrite(x6'[q])
    <3> HIDE DEF to
    <3> QED
      BY <1>0, <2>1, <2>6 DEF SoundWrite
  <2>8. ASSUME NEW s \in Sends PROVE SoundSend(x8[s])'
    <3>1. x8'[s] = [x8[s] EXCEPT !.via = Nulled(x8[s].via)]
      BY <2>1
    <3>2. SoundSend(x8[s]) /\ x8[s] \in SendType /\ Nulled(x8[s].via) \in 0..MaxRows
      BY <1>0 DEF SoundSend, SendType
    <3>3. /\ x8'[s] \in SendType /\ x8'[s].via = Nulled(x8[s].via) /\ x8'[s].wallet = x8[s].wallet
          /\ x8'[s].state = x8[s].state /\ x8'[s].paid = x8[s].paid
      BY <3>1, <3>2 DEF SendType
    <3> QED
      BY <2>3, <3>2, <3>3 DEF SoundSend
  <2>9. DOMAIN x8' = Sends /\ x8' = [s \in Sends |-> x8'[s]]
    BY <2>1
  <2> QED
    BY <1>0, <2>1, <2>5, <2>7, <2>8, <2>9 DEF SavedInv
<1>12. ASSUME NEW r \in WalletRequests, Saved!AfterRemove(r) PROVE SavedInv'
  <2> DEFINE first == IF Saved!Saved = {} THEN 0
                      ELSE CHOOSE i \in Saved!Saved : \A j \in Saved!Saved : i <= j
  <2>1. first \in Saved!Saved \union {0}
    <3>1. CASE Saved!Saved # {}
      <4>1. Saved!Saved \subseteq Nat
        BY <1>s
      <4>2. \E i \in Saved!Saved : \A j \in Saved!Saved : i <= j
        BY <3>1, <4>1, LeastElement
      <4> QED
        BY <3>1, <4>2
    <3> QED
      BY <3>1
  <2>2. /\ UNCHANGED <<x1, x2, x4, x5, x8>> /\ x3' \in {x3, first}
        /\ Saved!Goes(r, Saved!Quiet) \/ Saved!Goes(r, [Saved!Quiet EXCEPT !.op = "sync"])
    BY <1>12 DEF Saved!AfterRemove
  <2>3. SoundWrite([Saved!Quiet EXCEPT !.op = "sync"])
    BY <1>q DEF SoundWrite, WriteType
  <2> HIDE DEF first
  <2>4. RowsInv'
    BY <1>0, <2>1, <2>2 DEF RowsInv, Saved!Saved
  <2> QED
    BY <1>g, <1>q, <2>2, <2>3, <2>4
<1>p. ASSUME NEW s \in Sends, NEW to, SoundSend(to), x8' = [x8 EXCEPT ![s] = to],
             UNCHANGED <<x1, x2, x3, x4, x5, x6, x7>>
      PROVE  SavedInv'
  <2>1. DOMAIN x8' = Sends /\ x8' = [t \in Sends |-> x8'[t]]
    BY <1>0, <1>p
  <2>2. \A t \in Sends : SoundSend(x8'[t])
    BY <1>0, <1>p
  <2>3. \A t \in Sends : SoundSend(x8[t])'
    BY <1>p, <2>2 DEF SoundSend, Saved!Saved
  <2>4. RowsInv' /\ \A r \in WalletRequests : SoundWrite(x6'[r])
    BY <1>0, <1>p DEF RowsInv, Saved!Saved
  <2> QED
    BY <1>0, <1>p, <2>1, <2>3, <2>4 DEF SavedInv
<1>13. ASSUME NEW s \in Sends, Saved!BeginSend(s) PROVE SavedInv'
  <2> DEFINE to == [x8[s] EXCEPT !.state = "read", !.chain = <<x4[SendSlot], x3>>, !.wallet = x5]
  <2>1. x8' = [x8 EXCEPT ![s] = to] /\ x8[s] = Saved!NoSend /\ UNCHANGED <<x1, x2, x3, x4, x5, x6, x7>>
    BY <1>0, <1>13 DEF Saved!BeginSend
  <2>2. x4[SendSlot] \in 0..MaxRows /\ x3 \in 0..MaxRows /\ x5 \in Purses
    BY <1>0, <1>s DEF RowsInv
  <2>3. x8[s] \in SendType /\ x8[s].via = 0
    BY <1>0, <2>1 DEF SoundSend, Saved!NoSend
  <2>4. to \in SendType /\ to.via = 0
    BY <2>2, <2>3 DEF SendType
  <2> HIDE DEF to
  <2>5. SoundSend(to)
    BY <2>4 DEF SoundSend
  <2> QED
    BY <1>p, <2>1, <2>5
<1>14. ASSUME NEW s \in Sends, Saved!Pay(s) PROVE SavedInv'
  <2> DEFINE i == Saved!FirstSaved(x8[s].chain)
             w == IF i = 0 THEN x8[s].wallet ELSE x1[i]
  <2>1. UNCHANGED <<x1, x2, x3, x4, x5, x6, x7>>
    BY <1>14 DEF Saved!Pay
  <2>2. i \in Saved!Saved \union {0}
    BY DEF Saved!FirstSaved
  <2>3. i \in 0..MaxRows /\ (i # 0 => i \in Saved!Saved /\ x1[i] = w)
    <3> HIDE DEF i
    <3>1. i \in 0..MaxRows
      BY <1>s, <2>2
    <3>2. i # 0 => i \in Saved!Saved
      BY <2>2
    <3>3. i # 0 => x1[i] = w
      OBVIOUS
    <3> QED
      BY <3>1, <3>2, <3>3
  <2>4. w \in Purses \union {"none"}
    BY <1>0, <1>s, <2>2 DEF SoundSend, SendType, Purses
  <2> HIDE DEF i, w
  <2>5. CASE \E paid \in BOOLEAN :
               x8' = [x8 EXCEPT ![s] = [state |-> "sent", chain |-> <<0, 0>>, via |-> i,
                                        wallet |-> w, paid |-> paid]]
    <3>1. PICK paid \in BOOLEAN :
               x8' = [x8 EXCEPT ![s] = [state |-> "sent", chain |-> <<0, 0>>, via |-> i,
                                        wallet |-> w, paid |-> paid]]
      BY <2>5
    <3>2. SoundSend([state |-> "sent", chain |-> <<0, 0>>, via |-> i, wallet |-> w, paid |-> paid])
      BY <2>3, <2>4 DEF SoundSend, SendType
    <3> QED
      BY <1>p, <2>1, <3>1, <3>2
  <2>6. CASE x8' = [x8 EXCEPT ![s] = [Saved!NoSend EXCEPT !.state = "refused"]]
    <3>1. Saved!NoSend \in SendType /\ Saved!NoSend.via = 0
      BY DEF Saved!NoSend, SendType
    <3>2. SoundSend([Saved!NoSend EXCEPT !.state = "refused"])
      BY <3>1 DEF SoundSend, SendType
    <3> QED
      BY <1>p, <2>1, <2>6, <3>2
  <2> QED
    BY <1>14, <2>5, <2>6 DEF Saved!Pay, i, w
<1>15. ASSUME NEW s \in Sends, Saved!Reconcile(s) PROVE SavedInv'
  <2> DEFINE w == Saved!AskedWallet(s)
  <2>1. UNCHANGED <<x1, x2, x3, x4, x5, x6, x7>> /\ SoundSend(x8[s]) /\ x8[s] \in SendType
    BY <1>0, <1>15 DEF Saved!Reconcile, SoundSend
  <2>2. x8[s].via # 0 => w = x8[s].wallet
    BY <2>1 DEF Saved!AskedWallet, SoundSend
  <2> HIDE DEF w
  <2>3. CASE w = x8[s].wallet /\ x8[s].paid = TRUE
    <3>1. x8' = [x8 EXCEPT ![s] = [Saved!NoSend EXCEPT !.state = "completed"]]
      BY <1>0, <1>15, <2>3 DEF Saved!Reconcile, w
    <3>2. Saved!NoSend \in SendType /\ Saved!NoSend.via = 0
      BY DEF Saved!NoSend, SendType
    <3>3. SoundSend([Saved!NoSend EXCEPT !.state = "completed"])
      BY <3>2 DEF SoundSend, SendType
    <3> QED
      BY <1>p, <2>1, <3>1, <3>3
  <2>4. CASE ~(w = x8[s].wallet /\ x8[s].paid = TRUE)
    <3>1. x8[s].paid \in BOOLEAN
      BY <2>1 DEF SendType
    <3>2. x8' = [x8 EXCEPT ![s] = [x8[s] EXCEPT !.state = "failed"]]
      BY <1>0, <1>15, <2>4, <3>1 DEF Saved!Reconcile, w
    <3>3. SoundSend([x8[s] EXCEPT !.state = "failed"])
      BY <2>1, <2>2, <2>4 DEF SoundSend, SendType
    <3> QED
      BY <1>p, <2>1, <3>2, <3>3
  <2> QED
    BY <2>3, <2>4
<1>16. CASE UNCHANGED Saved!vars
  BY <1>0, <1>16 DEF Saved!vars, SavedInv, RowsInv, SoundWrite, SoundSend, Saved!Saved
<1> QED
  BY <1>1, <1>2, <1>3, <1>4, <1>5, <1>6, <1>7, <1>8, <1>9, <1>10, <1>11, <1>12, <1>13, <1>14,
     <1>15, <1>16 DEF Saved!Next, Saved!RequestSteps

LEMMA SavedProperties ==
  WalletConstants /\ SavedInv => Saved!TypeOK /\ Saved!SendJudgedByItsWallet
<1>1. ASSUME WalletConstants, SavedInv PROVE Saved!TypeOK
  <2>1. x3 \in 0..MaxRows
    BY <1>1 DEF WalletConstants, SavedInv, RowsInv, Saved!Saved, Saved!Rows
  <2>2. x8 \in [Sends -> SendType]
    BY <1>1 DEF SavedInv, SoundSend
  <2> QED
    BY <1>1, <2>1, <2>2 DEF SavedInv, RowsInv, WriteType, SendType, Purses, Saved!TypeOK
<1>2. SavedInv => Saved!SendJudgedByItsWallet
  BY DEF SavedInv, SoundSend, Saved!SendJudgedByItsWallet
<1> QED
  BY <1>1, <1>2

\* One request at a time (overlap is FALSE): what the rows, a request and the legacy fields
\* then say to one another.  A default being synchronised is not named yet.
RowsThere(rows) == {i \in Saved!Rows : rows[i] # "none"}
RowsInOrder(rows, n) ==
  /\ \A i, j \in RowsThere(rows) : rows[i] = rows[j] => i = j
  /\ n > 0 => RowsThere(rows) # {}
Named(rows, i, name) == i # 0 /\ Kind[rows[i]] \notin {"noffer", "ndebit"} => name = rows[i]
Fits(q, rows, i) ==
  /\ q.op = "insert" => \A j \in Saved!Rows : rows[j] # q.wallet
  /\ q.op = "remove" => \E j \in RowsThere(rows) : j # q.row
  /\ q.op = "after" => i # q.row
  /\ q.op = "mirror" => Named(rows, i, q.wallet)

OrderInv ==
  x7 = FALSE =>
    /\ \A r, q \in WalletRequests : x6[r] # Saved!Quiet /\ x6[q] # Saved!Quiet => r = q
    /\ RowsInOrder(x1, x2)
    /\ \A r \in WalletRequests : Fits(x6[r], x1, x3)
    /\ (\A r \in WalletRequests : x6[r].op \notin {"sync", "mirror"}) => Named(x1, x3, x5)

LEMMA OrderInit == Saved!Init => OrderInv
  BY DEF Saved!Init, OrderInv, RowsInOrder, RowsThere, Fits, Named, Saved!Quiet

\* The request that moves is the only one.
LEMMA OrderMoves ==
  ASSUME NEW r \in WalletRequests, NEW to, x6 \in [WalletRequests -> WriteType],
         x6' = [x6 EXCEPT ![r] = to],
         x7' = FALSE => /\ \A q \in WalletRequests \ {r} : x6[q] = Saved!Quiet
                        /\ RowsInOrder(x1', x2') /\ Fits(to, x1', x3')
                        /\ to.op \notin {"sync", "mirror"} => Named(x1', x3', x5')
  PROVE  OrderInv'
<1> SUFFICES ASSUME x7' = FALSE
             PROVE  /\ \A p, q \in WalletRequests :
                         x6'[p] # Saved!Quiet /\ x6'[q] # Saved!Quiet => p = q
                    /\ RowsInOrder(x1', x2')
                    /\ \A p \in WalletRequests : Fits(x6'[p], x1', x3')
                    /\ (\A p \in WalletRequests : x6'[p].op \notin {"sync", "mirror"}) =>
                         Named(x1', x3', x5')
  BY DEF OrderInv
<1>1. x6'[r] = to /\ \A q \in WalletRequests \ {r} : x6'[q] = Saved!Quiet
  OBVIOUS
<1>2. Fits(Saved!Quiet, x1', x3')
  BY DEF Fits, Saved!Quiet
<1>3. \A p \in WalletRequests : Fits(x6'[p], x1', x3')
  BY <1>1, <1>2
<1> QED
  BY <1>1, <1>3

\* While a request is busy and none has overlapped, the others rest.
LEMMA OthersRest ==
  ASSUME OrderInv, x7 = FALSE, NEW r \in WalletRequests, x6[r].op # "none"
  PROVE  /\ \A q \in WalletRequests \ {r} : x6[q] = Saved!Quiet
         /\ RowsInOrder(x1, x2) /\ Fits(x6[r], x1, x3)
         /\ x6[r].op \notin {"sync", "mirror"} => Named(x1, x3, x5)
<1>1. \A q \in WalletRequests \ {r} : x6[q] = Saved!Quiet
  BY DEF OrderInv, Saved!Quiet
<1> QED
  BY <1>1 DEF OrderInv, Saved!Quiet

LEMMA AnotherRow ==
  ASSUME NEW S, NEW i \in S, Saved!Cardinality(S) > 1
  PROVE  \E j \in S : j # i
<1>1. Saved!Cardinality(S) = Cardinality(S)
  BY DEF Saved!Cardinality, Cardinality
<1>2. SUFFICES ASSUME S = {i} PROVE FALSE
  OBVIOUS
<1>3. Cardinality({i}) = 1
  BY FS_Singleton
<1> QED
  BY <1>1, <1>2, <1>3

LEMMA OrderStep ==
  ASSUME WalletConstants, SavedInv, OrderInv, [Saved!Next]_Saved!vars
  PROVE  OrderInv'
<1> USE DEF WalletConstants
<1>0. /\ RowsInv /\ x6 \in [WalletRequests -> WriteType]
      /\ \A r \in WalletRequests : SoundWrite(x6[r])
      /\ Saved!Saved = RowsThere(x1) /\ Saved!Quiet.op = "none"
  BY DEF SavedInv, Saved!Saved, RowsThere, Saved!Quiet
<1>b. ASSUME NEW r \in WalletRequests, NEW to, Saved!Begins(r, to), Fits(to, x1, x3) PROVE OrderInv'
  <2>1. /\ UNCHANGED <<x1, x2, x3, x5>> /\ x6' = [x6 EXCEPT ![r] = to]
        /\ x7' = (x7 \/ \E q \in WalletRequests : x6[q] # Saved!Quiet)
    BY <1>b DEF Saved!Begins
  <2>2. ASSUME x7' = FALSE PROVE x7 = FALSE /\ \A q \in WalletRequests : x6[q] = Saved!Quiet
    BY <2>1, <2>2 DEF SavedInv
  <2>3. ASSUME x7' = FALSE PROVE RowsInOrder(x1, x2) /\ Named(x1, x3, x5)
    BY <1>0, <2>2, <2>3 DEF OrderInv
  <2> QED
    BY <1>0, <1>b, <2>1, <2>2, <2>3, OrderMoves
<1>g. ASSUME NEW r \in WalletRequests, NEW to, Saved!Goes(r, to), x6[r].op # "none",
             x7 = FALSE => /\ RowsInOrder(x1', x2') /\ Fits(to, x1', x3')
                           /\ to.op \notin {"sync", "mirror"} => Named(x1', x3', x5')
      PROVE  OrderInv'
  <2>1. x6' = [x6 EXCEPT ![r] = to] /\ x7' = x7
    BY <1>g DEF Saved!Goes
  <2>2. x7' = FALSE => \A q \in WalletRequests \ {r} : x6[q] = Saved!Quiet
    BY <1>g, <2>1, OthersRest
  <2> QED
    BY <1>0, <1>g, <2>1, <2>2, OrderMoves
<1>q. \A rows, i : Fits(Saved!Quiet, rows, i)
                   /\ Fits([Saved!Quiet EXCEPT !.op = "sync"], rows, i)
                   /\ Fits([Saved!Quiet EXCEPT !.op = "ask", !.row = x2 + 1], rows, i)
                   /\ [Saved!Quiet EXCEPT !.op = "sync"].op = "sync"
                   /\ [Saved!Quiet EXCEPT !.op = "ask", !.row = x2 + 1].op = "ask"
  BY DEF Fits, Saved!Quiet
<1>1. ASSUME NEW r \in WalletRequests, NEW w \in Wallets, Saved!BeginConnect(r, w) PROVE OrderInv'
  <2>1. Fits([Saved!Quiet EXCEPT !.op = "insert", !.wallet = w], x1, x3)
    BY <1>1 DEF Saved!BeginConnect, Fits, Saved!Quiet
  <2> QED
    BY <1>1, <1>b, <2>1 DEF Saved!BeginConnect
<1>2. ASSUME NEW r \in WalletRequests, Saved!ConnectRefused(r) PROVE OrderInv'
  <2>1. x6[r].op = "insert" /\ Saved!Goes(r, Saved!Quiet) /\ UNCHANGED <<x1, x2, x3, x4, x5>>
    BY <1>2 DEF Saved!ConnectRefused
  <2> QED
    BY <1>g, <1>q, <2>1, OthersRest
<1>3. ASSUME NEW r \in WalletRequests, Saved!Insert(r) PROVE OrderInv'
  <2> DEFINE n == x2 + 1
  <2>1. /\ x6[r].op = "insert" /\ x2' = n /\ x1' = [x1 EXCEPT ![n] = x6[r].wallet]
        /\ Saved!Goes(r, [Saved!Quiet EXCEPT !.op = "ask", !.row = n]) /\ UNCHANGED <<x3, x5>>
        /\ n \in Saved!Rows /\ x1[n] = "none" /\ x6[r].wallet # "none"
        /\ x1 \in [Saved!Rows -> Wallets \union {"none"}] /\ x3 \in RowsThere(x1) \union {0}
    BY <1>0, <1>3 DEF Saved!Insert, RowsInv, Saved!Rows, SoundWrite
  <2>2. ASSUME x7 = FALSE
        PROVE  RowsInOrder(x1', x2') /\ Named(x1', x3', x5')
    <3>1. RowsInOrder(x1, x2) /\ Fits(x6[r], x1, x3) /\ Named(x1, x3, x5)
      BY <2>1, <2>2, OthersRest
    <3>2. \A j \in Saved!Rows : x1[j] # x6[r].wallet
      BY <2>1, <3>1 DEF Fits
    <3>3. /\ RowsThere(x1') = RowsThere(x1) \union {n}
          /\ \A j \in RowsThere(x1) : x1'[j] = x1[j] /\ x1[j] # x6[r].wallet /\ j # n
          /\ x1'[n] = x6[r].wallet
      BY <2>1, <3>2 DEF RowsThere
    <3> HIDE DEF n
    <3>4. RowsInOrder(x1', x2')
      BY <3>1, <3>3 DEF RowsInOrder
    <3>5. Named(x1', x3', x5')
      BY <2>1, <3>1, <3>3 DEF Named
    <3> QED
      BY <3>4, <3>5
  <2> QED
    BY <1>g, <1>q, <2>1, <2>2
<1>4. ASSUME NEW r \in WalletRequests, Saved!AskDefault(r) PROVE OrderInv'
  <2> DEFINE to == IF x3 = 0 THEN [x6[r] EXCEPT !.op = "default"] ELSE Saved!Quiet
  <2>1. x6[r].op = "ask" /\ Saved!Goes(r, to) /\ UNCHANGED <<x1, x2, x3, x5>>
    BY <1>4 DEF Saved!AskDefault
  <2>2. x6[r] \in WriteType
    BY <1>0
  <2>3. Fits(to, x1, x3)
    BY <1>q, <2>2 DEF Fits, WriteType
  <2> HIDE DEF to
  <2> QED
    BY <1>g, <2>1, <2>3, OthersRest
<1>5. ASSUME NEW r \in WalletRequests, NEW i \in Saved!Rows,
             Saved!BeginDefault(r, i) \/ Saved!BeginRemove(r, i)
      PROVE  OrderInv'
  <2>1. CASE Saved!BeginDefault(r, i)
    <3>1. Fits([Saved!Quiet EXCEPT !.op = "default", !.row = i], x1, x3)
      BY DEF Fits, Saved!Quiet
    <3> QED
      BY <1>b, <2>1, <3>1 DEF Saved!BeginDefault
  <2>2. CASE Saved!BeginRemove(r, i)
    <3>1. \E j \in RowsThere(x1) : j # i
      BY <1>0, <2>2, AnotherRow DEF Saved!BeginRemove
    <3>2. Fits([Saved!Quiet EXCEPT !.op = "remove", !.row = i], x1, x3)
      BY <3>1 DEF Fits, Saved!Quiet
    <3> QED
      BY <1>b, <2>2, <3>2 DEF Saved!BeginRemove
  <2> QED
    BY <1>5, <2>1, <2>2
<1>6. ASSUME NEW r \in WalletRequests, Saved!WriteDefault(r) PROVE OrderInv'
  <2>1. UNCHANGED <<x1, x2, x5>> /\ x6[r].op = "default"
    BY <1>6 DEF Saved!WriteDefault
  <2>2. CASE x6[r].row \in Saved!Saved
    <3>1. Saved!Goes(r, [Saved!Quiet EXCEPT !.op = "sync"])
      BY <1>6, <2>2 DEF Saved!WriteDefault
    <3> QED
      BY <1>g, <1>q, <2>1, <3>1, OthersRest
  <2>3. CASE x6[r].row \notin Saved!Saved
    <3>1. Saved!Goes(r, Saved!Quiet) /\ x3' = x3
      BY <1>6, <2>3 DEF Saved!WriteDefault
    <3> QED
      BY <1>g, <1>q, <2>1, <3>1, OthersRest
  <2> QED
    BY <2>2, <2>3
<1>7. ASSUME NEW r \in WalletRequests, Saved!SyncReads(r) PROVE OrderInv'
  <2> DEFINE to == [Saved!Quiet EXCEPT !.op = "mirror", !.wallet = Saved!MirrorOf(x3)]
  <2>1. Saved!Goes(r, to) /\ UNCHANGED <<x1, x2, x3, x5>> /\ x6[r].op = "sync"
    BY <1>7 DEF Saved!SyncReads
  <2>2. to.op = "mirror" /\ to.wallet = Saved!MirrorOf(x3)
    BY DEF Saved!Quiet
  <2>3. Named(x1, x3, Saved!MirrorOf(x3))
    BY DEF Named, Saved!MirrorOf
  <2> HIDE DEF to
  <2>4. Fits(to, x1, x3)
    BY <2>2, <2>3 DEF Fits
  <2> QED
    BY <1>g, <2>1, <2>2, <2>4, OthersRest
<1>8. ASSUME NEW r \in WalletRequests, Saved!SyncWrites(r) PROVE OrderInv'
  <2>1. /\ x5' = x6[r].wallet /\ UNCHANGED <<x1, x2, x3>>
        /\ Saved!Goes(r, Saved!Quiet) /\ x6[r].op = "mirror"
    BY <1>8 DEF Saved!SyncWrites
  <2>2. x7 = FALSE => RowsInOrder(x1, x2) /\ Named(x1, x3, x6[r].wallet)
    BY <2>1, OthersRest DEF Fits
  <2> QED
    BY <1>g, <1>q, <2>1, <2>2
<1>9. ASSUME NEW r \in WalletRequests, NEW s \in Slots, NEW i \in 0..MaxRows,
             Saved!BeginAssign(r, s, i)
      PROVE  OrderInv'
  <2>1. Fits([Saved!Quiet EXCEPT !.op = "assign", !.row = i, !.slot = s], x1, x3)
    BY DEF Fits, Saved!Quiet
  <2> QED
    BY <1>9, <1>b, <2>1 DEF Saved!BeginAssign
<1>10. ASSUME NEW r \in WalletRequests, Saved!WriteSlot(r) PROVE OrderInv'
  <2>1. UNCHANGED <<x1, x2, x3, x5>> /\ Saved!Goes(r, Saved!Quiet) /\ x6[r].op = "assign"
    BY <1>10 DEF Saved!WriteSlot
  <2> QED
    BY <1>g, <1>q, <2>1, OthersRest
<1>11. ASSUME NEW r \in WalletRequests, Saved!RemoveRow(r) PROVE OrderInv'
  <2> DEFINE i == x6[r].row
             to == [x6[r] EXCEPT !.op = "after"]
  <2>1. /\ Saved!Goes(r, to) /\ UNCHANGED <<x2, x5>> /\ x6[r].op = "remove"
        /\ x1' = [x1 EXCEPT ![i] = "none"] /\ x3' = IF x3 = i THEN 0 ELSE x3
    BY <1>11 DEF Saved!RemoveRow
  <2>2. i \in Saved!Rows /\ i # 0 /\ x1 \in [Saved!Rows -> Wallets \union {"none"}]
    BY <1>0, <2>1 DEF SoundWrite, Saved!Rows, RowsInv
  <2>3. x6[r] \in WriteType
    BY <1>0
  <2>4. to.op = "after" /\ to.row = i
    BY <2>3 DEF WriteType
  <2> HIDE DEF to
  <2>5. Fits(to, x1', x3')
    BY <2>1, <2>2, <2>4 DEF Fits
  <2>6. ASSUME x7 = FALSE PROVE RowsInOrder(x1', x2') /\ Named(x1', x3', x5')
    <3>1. RowsInOrder(x1, x2) /\ Fits(x6[r], x1, x3) /\ Named(x1, x3, x5)
      BY <2>1, <2>6, OthersRest
    <3>2. RowsThere(x1') = RowsThere(x1) \ {i} /\ \A j \in Saved!Rows : j # i => x1'[j] = x1[j]
      BY <2>1, <2>2 DEF RowsThere
    <3>3. \E j \in RowsThere(x1) : j # i
      BY <2>1, <3>1 DEF Fits
    <3>4. RowsThere(x1) \subseteq Saved!Rows /\ x3 \in RowsThere(x1) \union {0}
      BY <1>0 DEF RowsThere, RowsInv
    <3> HIDE DEF i
    <3>5. RowsInOrder(x1', x2')
      BY <2>1, <3>1, <3>2, <3>3, <3>4 DEF RowsInOrder
    <3>6. Named(x1', x3', x5')
      BY <2>1, <3>1, <3>2, <3>4 DEF Named
    <3> QED
      BY <3>5, <3>6
  <2> QED
    BY <1>g, <2>1, <2>5, <2>6
<1>12. ASSUME NEW r \in WalletRequests, Saved!AfterRemove(r) PROVE OrderInv'
  <2>1. UNCHANGED <<x1, x2, x5>> /\ x6[r].op = "after"
    BY <1>12 DEF Saved!AfterRemove
  <2>2. CASE x3 = x6[r].row
    <3>1. Saved!Goes(r, [Saved!Quiet EXCEPT !.op = "sync"])
      BY <1>12, <2>2 DEF Saved!AfterRemove
    <3> QED
      BY <1>g, <1>q, <2>1, <3>1, OthersRest
  <2>3. CASE x3 # x6[r].row
    <3>1. Saved!Goes(r, Saved!Quiet) /\ x3' = x3
      BY <1>12, <2>3 DEF Saved!AfterRemove
    <3> QED
      BY <1>g, <1>q, <2>1, <3>1, OthersRest
  <2> QED
    BY <2>2, <2>3
<1>13. ASSUME NEW s \in Sends, Saved!BeginSend(s) \/ Saved!Pay(s) \/ Saved!Reconcile(s) PROVE OrderInv'
  <2>1. UNCHANGED <<x1, x2, x3, x4, x5, x6, x7>>
    BY <1>13 DEF Saved!BeginSend, Saved!Pay, Saved!Reconcile
  <2> QED
    BY <2>1 DEF OrderInv
<1>14. CASE UNCHANGED Saved!vars
  BY <1>14 DEF Saved!vars, OrderInv
<1> QED
  BY <1>1, <1>2, <1>3, <1>4, <1>5, <1>6, <1>7, <1>8, <1>9, <1>10, <1>11, <1>12, <1>13, <1>14
     DEF Saved!Next, Saved!RequestSteps

LEMMA OrderProperties == SavedInv /\ OrderInv => Saved!InOrderOneByOne
<1> SUFFICES ASSUME SavedInv, OrderInv, Saved!AtRest, x7 = FALSE
             PROVE  /\ \A i, j \in Saved!Saved : x1[i] = x1[j] => i = j
                    /\ x2 > 0 => Saved!Saved # {}
                    /\ x3 # 0 /\ Kind[x1[x3]] \notin {"noffer", "ndebit"} => x5 = x1[x3]
  BY DEF Saved!InOrderOneByOne, SavedInv
<1>1. RowsInOrder(x1, x2) /\ Named(x1, x3, x5)
  BY DEF OrderInv, Saved!AtRest, Saved!Quiet
<1> QED
  BY <1>1 DEF RowsInOrder, Named, RowsThere, Saved!Saved

-----------------------------------------------------------------------------
(* AdminPayments *)

\* A hold that took a payment has a payer, and what was read off it stays so.  A row is
\* failed only once the card cannot pay any more, or its payment cannot be captured.
SaleInv ==
  /\ x1 \in {"created", "open", "settled", "cancelled"}
  /\ x2 \in {"open", "accepted", "settled", "refunded"}
  /\ x3 \in {"nobody", "card", "other"} /\ x4 \in {"travels", "lost"}
  /\ x5 \in {"pending", "completed", "failed"}
  /\ x2 # "open" \/ x1 \in {"open", "settled"} => x3 # "nobody"
  /\ x2 = "settled" => x1 = "settled"
  /\ x4 = "lost" => x3 # "card"
  /\ x5 = "failed" => x4 = "lost" \/ x1 = "cancelled"
  /\ x5 = "completed" => x3 # "nobody"

ToolType == [at: Admin!At, seen: {"none", "pending", "failed"}, force: BOOLEAN]

ToolsInv ==
  /\ x6 \in [Operators -> ToolType]
  /\ \A o \in Operators :
       /\ x6[o].at = "cancel: rows" => x1 = "cancelled"
       /\ x6[o].at \in {"finalize", "flip"} => x3 # "nobody"
       /\ x6[o].force = TRUE => x3 # "nobody"

AdminInv == SaleInv /\ ToolsInv

LEMMA AdminInit == Admin!Init => AdminInv
<1>1. Admin!Resting \in ToolType /\ Admin!Resting.at = "idle" /\ Admin!Resting.force = FALSE
  BY DEF Admin!Resting, Admin!At, ToolType
<1> QED
  BY <1>1 DEF Admin!Init, AdminInv, SaleInv, ToolsInv

\* A tool that moves says nothing new but what it has found.
LEMMA ToolMoves ==
  ASSUME ToolsInv, NEW o \in Operators, NEW to \in ToolType, x6' = [x6 EXCEPT ![o] = to],
         to.at = "cancel: rows" => x1' = "cancelled",
         to.at \in {"finalize", "flip"} => x3' # "nobody", to.force = TRUE => x3' # "nobody",
         x1 = "cancelled" => x1' = "cancelled", x3 # "nobody" => x3' # "nobody"
  PROVE  ToolsInv'
  BY DEF ToolsInv

LEMMA ToolGoes ==
  ASSUME ToolsInv, NEW o \in Operators, NEW at \in Admin!At, Admin!Goes(o, at),
         at = "cancel: rows" => x1' = "cancelled", at \in {"finalize", "flip"} => x3' # "nobody",
         x1 = "cancelled" => x1' = "cancelled", x3 # "nobody" => x3' # "nobody"
  PROVE  ToolsInv'
<1> DEFINE to == [x6[o] EXCEPT !.at = at]
<1>1. x6' = [x6 EXCEPT ![o] = to]
  BY DEF ToolsInv, Admin!Goes
<1>2. to \in ToolType /\ to.at = at /\ to.force = x6[o].force
  BY DEF ToolsInv, ToolType
<1>3. x6[o].force = TRUE => x3 # "nobody"
  BY DEF ToolsInv
<1> HIDE DEF to
<1> QED
  BY <1>1, <1>2, <1>3, ToolMoves

LEMMA ToolLeaves ==
  ASSUME ToolsInv, NEW o \in Operators, Admin!Leaves(o),
         x1 = "cancelled" => x1' = "cancelled", x3 # "nobody" => x3' # "nobody"
  PROVE  ToolsInv'
<1>1. Admin!Resting \in ToolType /\ Admin!Resting.at = "idle" /\ Admin!Resting.force = FALSE
  BY DEF Admin!Resting, Admin!At, ToolType
<1> QED
  BY <1>1, ToolMoves DEF Admin!Leaves

\* The sale moves on.
LEMMA AdvanceKeeps ==
  ASSUME SaleInv, Admin!Advanced, UNCHANGED <<x3, x4, x5>>
  PROVE  SaleInv' /\ (x1 = "cancelled" => x1' = "cancelled")
  BY DEF SaleInv, Admin!Advanced, Admin!Locked

LEMMA AdminStep ==
  ASSUME AdminInv, [Admin!Next]_Admin!vars
  PROVE  AdminInv'
<1> USE DEF Admin!world
<1>0. /\ SaleInv /\ ToolsInv
      /\ {"cancel: look", "cancel: close", "cancel: rows", "prove", "finalize", "flip"} \subseteq Admin!At
  BY DEF Admin!At, AdminInv
<1>1. ASSUME NEW who \in {"card", "other"}, Admin!PayerPays(who) PROVE AdminInv'
  BY <1>1 DEF AdminInv, SaleInv, ToolsInv, Admin!PayerPays
<1>2. CASE Admin!RequestLost \/ Admin!HoldRunsOut
  BY <1>2 DEF AdminInv, SaleInv, ToolsInv, Admin!RequestLost, Admin!HoldRunsOut
<1>3. CASE Admin!Driver \/ \E o \in Operators : Admin!AdminAdvances(o)
  <2>1. Admin!Advanced /\ UNCHANGED <<x3, x4, x5, x6>>
    BY <1>3 DEF Admin!Driver, Admin!AdminAdvances
  <2> QED
    BY <1>0, <2>1, AdvanceKeeps DEF AdminInv, ToolsInv
<1>4. CASE Admin!Reconciles
  BY <1>4 DEF AdminInv, SaleInv, ToolsInv, Admin!Reconciles, Admin!OwnProof, Admin!Locked
<1>5. ASSUME NEW o \in Operators, Admin!AskCancel(o) PROVE AdminInv'
  <2>1. UNCHANGED <<x1, x2, x3, x4, x5>> /\ Admin!Goes(o, "cancel: look")
    BY <1>5 DEF Admin!AskCancel
  <2> QED
    BY <1>0, <2>1, ToolGoes DEF AdminInv, SaleInv
<1>6. ASSUME NEW o \in Operators, Admin!CancelLooks(o) PROVE AdminInv'
  <2>1. UNCHANGED <<x3, x4, x5>>
    BY <1>6 DEF Admin!CancelLooks
  <2>2. CASE UNCHANGED <<x1, x2>> /\ Admin!Leaves(o)
    BY <1>0, <2>1, <2>2, ToolLeaves DEF AdminInv, SaleInv
  <2>3. CASE Admin!Advanced /\ Admin!Leaves(o)
    BY <1>0, <2>1, <2>3, AdvanceKeeps, ToolLeaves DEF AdminInv
  <2>4. CASE Admin!Goes(o, "cancel: close") /\ UNCHANGED <<x1, x2>>
    BY <1>0, <2>1, <2>4, ToolGoes DEF AdminInv, SaleInv
  <2> QED
    BY <1>6, <2>2, <2>3, <2>4 DEF Admin!CancelLooks
<1>7. ASSUME NEW o \in Operators, Admin!CancelCloses(o) PROVE AdminInv'
  <2> DEFINE after == IF x1 = "created" THEN "cancelled" ELSE x1
  <2>1. /\ x1' = after /\ UNCHANGED <<x3, x4, x5>>
        /\ x2' = x2 \/ (x1 = "created" /\ x2 = "accepted" /\ x2' = "refunded")
    BY <1>7 DEF Admin!CancelCloses
  <2>2. SaleInv'
    BY <1>0, <2>1 DEF SaleInv
  <2>3. CASE after = "cancelled" /\ Admin!Goes(o, "cancel: rows")
    BY <1>0, <2>1, <2>2, <2>3, ToolGoes DEF AdminInv
  <2>4. CASE Admin!Leaves(o)
    BY <1>0, <2>1, <2>2, <2>4, ToolLeaves DEF AdminInv
  <2> QED
    BY <1>7, <2>3, <2>4 DEF Admin!CancelCloses, Admin!RowsFollow
<1>8. ASSUME NEW o \in Operators, Admin!CancelFailsRows(o) PROVE AdminInv'
  <2>1. /\ x1 = "cancelled" /\ UNCHANGED <<x1, x2, x3, x4>> /\ Admin!Leaves(o)
        /\ x5' = IF x5 = "pending" THEN "failed" ELSE x5
    BY <1>0, <1>8 DEF Admin!CancelFailsRows, ToolsInv
  <2> QED
    BY <1>0, <2>1, ToolLeaves DEF AdminInv, SaleInv
<1>9. ASSUME NEW o \in Operators, Admin!AskRemediate(o) PROVE AdminInv'
  <2>1. PICK force \in {FALSE, x3 = "card" /\ Admin!Locked} :
          x6' = [x6 EXCEPT ![o] = [at |-> "prove", seen |-> x5, force |-> force]]
    BY <1>9 DEF Admin!AskRemediate
  <2> DEFINE to == [at |-> "prove", seen |-> x5, force |-> force]
  <2>2. UNCHANGED <<x1, x2, x3, x4, x5>> /\ x5 \in {"pending", "failed"}
    BY <1>0, <1>9 DEF Admin!AskRemediate, SaleInv
  <2>3. force \in BOOLEAN /\ (force = TRUE => x3 # "nobody")
    BY <2>1
  <2>4. to \in ToolType /\ to.at = "prove" /\ to.force = force
    BY <1>0, <2>2, <2>3 DEF ToolType
  <2>5. x6' = [x6 EXCEPT ![o] = to]
    BY <2>1
  <2> HIDE DEF to
  <2> QED
    BY <1>0, <2>2, <2>3, <2>4, <2>5, ToolMoves DEF AdminInv, SaleInv
<1>10. ASSUME NEW o \in Operators, Admin!Proves(o) PROVE AdminInv'
  <2>1. Admin!Proven \/ x6[o].force = TRUE => x3 # "nobody"
    BY <1>0 DEF SaleInv, ToolsInv, Admin!Proven, Admin!OwnProof, Admin!Locked
  <2>2. UNCHANGED <<x1, x2, x3, x4, x5>>
    BY <1>10 DEF Admin!Proves
  <2>3. CASE Admin!Goes(o, "finalize") /\ (Admin!Proven \/ x6[o].force = TRUE)
    BY <1>0, <2>1, <2>2, <2>3, ToolGoes DEF AdminInv, SaleInv
  <2>4. CASE Admin!Leaves(o)
    BY <1>0, <2>2, <2>4, ToolLeaves DEF AdminInv, SaleInv
  <2>5. x6[o].force \in BOOLEAN
    BY <1>0 DEF ToolsInv, ToolType
  <2> QED
    BY <1>10, <2>3, <2>4, <2>5 DEF Admin!Proves
<1>11. ASSUME NEW o \in Operators, Admin!Finalizes(o) PROVE AdminInv'
  <2>1. /\ UNCHANGED <<x1, x2, x3, x4>> /\ x3 # "nobody"
        /\ x5' = IF x5 = "pending" THEN "completed" ELSE x5
    BY <1>0, <1>11 DEF Admin!Finalizes, ToolsInv
  <2>2. SaleInv'
    BY <1>0, <2>1 DEF SaleInv
  <2>3. CASE Admin!Goes(o, "flip")
    BY <1>0, <2>1, <2>2, <2>3, ToolGoes DEF AdminInv
  <2>4. CASE Admin!Leaves(o)
    BY <1>0, <2>1, <2>2, <2>4, ToolLeaves DEF AdminInv
  <2> QED
    BY <1>11, <2>3, <2>4 DEF Admin!Finalizes
<1>12. ASSUME NEW o \in Operators, Admin!Flips(o) PROVE AdminInv'
  <2>1. /\ UNCHANGED <<x1, x2, x3, x4>> /\ x3 # "nobody" /\ Admin!Leaves(o)
        /\ x5' = IF x5 = "failed" THEN "completed" ELSE x5
    BY <1>0, <1>12 DEF Admin!Flips, ToolsInv
  <2> QED
    BY <1>0, <2>1, ToolLeaves DEF AdminInv, SaleInv
<1>13. CASE UNCHANGED Admin!vars
  BY <1>13 DEF Admin!vars, AdminInv, SaleInv, ToolsInv
<1> QED
  BY <1>1, <1>2, <1>3, <1>4, <1>5, <1>6, <1>7, <1>8, <1>9, <1>10, <1>11, <1>12, <1>13
     DEF Admin!Next

LEMMA AdminProperties ==
  AdminInv => Admin!TypeOK /\ Admin!CapturedNotFailed /\ Admin!CompletedInvoiceWasPaid
  BY DEF AdminInv, SaleInv, ToolsInv, ToolType, Admin!TypeOK, Admin!CapturedNotFailed,
         Admin!CompletedInvoiceWasPaid

-----------------------------------------------------------------------------
(* FirmwareUpdate *)

UpdateConstants ==
  Releases \subseteq Nat \ {0} /\ {Chunks, MaxStalls, MaxDeploys} \subseteq Nat

DeviceType ==
  [at: {"starting", "idle", "checking", "downloading", "digest", "journal", "switch"},
   running: Releases, boot: Releases, target: Update!Numbers, sha: Update!Numbers,
   written: 0..Chunks, flash: SUBSET Releases, stalls: 0..MaxStalls, journal: Update!Numbers,
   report: [state: {"none", "downloading", "confirmed", "failed", "up_to_date", "rebooting"},
            target: Update!Numbers]]

\* The boot slot is the running one; what is downloaded is the image of the version offered,
\* a newer one; what is about to be switched to is the whole of it.
SoundDevice(dev) ==
  /\ dev \in DeviceType /\ dev.boot = dev.running
  /\ dev.at \in {"downloading", "journal", "switch"} => dev.sha = dev.target /\ dev.target > dev.running
  /\ dev.at \in {"journal", "switch"} => dev.flash = {dev.sha}
  /\ dev.report.state = "confirmed" => dev.running >= dev.report.target

SoundDownload(r) ==
  /\ r = [for |-> r.for, got |-> r.got] /\ r.for \in {"nothing", "version", "chunk"}
  /\ DOMAIN r.got \subseteq Update!Files /\ \A f \in DOMAIN r.got : r.got[f] \in Update!Numbers

UpdateInv ==
  /\ x1 \in [Update!Files -> Update!Numbers] /\ x2 \in Update!Numbers /\ x3 \in 0..MaxDeploys
  /\ SoundDownload(x4) /\ SoundDevice(x5)
  /\ x5.at = "downloading" /\ x4.for = "chunk" => x5.written < Chunks

LEMMA UpdateInit == UpdateConstants /\ Update!Init => UpdateInv
  BY DEF UpdateConstants, Update!Init, UpdateInv, SoundDownload, SoundDevice, DeviceType,
         Update!Device, Update!NoRequest, Update!Files, Update!Numbers

\* NothingHeld downloaded.
LEMMA NothingHeld ==
  UpdateConstants =>
    0 \in 0..Chunks /\ 0 \in 0..MaxStalls /\ 0 \in Update!Numbers /\ {} \in SUBSET Releases
  BY DEF UpdateConstants, Update!Numbers

LEMMA NoRequestSound == SoundDownload(Update!NoRequest) /\ Update!NoRequest.for = "nothing"
  BY DEF SoundDownload, Update!NoRequest

\* A report that confirms nothing.
LEMMA ReportKeeps ==
  ASSUME NEW before, SoundDevice(before), NEW target \in Update!Numbers,
         NEW state1 \in {"downloading", "failed", "up_to_date", "rebooting"},
         Update!Reports(before, state1, target)
  PROVE  SoundDevice(x5)' /\ x5'.at = before.at /\ x5'.written = before.written
<1>1. CASE x5' = [before EXCEPT !.report = [state |-> state1, target |-> target]]
  <2>1. [state |-> state1, target |-> target] \in
          [state: {"none", "downloading", "confirmed", "failed", "up_to_date", "rebooting"},
           target: Update!Numbers]
    OBVIOUS
  <2> QED
    BY <1>1, <2>1 DEF SoundDevice, DeviceType
<1>2. CASE x5' = before
  BY <1>2
<1> QED
  BY <1>1, <1>2 DEF Update!Reports

\* An update is given up.
LEMMA FailKeeps ==
  ASSUME UpdateConstants, UpdateInv, NEW target \in Update!Numbers, Update!Fails(target),
         UNCHANGED <<x1, x2, x3>>
  PROVE  UpdateInv'
<1> DEFINE before == [x5 EXCEPT !.at = "idle", !.target = 0, !.sha = 0, !.written = 0, !.flash = {},
                                !.stalls = 0]
<1>1. SoundDevice(before) /\ before.at = "idle"
  BY NothingHeld DEF UpdateInv, SoundDevice, DeviceType
<1>2. x4' = Update!NoRequest /\ Update!Reports(before, "failed", target)
  BY DEF Update!Fails
<1> HIDE DEF before
<1>3. SoundDevice(x5)' /\ x5'.at = "idle"
  BY <1>1, <1>2, ReportKeeps
<1> QED
  BY <1>2, <1>3, NoRequestSound DEF UpdateInv

LEMMA UpdateStep ==
  ASSUME UpdateConstants, UpdateInv, [Update!Next]_Update!vars
  PROVE  UpdateInv'
<1> USE DEF Update!server
<1>0. /\ SoundDevice(x5) /\ SoundDownload(x4) /\ x5 \in DeviceType
      /\ x5.target \in Update!Numbers /\ 0 \in Update!Numbers /\ Update!Numbers \subseteq Nat
      /\ Releases \subseteq Update!Numbers
  BY DEF UpdateInv, SoundDevice, DeviceType, Update!Numbers, UpdateConstants
<1>1. ASSUME NEW release \in Releases, Update!Deploy(release) PROVE UpdateInv'
  BY <1>0, <1>1 DEF UpdateInv, Update!Deploy, UpdateConstants
<1>2. ASSUME NEW f \in Update!Files, Update!WriteFile(f) PROVE UpdateInv'
  BY <1>0, <1>2 DEF UpdateInv, Update!WriteFile
<1>3. ASSUME NEW f \in Update!Files, Update!ReadFile(f) PROVE UpdateInv'
  <2> DEFINE got == [g \in DOMAIN x4.got \cup {f} |-> IF g = f THEN x1[f] ELSE x4.got[g]]
  <2>1. x4' = [x4 EXCEPT !.got = got] /\ UNCHANGED <<x1, x2, x3, x5>>
    BY <1>3 DEF Update!ReadFile
  <2>2. DOMAIN got \subseteq Update!Files /\ \A g \in DOMAIN got : got[g] \in Update!Numbers
    BY <1>0 DEF UpdateInv, SoundDownload
  <2> HIDE DEF got
  <2>3. SoundDownload(x4)' /\ x4'.for = x4.for
    BY <1>0, <2>1, <2>2 DEF SoundDownload
  <2> QED
    BY <1>0, <2>1, <2>3 DEF UpdateInv
<1>4. CASE Update!Deployed
  BY <1>0, <1>4 DEF UpdateInv, Update!Deployed
<1>5. CASE Update!BootConfirmed
  <2> DEFINE up == [x5 EXCEPT !.at = "idle"]
             state1 == IF Update!TookUpdate THEN "confirmed" ELSE "failed"
  <2>1. UNCHANGED <<x1, x2, x3, x4>>
    BY <1>5 DEF Update!BootConfirmed
  <2>2. CASE x5' = up
    BY <1>0, <2>1, <2>2 DEF UpdateInv, SoundDevice, DeviceType
  <2>3. CASE x5' = [up EXCEPT !.journal = 0, !.report = [state |-> state1, target |-> x5.journal]]
    <3>1. [state |-> state1, target |-> x5.journal] \in
            [state: {"none", "downloading", "confirmed", "failed", "up_to_date", "rebooting"},
             target: Update!Numbers]
      BY <1>0 DEF DeviceType
    <3>2. state1 = "confirmed" => x5.journal = x5.running
      BY DEF Update!TookUpdate
    <3>3. x5.running \in Nat
      BY <1>0 DEF DeviceType
    <3> HIDE DEF state1
    <3>4. x5' \in DeviceType /\ x5'.at = "idle" /\ x5'.running = x5.running /\ x5'.boot = x5.boot
          /\ x5'.report = [state |-> state1, target |-> x5.journal]
      BY <1>0, <2>3, <3>1 DEF DeviceType
    <3>5. SoundDevice(x5)'
      BY <1>0, <3>2, <3>3, <3>4 DEF SoundDevice
    <3> QED
      BY <2>1, <3>4, <3>5 DEF UpdateInv
  <2> QED
    BY <1>5, <2>2, <2>3 DEF Update!BootConfirmed
<1>6. CASE Update!CheckForUpdate
  <2>1. SoundDownload(x4)'
    BY <1>6 DEF Update!CheckForUpdate, Update!Asks, SoundDownload
  <2> QED
    BY <1>0, <1>6, <2>1 DEF UpdateInv, Update!CheckForUpdate, SoundDevice, DeviceType
<1>7. CASE Update!Offered
  <2> DEFINE version == x4.got["meta"]
  <2>1. /\ UNCHANGED <<x1, x2, x3>> /\ x4' = Update!NoRequest
        /\ version = x4.got["image"] /\ version \in Update!Numbers
    BY <1>0, <1>7 DEF Update!Offered, Update!Available, Update!Answered, Update!OneRelease, Update!Files,
                      SoundDownload
  <2>2. CASE /\ version > x5.running
             /\ Update!Reports([x5 EXCEPT !.at = "downloading", !.target = version, !.sha = version],
                               "downloading", version)
    <3>1. SoundDevice([x5 EXCEPT !.at = "downloading", !.target = version, !.sha = version])
      BY <1>0, <2>1, <2>2 DEF SoundDevice, DeviceType
    <3>2. SoundDevice(x5)'
      BY <2>1, <2>2, <3>1, ReportKeeps
    <3> QED
      BY <2>1, <3>2, NoRequestSound DEF UpdateInv
  <2>3. CASE Update!Reports([x5 EXCEPT !.at = "idle"], "up_to_date", version)
    <3>1. SoundDevice([x5 EXCEPT !.at = "idle"])
      BY <1>0 DEF SoundDevice, DeviceType
    <3>2. SoundDevice(x5)'
      BY <2>1, <2>3, <3>1, ReportKeeps
    <3> QED
      BY <2>1, <3>2, NoRequestSound DEF UpdateInv
  <2> QED
    BY <1>7, <2>1, <2>2, <2>3 DEF Update!Offered
<1>8. CASE Update!NotOffered
  BY <1>0, <1>8, FailKeeps DEF Update!NotOffered
<1>9. CASE Update!AskChunk
  <2>1. SoundDownload(x4)'
    BY <1>9 DEF Update!AskChunk, Update!Asks, SoundDownload
  <2> QED
    BY <1>0, <1>9, <2>1 DEF UpdateInv, Update!AskChunk
<1>10. CASE Update!ChunkArrives
  <2>1. /\ x5.at = "downloading" /\ x4.for = "chunk" /\ UNCHANGED <<x1, x2, x3>>
        /\ x4' = Update!NoRequest /\ x4.got["image"] = x5.sha
        /\ x5' = [x5 EXCEPT !.flash = x5.flash \cup {x5.sha}, !.written = x5.written + 1, !.stalls = 0]
    BY <1>10 DEF Update!ChunkArrives, Update!ServesImage
  <2>2. x5.sha \in Releases
    BY <1>0, <2>1 DEF SoundDevice, DeviceType, Update!Numbers, UpdateConstants
  <2>3. x5.written + 1 \in 0..Chunks
    BY <1>0, <2>1 DEF UpdateInv, DeviceType, UpdateConstants
  <2>4. SoundDevice(x5)'
    BY <1>0, <2>1, <2>2, <2>3, NothingHeld DEF SoundDevice, DeviceType
  <2> QED
    BY <2>1, <2>4, NoRequestSound DEF UpdateInv
<1>11. CASE Update!ChunkNotFound
  BY <1>0, <1>11, FailKeeps DEF Update!ChunkNotFound
<1>12. CASE Update!ChunkStalls
  <2>1. CASE /\ x5.stalls < MaxStalls /\ x4' = Update!NoRequest /\ UNCHANGED <<x1, x2, x3>>
             /\ x5' = [x5 EXCEPT !.stalls = x5.stalls + 1]
    <3>1. x5.stalls + 1 \in 0..MaxStalls
      BY <1>0, <2>1 DEF DeviceType, UpdateConstants
    <3>2. SoundDevice(x5)'
      BY <1>0, <2>1, <3>1 DEF SoundDevice, DeviceType
    <3> QED
      BY <2>1, <3>2, NoRequestSound DEF UpdateInv
  <2>2. CASE Update!Fails(x5.target) /\ UNCHANGED <<x1, x2, x3>>
    BY <1>0, <2>2, FailKeeps
  <2> QED
    BY <1>12, <2>1, <2>2 DEF Update!ChunkStalls
<1>13. CASE Update!Downloaded
  <2>1. CASE Update!WholeImage
    <3>1. SoundDevice(x5)' /\ x5'.at = "journal" /\ UNCHANGED <<x1, x2, x3, x4>>
      BY <1>0, <1>13, <2>1 DEF Update!Downloaded, Update!WholeImage, SoundDevice, DeviceType
    <3> QED
      BY <1>0, <3>1 DEF UpdateInv
  <2>2. CASE ~Update!WholeImage
    BY <1>0, <1>13, <2>2, FailKeeps DEF Update!Downloaded
  <2> QED
    BY <2>1, <2>2
<1>14. CASE Update!WriteJournal
  <2>1. CASE Update!Fails(x5.target)
    BY <1>0, <1>14, <2>1, FailKeeps DEF Update!WriteJournal
  <2>2. CASE x5' = [x5 EXCEPT !.at = "switch", !.journal = x5.target] /\ UNCHANGED x4
    <3>1. SoundDevice(x5)' /\ x5'.at = "switch" /\ UNCHANGED <<x1, x2, x3, x4>>
      BY <1>0, <1>14, <2>2 DEF Update!WriteJournal, SoundDevice, DeviceType
    <3> QED
      BY <1>0, <3>1 DEF UpdateInv
  <2> QED
    BY <1>14, <2>1, <2>2 DEF Update!WriteJournal
<1>15. CASE Update!SwitchSlot
  <2>1. CASE Update!Fails(x5.target)
    BY <1>0, <1>15, <2>1, FailKeeps DEF Update!SwitchSlot
  <2>2. CASE /\ Update!Reports([x5 EXCEPT !.boot = x5.sha, !.running = x5.sha, !.at = "starting",
                                          !.target = 0, !.sha = 0, !.written = 0, !.flash = {}, !.stalls = 0],
                               "rebooting", x5.target)
             /\ UNCHANGED x4
    <3> DEFINE before == [x5 EXCEPT !.boot = x5.sha, !.running = x5.sha, !.at = "starting", !.target = 0,
                                    !.sha = 0, !.written = 0, !.flash = {}, !.stalls = 0]
    <3>1. x5.sha \in Releases /\ x5.sha > x5.running /\ UNCHANGED <<x1, x2, x3>>
      BY <1>0, <1>15 DEF Update!SwitchSlot, SoundDevice, DeviceType, Update!Numbers, UpdateConstants
    <3>2. x5.running \in Nat /\ x5.sha \in Nat /\ x5.report.target \in Nat
      BY <1>0 DEF DeviceType
    <3>3. before \in DeviceType /\ before.at = "starting" /\ before.boot = before.running
          /\ before.running = x5.sha /\ before.report = x5.report
      BY <1>0, <3>1, NothingHeld DEF DeviceType
    <3>4. SoundDevice(before)
      BY <1>0, <3>1, <3>2, <3>3 DEF SoundDevice
    <3>5. Update!Reports(before, "rebooting", x5.target)
      BY <2>2
    <3> HIDE DEF before
    <3>6. SoundDevice(x5)' /\ x5'.at = "starting"
      BY <1>0, <3>3, <3>4, <3>5, ReportKeeps
    <3> QED
      BY <1>0, <2>2, <3>1, <3>6 DEF UpdateInv
  <2> QED
    BY <1>15, <2>1, <2>2 DEF Update!SwitchSlot
<1>16. CASE Update!PowerLoss
  <2>1. SoundDevice(x5)' /\ x5'.at = "starting"
    BY <1>0, <1>16, NothingHeld DEF Update!PowerLoss, SoundDevice, DeviceType
  <2> QED
    BY <1>16, <2>1, NoRequestSound DEF Update!PowerLoss, UpdateInv
<1>17. CASE UNCHANGED Update!vars
  BY <1>0, <1>17 DEF Update!vars, UpdateInv
<1> QED
  BY <1>1, <1>2, <1>3, <1>4, <1>5, <1>6, <1>7, <1>8, <1>9, <1>10, <1>11, <1>12, <1>13, <1>14,
     <1>15, <1>16, <1>17 DEF Update!Next

LEMMA UpdateProperties ==
  UpdateInv => Update!TypeOK /\ Update!UpdateIsItsVersion /\ Update!ConfirmedIsRunning
<1>1. UpdateInv => Update!TypeOK
  BY DEF UpdateInv, SoundDownload, SoundDevice, DeviceType, Update!TypeOK
<1>2. UpdateInv => Update!UpdateIsItsVersion /\ Update!ConfirmedIsRunning
  BY DEF UpdateInv, SoundDevice, Update!UpdateIsItsVersion, Update!ConfirmedIsRunning, Update!WholeImage
<1> QED
  BY <1>1, <1>2

-----------------------------------------------------------------------------
(* RicDevices *)

\* A post that is authorised is of a device.
RicInv ==
  /\ Rics!TypeOK /\ Rics!UpdateIsOneReport
  /\ \A p \in Posts : x3[p].at = "authorised" => x3[p].device \in Devices

LEMMA RicInit == Rics!Init => RicInv
  BY DEF Rics!Init, RicInv, Rics!TypeOK, Rics!UpdateIsOneReport, Rics!Nothing, Rics!NoUpdate,
         Rics!Fields, Rics!Shown, Rics!Updates, Rics!Versions, Rics!Absent

\* What a row shows after a post: fields of it or of the row, and one update.
LEMMA MergedFields ==
  ASSUME NEW new \in Rics!Fields, NEW shown1 \in Rics!Shown,
         shown1.update \in Rics!Updates \union {Rics!NoUpdate}
  PROVE  /\ Rics!Merged(new, shown1) \in Rics!Shown
         /\ Rics!Merged(new, shown1).update \in Rics!Updates \union {Rics!NoUpdate}
<1>1. new.update \in Rics!Updates \union {Rics!NoUpdate}
  BY DEF Rics!Fields
<1>2. Rics!UpdateOver(new.update, shown1.update) \in Rics!Updates \union {Rics!NoUpdate}
  BY <1>1 DEF Rics!UpdateOver
<1>3. Rics!Updates \union {Rics!NoUpdate} \subseteq
        [state: {"failed", "downloading", "absent"}, code: {"sha", "absent"}]
  BY DEF Rics!Updates, Rics!NoUpdate, Rics!Absent
<1>4. /\ Rics!Over(new.version, shown1.version) \in Rics!Versions \union {Rics!Absent}
      /\ Rics!Over(new.rssi, shown1.rssi) \in {"weak", Rics!Absent}
  BY DEF Rics!Fields, Rics!Shown, Rics!Over
<1> QED
  BY <1>2, <1>3, <1>4 DEF Rics!Merged, Rics!Shown, Rics!Absent

LEMMA RicStep ==
  ASSUME RicInv, [Rics!Next]_Rics!vars
  PROVE  RicInv' /\ Rics!RevokedStays
<1>1. ASSUME NEW d \in Devices, Rics!Issue(d) \/ Rics!Revoke(d) PROVE RicInv' /\ Rics!RevokedStays
  BY <1>1 DEF Rics!Issue, Rics!Revoke, RicInv, Rics!TypeOK, Rics!UpdateIsOneReport, Rics!RevokedStays
<1>2. ASSUME NEW p \in Posts, NEW d \in Devices, NEW kind \in {"hello", "status"},
             NEW fields \in Rics!Fields, Rics!Authorise(p, d, kind, fields)
      PROVE  RicInv' /\ Rics!RevokedStays
  BY <1>2 DEF Rics!Authorise, RicInv, Rics!TypeOK, Rics!UpdateIsOneReport, Rics!RevokedStays
<1>3. ASSUME NEW p \in Posts, Rics!Write(p) PROVE RicInv' /\ Rics!RevokedStays
  <2> DEFINE d == x3[p].device
  <2>1. d \in Devices /\ x3[p].fields \in Rics!Fields /\ x1' = x1
    BY <1>3 DEF Rics!Write, RicInv, Rics!TypeOK
  <2>2. CASE Rics!StillActive(d)
    <3> DEFINE kind == IF x3[p].kind = "hello" \/ x2[d].row = "hello" THEN "hello" ELSE "status"
               fields == Rics!Merged(x3[p].fields, x2[d].fields)
    <3>1. x2' = [x2 EXCEPT ![d] = [row |-> kind, fields |-> fields]]
          /\ x3' = [x3 EXCEPT ![p].at = "written"]
      BY <1>3, <2>2 DEF Rics!Write
    <3>2. x2[d].fields \in Rics!Shown /\ x2[d].fields.update \in Rics!Updates \union {Rics!NoUpdate}
      BY <2>1 DEF RicInv, Rics!TypeOK, Rics!UpdateIsOneReport
    <3>3. fields \in Rics!Shown /\ fields.update \in Rics!Updates \union {Rics!NoUpdate}
      BY <2>1, <3>2, MergedFields
    <3>4. kind \in {"hello", "status"}
      OBVIOUS
    <3> HIDE DEF d, kind, fields
    <3>5. RicInv'
      BY <2>1, <3>1, <3>3, <3>4 DEF RicInv, Rics!TypeOK, Rics!UpdateIsOneReport
    <3>6. Rics!RevokedStays
      BY <2>1, <2>2, <3>1 DEF Rics!RevokedStays, Rics!StillActive, RicInv, Rics!TypeOK
    <3> QED
      BY <3>5, <3>6
  <2>3. CASE ~Rics!StillActive(d)
    <3>1. x3' = [x3 EXCEPT ![p].at = "refused"] /\ x2' = x2
      BY <1>3, <2>3 DEF Rics!Write
    <3>2. RicInv'
      BY <2>1, <3>1 DEF RicInv, Rics!TypeOK, Rics!UpdateIsOneReport
    <3>3. Rics!RevokedStays
      BY <3>1 DEF Rics!RevokedStays
    <3> QED
      BY <3>2, <3>3
  <2> QED
    BY <2>2, <2>3
<1>4. CASE UNCHANGED Rics!vars
  BY <1>4 DEF Rics!vars, RicInv, Rics!TypeOK, Rics!UpdateIsOneReport, Rics!RevokedStays
<1> QED
  BY <1>1, <1>2, <1>3, <1>4 DEF Rics!Next

-----------------------------------------------------------------------------
(* Checkout *)

CheckoutConstants == MaxHooks \in Nat \ {0} /\ MaxMoves \in Nat

ChargeType ==
  [at: {"idle", "mint", "again", "hold", "store", "answered", "refused"},
   kind: Pos!Kinds, verify: BOOLEAN, hooked: BOOLEAN, pointer: 0..MaxMoves,
   asked: 0..MaxMoves, path: {"wrap", "direct"}, watch: Pos!Watches]
WorldType == [verifies: BOOLEAN, pointer: 0..MaxMoves]
ConnType == [verify: BOOLEAN, hook: Pos!Hooks, pointer: 0..MaxMoves]

\* What a request took from the saved wallet is so of an address (`verify`); only an address
\* that served verify then is sold directly; and an invoice that nothing can see is one of an
\* address that has stopped serving it (`dropped`).
SoundCharge(q, verify, dropped) ==
  /\ q \in ChargeType
  /\ q.verify = TRUE => verify
  /\ q.path = "direct" /\ q.kind = "address" => q.verify = TRUE
  /\ q.at = "store" /\ q.watch = "nothing" => verify /\ dropped

CheckoutInv ==
  /\ x1 \in ConnType /\ x6 \in WorldType
  /\ x2 \in Pos!Hooks /\ x3 \subseteq Pos!Hooks /\ x4 \in 0..MaxHooks
  /\ x5 \in [HookReads -> [at: {"idle", "write"}, id: 0..MaxHooks, rotate: BOOLEAN]]
  /\ DOMAIN x7 = SaleRequests /\ x7 = [r \in SaleRequests |-> x7[r]]
  /\ \A r \in SaleRequests : SoundCharge(x7[r], x1.verify = TRUE, x6.verifies = FALSE)
  /\ x8 \in [SaleRequests -> Pos!Watches \union {"none"}]
  /\ \A r \in SaleRequests : x8[r] = "nothing" => x1.verify = TRUE /\ x6.verifies = FALSE

LEMMA CheckoutInit == CheckoutConstants /\ Pos!Init => CheckoutInv
<1> SUFFICES ASSUME CheckoutConstants, Pos!Init PROVE CheckoutInv
  OBVIOUS
<1>1. {Pos!NoHook, [id |-> 1, secret |-> 1]} \subseteq Pos!Hooks
  BY DEF CheckoutConstants, Pos!NoHook, Pos!Hooks
<1>2. x1 \in ConnType /\ x1.hook.id \in 0..MaxHooks
  BY <1>1 DEF Pos!Init, ConnType, CheckoutConstants, Pos!Hooks
<1>3. x6 \in WorldType
  BY <1>2 DEF Pos!Init, ConnType, WorldType, CheckoutConstants
<1>4. Pos!Idle \in ChargeType /\ SoundCharge(Pos!Idle, x1.verify = TRUE, x6.verifies = FALSE)
  BY DEF Pos!Idle, ChargeType, SoundCharge, Pos!Kinds, Pos!Watches, CheckoutConstants
<1>5. Pos!NoReq \in [at: {"idle", "write"}, id: 0..MaxHooks, rotate: BOOLEAN]
  BY DEF Pos!NoReq, CheckoutConstants
<1>6. Pos!NoHook \in Pos!Hooks /\ x3 \subseteq Pos!Hooks
  BY <1>1, <1>2 DEF Pos!Init, ConnType
<1> QED
  BY <1>2, <1>3, <1>4, <1>5, <1>6 DEF Pos!Init, CheckoutInv, Pos!Watches

\* Request r moves on; its row may be written.
LEMMA SaleMoves ==
  ASSUME CheckoutInv, NEW r \in SaleRequests, NEW to, Pos!Put(r, to),
         SoundCharge(to, x1.verify = TRUE, x6.verifies = FALSE),
         x1' \in ConnType, x1'.verify = x1.verify, UNCHANGED <<x2, x3, x4, x5, x6>>,
         x8' = x8 \/ (x8' = [x8 EXCEPT ![r] = x7[r].watch] /\ x7[r].at = "store")
  PROVE  CheckoutInv'
<1>1. x7' = [x7 EXCEPT ![r] = to]
  BY DEF Pos!Put
<1>2. DOMAIN x7' = SaleRequests /\ x7' = [s \in SaleRequests |-> x7'[s]]
      /\ \A s \in SaleRequests : x7'[s] = IF s = r THEN to ELSE x7[s]
  BY <1>1 DEF CheckoutInv
<1>3. \A s \in SaleRequests : SoundCharge(x7'[s], x1'.verify = TRUE, x6'.verifies = FALSE)
  BY <1>2 DEF CheckoutInv
<1>4. x7[r].watch \in Pos!Watches
      /\ (x7[r].at = "store" /\ x7[r].watch = "nothing" => x1.verify = TRUE /\ x6.verifies = FALSE)
  BY DEF CheckoutInv, SoundCharge, ChargeType
<1>5. /\ x8' \in [SaleRequests -> Pos!Watches \union {"none"}]
      /\ \A s \in SaleRequests : x8'[s] = "nothing" => x1'.verify = TRUE /\ x6'.verifies = FALSE
  BY <1>4 DEF CheckoutInv
<1> QED
  BY <1>2, <1>3, <1>5 DEF CheckoutInv

\* The steps a request makes in place.
LEMMA SaleGoes ==
  ASSUME CheckoutInv, NEW r \in SaleRequests
  PROVE  /\ SoundCharge(x7[r], x1.verify = TRUE, x6.verifies = FALSE)
         /\ SoundCharge([x7[r] EXCEPT !.at = "refused"], x1.verify = TRUE, x6.verifies = FALSE)
         /\ SoundCharge([x7[r] EXCEPT !.at = "answered"], x1.verify = TRUE, x6.verifies = FALSE)
         /\ Pos!MayGoDirect(r) =>
              SoundCharge([x7[r] EXCEPT !.at = "mint", !.path = "direct", !.asked = x7[r].pointer],
                           x1.verify = TRUE, x6.verifies = FALSE)
<1>1. SoundCharge(x7[r], x1.verify = TRUE, x6.verifies = FALSE)
  BY DEF CheckoutInv
<1>2. x7[r].verify \in BOOLEAN
  BY <1>1 DEF SoundCharge, ChargeType
<1>3. Pos!MayGoDirect(r) => (x7[r].kind = "address" => x7[r].verify = TRUE)
  BY <1>2 DEF Pos!MayGoDirect
<1> QED
  BY <1>1, <1>3 DEF SoundCharge, ChargeType

\* The hook of an offer: its requests and what comes of them.
LEMMA HookStep ==
  ASSUME CheckoutConstants, CheckoutInv, NEW h \in HookReads,
         Pos!ShowHook(h) \/ Pos!RotateHook(h) \/ Pos!WriteHook(h)
  PROVE  CheckoutInv' /\ Pos!UrlStays
<1> DEFINE ReqType == [at: {"idle", "write"}, id: 0..MaxHooks, rotate: BOOLEAN]
<1>1. /\ x1 \in ConnType /\ x1.hook \in Pos!Hooks /\ x1.hook.id \in 0..MaxHooks
      /\ x5 \in [HookReads -> ReqType] /\ x4 \in Nat
  BY DEF CheckoutInv, ConnType, Pos!Hooks
<1>2. ASSUME NEW rotate \in BOOLEAN, Pos!ReadsHook(h, rotate)
      PROVE  /\ x5' \in [HookReads -> ReqType]
             /\ \A g \in HookReads : x5'[g].at = "write" =>
                  x5'[g].id = x1.hook.id \/ (x5[g].at = "write" /\ x5'[g].id = x5[g].id)
  <2>1. [at |-> "write", id |-> x1.hook.id, rotate |-> rotate] \in ReqType
    BY <1>1
  <2> QED
    BY <1>1, <1>2, <2>1 DEF Pos!ReadsHook
<1>3. CASE Pos!ShowHook(h)
  <2>1. UNCHANGED <<x1, x2, x4, x6, x7, x8>> /\ x3' \subseteq Pos!Hooks
    BY <1>1, <1>3 DEF Pos!ShowHook, CheckoutInv
  <2>2. x5' = x5 \/ Pos!ReadsHook(h, FALSE)
    BY <1>3 DEF Pos!ShowHook
  <2>3. CheckoutInv'
    BY <1>1, <1>2, <2>1, <2>2 DEF CheckoutInv
  <2> QED
    BY <1>2, <2>1, <2>2, <2>3 DEF Pos!UrlStays, Pos!UrlSettled
<1>4. CASE Pos!RotateHook(h)
  <2>1. UNCHANGED <<x1, x2, x3, x4, x6, x7, x8>> /\ Pos!ReadsHook(h, TRUE)
    BY <1>4 DEF Pos!RotateHook
  <2>2. CheckoutInv'
    BY <1>2, <2>1 DEF CheckoutInv
  <2> QED
    BY <1>2, <2>1, <2>2 DEF Pos!UrlStays, Pos!UrlSettled
<1>5. CASE Pos!WriteHook(h)
  <2> DEFINE hook == Pos!HookAfter(x5[h].id, x4 + 1)
  <2>1. /\ x1' = [x1 EXCEPT !.hook = hook] /\ x3' = x3 \union {hook} /\ x4' = x4 + 1
        /\ x5' = [x5 EXCEPT ![h] = Pos!NoReq] /\ UNCHANGED <<x2, x6, x7, x8>>
        /\ x4 < MaxHooks /\ x5[h].at = "write"
    BY <1>5 DEF Pos!WriteHook
  <2>2. x5[h].id \in 0..MaxHooks /\ x4 + 1 \in 0..MaxHooks
    BY <1>1, <2>1 DEF CheckoutConstants
  <2>3. hook \in Pos!Hooks /\ (x5[h].id # 0 => hook.id = x5[h].id)
    BY <2>2 DEF Pos!HookAfter, Pos!Hooks
  <2>4. Pos!NoReq \in ReqType /\ Pos!NoReq.at = "idle"
    BY DEF Pos!NoReq, CheckoutConstants
  <2> HIDE DEF hook
  <2>5. x1' \in ConnType /\ x1'.verify = x1.verify /\ x1'.hook = hook
    BY <1>1, <2>1, <2>3 DEF ConnType
  <2>6. CheckoutInv'
    BY <1>1, <2>1, <2>2, <2>3, <2>4, <2>5 DEF CheckoutInv
  <2>7. ASSUME Pos!UrlSettled PROVE x1'.hook.id = x1.hook.id /\ Pos!UrlSettled'
    <3>1. x1'.hook.id = x1.hook.id
      BY <2>1, <2>3, <2>5, <2>7 DEF Pos!UrlSettled
    <3>2. \A g \in HookReads : x5'[g].at = "write" => x5[g].at = "write" /\ x5'[g].id = x5[g].id
      BY <1>1, <2>1, <2>4
    <3> QED
      BY <2>7, <3>1, <3>2 DEF Pos!UrlSettled
  <2> QED
    BY <2>6, <2>7 DEF Pos!UrlStays
<1> QED
  BY <1>3, <1>4, <1>5

\* A step of a request leaves the hook alone.
LEMMA SaleStep ==
  ASSUME CheckoutConstants, CheckoutInv, NEW r \in SaleRequests,
         \/ Pos!Resolve(r) \/ Pos!NotWrapped(r) \/ Pos!Adopt(r) \/ Pos!MintFails(r)
         \/ Pos!MintNwc(r) \/ Pos!MintBlink(r) \/ Pos!MintLnurl(r) \/ Pos!MintOffer(r)
         \/ Pos!Hold(r) \/ Pos!HoldFails(r) \/ Pos!Store(r)
  PROVE  CheckoutInv'
<1> USE DEF Pos!hookVars
<1>0. /\ x1 \in ConnType /\ x6 \in WorldType
      /\ SoundCharge(x7[r], x1.verify = TRUE, x6.verifies = FALSE)
  BY DEF CheckoutInv
<1>1. CASE Pos!Resolve(r)
  <2>1. UNCHANGED <<x1, x2, x3, x4, x5, x6, x8>>
    BY <1>1 DEF Pos!Resolve
  <2>2. CASE Pos!Refuse(r)
    BY <1>0, <2>1, <2>2, SaleGoes, SaleMoves DEF Pos!Refuse
  <2>3. CASE \E k \in Pos!Kinds, hooked \in BOOLEAN :
               Pos!Put(r, [Pos!Idle EXCEPT !.at = "mint", !.kind = k, !.verify = x1.verify,
                                           !.hooked = hooked,
                                           !.pointer = x1.pointer, !.asked = x1.pointer])
    <3>1. PICK k \in Pos!Kinds, hooked \in BOOLEAN :
            Pos!Put(r, [Pos!Idle EXCEPT !.at = "mint", !.kind = k, !.verify = x1.verify,
                                        !.hooked = hooked,
                                        !.pointer = x1.pointer, !.asked = x1.pointer])
      BY <2>3
    <3> DEFINE to == [Pos!Idle EXCEPT !.at = "mint", !.kind = k, !.verify = x1.verify,
                                      !.hooked = hooked,
                                      !.pointer = x1.pointer, !.asked = x1.pointer]
    <3>2. x1.verify \in BOOLEAN /\ x1.pointer \in 0..MaxMoves
      BY <1>0 DEF ConnType
    <3>3. Pos!Idle \in ChargeType /\ Pos!Idle.path = "wrap"
      BY DEF Pos!Idle, ChargeType, Pos!Kinds, Pos!Watches, CheckoutConstants
    <3>4. to \in ChargeType /\ to.at = "mint" /\ to.path = "wrap" /\ to.verify = x1.verify
      BY <3>2, <3>3 DEF ChargeType
    <3>5. Pos!Put(r, to)
      BY <3>1
    <3> HIDE DEF to
    <3>6. SoundCharge(to, x1.verify = TRUE, x6.verifies = FALSE)
      BY <3>4 DEF SoundCharge
    <3> QED
      BY <1>0, <2>1, <3>5, <3>6, SaleMoves
  <2>4. (x1.hook.secret # 0) \in BOOLEAN
    OBVIOUS
  <2> QED
    BY <1>1, <2>2, <2>3, <2>4 DEF Pos!Resolve
<1>2. ASSUME Pos!GoDirect(r), UNCHANGED <<x1, x2, x3, x4, x5, x6, x8>> PROVE CheckoutInv'
  <2>1. CASE Pos!MayGoDirect(r)
    BY <1>0, <1>2, <2>1, SaleGoes, SaleMoves DEF Pos!GoDirect
  <2>2. CASE ~Pos!MayGoDirect(r)
    BY <1>0, <1>2, <2>2, SaleGoes, SaleMoves DEF Pos!GoDirect, Pos!Refuse
  <2> QED
    BY <2>1, <2>2
<1>3. CASE Pos!NotWrapped(r) \/ Pos!HoldFails(r)
  BY <1>2, <1>3 DEF Pos!NotWrapped, Pos!HoldFails
<1>4. CASE Pos!MintFails(r)
  BY <1>0, <1>2, <1>4, SaleGoes, SaleMoves DEF Pos!MintFails, Pos!Refuse
<1>5. CASE Pos!Adopt(r)
  <2>1. /\ UNCHANGED <<x2, x3, x4, x5, x6, x8>> /\ x6.pointer \in 0..MaxMoves
        /\ Pos!Put(r, [x7[r] EXCEPT !.at = "again", !.asked = x6.pointer])
        /\ x1' = [x1 EXCEPT !.pointer = x6.pointer] \/ x1' = x1
    BY <1>0, <1>5 DEF Pos!Adopt, Pos!SavePointer, WorldType
  <2>2. SoundCharge([x7[r] EXCEPT !.at = "again", !.asked = x6.pointer],
                     x1.verify = TRUE, x6.verifies = FALSE)
    BY <1>0, <2>1 DEF SoundCharge, ChargeType
  <2>3. x1' \in ConnType /\ x1'.verify = x1.verify /\ x1'.hook = x1.hook
    BY <1>0, <2>1 DEF ConnType
  <2> QED
    BY <2>1, <2>2, <2>3, SaleMoves
<1>6. ASSUME NEW watch \in Pos!Watches, Pos!Minted(r, watch),
             watch = "nothing" => x7[r].kind = "address" /\ x6.verifies = FALSE
      PROVE  CheckoutInv'
  <2> DEFINE to == [x7[r] EXCEPT !.at = IF x7[r].path = "wrap" THEN "hold" ELSE "store",
                                 !.watch = watch]
  <2>1. Pos!Put(r, to) /\ UNCHANGED <<x1, x2, x3, x4, x5, x6, x8>>
    BY <1>6 DEF Pos!Minted
  <2>2. /\ to \in ChargeType /\ to.verify = x7[r].verify /\ to.path = x7[r].path /\ to.kind = x7[r].kind
        /\ to.watch = watch /\ (to.at = "store" => x7[r].path = "direct")
    BY <1>0 DEF SoundCharge, ChargeType
  <2> HIDE DEF to
  <2>3. SoundCharge(to, x1.verify = TRUE, x6.verifies = FALSE)
    BY <1>0, <1>6, <2>2 DEF SoundCharge
  <2> QED
    BY <1>0, <2>1, <2>3, SaleMoves
<1>7. CASE Pos!MintNwc(r) \/ Pos!MintBlink(r) \/ Pos!MintOffer(r)
  BY <1>6, <1>7 DEF Pos!MintNwc, Pos!MintBlink, Pos!MintOffer, Pos!Watches
<1>8. CASE Pos!MintLnurl(r)
  <2>1. x6.verifies \in BOOLEAN
    BY <1>0 DEF WorldType
  <2> QED
    BY <1>6, <1>8, <2>1 DEF Pos!MintLnurl, Pos!Watches
<1>9. CASE Pos!Hold(r)
  <2>1. SoundCharge([x7[r] EXCEPT !.at = "store", !.watch = "driver"],
                     x1.verify = TRUE, x6.verifies = FALSE)
    BY <1>0 DEF SoundCharge, ChargeType, Pos!Watches
  <2> QED
    BY <1>0, <1>9, <2>1, SaleMoves DEF Pos!Hold
<1>10. CASE Pos!Store(r)
  BY <1>0, <1>10, SaleGoes, SaleMoves DEF Pos!Store, Pos!Refuse
<1> QED
  BY <1>1, <1>3, <1>4, <1>5, <1>6, <1>7, <1>8, <1>9, <1>10

LEMMA SaleLeavesHook ==
  ASSUME CheckoutInv, NEW r \in SaleRequests,
         \/ Pos!Resolve(r) \/ Pos!NotWrapped(r) \/ Pos!Adopt(r) \/ Pos!MintFails(r)
         \/ Pos!MintNwc(r) \/ Pos!MintBlink(r) \/ Pos!MintLnurl(r) \/ Pos!MintOffer(r)
         \/ Pos!Hold(r) \/ Pos!HoldFails(r) \/ Pos!Store(r)
  PROVE  x5' = x5 /\ x1'.hook = x1.hook
<1> USE DEF Pos!hookVars
<1>1. CASE Pos!Resolve(r) \/ Pos!NotWrapped(r) \/ Pos!MintFails(r) \/ Pos!MintNwc(r) \/ Pos!MintBlink(r)
  BY <1>1 DEF Pos!Resolve, Pos!NotWrapped, Pos!MintFails, Pos!MintNwc, Pos!MintBlink, Pos!Minted
<1>2. CASE Pos!MintLnurl(r) \/ Pos!MintOffer(r) \/ Pos!Hold(r) \/ Pos!HoldFails(r) \/ Pos!Store(r)
  BY <1>2 DEF Pos!MintLnurl, Pos!MintOffer, Pos!Hold, Pos!HoldFails, Pos!Store, Pos!Minted
<1>3. CASE Pos!Adopt(r)
  <2>1. x5' = x5 /\ (x1' = [x1 EXCEPT !.pointer = x6.pointer] \/ x1' = x1)
    BY <1>3 DEF Pos!Adopt, Pos!SavePointer
  <2> QED
    BY <2>1 DEF CheckoutInv, ConnType
<1> QED
  BY <1>1, <1>2, <1>3

LEMMA CheckoutStep ==
  ASSUME CheckoutConstants, CheckoutInv, [Pos!Next]_Pos!vars
  PROVE  CheckoutInv' /\ Pos!UrlStays
<1>1. ASSUME NEW h \in HookReads, Pos!ShowHook(h) \/ Pos!RotateHook(h) \/ Pos!WriteHook(h)
      PROVE  CheckoutInv' /\ Pos!UrlStays
  BY <1>1, HookStep
<1>2. CASE Pos!Paste
  BY <1>2 DEF Pos!Paste, CheckoutInv, Pos!UrlStays, Pos!UrlSettled
<1>3. CASE Pos!DropVerify \/ Pos!MoveOffer
  <2>1. UNCHANGED <<x1, x2, x3, x4, x5, x7, x8>> /\ x6 \in WorldType
    BY <1>3 DEF Pos!DropVerify, Pos!MoveOffer, Pos!hookVars, CheckoutInv
  <2>2. x6' \in WorldType /\ x6'.verifies \in {x6.verifies, FALSE}
    <3>1. CASE Pos!DropVerify
      BY <2>1, <3>1 DEF Pos!DropVerify, WorldType
    <3>2. CASE Pos!MoveOffer
      <4>1. x6.pointer + 1 \in 0..MaxMoves /\ x6' = [x6 EXCEPT !.pointer = x6.pointer + 1]
        BY <2>1, <3>2 DEF Pos!MoveOffer, WorldType, CheckoutConstants
      <4> QED
        BY <2>1, <4>1 DEF WorldType
    <3> QED
      BY <1>3, <3>1, <3>2
  <2>3. \A r \in SaleRequests : SoundCharge(x7[r], x1.verify = TRUE, x6'.verifies = FALSE)
    BY <2>2 DEF CheckoutInv, SoundCharge
  <2>4. CheckoutInv'
    BY <2>1, <2>2, <2>3 DEF CheckoutInv
  <2> QED
    BY <2>1, <2>4 DEF Pos!UrlStays, Pos!UrlSettled
<1>4. ASSUME NEW r \in SaleRequests,
             \/ Pos!Resolve(r) \/ Pos!NotWrapped(r) \/ Pos!Adopt(r) \/ Pos!MintFails(r)
             \/ Pos!MintNwc(r) \/ Pos!MintBlink(r) \/ Pos!MintLnurl(r) \/ Pos!MintOffer(r)
             \/ Pos!Hold(r) \/ Pos!HoldFails(r) \/ Pos!Store(r)
      PROVE  CheckoutInv' /\ Pos!UrlStays
  <2>1. CheckoutInv' /\ x5' = x5 /\ x1'.hook = x1.hook
    BY <1>4, SaleStep, SaleLeavesHook
  <2> QED
    BY <2>1 DEF Pos!UrlStays, Pos!UrlSettled
<1>5. CASE UNCHANGED Pos!vars
  BY <1>5 DEF Pos!vars, CheckoutInv, Pos!UrlStays, Pos!UrlSettled
<1> QED
  BY <1>1, <1>2, <1>3, <1>4, <1>5 DEF Pos!Next

LEMMA CheckoutProperties == CheckoutInv => Pos!TypeOK /\ Pos!SoldBlindOnlyIfDropped
<1>1. CheckoutInv => Pos!TypeOK
  BY DEF CheckoutInv, SoundCharge, ChargeType, ConnType, WorldType, Pos!TypeOK
<1>2. CheckoutInv => Pos!SoldBlindOnlyIfDropped
  BY DEF CheckoutInv, Pos!SoldBlindOnlyIfDropped
<1> QED
  BY <1>1, <1>2

-----------------------------------------------------------------------------
(* Prices *)

PriceConstants == Dollar \in Currencies

AnyQuote == Rates!Quotes \union {Rates!None}
CacheType == [Rates!Sources \X Currencies -> [quote: AnyQuote, fresh: BOOLEAN]]
QuoteCall == [at: {"idle", "binance", "fx", "base", "plain", "returned"}, currency: Currencies,
             source: Rates!Sources, spot: AnyQuote, fx: AnyQuote, got: AnyQuote]

\* An entry is of its own currency, and CoinGecko's are never made of an old one.
TrueCache(cache) ==
  /\ cache \in CacheType
  /\ \A cur \in Currencies :
       /\ \A s \in Rates!Sources :
            cache[<<s, cur>>].quote = Rates!None \/ cache[<<s, cur>>].quote.of = cur
       /\ ~cache[<<"coingecko", cur>>].quote.old

\* What a call holds or returns is of its currency, only a call of Binance asks for a
\* ratio, and CoinGecko's are old only if it failed in the calls of `failed`.
TrueCall(to, failed) ==
  /\ to \in QuoteCall
  /\ to.at = "base" => to.fx = Rates!None \/ to.fx.of = to.currency
  /\ to.at \in {"binance", "fx", "base"} => to.source = "binance"
  /\ to.at = "returned" =>
       /\ to.got = Rates!None \/ to.got.of = to.currency
       /\ to.source = "coingecko" /\ to.got.old => failed

PriceInv ==
  /\ TrueCache(x1)
  /\ DOMAIN x2 = PriceCalls /\ x2 = [c \in PriceCalls |-> x2[c]]
  /\ \A c \in PriceCalls : TrueCall(x2[c], c \in x3)
  /\ x3 \subseteq PriceCalls

LEMMA PriceInit == PriceConstants /\ Rates!Init => PriceInv
  BY DEF PriceConstants, Rates!Init, PriceInv, TrueCache, TrueCall, CacheType, QuoteCall, AnyQuote,
         Rates!Idle, Rates!Empty, Rates!None, Rates!Sources, Rates!Quotes

\* A quote, however old, is of the currency asked for; a fresh one of CoinGecko's is not old.
LEMMA HeldQuote ==
  ASSUME PriceInv, NEW s \in Rates!Sources, NEW cur \in Currencies
  PROVE  /\ Rates!Held(<<s, cur>>) \in AnyQuote
         /\ Rates!Held(<<s, cur>>) = Rates!None \/ Rates!Held(<<s, cur>>).of = cur
         /\ s = "coingecko" /\ Rates!Fresh(<<s, cur>>) => ~Rates!Held(<<s, cur>>).old
<1> DEFINE k == <<s, cur>>
<1>1. x1[k].quote \in AnyQuote /\ x1[k].fresh \in BOOLEAN
  BY DEF PriceInv, TrueCache, CacheType
<1>2. (x1[k].quote = Rates!None \/ x1[k].quote.of = cur) /\ (s = "coingecko" => ~x1[k].quote.old)
  BY DEF PriceInv, TrueCache
<1> HIDE DEF k
<1> QED
  BY <1>1, <1>2 DEF k, Rates!Held, Rates!Had, Rates!Fresh, AnyQuote, Rates!Quotes, Rates!None

LEMMA NewQuote ==
  ASSUME NEW cur \in Currencies
  PROVE  Rates!New(cur) \in Rates!Quotes /\ Rates!New(cur).of = cur /\ ~Rates!New(cur).old
  BY DEF Rates!New, Rates!Quotes

\* Call c moves on, noting a failure or not, and leaves the others alone.
LEMMA QuoteMoves ==
  ASSUME PriceInv, NEW c \in PriceCalls, NEW to, x2' = [x2 EXCEPT ![c] = to],
         x3' \in SUBSET PriceCalls, \A d \in PriceCalls : d # c /\ d \in x3 => d \in x3',
         TrueCache(x1)', TrueCall(to, c \in x3')
  PROVE  PriceInv'
<1>1. x2'[c] = to /\ \A d \in PriceCalls : d # c => x2'[d] = x2[d]
  BY DEF PriceInv
<1>2. \A d \in PriceCalls : TrueCall(x2'[d], d \in x3')
  BY <1>1 DEF PriceInv, TrueCall
<1>3. DOMAIN x2' = PriceCalls /\ x2' = [d \in PriceCalls |-> x2'[d]]
  BY DEF PriceInv
<1> QED
  BY <1>2, <1>3 DEF PriceInv

\* An entry of a quote of its own currency, of CoinGecko's one that is new.
LEMMA CacheKeeps ==
  ASSUME NEW cache, TrueCache(cache), NEW s \in Rates!Sources, NEW cur \in Currencies,
         NEW q \in Rates!Quotes, q.of = cur, s = "coingecko" => ~q.old
  PROVE  TrueCache([cache EXCEPT ![<<s, cur>>] = Rates!Entry(q)])
<1>1. Rates!Entry(q) \in [quote: AnyQuote, fresh: BOOLEAN] /\ Rates!Entry(q).quote = q
  BY DEF Rates!Entry, AnyQuote
<1> QED
  BY <1>1 DEF TrueCache, CacheType, Rates!Sources

\* What CoinGecko's part of a call gives.
LEMMA AskedQuote ==
  ASSUME PriceInv, NEW cur \in Currencies, NEW r \in Rates!CoinGecko(cur) \union Rates!Asked(cur)
  PROVE  /\ r.q \in AnyQuote /\ (r.q = Rates!None \/ r.q.of = cur)
         /\ r.failed \in BOOLEAN /\ (r.q.old => r.failed)
         /\ TrueCache(r.cache)
<1>1. CASE r = [q |-> Rates!New(cur),
                cache |-> [x1 EXCEPT ![<<"coingecko", cur>>] = Rates!Entry(Rates!New(cur))],
                failed |-> FALSE]
  BY <1>1, NewQuote, CacheKeeps DEF PriceInv, AnyQuote, Rates!Sources
<1>2. CASE r = [q |-> Rates!Held(<<"coingecko", cur>>), cache |-> x1, failed |-> TRUE]
  BY <1>2, HeldQuote DEF PriceInv, AnyQuote, Rates!Quotes, Rates!None, Rates!Sources
<1>3. CASE /\ r = [q |-> Rates!Held(<<"coingecko", cur>>), cache |-> x1, failed |-> FALSE]
           /\ Rates!Fresh(<<"coingecko", cur>>)
  BY <1>3, HeldQuote DEF PriceInv, Rates!Sources
<1> QED
  BY <1>1, <1>2, <1>3 DEF Rates!CoinGecko, Rates!Asked

LEMMA PriceStep ==
  ASSUME PriceConstants, PriceInv, [Rates!Next]_Rates!vars
  PROVE  PriceInv'
<1> USE DEF PriceConstants
<1>0. TrueCache(x1) /\ x3 \subseteq PriceCalls
      /\ \A c \in PriceCalls : TrueCall(x2[c], c \in x3) /\ x2[c] \in QuoteCall
  BY DEF PriceInv, TrueCall
<1>1. ASSUME NEW c \in PriceCalls, Rates!Ask(c) PROVE PriceInv'
  <2>1. PICK cur \in Currencies, s \in Rates!Sources :
          x2' = [x2 EXCEPT ![c] =
            IF Rates!Fresh(<<s, cur>>)
            THEN [Rates!Idle EXCEPT !.at = "returned", !.currency = cur, !.source = s,
                              !.got = Rates!Held(<<s, cur>>)]
            ELSE [Rates!Idle EXCEPT !.at = IF s = "binance" THEN "binance" ELSE "plain",
                              !.currency = cur, !.source = s]]
    BY <1>1 DEF Rates!Ask
  <2>2. x3' = x3 \ {c} /\ x1' = x1
    BY <1>1 DEF Rates!Ask
  <2>3. Rates!Idle \in QuoteCall
    BY DEF Rates!Idle, QuoteCall, Rates!Sources, AnyQuote
  <2>4. CASE Rates!Fresh(<<s, cur>>)
    <3>1. TrueCall([Rates!Idle EXCEPT !.at = "returned", !.currency = cur, !.source = s,
                                      !.got = Rates!Held(<<s, cur>>)], c \in x3')
      BY <2>3, <2>4, HeldQuote DEF TrueCall, QuoteCall
    <3> QED
      BY <1>0, <2>1, <2>2, <2>4, <3>1, QuoteMoves
  <2>5. CASE ~Rates!Fresh(<<s, cur>>)
    <3>1. TrueCall([Rates!Idle EXCEPT !.at = IF s = "binance" THEN "binance" ELSE "plain",
                                      !.currency = cur, !.source = s], c \in x3')
      BY <2>3 DEF TrueCall, QuoteCall
    <3> QED
      BY <1>0, <2>1, <2>2, <2>5, <3>1, QuoteMoves
  <2> QED
    BY <2>4, <2>5
<1>2. ASSUME NEW c \in PriceCalls, Rates!BinanceAnswers(c) PROVE PriceInv'
  <2>1. x3' = x3 /\ x2[c].at = "binance" /\ x2[c].source = "binance"
    BY <1>0, <1>2 DEF Rates!BinanceAnswers, TrueCall
  <2>2. Rates!New(Dollar) \in Rates!Quotes /\ Rates!New(Dollar) \in AnyQuote
        /\ Rates!New(Dollar).of = Dollar
    BY NewQuote DEF AnyQuote
  <2>3. CASE x2[c].currency = Dollar
    <3>1. x2' = [x2 EXCEPT ![c] = [x2[c] EXCEPT !.at = "returned", !.got = Rates!New(Dollar)]]
      BY <1>2, <2>3 DEF Rates!BinanceAnswers, Rates!Return, PriceInv
    <3>2. TrueCall([x2[c] EXCEPT !.at = "returned", !.got = Rates!New(Dollar)], c \in x3')
      BY <1>0, <2>1, <2>2, <2>3 DEF TrueCall, QuoteCall
    <3>3. TrueCache(x1)'
      BY <1>0, <1>2, <2>2, <2>3, CacheKeeps DEF Rates!BinanceAnswers, Rates!Sources
    <3> QED
      BY <1>0, <2>1, <3>1, <3>2, <3>3, QuoteMoves
  <2>4. CASE x2[c].currency # Dollar
    <3>1. x1' = x1 /\ x2' = [x2 EXCEPT ![c] = [x2[c] EXCEPT !.at = "fx", !.spot = Rates!New(Dollar)]]
      BY <1>2, <2>4 DEF Rates!BinanceAnswers, PriceInv
    <3>2. TrueCall([x2[c] EXCEPT !.at = "fx", !.spot = Rates!New(Dollar)], c \in x3')
      BY <1>0, <2>1, <2>2 DEF TrueCall, QuoteCall
    <3> QED
      BY <1>0, <2>1, <3>1, <3>2, QuoteMoves
  <2> QED
    BY <2>3, <2>4
<1>3. ASSUME NEW c \in PriceCalls, Rates!BinanceFails(c) PROVE PriceInv'
  <2> DEFINE k == <<"coingecko", x2[c].currency>>
  <2>1. /\ x3' = x3 \union {c} /\ x1' = x1 /\ x2[c].currency \in Currencies
        /\ x2[c].at = "binance" /\ x2[c].source = "binance" /\ "coingecko" \in Rates!Sources
    BY <1>0, <1>3 DEF Rates!BinanceFails, TrueCall, QuoteCall, Rates!Sources
  <2>2. CASE Rates!Fresh(k)
    <3>1. x2' = [x2 EXCEPT ![c] = [x2[c] EXCEPT !.at = "returned", !.got = Rates!Held(k)]]
      BY <1>3, <2>2 DEF Rates!BinanceFails, Rates!Return, PriceInv
    <3>2. TrueCall([x2[c] EXCEPT !.at = "returned", !.got = Rates!Held(k)], c \in x3')
      BY <1>0, <2>1, HeldQuote DEF TrueCall, QuoteCall
    <3> QED
      BY <1>0, <2>1, <3>1, <3>2, QuoteMoves
  <2>3. CASE ~Rates!Fresh(k)
    <3>1. x2' = [x2 EXCEPT ![c] = [x2[c] EXCEPT !.at = "plain"]]
      BY <1>3, <2>3 DEF Rates!BinanceFails, PriceInv
    <3>2. TrueCall([x2[c] EXCEPT !.at = "plain"], c \in x3')
      BY <1>0 DEF TrueCall, QuoteCall
    <3> QED
      BY <1>0, <2>1, <3>1, <3>2, QuoteMoves
  <2> QED
    BY <2>2, <2>3
<1>4. ASSUME NEW c \in PriceCalls, Rates!Plain(c) PROVE PriceInv'
  <2>1. PICK r \in Rates!Asked(x2[c].currency) :
          Rates!Return(c, r.q) /\ x1' = r.cache /\ Rates!Notes(c, r)
    BY <1>4 DEF Rates!Plain
  <2>2. x2[c].currency \in Currencies
    BY <1>0 DEF QuoteCall
  <2>3. /\ r.q \in AnyQuote /\ (r.q = Rates!None \/ r.q.of = x2[c].currency)
        /\ (r.q.old => r.failed) /\ TrueCache(r.cache)
    BY <2>2, AskedQuote
  <2>4. x2' = [x2 EXCEPT ![c] = [x2[c] EXCEPT !.at = "returned", !.got = r.q]]
    BY <2>1 DEF Rates!Return, PriceInv
  <2>5. x3' \in SUBSET PriceCalls /\ x3 \subseteq x3' /\ (r.failed => c \in x3')
    BY <1>0, <2>1 DEF Rates!Notes
  <2>6. TrueCall([x2[c] EXCEPT !.at = "returned", !.got = r.q], c \in x3')
    BY <1>0, <2>3, <2>5 DEF TrueCall, QuoteCall
  <2> QED
    BY <2>1, <2>3, <2>4, <2>5, <2>6, QuoteMoves
<1>5. ASSUME NEW c \in PriceCalls, Rates!Fx(c) PROVE PriceInv'
  <2>1. PICK r \in Rates!CoinGecko(x2[c].currency) :
          /\ x2' = [x2 EXCEPT ![c].at = "base", ![c].fx = r.q]
          /\ x1' = r.cache /\ Rates!Notes(c, r)
    BY <1>5 DEF Rates!Fx
  <2>2. x2[c].currency \in Currencies /\ x2[c].at = "fx"
    BY <1>0, <1>5 DEF QuoteCall, Rates!Fx
  <2>3. /\ r.q \in AnyQuote /\ (r.q = Rates!None \/ r.q.of = x2[c].currency)
        /\ TrueCache(r.cache)
    BY <2>2, AskedQuote
  <2>4. x2' = [x2 EXCEPT ![c] = [x2[c] EXCEPT !.at = "base", !.fx = r.q]]
    BY <2>1 DEF PriceInv
  <2>5. x3' \in SUBSET PriceCalls /\ x3 \subseteq x3'
    BY <1>0, <2>1 DEF Rates!Notes
  <2>6. TrueCall([x2[c] EXCEPT !.at = "base", !.fx = r.q], c \in x3')
    BY <1>0, <2>2, <2>3 DEF TrueCall, QuoteCall
  <2> QED
    BY <2>1, <2>3, <2>4, <2>5, <2>6, QuoteMoves
<1>6. ASSUME NEW c \in PriceCalls, Rates!Base(c) PROVE PriceInv'
  <2> DEFINE P(r) == Rates!Converted(x2[c].spot, x2[c].fx, r.q)
  <2>1. PICK r \in Rates!CoinGecko(Dollar) :
          /\ Rates!Return(c, P(r)) /\ Rates!Notes(c, r)
          /\ x1' = IF P(r) = Rates!None THEN r.cache
                   ELSE [r.cache EXCEPT ![<<"binance", x2[c].currency>>] = Rates!Entry(P(r))]
    BY <1>6 DEF Rates!Base
  <2> DEFINE p == P(r)
  <2>2. /\ x2[c].currency \in Currencies /\ x2[c].at = "base" /\ x2[c].source = "binance"
        /\ x2[c].fx \in AnyQuote /\ (x2[c].fx = Rates!None \/ x2[c].fx.of = x2[c].currency)
    BY <1>0, <1>6 DEF TrueCall, QuoteCall, Rates!Base
  <2>3. r.q \in AnyQuote /\ TrueCache(r.cache)
    BY AskedQuote
  <2>4. p \in AnyQuote /\ (p = Rates!None \/ (p \in Rates!Quotes /\ p.of = x2[c].currency))
    <3>1. CASE Rates!None \in {x2[c].fx, r.q}
      <4>1. ~(Rates!None \notin {x2[c].fx, r.q})
        BY <3>1
      <4>2. p = Rates!None
        BY <4>1 DEF Rates!Converted
      <4> HIDE DEF p, P
      <4> QED
        BY <4>2 DEF AnyQuote
    <3>2. CASE Rates!None \notin {x2[c].fx, r.q}
      <4>1. x2[c].fx \in Rates!Quotes /\ r.q \in Rates!Quotes
        BY <2>2, <2>3, <3>2 DEF AnyQuote
      <4>2. p = [of |-> x2[c].fx.of, old |-> x2[c].fx.old \/ r.q.old]
        BY <3>2 DEF Rates!Converted
      <4>3. (x2[c].fx.old \/ r.q.old) \in BOOLEAN
        OBVIOUS
      <4>4. x2[c].fx.of = x2[c].currency
        BY <2>2, <3>2
      <4>5. p \in Rates!Quotes /\ p.of = x2[c].currency
        BY <2>2, <4>2, <4>3, <4>4 DEF Rates!Quotes
      <4> QED
        BY <4>5 DEF AnyQuote
    <3> QED
      BY <3>1, <3>2
  <2> HIDE DEF p, P
  <2>5. x2' = [x2 EXCEPT ![c] = [x2[c] EXCEPT !.at = "returned", !.got = p]]
    BY <2>1 DEF Rates!Return, PriceInv, p
  <2>6. x3' \in SUBSET PriceCalls /\ x3 \subseteq x3'
    BY <1>0, <2>1 DEF Rates!Notes
  <2>7. TrueCall([x2[c] EXCEPT !.at = "returned", !.got = p], c \in x3')
    BY <1>0, <2>2, <2>4 DEF TrueCall, QuoteCall
  <2>8. TrueCache(x1)'
    BY <2>1, <2>2, <2>3, <2>4, CacheKeeps DEF Rates!Sources, p
  <2> QED
    BY <2>5, <2>6, <2>7, <2>8, QuoteMoves
<1>7. ASSUME NEW k \in Rates!Sources \X Currencies, Rates!Ages(k) PROVE PriceInv'
  <2>1. x1' \in CacheType /\ \A j \in Rates!Sources \X Currencies : x1'[j].quote = x1[j].quote
    BY <1>0, <1>7 DEF Rates!Ages, TrueCache, CacheType
  <2>2. TrueCache(x1)'
    BY <1>0, <2>1 DEF TrueCache, Rates!Sources
  <2> QED
    BY <1>7, <2>2 DEF Rates!Ages, PriceInv
<1>8. CASE UNCHANGED Rates!vars
  BY <1>8 DEF Rates!vars, PriceInv
<1> QED
  BY <1>1, <1>2, <1>3, <1>4, <1>5, <1>6, <1>7, <1>8 DEF Rates!Next

LEMMA PriceProperties ==
  PriceInv => Rates!TypeOK /\ Rates!QuoteIsItsCurrency /\ Rates!OldQuoteNeedsOutage
<1>1. PriceInv => Rates!TypeOK
  BY DEF PriceInv, TrueCache, TrueCall, CacheType, QuoteCall, AnyQuote, Rates!TypeOK
<1>2. PriceInv => Rates!QuoteIsItsCurrency /\ Rates!OldQuoteNeedsOutage
  BY DEF PriceInv, TrueCall, Rates!QuoteIsItsCurrency, Rates!OldQuoteNeedsOutage
<1> QED
  BY <1>1, <1>2

-----------------------------------------------------------------------------
(* Accounts *)

\* The account of an entity that registered here, or has no password, never has a hash of
\* an older format, so no login of it rewrites one.
LoginInv ==
  /\ Login!TypeOK /\ Login!ChangedPasswordStays
  /\ ~x1.there => x4 = "none" /\ ~x2 /\ ~x5
  /\ x4 = "none" => ~x1.there /\ x1.hash = Login!NoHash
  /\ x4 # "legacy" => /\ x1.hash.format # "legacy"
                      /\ \A l \in Logins : x6[l] = "none"
  /\ \A c \in Changes : x7[c] # "none" => x1.there

LEMMA LoginInit == Login!Init => LoginInv
<1>1. ASSUME Login!Init PROVE Login!TypeOK
  <2>1. x1 \in [there: BOOLEAN, hash: Login!Hashes]
    <3>1. CASE x1 = Login!Absent
      BY <3>1 DEF Login!Absent, Login!Hashes
    <3>2. CASE x3 \in Passwords /\ x1 = [there |-> TRUE, hash |-> [format |-> "legacy", of |-> x3]]
      <4>1. [format |-> "legacy", of |-> x3] \in Login!Hashes
        BY <3>2 DEF Login!Hashes
      <4> QED
        BY <3>2, <4>1
    <3>3. CASE x1 = [there |-> TRUE, hash |-> Login!NoHash]
      BY <3>3 DEF Login!Hashes
    <3> QED
      BY <1>1, <3>1, <3>2, <3>3 DEF Login!Init
  <2>2. x2 \in BOOLEAN /\ x5 \in BOOLEAN
    BY <1>1 DEF Login!Init
  <2> QED
    BY <1>1, <2>1, <2>2 DEF Login!Init, Login!TypeOK
<1>2. Login!Init /\ Login!TypeOK => LoginInv
  BY DEF Login!Init, LoginInv, Login!Absent, Login!NoHash, Login!ChangedPasswordStays
<1> QED
  BY <1>1, <1>2

LEMMA LoginStep ==
  ASSUME LoginInv, [Login!Next]_Login!vars
  PROVE  LoginInv'
<1> USE DEF LoginInv, Login!ChangedPasswordStays
<1>0. /\ Login!TypeOK
      /\ \A p \in Passwords : Login!Native(p) \in Login!Hashes /\ Login!Native(p).of = p
                              /\ Login!Native(p).format = "native"
  BY DEF Login!Native, Login!Hashes
<1>1. CASE Login!InsertEntity
  <2>1. PICK p \in Passwords : x1' = [there |-> TRUE, hash |-> Login!Native(p)] /\ x3' = p
    BY <1>1 DEF Login!InsertEntity
  <2>2. ~x1.there /\ x4' = "native" /\ x5' = TRUE /\ UNCHANGED <<x2, x6, x7>>
    BY <1>1 DEF Login!InsertEntity
  <2>3. Login!TypeOK'
    BY <1>0, <2>1, <2>2 DEF Login!TypeOK
  <2> QED
    BY <1>0, <2>1, <2>2, <2>3
<1>2. CASE Login!InsertAccount \/ Login!SignupStops
  BY <1>2 DEF Login!InsertAccount, Login!SignupStops, Login!TypeOK
<1>3. ASSUME NEW l \in Logins, Login!Login(l) PROVE LoginInv'
  <2>1. x1.hash # Login!NoHash /\ x1.hash \in Login!Hashes /\ UNCHANGED <<x1, x2, x3, x4, x5, x7>>
    BY <1>0, <1>3 DEF Login!Login, Login!TypeOK
  <2>2. x1.hash.of \in Passwords /\ x1.hash.format \in {"native", "legacy"}
    BY <2>1 DEF Login!Hashes
  <2>3. CASE Login!Rehashed(x1.hash.format)
    <3>1. x6' = [x6 EXCEPT ![l] = x1.hash.of] /\ x1.hash.format = "legacy"
      BY <1>3, <2>2, <2>3 DEF Login!Login, Login!Rehashed
    <3> QED
      BY <2>1, <2>2, <3>1 DEF Login!TypeOK
  <2>4. CASE ~Login!Rehashed(x1.hash.format)
    BY <1>3, <2>1, <2>4 DEF Login!Login, Login!TypeOK
  <2> QED
    BY <2>3, <2>4
<1>4. ASSUME NEW l \in Logins, Login!RehashLands(l) PROVE LoginInv'
  <2>1. x6[l] \in Passwords /\ x4 = "legacy" /\ UNCHANGED <<x2, x3, x4, x5, x7>>
    BY <1>4 DEF Login!RehashLands, Login!TypeOK
  <2>2. x1'.there = x1.there /\ x1' \in [there: BOOLEAN, hash: Login!Hashes]
    BY <1>0, <1>4, <2>1 DEF Login!RehashLands, Login!TypeOK
  <2>3. x6' \in [Logins -> Passwords \union {"none"}]
    BY <1>4 DEF Login!RehashLands, Login!TypeOK
  <2> QED
    BY <2>1, <2>2, <2>3 DEF Login!TypeOK
<1>5. ASSUME NEW c \in Changes, Login!ChangeChecked(c) PROVE LoginInv'
  BY <1>5 DEF Login!ChangeChecked, Login!TypeOK
<1>6. ASSUME NEW c \in Changes, Login!ChangeWritten(c) PROVE LoginInv'
  <2>1. /\ x7[c] \in Passwords /\ x1.there /\ UNCHANGED <<x2, x4, x5, x6>>
        /\ x1' = [x1 EXCEPT !.hash = Login!Native(x7[c])] /\ x3' = x7[c]
        /\ x7' = [x7 EXCEPT ![c] = "none"]
    BY <1>6 DEF Login!ChangeWritten, Login!TypeOK
  <2>2. x1'.there /\ x1'.hash = Login!Native(x7[c]) /\ x1' \in [there: BOOLEAN, hash: Login!Hashes]
    BY <1>0, <2>1 DEF Login!TypeOK
  <2>3. Login!TypeOK'
    BY <2>1, <2>2 DEF Login!TypeOK
  <2> QED
    BY <1>0, <2>1, <2>2, <2>3
<1>7. CASE UNCHANGED Login!vars
  BY <1>7 DEF Login!vars, Login!TypeOK
<1> QED
  BY <1>1, <1>2, <1>3, <1>4, <1>5, <1>6, <1>7 DEF Login!Next

-----------------------------------------------------------------------------
(* TelegramLink *)

\* A redemption is of a code that was minted; the one about to mark its code has linked
\* somebody.
BotInv ==
  /\ Bot!TypeOK /\ Bot!SpentCodeLinked
  /\ \A k \in x2 : x1[k] \in Accounts
  /\ \A c \in Claims : x5[c].at # "idle" =>
       /\ x5[c].code \in Codes /\ x1[x5[c].code] \in Accounts /\ x5[c].person \in People
       /\ x5[c].at = "mark" => x5[c].code \in x6

LEMMA BotInit == Bot!Init => BotInv
  BY DEF Bot!Init, BotInv, Bot!TypeOK, Bot!SpentCodeLinked, Bot!Idle, Bot!None

\* Redemption c moves on, or is over, with the codes of `made` linked.
LEMMA ClaimMoves ==
  ASSUME BotInv, NEW c \in Claims, NEW to,
         \/ to = Bot!Idle
         \/ /\ to.at \in {"again", "taken", "delete", "insert", "mark"}
            /\ to = [at |-> to.at, code |-> to.code, person |-> to.person]
            /\ to.code \in Codes /\ x1[to.code] \in Accounts /\ to.person \in People
            /\ to.at = "mark" => to.code \in x6',
         x5' = [x5 EXCEPT ![c] = to], UNCHANGED <<x1, x2>>,
         x3' \subseteq x6', x6 \subseteq x6', x6' \subseteq Codes,
         x4' \in [Accounts -> People \union {Bot!None}],
         \A a, b \in Accounts : x4'[a] = x4'[b] /\ x4'[a] # Bot!None => a = b
  PROVE  BotInv'
<1>1. to \in [at: {"idle", "again", "taken", "delete", "insert", "mark"},
              code: Codes \union {Bot!None}, person: People \union {Bot!None}]
  BY DEF Bot!Idle
<1>2. Bot!TypeOK'
  BY <1>1 DEF BotInv, Bot!TypeOK
<1>3. \A d \in Claims : x5'[d] = IF d = c THEN to ELSE x5[d]
  BY DEF BotInv, Bot!TypeOK
<1>4. \A d \in Claims : x5'[d].at # "idle" =>
        /\ x5'[d].code \in Codes /\ x1'[x5'[d].code] \in Accounts /\ x5'[d].person \in People
        /\ x5'[d].at = "mark" => x5'[d].code \in x6'
  BY <1>3 DEF BotInv, Bot!Idle
<1> QED
  BY <1>2, <1>4 DEF BotInv, Bot!SpentCodeLinked

LEMMA ClaimGoes ==
  ASSUME BotInv, NEW c \in Claims, NEW at \in {"delete", "insert", "mark"}, x5[c].at # "idle",
         Bot!Go(c, at), at = "mark" => x5[c].code \in x6', UNCHANGED <<x1, x2>>,
         x3' \subseteq x6', x6 \subseteq x6', x6' \subseteq Codes,
         x4' \in [Accounts -> People \union {Bot!None}],
         \A a, b \in Accounts : x4'[a] = x4'[b] /\ x4'[a] # Bot!None => a = b
  PROVE  BotInv'
<1> DEFINE to == [x5[c] EXCEPT !.at = at]
<1>1. x5' = [x5 EXCEPT ![c] = to]
  BY DEF BotInv, Bot!TypeOK, Bot!Go
<1>2. /\ to = [at |-> at, code |-> x5[c].code, person |-> x5[c].person]
      /\ x5[c].code \in Codes /\ x1[x5[c].code] \in Accounts /\ x5[c].person \in People
  BY DEF BotInv, Bot!TypeOK
<1>3. /\ to.at = at /\ to.code = x5[c].code /\ to.person = x5[c].person
      /\ to = [at |-> to.at, code |-> to.code, person |-> to.person]
  BY <1>2
<1> HIDE DEF to
<1> QED
  BY <1>1, <1>2, <1>3, ClaimMoves

LEMMA BotStep ==
  ASSUME BotInv, [Bot!Next]_Bot!vars
  PROVE  BotInv'
<1>0. /\ Bot!TypeOK /\ x3 \subseteq x6
      /\ \A a, b \in Accounts : x4[a] = x4[b] /\ x4[a] # Bot!None => a = b
      /\ x4 \in [Accounts -> People \union {Bot!None}] /\ x6 \subseteq Codes
  BY DEF BotInv, Bot!SpentCodeLinked, Bot!TypeOK
<1>1. ASSUME NEW k \in Codes, Bot!Mint(k) \/ Bot!Expire(k) PROVE BotInv'
  BY <1>1 DEF BotInv, Bot!Mint, Bot!Expire, Bot!TypeOK, Bot!SpentCodeLinked
<1>2. ASSUME NEW a \in Accounts, Bot!Unlink(a) PROVE BotInv'
  BY <1>2 DEF BotInv, Bot!Unlink, Bot!TypeOK, Bot!SpentCodeLinked
<1>3. ASSUME NEW c \in Claims, Bot!Claim(c) PROVE BotInv'
  <2>1. PICK k \in x2, p \in People :
          x5' = [x5 EXCEPT ![c] = [at |-> IF k \in x3 THEN "again" ELSE "taken",
                                   code |-> k, person |-> p]]
    BY <1>3 DEF Bot!Claim
  <2>2. k \in Codes /\ x1[k] \in Accounts
    BY <1>0 DEF BotInv, Bot!TypeOK
  <2> DEFINE to == [at |-> IF k \in x3 THEN "again" ELSE "taken", code |-> k, person |-> p]
  <2>3. /\ to.at \in {"again", "taken"} /\ to = [at |-> to.at, code |-> to.code, person |-> to.person]
        /\ to.code = k /\ to.person = p
    OBVIOUS
  <2>4. x5' = [x5 EXCEPT ![c] = to]
    BY <2>1
  <2> HIDE DEF to
  <2> QED
    BY <1>0, <1>3, <2>2, <2>3, <2>4, ClaimMoves DEF Bot!Claim
<1>4. ASSUME NEW c \in Claims, Bot!Again(c) \/ Bot!Breaks(c) PROVE BotInv'
  BY <1>0, <1>4, ClaimMoves DEF Bot!Again, Bot!Breaks, Bot!Answer
<1>5. ASSUME NEW c \in Claims, Bot!Taken(c) PROVE BotInv'
  <2>1. UNCHANGED <<x1, x2, x3, x4, x6>> /\ x5[c].at # "idle"
    BY <1>5 DEF Bot!Taken
  <2>2. CASE Bot!Answer(c)
    BY <1>0, <2>1, <2>2, ClaimMoves DEF Bot!Answer
  <2>3. CASE Bot!Go(c, "delete")
    BY <1>0, <2>1, <2>3, ClaimGoes
  <2> QED
    BY <1>5, <2>2, <2>3 DEF Bot!Taken
<1>6. ASSUME NEW c \in Claims, Bot!Delete(c) PROVE BotInv'
  <2>1. UNCHANGED <<x1, x2, x3, x6>> /\ x5[c].at # "idle" /\ Bot!Go(c, "insert")
    BY <1>6 DEF Bot!Delete
  <2>2. x4' = [x4 EXCEPT ![x1[x5[c].code]] = Bot!None]
    BY <1>6 DEF Bot!Delete, Bot!Account
  <2>3. /\ x4' \in [Accounts -> People \union {Bot!None}]
        /\ \A a, b \in Accounts : x4'[a] = x4'[b] /\ x4'[a] # Bot!None => a = b
    BY <1>0, <2>2
  <2> QED
    BY <1>0, <2>1, <2>3, ClaimGoes
<1>7. ASSUME NEW c \in Claims, Bot!Insert(c) PROVE BotInv'
  <2>1. UNCHANGED <<x1, x2, x3>> /\ x5[c].at # "idle"
    BY <1>7 DEF Bot!Insert
  <2>2. CASE Bot!Fits(c)
    <3>1. /\ x4' = [x4 EXCEPT ![x1[x5[c].code]] = x5[c].person]
          /\ x6' = x6 \union {x5[c].code} /\ Bot!Go(c, "mark")
      BY <1>7, <2>2 DEF Bot!Insert, Bot!Account
    <3>2. \A a \in Accounts : x4[a] # x5[c].person
      BY <2>2 DEF Bot!Fits
    <3>3. x5[c].person \in People /\ x1[x5[c].code] \in Accounts /\ x5[c].code \in Codes
      BY <2>1 DEF BotInv
    <3>4. x4' \in [Accounts -> People \union {Bot!None}]
      BY <1>0, <3>1, <3>3
    <3>5. \A a, b \in Accounts : x4'[a] = x4'[b] /\ x4'[a] # Bot!None => a = b
      BY <1>0, <3>1, <3>2
    <3> QED
      BY <1>0, <2>1, <3>1, <3>3, <3>4, <3>5, ClaimGoes
  <2>3. CASE ~Bot!Fits(c)
    BY <1>0, <1>7, <2>1, <2>3, ClaimMoves DEF Bot!Insert, Bot!Answer
  <2> QED
    BY <2>2, <2>3
<1>8. ASSUME NEW c \in Claims, Bot!Mark(c) PROVE BotInv'
  <2>1. x5[c].code \in x6
    BY <1>8 DEF Bot!Mark, BotInv
  <2> QED
    BY <1>0, <1>8, <2>1, ClaimMoves DEF Bot!Mark, Bot!Answer
<1>9. CASE UNCHANGED Bot!vars
  BY <1>9 DEF Bot!vars, BotInv, Bot!TypeOK, Bot!SpentCodeLinked
<1> QED
  BY <1>1, <1>2, <1>3, <1>4, <1>5, <1>6, <1>7, <1>8, <1>9 DEF Bot!Next

-----------------------------------------------------------------------------
(* All of them *)

\* What the theorems assume of the constants: payments that are no reads, bounds that are
\* numbers, and constants that are among those they are to be chosen from.
MerchantConstants ==
  /\ PayoutConstants /\ NwcConstants /\ WalletConstants /\ CardConstants
  /\ UpdateConstants /\ CheckoutConstants /\ PriceConstants

MerchantInv ==
  /\ Inv /\ ClientInv
  /\ which = "wallets" => SavedInv /\ OrderInv
  /\ which \in {"card", "keys"} => CardInv
  /\ which = "admin" => AdminInv
  /\ which = "update" => UpdateInv
  /\ which = "rics" => RicInv
  /\ which = "checkout" => CheckoutInv
  /\ which = "prices" => PriceInv
  /\ which = "accounts" => LoginInv
  /\ which = "telegram" => BotInv

LEMMA MerchantInitInv == MerchantConstants /\ MerchantInit => MerchantInv
<1> SUFFICES ASSUME MerchantConstants, MerchantInit PROVE MerchantInv
  OBVIOUS
<1> USE DEF MerchantConstants
<1>1. Inv /\ ClientInv
  BY InitInv, ClientInitInv DEF MerchantInit
<1>2. which = "wallets" => SavedInv /\ OrderInv
  BY SavedInit, OrderInit DEF MerchantInit
<1>3. which \in {"card", "keys"} => CardInv
  BY CardInit DEF MerchantInit
<1>4. which = "admin" => AdminInv
  BY AdminInit DEF MerchantInit
<1>5. which = "update" => UpdateInv
  BY UpdateInit DEF MerchantInit
<1>6. which = "rics" => RicInv
  BY RicInit DEF MerchantInit
<1>7. which = "checkout" => CheckoutInv
  BY CheckoutInit DEF MerchantInit
<1>8. which = "prices" => PriceInv
  BY PriceInit DEF MerchantInit
<1>9. which = "accounts" => LoginInv
  BY LoginInit DEF MerchantInit
<1>10. which = "telegram" => BotInv
  BY BotInit DEF MerchantInit
<1> QED
  BY <1>1, <1>2, <1>3, <1>4, <1>5, <1>6, <1>7, <1>8, <1>9, <1>10 DEF MerchantInv

\* A step is one of the component that `which` names, or changes none.
LEMMA MerchantMoves ==
  ASSUME [MerchantNext]_all
  PROVE  /\ which' = which /\ [Next]_vars /\ [ClientNext]_clientVars
         /\ which = "wallets" => [Saved!Next]_(Saved!vars)
         /\ which \in {"card", "keys"} => [Card!Next]_(Card!vars)
         /\ which = "admin" => [Admin!Next]_(Admin!vars)
         /\ which = "update" => [Update!Next]_(Update!vars)
         /\ which = "rics" => [Rics!Next]_(Rics!vars)
         /\ which = "checkout" => [Pos!Next]_(Pos!vars)
         /\ which = "prices" => [Rates!Next]_(Rates!vars)
         /\ which = "accounts" => [Login!Next]_(Login!vars)
         /\ which = "telegram" => [Bot!Next]_(Bot!vars)
<1>1. CASE UNCHANGED all
  <2>1. which' = which /\ UNCHANGED vars /\ UNCHANGED clientVars
        /\ UNCHANGED <<x1, x2, x3, x4, x5, x6, x7, x8>>
    BY <1>1 DEF all
  <2>2. UNCHANGED Saved!vars /\ UNCHANGED Card!vars /\ UNCHANGED Admin!vars
        /\ UNCHANGED Update!vars /\ UNCHANGED Rics!vars /\ UNCHANGED Pos!vars
        /\ UNCHANGED Rates!vars /\ UNCHANGED Login!vars /\ UNCHANGED Bot!vars
    BY <2>1 DEF Saved!vars, Card!vars, Admin!vars, Update!vars, Rics!vars, Pos!vars, Rates!vars,
                Login!vars, Bot!vars
  <2> QED
    BY <2>1, <2>2
<1>2. CASE MerchantNext
  BY <1>2 DEF MerchantNext, Step
<1> QED
  BY <1>1, <1>2

\* Payouts and the NWC client are as their own specifications have them.
THEOREM MerchantKeepsSpecs == MerchantSpec => Spec /\ ClientSpec
<1>1. MerchantInit => Init /\ ClientInit
  BY DEF MerchantInit
<1>2. [MerchantNext]_all => [Next]_vars /\ [ClientNext]_clientVars
  BY MerchantMoves
<1> QED
  BY <1>1, <1>2, PTL DEF MerchantSpec, Spec, ClientSpec

LEMMA MerchantStep ==
  ASSUME MerchantConstants, MerchantInv, [MerchantNext]_all
  PROVE  /\ MerchantInv' /\ FinalStays
         /\ which \in {"card", "keys"} => Card!CancelledStays
         /\ which = "rics" => Rics!RevokedStays
         /\ which = "checkout" => Pos!UrlStays
<1> USE DEF MerchantConstants
<1>1. which' = which
  BY MerchantMoves
<1>2. Inv' /\ ClientInv' /\ FinalStays
  BY MerchantMoves, InvStep, FinalStep, ClientInvStep DEF MerchantInv
<1>3. which = "wallets" => SavedInv' /\ OrderInv'
  BY MerchantMoves, SavedStep, OrderStep DEF MerchantInv
<1>4. which \in {"card", "keys"} => CardInv' /\ Card!CancelledStays
  BY MerchantMoves, CardStep DEF MerchantInv
<1>5. which = "admin" => AdminInv'
  BY MerchantMoves, AdminStep DEF MerchantInv
<1>6. which = "update" => UpdateInv'
  BY MerchantMoves, UpdateStep DEF MerchantInv
<1>7. which = "rics" => RicInv' /\ Rics!RevokedStays
  BY MerchantMoves, RicStep DEF MerchantInv
<1>8. which = "checkout" => CheckoutInv' /\ Pos!UrlStays
  BY MerchantMoves, CheckoutStep DEF MerchantInv
<1>9. which = "prices" => PriceInv'
  BY MerchantMoves, PriceStep DEF MerchantInv
<1>10. which = "accounts" => LoginInv'
  BY MerchantMoves, LoginStep DEF MerchantInv
<1>11. which = "telegram" => BotInv'
  BY MerchantMoves, BotStep DEF MerchantInv
<1>12. MerchantInv'
  BY <1>1, <1>2, <1>3, <1>4, <1>5, <1>6, <1>7, <1>8, <1>9, <1>10, <1>11 DEF MerchantInv
<1> QED
  BY <1>2, <1>4, <1>7, <1>8, <1>12

\* The invariant of every component the merchant meets.
THEOREM MerchantSpecInv == ASSUME MerchantConstants PROVE MerchantSpec => []MerchantInv
<1>1. MerchantInit => MerchantInv
  BY MerchantInitInv
<1>2. MerchantInv /\ [MerchantNext]_all => MerchantInv'
  BY MerchantStep
<1> QED
  BY <1>1, <1>2, PTL DEF MerchantSpec

-----------------------------------------------------------------------------
(* The theorems *)

\* Every component's state has its type, for any number of payouts, payments, rows, cards,
\* chips, keys, devices, requests, currencies, accounts and codes.
THEOREM SpecMerchantTypes == ASSUME MerchantConstants PROVE MerchantSpec => []TypesOK
<1> USE DEF MerchantConstants
<1>1. MerchantInv => TypeOK /\ ClientTypeOK
  BY DEF MerchantInv, Inv, ClientInv, ClientTypes
<1>2. MerchantInv => /\ which = "wallets" => Saved!TypeOK
                     /\ which \in {"card", "keys"} => Card!TypeOK
                     /\ which = "admin" => Admin!TypeOK
                     /\ which = "update" => Update!TypeOK
                     /\ which = "rics" => Rics!TypeOK
                     /\ which = "checkout" => Pos!TypeOK
                     /\ which = "prices" => Rates!TypeOK
                     /\ which = "accounts" => Login!TypeOK
                     /\ which = "telegram" => Bot!TypeOK
  BY SavedProperties, CardProperties, AdminProperties, UpdateProperties, CheckoutProperties,
     PriceProperties DEF MerchantInv, RicInv, LoginInv, BotInv
<1>3. MerchantInv => TypesOK
  BY <1>1, <1>2 DEF TypesOK
<1> QED
  BY <1>3, MerchantSpecInv, PTL

\* A payout is paid once and one at a time, and its row says what became of the money, while
\* executors crash, replies are lost, rows are cleared for another try and ticks overlap; only
\* a row that a late tick takes back is an exception, and even that is sent only once paid.
THEOREM SpecPayoutsAreSound == ASSUME MerchantConstants PROVE MerchantSpec => []PayoutsAreSound
<1>1. PayoutConstants
  BY DEF MerchantConstants
<1>2. /\ Spec => []PaidOnceUnlessRetaken
      /\ Spec => []OnePayoutInFlight
      /\ Spec => []SentWasPaid
      /\ Spec => []FailedIsNotPaid
  BY <1>1, SpecPaidOnceUnlessRetaken, SpecOnePayoutInFlight, SpecSentWasPaid, SpecFailedIsNotPaid
<1>3. PaidOnceUnlessRetaken /\ OnePayoutInFlight /\ SentWasPaid /\ FailedIsNotPaid => PayoutsAreSound
  BY DEF PayoutsAreSound
<1> QED
  BY <1>2, <1>3, MerchantKeepsSpecs, PTL

\* The partner is paid no more than was earned, by the payouts whose update was not lost and
\* that no tick took back.
THEOREM MerchantNeverOverpaid ==
  ASSUME IsFiniteSet(Payouts), MerchantConstants
  PROVE  MerchantSpec => []NeverOverpaid
<1>1. PayoutConstants
  BY DEF MerchantConstants
<1>2. Spec => []NeverOverpaid
  BY <1>1, SpecNeverOverpaid
<1> QED
  BY <1>2, MerchantKeepsSpecs, PTL

\* No payment is asked of an NWC wallet twice, and its row says of it what is so.
THEOREM SpecPaymentsAskedOnce == ASSUME MerchantConstants PROVE MerchantSpec => []PaymentsAskedOnce
<1>1. NwcConstants
  BY DEF MerchantConstants
<1>2. /\ ClientSpec => []PayReachesOnce
      /\ ClientSpec => []VerdictsAreTrue
  BY <1>1, SpecPayReachesOnce, SpecVerdictsAreTrue
<1>3. PayReachesOnce /\ VerdictsAreTrue => PaymentsAskedOnce
  BY DEF PaymentsAskedOnce
<1> QED
  BY <1>2, <1>3, MerchantKeepsSpecs, PTL

\* Payouts, until a late tick takes them back, and NWC payments keep the promise of PayCall.
THEOREM SpecPaymentsKeepPromise ==
  ASSUME MerchantConstants
  PROVE  MerchantSpec => PaymentsKeepPromise
<1> DEFINE A == /\ which \in {"payout", "ticks"} =>
                     UNCHANGED <<state, pay, broken>> \/ AllPromisesKept
                /\ which = "nwc" =>
                     UNCHANGED <<asked, wallet, mine, row>> \/ [CallPromise!Next]_(CallPromise!vars)
<1>1. PayoutConstants /\ NwcConstants
  BY DEF MerchantConstants
<1>2. (Spec => PayoutKeepsPromise) /\ (ClientSpec => ClientKeepsPromise)
  BY <1>1, SpecPayoutKeepsPromise, SpecClientKeepsPromise
<1>3. [AllPromisesKept]_vars /\ [CallPromise!Next]_(CallPromise!vars) => [A]_all
  BY DEF vars, rowVars
<1>4. PaymentsKeepPromise <=> PromiseStarts /\ CallPromise!Init /\ [][A]_all
  BY DEF PaymentsKeepPromise
<1> HIDE DEF A
<1> QED
  BY <1>2, <1>3, <1>4, MerchantKeepsSpecs, PTL
  DEF PayoutKeepsPromise, ClientKeepsPromise, CallPromise!Spec

\* A send is looked up at the wallet that paid it, whatever is reassigned or removed meanwhile,
\* and a repair by hand never contradicts what the hold did.
THEOREM SpecBooksFollowWallets == ASSUME MerchantConstants PROVE MerchantSpec => []BooksFollowWallets
<1>1. MerchantInv => BooksFollowWallets
  BY SavedProperties, AdminProperties DEF MerchantConstants, MerchantInv, BooksFollowWallets
<1> QED
  BY <1>1, MerchantSpecInv, PTL

\* However many writes and wipes are torn, by however many tools, a chip with a card's master
\* key has no other card's keys; what a tool reports of it is so; and a reported card is not
\* handed out again.
THEOREM SpecCardKeysAreWhole == ASSUME MerchantConstants PROVE MerchantSpec => []CardKeysAreWhole
<1>1. MerchantInv => CardKeysAreWhole
  BY CardProperties DEF MerchantConstants, MerchantInv, CardKeysAreWhole
<1> QED
  BY <1>1, MerchantSpecInv, PTL

\* A device runs the image it was offered although releases are deployed file by file while it
\* downloads, and the dashboard shows the state and the code of one report.
THEOREM SpecUpdatesAreWhole == ASSUME MerchantConstants PROVE MerchantSpec => []UpdatesAreWhole
<1>1. MerchantInv => UpdatesAreWhole
  BY UpdateProperties DEF MerchantInv, RicInv, UpdatesAreWhole
<1> QED
  BY <1>1, MerchantSpecInv, PTL

\* A sale is priced in its currency, by a quote that is old only if the service failed, and a
\* sale is not given an invoice nobody can see paid unless its wallet stopped offering one.
THEOREM SpecSalesAreSound == ASSUME MerchantConstants PROVE MerchantSpec => []SalesAreSound
<1>1. MerchantInv => SalesAreSound
  BY PriceProperties, CheckoutProperties DEF MerchantInv, SalesAreSound
<1> QED
  BY <1>1, MerchantSpecInv, PTL

\* Saved wallets stay in order as long as no two requests overlap, a changed password stays,
\* and a code is spent only by a redemption that linked somebody.
THEOREM SpecAccountsStayInOrder == ASSUME MerchantConstants PROVE MerchantSpec => []AccountsStayInOrder
<1>1. MerchantInv => AccountsStayInOrder
  BY OrderProperties DEF MerchantInv, LoginInv, BotInv, AccountsStayInOrder
<1> QED
  BY <1>1, MerchantSpecInv, PTL

\* No step takes back a cancelled card, a revoked device or the URL of a hook, whatever request
\* had read the row before, nor a final payout, but by the requeue of a late tick or after its
\* update was lost.
THEOREM SpecStaysForGood == ASSUME MerchantConstants PROVE MerchantSpec => StaysForGood
<1> DEFINE A == /\ FinalStays
                /\ which \in {"card", "keys"} => Card!CancelledStays
                /\ which = "rics" => Rics!RevokedStays
                /\ which = "checkout" => Pos!UrlStays
<1>1. MerchantInv /\ [MerchantNext]_all => [A]_all
  BY MerchantStep
<1>2. StaysForGood <=> [][A]_all
  BY DEF StaysForGood
<1> HIDE DEF A
<1> QED
  BY <1>1, <1>2, MerchantSpecInv, PTL DEF MerchantSpec
=============================================================================
