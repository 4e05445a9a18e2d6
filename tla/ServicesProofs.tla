--------------------------- MODULE ServicesProofs ---------------------------
(***************************************************************************)
(* Theorems about the three services of MCServices, for every value of     *)
(* their constants: the admission of wrapped sales (WrapGate), the driver  *)
(* of open sales (WrapDriver) and the monitor of direct invoices           *)
(* (InvoiceMonitor), each by an inductive invariant of its own; a step of  *)
(* the whole is a step of one of them.                                     *)
(***************************************************************************)
EXTENDS MCServices, FiniteSetTheorems, WellFoundedInduction, TLAPS

-----------------------------------------------------------------------------
(* The admission of wrapped sales *)

\* A checkout in progress has a place reserved among the racing ones.
OpenRoom ==
  Cardinality(Counted) + Cardinality(Busy) < MaxOpen + Cardinality(Checkouts)

\* Checkouts that may still insert: the float can take what they read and them.
Live == {c \in Busy : FitsFloat(checkout[c].owed + 1, Funds)}

PassedIsLive == \A c \in Busy : checkout[c].at = "passed" => c \in Live

\* With every live checkout inserted, all of them but one still exceed.
Committed == Cardinality(Obligations) + Cardinality(Live) + 1 - Cardinality(Checkouts)

FloatRoom == Committed >= 1 => FitsFloat(Committed, Funds)

\* The inductive invariant of the admission.
GateInv == TypeOK /\ OpenRoom /\ PassedIsLive /\ FloatRoom

-----------------------------------------------------------------------------
(* Lemmas *)

\* Owing less, or having more, still fits (the usage test).
LEMMA FitsLess ==
  ASSUME GateConstants, NEW n \in Int, NEW k \in Int, NEW b \in 0..Funds,
         k <= n, FitsFloat(n, b)
  PROVE  FitsFloat(k, Funds)
<1>1. MaxPct * b <= MaxPct * Funds
  BY DEF GateConstants
<1>2. (k + Margin) * 100 <= (n + Margin) * 100
  BY DEF GateConstants
<1>3. MaxPct * b \in Int /\ MaxPct * Funds \in Int
  BY DEF GateConstants
<1> QED
  BY <1>1, <1>2, <1>3 DEF FitsFloat, GateConstants

\* The sets that are counted are finite.
LEMMA Sizes ==
  ASSUME GateConstants
  PROVE  /\ Cardinality(Checkouts) \in Nat
         /\ IsFiniteSet(Counted) /\ Cardinality(Counted) \in Nat
         /\ IsFiniteSet(Obligations) /\ Cardinality(Obligations) \in Nat
         /\ IsFiniteSet(Busy) /\ Cardinality(Busy) \in Nat
         /\ IsFiniteSet(Live) /\ Cardinality(Live) \in Nat
<1>1. Counted \subseteq Places /\ Obligations \subseteq Places
  BY DEF Counted, Obligations
<1>2. Busy \subseteq Checkouts /\ Live \subseteq Checkouts
  BY DEF Busy, Live
<1> QED
  BY <1>1, <1>2, FS_Subset, FS_CardinalityType DEF GateConstants

\* The next state's sets are finite too.
LEMMA SizesPrime ==
  ASSUME GateConstants
  PROVE  /\ IsFiniteSet(Counted') /\ Cardinality(Counted') \in Nat
         /\ IsFiniteSet(Obligations') /\ Cardinality(Obligations') \in Nat
         /\ IsFiniteSet(Busy') /\ Cardinality(Busy') \in Nat /\ Cardinality(Busy') <= Cardinality(Checkouts)
         /\ IsFiniteSet(Live') /\ Cardinality(Live') \in Nat /\ Cardinality(Live') <= Cardinality(Checkouts)
<1>1. Counted' \subseteq Places /\ Obligations' \subseteq Places
  BY DEF Counted, Obligations
<1>2. Busy' \subseteq Checkouts /\ Live' \subseteq Checkouts
  BY DEF Busy, Live
<1> QED
  BY <1>1, <1>2, FS_Subset, FS_CardinalityType DEF GateConstants

\* FloatRoom survives a step after which no more is committed.
LEMMA RoomStays ==
  ASSUME GateConstants, FloatRoom,
         Cardinality(Obligations') + Cardinality(Live') <= Cardinality(Obligations) + Cardinality(Live)
  PROVE  FloatRoom'
<1>1. Committed \in Int /\ Committed' \in Int /\ Committed' <= Committed
  BY Sizes, SizesPrime DEF Committed
<1>2. Funds \in 0..Funds
  BY DEF GateConstants
<1>3. SUFFICES ASSUME Committed' >= 1 PROVE FitsFloat(Committed', Funds)
  BY DEF FloatRoom, FitsFloat
<1>4. FitsFloat(Committed, Funds)
  BY <1>1, <1>3 DEF FloatRoom
<1> QED
  BY <1>1, <1>2, <1>4, FitsLess

\* A checkout that gives up leaves its room behind.
LEMMA GivesUp ==
  ASSUME GateConstants, OpenRoom, PassedIsLive, FloatRoom,
         NEW c \in Checkouts, c \in Busy, checkout'[c] = Idle,
         \A d \in Checkouts \ {c} : checkout'[d] = checkout[d],
         Counted' = Counted, Obligations' = Obligations
  PROVE  OpenRoom' /\ PassedIsLive' /\ FloatRoom'
<1>1. Busy' = Busy \ {c} /\ Live' = Live \ {c}
  BY DEF Busy, Live, FitsFloat, Idle
<1>2. Cardinality(Busy') <= Cardinality(Busy) /\ Cardinality(Live') <= Cardinality(Live)
  <2>1. Busy' \in SUBSET Busy /\ Live' \in SUBSET Live
    BY <1>1
  <2> QED
    BY <2>1, Sizes, FS_Subset
<1>3. OpenRoom'
  BY <1>2, Sizes, SizesPrime DEF OpenRoom, GateConstants
<1>4. PassedIsLive'
  BY <1>1 DEF PassedIsLive, Busy
<1>5. FloatRoom'
  BY <1>2, RoomStays, Sizes, SizesPrime
<1> QED
  BY <1>3, <1>4, <1>5

\* A sale that is forwarded or over makes room.
LEMMA FewerSales ==
  ASSUME GateConstants, OpenRoom, PassedIsLive, FloatRoom, UNCHANGED checkout,
         Counted' \subseteq Counted, Obligations' \subseteq Obligations
  PROVE  OpenRoom' /\ PassedIsLive' /\ FloatRoom'
<1>1. Busy' = Busy /\ Live' = Live
  BY DEF Busy, Live, FitsFloat
<1>2. Cardinality(Counted') <= Cardinality(Counted) /\ Cardinality(Obligations') <= Cardinality(Obligations)
  BY Sizes, FS_Subset
<1>3. OpenRoom'
  BY <1>1, <1>2, Sizes, SizesPrime DEF OpenRoom, GateConstants
<1>4. PassedIsLive'
  BY <1>1 DEF PassedIsLive
<1>5. FloatRoom'
  BY <1>1, <1>2, RoomStays, Sizes, SizesPrime
<1> QED
  BY <1>3, <1>4, <1>5

-----------------------------------------------------------------------------
(* The invariant *)

LEMMA GateInit == GateConstants /\ Init => GateInv
<1> SUFFICES ASSUME GateConstants, Init PROVE GateInv
  OBVIOUS
<1>1. TypeOK
  BY DEF Init, TypeOK
<1>2. Counted = {} /\ Obligations = {} /\ Busy = {} /\ Live = {}
  BY DEF Init, Counted, Obligations, Busy, Live
<1>3. Cardinality({}) = 0
  BY FS_EmptySet
<1>4. OpenRoom
  BY <1>2, <1>3, Sizes DEF OpenRoom, GateConstants
<1>5. PassedIsLive
  BY <1>2 DEF PassedIsLive
<1>6. FloatRoom
  <2>1. Cardinality(Checkouts) # 0
    BY FS_EmptySet DEF GateConstants
  <2> QED
    BY <2>1, <1>2, <1>3, Sizes DEF FloatRoom, Committed
<1> QED
  BY <1>1, <1>4, <1>5, <1>6 DEF GateInv

\* One case per action: what it does to the four sets, and then to the rooms.
LEMMA GateStep == GateConstants /\ GateInv /\ [Next]_vars => GateInv'
<1> SUFFICES ASSUME GateConstants, GateInv, [Next]_vars PROVE GateInv'
  OBVIOUS
<1> USE DEF GateInv
<1>1. TypeOK'
  <2> USE DEF TypeOK, Busy, Idle
  <2>1. ASSUME NEW c \in Checkouts, CountOpen(c) PROVE TypeOK'
    BY <2>1, Sizes DEF CountOpen
  <2>2. ASSUME NEW c \in Checkouts, CheckFloat(c) PROVE TypeOK'
    <3>1. PICK b \in Balances :
            /\ cache' = {b}
            /\ checkout' = [checkout EXCEPT ![c] =
                 IF FitsFloat(@.owed + 1, b) THEN [@ EXCEPT !.at = "passed"] ELSE Idle]
      BY <2>2 DEF CheckFloat
    <3>2. b \in 0..Funds
      BY DEF Balances
    <3>3. checkout[c] \in [at : {"counted", "passed"}, owed : Nat]
      BY <2>2 DEF CheckFloat
    <3>4. [checkout[c] EXCEPT !.at = "passed"] \in [at : {"counted", "passed"}, owed : Nat]
      BY <3>3
    <3> QED
      BY <2>2, <3>1, <3>2, <3>4 DEF CheckFloat
  <2>3. ASSUME NEW c \in Checkouts, MintFails(c) PROVE TypeOK'
    BY <2>3 DEF MintFails
  <2>4. ASSUME NEW c \in Checkouts, NEW s \in Places, Insert(c, s) PROVE TypeOK'
    BY <2>4 DEF Insert
  <2>5. CASE CacheExpires
    BY <2>5 DEF CacheExpires
  <2>6. ASSUME NEW s \in Places, Forward(s) \/ Leave(s) PROVE TypeOK'
    BY <2>6 DEF Forward, Leave
  <2>7. CASE UNCHANGED vars
    BY <2>7 DEF vars
  <2> QED
    BY <2>1, <2>2, <2>3, <2>4, <2>5, <2>6, <2>7 DEF Next
<1>2. OpenRoom' /\ PassedIsLive' /\ FloatRoom'
  <2> DEFINE Kept == OpenRoom' /\ PassedIsLive' /\ FloatRoom'
  <2>1. ASSUME NEW c \in Checkouts, CountOpen(c) PROVE Kept
    <3>1. Counted' = Counted /\ Obligations' = Obligations
      BY <2>1 DEF CountOpen, Counted, Obligations
    <3>2. Busy' = Busy \cup {c} /\ c \notin Busy
      BY <2>1 DEF CountOpen, Busy, Idle, TypeOK
    <3>3. OpenRoom'
      <4>1. Cardinality(Counted') = Cardinality(Counted) /\ Cardinality(Counted) < MaxOpen
        BY <2>1, <3>1 DEF CountOpen
      <4>2. Cardinality(Counted) \in Nat /\ Cardinality(Checkouts) \in Nat
        BY Sizes
      <4>3. Cardinality(Busy') \in Nat /\ Cardinality(Busy') <= Cardinality(Checkouts)
        BY SizesPrime
      <4> QED
        BY <4>1, <4>2, <4>3 DEF OpenRoom, GateConstants
    <3>4. \A d \in Checkouts \ {c} : checkout'[d] = checkout[d]
      BY <2>1 DEF CountOpen, TypeOK
    <3>5. checkout'[c] = [at |-> "counted", owed |-> Cardinality(Obligations)]
      BY <2>1 DEF CountOpen, TypeOK
    <3>6. Live' = IF FitsFloat(Cardinality(Obligations) + 1, Funds) THEN Live \cup {c} ELSE Live
      BY <3>2, <3>4, <3>5 DEF Live, Busy, FitsFloat
    <3>7. PassedIsLive'
      BY <3>2, <3>4, <3>5, <3>6 DEF PassedIsLive, Busy
    <3>8. FloatRoom'
      <4>1. CASE FitsFloat(Cardinality(Obligations) + 1, Funds)
        <5>1. Committed' \in Int /\ Committed' <= Cardinality(Obligations) + 1
          BY <3>1, Sizes, SizesPrime DEF Committed
        <5>2. Funds \in 0..Funds
          BY DEF GateConstants
        <5>3. FitsFloat(Committed', Funds)
          BY <4>1, <5>1, <5>2, FitsLess, Sizes
        <5> QED
          BY <5>3 DEF FloatRoom, FitsFloat
      <4>2. CASE ~ FitsFloat(Cardinality(Obligations) + 1, Funds)
        BY <4>2, <3>1, <3>6, RoomStays, Sizes
      <4> QED
        BY <4>1, <4>2
    <3> QED
      BY <3>3, <3>7, <3>8
  <2>2. ASSUME NEW c \in Checkouts, CheckFloat(c) PROVE Kept
    <3>1. PICK b \in Balances :
            checkout' = [checkout EXCEPT ![c] =
              IF FitsFloat(@.owed + 1, b) THEN [@ EXCEPT !.at = "passed"] ELSE Idle]
      BY <2>2 DEF CheckFloat
    <3>2. b \in 0..Funds
      BY DEF Balances, TypeOK
    <3>3. c \in Busy /\ checkout[c] \in [at : {"counted", "passed"}, owed : Nat]
      BY <2>2 DEF CheckFloat, Busy, TypeOK
    <3>4. Counted' = Counted /\ Obligations' = Obligations
      BY <2>2 DEF CheckFloat, Counted, Obligations
    <3>5. \A d \in Checkouts \ {c} : checkout'[d] = checkout[d]
      BY <3>1 DEF TypeOK
    <3>6. CASE FitsFloat(checkout[c].owed + 1, b)
      <4>1. checkout'[c] = [checkout[c] EXCEPT !.at = "passed"]
        BY <3>1, <3>6 DEF TypeOK
      <4>2. checkout'[c] # Idle /\ checkout'[c].owed = checkout[c].owed
        BY <4>1, <3>3 DEF Idle
      <4>3. FitsFloat(checkout[c].owed + 1, Funds)
        BY <3>2, <3>3, <3>6, FitsLess
      <4>4. Busy' = Busy /\ Live' = Live /\ c \in Live
        BY <3>3, <3>5, <4>2, <4>3 DEF Busy, Live, FitsFloat, Idle
      <4>5. OpenRoom'
        BY <3>4, <4>4 DEF OpenRoom
      <4>6. PassedIsLive'
        BY <3>5, <4>4 DEF PassedIsLive, Busy
      <4>7. FloatRoom'
        BY <3>4, <4>4, RoomStays, Sizes
      <4> QED
        BY <4>5, <4>6, <4>7
    <3>7. CASE ~ FitsFloat(checkout[c].owed + 1, b)
      <4>1. checkout'[c] = Idle
        BY <3>1, <3>7 DEF TypeOK
      <4> QED
        BY <3>3, <3>4, <3>5, <4>1, GivesUp
    <3> QED
      BY <3>6, <3>7
  <2>3. ASSUME NEW c \in Checkouts, MintFails(c) PROVE Kept
    <3>1. c \in Busy /\ checkout'[c] = Idle
      BY <2>3 DEF MintFails, TypeOK
    <3>2. \A d \in Checkouts \ {c} : checkout'[d] = checkout[d]
      BY <2>3 DEF MintFails, TypeOK
    <3>3. Counted' = Counted /\ Obligations' = Obligations
      BY <2>3 DEF MintFails, Counted, Obligations
    <3> QED
      BY <3>1, <3>2, <3>3, GivesUp
  <2>4. ASSUME NEW c \in Checkouts, NEW s \in Places, Insert(c, s) PROVE Kept
    <3>1. Counted' = Counted \cup {s} /\ s \notin Counted
      BY <2>4 DEF Insert, Counted, TypeOK
    <3>2. Obligations' = Obligations \cup {s} /\ s \notin Obligations
      BY <2>4 DEF Insert, Obligations, TypeOK
    <3>3. checkout'[c] = Idle /\ \A d \in Checkouts \ {c} : checkout'[d] = checkout[d]
      BY <2>4 DEF Insert, TypeOK
    <3>4. c \in Busy /\ c \in Live
      BY <2>4 DEF Insert, PassedIsLive
    <3>5. Busy' = Busy \ {c} /\ Live' = Live \ {c}
      BY <3>3, <3>4 DEF Busy, Live, FitsFloat, Idle
    <3>6. Cardinality(Counted') = Cardinality(Counted) + 1 /\ Cardinality(Busy') = Cardinality(Busy) - 1
      BY <3>1, <3>4, <3>5, Sizes, FS_AddElement, FS_RemoveElement
    <3>7. Cardinality(Obligations') = Cardinality(Obligations) + 1 /\ Cardinality(Live') = Cardinality(Live) - 1
      BY <3>2, <3>4, <3>5, Sizes, FS_AddElement, FS_RemoveElement
    <3>8. OpenRoom'
      BY <3>6, Sizes, SizesPrime DEF OpenRoom, GateConstants
    <3>9. PassedIsLive'
      BY <3>3, <3>5 DEF PassedIsLive, Busy
    <3>10. FloatRoom'
      BY <3>7, RoomStays, Sizes
    <3> QED
      BY <3>8, <3>9, <3>10
  <2>5. CASE CacheExpires
    BY <2>5, FewerSales DEF CacheExpires, Counted, Obligations
  <2>6. ASSUME NEW s \in Places, Forward(s) \/ Leave(s) PROVE Kept
    <3>1. Counted' \subseteq Counted /\ Obligations' \subseteq Obligations
      BY <2>6 DEF Forward, Leave, Counted, Obligations, TypeOK
    <3>2. UNCHANGED checkout
      BY <2>6 DEF Forward, Leave
    <3> QED
      BY <3>1, <3>2, FewerSales
  <2>7. CASE UNCHANGED vars
    BY <2>7, FewerSales DEF vars, Counted, Obligations
  <2> QED
    BY <2>1, <2>2, <2>3, <2>4, <2>5, <2>6, <2>7 DEF Next
<1> QED
  BY <1>1, <1>2

LEMMA GateSpecInv == ASSUME GateConstants PROVE Spec => []GateInv
  BY GateInit, GateStep, PTL DEF Spec

-----------------------------------------------------------------------------
(* Theorems *)

\* The places, the checkouts and the cached balance keep their types.
THEOREM SpecTypeOK == ASSUME GateConstants PROVE Spec => []TypeOK
<1>1. GateInv => TypeOK
  BY DEF GateInv
<1> QED
  BY <1>1, GateSpecInv, PTL

\* However many checkouts race between openWrapStats and the insert, the open holds exceed
\* WRAP_MAX_OPEN, and what is owed to merchants the share WRAP_FLOAT_MAX_PCT allows, by
\* fewer sales than there are checkouts, whatever the cached balance was.
THEOREM SpecAdmissionNearLimits == ASSUME GateConstants PROVE Spec => []AdmissionNearLimits
<1>1. GateInv => OpenNearCap
  BY Sizes DEF GateInv, OpenRoom, OpenNearCap, GateConstants
<1>2. GateInv => OwedNearFloat
  <2> SUFFICES ASSUME GateInv PROVE OwedNearFloat
    OBVIOUS
  <2> DEFINE n == Cardinality(Obligations) + 1 - Cardinality(Checkouts)
  <2>1. n \in Int /\ Committed \in Int /\ n <= Committed
    BY Sizes DEF Committed
  <2>2. Funds \in 0..Funds
    BY DEF GateConstants
  <2>3. ASSUME n >= 1 PROVE FitsFloat(n, Funds)
    <3>1. FitsFloat(Committed, Funds)
      BY <2>1, <2>3 DEF GateInv, FloatRoom
    <3> HIDE DEF n
    <3> QED
      BY <2>1, <2>2, <3>1, FitsLess
  <2> QED
    BY <2>3 DEF OwedNearFloat
<1> QED
  BY <1>1, <1>2, GateSpecInv, PTL DEF AdmissionNearLimits

-----------------------------------------------------------------------------
(* Numbers and finite sets *)

\* A set of numbers that has a member has a least one.
LEMMA LeastExists ==
  ASSUME NEW S \in SUBSET Nat, S # {}
  PROVE  \E m \in S : \A n \in S : m <= n
<1>1. PICK m \in S : \A n \in S : ~(<<n, m>> \in OpToRel(<, Nat))
  BY NatLessThanWellFounded, WFMin
<1>2. \A n \in S : ~(n < m)
  BY <1>1 DEF OpToRel
<1> QED
  BY <1>2

\* One that has a bound as well has a greatest one.
LEMMA GreatestExists ==
  ASSUME NEW b \in Nat, NEW S \in SUBSET (0..b), S # {}
  PROVE  \E m \in S : \A n \in S : n <= m
<1> DEFINE T == {b - n : n \in S}
<1>1. T \in SUBSET Nat
  OBVIOUS
<1>2. PICK s \in S : TRUE
  OBVIOUS
<1>3. b - s \in T
  OBVIOUS
<1> HIDE DEF T
<1>4. PICK t \in T : \A u \in T : t <= u
  BY <1>1, <1>3, LeastExists
<1>5. PICK m \in S : t = b - m
  BY <1>4 DEF T
<1>6. \A n \in S : b - m <= b - n
  BY <1>4, <1>5 DEF T
<1> QED
  BY <1>5, <1>6

\* Members of a set of numbers that have fewer than n smaller ones beside them
\* (the oldest rows, a chunk, a page) are n at most.
LEMMA FirstFew ==
  ASSUME NEW b \in Nat, NEW n \in Nat, NEW S \in SUBSET (1..b), NEW F \in SUBSET S,
         \A s \in F : Cardinality({r \in S : r < s}) < n
  PROVE  IsFiniteSet(F) /\ Cardinality(F) \in Nat /\ Cardinality(F) <= n
<1>1. IsFiniteSet(S)
  <2>1. IsFiniteSet(1..b)
    BY FS_Interval
  <2> QED
    BY <2>1, FS_Subset
<1>2. IsFiniteSet(F) /\ Cardinality(F) \in Nat
  BY <1>1, FS_Subset, FS_CardinalityType
<1>3. CASE F = {}
  BY <1>3, FS_EmptySet
<1>4. CASE F # {}
  <2>1. F \in SUBSET (0..b)
    OBVIOUS
  <2>2. PICK m \in F : \A s \in F : s <= m
    BY <1>4, <2>1, GreatestExists
  <2> DEFINE before == {r \in S : r < m}
  <2>3. before \in SUBSET S /\ Cardinality(before) < n
    BY <2>2
  <2>4. F \ {m} \in SUBSET before
    BY <2>2
  <2> HIDE DEF before
  <2>5. IsFiniteSet(before) /\ Cardinality(before) \in Nat
    BY <1>1, <2>3, FS_Subset, FS_CardinalityType
  <2>6. Cardinality(F \ {m}) = Cardinality(F) - 1
    BY <1>2, <2>2, FS_RemoveElement
  <2>7. Cardinality(F \ {m}) <= Cardinality(before)
    BY <2>4, <2>5, FS_Subset
  <2> QED
    BY <1>2, <2>3, <2>5, <2>6, <2>7
<1> QED
  BY <1>3, <1>4

-----------------------------------------------------------------------------
(* The driver of open sales *)

\* As long as the process has not restarted it has heard of every poll.
HeardAll == restarts = 0 => heard = polled

DriverInv == Driver!TypeOK /\ Driver!NoStampede /\ HeardAll

DriverConstants ==
  MaxSales \in Nat /\ Batch \in Nat /\ Chunk \in Nat /\ MaxRestarts \in Nat

\* WrapDriver counts with the operators of FiniteSets.
LEMMA DriverCounts ==
  ASSUME NEW S PROVE Driver!Cardinality(S) = Cardinality(S)
  BY DEF Driver!Cardinality, Cardinality

\* A set of sales is finite, and a smaller one is no larger.
LEMMA SalesCount ==
  ASSUME DriverConstants, NEW S \in SUBSET Driver!Sales, NEW T \in SUBSET S
  PROVE  /\ Cardinality(S) \in Nat /\ Cardinality(T) \in Nat
         /\ Cardinality(T) <= Cardinality(S)
<1>1. IsFiniteSet(Driver!Sales)
  BY FS_Interval DEF Driver!Sales, DriverConstants
<1>2. IsFiniteSet(S)
  BY <1>1, FS_Subset
<1> QED
  BY <1>2, FS_Subset, FS_CardinalityType

\* The oldest n sales of a set are n at most.
LEMMA OldestFew ==
  ASSUME DriverConstants, NEW S \in SUBSET Driver!Sales, NEW n \in Nat
  PROVE  /\ Driver!Oldest(n, S) \in SUBSET S
         /\ Cardinality(Driver!Oldest(n, S)) <= n
<1> DEFINE F == {s \in S : Cardinality({r \in S : r < s}) < n}
<1>1. Driver!Oldest(n, S) = F
  BY DEF Driver!Oldest, Driver!Cardinality, Cardinality
<1>2. F \in SUBSET S /\ \A s \in F : Cardinality({r \in S : r < s}) < n
  OBVIOUS
<1> HIDE DEF F
<1> QED
  BY <1>1, <1>2, FirstFew DEF Driver!Sales, DriverConstants

LEMMA DriverMin ==
  ASSUME NEW S \in SUBSET Driver!Sales, S # {} PROVE Driver!Min(S) \in S
<1>1. S \in SUBSET Nat
  BY DEF Driver!Sales
<1> QED
  BY <1>1, LeastExists DEF Driver!Min

\* Whoever starts or ends a pass of its own leaves the sweep's advances alone.
LEMMA DrivenStays ==
  ASSUME DriverConstants, DriverInv, Driver!Driven' \subseteq Driver!Driven
  PROVE  Driver!NoStampede'
<1>1. Driver!Driven \in SUBSET Driver!Sales /\ Driver!Driven' \in SUBSET Driver!Driven
  BY DEF Driver!Driven
<1>2. Cardinality(Driver!Driven) <= Chunk
  BY DriverCounts DEF DriverInv, Driver!NoStampede
<1>3. Cardinality(Driver!Driven') <= Chunk
  BY <1>1, <1>2, SalesCount DEF DriverConstants
<1> QED
  BY <1>3 DEF Driver!NoStampede, Driver!Cardinality, Cardinality

LEMMA DriverInit == ASSUME DriverConstants, Driver!Init PROVE DriverInv
<1>1. Driver!TypeOK /\ HeardAll
  BY DEF Driver!Init, Driver!TypeOK, HeardAll, DriverConstants, Driver!Quiet, Driver!Sales
<1>2. Driver!Driven = {}
  BY DEF Driver!Init, Driver!Driven
<1>3. Driver!NoStampede
  BY <1>2, FS_EmptySet, DriverCounts DEF Driver!NoStampede, DriverConstants
<1> QED
  BY <1>1, <1>3 DEF DriverInv

\* A row that is set keeps its type, and what was heard of it goes with it.
LEMMA SetRowEffect ==
  ASSUME Driver!TypeOK, HeardAll, NEW s \in Driver!Sales,
         NEW to \in {"created", "taken", "none", "closed"}, Driver!SetRow(s, to)
  PROVE  /\ row' \in [Driver!Sales -> {"created", "taken", "none", "closed"}]
         /\ locked' \subseteq Driver!Sales
         /\ clock' \in [Driver!Sales -> {"young", "old", "expired"}]
         /\ heard' \subseteq polled' /\ polled' \subseteq Driver!Sales
         /\ restarts = 0 => heard' = polled'
  BY DEF Driver!TypeOK, Driver!SetRow, Driver!OpenStates, HeardAll

LEMMA DriverStep ==
  ASSUME DriverConstants, DriverInv, [Driver!Next]_(Driver!vars)
  PROVE  DriverInv'
<1> USE DEF DriverInv
<1> DEFINE States == {"created", "taken", "none", "closed"}
           Fit == Driver!Driven' \subseteq Driver!Driven /\ Driver!TypeOK' /\ HeardAll'
<1>1. ASSUME Fit PROVE DriverInv'
  BY <1>1, DrivenStays
<1>2. ASSUME UNCHANGED pass, Driver!TypeOK', HeardAll' PROVE DriverInv'
  BY <1>1, <1>2 DEF Driver!Driven
<1>3. CASE Driver!StartDrive
  <2> DEFINE rows0 == Driver!Oldest(Batch, Driver!Open)
  <2>1. rows0 \in SUBSET Driver!Sales
    BY OldestFew DEF Driver!Open, DriverConstants
  <2>2. drive' = [at |-> "closing", rows |-> rows0, left |-> {s \in rows0 : row[s] = "created"}]
    BY <1>3 DEF Driver!StartDrive
  <2> HIDE DEF rows0
  <2>3. drive' \in [at : {"idle", "closing", "advancing"}, rows : SUBSET Driver!Sales,
                    left : SUBSET Driver!Sales]
    BY <2>1, <2>2
  <2> QED
    BY <1>2, <1>3, <2>3 DEF Driver!StartDrive, Driver!TypeOK, HeardAll
<1>4. CASE Driver!CloseNext
  <2> DEFINE s == Driver!Min(Driver!Closable)
  <2>1. Driver!Closable # {}
    BY <1>4 DEF Driver!CloseNext
  <2>2. Driver!Closable \in SUBSET Driver!Sales
    BY DEF Driver!Closable, Driver!TypeOK
  <2>3. s \in Driver!Closable
    BY <2>1, <2>2, DriverMin
  <2>4. pass' = [pass EXCEPT ![s] = "close"] /\ drive' = [drive EXCEPT !.left = {r \in @ : r > s}]
        /\ UNCHANGED <<row, locked, clock, polled, heard, restarts>>
    BY <1>4 DEF Driver!CloseNext
  <2> HIDE DEF s
  <2>5. Driver!TypeOK'
    BY <2>2, <2>3, <2>4 DEF Driver!TypeOK
  <2>6. Driver!Driven' \subseteq Driver!Driven
    BY <2>3, <2>4 DEF Driver!Driven, Driver!TypeOK
  <2> QED
    BY <1>1, <2>4, <2>5, <2>6 DEF HeardAll
<1>5. ASSUME NEW due \in SUBSET Driver!Sales, Driver!CollectDue(due) PROVE DriverInv'
  BY <1>2, <1>5 DEF Driver!CollectDue, Driver!TypeOK, HeardAll
<1>6. CASE Driver!NextChunk
  <2> DEFINE chunk == Driver!Oldest(Chunk, drive.left)
  <2>1. drive.left \in SUBSET Driver!Sales
    BY DEF Driver!TypeOK
  <2>2. chunk \in SUBSET drive.left /\ Cardinality(chunk) <= Chunk
    BY <2>1, OldestFew DEF DriverConstants
  <2>3. Driver!Driven = {} /\ Driver!StartPasses(chunk, "drive")
        /\ drive' = [drive EXCEPT !.left = @ \ chunk]
        /\ UNCHANGED <<row, locked, clock, polled, heard, restarts>>
    BY <1>6 DEF Driver!NextChunk
  <2> HIDE DEF chunk
  <2>4. Driver!TypeOK'
    BY <2>1, <2>2, <2>3 DEF Driver!TypeOK, Driver!StartPasses
  <2>5. Driver!Driven' \in SUBSET chunk
    BY <2>3 DEF Driver!Driven, Driver!StartPasses
  <2>6. Cardinality(Driver!Driven') <= Chunk
    BY <2>1, <2>2, <2>5, SalesCount DEF DriverConstants
  <2>7. Driver!NoStampede'
    BY <2>6 DEF Driver!NoStampede, Driver!Cardinality, Cardinality
  <2> QED
    BY <2>3, <2>4, <2>7 DEF HeardAll
<1>7. CASE Driver!EndDrive
  BY <1>2, <1>7 DEF Driver!EndDrive, Driver!TypeOK, Driver!Quiet, HeardAll
<1>8. ASSUME NEW s \in Driver!Sales, NEW to \in States, Driver!SetRow(s, to),
             pass' = [pass EXCEPT ![s] = "none"], UNCHANGED <<drive, restarts>>
      PROVE  DriverInv'
  <2>1. Driver!TypeOK' /\ HeardAll'
    BY <1>8, SetRowEffect DEF Driver!TypeOK, Driver!OpenStates, HeardAll
  <2>2. Driver!Driven' \subseteq Driver!Driven
    BY <1>8 DEF Driver!Driven, Driver!TypeOK
  <2> QED
    BY <1>1, <2>1, <2>2
<1>9. ASSUME NEW s \in Driver!Sales, Driver!Returns(s) PROVE DriverInv'
  <2>1. PICK to \in Driver!OpenStates \cup {"closed"} : Driver!EndPass(s, to) \/ Driver!EndClose(s, to)
    BY <1>9 DEF Driver!Returns
  <2> QED
    BY <1>8, <2>1 DEF Driver!EndPass, Driver!EndClose, Driver!OpenStates
<1>10. ASSUME NEW s \in Driver!Sales, Driver!Cancel(s) PROVE DriverInv'
  <2>1. Driver!TypeOK' /\ HeardAll'
    BY <1>10, SetRowEffect DEF Driver!Cancel, Driver!TypeOK, Driver!OpenStates, HeardAll
  <2> QED
    BY <1>2, <1>10, <2>1 DEF Driver!Cancel
<1>11. ASSUME NEW s \in Driver!Sales, Driver!Notify(s) PROVE DriverInv'
  <2>1. Driver!TypeOK' /\ HeardAll'
    BY <1>11 DEF Driver!Notify, Driver!StartPasses, Driver!TypeOK, HeardAll
  <2>2. Driver!Driven' \subseteq Driver!Driven
    BY <1>11 DEF Driver!Notify, Driver!StartPasses, Driver!Driven
  <2> QED
    BY <1>1, <2>1, <2>2
<1>12. ASSUME NEW s \in Driver!Sales, Driver!Create(s) PROVE DriverInv'
  BY <1>2, <1>12 DEF Driver!Create, Driver!TypeOK, Driver!OpenStates, HeardAll
<1>13. ASSUME NEW s \in Driver!Sales, Driver!Poll(s) \/ Driver!GoesQuiet(s) PROVE DriverInv'
  BY <1>2, <1>13 DEF Driver!Poll, Driver!GoesQuiet, Driver!TypeOK, HeardAll
<1>14. ASSUME NEW s \in Driver!Sales, Driver!PayHold(s) \/ Driver!Ages(s) PROVE DriverInv'
  BY <1>2, <1>14 DEF Driver!PayHold, Driver!Ages, Driver!TypeOK, HeardAll
<1>15. CASE Driver!Restart
  <2>1. Driver!TypeOK' /\ HeardAll'
    BY <1>15 DEF Driver!Restart, Driver!TypeOK, Driver!Quiet, HeardAll, DriverConstants
  <2>2. Driver!Driven' \subseteq Driver!Driven
    BY <1>15 DEF Driver!Restart, Driver!Driven
  <2> QED
    BY <1>1, <2>1, <2>2
<1>16. CASE UNCHANGED Driver!vars
  BY <1>2, <1>16 DEF Driver!vars, Driver!TypeOK, HeardAll
<1> QED
  BY <1>3, <1>4, <1>5, <1>6, <1>7, <1>9, <1>10, <1>11, <1>12, <1>13, <1>14, <1>15, <1>16
     DEF Driver!Next, Driver!Sweep

\* Only CloseNext closes a checkout, and the process has heard of every poll.
LEMMA DriverClosesUnasked ==
  ASSUME DriverInv, [Driver!Next]_(Driver!vars), restarts' = 0, NEW s \in Driver!Sales,
         pass[s] # "close", pass'[s] = "close", clock[s] # "expired"
  PROVE  s \notin polled
<1> USE DEF DriverInv
<1>1. restarts = 0
  BY DEF Driver!Next, Driver!TypeOK, Driver!vars, Driver!Sweep, Driver!StartDrive,
         Driver!CloseNext, Driver!NextChunk, Driver!EndDrive, Driver!CollectDue,
         Driver!Returns, Driver!EndPass, Driver!EndClose, Driver!Create, Driver!Poll,
         Driver!Notify, Driver!Cancel, Driver!PayHold, Driver!Ages, Driver!GoesQuiet,
         Driver!Restart
<1>2. heard = polled
  BY <1>1 DEF HeardAll
<1>3. CASE Driver!CloseNext
  <2> DEFINE t == Driver!Min(Driver!Closable)
  <2>1. Driver!Closable \in SUBSET Driver!Sales /\ Driver!Closable # {}
    BY <1>3 DEF Driver!Closable, Driver!TypeOK, Driver!CloseNext
  <2>2. t \in Driver!Closable
    BY <2>1, DriverMin
  <2>3. pass' = [pass EXCEPT ![t] = "close"]
    BY <1>3 DEF Driver!CloseNext
  <2> HIDE DEF t
  <2>4. s = t
    BY <2>3
  <2> QED
    BY <1>2, <2>2, <2>4 DEF Driver!Closable, Driver!Dead
<1>4. CASE ~Driver!CloseNext
  BY <1>4 DEF Driver!Next, Driver!TypeOK, Driver!vars, Driver!Sweep, Driver!StartDrive,
         Driver!NextChunk, Driver!EndDrive, Driver!CollectDue, Driver!StartPasses,
         Driver!Returns, Driver!EndPass, Driver!EndClose, Driver!Create, Driver!Poll,
         Driver!Notify, Driver!Cancel, Driver!PayHold, Driver!Ages, Driver!GoesQuiet,
         Driver!Restart
<1> QED
  BY <1>3, <1>4

-----------------------------------------------------------------------------
(* The monitor of direct invoices *)

MonitorInv ==
  Monitor!TypeOK /\ Monitor!BookedOnceIfReceived /\ Monitor!WrapsLeftAlone

MonitorConstants ==
  Page \in Nat \ {0} /\ MaxBoots \in Nat /\ Monitor!Invoices \subseteq Nat

\* The first and the last n of a set are of it, and so is what is checked.
LEMMA PageOf ==
  ASSUME NEW S, NEW n
  PROVE  /\ Monitor!First(n, S) \in SUBSET S /\ Monitor!Last(n, S) \in SUBSET S
         /\ Monitor!Checked(S) \in SUBSET S
  BY DEF Monitor!First, Monitor!Last, Monitor!Checked

\* A full page has a last row.
LEMMA CursorType ==
  ASSUME MonitorConstants, NEW n \in Nat, NEW S \in SUBSET (1..n)
  PROVE  Monitor!CursorAfter(S) \in {0} \cup S
<1>1. CASE Monitor!Cardinality(S) # Page
  BY <1>1 DEF Monitor!CursorAfter
<1>2. CASE Monitor!Cardinality(S) = Page
  <2>1. Monitor!Cardinality(S) = Cardinality(S)
    BY DEF Monitor!Cardinality, Cardinality
  <2>2. S # {}
    BY <1>2, <2>1, FS_EmptySet DEF MonitorConstants
  <2>3. S \in SUBSET (0..n)
    OBVIOUS
  <2>4. PICK m \in S : \A i \in S : i <= m
    BY <2>2, <2>3, GreatestExists
  <2>5. Monitor!Max(S) \in S
    BY <2>4 DEF Monitor!Max
  <2> QED
    BY <1>2, <2>5 DEF Monitor!CursorAfter
<1> QED
  BY <1>1, <1>2

LEMMA MonitorInit == ASSUME MonitorConstants, Monitor!Init PROVE MonitorInv
  BY DEF Monitor!Init, MonitorInv, Monitor!TypeOK, Monitor!BookedOnceIfReceived,
         Monitor!WrapsLeftAlone, MonitorConstants

\* Only Settle writes receipts, and of an invoice that somebody saw paid.
LEMMA MonitorStep ==
  ASSUME MonitorConstants, MonitorInv, [Monitor!Next]_(Monitor!vars)
  PROVE  MonitorInv'
<1> USE DEF MonitorInv
<1>1. rows \in Nat
  BY DEF Monitor!TypeOK
<1>2. ASSUME UNCHANGED <<receipts, received>>, Monitor!TypeOK' PROVE MonitorInv'
  BY <1>2 DEF Monitor!BookedOnceIfReceived, Monitor!WrapsLeftAlone
<1>3. CASE Monitor!Mint
  <2>1. Monitor!TypeOK'
    BY <1>3 DEF Monitor!Mint, Monitor!TypeOK
  <2> QED
    BY <1>2, <1>3, <2>1 DEF Monitor!Mint
<1>4. CASE Monitor!StartSweep
  <2>1. PICK page \in Monitor!Pages :
          /\ cursor' = Monitor!CursorAfter(page)
          /\ batch' = [batch EXCEPT !["sweep"] = Monitor!Checked(page)]
    BY <1>4 DEF Monitor!StartSweep
  <2>2. Monitor!Unpaid \in SUBSET (1..rows)
    BY DEF Monitor!Unpaid
  <2>3. page \in SUBSET (1..rows)
    <3> DEFINE after == {i \in Monitor!Unpaid : i > cursor}
               from == {i \in Monitor!Unpaid : i >= cursor}
    <3>1. \E S \in {Monitor!Unpaid, after, from} : page = Monitor!First(Page, S)
      BY <2>1 DEF Monitor!Pages
    <3>2. after \in SUBSET (1..rows) /\ from \in SUBSET (1..rows)
      BY <2>2
    <3> HIDE DEF after, from
    <3> QED
      BY <2>2, <3>1, <3>2, PageOf
  <2>4. cursor' \in {0} \cup 1..rows
    BY <1>1, <2>1, <2>3, CursorType
  <2>5. Monitor!Checked(page) \in SUBSET (1..rows)
    BY <2>3, PageOf
  <2>6. Monitor!TypeOK'
    BY <1>4, <2>1, <2>4, <2>5 DEF Monitor!StartSweep, Monitor!TypeOK
  <2> QED
    BY <1>2, <1>4, <2>6 DEF Monitor!StartSweep
<1>5. CASE Monitor!StartReconcile
  <2>1. Monitor!Checked(Monitor!Last(Newest, Monitor!Unpaid)) \in SUBSET (1..rows)
    BY PageOf DEF Monitor!Unpaid
  <2>2. Monitor!TypeOK'
    BY <1>5, <2>1 DEF Monitor!StartReconcile, Monitor!TypeOK
  <2> QED
    BY <1>2, <1>5, <2>2 DEF Monitor!StartReconcile
<1>6. CASE Monitor!Restart
  <2>1. Monitor!TypeOK'
    BY <1>6 DEF Monitor!Restart, Monitor!TypeOK, MonitorConstants
  <2> QED
    BY <1>2, <1>6, <2>1 DEF Monitor!Restart
<1>7. ASSUME NEW i \in Monitor!Invoices, Monitor!Receive(i) PROVE MonitorInv'
  BY <1>7 DEF Monitor!Receive, Monitor!TypeOK, Monitor!BookedOnceIfReceived, Monitor!WrapsLeftAlone
<1>8. ASSUME NEW i \in Monitor!Invoices, NEW h \in Hooks, Monitor!Callback(h, i)
      PROVE  MonitorInv'
  <2>1. Monitor!TypeOK'
    BY <1>8 DEF Monitor!Callback, Monitor!TypeOK
  <2> QED
    BY <1>2, <1>8, <2>1 DEF Monitor!Callback
<1>9. ASSUME NEW i \in Monitor!Invoices, Monitor!PaidFromHere(i) PROVE MonitorInv'
  <2>1. Monitor!TypeOK'
    BY <1>9 DEF Monitor!PaidFromHere, Monitor!TypeOK
  <2> QED
    BY <1>2, <1>9, <2>1 DEF Monitor!PaidFromHere
<1>10. ASSUME NEW k \in Monitor!Readers, Monitor!CheckNext(k) \/ Monitor!CheckFails(k)
      PROVE  MonitorInv'
  <2>1. k \in Monitor!Callers
    BY DEF Monitor!Callers
  <2>2. Monitor!TypeOK'
    BY <1>10, <2>1 DEF Monitor!CheckNext, Monitor!CheckFails, Monitor!TypeOK
  <2> QED
    BY <1>2, <1>10, <2>2 DEF Monitor!CheckNext, Monitor!CheckFails
<1>11. ASSUME NEW k \in Monitor!Callers, Monitor!SettleFails(k) PROVE MonitorInv'
  <2>1. Monitor!TypeOK'
    BY <1>11 DEF Monitor!SettleFails, Monitor!TypeOK
  <2> QED
    BY <1>2, <1>11, <2>1 DEF Monitor!SettleFails
<1>12. ASSUME NEW k \in Monitor!Callers, Monitor!Settle(k) PROVE MonitorInv'
  <2> DEFINE i == found[k]
  <2>1. i \in received /\ i \in Monitor!Invoices
    BY <1>12 DEF Monitor!Settle, Monitor!TypeOK
  <2>2. found' = [found EXCEPT ![k] = 0]
        /\ UNCHANGED <<rows, received, cursor, batch, boots>>
    BY <1>12 DEF Monitor!Settle
  <2>3. CASE receipts[i] = 0 /\ Lanes[i] # "wrap"
    <3>1. receipts' = [receipts EXCEPT ![i] = 1]
      BY <1>12, <2>3 DEF Monitor!Settle
    <3>2. Monitor!TypeOK'
      BY <2>1, <2>2, <3>1 DEF Monitor!TypeOK
    <3>3. Monitor!BookedOnceIfReceived' /\ Monitor!WrapsLeftAlone'
      BY <2>1, <2>2, <2>3, <3>1
         DEF Monitor!TypeOK, Monitor!BookedOnceIfReceived, Monitor!WrapsLeftAlone
    <3> QED
      BY <3>2, <3>3
  <2>4. CASE ~(receipts[i] = 0 /\ Lanes[i] # "wrap")
    <3>1. UNCHANGED receipts
      BY <1>12, <2>4 DEF Monitor!Settle
    <3>2. Monitor!TypeOK'
      BY <2>2, <3>1 DEF Monitor!TypeOK
    <3> QED
      BY <1>2, <2>2, <3>1, <3>2
  <2> QED
    BY <2>3, <2>4
<1>13. CASE UNCHANGED Monitor!vars
  <2>1. Monitor!TypeOK'
    BY <1>13 DEF Monitor!vars, Monitor!TypeOK
  <2> QED
    BY <1>2, <1>13, <2>1 DEF Monitor!vars
<1> QED
  BY <1>3, <1>4, <1>5, <1>6, <1>7, <1>8, <1>9, <1>10, <1>11, <1>12, <1>13 DEF Monitor!Next

\* The monitor by itself: sweep, reconciles and callbacks book a paid invoice
\* once, an unpaid one never, and leave wrapped sales to the driver.
THEOREM MonitorBooksOnce ==
  ASSUME MonitorConstants
  PROVE  Monitor!Spec => [](Monitor!BookedOnceIfReceived /\ Monitor!WrapsLeftAlone)
<1>1. Monitor!Init => MonitorInv
  BY MonitorInit
<1>2. MonitorInv /\ [Monitor!Next]_(Monitor!vars) => MonitorInv'
  BY MonitorStep
<1>3. MonitorInv => Monitor!BookedOnceIfReceived /\ Monitor!WrapsLeftAlone
  BY DEF MonitorInv
<1> QED
  BY <1>1, <1>2, <1>3, PTL DEF Monitor!Spec

-----------------------------------------------------------------------------
(* The three side by side *)

ServicesConstants == GateConstants /\ DriverConstants /\ MonitorConstants

ServicesInv == GateInv /\ DriverInv /\ MonitorInv

LEMMA ServicesStart == ASSUME ServicesConstants, ServicesInit PROVE ServicesInv
  BY GateInit, DriverInit, MonitorInit DEF ServicesConstants, ServicesInit, ServicesInv

\* A step of the whole is a step of one service at most.
LEMMA OneMoves ==
  ASSUME [ServicesNext]_all
  PROVE  [Next]_vars /\ [Driver!Next]_(Driver!vars) /\ [Monitor!Next]_(Monitor!vars)
  BY DEF ServicesNext, Step, all, vars, gateVars, Driver!vars, driverVars, Monitor!vars, monitorVars

LEMMA ServicesStep ==
  ASSUME ServicesConstants, ServicesInv, [ServicesNext]_all
  PROVE  ServicesInv'
  BY OneMoves, GateStep, DriverStep, MonitorStep DEF ServicesConstants, ServicesInv

LEMMA SpecServicesInv ==
  ASSUME ServicesConstants PROVE ServicesFairSpec => []ServicesInv
<1>1. ServicesInit => ServicesInv
  BY ServicesStart
<1>2. ServicesInv /\ [ServicesNext]_all => ServicesInv'
  BY ServicesStep
<1> QED
  BY <1>1, <1>2, PTL DEF ServicesFairSpec

-----------------------------------------------------------------------------
(* Theorems about the whole *)

\* Every service's state has its type.
THEOREM SpecAllTypesOK == ASSUME ServicesConstants PROVE ServicesFairSpec => []AllTypesOK
<1>1. ServicesInv => AllTypesOK
  BY DEF ServicesInv, GateInv, DriverInv, MonitorInv, AllTypesOK
<1> QED
  BY <1>1, SpecServicesInv, PTL

\* A sweep keeps to MAX_CONCURRENT_ADVANCES whatever kicks, notifications and
\* closes do beside it; the sweep, the accounts' reconciles and the callbacks
\* together book a paid invoice once, an unpaid one and a wrapped sale never.
THEOREM SpecSweepsAreSafe == ASSUME ServicesConstants PROVE ServicesFairSpec => []SweepsAreSafe
<1>1. ServicesInv => SweepsAreSafe
  BY DEF ServicesInv, DriverInv, MonitorInv, SweepsAreSafe
<1> QED
  BY <1>1, SpecServicesInv, PTL

\* Before the process has restarted, a sweep closes an unexpired checkout only
\* if no device asked about it for three minutes.
THEOREM SpecOnlyUnaskedAbandoned ==
  ASSUME ServicesConstants PROVE ServicesFairSpec => OnlyUnaskedAbandoned
<1> DEFINE Unasked ==
      restarts' = 0 =>
        \A s \in Driver!Sales :
          (pass[s] # "close" /\ pass'[s] = "close" /\ clock[s] # "expired") => s \notin polled
<1>1. ServicesInv /\ [ServicesNext]_all => [Unasked]_(Driver!vars)
  BY OneMoves, DriverClosesUnasked DEF ServicesInv
<1> QED
  BY <1>1, SpecServicesInv, PTL DEF ServicesFairSpec, OnlyUnaskedAbandoned, Driver!OnlyUnaskedAbandoned

=============================================================================
