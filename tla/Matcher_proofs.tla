--------------------------- MODULE Matcher_proofs ---------------------------
(***************************************************************************)
(* Proofs about Matcher for any set of orders, any terms, any batch limit, *)
(* and about its Accounts.                                                 *)
(***************************************************************************)
EXTENDS Accounts, SequenceTheorems, FoldTheorems

-----------------------------------------------------------------------------
(* The inductive invariant. *)

\* Nothing of it differs from what was posted but the amounts; both are left.
Whole(x) == x.makeAmount > 0 /\ x.takeAmount > 0

\* Every order in the book is there once, was posted, and has both amounts.
BookInv ==
    /\ IsFiniteSet(orderBook)
    /\ \A x, y \in orderBook : x.id = y.id => x = y
    /\ \A x \in orderBook : pc[x.id] # "idle" /\ Whole(x)

\* mu is held by the one handler in a round.
LockInv ==
    /\ \A o \in OrderIds : pc[o] \in {"matching", "tracking"} <=> mu = o
    /\ \A o \in OrderIds : pc[o] # "idle" => posted[o] \in Order

\* The halves of the book: an order is in one place only, both halves are in
\* price-time priority, and every bid crosses every ask.
HalvesInv ==
    /\ \A x, y \in DOMAIN bids : bids[x].id = bids[y].id => x = y
    /\ \A x, y \in DOMAIN asks : asks[x].id = asks[y].id => x = y
    /\ \A x \in DOMAIN bids, y \in DOMAIN asks :
          bids[x].id # asks[y].id /\ bids[x].price >= asks[y].price
    /\ \A x, y \in DOMAIN bids : x < y => SortsBefore(bids[x], bids[y])
    /\ \A x, y \in DOMAIN asks : x < y => SortsBefore(asks[x], asks[y])
    /\ \A x \in DOMAIN bids : pc[bids[x].id] # "idle" /\ bids[x].takeAmount > 0
    /\ \A x \in DOMAIN asks : pc[asks[x].id] # "idle" /\ asks[x].makeAmount > 0

\* Before a pointer an order is used up, from it on something is left.
PointerInv ==
    /\ \A x \in DOMAIN bids : x < i => bids[x].makeAmount <= Epsilon
    /\ \A x \in DOMAIN bids : x >= i => bids[x].makeAmount > 0
    /\ \A x \in DOMAIN asks : x < j => asks[x].takeAmount <= Epsilon
    /\ \A x \in DOMAIN asks : x >= j => asks[x].takeAmount > 0

\* A list of fills in priority.
InPriority(fs) ==
    \A x, y \in DOMAIN fs : x < y =>
        /\ CorrectlyOrdered(fs[x].maker, fs[y].maker)
        /\ CorrectlyOrdered(fs[x].taker, fs[y].taker)

\* The fills of the round, and what is left to fill after them.
FillsInv ==
    /\ InPriority(fills)
    /\ \A x \in DOMAIN fills :
        /\ \A y \in DOMAIN bids : y >= i => CorrectlyOrdered(fills[x].maker, bids[y])
        /\ \A y \in DOMAIN asks : y >= j => CorrectlyOrdered(fills[x].taker, asks[y])

\* Neither half is empty, and the pointers move only with a fill.
StartedInv ==
    /\ 1 \in DOMAIN bids /\ 1 \in DOMAIN asks
    /\ fills = <<>> => i = 1 /\ j = 1

RoundInv ==
    (\E o \in OrderIds : pc[o] = "matching") =>
        HalvesInv /\ PointerInv /\ FillsInv /\ StartedInv

\* The orders that may still trade.
LiveIds ==
    IF \E o \in OrderIds : pc[o] = "matching"
    THEN {bids[k].id : k \in {k \in DOMAIN bids : k >= i}}
         \cup {asks[k].id : k \in {k \in DOMAIN asks : k >= j}}
    ELSE {x.id : x \in orderBook}

Gone(id) == pc[id] # "idle" /\ id \notin LiveIds

\* A fill has used up one of its orders.
Spent(f) == Gone(f.maker.id) \/ Gone(f.taker.id)

SpentInv ==
    /\ \A o \in OrderIds : \A k \in DOMAIN batch[o] : Spent(batch[o][k])
    /\ \A o \in OrderIds : pc[o] = "matching" =>
        /\ batch[o] = <<>>
        /\ \A k \in DOMAIN fills : Spent(fills[k])
        /\ \A k, l \in DOMAIN fills : k # l => fills[k] # fills[l]
        /\ \A p \in OrderIds : \A k \in DOMAIN fills, l \in DOMAIN batch[p] :
              fills[k] # batch[p][l]
    /\ \A o \in OrderIds : pc[o] \in {"idle", "appended"} => batch[o] = <<>>

IInv == /\ TypeOK /\ BookInv /\ LockInv /\ RoundInv /\ SpentInv
        /\ PriorityKept /\ NoFillTwice

-----------------------------------------------------------------------------
(* Rounding to the eighth decimal. *)

LEMMA ModFacts ==
    ASSUME NEW a \in Nat, NEW g \in Nat \ {0}
    PROVE  /\ a % g \in 0 .. g - 1
           /\ a % g <= a
           /\ a < g => a % g = a
           /\ a = g => a % g = 0
<1>1. a % g \in 0 .. g - 1
  OBVIOUS
<1>2. a < g => a % g = a
  OBVIOUS
<1>3. a = g => a % g = 0
  OBVIOUS
<1> QED  BY <1>1, <1>2, <1>3

\* Rounding keeps an amount above the epsilon positive and lifts none above it.
LEMMA FormatFacts ==
    ASSUME NEW a \in Amount
    PROVE  /\ FormatAmount(a) \in Amount
           /\ a > Epsilon => FormatAmount(a) > 0
           /\ a <= Epsilon => FormatAmount(a) <= Epsilon
<1> DEFINE r == a % Grain
<1>1. Grain \in Nat \ {0}
  BY GrainAssumption
<1>2. /\ r \in 0 .. Grain - 1 /\ r <= a
      /\ a < Grain => r = a
      /\ a = Grain => r = 0
  BY <1>1, ModFacts DEF Amount
<1> HIDE DEF r
<1>3. FormatAmount(a) = IF 2 * r < Grain THEN a - r ELSE a + (Grain - r)
  BY DEF FormatAmount, r
<1> QED  BY <1>1, <1>2, <1>3 DEF Amount, Epsilon

-----------------------------------------------------------------------------
(* Fills that have used up an order. *)

LEMMA BatchFills ==
    ASSUME TypeOK, NEW o \in OrderIds, NEW k \in DOMAIN batch[o]
    PROVE  batch[o][k] \in Fill /\ k \in 1 .. Len(batch[o])
<1>1. batch[o] \in Seq(Fill)
  BY DEF TypeOK
<1> QED  BY <1>1

LEMMA RoundFills ==
    ASSUME TypeOK, NEW k \in DOMAIN fills
    PROVE  fills[k] \in Fill /\ k \in 1 .. Len(fills)
<1>1. fills \in Seq(Fill)
  BY DEF TypeOK
<1> QED  BY <1>1

LEMMA SpentStays ==
    ASSUME \A id \in OrderIds : Gone(id) => Gone(id)',
           NEW f \in Fill, Spent(f)
    PROVE  Spent(f)'
<1>1. f.maker.id \in OrderIds /\ f.taker.id \in OrderIds
  BY DEF Fill, Order
<1> QED  BY <1>1 DEF Spent

-----------------------------------------------------------------------------
(* Initially, and over the steps outside a round. *)

LEMMA InitInv == Init => IInv
<1> SUFFICES ASSUME Init PROVE IInv
  OBVIOUS
<1> USE DEF Init
<1>1. TypeOK
  BY DEF TypeOK
<1>2. BookInv
  BY FS_EmptySet DEF BookInv
<1>3. LockInv
  BY IdsAssumption DEF LockInv
<1>4. RoundInv /\ SpentInv
  BY DEF RoundInv, SpentInv
<1>5. PriorityKept /\ NoFillTwice
  BY DEF PriorityKept, NoFillTwice
<1> QED  BY <1>1, <1>2, <1>3, <1>4, <1>5 DEF IInv

LEMMA PostInv == ASSUME NEW o \in OrderIds, IInv, Post(o) PROVE IInv'
<1> USE DEF Post, roundVars, volumeVars
<1> DEFINE new == posted'[o]
<1>1. /\ new \in Order /\ new.id = o /\ Whole(new)
      /\ posted' = [posted EXCEPT ![o] = new]
  <2>1. PICK t \in Terms : Valid(t) /\ posted' = [posted EXCEPT ![o] =
             [id |-> o, price |-> t.price, timestamp |-> t.timestamp,
              makeAmount |-> t.makeAmount, takeAmount |-> t.takeAmount]]
    BY DEF Post
  <2>2. t \in [price : Nat \ {0}, timestamp : Nat \ {0},
               makeAmount : Nat \ {0}, takeAmount : Nat \ {0}]
    BY <2>1, TermsAssumption DEF Valid, Parses
  <2>3. posted \in [OrderIds -> Order \cup {Nobody}]
    BY DEF IInv, TypeOK
  <2> QED  BY <2>1, <2>2, <2>3 DEF Order, Amount, Whole
<1> HIDE DEF new
<1>2. pc[o] = "idle" /\ pc' = [pc EXCEPT ![o] = "appended"] /\ mu = Nobody
  OBVIOUS
<1>3. orderBook' = orderBook \cup {new}
  BY DEF new
<1>4. \A p \in OrderIds : pc[p] # "matching" /\ pc'[p] # "matching"
  BY <1>2, IdsAssumption DEF IInv, LockInv, TypeOK
<1>5. TypeOK'
  BY <1>1, <1>2, <1>3 DEF IInv, TypeOK
<1>6. BookInv'
  <2>1. IsFiniteSet(orderBook')
    BY <1>3, FS_AddElement DEF IInv, BookInv
  <2>2. \A x \in orderBook : x \in Order /\ x.id # o
    BY <1>2 DEF IInv, BookInv, TypeOK
  <2> QED  BY <1>1, <1>2, <1>3, <2>1, <2>2 DEF IInv, BookInv, TypeOK, Order
<1>7. LockInv'
  BY <1>1, <1>2, IdsAssumption DEF IInv, LockInv, TypeOK
<1>8. RoundInv'
  BY <1>4 DEF RoundInv
<1>9. \A id \in OrderIds : Gone(id) => Gone(id)'
  BY <1>1, <1>2, <1>3, <1>4 DEF Gone, LiveIds, IInv, TypeOK
<1>10. batch' = batch /\ PriorityKept' /\ NoFillTwice'
  BY DEF IInv, PriorityKept, NoFillTwice
<1>11. SpentInv'
  <2>1. \A p \in OrderIds : \A k \in DOMAIN batch[p] : Spent(batch[p][k])'
    BY <1>9, BatchFills, SpentStays DEF IInv, SpentInv
  <2> QED  BY <1>2, <1>4, <1>10, <2>1 DEF IInv, SpentInv, TypeOK
<1> QED  BY <1>5, <1>6, <1>7, <1>8, <1>10, <1>11 DEF IInv

\* What a step changes outside a round matters to the round and to the spent
\* orders only through pc and the book.
LEMMA NotEnoughInv == ASSUME NEW o \in OrderIds, IInv, NotEnoughOrders(o) PROVE IInv'
<1> USE DEF NotEnoughOrders, roundVars, volumeVars
<1>1. pc[o] = "appended" /\ pc' = [pc EXCEPT ![o] = "replied"] /\ mu = Nobody
  OBVIOUS
<1>2. \A p \in OrderIds : pc[p] # "matching" /\ pc'[p] # "matching"
  BY <1>1, IdsAssumption DEF IInv, LockInv, TypeOK
<1>3. \A id \in OrderIds : pc'[id] = "idle" <=> pc[id] = "idle"
  BY <1>1 DEF IInv, TypeOK
<1>4. TypeOK'
  BY <1>1 DEF IInv, TypeOK
<1>5. BookInv'
  BY <1>3 DEF IInv, BookInv, TypeOK, Order
<1>6. LockInv'
  BY <1>1, <1>3 DEF IInv, LockInv, TypeOK
<1>7. RoundInv'
  BY <1>2 DEF RoundInv
<1>8. \A id \in OrderIds : Gone(id) => Gone(id)'
  BY <1>2, <1>3 DEF Gone, LiveIds
<1>9. PriorityKept' /\ NoFillTwice'
  BY DEF IInv, PriorityKept, NoFillTwice
<1>10. \A p \in OrderIds : \A k \in DOMAIN batch[p] : Spent(batch[p][k])'
  BY <1>8, BatchFills, SpentStays DEF IInv, SpentInv
<1>11. SpentInv'
  BY <1>1, <1>2, <1>10 DEF IInv, SpentInv, TypeOK
<1> QED  BY <1>4, <1>5, <1>6, <1>7, <1>9, <1>11 DEF IInv

LEMMA TrackInv == ASSUME NEW o \in OrderIds, IInv, TrackVolume(o) PROVE IInv'
<1> USE DEF TrackVolume, roundVars, volumeVars
<1> DEFINE quantity == batch[o][tracked + 1].quantity
           entry == [volume |-> quantity, value |-> posted[o].price * quantity]
<1>1. quantity \in Nat /\ posted[o].price \in Nat
  <2>1. tracked + 1 \in DOMAIN batch[o]
    BY DEF IInv, TypeOK
  <2>2. batch[o][tracked + 1] \in Fill
    BY <2>1, BatchFills DEF IInv
  <2>3. posted[o] \in Order
    BY DEF IInv, LockInv
  <2> QED  BY <2>2, <2>3 DEF Fill, Order, Amount
<1>2. entry \in VolumeEntry
  <2>1. \A a, b \in Nat : a * b \in Nat
    OBVIOUS
  <2> QED  BY <1>1, <2>1 DEF VolumeEntry, Amount
<1>3. TypeOK'
  <2>1. totalVolume' \in Nat /\ tracked' \in Nat
    BY <1>1 DEF IInv, TypeOK
  <2>2. volumeData' = KeepLast(Append(volumeData, entry))
    OBVIOUS
  <2> HIDE DEF entry
  <2>3. Append(volumeData, entry) \in Seq(VolumeEntry) /\ Append(volumeData, entry) # <<>>
    <3>1. volumeData \in Seq(VolumeEntry)
      BY DEF IInv, TypeOK
    <3> QED  BY <1>2, <3>1, AppendProperties
  <2>4. volumeData' \in Seq(VolumeEntry)
    BY <2>2, <2>3, HeadTailProperties DEF KeepLast
  <2> QED  BY <2>1, <2>4 DEF IInv, TypeOK
<1>4. BookInv' /\ LockInv'
  BY DEF IInv, BookInv, LockInv
<1>5. RoundInv'
  BY DEF IInv, RoundInv, HalvesInv, PointerInv, FillsInv, InPriority, StartedInv
<1>6. SpentInv'
  <2>1. \A id \in OrderIds : Gone(id) => Gone(id)'
    BY DEF Gone, LiveIds
  <2>2. \A p \in OrderIds : \A k \in DOMAIN batch[p] : Spent(batch[p][k])'
    BY <2>1, BatchFills, SpentStays DEF IInv, SpentInv
  <2>3. \A p \in OrderIds : pc[p] # "matching"
    BY IdsAssumption DEF IInv, LockInv
  <2> QED  BY <2>2, <2>3 DEF IInv, SpentInv
<1>7. PriorityKept' /\ NoFillTwice'
  BY DEF IInv, PriorityKept, NoFillTwice
<1> QED  BY <1>3, <1>4, <1>5, <1>6, <1>7 DEF IInv

LEMMA UnlockInv == ASSUME NEW o \in OrderIds, IInv, Unlock(o) PROVE IInv'
<1> USE DEF Unlock, roundVars, volumeVars
<1>1. /\ pc[o] = "tracking" /\ mu = o /\ mu' = Nobody
      /\ pc'[o] \in {"replied", "matched"}
      /\ \A p \in OrderIds \ {o} : pc'[p] = pc[p]
  BY DEF IInv, LockInv, TypeOK
<1>2. \A p \in OrderIds : pc[p] # "matching" /\ pc'[p] \notin {"matching", "tracking"}
  BY <1>1 DEF IInv, LockInv
<1>3. \A id \in OrderIds : pc'[id] = "idle" <=> pc[id] = "idle"
  BY <1>1
<1>4. TypeOK'
  BY <1>1 DEF IInv, TypeOK
<1>5. BookInv'
  BY <1>3 DEF IInv, BookInv, TypeOK, Order
<1>6. LockInv'
  BY <1>1, <1>2, <1>3, IdsAssumption DEF IInv, LockInv
<1>7. RoundInv'
  BY <1>2 DEF RoundInv
<1>8. \A id \in OrderIds : Gone(id) => Gone(id)'
  BY <1>2, <1>3 DEF Gone, LiveIds
<1>9. PriorityKept' /\ NoFillTwice'
  BY DEF IInv, PriorityKept, NoFillTwice
<1>10. \A p \in OrderIds : \A k \in DOMAIN batch[p] : Spent(batch[p][k])'
  BY <1>8, BatchFills, SpentStays DEF IInv, SpentInv
<1>11. SpentInv'
  BY <1>1, <1>2, <1>10 DEF IInv, SpentInv
<1> QED  BY <1>4, <1>5, <1>6, <1>7, <1>9, <1>11 DEF IInv

-----------------------------------------------------------------------------
(* The start of a round: the book, sorted and cut in two. *)

LEMMA SplitFacts ==
    ASSUME NEW S, NEW n \in Nat, NEW m \in 0 .. n, NEW s \in [1 .. n -> S]
    PROVE  /\ SubSeq(s, 1, m) \in Seq(S) /\ DOMAIN SubSeq(s, 1, m) = 1 .. m
           /\ \A k \in 1 .. m : SubSeq(s, 1, m)[k] = s[k]
           /\ SubSeq(s, m + 1, n) \in Seq(S) /\ DOMAIN SubSeq(s, m + 1, n) = 1 .. n - m
           /\ \A k \in 1 .. n - m : SubSeq(s, m + 1, n)[k] = s[m + k]
<1>1. /\ SubSeq(s, 1, m) \in Seq(S) /\ Len(SubSeq(s, 1, m)) = m
      /\ \A k \in 1 .. m : SubSeq(s, 1, m)[k] = s[k]
  <2>1. \A k \in 1 .. m : s[k] \in S
    OBVIOUS
  <2> QED  BY <2>1, SubSeqProperties
<1>2. /\ SubSeq(s, m + 1, n) \in Seq(S) /\ Len(SubSeq(s, m + 1, n)) = n - m
      /\ \A k \in 1 .. n - m : SubSeq(s, m + 1, n)[k] = s[m + k]
  <2>1. \A k \in m + 1 .. n : s[k] \in S
    OBVIOUS
  <2>2. \A k \in 1 .. n - m : m + 1 + k - 1 = m + k
    OBVIOUS
  <2>3. n - (m + 1) + 1 = n - m /\ m + 1 \in Int
    OBVIOUS
  <2>4. /\ SubSeq(s, m + 1, n) \in Seq(S)
        /\ Len(SubSeq(s, m + 1, n)) = IF m + 1 <= n THEN n - (m + 1) + 1 ELSE 0
        /\ \A k \in 1 .. n - (m + 1) + 1 : SubSeq(s, m + 1, n)[k] = s[m + 1 + k - 1]
    BY <2>1, <2>3, SubSeqProperties
  <2> QED  BY <2>2, <2>3, <2>4
<1>3. \A q \in Seq(S) : DOMAIN q = 1 .. Len(q)
  OBVIOUS
<1> QED  BY <1>1, <1>2, <1>3

LEMMA StartInv == ASSUME NEW o \in OrderIds, IInv, StartMatch(o) PROVE IInv'
<1> USE DEF StartMatch, roundVars, volumeVars
<1> DEFINE n == Cardinality(orderBook)
           m == Midpoint(n)
<1>1. n \in Nat /\ m \in 1 .. n /\ n - m >= 1
  <2>1. n \in Nat /\ n >= 2
    BY FS_CardinalityType DEF IInv, BookInv
  <2> QED  BY <2>1 DEF Midpoint
<1>2. PICK s \in Sorted(orderBook) : bids' = SubSeq(s, 1, m) /\ asks' = SubSeq(s, m + 1, n)
  OBVIOUS
<1>3. /\ s \in [1 .. n -> orderBook]
      /\ \A x, y \in 1 .. n : x < y => s[x] # s[y] /\ SortsBefore(s[x], s[y])
  BY <1>2 DEF Sorted
<1>4. /\ pc[o] = "appended" /\ pc' = [pc EXCEPT ![o] = "matching"] /\ mu = Nobody
      /\ mu' = o /\ fills' = <<>> /\ i' = 1 /\ j' = 1 /\ batch' = batch
      /\ orderBook' = orderBook /\ posted' = posted
  OBVIOUS
<1> HIDE DEF n, m, StartMatch
<1>5. /\ bids' \in Seq(Order) /\ DOMAIN bids' = 1 .. m
      /\ \A k \in 1 .. m : bids'[k] = s[k]
      /\ asks' \in Seq(Order) /\ DOMAIN asks' = 1 .. n - m
      /\ \A k \in 1 .. n - m : asks'[k] = s[m + k]
  <2>1. s \in [1 .. n -> Order] /\ m \in 0 .. n
    BY <1>1, <1>3 DEF IInv, TypeOK
  <2>2. /\ SubSeq(s, 1, m) \in Seq(Order) /\ DOMAIN SubSeq(s, 1, m) = 1 .. m
        /\ \A k \in 1 .. m : SubSeq(s, 1, m)[k] = s[k]
        /\ SubSeq(s, m + 1, n) \in Seq(Order) /\ DOMAIN SubSeq(s, m + 1, n) = 1 .. n - m
        /\ \A k \in 1 .. n - m : SubSeq(s, m + 1, n)[k] = s[m + k]
    BY <1>1, <2>1, SplitFacts
  <2> QED  BY <1>2, <2>2
<1>6. \A x, y \in 1 .. n : s[x].id = s[y].id => x = y
  BY <1>1, <1>3 DEF IInv, BookInv
<1>7. \A x \in 1 .. n : s[x] \in orderBook /\ s[x] \in Order /\ Whole(s[x])
                      /\ pc[s[x].id] # "idle" /\ pc'[s[x].id] # "idle"
  BY <1>3, <1>4 DEF IInv, TypeOK, BookInv, Order
<1>8. TypeOK'
  <2>1. fills' \in Seq(Fill) /\ i' \in 1 .. Len(bids') + 1 /\ j' \in 1 .. Len(asks') + 1
    BY <1>4, <1>5
  <2>2. UNCHANGED <<totalVolume, volumeData>> /\ tracked' = 0
    BY DEF StartMatch
  <2> QED  BY <1>4, <1>5, <2>1, <2>2 DEF IInv, TypeOK
<1>9. BookInv'
  BY <1>4 DEF IInv, BookInv, TypeOK, Order
<1>10. LockInv'
  BY <1>4, IdsAssumption DEF IInv, LockInv, TypeOK
<1>11. HalvesInv'
  <2>1. /\ \A x, y \in DOMAIN bids' : bids'[x].id = bids'[y].id => x = y
        /\ \A x, y \in DOMAIN asks' : asks'[x].id = asks'[y].id => x = y
        /\ \A x \in DOMAIN bids', y \in DOMAIN asks' : bids'[x].id # asks'[y].id
    <3>1. \A x \in DOMAIN bids' : x \in 1 .. n /\ x <= m /\ bids'[x] = s[x]
      BY <1>1, <1>5
    <3>2. \A x \in DOMAIN asks' : x \in Int /\ m + x \in 1 .. n /\ m < m + x
                                  /\ asks'[x] = s[m + x]
      BY <1>1, <1>5
    <3>3. \A x, y \in DOMAIN asks' : m + x = m + y => x = y
      BY <1>1, <3>2
    <3> QED  BY <1>1, <1>6, <3>1, <3>2, <3>3
  <2>2. \A x \in DOMAIN bids', y \in DOMAIN asks' : bids'[x].price >= asks'[y].price
    <3> SUFFICES ASSUME NEW x \in DOMAIN bids', NEW y \in DOMAIN asks'
                 PROVE  bids'[x].price >= asks'[y].price
      OBVIOUS
    <3>1. x \in 1 .. n /\ m + y \in 1 .. n /\ x < m + y
      BY <1>1, <1>5
    <3>2. SortsBefore(s[x], s[m + y])
      BY <3>1, <1>3
    <3>3. bids'[x] = s[x] /\ asks'[y] = s[m + y]
      BY <1>5
    <3> QED  BY <1>7, <3>1, <3>2, <3>3 DEF SortsBefore, Order
  <2>3. \A x, y \in DOMAIN bids' : x < y => SortsBefore(bids'[x], bids'[y])
    BY <1>1, <1>3, <1>5
  <2>4. \A x, y \in DOMAIN asks' : x < y => SortsBefore(asks'[x], asks'[y])
    <3> SUFFICES ASSUME NEW x \in DOMAIN asks', NEW y \in DOMAIN asks', x < y
                 PROVE  SortsBefore(asks'[x], asks'[y])
      OBVIOUS
    <3>1. m + x \in 1 .. n /\ m + y \in 1 .. n /\ m + x < m + y
      BY <1>1, <1>5
    <3> QED  BY <1>3, <1>5, <3>1
  <2>5. \A x \in DOMAIN bids' : pc'[bids'[x].id] # "idle" /\ bids'[x].takeAmount > 0
    BY <1>1, <1>5, <1>7 DEF Whole
  <2>6. \A x \in DOMAIN asks' : pc'[asks'[x].id] # "idle" /\ asks'[x].makeAmount > 0
    <3> SUFFICES ASSUME NEW x \in DOMAIN asks'
                 PROVE  pc'[asks'[x].id] # "idle" /\ asks'[x].makeAmount > 0
      OBVIOUS
    <3>1. m + x \in 1 .. n /\ asks'[x] = s[m + x]
      BY <1>1, <1>5
    <3> QED  BY <1>7, <3>1 DEF Whole
  <2> QED  BY <2>1, <2>2, <2>3, <2>4, <2>5, <2>6 DEF HalvesInv, SortsBefore
<1>12. PointerInv'
  <2>1. \A x \in DOMAIN bids' : bids'[x].makeAmount > 0
    BY <1>1, <1>5, <1>7 DEF Whole
  <2>2. \A x \in DOMAIN asks' : asks'[x].takeAmount > 0
    <3> SUFFICES ASSUME NEW x \in DOMAIN asks' PROVE asks'[x].takeAmount > 0
      OBVIOUS
    <3>1. m + x \in 1 .. n /\ asks'[x] = s[m + x]
      BY <1>1, <1>5
    <3> QED  BY <1>7, <3>1 DEF Whole
  <2> QED  BY <1>4, <1>5, <2>1, <2>2 DEF PointerInv
<1>13. FillsInv'
  BY <1>4 DEF FillsInv, InPriority
<1>14. RoundInv'
  BY <1>1, <1>4, <1>5, <1>11, <1>12, <1>13 DEF RoundInv, StartedInv
<1>15. \A id \in OrderIds : Gone(id) => Gone(id)'
  <2>1. LiveIds = {x.id : x \in orderBook}
    BY <1>4, IdsAssumption DEF LiveIds, IInv, LockInv
  <2>2. LiveIds' \subseteq LiveIds
    <3>1. \A k \in DOMAIN bids' : bids'[k] \in orderBook
      BY <1>1, <1>5, <1>7
    <3>2. \A k \in DOMAIN asks' : asks'[k] \in orderBook
      <4> SUFFICES ASSUME NEW k \in DOMAIN asks' PROVE asks'[k] \in orderBook
        OBVIOUS
      <4>1. m + k \in 1 .. n /\ asks'[k] = s[m + k]
        BY <1>1, <1>5
      <4> QED  BY <1>7, <4>1
    <3>3. pc'[o] = "matching"
      BY <1>4 DEF IInv, TypeOK
    <3> QED  BY <2>1, <3>1, <3>2, <3>3 DEF LiveIds
  <2> QED  BY <2>2, <1>4 DEF Gone, IInv, TypeOK
<1>16. SpentInv'
  <2>1. \A p \in OrderIds : \A k \in DOMAIN batch[p] : Spent(batch[p][k])'
    BY <1>4, <1>15, BatchFills, SpentStays DEF IInv, SpentInv
  <2>2. \A p \in OrderIds : pc'[p] = "matching" => p = o
    BY <1>4, IdsAssumption DEF IInv, LockInv, TypeOK
  <2>3. batch[o] = <<>>
    BY <1>4 DEF IInv, SpentInv
  <2> QED  BY <1>4, <2>1, <2>2, <2>3 DEF IInv, SpentInv, TypeOK
<1>17. PriorityKept' /\ NoFillTwice'
  BY <1>4 DEF IInv, PriorityKept, NoFillTwice
<1> QED  BY <1>8, <1>9, <1>10, <1>14, <1>16, <1>17 DEF IInv

-----------------------------------------------------------------------------
(* An iteration of the loop. *)

\* Replacing one amount of one order of a half leaves everything else of it.
LEMMA MakeReplaced ==
    ASSUME NEW s \in Seq(Order), NEW k \in DOMAIN s, NEW a \in Amount
    PROVE  LET r == [s EXCEPT ![k].makeAmount = a]
           IN  /\ r \in Seq(Order) /\ DOMAIN r = DOMAIN s /\ Len(r) = Len(s)
               /\ \A x \in DOMAIN s : x # k => r[x] = s[x]
               /\ r[k].makeAmount = a
               /\ \A x \in DOMAIN s :
                    /\ r[x].id = s[x].id /\ r[x].price = s[x].price
                    /\ r[x].timestamp = s[x].timestamp
                    /\ r[x].takeAmount = s[x].takeAmount
<1> DEFINE e == [s[k] EXCEPT !.makeAmount = a]
           r == [s EXCEPT ![k] = e]
<1>1. s[k] \in Order
  OBVIOUS
<1>2. /\ e \in Order /\ e.makeAmount = a /\ e.id = s[k].id /\ e.price = s[k].price
      /\ e.timestamp = s[k].timestamp /\ e.takeAmount = s[k].takeAmount
  BY <1>1 DEF Order
<1> HIDE DEF e
<1>3. /\ r \in Seq(Order) /\ DOMAIN r = DOMAIN s /\ Len(r) = Len(s)
      /\ \A x \in DOMAIN s : x # k => r[x] = s[x]
      /\ r[k] = e
  BY <1>2
<1>4. \A x \in DOMAIN s :
        /\ r[x].id = s[x].id /\ r[x].price = s[x].price
        /\ r[x].timestamp = s[x].timestamp
        /\ r[x].takeAmount = s[x].takeAmount
  BY <1>2, <1>3
<1> QED  BY <1>2, <1>3, <1>4 DEF e

LEMMA TakeReplaced ==
    ASSUME NEW s \in Seq(Order), NEW k \in DOMAIN s, NEW a \in Amount
    PROVE  LET r == [s EXCEPT ![k].takeAmount = a]
           IN  /\ r \in Seq(Order) /\ DOMAIN r = DOMAIN s /\ Len(r) = Len(s)
               /\ \A x \in DOMAIN s : x # k => r[x] = s[x]
               /\ r[k].takeAmount = a
               /\ \A x \in DOMAIN s :
                    /\ r[x].id = s[x].id /\ r[x].price = s[x].price
                    /\ r[x].timestamp = s[x].timestamp
                    /\ r[x].makeAmount = s[x].makeAmount
<1> DEFINE e == [s[k] EXCEPT !.takeAmount = a]
           r == [s EXCEPT ![k] = e]
<1>1. s[k] \in Order
  OBVIOUS
<1>2. /\ e \in Order /\ e.takeAmount = a /\ e.id = s[k].id /\ e.price = s[k].price
      /\ e.timestamp = s[k].timestamp /\ e.makeAmount = s[k].makeAmount
  BY <1>1 DEF Order
<1> HIDE DEF e
<1>3. /\ r \in Seq(Order) /\ DOMAIN r = DOMAIN s /\ Len(r) = Len(s)
      /\ \A x \in DOMAIN s : x # k => r[x] = s[x]
      /\ r[k] = e
  BY <1>2
<1>4. \A x \in DOMAIN s :
        /\ r[x].id = s[x].id /\ r[x].price = s[x].price
        /\ r[x].timestamp = s[x].timestamp
        /\ r[x].makeAmount = s[x].makeAmount
  BY <1>2, <1>3
<1> QED  BY <1>2, <1>3, <1>4 DEF e

\* In a round both amounts under the pointers parse, so an iteration fills.
LEMMA IterateFills ==
    ASSUME NEW o \in OrderIds, IInv, Iterate(o)
    PROVE  /\ MakeFill /\ HalvesInv /\ PointerInv /\ FillsInv /\ StartedInv /\ mu = o
           /\ i \in DOMAIN bids /\ j \in DOMAIN asks
           /\ bids[i] \in Order /\ asks[j] \in Order
           /\ bids[i].makeAmount > 0 /\ asks[j].takeAmount > 0
<1>1. HalvesInv /\ PointerInv /\ FillsInv /\ StartedInv /\ mu = o
  BY DEF Iterate, IInv, RoundInv, LockInv
<1>2. i \in DOMAIN bids /\ j \in DOMAIN asks
  BY DEF Iterate, CanMatch, IInv, TypeOK
<1>3. bids[i] \in Order /\ asks[j] \in Order
  BY <1>2 DEF IInv, TypeOK
<1>4. bids[i].makeAmount > 0 /\ asks[j].takeAmount > 0
  BY <1>1, <1>2 DEF PointerInv, IInv, TypeOK
<1>5. MakeFill
  BY <1>4 DEF Iterate, Parses
<1> QED  BY <1>1, <1>2, <1>3, <1>4, <1>5

LEMMA IterateInv == ASSUME NEW o \in OrderIds, IInv, Iterate(o) PROVE IInv'
<1> USE DEF roundVars, volumeVars
<1> DEFINE bid == bids[i]
           ask == asks[j]
           fillQty == Lesser(bid.makeAmount, ask.takeAmount)
           bidLeft == bid.makeAmount - fillQty
           askLeft == ask.takeAmount - fillQty
<1>1. /\ MakeFill /\ HalvesInv /\ PointerInv /\ FillsInv /\ StartedInv /\ mu = o
      /\ i \in DOMAIN bids /\ j \in DOMAIN asks
      /\ bid \in Order /\ ask \in Order
      /\ bid.makeAmount > 0 /\ ask.takeAmount > 0
  BY IterateFills
<1>2. /\ pc[o] = "matching" /\ pc' = pc /\ posted' = posted /\ orderBook' = orderBook
      /\ mu' = mu /\ batch' = batch /\ UNCHANGED volumeVars
  BY DEF Iterate
<1>3. /\ fillQty \in Amount /\ bidLeft \in Amount /\ askLeft \in Amount
      /\ bidLeft = 0 \/ askLeft = 0
  BY <1>1 DEF Lesser, Order, Amount
<1>4. /\ fills' = Append(fills, [maker |-> bid, taker |-> ask,
                                   quantity |-> FormatAmount(fillQty)])
      /\ bids' = [bids EXCEPT ![i].makeAmount = FormatAmount(bidLeft)]
      /\ asks' = [asks EXCEPT ![j].takeAmount = FormatAmount(askLeft)]
      /\ i' = IF bidLeft <= Epsilon THEN i + 1 ELSE i
      /\ j' = IF askLeft <= Epsilon THEN j + 1 ELSE j
  BY <1>1 DEF MakeFill
<1>5. PICK fill \in Fill :
        fill = [maker |-> bid, taker |-> ask, quantity |-> FormatAmount(fillQty)]
  BY <1>1, <1>3, FormatFacts DEF Fill
<1>6. /\ bids \in Seq(Order) /\ asks \in Seq(Order) /\ fills \in Seq(Fill)
      /\ i \in Nat \ {0} /\ j \in Nat \ {0} /\ Epsilon \in Nat
  BY GrainAssumption DEF IInv, TypeOK, Epsilon
<1>7. /\ bids' \in Seq(Order) /\ DOMAIN bids' = DOMAIN bids /\ Len(bids') = Len(bids)
      /\ \A x \in DOMAIN bids : x # i => bids'[x] = bids[x]
      /\ bids'[i].makeAmount = FormatAmount(bidLeft)
      /\ \A x \in DOMAIN bids :
            /\ bids'[x].id = bids[x].id /\ bids'[x].price = bids[x].price
            /\ bids'[x].timestamp = bids[x].timestamp
            /\ bids'[x].takeAmount = bids[x].takeAmount
  BY <1>1, <1>3, <1>4, <1>6, FormatFacts, MakeReplaced
<1>8. /\ asks' \in Seq(Order) /\ DOMAIN asks' = DOMAIN asks /\ Len(asks') = Len(asks)
      /\ \A x \in DOMAIN asks : x # j => asks'[x] = asks[x]
      /\ asks'[j].takeAmount = FormatAmount(askLeft)
      /\ \A x \in DOMAIN asks :
            /\ asks'[x].id = asks[x].id /\ asks'[x].price = asks[x].price
            /\ asks'[x].timestamp = asks[x].timestamp
            /\ asks'[x].makeAmount = asks[x].makeAmount
  BY <1>1, <1>3, <1>4, <1>6, FormatFacts, TakeReplaced
<1>9. /\ (i' = i /\ bidLeft > Epsilon) \/ (i' = i + 1 /\ bidLeft <= Epsilon)
      /\ (j' = j /\ askLeft > Epsilon) \/ (j' = j + 1 /\ askLeft <= Epsilon)
      /\ i' = i + 1 \/ j' = j + 1
  <2> HIDE DEF bidLeft, askLeft
  <2>1. bidLeft \in Nat /\ askLeft \in Nat /\ (bidLeft = 0 \/ askLeft = 0)
    BY <1>3 DEF Amount
  <2>2. (i' = i /\ bidLeft > Epsilon) \/ (i' = i + 1 /\ bidLeft <= Epsilon)
    BY <1>4, <1>6, <2>1
  <2>3. (j' = j /\ askLeft > Epsilon) \/ (j' = j + 1 /\ askLeft <= Epsilon)
    BY <1>4, <1>6, <2>1
  <2> QED  BY <1>6, <2>1, <2>2, <2>3
<1>10. /\ fills' \in Seq(Fill) /\ DOMAIN fills' = DOMAIN fills \cup {Len(fills) + 1}
       /\ \A x \in DOMAIN fills : fills'[x] = fills[x] /\ x < Len(fills) + 1 /\ x \in Nat
       /\ fills'[Len(fills) + 1] = fill /\ Len(fills) \in Nat
  <2>1. fills' = Append(fills, fill)
    BY <1>4, <1>5
  <2> QED  BY <1>5, <1>6, <2>1, AppendProperties
<1>11. /\ FormatAmount(bidLeft) \in Amount
       /\ bidLeft > Epsilon => FormatAmount(bidLeft) > 0
       /\ bidLeft <= Epsilon => FormatAmount(bidLeft) <= Epsilon
       /\ FormatAmount(askLeft) \in Amount
       /\ askLeft > Epsilon => FormatAmount(askLeft) > 0
       /\ askLeft <= Epsilon => FormatAmount(askLeft) <= Epsilon
  BY <1>3, FormatFacts
<1>12. fill.maker = bid /\ fill.taker = ask
  BY <1>5
<1> HIDE DEF bidLeft, askLeft, fillQty
<1>13. TypeOK'
  <2>1. i' \in 1 .. Len(bids') + 1 /\ j' \in 1 .. Len(asks') + 1
    BY <1>1, <1>6, <1>7, <1>8, <1>9
  <2> QED  BY <1>2, <1>7, <1>8, <1>10, <2>1 DEF IInv, TypeOK
<1>14. BookInv' /\ LockInv'
  BY <1>2 DEF IInv, BookInv, LockInv
<1>15. HalvesInv'
  <2> SUFFICES
        /\ \A x, y \in DOMAIN bids : bids'[x].id = bids'[y].id => x = y
        /\ \A x, y \in DOMAIN asks : asks'[x].id = asks'[y].id => x = y
        /\ \A x \in DOMAIN bids, y \in DOMAIN asks :
              bids'[x].id # asks'[y].id /\ bids'[x].price >= asks'[y].price
        /\ \A x, y \in DOMAIN bids : x < y => SortsBefore(bids'[x], bids'[y])
        /\ \A x, y \in DOMAIN asks : x < y => SortsBefore(asks'[x], asks'[y])
        /\ \A x \in DOMAIN bids : pc[bids'[x].id] # "idle" /\ bids'[x].takeAmount > 0
        /\ \A x \in DOMAIN asks : pc[asks'[x].id] # "idle" /\ asks'[x].makeAmount > 0
    BY <1>2, <1>7, <1>8 DEF HalvesInv, SortsBefore
  <2>1. \A x, y \in DOMAIN bids : bids'[x].id = bids'[y].id => x = y
    BY <1>1, <1>7 DEF HalvesInv
  <2>2. \A x, y \in DOMAIN asks : asks'[x].id = asks'[y].id => x = y
    BY <1>1, <1>8 DEF HalvesInv
  <2>3. \A x \in DOMAIN bids, y \in DOMAIN asks :
            bids'[x].id # asks'[y].id /\ bids'[x].price >= asks'[y].price
    BY <1>1, <1>7, <1>8 DEF HalvesInv
  <2>4. \A x, y \in DOMAIN bids : x < y => SortsBefore(bids'[x], bids'[y])
    BY <1>1, <1>7 DEF HalvesInv, SortsBefore
  <2>5. \A x, y \in DOMAIN asks : x < y => SortsBefore(asks'[x], asks'[y])
    BY <1>1, <1>8 DEF HalvesInv, SortsBefore
  <2>6. \A x \in DOMAIN bids : pc[bids'[x].id] # "idle" /\ bids'[x].takeAmount > 0
    BY <1>1, <1>7 DEF HalvesInv
  <2>7. \A x \in DOMAIN asks : pc[asks'[x].id] # "idle" /\ asks'[x].makeAmount > 0
    BY <1>1, <1>8 DEF HalvesInv
  <2> QED  BY <2>1, <2>2, <2>3, <2>4, <2>5, <2>6, <2>7
<1>16. PointerInv'
  <2>1. \A x \in DOMAIN bids : x < i' => bids'[x].makeAmount <= Epsilon
    <3> SUFFICES ASSUME NEW x \in DOMAIN bids, x < i'
                 PROVE  bids'[x].makeAmount <= Epsilon
      OBVIOUS
    <3>1. x < i \/ (x = i /\ i' = i + 1)
      BY <1>6, <1>9
    <3>2. CASE x < i
      <4>1. x # i /\ bids[x].makeAmount <= Epsilon
        BY <1>1, <1>6, <3>2 DEF PointerInv
      <4> QED  BY <1>7, <4>1
    <3>3. CASE x = i /\ i' = i + 1
      BY <1>6, <1>7, <1>9, <1>11, <3>3
    <3> QED  BY <3>1, <3>2, <3>3
  <2>2. \A x \in DOMAIN bids : x >= i' => bids'[x].makeAmount > 0
    <3> SUFFICES ASSUME NEW x \in DOMAIN bids, x >= i'
                 PROVE  bids'[x].makeAmount > 0
      OBVIOUS
    <3>1. (x # i /\ x >= i) \/ (x = i /\ i' = i)
      BY <1>6, <1>9
    <3>2. CASE x # i /\ x >= i
      <4>1. bids[x].makeAmount > 0
        BY <1>1, <3>2 DEF PointerInv
      <4> QED  BY <1>7, <3>2, <4>1
    <3>3. CASE x = i /\ i' = i
      BY <1>6, <1>7, <1>9, <1>11, <3>3
    <3> QED  BY <3>1, <3>2, <3>3
  <2>3. \A x \in DOMAIN asks : x < j' => asks'[x].takeAmount <= Epsilon
    <3> SUFFICES ASSUME NEW x \in DOMAIN asks, x < j'
                 PROVE  asks'[x].takeAmount <= Epsilon
      OBVIOUS
    <3>1. x < j \/ (x = j /\ j' = j + 1)
      BY <1>6, <1>9
    <3>2. CASE x < j
      <4>1. x # j /\ asks[x].takeAmount <= Epsilon
        BY <1>1, <1>6, <3>2 DEF PointerInv
      <4> QED  BY <1>8, <4>1
    <3>3. CASE x = j /\ j' = j + 1
      BY <1>6, <1>8, <1>9, <1>11, <3>3
    <3> QED  BY <3>1, <3>2, <3>3
  <2>4. \A x \in DOMAIN asks : x >= j' => asks'[x].takeAmount > 0
    <3> SUFFICES ASSUME NEW x \in DOMAIN asks, x >= j'
                 PROVE  asks'[x].takeAmount > 0
      OBVIOUS
    <3>1. (x # j /\ x >= j) \/ (x = j /\ j' = j)
      BY <1>6, <1>9
    <3>2. CASE x # j /\ x >= j
      <4>1. asks[x].takeAmount > 0
        BY <1>1, <3>2 DEF PointerInv
      <4> QED  BY <1>8, <3>2, <4>1
    <3>3. CASE x = j /\ j' = j
      BY <1>6, <1>8, <1>9, <1>11, <3>3
    <3> QED  BY <3>1, <3>2, <3>3
  <2>5. Epsilon' = Epsilon
    BY DEF Epsilon
  <2> QED  BY <1>7, <1>8, <2>1, <2>2, <2>3, <2>4, <2>5 DEF PointerInv
<1>17. FillsInv'
  <2>1. \A x \in DOMAIN fills : \A y \in DOMAIN bids : y >= i' =>
            CorrectlyOrdered(fills[x].maker, bids'[y])
    BY <1>1, <1>6, <1>7, <1>9 DEF FillsInv, CorrectlyOrdered
  <2>2. \A x \in DOMAIN fills : \A y \in DOMAIN asks : y >= j' =>
            CorrectlyOrdered(fills[x].taker, asks'[y])
    BY <1>1, <1>6, <1>8, <1>9 DEF FillsInv, CorrectlyOrdered
  <2>3. \A y \in DOMAIN bids : y >= i' => CorrectlyOrdered(bid, bids'[y])
    <3> SUFFICES ASSUME NEW y \in DOMAIN bids, y >= i'
                 PROVE  CorrectlyOrdered(bid, bids'[y])
      OBVIOUS
    <3>1. y = i \/ y > i
      BY <1>6, <1>9
    <3>2. CASE y = i
      BY <1>1, <1>7, <3>2 DEF CorrectlyOrdered, Order
    <3>3. CASE y > i
      BY <1>1, <1>7, <3>3 DEF CorrectlyOrdered, HalvesInv, SortsBefore
    <3> QED  BY <3>1, <3>2, <3>3
  <2>4. \A y \in DOMAIN asks : y >= j' => CorrectlyOrdered(ask, asks'[y])
    <3> SUFFICES ASSUME NEW y \in DOMAIN asks, y >= j'
                 PROVE  CorrectlyOrdered(ask, asks'[y])
      OBVIOUS
    <3>1. y = j \/ y > j
      BY <1>6, <1>9
    <3>2. CASE y = j
      BY <1>1, <1>8, <3>2 DEF CorrectlyOrdered, Order
    <3>3. CASE y > j
      BY <1>1, <1>8, <3>3 DEF CorrectlyOrdered, HalvesInv, SortsBefore
    <3> QED  BY <3>1, <3>2, <3>3
  <2>5. \A x \in DOMAIN fills : /\ CorrectlyOrdered(fills[x].maker, bid)
                               /\ CorrectlyOrdered(fills[x].taker, ask)
    BY <1>1, <1>6 DEF FillsInv
  <2>6. InPriority(fills')
    <3>1. \A x, y \in DOMAIN fills : x < y =>
            /\ CorrectlyOrdered(fills[x].maker, fills[y].maker)
            /\ CorrectlyOrdered(fills[x].taker, fills[y].taker)
      BY <1>1 DEF FillsInv, InPriority
    <3> QED  BY <1>10, <1>12, <2>5, <3>1 DEF InPriority
  <2>7. \A x \in DOMAIN fills' : \A y \in DOMAIN bids' : y >= i' =>
            CorrectlyOrdered(fills'[x].maker, bids'[y])
    BY <1>7, <1>10, <1>12, <2>1, <2>3
  <2>8. \A x \in DOMAIN fills' : \A y \in DOMAIN asks' : y >= j' =>
            CorrectlyOrdered(fills'[x].taker, asks'[y])
    BY <1>8, <1>10, <1>12, <2>2, <2>4
  <2> QED  BY <2>6, <2>7, <2>8 DEF FillsInv, CorrectlyOrdered
<1>18. RoundInv'
  <2>1. fills' # <<>>
    BY <1>10
  <2> QED  BY <1>1, <1>7, <1>8, <1>15, <1>16, <1>17, <2>1 DEF RoundInv, StartedInv
<1>19. LiveIds = {bids[k].id : k \in {k \in DOMAIN bids : k >= i}}
                 \cup {asks[k].id : k \in {k \in DOMAIN asks : k >= j}}
  BY <1>2 DEF LiveIds
<1>20. LiveIds' = {bids'[k].id : k \in {k \in DOMAIN bids' : k >= i'}}
                  \cup {asks'[k].id : k \in {k \in DOMAIN asks' : k >= j'}}
  BY <1>2 DEF LiveIds
<1>21. bid.id \in LiveIds /\ ask.id \in LiveIds /\ LiveIds' \subseteq LiveIds
  <2>1. \A k \in DOMAIN bids' : k >= i' => k \in DOMAIN bids /\ k >= i
    BY <1>6, <1>7, <1>9
  <2>2. \A k \in DOMAIN asks' : k >= j' => k \in DOMAIN asks /\ k >= j
    BY <1>6, <1>8, <1>9
  <2>3. LiveIds' \subseteq LiveIds
    BY <1>7, <1>8, <1>19, <1>20, <2>1, <2>2
  <2> QED  BY <1>1, <1>6, <1>19, <2>3
<1>22. \A id \in OrderIds : Gone(id) => Gone(id)'
  BY <1>2, <1>21 DEF Gone
<1>23. Spent(fill)'
  <2>1. CASE i' = i + 1
    <3>1. \A k \in DOMAIN bids' : k >= i' => bids'[k].id # bid.id
      BY <1>1, <1>6, <1>7, <2>1 DEF HalvesInv
    <3>2. \A k \in DOMAIN asks' : asks'[k].id # bid.id
      BY <1>1, <1>8 DEF HalvesInv
    <3>3. bid.id \notin LiveIds'
      BY <1>20, <3>1, <3>2
    <3>4. pc'[bid.id] # "idle"
      BY <1>1, <1>2 DEF HalvesInv
    <3> QED  BY <1>12, <3>3, <3>4 DEF Spent, Gone
  <2>2. CASE j' = j + 1
    <3>1. \A k \in DOMAIN asks' : k >= j' => asks'[k].id # ask.id
      BY <1>1, <1>6, <1>8, <2>2 DEF HalvesInv
    <3>2. \A k \in DOMAIN bids' : bids'[k].id # ask.id
      BY <1>1, <1>7 DEF HalvesInv
    <3>3. ask.id \notin LiveIds'
      BY <1>20, <3>1, <3>2
    <3>4. pc'[ask.id] # "idle"
      BY <1>1, <1>2 DEF HalvesInv
    <3> QED  BY <1>12, <3>3, <3>4 DEF Spent, Gone
  <2> QED  BY <1>9, <2>1, <2>2
<1>24. \A f \in Fill : Spent(f) => f # fill
  BY <1>12, <1>21 DEF Spent, Gone
<1>25. SpentInv'
  <2>1. \A p \in OrderIds : \A k \in DOMAIN batch[p] :
            Spent(batch[p][k])' /\ fill # batch[p][k]
    BY <1>2, <1>22, <1>24, BatchFills, SpentStays DEF IInv, SpentInv
  <2>2. \A k \in DOMAIN fills : fills[k] \in Fill /\ Spent(fills[k]) /\ fill # fills[k]
    BY <1>2, <1>24, RoundFills DEF IInv, SpentInv
  <2>3. \A k \in DOMAIN fills' : Spent(fills[k])'
    <3> SUFFICES ASSUME NEW k \in DOMAIN fills' PROVE Spent(fills[k])'
      OBVIOUS
    <3>1. PICK f \in Fill : f = fills'[k]
      BY <1>10
    <3>2. Spent(f)'
      <4>1. CASE k \in DOMAIN fills
        BY <1>10, <1>22, <2>2, <3>1, <4>1, SpentStays
      <4>2. CASE k = Len(fills) + 1
        BY <1>10, <1>23, <3>1, <4>2
      <4> QED  BY <1>10, <4>1, <4>2
    <3> QED  BY <3>1, <3>2 DEF Spent
  <2>4. \A k, l \in DOMAIN fills' : k # l => fills'[k] # fills'[l]
    BY <1>2, <1>10, <2>2 DEF IInv, SpentInv
  <2>5. \A p \in OrderIds : \A k \in DOMAIN fills', l \in DOMAIN batch[p] :
            fills'[k] # batch[p][l]
    BY <1>2, <1>10, <2>1 DEF IInv, SpentInv
  <2> QED  BY <1>2, <2>1, <2>3, <2>4, <2>5 DEF IInv, SpentInv
<1>26. PriorityKept' /\ NoFillTwice'
  BY <1>2 DEF IInv, PriorityKept, NoFillTwice
<1> QED  BY <1>13, <1>14, <1>18, <1>25, <1>26 DEF IInv

-----------------------------------------------------------------------------
(* The end of a round: the pruned book. *)

LEMMA FinishInv == ASSUME NEW o \in OrderIds, IInv, FinishMatch(o) PROVE IInv'
<1> USE DEF roundVars, volumeVars
<1>1. /\ pc[o] = "matching" /\ pc' = [pc EXCEPT ![o] = "tracking"] /\ mu' = mu
      /\ batch' = [batch EXCEPT ![o] = fills] /\ posted' = posted
      /\ orderBook' = UpdatedBook
      /\ bids' = bids /\ asks' = asks /\ i' = i /\ j' = j /\ fills' = fills
      /\ UNCHANGED volumeVars
  BY DEF FinishMatch
<1>2. HalvesInv /\ PointerInv /\ FillsInv /\ StartedInv /\ mu = o
  BY <1>1 DEF IInv, RoundInv, LockInv
<1>3. /\ bids \in Seq(Order) /\ asks \in Seq(Order) /\ fills \in Seq(Fill)
      /\ i \in Nat \ {0} /\ j \in Nat \ {0} /\ Epsilon \in Nat
      /\ pc \in [OrderIds -> {"idle", "appended", "matching", "tracking",
                              "matched", "replied"}]
      /\ batch \in [OrderIds -> Seq(Fill)]
  BY GrainAssumption DEF IInv, TypeOK, Epsilon
<1>4. \A p \in OrderIds : pc'[p] # "matching" /\ (pc'[p] = "idle" <=> pc[p] = "idle")
  BY <1>1, <1>2, <1>3, IdsAssumption DEF IInv, LockInv
<1> DEFINE liveBids == {bids[k] : k \in {k \in DOMAIN bids : k >= i}}
           liveAsks == {asks[k] : k \in {k \in DOMAIN asks : k >= j}}
<1>5. Remaining \subseteq liveBids \cup liveAsks
  <2>1. \A k \in DOMAIN bids : k >= i - 1 /\ Kept(bids[k].makeAmount) => k >= i
    <3> SUFFICES ASSUME NEW k \in DOMAIN bids, Kept(bids[k].makeAmount) PROVE k >= i
      OBVIOUS
    <3>1. k \in Nat /\ bids[k].makeAmount \in Nat
      <4>1. k \in Nat /\ bids[k] \in Order
        BY <1>3
      <4> QED  BY <4>1 DEF Order, Amount
    <3>2. bids[k].makeAmount > Epsilon
      BY DEF Kept
    <3> QED  BY <1>2, <1>3, <3>1, <3>2 DEF PointerInv
  <2>2. \A k \in DOMAIN asks : k >= j - 1 /\ Kept(asks[k].takeAmount) => k >= j
    <3> SUFFICES ASSUME NEW k \in DOMAIN asks, Kept(asks[k].takeAmount) PROVE k >= j
      OBVIOUS
    <3>1. k \in Nat /\ asks[k].takeAmount \in Nat
      <4>1. k \in Nat /\ asks[k] \in Order
        BY <1>3
      <4> QED  BY <4>1 DEF Order, Amount
    <3>2. asks[k].takeAmount > Epsilon
      BY DEF Kept
    <3>3. asks[k].takeAmount <= Epsilon \/ k >= j
      BY <1>2, <1>3, <3>1 DEF PointerInv
    <3> QED  BY <1>3, <3>1, <3>2, <3>3
  <2> QED  BY <2>1, <2>2 DEF Remaining
<1>6. \A x \in liveBids \cup liveAsks : x \in Order /\ Whole(x) /\ pc'[x.id] # "idle"
  <2>1. \A k \in DOMAIN bids : k >= i => Whole(bids[k])
    BY <1>2 DEF HalvesInv, PointerInv, Whole
  <2>2. \A k \in DOMAIN asks : k >= j => Whole(asks[k])
    BY <1>2 DEF HalvesInv, PointerInv, Whole
  <2>3. /\ \A k \in DOMAIN bids : bids[k] \in Order /\ pc'[bids[k].id] # "idle"
        /\ \A k \in DOMAIN asks : asks[k] \in Order /\ pc'[asks[k].id] # "idle"
    <3>1. /\ \A k \in DOMAIN bids : bids[k] \in Order
          /\ \A k \in DOMAIN asks : asks[k] \in Order
      BY <1>3
    <3>2. \A x \in Order : x.id \in OrderIds
      BY DEF Order
    <3> QED  BY <1>2, <1>4, <3>1, <3>2 DEF HalvesInv
  <2> QED  BY <2>1, <2>2, <2>3
<1>7. \A x, y \in liveBids \cup liveAsks : x.id = y.id => x = y
  BY <1>2 DEF HalvesInv
<1>8. IsFiniteSet(liveBids \cup liveAsks)
  <2>1. ASSUME NEW s \in Seq(Order) PROVE IsFiniteSet({s[k] : k \in DOMAIN s})
    <3> DEFINE T == {s[k] : k \in DOMAIN s}
    <3>1. s \in Surjection(1 .. Len(s), T)
      BY DEF Surjection
    <3>2. IsFiniteSet(1 .. Len(s))
      BY FS_Interval
    <3> QED  BY <3>1, <3>2, FS_Surjection
  <2>2. IsFiniteSet({bids[k] : k \in DOMAIN bids}) /\ IsFiniteSet({asks[k] : k \in DOMAIN asks})
    BY <1>3, <2>1
  <2>3. liveBids \subseteq {bids[k] : k \in DOMAIN bids}
        /\ liveAsks \subseteq {asks[k] : k \in DOMAIN asks}
    OBVIOUS
  <2> QED  BY <2>2, <2>3, FS_Subset, FS_Union
<1>9. LiveIds = {x.id : x \in liveBids \cup liveAsks}
  BY <1>1 DEF LiveIds
<1> HIDE DEF liveBids, liveAsks
<1>10. LiveIds' = {x.id : x \in orderBook'}
  BY <1>4 DEF LiveIds
<1>11. orderBook' = Remaining
  <2>1. fills # <<>>
    <3> SUFFICES ASSUME fills = <<>> PROVE FALSE
      OBVIOUS
    <3>1. i = 1 /\ j = 1 /\ 1 \in DOMAIN bids /\ 1 \in DOMAIN asks
      BY <1>2 DEF StartedInv
    <3>2. Len(fills) < MaxBatch /\ i <= Len(bids) /\ j <= Len(asks)
      BY <1>3, <3>1, BatchAssumption
    <3>3. bids[i].price >= asks[j].price
      BY <1>2, <3>1 DEF HalvesInv
    <3> QED  BY <3>2, <3>3 DEF FinishMatch, CanMatch
  <2> QED  BY <1>1, <2>1 DEF UpdatedBook
<1>12. orderBook' \subseteq liveBids \cup liveAsks
  BY <1>5, <1>11
<1>13. TypeOK'
  BY <1>1, <1>3, <1>6, <1>12 DEF IInv, TypeOK
<1>14. BookInv'
  <2>1. IsFiniteSet(orderBook')
    BY <1>8, <1>12, FS_Subset
  <2> QED  BY <1>6, <1>7, <1>12, <2>1 DEF BookInv
<1>15. LockInv'
  BY <1>1, <1>2, <1>3 DEF IInv, LockInv
<1>16. RoundInv'
  BY <1>4 DEF RoundInv
<1>17. \A id \in OrderIds : Gone(id) => Gone(id)'
  BY <1>4, <1>9, <1>10, <1>12 DEF Gone
<1>18. /\ batch'[o] = fills
       /\ \A p \in OrderIds \ {o} : batch'[p] = batch[p]
  BY <1>1, <1>3
<1>19. \A p \in OrderIds : \A k \in DOMAIN batch'[p] : Spent(batch[p][k])'
  <2> SUFFICES ASSUME NEW p \in OrderIds, NEW k \in DOMAIN batch'[p]
               PROVE  Spent(batch[p][k])'
    OBVIOUS
  <2>1. CASE p = o
    <3>1. PICK f \in Fill : f = batch'[p][k] /\ Spent(f)
      BY <1>1, <1>18, <2>1, RoundFills DEF IInv, SpentInv
    <3>2. Spent(f)'
      BY <1>17, <3>1, SpentStays
    <3> QED  BY <3>1, <3>2 DEF Spent
  <2>2. CASE p # o
    <3>1. PICK f \in Fill : f = batch'[p][k] /\ Spent(f)
      BY <1>18, <2>2, BatchFills DEF IInv, SpentInv
    <3>2. Spent(f)'
      BY <1>17, <3>1, SpentStays
    <3> QED  BY <3>1, <3>2 DEF Spent
  <2> QED  BY <2>1, <2>2
<1>20. SpentInv'
  <2>1. \A p \in OrderIds : pc'[p] \in {"idle", "appended"} => p # o /\ pc'[p] = pc[p]
    BY <1>1, <1>3
  <2> QED  BY <1>4, <1>18, <1>19, <2>1 DEF IInv, SpentInv
<1>21. PriorityKept'
  <2>1. InPriority(fills) /\ DOMAIN fills = 1 .. Len(fills)
    BY <1>2, <1>3 DEF FillsInv
  <2> QED  BY <1>18, <2>1 DEF IInv, PriorityKept, InPriority
<1>22. NoFillTwice'
  <2> SUFFICES ASSUME NEW p \in OrderIds, NEW q \in OrderIds,
                      NEW x \in 1 .. Len(batch'[p]), NEW y \in 1 .. Len(batch'[q]),
                      <<p, x>> # <<q, y>>
               PROVE  batch'[p][x] # batch'[q][y]
    BY DEF NoFillTwice
  <2>1. \A r \in OrderIds : DOMAIN batch[r] = 1 .. Len(batch[r])
    BY <1>3
  <2>2. DOMAIN fills = 1 .. Len(fills)
    BY <1>3
  <2>3. /\ \A k, l \in DOMAIN fills : k # l => fills[k] # fills[l]
        /\ \A r \in OrderIds : \A k \in DOMAIN fills, l \in DOMAIN batch[r] :
              fills[k] # batch[r][l]
    BY <1>1 DEF IInv, SpentInv
  <2>4. CASE p = o /\ q = o
    BY <1>18, <2>2, <2>3, <2>4
  <2>5. CASE p = o /\ q # o
    BY <1>18, <2>1, <2>2, <2>3, <2>5
  <2>6. CASE p # o /\ q = o
    BY <1>18, <2>1, <2>2, <2>3, <2>6
  <2>7. CASE p # o /\ q # o
    BY <1>18, <2>7 DEF IInv, NoFillTwice
  <2> QED  BY <2>4, <2>5, <2>6, <2>7
<1> QED  BY <1>13, <1>14, <1>15, <1>16, <1>20, <1>21, <1>22 DEF IInv

-----------------------------------------------------------------------------
(* The theorems. *)

LEMMA NextInv == IInv /\ [Next]_vars => IInv'
<1> SUFFICES ASSUME IInv, [Next]_vars PROVE IInv'
  OBVIOUS
<1>1. ASSUME NEW o \in OrderIds, Post(o) PROVE IInv'
  BY <1>1, PostInv
<1>2. ASSUME NEW o \in OrderIds, Handler(o) PROVE IInv'
  BY <1>2, NotEnoughInv, StartInv, IterateInv, FinishInv, TrackInv, UnlockInv
     DEF Handler
<1>3. CASE UNCHANGED vars
  <2> USE <1>3 DEF vars, roundVars, volumeVars
  <2>1. TypeOK'
    BY DEF IInv, TypeOK
  <2>2. BookInv' /\ LockInv'
    BY DEF IInv, BookInv, LockInv
  <2>3. RoundInv'
    BY DEF IInv, RoundInv, HalvesInv, PointerInv, FillsInv, InPriority, StartedInv
  <2>4. SpentInv'
    <3>1. LiveIds' = LiveIds
      BY DEF LiveIds
    <3>2. /\ \A o \in OrderIds : \A k \in DOMAIN batch[o] : Spent(batch[o][k])' <=> Spent(batch[o][k])
          /\ \A k \in DOMAIN fills : Spent(fills[k])' <=> Spent(fills[k])
      BY <3>1 DEF Spent, Gone
    <3> QED  BY <3>2 DEF IInv, SpentInv
  <2>5. PriorityKept' /\ NoFillTwice'
    BY DEF IInv, PriorityKept, NoFillTwice
  <2> QED  BY <2>1, <2>2, <2>3, <2>4, <2>5 DEF IInv
<1> QED  BY <1>1, <1>2, <1>3 DEF Next

LEMMA Inductive == Spec => []IInv
  BY InitInv, NextInv, PTL DEF Spec

\* Every variable keeps its type, whatever is posted.
THEOREM TypeCorrect == Spec => []TypeOK
<1>1. IInv => TypeOK
  BY DEF IInv
<1> QED  BY <1>1, Inductive, PTL

\* matcher.go:252-270: neither the break nor a skip of the matching loop is
\* ever taken, for any book.
THEOREM LoopNeverBreaks == Spec => []AlwaysCrosses
<1>1. IInv => AlwaysCrosses
  <2> SUFFICES ASSUME IInv, NEW o \in OrderIds, pc[o] = "matching"
               PROVE  /\ i <= Len(bids) /\ j <= Len(asks) => bids[i].price >= asks[j].price
                      /\ i <= Len(bids) => Parses(bids[i].makeAmount)
                      /\ j <= Len(asks) => Parses(asks[j].takeAmount)
    BY DEF AlwaysCrosses
  <2>1. HalvesInv /\ PointerInv
    BY DEF IInv, RoundInv
  <2>2. /\ i <= Len(bids) => i \in DOMAIN bids
        /\ j <= Len(asks) => j \in DOMAIN asks
        /\ i \in Nat /\ j \in Nat
    BY DEF IInv, TypeOK
  <2> QED  BY <2>1, <2>2 DEF HalvesInv, PointerInv, Parses
<1> QED  BY <1>1, Inductive, PTL

\* matcher.go:151-189: whatever the interleaving of the requests, the makers
\* and the takers of a batch are in price-time priority, so no dispute over
\* the order of two of its fills can be won on the orders themselves.
THEOREM BatchesInPriority == Spec => []PriorityKept
<1>1. IInv => PriorityKept
  BY DEF IInv
<1> QED  BY <1>1, Inductive, PTL

\* matcher.go:287-335: no two fills of one batch or of two are the same, so
\* two rounds never produce the same batch.
THEOREM FillsUnique == Spec => []NoFillTwice
<1>1. IInv => NoFillTwice
  BY DEF IInv
<1> QED  BY <1>1, Inductive, PTL

-----------------------------------------------------------------------------
(* Sums of amounts. *)

\* What adds up amounts: taking any one of them away leaves the sum of the others.
Sums(F, S, g) ==
    /\ F \in [SUBSET S -> Nat]
    /\ F[{}] = 0
    /\ \A s \in SUBSET S : \A x \in s : F[s] = g[x] + F[s \ {x}]

LEMMA SumsAgree ==
    ASSUME NEW S, NEW T \in SUBSET S, IsFiniteSet(S), NEW g, NEW h, \A x \in T : g[x] = h[x],
           NEW F, Sums(F, S, g), NEW G, Sums(G, T, h)
    PROVE  F[T] = G[T]
<1> DEFINE Bad == {s \in SUBSET T : F[s] # G[s]}
<1>1. ASSUME Bad # {} PROVE FALSE
  <2>1. IsFiniteSet(T) /\ Bad \in SUBSET (SUBSET T)
    BY FS_Subset
  <2>2. PICK s \in Bad : \A x \in s : s \ {x} \notin Bad
    <3> HIDE DEF Bad
    <3> QED  BY <1>1, <2>1, SmallestExists
  <2>3. PICK x \in s : TRUE
    BY <2>2 DEF Sums
  <2>4. F[s] = g[x] + F[s \ {x}] /\ G[s] = h[x] + G[s \ {x}] /\ F[s \ {x}] = G[s \ {x}]
    BY <2>2, <2>3 DEF Sums
  <2> QED  BY <2>2, <2>3, <2>4
<1> QED  BY <1>1

\* The fold takes the amounts in an order of its own; any other gives the same.
LEMMA SumExists ==
    ASSUME NEW S, IsFiniteSet(S), NEW g \in [S -> Nat]
    PROVE  \E F : Sums(F, S, g) /\ SumUp(g) = F[S]
<1> DEFINE pick == [s \in SUBSET S |-> CHOOSE x \in s : TRUE]
           step == [x \in S |-> [r \in Nat |-> g[x] + r]]
           Rec(F) == [s \in SUBSET S |-> IF s = {} THEN 0
                         ELSE g[CHOOSE x \in s : TRUE] + F[s \ {CHOOSE x \in s : TRUE}]]
           iter == CHOOSE F : F = Rec(F)
<1>1. SumUp(g) = iter[S]
  BY DEF SumUp, FoldFunction, FoldFunctionOnSet, MapThenFoldSet
<1>2. \A s \in SUBSET S : s # {} => (CHOOSE x \in s : TRUE) \in s
  OBVIOUS
<1>3. PICK F \in [SUBSET S -> Nat] : F = Rec(F)
  <2>1. PICK F \in [SUBSET S -> Nat] : IsFold(F, S, 0, pick, step)
    <3>1. \A s \in SUBSET S : s # {} => pick[s] \in s
      BY <1>2
    <3>2. \A x \in S, r \in Nat : step[x][r] \in Nat
      OBVIOUS
    <3> HIDE DEF pick, step
    <3>3. CanFold(S, Nat, 0, pick, step)
      BY <3>1, <3>2 DEF CanFold
    <3> QED  BY <3>3, FoldExists
  <2>2. \A s \in SUBSET S : F[s] = Rec(F)[s]
    BY <1>2, <2>1 DEF IsFold
  <2> QED  BY <2>2
<1>4. iter = Rec(iter)
  <2> HIDE DEF Rec
  <2> QED  BY <1>3
<1> HIDE DEF iter
<1> DEFINE Bad == {s \in SUBSET S : iter[s] # F[s] \/ \E x \in s : F[s] # g[x] + F[s \ {x}]}
<1>5. ASSUME Bad # {} PROVE FALSE
  <2>1. PICK s \in Bad : \A x \in s : s \ {x} \notin Bad
    <3>1. Bad \in SUBSET (SUBSET S)
      OBVIOUS
    <3> HIDE DEF Bad
    <3> QED  BY <1>5, <3>1, SmallestExists
  <2> DEFINE c == CHOOSE x \in s : TRUE
  <2>2. s # {} /\ c \in s
    BY <1>2, <1>3, <1>4, <2>1
  <2>3. iter[s] = g[c] + iter[s \ {c}] /\ F[s] = g[c] + F[s \ {c}]
    BY <1>3, <1>4, <2>1, <2>2
  <2> HIDE DEF c
  <2>4. iter[s] = F[s]
    BY <2>1, <2>2, <2>3
  <2>5. ASSUME NEW x \in s PROVE F[s] = g[x] + F[s \ {x}]
    <3>1. CASE x = c
      BY <2>3, <3>1
    <3>2. CASE x # c
      <4> DEFINE rest == (s \ {x}) \ {c}
      <4>1. x \in s \ {c} /\ c \in s \ {x} /\ (s \ {c}) \ {x} = rest
        BY <2>2, <3>2
      <4>2. F[s \ {x}] = g[c] + F[rest]
        BY <2>1, <4>1
      <4>3. F[s \ {c}] = g[x] + F[rest]
        BY <2>1, <2>2, <4>1
      <4>4. g[x] \in Nat /\ g[c] \in Nat /\ F[rest] \in Nat
        BY <2>1, <2>2
      <4> HIDE DEF rest
      <4> QED  BY <2>3, <4>2, <4>3, <4>4
    <3> QED  BY <3>1, <3>2
  <2> QED  BY <2>1, <2>4, <2>5
<1>6. F[{}] = 0
  BY <1>3
<1>7. Sums(F, S, g) /\ iter[S] = F[S]
  BY <1>5, <1>6 DEF Sums
<1> QED  BY <1>1, <1>7

\* Nothing adds up to nothing.
LEMMA SumEmpty == ASSUME NEW g, DOMAIN g = {}, g \in [{} -> Nat] PROVE SumUp(g) = 0
<1>1. PICK F : Sums(F, {}, g) /\ SumUp(g) = F[{}]
  BY SumExists, FS_EmptySet
<1> QED  BY <1>1 DEF Sums

\* One more amount is added.
LEMMA SumAdd ==
    ASSUME NEW S, IsFiniteSet(S), NEW new, new \notin S, NEW g \in [S -> Nat],
           NEW h \in [S \cup {new} -> Nat], \A x \in S : g[x] = h[x]
    PROVE  /\ SumUp(g) \in Nat
           /\ SumUp(h) = SumUp(g) + h[new]
<1> DEFINE T == S \cup {new}
<1>1. PICK F : Sums(F, S, g) /\ SumUp(g) = F[S]
  BY SumExists
<1>2. IsFiniteSet(T)
  BY FS_AddElement
<1>3. PICK H : Sums(H, T, h) /\ SumUp(h) = H[T]
  BY <1>2, SumExists
<1>4. H[S] = F[S]
  BY <1>1, <1>2, <1>3, SumsAgree
<1>5. H[T] = h[new] + H[S]
  <2>1. T \in SUBSET T /\ new \in T /\ T \ {new} = S
    OBVIOUS
  <2> HIDE DEF T
  <2> QED  BY <1>3, <2>1 DEF Sums
<1>6. F[S] \in Nat /\ h[new] \in Nat
  BY <1>1 DEF Sums
<1> QED  BY <1>1, <1>3, <1>4, <1>5, <1>6

\* A sum does not depend on what the amounts are named by.
LEMMA SumMoved ==
    ASSUME NEW S, NEW T, IsFiniteSet(S), NEW f \in Bijection(S, T),
           NEW g \in [S -> Nat], NEW h \in [T -> Nat], \A x \in S : g[x] = h[f[x]]
    PROVE  SumUp(g) = SumUp(h)
<1>1. /\ f \in [S -> T] /\ (\A x, y \in S : f[x] = f[y] => x = y)
      /\ \A y \in T : \E x \in S : f[x] = y
  BY BijFacts
<1>2. IsFiniteSet(T)
  BY FS_Bijection DEF ExistsBijection
<1>3. PICK F : Sums(F, S, g) /\ SumUp(g) = F[S]
  BY SumExists
<1>4. PICK H : Sums(H, T, h) /\ SumUp(h) = H[T]
  BY <1>2, SumExists
<1> DEFINE Moved(s) == {f[x] : x \in s}
           K == [s \in SUBSET S |-> H[Moved(s)]]
<1>5. Sums(K, S, g)
  <2>1. \A s \in SUBSET S : Moved(s) \in SUBSET T
    BY <1>1
  <2>2. ASSUME NEW s \in SUBSET S, NEW x \in s PROVE Moved(s \ {x}) = Moved(s) \ {f[x]}
    <3>1. \A y \in s : f[y] = f[x] <=> y = x
      BY <1>1
    <3> QED  BY <3>1
  <2>3. Moved({}) = {}
    OBVIOUS
  <2>4. ASSUME NEW s \in SUBSET S, NEW x \in s PROVE f[x] \in Moved(s)
    OBVIOUS
  <2>5. K \in [SUBSET S -> Nat]
    <3> HIDE DEF Moved
    <3> QED  BY <1>4, <2>1 DEF Sums
  <2>6. ASSUME NEW s \in SUBSET S, NEW x \in s PROVE K[s] = g[x] + K[s \ {x}]
    <3>1. H[Moved(s)] = h[f[x]] + H[Moved(s) \ {f[x]}]
      <4> HIDE DEF Moved
      <4> QED  BY <1>4, <2>1, <2>4 DEF Sums
    <3>2. s \ {x} \in SUBSET S /\ x \in S
      OBVIOUS
    <3> HIDE DEF Moved
    <3> QED  BY <2>2, <3>1, <3>2
  <2>7. K[{}] = 0
    <3> HIDE DEF Moved
    <3> QED  BY <1>4, <2>3 DEF Sums
  <2> HIDE DEF K
  <2> QED  BY <2>5, <2>6, <2>7 DEF Sums
<1>6. Moved(S) = T
  BY <1>1
<1>7. K[S] = H[T]
  BY <1>6
<1> HIDE DEF K
<1>8. F[S] = K[S]
  BY <1>3, <1>5, SumsAgree
<1> QED  BY <1>3, <1>4, <1>7, <1>8

\* The sum over a set is that over a part of it and that over the rest.
LEMMA SumParts ==
    ASSUME NEW S, IsFiniteSet(S), NEW A \in SUBSET S, NEW g \in [S -> Nat]
    PROVE  /\ SumUp(g) = SumUp([x \in A |-> g[x]]) + SumUp([x \in S \ A |-> g[x]])
           /\ SumUp([x \in A |-> g[x]]) \in Nat /\ SumUp([x \in S \ A |-> g[x]]) \in Nat
<1> DEFINE a == [x \in A |-> g[x]]
           B == S \ A
           b == [x \in B |-> g[x]]
<1>1. B \in SUBSET S /\ IsFiniteSet(A) /\ IsFiniteSet(B)
  BY FS_Subset
<1>2. a \in [A -> Nat] /\ b \in [B -> Nat] /\ (\A x \in A : g[x] = a[x])
      /\ \A x \in B : g[x] = b[x]
  OBVIOUS
<1>3. A \cup B = S /\ A \cap B = {}
  OBVIOUS
<1> HIDE DEF a, b, B
<1>4. PICK F : Sums(F, S, g) /\ SumUp(g) = F[S]
  BY SumExists
<1>5. SumUp(a) = F[A] /\ SumUp(b) = F[B]
  <2>1. PICK G : Sums(G, A, a) /\ SumUp(a) = G[A]
    BY <1>1, <1>2, SumExists
  <2>2. PICK H : Sums(H, B, b) /\ SumUp(b) = H[B]
    BY <1>1, <1>2, SumExists
  <2>3. F[A] = G[A]
    BY <1>2, <1>4, <2>1, SumsAgree
  <2>4. F[B] = H[B]
    BY <1>1, <1>2, <1>4, <2>2, SumsAgree
  <2> QED  BY <2>1, <2>2, <2>3, <2>4
<1> DEFINE Bad == {s \in SUBSET A : F[s \cup B] # F[s] + F[B]}
<1>6. ASSUME Bad # {} PROVE FALSE
  <2>1. PICK s \in Bad : \A x \in s : s \ {x} \notin Bad
    <3>1. Bad \in SUBSET (SUBSET A)
      OBVIOUS
    <3> HIDE DEF Bad
    <3> QED  BY <1>1, <1>6, <3>1, SmallestExists
  <2>2. CASE s = {}
    BY <1>1, <1>4, <2>1, <2>2 DEF Sums
  <2>3. CASE s # {}
    <3>1. PICK x \in s : TRUE
      BY <2>3
    <3>2. (s \cup B) \ {x} = (s \ {x}) \cup B /\ x \in S /\ s \cup B \in SUBSET S
        /\ x \in s \cup B /\ s \in SUBSET S
      BY <1>1, <1>3, <3>1
    <3>3. F[s \cup B] = g[x] + F[(s \ {x}) \cup B] /\ F[s] = g[x] + F[s \ {x}]
      <4>1. F[s \cup B] = g[x] + F[(s \cup B) \ {x}]
        BY <1>4, <3>2 DEF Sums
      <4>2. F[s] = g[x] + F[s \ {x}]
        BY <1>4, <3>1, <3>2 DEF Sums
      <4> QED  BY <3>2, <4>1, <4>2
    <3>4. F[(s \ {x}) \cup B] = F[s \ {x}] + F[B]
      BY <2>1, <3>1
    <3>5. F[s \ {x}] \in Nat /\ F[B] \in Nat /\ g[x] \in Nat
      BY <1>1, <1>4, <3>2 DEF Sums
    <3> QED  BY <2>1, <3>3, <3>4, <3>5
  <2> QED  BY <2>2, <2>3
<1>7. F[A \cup B] = F[A] + F[B]
  BY <1>6
<1>8. F[A] \in Nat /\ F[B] \in Nat
  BY <1>1, <1>4 DEF Sums
<1> QED  BY <1>3, <1>4, <1>5, <1>7, <1>8 DEF a, b, B

\* A part sums up to no more than the whole.
LEMMA SumWithin ==
    ASSUME NEW S, IsFiniteSet(S), NEW A \in SUBSET S, NEW g \in [S -> Nat]
    PROVE  SumUp([x \in A |-> g[x]]) <= SumUp(g) /\ SumUp(g) \in Nat
<1>1. PICK F : Sums(F, S, g) /\ SumUp(g) = F[S]
  BY SumExists
<1>2. SumUp(g) \in Nat
  BY <1>1 DEF Sums
<1>3. /\ SumUp(g) = SumUp([x \in A |-> g[x]]) + SumUp([x \in S \ A |-> g[x]])
      /\ SumUp([x \in A |-> g[x]]) \in Nat /\ SumUp([x \in S \ A |-> g[x]]) \in Nat
  BY SumParts
<1> DEFINE a == SumUp([x \in A |-> g[x]])
           b == SumUp([x \in S \ A |-> g[x]])
<1> HIDE DEF a, b
<1> QED  BY <1>2, <1>3 DEF a, b

\* The amounts h are those of g and one more.
OneMore(g, h, S, one) ==
    /\ IsFiniteSet(S) /\ one \notin S
    /\ g \in [S -> Nat] /\ h \in [S \cup {one} -> Nat] /\ \A x \in S : g[x] = h[x]

LEMMA SumOneMore ==
    ASSUME NEW S, NEW one, NEW g, NEW h, OneMore(g, h, S, one)
    PROVE  SumUp(h) = SumUp(g) + h[one]
BY SumAdd DEF OneMore

\* The amounts h are those of g under other names.
Renamed(g, h, f, S, T) ==
    /\ IsFiniteSet(S) /\ f \in Bijection(S, T)
    /\ g \in [S -> Nat] /\ h \in [T -> Nat] /\ \A x \in S : g[x] = h[f[x]]

LEMMA SumRenamed ==
    ASSUME NEW S, NEW T, NEW f, NEW g, NEW h, Renamed(g, h, f, S, T)
    PROVE  SumUp(g) = SumUp(h)
BY SumMoved DEF Renamed

-----------------------------------------------------------------------------
(* The fills of batches, counted and added up. *)

Batched(b) == b \in [OrderIds -> Seq(Fill)] /\ IsFiniteSet(Fills(b))

LEMMA FillTypes ==
    ASSUME NEW b, Batched(b), NEW f \in Fills(b)
    PROVE  FillAt(b, f) \in Fill
<1>1. PICK o \in OrderIds : \E k \in DOMAIN b[o] : f = <<o, k>>
  BY DEF Fills
<1>2. b[o] \in Seq(Fill)
  BY DEF Batched
<1> QED  BY <1>1, <1>2 DEF FillAt

LEMMA TotalType ==
    ASSUME NEW b, Batched(b), NEW S \in SUBSET Fills(b)
    PROVE  Total(b, S) \in Nat /\ IsFiniteSet(S) /\ Cardinality(S) \in Nat
<1> DEFINE g == [f \in S |-> FillAt(b, f).quantity]
<1>1. IsFiniteSet(S) /\ Cardinality(S) \in Nat
  BY FS_Subset, FS_CardinalityType DEF Batched
<1>2. g \in [S -> Nat]
  BY FillTypes DEF Fill, Amount
<1> HIDE DEF g
<1>3. PICK F : Sums(F, S, g) /\ SumUp(g) = F[S]
  BY <1>1, <1>2, SumExists
<1>4. SumUp(g) \in Nat
  BY <1>3 DEF Sums
<1> QED  BY <1>1, <1>4 DEF Total, g

LEMMA TotalAdd ==
    ASSUME NEW b, Batched(b), NEW S \in SUBSET Fills(b), NEW f \in Fills(b) \ S
    PROVE  /\ Total(b, S \cup {f}) = Total(b, S) + FillAt(b, f).quantity
           /\ Cardinality(S \cup {f}) = Cardinality(S) + 1
<1> DEFINE T == S \cup {f}
           g == [x \in S |-> FillAt(b, x).quantity]
           h == [x \in T |-> FillAt(b, x).quantity]
<1>1. IsFiniteSet(S)
  BY TotalType
<1>2. g \in [S -> Nat] /\ h \in [T -> Nat]
  BY FillTypes DEF Fill, Amount
<1>3. \A x \in S : g[x] = h[x]
  OBVIOUS
<1>4. h[f] = FillAt(b, f).quantity
  OBVIOUS
<1> HIDE DEF g, h
<1>5. SumUp(h) = SumUp(g) + h[f]
  BY <1>1, <1>2, <1>3, SumAdd
<1>6. Cardinality(T) = Cardinality(S) + 1
  BY <1>1, FS_AddElement
<1> QED  BY <1>4, <1>5, <1>6 DEF Total, g, h

LEMMA NoFills ==
    ASSUME NEW b PROVE Total(b, {}) = 0 /\ Cardinality({}) = 0
<1> DEFINE g == [f \in {} |-> FillAt(b, f).quantity]
<1>1. g \in [{} -> Nat] /\ DOMAIN g = {}
  OBVIOUS
<1> HIDE DEF g
<1>2. SumUp(g) = 0
  BY <1>1, SumEmpty
<1> QED  BY <1>2, FS_EmptySet DEF Total, g

\* One more fill in one batch: its place is new and the others keep their fills.
Appended(b, o, fill, c) ==
    /\ Batched(b) /\ o \in OrderIds /\ fill \in Fill
    /\ c = [b EXCEPT ![o] = Append(b[o], fill)]

LEMMA FillAppended ==
    ASSUME NEW b, NEW o, NEW fill, NEW c, Appended(b, o, fill, c)
    PROVE  \E new :
               /\ Batched(c) /\ new \notin Fills(b)
               /\ Fills(c) = Fills(b) \cup {new} /\ FillAt(c, new) = fill
               /\ \A f \in Fills(b) : FillAt(c, f) = FillAt(b, f)
               /\ \A S \in SUBSET Fills(b) : Total(c, S) = Total(b, S)
<1> DEFINE n == Len(b[o])
           new == <<o, n + 1>>
<1> USE DEF Appended
<1>1. b[o] \in Seq(Fill) /\ n \in Nat /\ DOMAIN b[o] = 1 .. n
  BY DEF Batched
<1>2. /\ c \in [OrderIds -> Seq(Fill)]
      /\ \A p \in OrderIds \ {o} : c[p] = b[p]
      /\ DOMAIN c[o] = 1 .. n + 1 /\ c[o][n + 1] = fill
      /\ \A k \in 1 .. n : c[o][k] = b[o][k]
  BY <1>1 DEF Batched
<1>3. DOMAIN c[o] = DOMAIN b[o] \cup {n + 1} /\ n + 1 \notin DOMAIN b[o]
  BY <1>1, <1>2
<1>4. new \notin Fills(b)
  BY <1>3 DEF Fills
<1>5. Fills(c) = Fills(b) \cup {new}
  <2>1. ASSUME NEW f \in Fills(c) PROVE f \in Fills(b) \cup {new}
    BY <1>2, <1>3 DEF Fills
  <2>2. ASSUME NEW f \in Fills(b) PROVE f \in Fills(c)
    BY <1>2, <1>3 DEF Fills
  <2>3. new \in Fills(c)
    BY <1>3 DEF Fills
  <2> QED  BY <2>1, <2>2, <2>3
<1>6. FillAt(c, new) = fill
  BY <1>2 DEF FillAt
<1>7. ASSUME NEW f \in Fills(b) PROVE FillAt(c, f) = FillAt(b, f)
  <2>1. PICK p \in OrderIds : \E k \in DOMAIN b[p] : f = <<p, k>>
    BY DEF Fills
  <2>2. \A k \in DOMAIN b[p] : c[p][k] = b[p][k]
    BY <1>1, <1>2
  <2> QED  BY <2>1, <2>2 DEF FillAt
<1>8. IsFiniteSet(Fills(c))
  BY <1>5, FS_AddElement DEF Batched
<1>9. ASSUME NEW S \in SUBSET Fills(b) PROVE Total(c, S) = Total(b, S)
  <2>1. [f \in S |-> FillAt(c, f).quantity] = [f \in S |-> FillAt(b, f).quantity]
    BY <1>7
  <2> QED  BY <2>1 DEF Total
<1> HIDE DEF new
<1> QED  BY <1>2, <1>4, <1>5, <1>6, <1>7, <1>8, <1>9 DEF Batched

-----------------------------------------------------------------------------
(* The volume. *)

\* The fills that have gone through trackVolume.
Tracked ==
    {f \in Fills(batch) : pc[f[1]] = "tracking" => f[2] <= tracked}

\* The invariant: in the middle of a round the volume is that of the fills tracked.
VolumeInv ==
    /\ Batched(batch)
    /\ \A o \in OrderIds : pc[o] = "matching" => tracked = 0
    /\ \A o \in OrderIds : pc[o] = "tracking" => tracked <= Len(batch[o])
    /\ totalVolume = Total(batch, Tracked)
    /\ Len(volumeData) = Lesser(VolumeWindow, Cardinality(Tracked))

\* The places of the fills a handler returns.
Places(o, fs) == {<<o, k>> : k \in DOMAIN fs}

\* A handler that had no fills has some: their places are new.
Returned(b, o, fs, c) ==
    /\ Batched(b) /\ o \in OrderIds /\ b[o] = <<>> /\ fs \in Seq(Fill)
    /\ c = [b EXCEPT ![o] = fs]

LEMMA FillsAdded ==
    ASSUME NEW b, NEW o, NEW fs, NEW c, Returned(b, o, fs, c)
    PROVE  /\ Batched(c)
           /\ Fills(c) = Fills(b) \cup Places(o, fs)
           /\ \A f \in Fills(b) : f[1] # o
           /\ \A S \in SUBSET Fills(b) : Total(c, S) = Total(b, S)
<1> DEFINE new == Places(o, fs)
<1> USE DEF Returned
<1>1. c \in [OrderIds -> Seq(Fill)] /\ c[o] = fs /\ \A p \in OrderIds \ {o} : c[p] = b[p]
  BY DEF Batched
<1>2. \A f \in Fills(b) : f[1] # o
  BY DEF Fills
<1>3. Fills(c) = Fills(b) \cup new
  <2>1. ASSUME NEW f \in Fills(c) PROVE f \in Fills(b) \cup new
    BY <1>1 DEF Fills, Places
  <2>2. ASSUME NEW f \in Fills(b) \cup new PROVE f \in Fills(c)
    BY <1>1, <1>2 DEF Fills, Places
  <2> QED  BY <2>1, <2>2
<1>4. IsFiniteSet(new)
  <2> DEFINE place == [k \in DOMAIN fs |-> <<o, k>>]
             n == Len(fs)
  <2>1. place \in Surjection(DOMAIN fs, new)
    BY DEF Surjection, Places
  <2>2. DOMAIN fs = 1 .. n /\ n \in Nat
    OBVIOUS
  <2> HIDE DEF place, n
  <2>3. IsFiniteSet(1 .. n)
    BY <2>2, FS_Interval
  <2> QED  BY <2>1, <2>2, <2>3, FS_Surjection
<1>5. IsFiniteSet(Fills(c))
  BY <1>3, <1>4, FS_Union DEF Batched
<1>6. ASSUME NEW S \in SUBSET Fills(b) PROVE Total(c, S) = Total(b, S)
  <2>1. ASSUME NEW f \in S PROVE FillAt(c, f) = FillAt(b, f)
    <3>1. f \in Fills(b) /\ f[1] \in OrderIds \ {o}
      BY <1>2 DEF Fills
    <3> QED  BY <1>1, <3>1 DEF FillAt
  <2>2. [f \in S |-> FillAt(c, f).quantity] = [f \in S |-> FillAt(b, f).quantity]
    BY <2>1
  <2> QED  BY <2>2 DEF Total
<1> QED  BY <1>1, <1>2, <1>3, <1>5, <1>6 DEF Batched

\* Outside the tracking of a round all fills have been tracked.
LEMMA AllTracked ==
    ASSUME IInv, mu = Nobody PROVE Tracked = Fills(batch)
<1>1. ASSUME NEW f \in Fills(batch) PROVE pc[f[1]] # "tracking"
  BY IdsAssumption DEF Fills, IInv, LockInv
<1> QED  BY <1>1 DEF Tracked

LEMMA VolumeInit == Init => VolumeInv
<1> SUFFICES ASSUME Init PROVE VolumeInv
  OBVIOUS
<1>1. Fills(batch) = {}
  BY DEF Init, Fills
<1>2. Tracked = {} /\ Batched(batch)
  BY <1>1, FS_EmptySet DEF Init, Tracked, Batched
<1>3. Total(batch, {}) = 0 /\ Cardinality({}) = 0
  BY NoFills
<1>4. Len(volumeData) = Lesser(VolumeWindow, 0)
  BY WindowAssumption DEF Init, Lesser
<1> QED  BY <1>2, <1>3, <1>4 DEF Init, VolumeInv

\* What keeps the batches, the tracked fills and the volume.
LEMMA VolumeSame ==
    ASSUME VolumeInv, batch' = batch, Tracked' = Tracked,
           totalVolume' = totalVolume, volumeData' = volumeData,
           \A o \in OrderIds : pc'[o] = "matching" => tracked' = 0,
           \A o \in OrderIds : pc'[o] = "tracking" => tracked' <= Len(batch'[o])
    PROVE  VolumeInv'
  BY DEF VolumeInv

LEMMA VolumeTrack ==
    ASSUME NEW o \in OrderIds, IInv, VolumeInv, TrackVolume(o) PROVE VolumeInv'
<1> DEFINE new == <<o, tracked + 1>>
           quantity == batch[o][tracked + 1].quantity
           entry == [volume |-> quantity, value |-> posted[o].price * quantity]
           data == Append(volumeData, entry)
<1>1. /\ pc[o] = "tracking" /\ tracked < Len(batch[o]) /\ tracked' = tracked + 1
      /\ pc' = pc /\ batch' = batch
      /\ totalVolume' = totalVolume + quantity /\ volumeData' = KeepLast(data)
  BY DEF TrackVolume, roundVars
<1>2. tracked \in Nat /\ batch[o] \in Seq(Fill) /\ volumeData \in Seq(VolumeEntry)
  BY DEF IInv, TypeOK
<1>3. \A p \in OrderIds : pc[p] \in {"matching", "tracking"} <=> p = o
  BY <1>1, IdsAssumption DEF IInv, LockInv
<1>4. new \in Fills(batch) /\ new \notin Tracked /\ FillAt(batch, new).quantity = quantity
  BY <1>1, <1>2 DEF Fills, FillAt, Tracked
<1>5. Tracked' = Tracked \cup {new}
  <2>1. \A f \in Fills(batch) : f = <<f[1], f[2]>> /\ f[1] \in OrderIds /\ f[2] \in Nat
    BY DEF Fills, VolumeInv, Batched
  <2>2. ASSUME NEW f \in Fills(batch)
        PROVE  (pc[f[1]] = "tracking" => f[2] <= tracked + 1)
                <=> (pc[f[1]] = "tracking" => f[2] <= tracked) \/ f = new
    BY <1>1, <1>2, <1>3, <2>1
  <2> QED  BY <1>1, <1>4, <2>2 DEF Tracked
<1>6. /\ Total(batch, Tracked') = Total(batch, Tracked) + quantity
      /\ Cardinality(Tracked') = Cardinality(Tracked) + 1
  <2>1. Tracked \in SUBSET Fills(batch) /\ new \in Fills(batch) \ Tracked
    BY <1>4 DEF Tracked
  <2> HIDE DEF new
  <2> QED  BY <1>4, <1>5, <2>1, TotalAdd DEF VolumeInv
<1>7. Cardinality(Tracked) \in Nat
  BY TotalType DEF VolumeInv, Tracked
<1>8. Len(volumeData') = Lesser(VolumeWindow, Cardinality(Tracked) + 1)
  <2>1. Len(data) = Len(volumeData) + 1 /\ Len(volumeData) \in Nat
    BY <1>2
  <2>2. Len(data) > 0 => Len(Tail(data)) = Len(data) - 1
    BY <1>2
  <2> HIDE DEF data
  <2> QED  BY <1>1, <1>7, <2>1, <2>2, WindowAssumption DEF KeepLast, VolumeInv, Lesser
<1> HIDE DEF quantity
<1> QED  BY <1>1, <1>2, <1>3, <1>6, <1>8 DEF VolumeInv

LEMMA VolumeFinish ==
    ASSUME NEW o \in OrderIds, IInv, VolumeInv, FinishMatch(o) PROVE VolumeInv'
<1>1. /\ pc[o] = "matching" /\ pc' = [pc EXCEPT ![o] = "tracking"]
      /\ batch' = [batch EXCEPT ![o] = fills] /\ tracked' = tracked
      /\ totalVolume' = totalVolume /\ volumeData' = volumeData
  BY DEF FinishMatch, volumeVars
<1>2. /\ batch[o] = <<>> /\ fills \in Seq(Fill) /\ tracked = 0
      /\ pc'[o] = "tracking" /\ \A p \in OrderIds \ {o} : pc'[p] = pc[p]
  BY <1>1 DEF IInv, TypeOK, SpentInv, VolumeInv
<1>3. /\ Batched(batch')
      /\ Fills(batch') = Fills(batch) \cup Places(o, fills)
      /\ \A f \in Fills(batch) : f[1] # o
      /\ \A S \in SUBSET Fills(batch) : Total(batch', S) = Total(batch, S)
  <2>1. Batched(batch)
    BY DEF VolumeInv
  <2>2. Returned(batch, o, fills, batch')
    BY <1>1, <1>2, <2>1 DEF Returned
  <2> QED  BY <2>2, FillsAdded
<1>4. Tracked' = Tracked
  <2>1. \A f \in Fills(batch) : pc'[f[1]] = pc[f[1]]
    BY <1>2, <1>3 DEF Fills
  <2>2. \A f \in Places(o, fills) : f[1] = o /\ ~(f[2] <= 0)
    BY <1>2 DEF Places
  <2> QED  BY <1>1, <1>2, <1>3, <2>1, <2>2 DEF Tracked
<1>5. Total(batch', Tracked') = Total(batch, Tracked)
  BY <1>3, <1>4 DEF Tracked
<1>6. \A p \in OrderIds : pc'[p] = "tracking" => tracked' <= Len(batch'[p])
  BY <1>1, <1>2, <1>3 DEF Batched
<1> QED  BY <1>1, <1>2, <1>3, <1>4, <1>5, <1>6 DEF VolumeInv

LEMMA VolumeNext == IInv /\ VolumeInv /\ [Next]_vars => VolumeInv'
<1> SUFFICES ASSUME IInv, VolumeInv, [Next]_vars PROVE VolumeInv'
  OBVIOUS
<1> USE DEF roundVars, volumeVars
<1>1. ASSUME NEW o \in OrderIds, Post(o) \/ NotEnoughOrders(o) PROVE VolumeInv'
  <2>1. /\ mu = Nobody /\ batch' = batch /\ tracked' = tracked
        /\ totalVolume' = totalVolume /\ volumeData' = volumeData
        /\ \A p \in OrderIds : pc'[p] \notin {"matching", "tracking"}
    BY <1>1, IdsAssumption DEF Post, NotEnoughOrders, IInv, LockInv, TypeOK
  <2>2. Tracked' = Fills(batch)
    BY <2>1 DEF Tracked, Fills
  <2> QED  BY <2>1, <2>2, AllTracked, VolumeSame
<1>2. ASSUME NEW o \in OrderIds, StartMatch(o) PROVE VolumeInv'
  <2>1. /\ mu = Nobody /\ batch' = batch /\ tracked' = 0
        /\ totalVolume' = totalVolume /\ volumeData' = volumeData
        /\ \A p \in OrderIds : pc'[p] # "tracking"
    BY <1>2, IdsAssumption DEF StartMatch, IInv, LockInv, TypeOK
  <2>2. Tracked' = Fills(batch)
    BY <2>1 DEF Tracked, Fills
  <2> QED  BY <2>1, <2>2, AllTracked, VolumeSame
<1>3. ASSUME NEW o \in OrderIds, Iterate(o) PROVE VolumeInv'
  <2>1. /\ batch' = batch /\ tracked' = tracked /\ pc' = pc
        /\ totalVolume' = totalVolume /\ volumeData' = volumeData
    BY <1>3 DEF Iterate
  <2> QED  BY <2>1, VolumeSame DEF VolumeInv, Tracked
<1>4. ASSUME NEW o \in OrderIds, Unlock(o) PROVE VolumeInv'
  <2>1. /\ pc[o] = "tracking" /\ batch' = batch /\ tracked' = tracked
        /\ totalVolume' = totalVolume /\ volumeData' = volumeData
        /\ tracked = Len(batch[o])
        /\ \A p \in OrderIds : pc'[p] \notin {"matching", "tracking"}
    BY <1>4 DEF Unlock, IInv, LockInv, TypeOK
  <2>2. Tracked' = Fills(batch)
    BY <2>1 DEF Tracked, Fills
  <2>3. Tracked = Fills(batch)
    <3>1. \A p \in OrderIds : pc[p] = "tracking" => p = o
      BY <2>1 DEF IInv, LockInv
    <3>2. ASSUME NEW f \in Fills(batch), f[1] = o PROVE f[2] <= tracked
      BY <2>1, <3>2 DEF Fills, VolumeInv, Batched
    <3>3. \A f \in Fills(batch) : f[1] \in OrderIds
      BY DEF Fills
    <3> QED  BY <3>1, <3>2, <3>3 DEF Tracked
  <2> QED  BY <2>1, <2>2, <2>3, VolumeSame
<1>5. CASE UNCHANGED vars
  BY <1>5, VolumeSame DEF vars, VolumeInv, Tracked
<1> QED  BY <1>1, <1>2, <1>3, <1>4, <1>5, VolumeTrack, VolumeFinish DEF Next, Handler

\* main.go:145-169, 239-251.  Whatever the rounds and their fills, between rounds
\* the total volume is that of all fills of all batches, once each, and the
\* window holds as many of the last ones as it may.
THEOREM VolumeAdded == Spec => []VolumeAccounts
<1>1. IInv /\ VolumeInv => VolumeAccounts
  BY AllTracked DEF VolumeInv, VolumeAccounts
<1>2. IInv /\ VolumeInv /\ [Next]_vars => VolumeInv'
  BY VolumeNext
<1> QED  BY <1>1, <1>2, VolumeInit, Inductive, PTL DEF Spec

-----------------------------------------------------------------------------
(* The accounts. *)

\* The fills of all batches, and of the round that will return one.
Ledger == [o \in OrderIds |-> IF pc[o] = "matching" THEN fills ELSE batch[o]]

InRound == \E o \in OrderIds : pc[o] = "matching"

\* What is left of the posted orders: a round works on its two halves.
Entries ==
    IF InRound THEN {bids[k] : k \in DOMAIN bids} \cup {asks[k] : k \in DOMAIN asks}
    ELSE orderBook

MadeOf(b, id) == Total(b, MakerFills(b, id))
TakenOf(b, id) == Total(b, TakerFills(b, id))

\* Of a given amount so much is left and so much made, but for a drift.
Within(given, left, made, drift) == Distance(given, left + made) <= drift

\* An entry has lost what its fills on each side traded.
Balanced(order, b, x) ==
    /\ Within(order.makeAmount, x.makeAmount, MadeOf(b, x.id), Drift(MakerFills(b, x.id)))
    /\ Within(order.takeAmount, x.takeAmount, TakenOf(b, x.id), Drift(TakerFills(b, x.id)))

\* An order has traded all but an epsilon of one side.
Exhausted(order, b, id) ==
    \/ Distance(order.makeAmount, MadeOf(b, id)) <= Epsilon + Drift(MakerFills(b, id))
    \/ Distance(order.takeAmount, TakenOf(b, id)) <= Epsilon + Drift(TakerFills(b, id))

\* The invariant: the accounts are right within a round as well, of the ledger and
\* the entries as they are then.
AccountsInv ==
    /\ Batched(Ledger)
    /\ \A o \in OrderIds : pc[o] = "idle" => posted[o] = Nobody
    /\ \A f \in Fills(Ledger) :
          pc[FillAt(Ledger, f).maker.id] # "idle" /\ pc[FillAt(Ledger, f).taker.id] # "idle"
    /\ \A x \in Entries : Balanced(posted[x.id], Ledger, x)
    /\ \A o \in OrderIds : pc[o] # "idle" /\ (\A x \in Entries : x.id # o) =>
          Exhausted(posted[o], Ledger, o)

\* One more fill drifts once more.
LEMMA DriftAdd ==
    ASSUME NEW S, NEW T, NEW n \in Nat, Cardinality(S) = n, Cardinality(T) = n + 1
    PROVE  Drift(T) = Drift(S) + (Grain - 1) /\ Drift(S) \in Nat
<1>1. Grain - 1 \in Nat
  BY GrainAssumption
<1>2. \A g, m \in Nat : g * (m + 1) = g * m + g /\ g * m \in Nat
  OBVIOUS
<1> QED  BY <1>1, <1>2 DEF Drift

\* What rounding to the eighth decimal moves: less than half of it.
LEMMA FormatMoves ==
    ASSUME NEW a \in Nat
    PROVE  FormatAmount(a) \in Nat /\ 2 * Distance(FormatAmount(a), a) <= Grain - 1
<1> DEFINE r == a % Grain
<1>1. Grain \in Nat \ {0} /\ Grain % 2 = 1
  BY GrainAssumption
<1>2. PICK h \in Nat : Grain = 2 * h + 1
  BY <1>1
<1>3. r \in 0 .. Grain - 1 /\ r <= a
  BY <1>1, ModFacts
<1> HIDE DEF r
<1>4. FormatAmount(a) = IF 2 * r < Grain THEN a - r ELSE a + (Grain - r)
  BY DEF FormatAmount, r
<1> QED  BY <1>2, <1>3, <1>4 DEF Distance

\* A fill takes from the amount of an entry what it adds to the fills of it,
\* both rounded.
LEMMA FillMoves ==
    ASSUME NEW given \in Nat, NEW left \in Nat, NEW made \in Nat, NEW drift \in Nat,
           Within(given, left, made, drift), NEW quantity \in Nat, quantity <= left
    PROVE  Within(given, FormatAmount(left - quantity), made + FormatAmount(quantity),
                  drift + (Grain - 1))
<1> DEFINE rest == left - quantity
<1>1. rest \in Nat /\ left = rest + quantity
  OBVIOUS
<1> HIDE DEF rest
<1>2. /\ FormatAmount(rest) \in Nat /\ 2 * Distance(FormatAmount(rest), rest) <= Grain - 1
      /\ FormatAmount(quantity) \in Nat
      /\ 2 * Distance(FormatAmount(quantity), quantity) <= Grain - 1
  BY <1>1, FormatMoves
<1>3. Grain \in Nat
  BY GrainAssumption
<1>4. Distance(given, FormatAmount(rest) + (made + FormatAmount(quantity)))
         <= drift + (Grain - 1)
  BY <1>1, <1>2, <1>3 DEF Within, Distance
<1> QED  BY <1>4 DEF rest, Within

\* What is made of an order: an amount, for a finite set of fills.
LEMMA MadeType ==
    ASSUME NEW b, Batched(b), NEW id
    PROVE  /\ MadeOf(b, id) \in Nat /\ Drift(MakerFills(b, id)) \in Nat
           /\ TakenOf(b, id) \in Nat /\ Drift(TakerFills(b, id)) \in Nat
           /\ Cardinality(MakerFills(b, id)) \in Nat
           /\ Cardinality(TakerFills(b, id)) \in Nat
<1>1. MakerFills(b, id) \in SUBSET Fills(b) /\ TakerFills(b, id) \in SUBSET Fills(b)
  BY DEF MakerFills, TakerFills
<1>2. \A n \in Nat : (Grain - 1) * n \in Nat
  <2>1. Grain - 1 \in Nat
    BY GrainAssumption
  <2>2. \A g, n \in Nat : g * n \in Nat
    OBVIOUS
  <2> QED  BY <2>1, <2>2
<1> QED  BY <1>1, <1>2, TotalType DEF MadeOf, TakenOf, Drift

\* One more fill counts for its maker and its taker, and for nobody else.
LEMMA FillCounts ==
    ASSUME NEW b, NEW o, NEW fill, NEW c, Appended(b, o, fill, c), NEW id
    PROVE  /\ id = fill.maker.id =>
                /\ MadeOf(c, id) = MadeOf(b, id) + fill.quantity
                /\ Drift(MakerFills(c, id)) = Drift(MakerFills(b, id)) + (Grain - 1)
           /\ id # fill.maker.id =>
                /\ MadeOf(c, id) = MadeOf(b, id)
                /\ Drift(MakerFills(c, id)) = Drift(MakerFills(b, id))
           /\ id = fill.taker.id =>
                /\ TakenOf(c, id) = TakenOf(b, id) + fill.quantity
                /\ Drift(TakerFills(c, id)) = Drift(TakerFills(b, id)) + (Grain - 1)
           /\ id # fill.taker.id =>
                /\ TakenOf(c, id) = TakenOf(b, id)
                /\ Drift(TakerFills(c, id)) = Drift(TakerFills(b, id))
<1>1. PICK new :
        /\ Batched(c) /\ new \notin Fills(b)
        /\ Fills(c) = Fills(b) \cup {new} /\ FillAt(c, new) = fill
        /\ \A f \in Fills(b) : FillAt(c, f) = FillAt(b, f)
        /\ \A S \in SUBSET Fills(b) : Total(c, S) = Total(b, S)
  BY FillAppended
<1>2. Batched(b)
  BY DEF Appended
<1>3. ASSUME NEW S \in SUBSET Fills(b), NEW T, T = S \cup {new}
      PROVE  /\ Total(c, T) = Total(b, S) + fill.quantity
             /\ Drift(T) = Drift(S) + (Grain - 1)
  <2>1. /\ Total(c, T) = Total(c, S) + fill.quantity
        /\ Cardinality(T) = Cardinality(S) + 1
    BY <1>1, <1>3, TotalAdd
  <2>2. Cardinality(S) \in Nat
    BY <1>2, TotalType
  <2> QED  BY <1>1, <2>1, <2>2, DriftAdd
<1>4. MakerFills(c, id) = IF id = fill.maker.id THEN MakerFills(b, id) \cup {new}
                                                ELSE MakerFills(b, id)
  BY <1>1 DEF MakerFills
<1>5. TakerFills(c, id) = IF id = fill.taker.id THEN TakerFills(b, id) \cup {new}
                                                ELSE TakerFills(b, id)
  BY <1>1 DEF TakerFills
<1>6. MakerFills(b, id) \in SUBSET Fills(b) /\ TakerFills(b, id) \in SUBSET Fills(b)
  BY DEF MakerFills, TakerFills
<1> QED  BY <1>1, <1>3, <1>4, <1>5, <1>6 DEF MadeOf, TakenOf

\* Outside rounds the ledger is the batches, and the entries are the book.
LEMMA OutsideRounds ==
    ASSUME IInv, mu = Nobody
    PROVE  /\ Ledger = batch /\ Entries = orderBook
           /\ \A o \in OrderIds : pc[o] # "matching"
<1>1. \A o \in OrderIds : pc[o] # "matching"
  BY IdsAssumption DEF IInv, LockInv
<1>2. batch \in [OrderIds -> Seq(Fill)]
  BY DEF IInv, TypeOK
<1> QED  BY <1>1, <1>2 DEF Ledger, Entries, InRound

LEMMA AccountsInit == Init => AccountsInv
<1> SUFFICES ASSUME Init PROVE AccountsInv
  OBVIOUS
<1>1. Ledger = batch /\ Entries = {} /\ Fills(batch) = {}
  <2>1. IInv /\ mu = Nobody
    BY InitInv DEF Init
  <2> QED  BY <2>1, OutsideRounds DEF Init, Fills
<1>2. Batched(Ledger)
  <2>1. <<>> \in Seq(Fill)
    OBVIOUS
  <2>2. batch \in [OrderIds -> Seq(Fill)]
    BY <2>1 DEF Init
  <2> QED  BY <1>1, <2>2, FS_EmptySet DEF Batched
<1>3. \A o \in OrderIds : pc[o] = "idle" /\ posted[o] = Nobody
  BY DEF Init
<1> QED  BY <1>1, <1>2, <1>3 DEF AccountsInv

\* What keeps the ledger, the entries and who has posted keeps the accounts.
LEMMA AccountsSame ==
    ASSUME IInv, AccountsInv, Ledger' = Ledger, Entries' = Entries, posted' = posted,
           \A o \in OrderIds : pc'[o] = "idle" <=> pc[o] = "idle"
    PROVE  AccountsInv'
<1>1. \A f \in Fills(Ledger) : FillAt(Ledger, f) \in Fill
  BY FillTypes DEF AccountsInv
<1>2. \A x \in Fill : x.maker.id \in OrderIds /\ x.taker.id \in OrderIds
  BY DEF Fill, Order
<1> QED  BY <1>1, <1>2 DEF AccountsInv

LEMMA AccountsPost ==
    ASSUME NEW o \in OrderIds, IInv, AccountsInv, Post(o) PROVE AccountsInv'
<1> DEFINE new == posted'[o]
<1>1. PICK t \in Terms : posted' = [posted EXCEPT ![o] =
             [id |-> o, price |-> t.price, timestamp |-> t.timestamp,
              makeAmount |-> t.makeAmount, takeAmount |-> t.takeAmount]]
  BY DEF Post
<1>2. /\ pc[o] = "idle" /\ pc' = [pc EXCEPT ![o] = "appended"]
      /\ mu = Nobody /\ mu' = mu /\ batch' = batch
      /\ orderBook' = orderBook \cup {new}
  BY DEF Post
<1>3. IInv'
  BY PostInv
<1>4. /\ new.id = o /\ new.makeAmount \in Nat /\ new.takeAmount \in Nat
      /\ \A p \in OrderIds \ {o} : posted'[p] = posted[p]
      /\ \A p \in OrderIds \ {o} : pc'[p] = pc[p]
      /\ pc'[o] = "appended"
  <2>1. new \in Order /\ pc'[o] # "idle"
    BY <1>2, <1>3 DEF IInv, LockInv, TypeOK
  <2> QED  BY <1>1, <1>2, <2>1 DEF IInv, TypeOK, Order, Amount
<1> HIDE DEF new
<1>5. Ledger = batch /\ Entries = orderBook
  BY <1>2, OutsideRounds
<1>6. Ledger' = batch /\ Entries' = orderBook \cup {new}
  <2>1. (Ledger = batch /\ Entries = orderBook)'
    <3>1. \A p \in OrderIds : pc'[p] # "matching"
      BY <1>2, <1>3, IdsAssumption DEF IInv, LockInv
    <3>2. batch' \in [OrderIds -> Seq(Fill)]
      BY <1>3 DEF IInv, TypeOK
    <3> QED  BY <3>1, <3>2 DEF Ledger, Entries, InRound
  <2> QED  BY <1>2, <2>1
<1>7. Batched(batch)
  BY <1>5 DEF AccountsInv
<1>8. MakerFills(batch, o) = {} /\ TakerFills(batch, o) = {}
  BY <1>2, <1>5 DEF AccountsInv, MakerFills, TakerFills
<1>9. Balanced(new, batch, new)
  <2>1. MadeOf(batch, o) = 0 /\ TakenOf(batch, o) = 0 /\ Drift({}) = 0
    <3>1. (Grain - 1) * 0 = 0
      BY GrainAssumption
    <3> QED  BY <1>8, <3>1, NoFills DEF MadeOf, TakenOf, Drift
  <2> QED  BY <1>4, <1>8, <2>1 DEF Balanced, Within, Distance
<1>10. \A x \in orderBook : x.id \in OrderIds \ {o}
  BY <1>2 DEF IInv, TypeOK, BookInv, Order
<1>11. \A x \in Entries' : Balanced(posted'[x.id], Ledger', x)
  <2>1. \A x \in orderBook : Balanced(posted[x.id], batch, x)
    BY <1>5 DEF AccountsInv
  <2>2. posted'[new.id] = new
    BY <1>4 DEF new
  <2> QED  BY <1>4, <1>6, <1>9, <1>10, <2>1, <2>2
<1>12. ASSUME NEW p \in OrderIds, pc'[p] # "idle", \A x \in Entries' : x.id # p
       PROVE  Exhausted(posted'[p], Ledger', p)
  <2>1. p # o /\ pc[p] # "idle" /\ \A x \in Entries : x.id # p
    BY <1>4, <1>5, <1>6, <1>12
  <2> QED  BY <1>4, <1>5, <1>6, <2>1 DEF AccountsInv
<1>13. \A f \in Fills(Ledger') : pc'[FillAt(Ledger', f).maker.id] # "idle"
                              /\ pc'[FillAt(Ledger', f).taker.id] # "idle"
  <2>1. \A f \in Fills(batch) : FillAt(batch, f) \in Fill
    BY <1>7, FillTypes
  <2>2. \A x \in Fill : x.maker.id \in OrderIds /\ x.taker.id \in OrderIds
    BY DEF Fill, Order
  <2> QED  BY <1>4, <1>5, <1>6, <2>1, <2>2 DEF AccountsInv
<1>14. \A p \in OrderIds : pc'[p] = "idle" => posted'[p] = Nobody
  BY <1>4 DEF AccountsInv
<1> QED  BY <1>6, <1>7, <1>11, <1>12, <1>13, <1>14 DEF AccountsInv

\* A sorted book has each of its orders in one of the two halves.
LEMMA HalvesComplete ==
    ASSUME NEW B, IsFiniteSet(B), NEW s \in Sorted(B), NEW m \in 0 .. Cardinality(B)
    PROVE  LET upper == SubSeq(s, 1, m)
               lower == SubSeq(s, m + 1, Cardinality(B))
           IN  {upper[k] : k \in DOMAIN upper} \cup {lower[k] : k \in DOMAIN lower} = B
<1> DEFINE n == Cardinality(B)
           upper == SubSeq(s, 1, m)
           lower == SubSeq(s, m + 1, n)
<1>1. n \in Nat /\ m \in 0 .. n
  BY FS_CardinalityType
<1>2. /\ s \in [1 .. n -> B]
      /\ \A x, y \in 1 .. n : x < y => s[x] # s[y]
  BY DEF Sorted
<1>3. \A b \in B : \E k \in 1 .. n : s[k] = b
  <2> HIDE DEF n
  <2>1. s \in Injection(1 .. n, B)
    <3>1. \A x, y \in 1 .. n : x # y => x < y \/ y < x
      OBVIOUS
    <3> QED  BY <1>2, <3>1 DEF Injection, IsInjective
  <2>2. Cardinality(1 .. n) = n
    <3>1. 1 \in Int /\ n \in Int /\ (1 > n => n = 0) /\ n - 1 + 1 = n
      BY <1>1
    <3> QED  BY <3>1, FS_Interval
  <2>3. s \in Surjection(1 .. n, B)
    BY <2>1, <2>2, FS_Injection DEF n
  <2> QED  BY <2>3 DEF Surjection
<1>4. /\ DOMAIN upper = 1 .. m /\ \A k \in 1 .. m : upper[k] = s[k]
      /\ DOMAIN lower = 1 .. n - m /\ \A k \in 1 .. n - m : lower[k] = s[m + k]
  BY <1>1, <1>2, SplitFacts
<1> HIDE DEF n, upper, lower
<1>5. ASSUME NEW b \in B
      PROVE  (\E k \in DOMAIN upper : upper[k] = b) \/ (\E k \in DOMAIN lower : lower[k] = b)
  <2>1. PICK k \in 1 .. n : s[k] = b
    BY <1>3
  <2>2. CASE k <= m
    BY <1>1, <1>4, <2>1, <2>2
  <2>3. CASE k > m
    <3>1. k - m \in 1 .. n - m /\ m + (k - m) = k
      BY <1>1, <2>3
    <3> QED  BY <1>4, <2>1, <3>1
  <2> QED  BY <1>1, <2>2, <2>3
<1>6. \A k \in DOMAIN upper : upper[k] \in B
  BY <1>1, <1>2, <1>4
<1>7. ASSUME NEW k \in DOMAIN lower PROVE lower[k] \in B
  <2>1. m + k \in 1 .. n /\ lower[k] = s[m + k]
    BY <1>1, <1>4
  <2> QED  BY <1>2, <2>1
<1>8. {upper[k] : k \in DOMAIN upper} \cup {lower[k] : k \in DOMAIN lower} = B
  BY <1>5, <1>6, <1>7
<1> QED  BY <1>8 DEF n, upper, lower

LEMMA AccountsStart ==
    ASSUME NEW o \in OrderIds, IInv, AccountsInv, StartMatch(o) PROVE AccountsInv'
<1> DEFINE n == Cardinality(orderBook)
           m == Midpoint(n)
<1>1. /\ pc[o] = "appended" /\ pc' = [pc EXCEPT ![o] = "matching"] /\ mu = Nobody
      /\ fills' = <<>> /\ batch' = batch /\ posted' = posted
  BY DEF StartMatch
<1>2. PICK s \in Sorted(orderBook) : bids' = SubSeq(s, 1, m) /\ asks' = SubSeq(s, m + 1, n)
  BY DEF StartMatch
<1>3. /\ pc'[o] = "matching" /\ \A p \in OrderIds \ {o} : pc'[p] = pc[p]
      /\ batch[o] = <<>> /\ batch \in [OrderIds -> Seq(Fill)]
  BY <1>1 DEF IInv, TypeOK, SpentInv
<1>4. Ledger' = Ledger
  <2>1. \A p \in OrderIds : pc[p] # "matching" /\ (pc'[p] = "matching" => p = o)
    BY <1>1, <1>3, OutsideRounds
  <2> QED  BY <1>1, <1>3, <2>1 DEF Ledger
<1>5. Entries' = Entries
  <2>1. IsFiniteSet(orderBook) /\ n \in Nat /\ n >= 2
    BY FS_CardinalityType DEF StartMatch, IInv, BookInv
  <2>2. m \in 0 .. n
    BY <2>1 DEF Midpoint
  <2>3. {bids'[k] : k \in DOMAIN bids'} \cup {asks'[k] : k \in DOMAIN asks'} = orderBook
    <3> HIDE DEF m
    <3> QED  BY <1>2, <2>1, <2>2, HalvesComplete
  <2>4. InRound'
    BY <1>3 DEF InRound
  <2> QED  BY <1>1, <2>3, <2>4, OutsideRounds DEF Entries
<1>6. \A p \in OrderIds : pc'[p] = "idle" <=> pc[p] = "idle"
  BY <1>1, <1>3
<1> QED  BY <1>1, <1>4, <1>5, <1>6, AccountsSame

\* An iteration appends a fill, and rounds what it leaves of its two orders.
LEMMA AccountsIterate ==
    ASSUME NEW o \in OrderIds, IInv, AccountsInv, Iterate(o) PROVE AccountsInv'
<1> DEFINE bid == bids[i]
           ask == asks[j]
           fillQty == Lesser(bid.makeAmount, ask.takeAmount)
           fill == [maker |-> bid, taker |-> ask, quantity |-> FormatAmount(fillQty)]
<1>1. /\ MakeFill /\ HalvesInv /\ i \in DOMAIN bids /\ j \in DOMAIN asks
      /\ bid \in Order /\ ask \in Order
  BY IterateFills
<1>2. /\ pc[o] = "matching" /\ pc' = pc /\ posted' = posted /\ batch' = batch
  BY DEF Iterate
<1>3. /\ bid.makeAmount \in Nat /\ ask.takeAmount \in Nat
      /\ bid.takeAmount \in Nat /\ ask.makeAmount \in Nat
      /\ bid.id \in OrderIds /\ ask.id \in OrderIds /\ bid.id # ask.id
  BY <1>1 DEF Order, Amount, HalvesInv
<1>4. fillQty \in Nat /\ fillQty <= bid.makeAmount /\ fillQty <= ask.takeAmount
  BY <1>3 DEF Lesser
<1>5. /\ fills' = Append(fills, fill)
      /\ bids' = [bids EXCEPT ![i].makeAmount = FormatAmount(bid.makeAmount - fillQty)]
      /\ asks' = [asks EXCEPT ![j].takeAmount = FormatAmount(ask.takeAmount - fillQty)]
  BY <1>1 DEF MakeFill
<1> HIDE DEF fillQty
<1>6. fill \in Fill /\ fill.maker = bid /\ fill.taker = ask
      /\ fill.quantity = FormatAmount(fillQty)
  BY <1>1, <1>4, FormatMoves DEF Fill, Amount
<1>7. bids \in Seq(Order) /\ asks \in Seq(Order)
  BY DEF IInv, TypeOK
<1>8. /\ DOMAIN bids' = DOMAIN bids
      /\ \A x \in DOMAIN bids : x # i => bids'[x] = bids[x]
      /\ bids'[i].makeAmount = FormatAmount(bid.makeAmount - fillQty)
      /\ \A x \in DOMAIN bids : bids'[x].id = bids[x].id
                               /\ bids'[x].takeAmount = bids[x].takeAmount
  <2>1. FormatAmount(bid.makeAmount - fillQty) \in Amount
    BY <1>3, <1>4, FormatFacts DEF Amount
  <2> QED  BY <1>1, <1>5, <1>7, <2>1, MakeReplaced
<1>9. /\ DOMAIN asks' = DOMAIN asks
      /\ \A x \in DOMAIN asks : x # j => asks'[x] = asks[x]
      /\ asks'[j].takeAmount = FormatAmount(ask.takeAmount - fillQty)
      /\ \A x \in DOMAIN asks : asks'[x].id = asks[x].id
                               /\ asks'[x].makeAmount = asks[x].makeAmount
  <2>1. FormatAmount(ask.takeAmount - fillQty) \in Amount
    BY <1>3, <1>4, FormatFacts DEF Amount
  <2> QED  BY <1>1, <1>5, <1>7, <2>1, TakeReplaced
<1> HIDE DEF fill, bid, ask
<1>10. Appended(Ledger, o, fill, Ledger')
  <2>1. batch \in [OrderIds -> Seq(Fill)] /\ fills \in Seq(Fill)
    BY DEF IInv, TypeOK
  <2>2. \A p \in OrderIds : pc[p] = "matching" <=> p = o
    BY <1>2, IdsAssumption DEF IInv, LockInv
  <2>3. /\ Ledger = [p \in OrderIds |-> IF p = o THEN fills ELSE batch[p]]
        /\ Ledger' = [p \in OrderIds |-> IF p = o THEN fills' ELSE batch[p]]
    BY <1>2, <2>2 DEF Ledger
  <2>4. Ledger' = [Ledger EXCEPT ![o] = Append(Ledger[o], fill)]
    BY <1>5, <2>3
  <2> QED  BY <1>6, <2>4 DEF Appended, AccountsInv
<1>11. /\ Entries = {bids[k] : k \in DOMAIN bids} \cup {asks[k] : k \in DOMAIN asks}
       /\ Entries' = {bids'[k] : k \in DOMAIN bids'} \cup {asks'[k] : k \in DOMAIN asks'}
  BY <1>2 DEF Entries, InRound
<1>12. /\ bid \in Entries /\ ask \in Entries
       /\ \A x \in Entries : x.id \in OrderIds /\ pc[x.id] # "idle"
  <2>1. \A k \in DOMAIN bids : bids[k] \in Order /\ pc[bids[k].id] # "idle"
    BY <1>1, <1>7 DEF HalvesInv
  <2>2. \A k \in DOMAIN asks : asks[k] \in Order /\ pc[asks[k].id] # "idle"
    BY <1>1, <1>7 DEF HalvesInv
  <2> QED  BY <1>1, <1>11, <2>1, <2>2 DEF bid, ask, Order
<1>13. /\ posted[bid.id] \in Order /\ posted[ask.id] \in Order
       /\ \A p \in OrderIds : pc[p] # "idle" => posted[p] \in Order
  BY <1>3, <1>12 DEF IInv, LockInv
<1>14. /\ Batched(Ledger) /\ Batched(Ledger')
       /\ Balanced(posted[bid.id], Ledger, bid) /\ Balanced(posted[ask.id], Ledger, ask)
  BY <1>10, <1>12, FillAppended DEF AccountsInv
<1>15. \A id : /\ id # bid.id => MadeOf(Ledger', id) = MadeOf(Ledger, id)
                             /\ Drift(MakerFills(Ledger', id)) = Drift(MakerFills(Ledger, id))
               /\ id # ask.id => TakenOf(Ledger', id) = TakenOf(Ledger, id)
                             /\ Drift(TakerFills(Ledger', id)) = Drift(TakerFills(Ledger, id))
  <2> TAKE id
  <2> QED  BY <1>6, <1>10, FillCounts
<1>16. /\ MadeOf(Ledger', bid.id) = MadeOf(Ledger, bid.id) + FormatAmount(fillQty)
       /\ Drift(MakerFills(Ledger', bid.id)) = Drift(MakerFills(Ledger, bid.id)) + (Grain - 1)
       /\ TakenOf(Ledger', ask.id) = TakenOf(Ledger, ask.id) + FormatAmount(fillQty)
       /\ Drift(TakerFills(Ledger', ask.id)) = Drift(TakerFills(Ledger, ask.id)) + (Grain - 1)
  BY <1>6, <1>10, FillCounts
<1>17. Balanced(posted[bid.id], Ledger', bids'[i])
  <2>1. /\ posted[bid.id].makeAmount \in Nat /\ MadeOf(Ledger, bid.id) \in Nat
        /\ Drift(MakerFills(Ledger, bid.id)) \in Nat
    BY <1>13, <1>14, MadeType DEF Order, Amount
  <2>2. Within(posted[bid.id].makeAmount, bids'[i].makeAmount, MadeOf(Ledger', bid.id),
               Drift(MakerFills(Ledger', bid.id)))
    <3>1. Within(posted[bid.id].makeAmount, bid.makeAmount, MadeOf(Ledger, bid.id),
                 Drift(MakerFills(Ledger, bid.id)))
      BY <1>14 DEF Balanced
    <3> QED  BY <1>3, <1>4, <1>8, <1>16, <2>1, <3>1, FillMoves
  <2>3. bids'[i].id = bid.id /\ bids'[i].takeAmount = bid.takeAmount
    BY <1>1, <1>8 DEF bid
  <2> QED  BY <1>3, <1>14, <1>15, <2>2, <2>3 DEF Balanced
<1>18. Balanced(posted[ask.id], Ledger', asks'[j])
  <2>1. /\ posted[ask.id].takeAmount \in Nat /\ TakenOf(Ledger, ask.id) \in Nat
        /\ Drift(TakerFills(Ledger, ask.id)) \in Nat
    BY <1>13, <1>14, MadeType DEF Order, Amount
  <2>2. Within(posted[ask.id].takeAmount, asks'[j].takeAmount, TakenOf(Ledger', ask.id),
               Drift(TakerFills(Ledger', ask.id)))
    <3>1. Within(posted[ask.id].takeAmount, ask.takeAmount, TakenOf(Ledger, ask.id),
                 Drift(TakerFills(Ledger, ask.id)))
      BY <1>14 DEF Balanced
    <3> QED  BY <1>3, <1>4, <1>9, <1>16, <2>1, <3>1, FillMoves
  <2>3. asks'[j].id = ask.id /\ asks'[j].makeAmount = ask.makeAmount
    BY <1>1, <1>9 DEF ask
  <2> QED  BY <1>3, <1>14, <1>15, <2>2, <2>3 DEF Balanced
<1>19. \A x \in Entries' : Balanced(posted'[x.id], Ledger', x)
  <2>1. ASSUME NEW k \in DOMAIN bids, k # i
        PROVE  Balanced(posted[bids'[k].id], Ledger', bids'[k])
    <3>1. bids'[k] = bids[k] /\ bids[k] \in Entries
      BY <1>8, <1>11, <2>1
    <3>2. bids[k].id # bid.id /\ bids[k].id # ask.id
      BY <1>1, <2>1 DEF HalvesInv, bid, ask
    <3>3. Balanced(posted[bids[k].id], Ledger, bids[k])
      BY <3>1 DEF AccountsInv
    <3> QED  BY <1>15, <3>1, <3>2, <3>3 DEF Balanced
  <2>2. ASSUME NEW k \in DOMAIN asks, k # j
        PROVE  Balanced(posted[asks'[k].id], Ledger', asks'[k])
    <3>1. asks'[k] = asks[k] /\ asks[k] \in Entries
      BY <1>9, <1>11, <2>2
    <3>2. asks[k].id # bid.id /\ asks[k].id # ask.id
      BY <1>1, <2>2 DEF HalvesInv, bid, ask
    <3>3. Balanced(posted[asks[k].id], Ledger, asks[k])
      BY <3>1 DEF AccountsInv
    <3> QED  BY <1>15, <3>1, <3>2, <3>3 DEF Balanced
  <2>3. bids'[i].id = bid.id /\ asks'[j].id = ask.id
    BY <1>1, <1>8, <1>9 DEF bid, ask
  <2>4. \A k \in DOMAIN bids : Balanced(posted[bids'[k].id], Ledger', bids'[k])
    BY <1>17, <2>1, <2>3
  <2>5. \A k \in DOMAIN asks : Balanced(posted[asks'[k].id], Ledger', asks'[k])
    BY <1>18, <2>2, <2>3
  <2> QED  BY <1>2, <1>8, <1>9, <1>11, <2>4, <2>5
<1>20. ASSUME NEW p \in OrderIds, pc'[p] # "idle", \A x \in Entries' : x.id # p
       PROVE  Exhausted(posted'[p], Ledger', p)
  <2>1. /\ \A k \in DOMAIN bids : bids'[k] \in Entries' /\ bids'[k].id = bids[k].id
        /\ \A k \in DOMAIN asks : asks'[k] \in Entries' /\ asks'[k].id = asks[k].id
    BY <1>8, <1>9, <1>11 DEF bid, ask
  <2>2. \A x \in Entries : x.id # p
    BY <1>11, <1>20, <2>1
  <2>3. Exhausted(posted[p], Ledger, p) /\ p # bid.id /\ p # ask.id
    BY <1>2, <1>12, <1>20, <2>2 DEF AccountsInv
  <2> QED  BY <1>2, <1>15, <2>3 DEF Exhausted
<1>21. \A f \in Fills(Ledger') : pc[FillAt(Ledger', f).maker.id] # "idle"
                              /\ pc[FillAt(Ledger', f).taker.id] # "idle"
  <2>1. PICK new : /\ Fills(Ledger') = Fills(Ledger) \cup {new}
                   /\ FillAt(Ledger', new) = fill
                   /\ \A f \in Fills(Ledger) : FillAt(Ledger', f) = FillAt(Ledger, f)
    BY <1>10, FillAppended
  <2> QED  BY <1>6, <1>12, <2>1 DEF AccountsInv
<1> QED  BY <1>2, <1>14, <1>19, <1>20, <1>21 DEF AccountsInv

\* matcher.go:271-335.  A round does not end without a fill.
LEMMA FinishHasFills ==
    ASSUME NEW o \in OrderIds, IInv, FinishMatch(o) PROVE fills # <<>>
<1> SUFFICES ASSUME fills = <<>> PROVE FALSE
  OBVIOUS
<1>1. HalvesInv /\ StartedInv
  BY DEF IInv, RoundInv, FinishMatch
<1>2. i = 1 /\ j = 1 /\ 1 \in DOMAIN bids /\ 1 \in DOMAIN asks
  BY <1>1 DEF StartedInv
<1>3. Len(fills) < MaxBatch /\ i <= Len(bids) /\ j <= Len(asks)
  <2>1. bids \in Seq(Order) /\ asks \in Seq(Order)
    BY DEF IInv, TypeOK
  <2> QED  BY <1>2, <2>1, BatchAssumption
<1>4. bids[i].price >= asks[j].price
  BY <1>1, <1>2 DEF HalvesInv
<1> QED  BY <1>3, <1>4 DEF FinishMatch, CanMatch

\* What a round drops from the book is used up.
LEMMA AccountsFinish ==
    ASSUME NEW o \in OrderIds, IInv, AccountsInv, FinishMatch(o) PROVE AccountsInv'
<1>1. /\ pc[o] = "matching" /\ pc' = [pc EXCEPT ![o] = "tracking"] /\ posted' = posted
      /\ batch' = [batch EXCEPT ![o] = fills] /\ fills' = fills /\ mu' = mu
      /\ orderBook' = UpdatedBook
  BY DEF FinishMatch, roundVars
<1>2. HalvesInv /\ PointerInv /\ StartedInv /\ mu = o
  BY <1>1 DEF IInv, RoundInv, LockInv
<1>3. /\ bids \in Seq(Order) /\ asks \in Seq(Order) /\ fills \in Seq(Fill)
      /\ batch \in [OrderIds -> Seq(Fill)] /\ i \in Nat /\ j \in Nat
      /\ pc'[o] = "tracking" /\ \A p \in OrderIds \ {o} : pc'[p] = pc[p]
  BY <1>1 DEF IInv, TypeOK
<1>4. \A p \in OrderIds : (pc[p] = "matching" <=> p = o) /\ pc'[p] # "matching"
                         /\ (pc'[p] = "idle" <=> pc[p] = "idle")
  BY <1>1, <1>2, <1>3, IdsAssumption DEF IInv, LockInv
<1>5. Ledger' = Ledger
  BY <1>1, <1>3, <1>4 DEF Ledger
<1>6. Entries = {bids[k] : k \in DOMAIN bids} \cup {asks[k] : k \in DOMAIN asks}
  BY <1>1 DEF Entries, InRound
<1>7. Entries' = Remaining
  <2>1. fills # <<>>
    BY FinishHasFills
  <2> QED  BY <1>1, <1>4, <2>1 DEF Entries, InRound, UpdatedBook
<1>8. Remaining \subseteq Entries
  BY <1>6 DEF Remaining
<1>9. \A x \in Entries : x.id \in OrderIds /\ pc[x.id] # "idle"
                       /\ x.makeAmount \in Nat /\ x.takeAmount \in Nat
  <2>1. \A k \in DOMAIN bids : bids[k] \in Order /\ pc[bids[k].id] # "idle"
    BY <1>2, <1>3 DEF HalvesInv
  <2>2. \A k \in DOMAIN asks : asks[k] \in Order /\ pc[asks[k].id] # "idle"
    BY <1>2, <1>3 DEF HalvesInv
  <2> QED  BY <1>6, <2>1, <2>2 DEF Order, Amount
<1>10. ASSUME NEW x \in Entries \ Remaining
       PROVE  x.makeAmount <= Epsilon \/ x.takeAmount <= Epsilon
  <2>1. CASE \E k \in DOMAIN bids : x = bids[k]
    <3>1. PICK k \in DOMAIN bids : x = bids[k]
      BY <2>1
    <3>2. ~(k >= i - 1 /\ Kept(x.makeAmount)) /\ k \in Nat
      BY <1>3, <1>10, <3>1 DEF Remaining
    <3>3. Epsilon \in Nat
      BY GrainAssumption DEF Epsilon
    <3> QED  BY <1>2, <1>3, <1>9, <3>1, <3>2, <3>3 DEF PointerInv, Kept, Parses
  <2>2. CASE \E k \in DOMAIN asks : x = asks[k]
    <3>1. PICK k \in DOMAIN asks : x = asks[k]
      BY <2>2
    <3>2. ~(k >= j - 1 /\ Kept(x.takeAmount)) /\ k \in Nat
      BY <1>3, <1>10, <3>1 DEF Remaining
    <3>3. Epsilon \in Nat
      BY GrainAssumption DEF Epsilon
    <3> QED  BY <1>2, <1>3, <1>9, <3>1, <3>2, <3>3 DEF PointerInv, Kept, Parses
  <2> QED  BY <1>6, <2>1, <2>2
<1>11. ASSUME NEW p \in OrderIds, pc'[p] # "idle", \A x \in Entries' : x.id # p
       PROVE  Exhausted(posted'[p], Ledger', p)
  <2>1. CASE \A x \in Entries : x.id # p
    BY <1>1, <1>4, <1>5, <1>11, <2>1 DEF AccountsInv
  <2>2. CASE \E x \in Entries : x.id = p
    <3>1. PICK x \in Entries : x.id = p
      BY <2>2
    <3>2. x.makeAmount <= Epsilon \/ x.takeAmount <= Epsilon
      BY <1>7, <1>10, <1>11, <3>1
    <3>3. Balanced(posted[p], Ledger, x)
      BY <3>1 DEF AccountsInv
    <3>4. /\ posted[p].makeAmount \in Nat /\ posted[p].takeAmount \in Nat
          /\ MadeOf(Ledger, p) \in Nat /\ Drift(MakerFills(Ledger, p)) \in Nat
          /\ TakenOf(Ledger, p) \in Nat /\ Drift(TakerFills(Ledger, p)) \in Nat
      <4>1. posted[p] \in Order
        BY <1>4, <1>11 DEF IInv, LockInv
      <4> QED  BY <4>1, MadeType DEF AccountsInv, Order, Amount
    <3>5. Epsilon \in Nat
      BY GrainAssumption DEF Epsilon
    <3>6. Exhausted(posted[p], Ledger, p)
      BY <1>9, <3>1, <3>2, <3>3, <3>4, <3>5 DEF Balanced, Within, Exhausted, Distance
    <3> QED  BY <1>1, <1>5, <3>6
  <2> QED  BY <2>1, <2>2
<1>12. \A x \in Entries' : Balanced(posted'[x.id], Ledger', x)
  BY <1>1, <1>5, <1>7, <1>8 DEF AccountsInv
<1>13. \A f \in Fills(Ledger') : pc'[FillAt(Ledger', f).maker.id] # "idle"
                              /\ pc'[FillAt(Ledger', f).taker.id] # "idle"
  <2>1. \A f \in Fills(Ledger) : FillAt(Ledger, f) \in Fill
    BY FillTypes DEF AccountsInv
  <2>2. \A x \in Fill : x.maker.id \in OrderIds /\ x.taker.id \in OrderIds
    BY DEF Fill, Order
  <2> QED  BY <1>4, <1>5, <2>1, <2>2 DEF AccountsInv
<1> QED  BY <1>1, <1>4, <1>5, <1>11, <1>12, <1>13 DEF AccountsInv

\* The other steps move no amount.
LEMMA AccountsNext == IInv /\ AccountsInv /\ [Next]_vars => AccountsInv'
<1> SUFFICES ASSUME IInv, AccountsInv, [Next]_vars PROVE AccountsInv'
  OBVIOUS
<1>1. ASSUME NEW o \in OrderIds, NotEnoughOrders(o) \/ Unlock(o) PROVE AccountsInv'
  <2>1. /\ pc[o] \in {"appended", "tracking"}
        /\ pc'[o] \in {"replied", "matched"} /\ \A p \in OrderIds \ {o} : pc'[p] = pc[p]
        /\ posted' = posted /\ orderBook' = orderBook /\ batch' = batch
        /\ UNCHANGED roundVars
    BY <1>1 DEF NotEnoughOrders, Unlock, IInv, TypeOK
  <2>2. \A p \in OrderIds : /\ pc'[p] = "idle" <=> pc[p] = "idle"
                            /\ pc'[p] = "matching" <=> pc[p] = "matching"
    BY <2>1
  <2>3. Ledger' = Ledger /\ Entries' = Entries
    BY <2>1, <2>2 DEF Ledger, Entries, InRound, roundVars
  <2> QED  BY <2>1, <2>2, <2>3, AccountsSame
<1>2. ASSUME NEW o \in OrderIds, TrackVolume(o) PROVE AccountsInv'
  BY <1>2, AccountsSame DEF TrackVolume, Ledger, Entries, InRound, roundVars
<1>3. CASE UNCHANGED vars
  BY <1>3, AccountsSame DEF vars, Ledger, Entries, InRound, roundVars
<1> QED  BY <1>1, <1>2, <1>3, AccountsPost, AccountsStart, AccountsIterate, AccountsFinish
         DEF Next, Handler

\* matcher.go:273-335.  Whatever the terms, the grain of the amounts and the limit
\* of a batch, between rounds every posted order is accounted for: what its fills
\* traded and what is left of it in the book make what was posted, but for the
\* rounding of each fill; one no longer in the book has traded all but an epsilon
\* of one side.
THEOREM AmountsAdded == Spec => []AmountsConserved
<1>1. IInv /\ AccountsInv => AmountsConserved
  <2> SUFFICES ASSUME IInv, AccountsInv, mu = Nobody, NEW o \in OrderIds, posted[o] # Nobody
               PROVE  /\ Cardinality(Live(o)) <= 1
                      /\ \A x \in Live(o) : Balanced(posted[o], batch, x)
                      /\ Live(o) = {} => Exhausted(posted[o], batch, o)
    BY DEF AmountsConserved, Balanced, Within, Exhausted, MadeOf, TakenOf, Live
  <2>1. Ledger = batch /\ Entries = orderBook
    BY OutsideRounds
  <2>2. pc[o] # "idle"
    BY DEF AccountsInv
  <2>3. Cardinality(Live(o)) <= 1
    <3>1. CASE Live(o) = {}
      BY <3>1, FS_EmptySet
    <3>2. CASE Live(o) # {}
      <4>1. PICK x : Live(o) = {x}
        BY <3>2 DEF Live, IInv, BookInv
      <4> QED  BY <4>1, FS_Singleton
    <3> QED  BY <3>1, <3>2
  <2> QED  BY <2>1, <2>2, <2>3 DEF AccountsInv, Live
<1>2. IInv /\ AccountsInv /\ [Next]_vars => AccountsInv'
  BY AccountsNext
<1> QED  BY <1>1, <1>2, AccountsInit, Inductive, PTL DEF Spec
=============================================================================
