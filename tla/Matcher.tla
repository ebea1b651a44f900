------------------------------ MODULE Matcher ------------------------------
(***************************************************************************)
(* The order book and the matching engine: the part of POST /orders        *)
(* (cmd/main.go, handleOrders) that runs under the mutex mu, with          *)
(* MatchAndBatch (cmd/matcher/matcher.go) as a step machine.               *)
(*                                                                         *)
(* Every POST runs in its own goroutine, here a handler named by the order *)
(* it posts.  It takes mu twice: once to append its order, once to run     *)
(* MatchAndBatch on whatever the book holds by then.  Other handlers run   *)
(* between the two.                                                        *)
(*                                                                         *)
(* Amounts are decimal strings in the code, parsed to float64 and printed  *)
(* back with eight decimals.  Here they are integers counted in units      *)
(* Grain times finer than that last decimal, so both the epsilon of the    *)
(* code (0.00000001) and what "%.8f" rounds away are kept.  Amounts are    *)
(* finite and positive: ParseFloat also accepts "NaN" and "Inf", which     *)
(* this module leaves out.                                                 *)
(***************************************************************************)
EXTENDS Integers, Sequences, FiniteSets

CONSTANTS
    OrderIds,      \* the POST requests; each carries a signature of its own
    Terms,         \* what an order may ask: price, timestamp and two amounts
    MaxBatch,      \* the most fills of a round (100 in handleOrders)
    Grain,         \* units in 0.00000001, odd so that rounding has no ties
    VolumeWindow,  \* entries kept in volumeData (24 in trackVolume)
    Nobody         \* the owner of a mutex nobody holds

ASSUME IdsAssumption == Nobody \notin OrderIds
ASSUME GrainAssumption == Grain \in Nat /\ Grain % 2 = 1
ASSUME BatchAssumption == MaxBatch \in Nat \ {0}
ASSUME WindowAssumption == VolumeWindow \in Nat \ {0}
\* A client may send anything that decodes.
ASSUME TermsAssumption ==
    Terms \subseteq [price : Int, timestamp : Int, makeAmount : Int, takeAmount : Int]

VARIABLES
    pc,           \* per handler: where it is in handleOrders
    posted,       \* per handler: its local o, the order as decoded
    orderBook,    \* the global slice, as a set: every use of it sorts it
    mu,           \* who holds the mutex of the order book
    bids, asks,   \* workingBids and workingAsks of the round under way
    i, j,         \* its two pointers, counted from 1
    fills,        \* its fills so far
    tracked,      \* how many of its fills have gone through trackVolume
    batch,        \* per handler: the fills its round returned
    totalVolume, volumeData

roundVars == <<bids, asks, i, j, fills>>
volumeVars == <<tracked, totalVolume, volumeData>>
vars == <<pc, posted, orderBook, mu, roundVars, batch, volumeVars>>

Amount == Nat
Order == [id : OrderIds, price : Nat \ {0}, timestamp : Nat \ {0},
          makeAmount : Amount, takeAmount : Amount]
\* orderHash covers every field, the signature (here the id) included, so a
\* fill names its two orders as they stood when they were matched.
Fill == [maker : Order, taker : Order, quantity : Amount]
VolumeEntry == [volume : Amount, value : Nat]

-----------------------------------------------------------------------------
(* The helpers of matcher.go. *)

Epsilon == Grain

\* parseAmount fails on what is not positive.
Parses(amount) == amount > 0

\* A slip: only one of the two amounts is looked at.
HalfValid(t) == t.price > 0 /\ t.timestamp > 0 /\ Parses(t.makeAmount)
\* validateOrder, for what is not a string or is used as a number.
Valid(t) ==
    /\ t.price > 0 /\ t.timestamp > 0
    /\ Parses(t.makeAmount) /\ Parses(t.takeAmount)

\* formatAmount: to the nearest eighth decimal.
FormatAmount(amount) ==
    LET r == amount % Grain
    IN  IF 2 * r < Grain THEN amount - r ELSE amount + (Grain - r)

Lesser(a, b) == IF a < b THEN a ELSE b

\* A slip: the time priority is forgotten.
SortsByPrice(a, b) == a.price >= b.price
\* A slip: cheapest first.
SortsAscending(a, b) ==
    \/ a.price < b.price
    \/ a.price = b.price /\ a.timestamp <= b.timestamp

\* The order of sortOrders: descending price, then ascending timestamp.
SortsBefore(a, b) ==
    \/ a.price > b.price
    \/ a.price = b.price /\ a.timestamp <= b.timestamp

\* What sortOrders may return.  sort.Slice is not stable, so orders of the
\* same price and timestamp come in any order.  splitBidsAsks sorts again by
\* price alone, which leaves a slice already in that order as it is.
Sorted(orders) ==
    {s \in [1 .. Cardinality(orders) -> orders] :
        \A x, y \in 1 .. Cardinality(orders) :
            x < y => s[x] # s[y] /\ SortsBefore(s[x], s[y])}

\* splitBidsAsks: the upper half, rounded up, are the bids.
Midpoint(n) == (n + 1) \div 2

\* What the code keeps of an order that was not, or not fully, filled.
Kept(amount) == Parses(amount) /\ amount > Epsilon

\* The orders a round leaves: those from each pointer on, and the one just
\* before each pointer, if something of them is left.
Remaining ==
    {bids[k] : k \in {k \in DOMAIN bids : k >= i - 1 /\ Kept(bids[k].makeAmount)}}
    \cup
    {asks[k] : k \in {k \in DOMAIN asks : k >= j - 1 /\ Kept(asks[k].takeAmount)}}

\* A slip: the book is returned as it was given.
BookNotPruned == orderBook
\* A slip: the order under each pointer is taken for a filled one.
PartialsDropped ==
    {bids[k] : k \in {k \in DOMAIN bids : k > i /\ Kept(bids[k].makeAmount)}}
    \cup
    {asks[k] : k \in {k \in DOMAIN asks : k > j /\ Kept(asks[k].takeAmount)}}

\* The book MatchAndBatch returns: the one it was given if nothing filled.
UpdatedBook == IF fills = <<>> THEN orderBook ELSE Remaining

\* A slip: a full window is begun anew.
KeepNone(data) == IF Len(data) > VolumeWindow THEN <<>> ELSE data
\* A slip: the window is one entry short.
KeepFewer(data) == IF Len(data) >= VolumeWindow THEN Tail(data) ELSE data
\* trackVolume drops the oldest entry of a full window.
KeepLast(data) == IF Len(data) > VolumeWindow THEN Tail(data) ELSE data

-----------------------------------------------------------------------------
Init ==
    /\ pc = [o \in OrderIds |-> "idle"]
    /\ posted = [o \in OrderIds |-> Nobody]
    /\ orderBook = {}
    /\ mu = Nobody
    /\ bids = <<>> /\ asks = <<>>
    /\ i = 1 /\ j = 1
    /\ fills = <<>>
    /\ tracked = 0
    /\ batch = [o \in OrderIds |-> <<>>]
    /\ totalVolume = 0
    /\ volumeData = <<>>

\* The request arrives and its order joins the book.  A request with terms that
\* are not valid gets an error and leaves everything as it is.
Post(o) ==
    /\ pc[o] = "idle"
    /\ mu = Nobody
    /\ \E t \in Terms :
         /\ Valid(t)
         /\ posted' = [posted EXCEPT ![o] =
              [id |-> o, price |-> t.price, timestamp |-> t.timestamp,
               makeAmount |-> t.makeAmount, takeAmount |-> t.takeAmount]]
    /\ orderBook' = orderBook \cup {posted'[o]}
    /\ pc' = [pc EXCEPT ![o] = "appended"]
    /\ UNCHANGED <<mu, roundVars, batch, volumeVars>>

\* MatchAndBatch returns at once on a book of fewer than two orders.
NotEnoughOrders(o) ==
    /\ pc[o] = "appended"
    /\ mu = Nobody
    /\ Cardinality(orderBook) < 2
    /\ pc' = [pc EXCEPT ![o] = "replied"]
    /\ UNCHANGED <<posted, orderBook, mu, roundVars, batch, volumeVars>>

\* The handler takes mu again; MatchAndBatch sorts the book and splits it.
StartMatch(o) ==
    /\ pc[o] = "appended"
    /\ mu = Nobody
    /\ Cardinality(orderBook) >= 2
    /\ LET n == Cardinality(orderBook)
           midpoint == Midpoint(n)
       IN  \E s \in Sorted(orderBook) :
             /\ bids' = SubSeq(s, 1, midpoint)
             /\ asks' = SubSeq(s, midpoint + 1, n)
    /\ i' = 1 /\ j' = 1
    /\ fills' = <<>>
    /\ tracked' = 0
    /\ mu' = o
    /\ pc' = [pc EXCEPT ![o] = "matching"]
    /\ UNCHANGED <<posted, orderBook, batch, totalVolume, volumeData>>

\* The loop condition, and the break when the two orders do not cross.
CanMatch ==
    /\ Len(fills) < MaxBatch
    /\ i <= Len(bids)
    /\ j <= Len(asks)
    /\ bids[i].price >= asks[j].price

\* One iteration on two amounts that parse: record the fill, reduce the two
\* amounts, and step over an order of which no more than epsilon is left.
MakeFill ==
    LET bid == bids[i]
        ask == asks[j]
        fillQty == Lesser(bid.makeAmount, ask.takeAmount)
        bidLeft == bid.makeAmount - fillQty
        askLeft == ask.takeAmount - fillQty
    IN  /\ fills' = Append(fills, [maker |-> bid, taker |-> ask,
                                   quantity |-> FormatAmount(fillQty)])
        /\ bids' = [bids EXCEPT ![i].makeAmount = FormatAmount(bidLeft)]
        /\ asks' = [asks EXCEPT ![j].takeAmount = FormatAmount(askLeft)]
        /\ i' = IF bidLeft <= Epsilon THEN i + 1 ELSE i
        /\ j' = IF askLeft <= Epsilon THEN j + 1 ELSE j

\* An iteration of the loop.  An amount that does not parse is skipped.
Iterate(o) ==
    /\ pc[o] = "matching"
    /\ CanMatch
    /\ IF ~Parses(bids[i].makeAmount)
       THEN i' = i + 1 /\ UNCHANGED <<bids, asks, j, fills>>
       ELSE IF ~Parses(asks[j].takeAmount)
       THEN j' = j + 1 /\ UNCHANGED <<bids, asks, i, fills>>
       ELSE MakeFill
    /\ UNCHANGED <<pc, posted, orderBook, mu, batch, volumeVars>>

\* The loop is over and the handler stores what is left as the new book.  A
\* round without a fill returns the book it was given.
FinishMatch(o) ==
    /\ pc[o] = "matching"
    /\ ~CanMatch
    /\ orderBook' = UpdatedBook
    /\ batch' = [batch EXCEPT ![o] = fills]
    /\ pc' = [pc EXCEPT ![o] = "tracking"]
    /\ UNCHANGED <<posted, mu, roundVars, volumeVars>>

\* A slip: the total is overwritten.
TrackLast(o) ==
    /\ pc[o] = "tracking"
    /\ tracked < Len(batch[o])
    /\ LET quantity == batch[o][tracked + 1].quantity
           entry == [volume |-> quantity, value |-> posted[o].price * quantity]
       IN  /\ totalVolume' = quantity
           /\ volumeData' = KeepLast(Append(volumeData, entry))
    /\ tracked' = tracked + 1
    /\ UNCHANGED <<pc, posted, orderBook, mu, roundVars, batch>>
\* trackVolume for the next fill, at the price of the order just posted.
\* Only this step holds volumeMu; mu is held around all of them.
TrackVolume(o) ==
    /\ pc[o] = "tracking"
    /\ tracked < Len(batch[o])
    /\ LET quantity == batch[o][tracked + 1].quantity
           entry == [volume |-> quantity, value |-> posted[o].price * quantity]
       IN  /\ totalVolume' = totalVolume + quantity
           /\ volumeData' = KeepLast(Append(volumeData, entry))
    /\ tracked' = tracked + 1
    /\ UNCHANGED <<pc, posted, orderBook, mu, roundVars, batch>>

\* A slip: the handler returns without releasing mu.
UnlockForgotten(o) ==
    /\ pc[o] = "tracking"
    /\ tracked = Len(batch[o])
    /\ pc' = [pc EXCEPT ![o] = "matched"]
    /\ UNCHANGED <<posted, orderBook, mu, roundVars, batch, volumeVars>>

\* The handler leaves mu.  With fills it goes on to AggregateBLS and
\* SubmitBatch, without it replies.
Unlock(o) ==
    /\ pc[o] = "tracking"
    /\ tracked = Len(batch[o])
    /\ mu' = Nobody
    /\ pc' = [pc EXCEPT ![o] = IF batch[o] = <<>> THEN "replied" ELSE "matched"]
    /\ UNCHANGED <<posted, orderBook, roundVars, batch, volumeVars>>

\* A handler that is past the mutex has no more to do here.
Handler(o) ==
    \/ NotEnoughOrders(o)
    \/ StartMatch(o)
    \/ Iterate(o)
    \/ FinishMatch(o)
    \/ TrackVolume(o)
    \/ Unlock(o)

Next == \E o \in OrderIds : Post(o) \/ Handler(o)

Spec == Init /\ [][Next]_vars

\* A request that arrived is served: its goroutine runs, and sync.Mutex hands
\* itself over to waiters.  No request has to arrive.
FairSpec == Spec /\ \A o \in OrderIds : WF_vars(Handler(o))

-----------------------------------------------------------------------------
(* Properties. *)

\* DisputeGame._isCorrectlyOrdered: a dispute that shows two orders of a
\* batch, the first at the lower index, fails if this holds.
CorrectlyOrdered(a, b) ==
    \/ a.price > b.price
    \/ a.price = b.price /\ a.timestamp <= b.timestamp

TypeOK ==
    /\ pc \in [OrderIds -> {"idle", "appended", "matching", "tracking",
                            "matched", "replied"}]
    /\ posted \in [OrderIds -> Order \cup {Nobody}]
    /\ orderBook \subseteq Order
    /\ mu \in OrderIds \cup {Nobody}
    /\ bids \in Seq(Order) /\ asks \in Seq(Order)
    /\ i \in 1 .. Len(bids) + 1 /\ j \in 1 .. Len(asks) + 1
    /\ fills \in Seq(Fill)
    /\ tracked \in Nat
    /\ batch \in [OrderIds -> Seq(Fill)]
    /\ totalVolume \in Nat
    /\ volumeData \in Seq(VolumeEntry)

\* matcher.go:252-270.  As bids are the upper half of a sorted book, the two
\* orders under the pointers always cross and their amounts always parse, so
\* a round ends only at MaxBatch fills or with one half used up, and the
\* break and the two skips of the loop are never taken.
AlwaysCrosses ==
    \A o \in OrderIds : pc[o] = "matching" =>
        /\ i <= Len(bids) /\ j <= Len(asks) => bids[i].price >= asks[j].price
        /\ i <= Len(bids) => Parses(bids[i].makeAmount)
        /\ j <= Len(asks) => Parses(asks[j].takeAmount)

\* matcher.go:151-189 against DisputeGame.sol:231-245.  The makers of a batch
\* are in price-time priority from one fill to any later one, and so are its
\* takers, however the round went and whatever joined the book before it.
PriorityKept ==
    \A o \in OrderIds : \A x, y \in 1 .. Len(batch[o]) : x < y =>
        /\ CorrectlyOrdered(batch[o][x].maker, batch[o][y].maker)
        /\ CorrectlyOrdered(batch[o][x].taker, batch[o][y].taker)

\* matcher.go:287-335 with main.go:237.  No two fills ever made, of one round
\* or of two, are the same: each one uses up an order, which never trades
\* again.  So no two batches have the same fills, and the contract, which
\* refuses a root it has seen, never refuses a batch for that reason.
NoFillTwice ==
    \A o, p \in OrderIds :
        \A x \in 1 .. Len(batch[o]), y \in 1 .. Len(batch[p]) :
            <<o, x>> # <<p, y>> => batch[o][x] # batch[p][y]

\* main.go:225-252.  A request that has put its order in the book gets
\* through both critical sections.
RequestsServed ==
    \A o \in OrderIds :
        pc[o] = "appended" ~> pc[o] \in {"matched", "replied"}
=============================================================================
