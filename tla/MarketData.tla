----------------------------- MODULE MarketData -----------------------------
(***************************************************************************)
(* What the sequencer shows: GET /book, GET /depth and GET /volume of      *)
(* cmd/main.go, read while the handlers of Matcher run.                    *)
(*                                                                         *)
(* A handler of /book or /depth copies the order book under mu and works   *)
(* out its answer from the copy alone, so that is one step; so is /volume, *)
(* which reads what trackVolume writes under volumeMu.  Only the last      *)
(* answer is kept.                                                         *)
(***************************************************************************)
EXTENDS Accounts, SequencesExt

CONSTANTS
    MockTotal,  \* the volume shown while there is none
    GridStep,   \* the depth chart's distance of prices
    Margin      \* how far it goes beyond the lowest and the highest price

\* An odd step leaves no price half way between two, where float64 would decide.
\* The code goes on for ten steps.
ASSUME GridAssumption ==
    GridStep \in Nat /\ GridStep % 2 = 1 /\ Margin \in Nat /\ 2 * Margin >= 3 * GridStep

VARIABLE reply  \* the answer to the last GET

marketVars == <<vars, reply>>

NoReply == [endpoint |-> "none"]

-----------------------------------------------------------------------------
(* Helpers of the three handlers. *)

\* The copy of the book, in whatever order its slice is in.
Copies ==
    {s \in [1 .. Cardinality(orderBook) -> orderBook] :
        \A x, y \in DOMAIN s : x # y => s[x] # s[y]}

\* classifyOrderSide: a bid is at the average of all prices or above.  The
\* average is a float64: at a price that equals it, it may come out too high.
SideOf(order, all, high) ==
    LET sum == SumUp([k \in DOMAIN all |-> all[k].price])
    IN  IF order.price * Len(all) > sum \/ (order.price * Len(all) = sum /\ ~high)
        THEN "bid" ELSE "ask"

Swapped(s, x, y) == [s EXCEPT ![x] = s[y], ![y] = s[x]]
Positions(from, to) == [k \in 1 .. to - from + 1 |-> from + k - 1]

\* A slip: the inner loop stops one place early.
PassShort(s, x, rank) ==
    FoldLeft(LAMBDA t, y : IF rank[t[x]] > rank[t[y]] THEN Swapped(t, x, y) ELSE t,
             s, Positions(x + 1, Len(s) - 1))
\* The inner loop: place x gets an entry of the lowest rank from there on.
Pass(s, x, rank) ==
    FoldLeft(LAMBDA t, y : IF rank[t[x]] > rank[t[y]] THEN Swapped(t, x, y) ELSE t,
             s, Positions(x + 1, Len(s)))
\* The two nested loops that sort the bids, the asks and the prices, each by a
\* comparison of its own; here the lowest rank comes first.
ExchangeSort(s, rank) ==
    FoldLeft(LAMBDA t, x : Pass(t, x, rank), s, Positions(1, Len(s) - 1))

\* The id it makes up is left out.
FrontendOrder(order, side) ==
    [price |-> order.price, amount |-> order.makeAmount, side |-> side]

OnSide(all, side, high) ==
    FoldLeft(LAMBDA shown, x : IF SideOf(x, all, high) = side
                               THEN Append(shown, FrontendOrder(x, side)) ELSE shown,
             <<>>, all)

BookOf(all, high) ==
    LET buys == OnSide(all, "bid", high)
        sells == OnSide(all, "ask", high)
    IN  [bids |-> ExchangeSort(buys, [x \in ToSet(buys) |-> -x.price]),
         asks |-> ExchangeSort(sells, [x \in ToSet(sells) |-> x.price])]

\* The prices of all orders, the lowest first.
PricePoints(all) ==
    LET set == {all[k].price : k \in DOMAIN all}
    IN  ExchangeSort(SetToSeq(set), [price \in set |-> price])

\* What the orders at some places of the copy offer.
Offered(all, places) == SumUp([k \in places |-> all[k].makeAmount])

\* A slip: the orders at a price are not in the depth of that price.
DepthsBelow(all, high) ==
    LET prices == PricePoints(all)
        UpTo(side, price) == {k \in DOMAIN all :
            SideOf(all[k], all, high) = side /\ all[k].price < price}
    IN  [k \in DOMAIN prices |-> [price |-> prices[k],
                                  bidDepth |-> Offered(all, UpTo("bid", prices[k])),
                                  askDepth |-> Offered(all, UpTo("ask", prices[k]))]]
\* Both depths are added up from the lowest price on.
DepthsOf(all, high) ==
    LET prices == PricePoints(all)
        UpTo(side, price) == {k \in DOMAIN all :
            SideOf(all[k], all, high) = side /\ all[k].price <= price}
    IN  [k \in DOMAIN prices |-> [price |-> prices[k],
                                  bidDepth |-> Offered(all, UpTo("bid", prices[k])),
                                  askDepth |-> Offered(all, UpTo("ask", prices[k]))]]

-----------------------------------------------------------------------------
(* computeDepthFromOrders: what the depth chart makes of the answer to /book *)
(* when /depth does not answer.                                              *)

Rounded(price) == GridStep * ((2 * price + GridStep) \div (2 * GridStep))

\* A slip: from the lowest price to the highest, no further.
ChartGridTight(prices) ==
    {Rounded(p) : p \in {q \in Min(prices) .. Max(prices) :
                           (q - Min(prices)) % GridStep = 0}}
\* The prices the chart has points for, which need not be those of orders.
ChartGrid(prices) ==
    {Rounded(p) : p \in {q \in Min(prices) - Margin .. Max(prices) + Margin :
                           (q - Min(prices) + Margin) % GridStep = 0}}

\* What the orders at some places of the answer to /book amount to.
AmountOf(orders, places) == SumUp([k \in places |-> orders[k].amount])

\* Whether the one price is at least as good as the other, for those who trade
\* with that side: its sort has the best first.
AsGood(side, a, b) == IF side = "bid" THEN a >= b ELSE a <= b

\* A slip: an order does not count at its own price.
DepthAtBeyond(price, side, orders) ==
    LET mine == {k \in DOMAIN orders : orders[k].side = side}
        UpTo(k) == {l \in mine : AsGood(side, orders[l].price, orders[k].price)}
        reaching == {k \in mine : ~AsGood(side, price, orders[k].price)}
    IN  Max({0} \cup {AmountOf(orders, UpTo(k)) : k \in reaching})
\* A side's orders from the best on: each raises the sum, and the highest sum of
\* an order that reaches the price is its depth.  Of orders at one price the last
\* has the sum of them all.
DepthAt(price, side, orders) ==
    LET mine == {k \in DOMAIN orders : orders[k].side = side}
        UpTo(k) == {l \in mine : AsGood(side, orders[l].price, orders[k].price)}
        reaching == {k \in mine : AsGood(side, orders[k].price, price)}
    IN  Max({0} \cup {AmountOf(orders, UpTo(k)) : k \in reaching})

\* Without orders it makes up twenty bids and twenty asks.
MockDepth ==
    {[price |-> 1250 - k, bidDepth |-> 500 * (k + 1), askDepth |-> 0] : k \in 0 .. 19}
    \cup {[price |-> 1250 + k, bidDepth |-> 0, askDepth |-> 500 * (k + 1)] : k \in 0 .. 19}

ComputeDepth(orders) ==
    IF orders = <<>> THEN MockDepth
    ELSE {d \in {[price |-> p, bidDepth |-> DepthAt(p, "bid", orders),
                  askDepth |-> DepthAt(p, "ask", orders)] :
                    p \in ChartGrid({orders[k].price : k \in DOMAIN orders})} :
            d.bidDepth > 0 \/ d.askDepth > 0}

-----------------------------------------------------------------------------
GetBook ==
    /\ mu = Nobody
    /\ \E all \in Copies, high \in BOOLEAN :
          reply' = [endpoint |-> "/book", of |-> orderBook, book |-> BookOf(all, high)]
    /\ UNCHANGED vars

GetDepth ==
    /\ mu = Nobody
    /\ \E all \in Copies, high \in BOOLEAN :
          reply' = [endpoint |-> "/depth", of |-> orderBook, high |-> high,
                    depths |-> DepthsOf(all, high)]
    /\ UNCHANGED vars

VolumeOf(entries) == SumUp([k \in DOMAIN entries |-> entries[k].volume])

\* Without data it shows a made-up total, and made-up entries left out here.
GetVolume ==
    /\ reply' = [endpoint |-> "/volume", mock |-> volumeData = <<>>,
                 total |-> IF volumeData = <<>> THEN MockTotal ELSE totalVolume,
                 entries |-> volumeData]
    /\ UNCHANGED vars

MarketInit == Init /\ reply = NoReply

MarketNext ==
    \/ Next /\ UNCHANGED reply
    \/ GetBook
    \/ GetDepth
    \/ GetVolume

MarketSpec == MarketInit /\ [][MarketNext]_marketVars

-----------------------------------------------------------------------------
(* Properties. *)

Shown(r) == r.book.bids \o r.book.asks

\* main.go:292-325.  Whatever order the slice of the book is in, each of its
\* orders is shown once, bids from the highest price down, asks from the lowest
\* up, and any bid is above any ask.
BookReplySound ==
    reply.endpoint = "/book" =>
        LET book == reply.book
        IN  /\ \A price \in {x.price : x \in reply.of} :
                  Cardinality({k \in DOMAIN Shown(reply) : Shown(reply)[k].price = price})
                     = Cardinality({x \in reply.of : x.price = price})
            /\ Len(Shown(reply)) = Cardinality(reply.of)
            /\ \A x, y \in DOMAIN book.bids : x < y => book.bids[x].price >= book.bids[y].price
            /\ \A x, y \in DOMAIN book.asks : x < y => book.asks[x].price <= book.asks[y].price
            /\ \A x \in DOMAIN book.bids, y \in DOMAIN book.asks :
                  book.bids[x].price > book.asks[y].price

\* main.go:356-408.  There is a point for each price, the lowest first; depths
\* never fall from one to the next, and the last ones are all there is to trade.
DepthReplySound ==
    reply.endpoint = "/depth" =>
        LET d == reply.depths
        IN  /\ {d[k].price : k \in DOMAIN d} = {x.price : x \in reply.of}
            /\ \A x, y \in DOMAIN d : x < y =>
                  /\ d[x].price < d[y].price
                  /\ d[x].bidDepth <= d[y].bidDepth
                  /\ d[x].askDepth <= d[y].askDepth
            /\ d # <<>> => d[Len(d)].bidDepth + d[Len(d)].askDepth
                              = SumUp([x \in reply.of |-> x.makeAmount])

\* main.go:145-169, 433-445.  Also in the middle of a round, the total shown is
\* that of the entries shown while all of them fit.
VolumeReplyAddsUp ==
    reply.endpoint = "/volume" /\ ~reply.mock =>
        LET shown == VolumeOf(reply.entries)
        IN  /\ reply.total >= shown
            /\ Len(reply.entries) < VolumeWindow => reply.total = shown

\* main.go:160-168, 437-440.  A made-up volume is answered only as long as nothing
\* has been traded: however many entries the window has dropped, and in the middle
\* of a round too, it never hides what has.  Nothing in the answer tells the two
\* apart, and the volume chart shows either as live.
MadeUpOnlyAtFirst ==
    [][reply' # reply /\ reply'.endpoint = "/volume" /\ reply'.mock
          => totalVolume = 0]_marketVars

\* The bids that would buy at a price, and the asks that would sell at it.
Depth(book, price) ==
    [price |-> price,
     bidDepth |-> AmountOf(book.bids, {k \in DOMAIN book.bids : book.bids[k].price >= price}),
     askDepth |-> AmountOf(book.asks, {k \in DOMAIN book.asks : book.asks[k].price <= price})]

\* DepthChart.tsx:37-115.  Each point of the chart has the depth of its price, and
\* though prices are rounded to a grid that no order's price need lie on, no order
\* falls off at either end.
ChartShowsAll ==
    reply.endpoint = "/book" /\ Shown(reply) # <<>> =>
        LET chart == ComputeDepth(Shown(reply))
        IN  /\ \A d \in chart : d = Depth(reply.book, d.price)
            /\ \E d \in chart : d.bidDepth = AmountOf(reply.book.bids, DOMAIN reply.book.bids)
            /\ \E d \in chart : d.askDepth = AmountOf(reply.book.asks, DOMAIN reply.book.asks)

\* main.go:396-408 with DepthChart.tsx:82-104.  The chart takes its depths from
\* /depth or works them out of /book: both ways it shows the same asks, and the
\* same sum of all bids, though at the other end of the prices.
ChartSourcesAgree ==
    reply.endpoint = "/depth" =>
        LET d == reply.depths
            orders == Shown([book |-> BookOf(SetToSeq(reply.of), reply.high)])
        IN  /\ \A k \in DOMAIN d : d[k].askDepth = DepthAt(d[k].price, "ask", orders)
            /\ d # <<>> => d[Len(d)].bidDepth = DepthAt(d[1].price, "bid", orders)
=============================================================================
