------------------------------- MODULE Panels -------------------------------
(***************************************************************************)
(* The three panels of the dashboard that poll the sequencer: the order    *)
(* book, the depth chart and the volume chart (web/src/components).        *)
(*                                                                         *)
(* Panels share nothing but the server, so a behaviour follows one of      *)
(* them.  An interval begins a poll whether or not earlier ones have come  *)
(* back: several requests are under way at a time, and answers, failures   *)
(* and timeouts arrive in any order.  A step is what runs between two      *)
(* awaits; React paints the state it leaves.                               *)
(*                                                                         *)
(* Of the market a picture holds when it was taken and which sides have    *)
(* orders: the server sends null for a side without any.  Before the first *)
(* fill it invents the answer to /volume, and says so to nobody.           *)
(***************************************************************************)
EXTENDS Integers

CONSTANTS
    Slots,        \* bounds the requests under way at a time
    MaxVersion,   \* bounds the changes of the market
    MaxFailures   \* bounds the requests that fail while the server is up

ASSUME VersionAssumption == MaxVersion \in Nat
ASSUME FailuresAssumption == MaxFailures \in Nat

VARIABLES
    panel,     \* the panel of this behaviour
    market,    \* what the server has
    firstFill, \* the version from which on there are fills, settled in advance
    outage,    \* the server is gone for good
    requests,  \* per slot: the URL asked for and the answer on its way
    shown,     \* what the panel's data state holds
    loading,
    error,     \* whether it is set
    failures,  \* failures so far
    since,     \* history: the market's version when the panel was last quiet
    overlap    \* history: have requests overlapped since?

serverVars == <<market, firstFill, outage>>
viewVars == <<shown, loading, error>>
historyVars == <<since, overlap>>
vars == <<panel, serverVars, requests, viewVars, failures, historyVars>>

Sides == {"bids", "asks"}
Market == [version : 0 .. MaxVersion, bids : BOOLEAN, asks : BOOLEAN]
\* A picture is the market's, invented by the server, or made up by the panel.
Picture ==
    [from : {"nothing", "market", "invented", "mock"}, version : 0 .. MaxVersion,
     bids : BOOLEAN, asks : BOOLEAN]
Of(from, bids, asks) ==
    [from |-> from, version |-> market.version, bids |-> bids, asks |-> asks]
ByServer(picture) == picture.from \in {"market", "invented"}
\* The empty array a panel begins with, and the data it makes up.
Nothing == [from |-> "nothing", version |-> 0, bids |-> FALSE, asks |-> FALSE]
Mock == [from |-> "mock", version |-> 0, bids |-> TRUE, asks |-> TRUE]

FirstUrl == [book |-> "/book", depth |-> "/depth", volume |-> "/volume"]
Idle == [url |-> "none", reply |-> Nothing]
Get(url) == [url |-> url, reply |-> Nothing]

UnderWay(s) == requests[s].url # "none"
Answered(s) == UnderWay(s) /\ ByServer(requests[s].reply)
Quiet == \A s \in Slots : ~UnderWay(s)

Init ==
    /\ panel \in DOMAIN FirstUrl
    /\ market \in {m \in Market : m.version = 0}
    \* Before the page opens (0), while it is open, or not at all.
    /\ firstFill \in 0 .. MaxVersion + 1
    /\ outage = FALSE
    /\ requests = [s \in Slots |-> Idle]
    /\ shown = Nothing
    /\ loading = TRUE
    /\ error = FALSE
    /\ failures = 0
    /\ since = 0
    /\ overlap = FALSE

-----------------------------------------------------------------------------
(* What the server answers.  A picture of the volume, which has no sides, is *)
(* written as one that has both: there are always entries.                   *)

BookAnswer == Of("market", market.bids, market.asks)

DepthAnswer == Of("market", market.bids, market.asks)

\* Without fills the server invents entries and a total (MarketData's mock); as
\* MadeUpOnlyAtFirst says there, it does not once there are some.
VolumeAnswer ==
    Of(IF market.version < firstFill THEN "invented" ELSE "market", TRUE, TRUE)

Answer(url) ==
    IF url = "/book" THEN BookAnswer
    ELSE IF url = "/depth" THEN DepthAnswer
    ELSE VolumeAnswer

-----------------------------------------------------------------------------
(* What the screen says. *)

\* Live or Error, and for each side placeholders, its rows, or that it is empty.
Screen(picture, busy, failed) ==
    [status |-> IF failed THEN "Error" ELSE "Live",
     listed |-> [side \in Sides |->
         IF busy /\ \A x \in Sides : ~picture[x] THEN "skeleton"
         ELSE IF picture[side] THEN "rows" ELSE "none"]]

Visible == Screen(shown, loading, error)
Skeleton == \A side \in Sides : Visible.listed[side] = "skeleton"

-----------------------------------------------------------------------------
(* The polls. *)

\* A slip: the error of an earlier poll stays.
FetchKeepsError(s) ==
    /\ ~UnderWay(s)
    /\ requests' = [requests EXCEPT ![s] = Get(FirstUrl[panel])]
    /\ overlap' = ~Quiet
    /\ since' = IF Quiet THEN market.version ELSE since
    /\ UNCHANGED <<panel, serverVars, viewVars, failures>>
\* The mount or a tick of the interval.  StrictMode mounts twice, which is a tick
\* more.
Fetch(s) ==
    /\ ~UnderWay(s)
    /\ requests' = [requests EXCEPT ![s] = Get(FirstUrl[panel])]
    /\ error' = FALSE
    /\ overlap' = ~Quiet
    /\ since' = IF Quiet THEN market.version ELSE since
    /\ UNCHANGED <<panel, serverVars, shown, loading, failures>>

\* A slip: the answer is made from a copy taken some time before.
ServeStale(s) ==
    /\ ~outage
    /\ UnderWay(s) /\ ~Answered(s)
    /\ \E version \in 0 .. market.version :
          requests' = [requests EXCEPT
              ![s].reply = [Answer(requests[s].url) EXCEPT !.version = version]]
    /\ UNCHANGED <<panel, serverVars, viewVars, failures, historyVars>>
\* The server copies what it has; its answer is on the way.
Serve(s) ==
    /\ ~outage
    /\ UnderWay(s) /\ ~Answered(s)
    /\ requests' = [requests EXCEPT ![s].reply = Answer(requests[s].url)]
    /\ UNCHANGED <<panel, serverVars, viewVars, failures, historyVars>>

\* The end of a poll: what the panel holds from then on, and whether it sets error.
Finish(s, picture, failed) ==
    /\ requests' = [requests EXCEPT ![s] = Idle]
    /\ shown' = picture
    /\ loading' = FALSE
    /\ error' = (error \/ failed)
    /\ UNCHANGED <<panel, serverVars, historyVars>>

Show(s) == Finish(s, requests[s].reply, FALSE) /\ UNCHANGED failures

ShowBook(s) == panel = "book" /\ Answered(s) /\ Show(s)

ShowVolume(s) == panel = "volume" /\ Answered(s) /\ Show(s)

\* The depths as the server works them out; null when it has no orders.
ShowDepths(s) ==
    panel = "depth" /\ requests[s].url = "/depth" /\ Answered(s) /\ Show(s)

\* The second try of the depth chart: depths computed out of the book.
ShowComputed(s) ==
    /\ panel = "depth" /\ requests[s].url = "/book" /\ Answered(s)
    /\ \A side \in Sides : requests[s].reply[side]
    /\ Show(s)

\* A side that is null cannot be spread: the chart takes that for a failure.
ComputeThrows(s) ==
    /\ panel = "depth" /\ requests[s].url = "/book" /\ Answered(s)
    /\ \E side \in Sides : ~requests[s].reply[side]
    /\ Finish(s, Mock, TRUE)
    /\ UNCHANGED failures

\* Refused, or no answer before the timeout, whatever the server did.
Fails(s) ==
    /\ UnderWay(s)
    /\ outage \/ failures < MaxFailures
    /\ failures' = IF outage THEN failures ELSE failures + 1

\* The order book keeps what it has.
BookFails(s) == panel = "book" /\ Fails(s) /\ Finish(s, shown, TRUE)

\* A slip: the fallback is taken for an answer.
VolumeFailsSilently(s) == panel = "volume" /\ Fails(s) /\ Finish(s, Mock, FALSE)
VolumeFails(s) == panel = "volume" /\ Fails(s) /\ Finish(s, Mock, TRUE)

DepthFails(s) ==
    /\ panel = "depth" /\ requests[s].url = "/depth" /\ Fails(s)
    /\ requests' = [requests EXCEPT ![s] = Get("/book")]
    /\ UNCHANGED <<panel, serverVars, viewVars, historyVars>>

\* A slip: the chart is left as it was, as in the order book, and says nothing.
DepthStays(s) ==
    panel = "depth" /\ requests[s].url = "/book" /\ Fails(s) /\ Finish(s, shown, FALSE)
DepthGivesUp(s) ==
    panel = "depth" /\ requests[s].url = "/book" /\ Fails(s) /\ Finish(s, Mock, TRUE)

\* Orders come and go, and some match.
MarketChanges ==
    /\ market.version < MaxVersion
    /\ market' \in {m \in Market : m.version = market.version + 1}
    /\ UNCHANGED <<panel, firstFill, outage, requests, viewVars, failures, historyVars>>

ServerStops ==
    /\ ~outage
    /\ outage' = TRUE
    /\ UNCHANGED <<panel, market, firstFill, requests, viewVars, failures, historyVars>>

\* What becomes of a request.
GoesOn(s) ==
    \/ Serve(s)
    \/ ShowBook(s)
    \/ ShowVolume(s)
    \/ ShowDepths(s)
    \/ ShowComputed(s)
    \/ ComputeThrows(s)
    \/ BookFails(s)
    \/ VolumeFails(s)
    \/ DepthFails(s)
    \/ DepthGivesUp(s)

Next ==
    \/ \E s \in Slots : Fetch(s) \/ GoesOn(s)
    \/ MarketChanges
    \/ ServerStops

Spec == Init /\ [][Next]_vars

\* The interval ticks, and axios ends each request: by an answer or a timeout.
FairSpec ==
    /\ Spec
    /\ WF_vars(\E s \in Slots : Fetch(s))
    /\ \A s \in Slots : WF_vars(GoesOn(s))

-----------------------------------------------------------------------------
(* Properties. *)

TypeOK ==
    /\ panel \in DOMAIN FirstUrl
    /\ market \in Market /\ firstFill \in 0 .. MaxVersion + 1
    /\ outage \in BOOLEAN
    /\ requests \in [Slots -> [url : {"none", "/book", "/depth", "/volume"}, reply : Picture]]
    /\ shown \in Picture
    /\ loading \in BOOLEAN /\ error \in BOOLEAN
    /\ failures \in 0 .. MaxFailures
    /\ since \in 0 .. market.version
    /\ overlap \in BOOLEAN

\* OrderBook.tsx:24-45, DepthChart.tsx:117-173, VolumeChart.tsx:53-76.  A panel
\* that waits for nothing and says Live shows what the server answered since the
\* panel was last quiet, in whatever order requests were answered and failed:
\* nothing from before, and nothing the panel made up.  That is the market, but
\* for the volume chart if the server had no fills then: main.go:437-440 invents
\* the volume, and the chart shows it under Live.
QuietPanelTrue ==
    Quiet /\ ~Skeleton /\ Visible.status = "Live" =>
        /\ shown.version \in since .. market.version
        /\ shown.from = IF panel = "volume" /\ shown.version < firstFill
                        THEN "invented" ELSE "market"

\* OrderBook.tsx:32-39, 49.  From one answer to the next a panel goes back in
\* time only where requests overlapped, and then not beyond the time at which it
\* was last quiet.
NoWayBack ==
    [][ByServer(shown) /\ ByServer(shown') =>
          \/ shown'.version >= shown.version
          \/ overlap /\ shown'.version >= since]_vars

\* OrderBook.tsx:47-51, DepthChart.tsx:175-183, VolumeChart.tsx:78-86.  Once the
\* market rests and requests are answered again, each panel gets to show what the
\* server answers of it, under Live, and stays so: no late answer, no old error,
\* and after the first fill no invented volume is left.
SettlesOnMarket ==
    LET last == Answer(FirstUrl[panel])
    IN  <>[](outage \/ (shown = last /\ Visible = Screen(last, FALSE, FALSE)))

\* web/README.md:79, "Error states with fallback to mock data when API
\* unavailable".  With the server gone each panel says so, again and again, and
\* the charts show made-up data; between, at the start of a poll, they say Live.
OutageTold ==
    <>outage => []<>(Visible.status = "Error" /\ (panel # "book" => shown = Mock))
=============================================================================
