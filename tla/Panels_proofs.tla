---------------------------- MODULE Panels_proofs ----------------------------
(***************************************************************************)
(* Proofs about Panels for any number of requests under way, changes of    *)
(* the market and failures.                                                *)
(***************************************************************************)
EXTENDS Panels, TLAPS

\* What the panel holds is not from the future.
ShownInv == ByServer(shown) => shown.version <= market.version

\* Only the volume chart asks for /volume, and for nothing else.
UrlInv ==
    \A s \in Slots : UnderWay(s) => (requests[s].url = "/volume" <=> panel = "volume")

\* Where an answer the panel gets comes from, by the version of the market it is of.
Origin(version) ==
    IF panel = "volume" /\ version < firstFill THEN "invented" ELSE "market"

\* What an answer is if it was given since the panel was quiet.
Recent(picture) ==
    /\ picture.version >= since /\ picture.version <= market.version
    /\ picture.from = Origin(picture.version)

\* The answers on their way are of that kind.
AnswersInv == \A s \in Slots : Answered(s) => Recent(requests[s].reply)

\* As long as requests do not overlap there is one, and what it brings is no
\* older than what the panel holds.
AloneInv ==
    ~overlap =>
        /\ \A s, t \in Slots : UnderWay(s) /\ UnderWay(t) => s = t
        /\ \A s \in Slots : Answered(s) /\ ByServer(shown) =>
              shown.version <= requests[s].reply.version

\* QuietPanelTrue in terms of the state.
LiveInv ==
    Quiet /\ ~error /\ ~(loading /\ shown = Nothing) => Recent(shown)

IInv == TypeOK /\ ShownInv /\ UrlInv /\ AnswersInv /\ AloneInv /\ LiveInv

LEMMA PictureFacts == Nothing \in Picture /\ Mock \in Picture
BY VersionAssumption DEF Nothing, Mock, Picture

\* What the server answers is of now, and is the market but for the volume.
LEMMA AnswerFacts ==
    ASSUME TypeOK, NEW url \in {"/book", "/depth", "/volume"}
    PROVE  /\ Answer(url) \in Picture /\ ByServer(Answer(url))
           /\ Answer(url).version = market.version
           /\ (url = "/volume" <=> panel = "volume") =>
                 Answer(url).from = Origin(market.version)
<1>1. /\ market.version \in 0 .. MaxVersion
      /\ market.bids \in BOOLEAN /\ market.asks \in BOOLEAN
  BY DEF TypeOK, Market
<1>2. CASE url = "/volume"
  <2>1. Answer(url) = VolumeAnswer
    BY <1>2 DEF Answer
  <2>2. PICK from \in {"market", "invented"} :
            /\ VolumeAnswer = [from |-> from, version |-> market.version,
                               bids |-> TRUE, asks |-> TRUE]
            /\ from = IF market.version < firstFill THEN "invented" ELSE "market"
    BY DEF VolumeAnswer, Of
  <2>3. Answer(url) \in Picture /\ ByServer(Answer(url))
    BY <1>1, <2>1, <2>2 DEF Picture, ByServer
  <2> QED  BY <1>2, <2>1, <2>2, <2>3 DEF Origin
<1>3. CASE url # "/volume"
  <2>1. Answer(url) = Of("market", market.bids, market.asks)
    BY <1>3 DEF Answer, BookAnswer, DepthAnswer
  <2> QED  BY <1>1, <1>3, <2>1 DEF Of, Picture, ByServer, Origin
<1> QED  BY <1>2, <1>3

LEMMA InitInv == Init => IInv
<1> SUFFICES ASSUME Init PROVE IInv
  OBVIOUS
<1> USE DEF Init
<1>1. market \in Market /\ market.version = 0 /\ firstFill \in 0 .. MaxVersion + 1
  OBVIOUS
<1>2. TypeOK
  <2>1. Idle \in [url : {"none", "/book", "/depth", "/volume"}, reply : Picture]
    BY PictureFacts DEF Idle
  <2>2. requests \in [Slots -> [url : {"none", "/book", "/depth", "/volume"}, reply : Picture]]
    BY <2>1
  <2>3. shown \in Picture /\ since \in 0 .. market.version /\ failures \in 0 .. MaxFailures
    BY <1>1, PictureFacts, FailuresAssumption
  <2> QED  BY <1>1, <2>2, <2>3 DEF TypeOK
<1>3. \A s \in Slots : ~UnderWay(s)
  BY DEF UnderWay, Idle
<1>4. ShownInv /\ LiveInv
  BY DEF ShownInv, LiveInv, Nothing, ByServer
<1>5. UrlInv /\ AnswersInv /\ AloneInv
  BY <1>3 DEF UrlInv, AnswersInv, AloneInv, Answered
<1> QED  BY <1>2, <1>4, <1>5 DEF IInv

\* A poll begins.
LEMMA FetchInv == ASSUME IInv, NEW s \in Slots, Fetch(s) PROVE IInv'
<1> USE DEF IInv
<1>1. /\ ~UnderWay(s) /\ error' = FALSE
      /\ UNCHANGED <<panel, market, firstFill, outage, shown, loading, failures>>
  BY DEF Fetch, serverVars
<1>2. overlap' = ~Quiet /\ since' = IF Quiet THEN market.version ELSE since
  BY DEF Fetch
<1>3. requests' = [requests EXCEPT ![s] = Get(FirstUrl[panel])]
  BY DEF Fetch
<1>4. /\ FirstUrl[panel] \in {"/book", "/depth", "/volume"}
      /\ FirstUrl[panel] = "/volume" <=> panel = "volume"
  BY DEF TypeOK, FirstUrl
<1>5. market.version \in 0 .. MaxVersion
  BY DEF TypeOK, Market
<1>6. since' \in 0 .. market.version /\ since' >= since /\ overlap' \in BOOLEAN
  <2>1. since \in 0 .. market.version
    BY DEF TypeOK
  <2> QED  BY <1>2, <1>5, <2>1, VersionAssumption DEF Quiet
<1>7. TypeOK'
  <2>1. Get(FirstUrl[panel])
            \in [url : {"none", "/book", "/depth", "/volume"}, reply : Picture]
    BY <1>4, PictureFacts DEF Get
  <2>2. requests' \in [Slots -> [url : {"none", "/book", "/depth", "/volume"}, reply : Picture]]
    BY <1>3, <2>1 DEF TypeOK
  <2> QED  BY <1>1, <1>6, <2>2 DEF TypeOK
<1>8. /\ UnderWay(s)' /\ ~Answered(s)'
      /\ \A t \in Slots \ {s} : /\ UnderWay(t)' <=> UnderWay(t)
                                /\ Answered(t)' <=> Answered(t)
                                /\ requests'[t] = requests[t]
      /\ requests'[s].url = FirstUrl[panel]
  BY <1>3, <1>4 DEF TypeOK, UnderWay, Answered, Get, Nothing, ByServer
<1>9. ShownInv' /\ UrlInv'
  BY <1>1, <1>4, <1>8 DEF ShownInv, UrlInv, ByServer
<1>10. AnswersInv'
  <2> SUFFICES ASSUME NEW t \in Slots, Answered(t)'
               PROVE  Recent(requests[t].reply)'
    BY DEF AnswersInv
  <2>1. t # s /\ Answered(t) /\ requests'[t] = requests[t]
    BY <1>8
  <2>2. ~Quiet
    BY <2>1 DEF Answered, Quiet
  <2> QED  BY <1>1, <1>2, <2>1, <2>2 DEF AnswersInv, Recent, Origin
<1>11. AloneInv'
  <2> SUFFICES ASSUME ~overlap' PROVE \A t \in Slots \ {s} : ~UnderWay(t)' /\ ~Answered(t)'
    BY <1>8 DEF AloneInv
  <2>1. Quiet
    BY <1>2
  <2> QED  BY <1>8, <2>1 DEF Quiet, Answered
<1>12. LiveInv'
  BY <1>8 DEF LiveInv, Quiet
<1> QED  BY <1>7, <1>9, <1>10, <1>11, <1>12

\* The server answers.
LEMMA ServeInv == ASSUME IInv, NEW s \in Slots, Serve(s) PROVE IInv'
<1> USE DEF IInv
<1>1. /\ UnderWay(s) /\ ~Answered(s)
      /\ requests' = [requests EXCEPT ![s].reply = Answer(requests[s].url)]
      /\ UNCHANGED <<panel, market, firstFill, outage, shown, loading, error, failures,
                     since, overlap>>
  BY DEF Serve, serverVars, viewVars, historyVars
<1> DEFINE answer == Answer(requests[s].url)
<1>2. /\ answer \in Picture /\ ByServer(answer) /\ answer.version = market.version
      /\ answer.from = Origin(market.version) /\ since \in 0 .. market.version
  <2>1. requests[s].url \in {"/book", "/depth", "/volume"}
    BY <1>1 DEF TypeOK, UnderWay
  <2>2. requests[s].url = "/volume" <=> panel = "volume"
    BY <1>1 DEF UrlInv
  <2> QED  BY <2>1, <2>2, AnswerFacts DEF TypeOK
<1> HIDE DEF answer
<1>3. requests' \in [Slots -> [url : {"none", "/book", "/depth", "/volume"}, reply : Picture]]
  BY <1>1, <1>2 DEF TypeOK, answer
<1>4. TypeOK'
  BY <1>1, <1>3 DEF TypeOK
<1>5. /\ requests'[s].reply = answer
      /\ \A t \in Slots : (UnderWay(t)' <=> UnderWay(t)) /\ requests'[t].url = requests[t].url
      /\ \A t \in Slots \ {s} : /\ Answered(t)' <=> Answered(t)
                                /\ requests'[t] = requests[t]
  BY <1>1 DEF TypeOK, UnderWay, Answered, answer
<1>6. ShownInv' /\ UrlInv'
  BY <1>1, <1>5 DEF ShownInv, UrlInv, ByServer
<1>7. market.version \in Int /\ since \in Int /\ since <= market.version
  BY <1>2, VersionAssumption DEF TypeOK, Market
<1>8. AnswersInv'
  <2> SUFFICES ASSUME NEW t \in Slots, Answered(t)'
               PROVE  Recent(requests[t].reply)'
    BY DEF AnswersInv
  <2>1. CASE t = s
    BY <1>1, <1>2, <1>5, <1>7, <2>1 DEF Recent, Origin
  <2>2. CASE t # s
    BY <1>1, <1>5, <2>2 DEF AnswersInv, Recent, Origin
  <2> QED  BY <2>1, <2>2
<1>9. AloneInv'
  <2> SUFFICES ASSUME ~overlap
               PROVE  /\ \A t, u \in Slots : UnderWay(t)' /\ UnderWay(u)' => t = u
                      /\ \A t \in Slots : Answered(t)' /\ ByServer(shown) =>
                            shown.version <= requests'[t].reply.version
    BY <1>1 DEF AloneInv, ByServer
  <2>1. \A t, u \in Slots : UnderWay(t)' /\ UnderWay(u)' => t = u
    BY <1>5 DEF AloneInv
  <2>2. ASSUME NEW t \in Slots, Answered(t)', ByServer(shown)
        PROVE  shown.version <= requests'[t].reply.version
    <3>1. CASE t = s
      BY <1>2, <1>5, <2>2, <3>1 DEF ShownInv
    <3>2. CASE t # s
      BY <1>5, <2>2, <3>2 DEF AloneInv
    <3> QED  BY <3>1, <3>2
  <2> QED  BY <2>1, <2>2
<1>10. LiveInv'
  BY <1>1, <1>5 DEF LiveInv, Quiet, Recent, Origin
<1> QED  BY <1>4, <1>6, <1>8, <1>9, <1>10

\* A poll ends: with the answer, or with something else and an error.
LEMMA FinishInv ==
    ASSUME IInv, NEW s \in Slots, UnderWay(s),
           NEW picture \in Picture, NEW failed \in BOOLEAN,
           Finish(s, picture, failed), failures' \in 0 .. MaxFailures,
           \/ Answered(s) /\ picture = requests[s].reply
           \/ failed /\ (picture = shown \/ picture = Mock)
    PROVE  IInv'
<1> USE DEF IInv
<1>1. /\ requests' = [requests EXCEPT ![s] = Idle]
      /\ shown' = picture /\ loading' = FALSE /\ error' = (error \/ failed)
      /\ UNCHANGED <<panel, market, firstFill, outage, since, overlap>>
  BY DEF Finish, serverVars, historyVars
<1>2. /\ ~UnderWay(s)' /\ ~Answered(s)'
      /\ \A t \in Slots \ {s} : /\ UnderWay(t)' <=> UnderWay(t)
                                /\ Answered(t)' <=> Answered(t)
                                /\ requests'[t] = requests[t]
  BY <1>1 DEF TypeOK, UnderWay, Answered, Idle, ByServer
<1>3. TypeOK'
  <2>1. Idle \in [url : {"none", "/book", "/depth", "/volume"}, reply : Picture]
    BY PictureFacts DEF Idle
  <2>2. requests' \in [Slots -> [url : {"none", "/book", "/depth", "/volume"}, reply : Picture]]
    BY <1>1, <2>1 DEF TypeOK
  <2>3. error' \in BOOLEAN /\ loading' \in BOOLEAN
    BY <1>1 DEF TypeOK
  <2> QED  BY <1>1, <2>2, <2>3 DEF TypeOK
<1>4. Answered(s) /\ picture = requests[s].reply => Recent(picture)
  BY DEF AnswersInv
<1>5. ShownInv' /\ UrlInv'
  BY <1>1, <1>2, <1>4 DEF ShownInv, UrlInv, Mock, ByServer, Recent
<1>6. AnswersInv'
  BY <1>1, <1>2 DEF AnswersInv, Recent, Origin
<1>7. AloneInv'
  <2> SUFFICES ASSUME ~overlap PROVE \A t \in Slots : ~UnderWay(t)' /\ ~Answered(t)'
    BY <1>1 DEF AloneInv
  <2>1. \A t \in Slots \ {s} : ~UnderWay(t)
    BY DEF AloneInv
  <2> QED  BY <1>2, <2>1 DEF Answered
<1>8. LiveInv'
  <2> SUFFICES ASSUME ~error' PROVE Recent(picture)
    BY <1>1 DEF LiveInv, Recent, Origin
  <2>1. ~failed
    BY <1>1
  <2> QED  BY <1>4, <2>1
<1> QED  BY <1>3, <1>5, <1>6, <1>7, <1>8

\* All that ends a poll is of that form.
LEMMA EndsFinish ==
    ASSUME IInv, NEW s \in Slots,
           \/ ShowBook(s) \/ ShowVolume(s) \/ ShowDepths(s) \/ ShowComputed(s)
           \/ ComputeThrows(s) \/ BookFails(s) \/ VolumeFails(s) \/ DepthGivesUp(s)
    PROVE  /\ UnderWay(s) /\ failures' \in 0 .. MaxFailures
           /\ \E picture \in Picture, failed \in BOOLEAN :
                 /\ Finish(s, picture, failed)
                 /\ \/ Answered(s) /\ picture = requests[s].reply
                    \/ failed /\ (picture = shown \/ picture = Mock)
<1>1. shown \in Picture /\ requests[s].reply \in Picture /\ failures \in 0 .. MaxFailures
  BY DEF IInv, TypeOK
<1>2. CASE ShowBook(s) \/ ShowVolume(s) \/ ShowDepths(s) \/ ShowComputed(s)
  <2>1. Answered(s) /\ Finish(s, requests[s].reply, FALSE) /\ failures' = failures
    BY <1>2 DEF ShowBook, ShowVolume, ShowDepths, ShowComputed, Show
  <2> QED  BY <1>1, <2>1 DEF Answered
<1>3. CASE ComputeThrows(s)
  <2>1. Answered(s) /\ Finish(s, Mock, TRUE) /\ failures' = failures
    BY <1>3 DEF ComputeThrows
  <2> QED  BY <1>1, <2>1, PictureFacts DEF Answered
<1>4. CASE BookFails(s) \/ VolumeFails(s) \/ DepthGivesUp(s)
  <2>1. Fails(s) /\ (Finish(s, shown, TRUE) \/ Finish(s, Mock, TRUE))
    BY <1>4 DEF BookFails, VolumeFails, DepthGivesUp
  <2>2. UnderWay(s) /\ failures' \in 0 .. MaxFailures
    BY <1>1, <2>1, FailuresAssumption DEF Fails
  <2> QED  BY <1>1, <2>1, <2>2, PictureFacts
<1> QED  BY <1>2, <1>3, <1>4

\* The depth chart turns from /depth to /book: the answer of the first is gone.
LEMMA DepthFailsInv == ASSUME IInv, NEW s \in Slots, DepthFails(s) PROVE IInv'
<1> USE DEF IInv
<1>1. /\ requests' = [requests EXCEPT ![s] = Get("/book")]
      /\ UNCHANGED <<panel, market, firstFill, outage, shown, loading, error, since, overlap>>
      /\ UnderWay(s) /\ Fails(s) /\ panel = "depth"
  BY DEF DepthFails, Fails, serverVars, viewVars, historyVars
<1>2. failures' \in 0 .. MaxFailures
  BY <1>1, FailuresAssumption DEF Fails, TypeOK
<1>3. TypeOK'
  <2>1. Get("/book") \in [url : {"none", "/book", "/depth", "/volume"}, reply : Picture]
    BY PictureFacts DEF Get
  <2>2. requests' \in [Slots -> [url : {"none", "/book", "/depth", "/volume"}, reply : Picture]]
    BY <1>1, <2>1 DEF TypeOK
  <2> QED  BY <1>1, <1>2, <2>2 DEF TypeOK
<1>4. /\ UnderWay(s)' /\ ~Answered(s)'
      /\ \A t \in Slots \ {s} : /\ UnderWay(t)' <=> UnderWay(t)
                                /\ Answered(t)' <=> Answered(t)
                                /\ requests'[t] = requests[t]
      /\ requests'[s].url = "/book"
  BY <1>1 DEF TypeOK, UnderWay, Answered, Get, Nothing, ByServer
<1>5. ShownInv' /\ UrlInv' /\ AnswersInv'
  BY <1>1, <1>4 DEF ShownInv, UrlInv, AnswersInv, ByServer, Recent, Origin
<1>6. AloneInv'
  <2> SUFFICES ASSUME ~overlap PROVE \A t \in Slots \ {s} : ~UnderWay(t)' /\ ~Answered(t)'
    BY <1>1, <1>4 DEF AloneInv
  <2>1. \A t \in Slots \ {s} : ~UnderWay(t)
    BY <1>1 DEF AloneInv
  <2> QED  BY <1>4, <2>1 DEF Answered
<1>7. LiveInv'
  BY <1>4 DEF LiveInv, Quiet
<1> QED  BY <1>3, <1>5, <1>6, <1>7

\* The market moves under a panel at rest or waiting.
LEMMA MarketInv == ASSUME IInv, MarketChanges \/ ServerStops PROVE IInv'
<1> USE DEF IInv
<1>1. UNCHANGED <<panel, firstFill, requests, shown, loading, error, failures, since, overlap>>
  BY DEF MarketChanges, ServerStops, viewVars, historyVars
<1>2. market.version \in 0 .. MaxVersion /\ market \in Market
  BY DEF TypeOK, Market
<1>3. /\ market' \in Market /\ outage' \in BOOLEAN
      /\ market'.version \in Int /\ market'.version >= market.version
  <2>1. CASE MarketChanges
    BY <1>2, <2>1, VersionAssumption DEF MarketChanges, TypeOK
  <2>2. CASE ServerStops
    BY <1>2, <2>2, VersionAssumption DEF ServerStops
  <2> QED  BY <2>1, <2>2
<1>4. since \in 0 .. market'.version
  BY <1>2, <1>3, VersionAssumption DEF TypeOK
<1>5. TypeOK'
  BY <1>1, <1>3, <1>4 DEF TypeOK
<1>6. \A s \in Slots : (UnderWay(s)' <=> UnderWay(s)) /\ (Answered(s)' <=> Answered(s))
  BY <1>1 DEF UnderWay, Answered, ByServer
<1>7. \A p \in Picture : p.version <= market.version => p.version <= market'.version
  BY <1>2, <1>3, VersionAssumption DEF Picture
<1>8. shown \in Picture /\ \A s \in Slots : requests[s].reply \in Picture
  BY DEF TypeOK
<1>9. ShownInv' /\ UrlInv' /\ AloneInv'
  BY <1>1, <1>6, <1>7, <1>8 DEF ShownInv, UrlInv, AloneInv, ByServer
<1>10. AnswersInv' /\ LiveInv'
  BY <1>1, <1>6, <1>7, <1>8 DEF AnswersInv, LiveInv, Quiet, Recent, Origin
<1> QED  BY <1>5, <1>9, <1>10

LEMMA StepInv == ASSUME IInv, [Next]_vars PROVE IInv'
<1>1. ASSUME NEW s \in Slots, Fetch(s) PROVE IInv'
  BY <1>1, FetchInv
<1>2. ASSUME NEW s \in Slots, GoesOn(s) PROVE IInv'
  <2>1. CASE Serve(s)
    BY <2>1, ServeInv
  <2>2. CASE DepthFails(s)
    BY <2>2, DepthFailsInv
  <2>3. CASE \/ ShowBook(s) \/ ShowVolume(s) \/ ShowDepths(s) \/ ShowComputed(s)
             \/ ComputeThrows(s) \/ BookFails(s) \/ VolumeFails(s) \/ DepthGivesUp(s)
    BY <2>3, EndsFinish, FinishInv
  <2> QED  BY <1>2, <2>1, <2>2, <2>3 DEF GoesOn
<1>3. CASE MarketChanges \/ ServerStops
  BY <1>3, MarketInv
<1>4. CASE UNCHANGED vars
  BY <1>4 DEF vars, serverVars, viewVars, historyVars, IInv, TypeOK, ShownInv, UrlInv,
              AnswersInv, AloneInv, LiveInv, Quiet, Answered, UnderWay, ByServer, Recent,
              Origin
<1> QED  BY <1>1, <1>2, <1>3, <1>4 DEF Next

\* The state of a panel keeps its types.
THEOREM TypeCorrect == Spec => []TypeOK
<1>1. Init => IInv
  BY InitInv
<1>2. IInv /\ [Next]_vars => IInv'
  BY StepInv
<1>3. IInv => TypeOK
  BY DEF IInv
<1> QED  BY <1>1, <1>2, <1>3, PTL DEF Spec

\* A panel that says Live and waits for nothing shows what the server answered
\* since the panel was last quiet, never data it made up itself.  It is the market,
\* unless it is the volume of a time without fills, which the server invents.
THEOREM QuietPanelsTell == Spec => []QuietPanelTrue
<1>1. Init => IInv
  BY InitInv
<1>2. IInv /\ [Next]_vars => IInv'
  BY StepInv
<1>3. IInv => QuietPanelTrue
  <2> SUFFICES ASSUME IInv, Quiet, ~Skeleton, Visible.status = "Live"
               PROVE  /\ shown.version \in since .. market.version
                      /\ shown.from = Origin(shown.version)
    BY DEF QuietPanelTrue, Origin
  <2>1. ~error
    BY DEF Visible, Screen
  <2>2. ~(loading /\ shown = Nothing)
    BY DEF Skeleton, Visible, Screen, Sides, Nothing
  <2>3. Recent(shown) /\ shown \in Picture
    BY <2>1, <2>2 DEF IInv, LiveInv, TypeOK
  <2>4. since \in Int /\ market.version \in Int /\ shown.version \in Int
    BY <2>3, VersionAssumption DEF IInv, TypeOK, Picture, Market
  <2> QED  BY <2>3, <2>4 DEF Recent
<1> QED  BY <1>1, <1>2, <1>3, PTL DEF Spec

\* A panel goes back in time only where requests overlapped, and not far.
THEOREM NoWayFarBack == Spec => NoWayBack
<1>1. Init => IInv
  BY InitInv
<1>2. IInv /\ [Next]_vars => IInv'
  BY StepInv
<1>3. ASSUME IInv, [Next]_vars, ByServer(shown), ByServer(shown')
      PROVE  \/ shown'.version >= shown.version
             \/ overlap /\ shown'.version >= since
  <2>1. shown \in Picture /\ shown.version \in Int
    BY <1>3, VersionAssumption DEF IInv, TypeOK, Picture
  <2>2. CASE shown' = shown
    BY <2>1, <2>2
  <2>3. ASSUME NEW s \in Slots,
               \/ ShowBook(s) \/ ShowVolume(s) \/ ShowDepths(s) \/ ShowComputed(s)
               \/ ComputeThrows(s) \/ BookFails(s) \/ VolumeFails(s) \/ DepthGivesUp(s)
        PROVE  \/ shown'.version >= shown.version
               \/ overlap /\ shown'.version >= since
    <3>1. PICK picture \in Picture, failed \in BOOLEAN :
              /\ Finish(s, picture, failed)
              /\ \/ Answered(s) /\ picture = requests[s].reply
                 \/ failed /\ (picture = shown \/ picture = Mock)
      BY <1>3, <2>3, EndsFinish
    <3>2. shown' = picture
      BY <3>1 DEF Finish
    <3>3. CASE Answered(s) /\ picture = requests[s].reply
      <4>1. picture.version >= since /\ (overlap \/ shown.version <= picture.version)
        BY <1>3, <3>3 DEF IInv, AnswersInv, AloneInv, Recent
      <4>2. picture.version \in Int
        BY VersionAssumption DEF Picture
      <4> QED  BY <2>1, <3>2, <4>1, <4>2
    <3>4. CASE picture = shown
      BY <2>1, <3>2, <3>4
    <3>5. CASE picture = Mock
      BY <1>3, <3>2, <3>5 DEF Mock, ByServer
    <3> QED  BY <3>1, <3>3, <3>4, <3>5
  <2>4. CASE UNCHANGED vars \/ MarketChanges \/ ServerStops
    BY <2>2, <2>4 DEF vars, viewVars, MarketChanges, ServerStops
  <2>5. ASSUME NEW s \in Slots, Fetch(s) \/ Serve(s) \/ DepthFails(s)
        PROVE  shown' = shown
    BY <2>5 DEF Fetch, Serve, DepthFails, viewVars
  <2> QED  BY <1>3, <2>2, <2>3, <2>4, <2>5 DEF Next, GoesOn
<1> QED  BY <1>1, <1>2, <1>3, PTL DEF Spec, NoWayBack
=============================================================================
