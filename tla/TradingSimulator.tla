-------------------------- MODULE TradingSimulator --------------------------
(***************************************************************************)
(* The trading simulator of the web front end                              *)
(* (web/src/services/TradingSimulator.ts) and the App that starts and      *)
(* stops it: one object for the whole page, its timers, and the loops of   *)
(* orders they begin, each of which waits for the sequencer's answers.     *)
(*                                                                         *)
(* Code runs on one thread: a step is what runs between two awaits or from *)
(* one callback.  Which orders a loop posts does not matter here, only how *)
(* many it has to go.                                                      *)
(***************************************************************************)
EXTENDS Integers, FiniteSets

CONSTANTS
    MaxOrders,  \* the most orders of a loop
    MaxStarts,  \* bounds the times the simulator is started
    Slots       \* bounds the loops under way at a time

ASSUME OrdersAssumption == MaxOrders \in Nat /\ MaxOrders >= 2
ASSUME StartsAssumption == MaxStarts \in Nat

VARIABLES
    mounted,          \* App: its effect is in force
    simulatorActive,  \* App: what the button goes by
    isRunning,
    intervalId,       \* 0 when undefined
    timers,           \* timeouts of start that have not fired
    intervals,        \* intervals that tick
    starts, opened,   \* starts, and intervals, so far
    loops,            \* per slot: orders its loop has to go, 0 without a loop
    hasty             \* history: was it stopped or started with a timer set?

appVars == <<mounted, simulatorActive, hasty>>
vars == <<appVars, isRunning, intervalId, timers, intervals, starts, opened, loops>>

Init ==
    /\ mounted = FALSE
    /\ simulatorActive = FALSE
    /\ isRunning = FALSE
    /\ intervalId = 0
    /\ timers = 0
    /\ intervals = {}
    /\ starts = 0 /\ opened = 0
    /\ loops = [s \in Slots |-> 0]
    /\ hasty = FALSE

-----------------------------------------------------------------------------
(* start, stop, and the App that calls them. *)

Watch == hasty' = (hasty \/ timers > 0)

\* A slip: the timer is not set.
StartWithoutTimer ==
    /\ starts < MaxStarts
    /\ isRunning' = TRUE
    /\ starts' = starts + 1
    /\ UNCHANGED <<intervalId, timers, intervals>>
Start ==
    IF isRunning THEN UNCHANGED <<isRunning, timers, starts, intervalId, intervals>>
    ELSE /\ starts < MaxStarts
         /\ isRunning' = TRUE
         /\ timers' = timers + 1
         /\ starts' = starts + 1
         /\ UNCHANGED <<intervalId, intervals>>

\* A slip: the interval goes on.
StopWithoutClear ==
    /\ isRunning' = FALSE
    /\ intervalId' = 0
    /\ UNCHANGED <<timers, starts, intervals>>
Stop ==
    IF ~isRunning THEN UNCHANGED <<isRunning, timers, starts, intervalId, intervals>>
    ELSE /\ isRunning' = FALSE
         /\ intervals' = intervals \ {intervalId}
         /\ intervalId' = 0
         /\ UNCHANGED <<timers, starts>>

\* The effect of App.  In StrictMode React runs it, its cleanup, and it again.
Mount ==
    /\ ~mounted /\ Watch
    /\ Start
    /\ mounted' = TRUE
    /\ simulatorActive' = TRUE
    /\ UNCHANGED <<opened, loops>>

Unmount ==
    /\ mounted /\ Watch
    /\ Stop
    /\ mounted' = FALSE
    /\ UNCHANGED <<simulatorActive, opened, loops>>

\* A slip: the state of the button is not updated when it starts.
ToggleHalf ==
    /\ mounted /\ Watch
    /\ IF simulatorActive THEN Stop /\ simulatorActive' = FALSE
       ELSE Start /\ UNCHANGED simulatorActive
    /\ UNCHANGED <<mounted, opened, loops>>
ToggleSimulator ==
    /\ mounted /\ Watch
    /\ IF simulatorActive THEN Stop ELSE Start
    /\ simulatorActive' = ~simulatorActive
    /\ UNCHANGED <<mounted, opened, loops>>

-----------------------------------------------------------------------------
(* simulationLoop. *)

\* A slip: the loop does not look whether the simulator is running.
BeginAnyway ==
    \E s \in Slots, n \in 2 .. MaxOrders :
        loops[s] = 0 /\ loops' = [loops EXCEPT ![s] = n]
\* A call of simulationLoop, as far as its first await.
BeginLoop ==
    IF ~isRunning THEN UNCHANGED loops
    ELSE \E s \in Slots, n \in 2 .. MaxOrders :
            loops[s] = 0 /\ loops' = [loops EXCEPT ![s] = n]

\* The timeout of start: a loop at once, and an interval for more.
TimerFires ==
    /\ timers > 0
    /\ BeginLoop
    /\ timers' = timers - 1
    /\ opened' = opened + 1
    /\ intervalId' = opened + 1
    /\ intervals' = intervals \cup {opened + 1}
    /\ UNCHANGED <<appVars, isRunning, starts>>

Tick ==
    /\ intervals # {}
    /\ BeginLoop
    /\ UNCHANGED <<appVars, isRunning, intervalId, timers, intervals, starts, opened>>

\* submitOrder comes back: an answer, an error or a timeout, it makes no
\* difference.  The loop goes on with its next order, running or not.
OrderReturns(s) ==
    /\ loops[s] > 0
    /\ loops' = [loops EXCEPT ![s] = @ - 1]
    /\ UNCHANGED <<appVars, isRunning, intervalId, timers, intervals, starts, opened>>

Next ==
    \/ Mount
    \/ Unmount
    \/ ToggleSimulator
    \/ TimerFires
    \/ Tick
    \/ \E s \in Slots : OrderReturns(s)

Spec == Init /\ [][Next]_vars

\* Timeouts and intervals fire, and axios gives up on a request after three seconds.
FairSpec ==
    /\ Spec
    /\ WF_vars(TimerFires)
    /\ WF_vars(Tick)
    /\ \A s \in Slots : WF_vars(OrderReturns(s))

-----------------------------------------------------------------------------
(* Properties. *)

TypeOK ==
    /\ mounted \in BOOLEAN /\ simulatorActive \in BOOLEAN /\ isRunning \in BOOLEAN
    /\ intervalId \in 0 .. opened
    /\ timers \in 0 .. MaxStarts
    /\ intervals \subseteq 1 .. opened
    /\ starts \in 0 .. MaxStarts
    /\ opened \in Nat
    /\ loops \in [Slots -> 0 .. MaxOrders]
    /\ hasty \in BOOLEAN

\* App.tsx:14-38.  While the page is there the button says what the simulator
\* does, though each keeps a flag of its own and both survive the page.
ButtonTellsRunning == mounted => (simulatorActive <=> isRunning)

\* TradingSimulator.ts:129-154.  As long as it is given the two seconds of its
\* timer before the next start or stop, it has no interval when stopped, and
\* one when running, from when the timer has fired.
IntervalKept ==
    ~hasty =>
        /\ ~isRunning => intervals = {}
        /\ isRunning /\ timers = 0 => intervals = {intervalId}

\* TradingSimulator.ts:107, 144-154.  After a stop its loops come to an end,
\* however it was started and stopped before, unless it is started again.
QuietAfterStop == ~isRunning ~> (isRunning \/ \A s \in Slots : loops[s] = 0)

\* TradingSimulator.ts:137-141.  While it runs it never stops posting for good.
RunningPosts == isRunning ~> (~isRunning \/ \E s \in Slots : loops[s] > 0)
=============================================================================
