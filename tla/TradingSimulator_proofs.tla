----------------------- MODULE TradingSimulator_proofs -----------------------
(***************************************************************************)
(* Proofs about TradingSimulator for any number of starts and loops.       *)
(***************************************************************************)
EXTENDS TradingSimulator, TLAPS

\* The two flags, and which numbers intervals have had.
FlagsInv ==
    /\ mounted \in BOOLEAN /\ simulatorActive \in BOOLEAN /\ isRunning \in BOOLEAN
    /\ opened \in Nat /\ timers \in Nat /\ hasty \in BOOLEAN
    /\ ButtonTellsRunning
    /\ ~mounted => ~isRunning

\* Given time, a timer waits only for a simulator that runs without an interval.
TimersInv ==
    ~hasty =>
        /\ ~isRunning => intervals = {}
        /\ isRunning /\ timers = 0 => intervals = {intervalId}
        /\ timers > 0 => timers = 1 /\ isRunning /\ intervals = {} /\ intervalId = 0
        /\ ~isRunning => intervalId = 0

IInv == FlagsInv /\ TimersInv

LEMMA InitInv == Init => IInv
<1> SUFFICES ASSUME Init PROVE IInv
  OBVIOUS
<1>1. FlagsInv
  BY DEF Init, FlagsInv, ButtonTellsRunning
<1>2. timers = 0 /\ intervals = {} /\ intervalId = 0 /\ ~isRunning
  BY DEF Init
<1>3. TimersInv
  BY <1>2 DEF TimersInv
<1> QED  BY <1>1, <1>3 DEF IInv

\* Stopping leaves nothing but a timer that was there.
LEMMA StopStops ==
    ASSUME IInv, Stop
    PROVE  /\ isRunning' = FALSE /\ timers' = timers
           /\ ~hasty /\ timers = 0 => intervals' = {} /\ intervalId' = 0
<1>1. CASE isRunning
  BY <1>1 DEF Stop, IInv, TimersInv
<1>2. CASE ~isRunning
  <2>1. isRunning = FALSE
    BY <1>2 DEF IInv, FlagsInv
  <2> QED  BY <1>2, <2>1 DEF Stop, IInv, TimersInv
<1> QED  BY <1>1, <1>2

\* Given time means no timer was set before either.
LEMMA Calm ==
    ASSUME IInv, Watch
    PROVE  hasty' \in BOOLEAN /\ (~hasty' => ~hasty /\ timers = 0)
<1>1. hasty' = (hasty \/ timers > 0) /\ hasty \in BOOLEAN
  BY DEF IInv, FlagsInv, Watch
<1>2. hasty' \in BOOLEAN /\ (~hasty' => ~hasty /\ ~(timers > 0))
  BY <1>1, Zenon
<1> QED  BY <1>2 DEF IInv, FlagsInv

LEMMA StepInv == ASSUME IInv, [Next]_vars PROVE IInv'
<1> USE DEF IInv, FlagsInv, TimersInv, ButtonTellsRunning
<1>1. CASE Mount
  <2>1. ~isRunning /\ Start /\ mounted' /\ simulatorActive' /\ opened' = opened
    BY <1>1 DEF Mount
  <2>2. isRunning' /\ timers' = timers + 1 /\ UNCHANGED <<intervalId, intervals>>
    BY <2>1 DEF Start
  <2>3. hasty' \in BOOLEAN /\ (~hasty' => ~hasty /\ timers = 0)
    BY <1>1, Calm DEF Mount
  <2> QED  BY <2>1, <2>2, <2>3
<1>2. CASE Unmount
  <2>1. Stop /\ mounted' = FALSE /\ UNCHANGED <<simulatorActive, opened>>
    BY <1>2 DEF Unmount
  <2>2. hasty' \in BOOLEAN /\ (~hasty' => ~hasty /\ timers = 0)
    BY <1>2, Calm DEF Unmount
  <2> QED  BY <2>1, <2>2, StopStops
<1>3. CASE ToggleSimulator
  <2>1. /\ mounted /\ mounted' = mounted /\ opened' = opened
        /\ simulatorActive' = ~simulatorActive
    BY <1>3 DEF ToggleSimulator
  <2>2. hasty' \in BOOLEAN /\ (~hasty' => ~hasty /\ timers = 0)
    BY <1>3, Calm DEF ToggleSimulator
  <2>3. CASE simulatorActive
    <3>1. Stop
      BY <1>3, <2>3 DEF ToggleSimulator
    <3>2. simulatorActive' = FALSE
      BY <2>1, <2>3
    <3> QED  BY <2>1, <2>2, <2>3, <3>1, <3>2, StopStops
  <2>4. CASE ~simulatorActive
    <3>1. ~isRunning /\ Start
      BY <1>3, <2>1, <2>4 DEF ToggleSimulator
    <3>2. /\ isRunning' = TRUE /\ timers' = timers + 1
          /\ UNCHANGED <<intervalId, intervals>>
      BY <3>1 DEF Start
    <3>3. simulatorActive' = TRUE
      BY <2>1, <2>4
    <3> QED  BY <2>1, <2>2, <2>4, <3>1, <3>2, <3>3
  <2> QED  BY <2>3, <2>4
<1>4. CASE TimerFires
  BY <1>4 DEF TimerFires, appVars
<1>5. CASE Tick
  BY <1>5 DEF Tick, appVars
<1>6. ASSUME NEW s \in Slots, OrderReturns(s) PROVE IInv'
  BY <1>6 DEF OrderReturns, appVars
<1>7. CASE UNCHANGED vars
  BY <1>7 DEF vars, appVars
<1> QED  BY <1>1, <1>2, <1>3, <1>4, <1>5, <1>6, <1>7 DEF Next

\* Each timer belongs to a start.
TypeInv == TypeOK /\ timers <= starts

\* What Start and Stop leave of the types.
LEMMA SwitchTypes ==
    ASSUME TypeInv, Start \/ Stop
    PROVE  /\ isRunning' \in BOOLEAN /\ intervalId' \in 0 .. opened
           /\ starts' \in 0 .. MaxStarts /\ timers' \in Nat /\ timers' <= starts'
           /\ intervals' \subseteq 1 .. opened
<1> USE StartsAssumption DEF TypeInv, TypeOK
<1>1. CASE Start
  <2>1. CASE isRunning
    <3>1. UNCHANGED <<isRunning, timers, starts, intervalId, intervals>>
      BY <1>1, <2>1 DEF Start
    <3> QED  BY <3>1
  <2>2. CASE ~isRunning
    <3>1. /\ starts < MaxStarts /\ isRunning' = TRUE
          /\ timers' = timers + 1 /\ starts' = starts + 1
          /\ intervalId' = intervalId /\ intervals' = intervals
      BY <1>1, <2>2 DEF Start
    <3> QED  BY <3>1
  <2> QED  BY <2>1, <2>2
<1>2. CASE Stop
  <2>1. /\ intervalId' \in {intervalId, 0} /\ intervals' \subseteq intervals
        /\ isRunning' \in BOOLEAN /\ timers' = timers /\ starts' = starts
    BY <1>2 DEF Stop
  <2> QED  BY <2>1
<1> QED  BY <1>1, <1>2

LEMMA BeginTypes ==
    ASSUME TypeInv, BeginLoop PROVE loops' \in [Slots -> 0 .. MaxOrders]
<1>1. CASE UNCHANGED loops
  BY <1>1 DEF TypeInv, TypeOK
<1>2. ASSUME NEW s \in Slots, NEW n \in 2 .. MaxOrders, loops' = [loops EXCEPT ![s] = n]
      PROVE  loops' \in [Slots -> 0 .. MaxOrders]
  BY <1>2, OrdersAssumption DEF TypeInv, TypeOK
<1> QED  BY <1>1, <1>2 DEF BeginLoop

LEMMA StepTypes == ASSUME TypeInv, [Next]_vars PROVE TypeInv'
<1> USE StartsAssumption, OrdersAssumption DEF TypeInv, TypeOK
<1>1. CASE Mount \/ Unmount \/ ToggleSimulator
  <2>1. Start \/ Stop
    BY <1>1 DEF Mount, Unmount, ToggleSimulator
  <2>2. UNCHANGED <<opened, loops>>
    BY <1>1 DEF Mount, Unmount, ToggleSimulator
  <2>3. mounted' \in BOOLEAN /\ simulatorActive' \in BOOLEAN
    BY <1>1 DEF Mount, Unmount, ToggleSimulator
  <2>4. hasty' \in BOOLEAN
    <3>1. hasty' = (hasty \/ timers > 0)
      BY <1>1 DEF Mount, Unmount, ToggleSimulator, Watch
    <3> QED  BY <3>1, Zenon
  <2> QED  BY <2>1, <2>2, <2>3, <2>4, SwitchTypes
<1>2. CASE TimerFires
  <2>1. loops' \in [Slots -> 0 .. MaxOrders]
    BY <1>2, BeginTypes DEF TimerFires
  <2> QED  BY <1>2, <2>1 DEF TimerFires, appVars
<1>3. CASE Tick
  <2>1. loops' \in [Slots -> 0 .. MaxOrders]
    BY <1>3, BeginTypes DEF Tick
  <2> QED  BY <1>3, <2>1 DEF Tick, appVars
<1>4. ASSUME NEW s \in Slots, OrderReturns(s) PROVE TypeInv'
  <2>1. loops' \in [Slots -> 0 .. MaxOrders]
    BY <1>4 DEF OrderReturns
  <2> QED  BY <1>4, <2>1 DEF OrderReturns, appVars
<1>5. CASE UNCHANGED vars
  BY <1>5 DEF vars, appVars
<1> QED  BY <1>1, <1>2, <1>3, <1>4, <1>5 DEF Next

\* The state of the simulator and of App keeps its types.
THEOREM TypeCorrect == Spec => []TypeOK
<1>1. ASSUME Init PROVE TypeInv
  <2>1. loops \in [Slots -> 0 .. MaxOrders]
    BY <1>1, OrdersAssumption DEF Init
  <2>2. /\ mounted \in BOOLEAN /\ simulatorActive \in BOOLEAN /\ isRunning \in BOOLEAN
        /\ hasty \in BOOLEAN
    BY <1>1 DEF Init
  <2>3. /\ starts = 0 /\ timers = 0 /\ opened = 0 /\ intervalId = 0 /\ intervals = {}
    BY <1>1 DEF Init
  <2> QED  BY <2>1, <2>2, <2>3, StartsAssumption DEF TypeInv, TypeOK
<1>2. TypeInv /\ [Next]_vars => TypeInv'
  BY StepTypes
<1>3. TypeInv => TypeOK
  BY DEF TypeInv
<1> QED  BY <1>1, <1>2, <1>3, PTL DEF Spec

\* The button never lies, however the page comes and goes.
THEOREM ButtonIsRight == Spec => []ButtonTellsRunning
<1>1. Init => IInv
  BY InitInv
<1>2. IInv /\ [Next]_vars => IInv'
  BY StepInv
<1>3. IInv => ButtonTellsRunning
  BY DEF IInv, FlagsInv
<1> QED  BY <1>1, <1>2, <1>3, PTL DEF Spec

\* Given time between start and stop, intervals do not pile up.
THEOREM IntervalsKept == Spec => []IntervalKept
<1>1. Init => IInv
  BY InitInv
<1>2. IInv /\ [Next]_vars => IInv'
  BY StepInv
<1>3. IInv => IntervalKept
  BY DEF IInv, TimersInv, IntervalKept
<1> QED  BY <1>1, <1>2, <1>3, PTL DEF Spec
=============================================================================
