# A TLA+ model of the Polymarket CLOB AVS

This directory holds a formal model of the repository's order book, matcher,
submitter, settlement contracts and dashboard, TLC configurations that check it
on small instances, and TLAPS proofs for instances of any size. Paths are
relative to the repository.

## 1. The system

```
 web/ (React)                     cmd/ (Go, one process)                    contracts/ (Solidity)
 OrderForm, TradingSimulator --POST /orders--> handleOrders
                                                |  mu: orderBook
                                                v
                                          MatchAndBatch --root, fills--> AggregateBLS
                                                                             |
 OrderBook, DepthChart, <--GET /book, /depth,                                v
 VolumeChart                /volume                                     SubmitBatch --tx--> BatchSettlement
                                                                        failedBatches            ^
 cmd/retry (its own process) --RetryFailedBatches, ClearFailedBatches--> |                       |
                                                              a challenger --dispute--> DisputeGame
```

| Component | State | Operations | What is hard about it | What makes it correct |
|---|---|---|---|---|
| Order intake, `cmd/main.go` | `orderBook` under `mu`; `totalVolume`, `volumeData` under `volumeMu` | `handleOrders`, `trackVolume` | A goroutine per request; `mu` is released between append and match, so a request may match, and account for, the orders of others | each fill once; nothing lost from the book; volume is that of all fills; every request gets through |
| Matching, `cmd/matcher/matcher.go` | none; amounts are decimal strings | `MatchAndBatch` and its helpers | two unstable sorts, a split into halves whatever the side asked for, partial fills, the batch limit, an epsilon against printed decimals | fills in price-time priority (otherwise the batch can be disputed), amounts conserved up to rounding |
| BLS aggregation, same file | key material | `AggregateBLS` | fails after the book was pruned | a round whose aggregation fails should not lose its fills |
| Market data, `cmd/main.go` | reads the above | GET `/book`, `/depth`, `/volume` | read in the middle of rounds; hand-written sorts; sides made up from the mean price | the answer shows each order once, sorted, and adds up |
| Submitter, `cmd/submitter/submitter.go` | `failedBatches` under its mutex | `SubmitBatch`, `attemptSubmitBatch`, `RetryFailedBatches`, `ClearFailedBatches` | one account for all goroutines, pending nonces, lost answers, timeouts taken for success, indices into a stale copy | a batch is settled once, and never lost; calls return |
| Retry command, `cmd/retry/main.go` | its own, empty queue | calls the submitter's functions | it is another process | that it retries the server's batches, which it cannot |
| `BatchSettlement.sol` | `batchRoots`, `totalBatchesSubmitted`, events | `submitBatch` | reverts take events back | a root once; log and state agree |
| `DisputeGame.sol` | `disputedRoots`, `totalDisputes`, events | `dispute` | depends on the other contract's state and on proofs | only submitted roots, once each, only for a misordering |
| Trading simulator, `web/src/services/TradingSimulator.ts` with `App.tsx` | flags in two places, a timer, an interval, loops that await | `start`, `stop`, `toggleSimulator`, the effect of App | a timeout that `stop` does not cancel, loops that outlive a stop, StrictMode | one interval while it runs, none when stopped; the button tells the truth |
| Dashboard panels, `OrderBook.tsx`, `DepthChart.tsx`, `VolumeChart.tsx` in `web/src/components` | the data last shown, `loading`, `error`; requests under way | a poll every one, two or five seconds; fallbacks from `/depth` to `/book` to made-up data | polls overlap and end in any order; each clears the error when it begins | a panel comes to rest on what the server answers of the market; what the panel makes up is said to be |
| Order form, `OrderForm.tsx` there | the inputs, `loading`, `message` | `handleInputChange`, `handleSubmit` | inputs stay open during a request; the form gives up after five seconds, the handler may wait for the chain for minutes | messages are true and about the last press; an order counts once |
| Event log, `EventLog.tsx`; wallet bindings, `wagmi.tsx` | a list of invented events; none | a timer | nothing | (not modelled) |

The hazards are listed one by one, each at its line, in `PROJECT.json`.

## 2. The modules

| Module | Models | Proofs |
|---|---|---|
| `Matcher.tla` | `handleOrders` under `mu`, with `MatchAndBatch` as a step machine and `trackVolume` | `Matcher_proofs.tla` |
| `Accounts.tla` (extends `Matcher`) | what all rounds together have filled, to compare with the book and the volume | `Matcher_proofs.tla` |
| `MarketData.tla` (extends `Matcher`) | the three GET endpoints, and the depth chart's own computation of depths | `Sequencer_proofs.tla` |
| `Submitter.tla` | the submitter and, as an external part, the node's mempool | `Submitter_proofs.tla` |
| `Delivery.tla` | what the submitter promises of a batch, for `Submitter` to implement | `Submitter_proofs.tla` |
| `Settlement.tla` | both contracts | `Settlement_proofs.tla` |
| `Pipeline.tla` (extends `Matcher`) | `handleOrders` from end to end: `Matcher`, `AggregateBLS`, and instances of `Submitter` and `Settlement` | `Sequencer_proofs.tla` |
| `TradingSimulator.tla` | the simulator and the App that owns it | `TradingSimulator_proofs.tla` |
| `Panels.tla` | the three polling panels, and the server as they meet it | `Panels_proofs.tla` |
| `OrderForm.tla` | the order form, and the sequencer as it meets it | `OrderForm_proofs.tla` |

`FoldTheorems.tla` holds what the proofs need of induction and of the folds of
the community modules. Each model has an `MC` module with its instances
(`MCMatcher` and `MCMatcherPrune` are of `Accounts`). Definitions marked *a slip* are
mistakes a programmer could have made in the definition that follows them; no
action uses them. `PROJECT.json` names, for each property of a passing run, the
slip that breaks it, which shows that the property depends on the code.

### Matcher

A handler is named by the order it posts. `pc` walks it through
`handleOrders`: `Post` (`validateOrder` and the first critical section), then
either `NotEnoughOrders` or `StartMatch` (second lock, sort, split), `Iterate`
once per iteration of the loop, `FinishMatch` (the pruned book is stored),
`TrackVolume` once per fill, `Unlock`. Other handlers run whenever `mu` is free,
and readers of `volumeData` between any two steps.

- The book is a set. Every use of the slice sorts it, and `sort.Slice` is not
  stable, so `Sorted` is the set of all orders of the slice that the sort may
  return. The second sort in `splitBidsAsks` works on a slice that is in the
  order it asks for already. That it leaves the ties as they are is a fact
  about Go's pattern-defeating quicksort on sorted input: it finds no pair to
  exchange.
- Amounts are integers `Grain` times finer than the eighth decimal. So the
  epsilon of `0.00000001` is `Grain`, and `FormatAmount` is a real rounding
  when `Grain > 1`. Left out are values that are no numbers or infinite, and
  binary rounding in float64 below that scale.
- The batch root is the list of fills: SHA-256 is taken as injective on them.

### MarketData

A handler of `/book` and `/depth` copies the book under `mu` and works on the
copy, so it is one step. The copy comes in any order (`Copies`), and an order
whose price equals the mean may fall on either side (`high`), as the mean is a
float64. Ids, time stamps of the answer, and the invented entries of
`/volume` without data are left out; that such data is invented is kept.

`ComputeDepth` is what the depth chart makes of the answer to `/book`: a grid of
rounded prices (`ChartGrid`), and at each the running sum of each side, best
orders first (`DepthAt`). Prices are integers finer than the grid, as those of
the trading simulator are. `GridStep` is odd, so that no price lies half way
between two points, where float64 decides which way it is rounded.

### Submitter

A worker is a goroutine in `SubmitBatch` (named by its batch) or in
`RetryFailedBatches`. An attempt is `ReadNonce`, `EstimateGas`, `Send`, a wait
that ends in `Mined` or `WaitTimesOut`; any call may fail (`NodeFails`,
`EstimateReverts`), and `SendUnanswered` is a transaction that went through
without the worker knowing. The retry works on a copy (`StartRetry`,
`NextBatch`) and removes what succeeded by index (`FinishRetry`). Constants say
whether the node replaces or drops transactions, whether the queue may be
cleared, and whether the process may end. Sleeps between attempts are left out,
as any interleaving is allowed. The node is external: one transaction per
nonce, mined in the order of nonces, `submitBatch` runs when mined.

`Delivery` is the same without nonces, attempts, copies and indices: five sets of
batches (handed over, with their call, queued, sent, settled). The refinement
mapping reads them off `pc`, the queue, and what the node and the chain have.
`DeliveryKept` is the specification of `Delivery`, with its fairness, as a
property of `Submitter`.

### Settlement

A call is one step, atomic as on chain; one that reverts changes nothing but
the receipt. A root stands for its tree. `OrderLeaves` are the roots whose
leaves are hashes of orders as `_hashOrder` makes them; those of the matcher
are not among them (see section 6).

### Pipeline

The handlers of `Matcher`, one instance of `Submitter` whose batches are those
of the handlers and which nobody retries or clears (the server never does), and
between them `AggregateBLS` (it returns a signature and `SubmitBatch` starts) or
`AggregateFails` (no key signs, the handler only logs it), then `SubmitStep` and
`Reply`, which ignores what `SubmitBatch` returned. A second instance, `Chain`,
is `Settlement` under a refinement mapping: its mapping, counter, log and last
receipt are read off the transactions the node has mined.
`ChainFollowsSettlement` is the specification of `Settlement` as a property.

### TradingSimulator

JavaScript runs one callback at a time: a step is what runs between two
awaits. `Start` and `Stop` are the methods; `Mount`, `Unmount` and
`ToggleSimulator` call them from `App`; `TimerFires` is the timeout of `start`,
`Tick` its interval, `OrderReturns` the answer a loop waits for. `hasty` is a
history variable: it records that someone started or stopped the simulator
while a timer of `start` was still to fire.

### Panels

The panels share nothing but the server, so `panel` is picked in `Init` and a
behaviour follows one of them. `Fetch` is a tick of the interval, or the mount,
up to the first await; `Serve` is the server's answer to the URL asked for
(`BookAnswer`, `DepthAnswer`, `VolumeAnswer`); the rest ends a poll:
`ShowBook`, `ShowVolume`, `ShowDepths` with the answer, `DepthFails` by turning
to `/book`, `ShowComputed` or `ComputeThrows` with what that brings, and
`BookFails`, `VolumeFails`, `DepthGivesUp` without an answer. Several polls are
under way at a time, one per slot. A picture is where it comes from (the market, the
server's invention, the panel's), a version and, for each side, whether it has orders: Go sends `null` for a side without any, and
spreading it throws in the depth chart and not in the order book. `Screen` is
what the user sees of `loading`, `error` and the data. `since` and `overlap` are
history: the market's version when the panel was last without a request, and
whether requests have overlapped from then on. `firstFill` is picked in `Init`: the
version from which on there have been fills, before which `/volume` is invented. `outage` is the server gone for
good; before that, single requests fail.

### OrderForm

A press of the button is numbered. `Submit` is `handleSubmit` up to its await,
`SubmitRefused` a press it throws at; `Succeed` and `Fail` are what comes after.
The server may take an order (`Take`) before or after the form has given up on
it, or never see it (`Lose`): `handleOrders` does not look whether the client is
still there, and replies only when the batch of its round has been submitted.
The browser's own checks (`required`, `min`, the disabled button) are in the
guards. A person takes more than a millisecond from one press to the next, which
is what tells two orders apart.

## 3. What is checked

| Run | Instance | Properties |
|---|---|---|
| `MCMatcher` | 4 orders, 3 prices with a tie, `MaxBatch = 2`, `Grain = 3`, a window of 2 entries, fair handlers | `TypeOK`, `AlwaysCrosses`, `PriorityKept`, `NoFillTwice`, `AmountsConserved`, `VolumeAccounts`, `RequestsServed` |
| `MCMarketData` | 4 orders at 3 prices, a window of 2 entries | `BookReplySound`, `DepthReplySound`, `ChartShowsAll`, `ChartSourcesAgree`, `VolumeReplyAddsUp`, `MadeUpOnlyAtFirst` |
| `MCSubmitter` | 2 batches, 1 retrier, 2 attempts each, a node that keeps what it takes | `TypeOK`, `NoBatchLost`, `NoNonceGap`, `QueuedOnce`, `DeliveryKept` |
| `MCSubmitterHostile` | the same with replacement, drops, clearing and a crash, 1 attempt each | `SettledOnce`, `CallsReturn` |
| `MCSettlement` | 4 roots, 3 orders, 2 blocks | `TypeOK`, `LogTellsBatches`, `DisputesFollowBatches`, `UniformBatchesSafe`, `RecordsFinal` |
| `MCPipeline` | 3 orders, `MaxBatch = 1`, keys loaded, 2 attempts | `FillsDelivered`, `FillsSettledOnce`, `ChainFollowsSettlement` |
| `MCTradingSimulator` | 3 starts, 2 loops at a time | `IntervalKept`, `ButtonTellsRunning`, `QuietAfterStop`, `RunningPosts` |
| `MCPanels` | 2 requests at a time, 2 changes of the market, 2 failures, an outage | `QuietPanelTrue`, `NoWayBack`, `SettlesOnMarket`, `OutageTold` |
| `MCOrderForm` | 3 presses, a price and a quantity that are refused, and one of each that are not | `SuccessMeansTaken`, `MessageTellsLast`, `OncePerPress`, `FormAnswers` |
| `MCMatcherPrune` | 3 orders | violates `FillsWithinAmounts` |
| `MCSubmitterRetries` | 2 batches, 2 retriers | violates `NoBatchLost` |
| `MCSettlementIndices` | 4 roots | violates `DisputedBatchesMisordered` |

What the properties say is written above each of them. In short:

- **Matcher.** The loop's `break` and its two skips are dead code
  (`AlwaysCrosses`): the bids are the upper half of a sorted book, so any bid
  crosses any ask. Batches are in priority (`PriorityKept`) by the very
  predicate that `DisputeGame` applies. No fill is made twice, within a round
  or across rounds (`NoFillTwice`). Between rounds every order is accounted for
  (`AmountsConserved`): those in the book have lost just what they traded on
  each side, those that have gone have traded all but an epsilon, give or take
  half a decimal twice per fill. `VolumeAccounts` ties the global volume to all
  batches.
- **Submitter.** With a node that keeps what it takes and one retry at a time,
  no batch is lost (`NoBatchLost`), the queue has no duplicates, the nonces of
  the account never get stuck behind a gap though goroutines are told the same
  ones (`NoNonceGap`), and all of it implements `Delivery` (`DeliveryKept`): a
  batch leaves its call or the queue only when the node has it, calls return, and
  what the node has gets settled, so a batch ends up on chain or in the queue. A
  batch sent again after a lost answer is settled once, also with a node that replaces and drops. The conditions are needed: the
  violation run loses a batch to two retries, and section 6 says how one is lost
  to a replaced transaction. There is one retry call in a behaviour, as those who
  call it call it once; a later second one is not covered. Replaced and never
  mined transactions are switched off in the runs about lost batches (`MCSubmitter`,
  `MCPipeline`): `MCSubmitterHostile` has them, and asks only that calls return and
  that nothing is settled twice.
- **Settlement.** The log tells the whole state; disputes are one per root and
  after its submission; a batch of equal orders is safe.
- **Pipeline.** A fill that has left the book is on its way to the chain,
  queued or settled, unless its batch could not be signed (`FillsDelivered`;
  for that case see section 6). No fill is settled twice, be it by two rounds
  or by attempts repeated after lost answers (`FillsSettledOnce`). The node does
  to the contract what `Settlement` allows (`ChainFollowsSettlement`).
- **Market data.** The hand-written sorts and sums are right at any moment of
  the rounds; the depth chart's own computation gives each point of its grid the
  depth of its price, loses no order at either end (`ChartShowsAll`), and agrees
  with `/depth` as far as the two can. `BookReplySound` has the sides sorted by
  price alone, as the code does; orders of one price come in any order, though
  `web/README.md:71` speaks of price-time priority. Entries of `/volume` add up to
  the total, and are made up only as long as nothing has been traded
  (`MadeUpOnlyAtFirst`), which `Panels` relies on.
- **Panels.** What a panel shows under *Live* while it waits for nothing is what
  the server answered since it was last quiet, never data the panel made up, though
  the error flag belongs to whichever request wrote it last (`QuietPanelTrue`). That
  is not to say it is real: before the first fill the server invents the volume, and
  the property says that the chart shows just that, as live (section 6). An older answer may
  overwrite a newer one only where polls overlap, and takes the panel back no
  further than the beginning of the overlap (`NoWayBack`). When the market rests
  each panel comes to show what the server answers of it, after a fill no invented
  volume (`SettlesOnMarket`). In an outage each says so
  again and again (`OutageTold`), though not all the time: see section 6.
- **Order form.** A success message means the order was taken, once
  (`SuccessMeansTaken`); an error message means nothing of the kind. The message
  is about the last press (`MessageTellsLast`), because the button is disabled
  meanwhile. No press is taken twice and no signature is used twice
  (`OncePerPress`), and the button comes back (`FormAnswers`).
- **Simulator.** See the table. `IntervalKept` needs its condition: without it
  TLC finds the leaked interval of section 6. It exempts just the case that
  endangers it, a restart within two seconds, StrictMode's among them; the other
  properties hold in that case too.

### Bounds

*Matcher.* Four orders give both halves two orders, so each pointer can advance
past an order while the other stays on a partly filled one, and rounds of two
fills are cut off with orders left under both pointers. Ties need two orders of
one price, with equal and different timestamps; both occur. An order survives
into at most two further rounds. `Grain = 3` has a rest that rounds down and one
that rounds up. Terms that are refused are in the instance too. `RequestsServed`
is a liveness property, so no symmetry is used. Deadlock is not checked: when
all requests are answered nothing is left to do.

*Market data.* Four orders make up to three fills, one more than the window of
two, and up to three bids or asks to sort. The prices 1, 2 and 4 lie below, above
and on a grid of 3, so rounding goes both ways; the margin is two points, ten in
the code. The symmetry is that of the orders' names, which nothing compares.

*Submitter.* Two batches are the least that collide on a nonce; a third
transaction comes from the retrier. Two attempts exercise the loop and its end.
Calls end and are not repeated, so the model stops; deadlock is not checked.

*Settlement.* Two blocks, indices 0 and 1 (less, equal, greater), signature
lengths just below and at the limit. Nothing else in the contracts counts.

*Pipeline.* With three orders and rounds of one fill there are two rounds of
different handlers about one order, the least for batches that share an order.
Two attempts allow a batch to be sent again after its answer was lost. One block
is enough, as nothing in `submitBatch` depends on its number.

*Simulator.* `MaxOrders` is 5 as in the code (2 to 5 per loop). Three starts
allow a start, a hasty restart and one more; two slots allow loops to overlap.
A page that is closed after the last start has nothing left to do, so deadlock
is not checked.

*Panels.* Two requests are the least that overlap; `QuietPanelTrue` and `NoWayBack`
are proved for any number, and TLC finds nothing else with three (three million
states, not a run of the project). The first fill comes before the page is opened,
with one of the changes, or never. Two changes of the market let
an older and a newer answer both be out of date. Two failures let the depth chart
fail on both of its URLs, or one poll fail while another succeeds. No state is
without a step, so deadlock is checked.

*Order form.* Three presses: one whose order is late, one refused, one that
follows. Of prices and quantities only zero or not matters. Deadlock is checked
too, as there is always something to type.

### Fairness

- `Matcher!FairSpec`: weak fairness of each handler's own steps. The Go
  scheduler is fair to runnable goroutines and `sync.Mutex` hands itself over
  to a waiter after a millisecond; a round is finite. Weak fairness is enough
  as the number of requests is finite. Nothing makes a request arrive.
- `Submitter!FairSpec`: weak fairness of each call: every call to the node is
  made under a context of two minutes, so it returns. `LiveSpec` adds weak
  fairness of mining, which is an assumption about the chain; it is used for
  `DeliveryKept` alone, whose specification asks the same of calls and of the chain.
- `TradingSimulator!FairSpec`: timers fire, and axios gives a request up after
  three seconds. Nothing makes anyone press the button.
- `Panels!FairSpec`: the interval ticks as long as a slot is free, and each
  request goes on: it is answered, or axios gives it up after three or five
  seconds. As failures without an outage are bounded, requests are answered in
  the end unless the server is gone. The bound is what gives "eventually" a time
  from which on it can hold; it is no claim about networks.
- `OrderForm!FairSpec`: axios ends a request after five seconds at the latest.
  Nothing makes the server take an order or anyone press the button.

## 4. What is proved

| Theorem | States |
|---|---|
| `Matcher_proofs!TypeCorrect`, `LoopNeverBreaks`, `BatchesInPriority`, `FillsUnique` | `TypeOK`, `AlwaysCrosses`, `PriorityKept`, `NoFillTwice` |
| `Matcher_proofs!AmountsAdded`, `VolumeAdded` | `AmountsConserved`, `VolumeAccounts` |
| `Submitter_proofs!TypeCorrect`, `SettlesOnce`, `QueuesOnce` | `TypeOK`, `SettledOnce`, `QueuedOnce`, for any node and any retries |
| `Submitter_proofs!NoncesContinue` | `NoNonceGap` if the node drops nothing |
| `Submitter_proofs!PromiseKept`, `NothingIsLost` | the steps of `DeliveryKept`, and `NoBatchLost`, with at most one retry call and a node that keeps what it takes |
| `Sequencer_proofs!PipelineSubmits` | the pipeline drives `Submitter` as its specification allows |
| `Sequencer_proofs!PipelineDelivers`, `PipelineSettlesOnce`, `PipelineImplementsSettlement` | `FillsDelivered`, `FillsSettledOnce`, `ChainFollowsSettlement` |
| `Sequencer_proofs!BookRepliesSound`, `DepthRepliesSound` | `BookReplySound`, `DepthReplySound` |
| `Sequencer_proofs!ChartComplete`, `ChartSourcesEqual` | `ChartShowsAll`, `ChartSourcesAgree` |
| `Sequencer_proofs!VolumeRepliesAddUp`, `MadeUpAtFirst` | `VolumeReplyAddsUp`, `MadeUpOnlyAtFirst` |
| `Settlement_proofs!TypeCorrect`, `LogIsFaithful`, `DisputesCounted`, `RecordsAreFinal`, `BatchesSafe` | `TypeOK`, `LogTellsBatches`, `DisputesFollowBatches`, `RecordsFinal`, `UniformBatchesSafe` |
| `TradingSimulator_proofs!TypeCorrect`, `ButtonIsRight`, `IntervalsKept` | `TypeOK`, `ButtonTellsRunning`, `IntervalKept` |
| `Panels_proofs!TypeCorrect`, `QuietPanelsTell`, `NoWayFarBack` | `TypeOK`, `QuietPanelTrue`, `NoWayBack` |
| `OrderForm_proofs!TypeCorrect`, `SuccessIsTrue`, `MessageIsLast`, `PressesCount` | `TypeOK`, `SuccessMeansTaken`, `MessageTellsLast`, `OncePerPress` |

They hold for all values of the constants that satisfy the `ASSUME`s of the
modules, which TLC evaluates in the passing runs.

- **Matcher.** None of the properties is inductive. The invariant `IInv` adds
  that an order is in the book once and has both amounts left (`BookInv`); that
  `mu` is held by the one handler in a round (`LockInv`); that in a round the
  two halves share no order, are each in priority, and every bid crosses every
  ask (`HalvesInv`); that an order before a pointer is used up and one from it
  on is not (`PointerInv`); that the fills so far are in priority with each
  other and before all that is still to fill (`FillsInv`); and that each fill,
  of this or an earlier round, has used up one of its two orders in the form
  the fill names (`SpentInv`), from which `NoFillTwice` follows. The rounding
  enters by two facts, `FormatFacts`: what is above the epsilon stays positive,
  what is not stays at or below it.
- **Accounts.** `AmountsConserved` and `VolumeAccounts` speak of the moments
  between rounds. `AccountsInv` says the same within one: of the ledger, which is
  the batches and the fills of the round under way, and of the entries, which are
  the two halves during a round. An iteration adds one fill to the ledger, one
  more drift, and takes its quantity off two entries or removes them.
  `VolumeInv` counts the fills that have gone through `trackVolume`.
- **Sums.** What a fold over a sequence or a set computes needs induction. No
  lemma can take the induction hypothesis as an operator; it is a *set* of
  numbers instead (`Induction`), whose least missing element leads to a
  contradiction. `FoldExists` then shows that the recursive function behind
  `MapThenFoldSet` exists, `RunsUp` and `RunsDown` turn a fold into a list of
  partial results, one per step, and `RunsAgree` compares two.
- **Submitter.** To `NoNonceGap` one has to add that up to the nonce a worker
  *holds* there is no gap either (`HeldNoncesContinue`): a nonce may be read
  long before it is used, and must still continue the others then. That is
  false for a node that drops transactions, hence the assumption. `SettlesOnce` is
  inductive as it stands. The queue has no duplicates as whoever is in it has
  returned (`QueueInv`), and as `RemoveBackward` leaves of a queue only entries of
  it, each once, whichever indices it is given (`RemovalLeavesPart`).
- **Delivery.** The conditions of `PromiseKept` (`OneRetryAssumption`) are those
  of `MCSubmitter`, for any number of batches and attempts: one retry call at most
  (who calls it calls it once; a second call, later, is not covered),
  no `ClearFailedBatches`, a node that keeps what it takes, a process that goes
  on. Each is needed, see sections 3 and 6. The server has no retry at all and
  meets them if its node does. The invariant (`DeliveryInv`) says that whoever waits
  or has succeeded has sent its batch (`SentInv`), that the copy of a retrier is
  still the front of the queue (`CopyInv`), and that what it has noted was sent
  and is in the order of the copy (`NotedInv`). So when it takes the noted places
  out, the highest first, no place below has moved (`RemovalThins`), and
  what leaves the queue has been sent. Each step then is one of `Delivery` or
  none, and nothing that keeps `Delivery`'s promise loses a batch (`NothingLost`).
- **Pipeline.** Each step of the pipeline is one of its submitter or leaves it
  alone (`PipelineSubmits`), so the theorems of `Submitter_proofs` hold there,
  and Matcher's invariant survives the steps around it (`PipelineBook`).
  `HandlerInv` ties the two together: where a handler is and where its call is.
  With `NoBatchLost` it gives `FillsDelivered`; with `NoFillTwice` and
  `SettledOnce`, `FillsSettledOnce`. For the refinement, receipts are ranked by
  their nonces without a gap (`MinedInv`), so one more is the last
  (`RankedAppended`) and moves none of the others in the log.
- **Market data.** An answer is what some listing of the book makes of it
  (`CopiedInv`); the rest is about lists. A pass of the exchange sort rearranges a
  list and puts a lowest of the rest in its place (`PassSorts`); so after pass
  *x* the first *x* entries are in order and none of the others is below
  (`SortSorts`). The two sides list the orders below and above the average
  (`BookLists`), which no bid and ask can share (`SidesApart`), so what is shown
  is the book under other names (`ShownLists`). Depths are sums over sets of
  orders, whatever list they are read from (`OfferedWorth`, `AmountWorth`): those
  of `/depth` grow with the set. The running sums of the chart are highest at the
  last order that reaches a price, which has them all (`DepthAtWorth`). Rounding
  moves a price by half a step (`RoundedNear`) and the last point of the grid is
  less than a step from its end, so a margin of a step and a half is enough
  (`GridEnds`, `GridAssumption`); the code has ten. That no order offers nothing,
  which keeps points from being filtered out, comes from `BookInv`. And the
  average is the same in each listing (`SidesAgree`).
- **Volume.** The entries in the window add up to the total as long as none has
  been dropped (`WindowInv`), which holds in the middle of a round too. So an empty
  window means that nothing has been traded (`MadeUpAtFirst`).
- **Settlement.** The two log properties are proved together, with `PastInv`:
  events lie in the past, and dispute events are about marked roots.
  `RecordsFinal` needs the types alone, `UniformBatchesSafe` is inductive.
- **Simulator.** The two flags agree while the page is mounted, and the
  simulator is stopped when it is not (`FlagsInv`). As long as nobody was
  hasty, a timer is set only while the simulator runs and has no interval yet
  (`TimersInv`).
- **Panels.** Answers on their way are from between `since` and now, and the
  market or invented as the version and the URL have it (`AnswersInv`, `UrlInv`),
  and as long as requests have not overlapped there is one, no
  older than what is shown (`AloneInv`). All ways a poll may end are one lemma
  (`FinishInv`): it brings an answer, or it sets the error.
- **Order form.** An order on its way has not been taken (`WireInv`), and orders
  of which anything is left are valid and of different times (`OrdersInv`). That
  one answer is awaited is `MessageTellsLast` itself.

Only model-checked: all liveness (`RequestsServed`, `CallsReturn`,
the fairness of `DeliveryKept`, `QuietAfterStop`, `RunningPosts`, `SettlesOnMarket`,
`OutageTold`, `FormAnswers`), which is out of the prover's reach under fairness.
Every invariant and every other action property that a passing run checks is a
theorem.

## 5. What is not modelled

What `AggregateBLS` signs and how (only what it answers is modelled), the
parts of `BatchSettlement` that nothing calls (`_decodeBLSCertificate`,
`_calculateSigningStake`, `_verifyBLSSignature`), the AVS stubs (`AVSTaskHook`,
`TaskAVSRegistrar`, `HelloWorld`: no state), the deployment script, the shell
scripts, HTTP and CORS headers, logging, and layout. `EventLog.tsx` invents its
events by a timer and reads nothing, and `wagmi.tsx` configures a connection
that no component uses, so neither has a behaviour the rest depends on. Of the
simulator the prices and quantities it draws are left out. The retry command is a
process of its own: its queue is always empty, so each of its runs does nothing.

## 6. Where code and documents differ

With a run, in `PROJECT.json` "findings": an order may trade more than the larger
of its two amounts (a fill as a bid leaves `takeAmount` as it was, and the order may
be an ask in the next round, and the other way round); batches lost to two retries at a time; a dispute that succeeds
against a batch in order. Without a run of their own, found while modelling:

- `App.tsx:16` says "Random interval 1-2 seconds"; `stop` does not cancel the
  timeout of `start`, so a simulator stopped and started again within two
  seconds, as StrictMode does on every mount, keeps two intervals, of which
  `stop` clears one. The history variable `hasty` marks these behaviours.
- `submitter.go:256` returns success when the wait for a receipt ends in an
  error. Two goroutines may read the same pending nonce at `:197`; where the node
  lets the second transaction replace the first, the first is never mined, its
  wait times out, and its batch is neither on chain nor queued. (`MCSubmitter`
  with `Replaces = TRUE` violates `NoBatchLost` this way.)
- `OrderBook.tsx:26`, `DepthChart.tsx:119` and `VolumeChart.tsx:55` clear the
  error when a poll begins. So during an outage a panel says *Live* over made-up
  or stale data for as long as the poll takes, up to eight seconds of every few,
  where `web/README.md:79` promises error states and `VolumeChart.tsx:156` says
  "Using mock data". An error that an older poll sets after a newer one has
  succeeded stays until the next.
- `DepthChart.tsx:146` spreads sides that are `null` when one is empty, takes
  the exception for a failure of the API and shows made-up data. The branch for
  an empty book (`:45-65`) is never reached that way.
- `OrderForm.tsx:81` gives up after five seconds, the simulator after three;
  `handleOrders` replies after `SubmitBatch`, which waits for the chain. So the
  orders that match are those most likely to be reported as failed, and an order
  that is sent again trades twice.
- `OrderForm.tsx:88` clears what was typed while the request was under way.
- `web/README.md:64` has the user choose buy or sell; the sequencer does not look
  at the side, and the signature (`OrderForm.tsx:52`) does not cover it.
- By `classifyOrderSide` any bid shown is above any ask (`BookReplySound`): the
  ladder of `OrderBook.tsx` is always crossed.
- `web/README.md:11` promises "Real-time on-chain BatchSubmitted events"; those
  of `EventLog.tsx` are invented.
- `cmd/main.go:235` stores the pruned book before `AggregateBLS` runs. When no
  key signs, the fills of the round are nowhere, and the handler replies
  `{"success":true}`, as it does when `SubmitBatch` fails.
- `cmd/main.go:245` says "Use average price for volume tracking"; the price is
  that of the order whose request ran the round, for all its fills.
- `cmd/main.go:107` says "Generate unique ID from order hash"; the id is a
  prefix of the maker and the timestamp, so two orders of one wallet collide.
- `cmd/main.go:131` says "above median = bid"; the code takes the mean.
- `DepthChart.tsx:82` adds bids up from the highest price down, `handleDepth`
  from the lowest up. `ChartSourcesAgree` states what the two have in common.
- `web/README.md:72` promises "24-hour trading volume with hourly breakdown", and
  `VolumeChart.tsx:142` heads the total "Trading Volume (24h)". The total is of all
  fills since the server started and never ages; the entries are the last 24 fills,
  not hours (`main.go:154`, `:165`). No property says what the total should be over
  time, as time is not modelled.
- Before the first fill `main.go:437-440` answers `/volume` with 24 invented entries
  and a total of 45000, and nothing in the answer tells. `VolumeChart.tsx` shows them
  as *Live*, where `web/README.md:79` has mock data for an API that is not available,
  and with the first fill its total falls from 45000 to that of the fill.
- `BatchSettlement.sol:45` describes `BatchSubmissionFailed`, and
  `DisputeGame.sol:67` `DisputeFailed`; each is emitted right before a revert,
  so no log ever has one.
- `DisputeGame.sol:210` wants leaves as in the merkle tree; the matcher's
  leaves are SHA-256 hashes of fills, the contract looks for Keccak hashes of
  orders, so no batch of the matcher can be disputed.
- `BatchSettlement` promises two thirds of the stake; the mock asks for a
  signature of 32 bytes or more.
- `cmd/README.md:92` says "Exponential backoff"; it is linear. `:109` gives 0
  as an example that the code refuses. `:147` says no batch is lost; the queue
  is in memory and ends with the process, and a retry under way while the
  queue is cleared removes what was queued since.

## 7. Plan

1. **Pipeline**: left are an order posted again with the same signature by
   another client, whose batch has a root the chain has seen, and that every request
   gets its reply through the whole of it.
2. **Dashboard**: the form and the simulator post with one key, and the
   simulator dates its orders up to a second ahead; their composition would say
   when two orders of one page can have one signature.
3. **Proofs**: the theorems that go with 1 and 2. The proofs of `Pipeline` assume
   what `Matcher` does, that no two orders have one key; with repeated signatures
   `FillsSettledOnce` has to be stated anew.

## 8. How to run it

    tlc -config MCMatcher.cfg MCMatcher
    tlapm Matcher_proofs.tla

`MCMatcher` takes two minutes, the other runs a minute at most, a proof module a
few minutes.
