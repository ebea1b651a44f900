-------------------------- MODULE Sequencer_proofs --------------------------
(***************************************************************************)
(* Proofs about the sequencer around its order book: what it submits       *)
(* (Pipeline) and what it shows (MarketData), for any orders, any keys and *)
(* any number of attempts.  Matcher's invariant is used as it is proved:   *)
(* the steps added here keep it, and the submitter in the pipeline is the  *)
(* one of Submitter_proofs, without a retry.                               *)
(***************************************************************************)
EXTENDS Pipeline, MarketData, Matcher_proofs

SubP == INSTANCE Submitter_proofs WITH
    Batches <- OrderIds, Retriers <- {}, pc <- worker,
    Replaces <- FALSE, Drops <- FALSE, Clears <- FALSE, Crashes <- FALSE

-----------------------------------------------------------------------------
(* The submitter in the pipeline. *)

LEMMA SubmitterAssumptions ==
    /\ SubP!WorkersAssumption /\ SubP!RetriesAssumption /\ SubP!NodeAssumption
    /\ SubP!OneRetryAssumption
BY RetriesAssumption
   DEF SubP!WorkersAssumption, SubP!RetriesAssumption, SubP!NodeAssumption,
       SubP!OneRetryAssumption

\* Sub and SubP instantiate the same module in the same way.
LEMMA SameParts ==
    /\ \A o : Sub!Root(o) = SubP!Root(o)
    /\ Sub!Settled = SubP!Settled
    /\ \A n : Sub!IsPendingNonce(n) <=> SubP!IsPendingNonce(n)
    /\ \A n : Sub!Accepts(n) <=> SubP!Accepts(n)
    /\ \A o : Sub!Held(o) = SubP!Held(o)
    /\ \A o : Sub!ReceiptOf(o) = SubP!ReceiptOf(o)
    /\ \A o : Sub!AttemptFails(o) <=> SubP!AttemptFails(o)
    /\ \A o : Sub!AttemptSucceeds(o) <=> SubP!AttemptSucceeds(o)
    /\ \A o, label : Sub!Goto(o, label) <=> SubP!Goto(o, label)
<1>1. \A o : Sub!Root(o) = SubP!Root(o)
  BY DEF Sub!Root, SubP!Root
<1>2. Sub!Settled = SubP!Settled
  BY DEF Sub!Settled, SubP!Settled
<1>3. \A n : Sub!IsPendingNonce(n) <=> SubP!IsPendingNonce(n)
  BY DEF Sub!IsPendingNonce, SubP!IsPendingNonce
<1>4. \A n : Sub!Accepts(n) <=> SubP!Accepts(n)
  BY DEF Sub!Accepts, SubP!Accepts, Sub!SameNonce, SubP!SameNonce
<1>5. \A o : Sub!Held(o) = SubP!Held(o)
  BY <1>1 DEF Sub!Held, SubP!Held, Sub!SameNonce, SubP!SameNonce
<1>6. \A o : Sub!ReceiptOf(o) = SubP!ReceiptOf(o)
  BY <1>1 DEF Sub!ReceiptOf, SubP!ReceiptOf
<1>7. \A o, label : Sub!Goto(o, label) <=> SubP!Goto(o, label)
  BY DEF Sub!Goto, SubP!Goto
<1>8. \A o : Sub!AttemptFails(o) <=> SubP!AttemptFails(o)
  BY <1>7 DEF Sub!AttemptFails, SubP!AttemptFails, Sub!retryVars, SubP!retryVars
<1>9. \A o : Sub!AttemptSucceeds(o) <=> SubP!AttemptSucceeds(o)
  BY <1>7 DEF Sub!AttemptSucceeds, SubP!AttemptSucceeds
<1> QED  BY <1>1, <1>2, <1>3, <1>4, <1>5, <1>6, <1>7, <1>8, <1>9

LEMMA SameAttempts == ASSUME NEW o \in OrderIds PROVE Sub!Attempt(o) <=> SubP!Attempt(o)
<1> USE SameParts DEF Sub!retryVars, SubP!retryVars, Sub!nodeVars, SubP!nodeVars
<1>1. Sub!NodeFails(o) <=> SubP!NodeFails(o)
  BY DEF Sub!NodeFails, SubP!NodeFails
<1>2. Sub!ReadNonce(o) <=> SubP!ReadNonce(o)
  <2>1. Sub!Goto(o, "estimate") <=> SubP!Goto(o, "estimate")
    BY SameParts
  <2>2. \A n : Sub!IsPendingNonce(n) <=> SubP!IsPendingNonce(n)
    BY SameParts
  <2>3. Sub!Cardinality(mempool) = SubP!Cardinality(mempool)
    BY DEF Sub!Cardinality, SubP!Cardinality
  <2> QED  BY <2>1, <2>2, <2>3 DEF Sub!ReadNonce, SubP!ReadNonce
<1>3. Sub!EstimateGas(o) <=> SubP!EstimateGas(o)
  BY DEF Sub!EstimateGas, SubP!EstimateGas
<1>4. Sub!EstimateReverts(o) <=> SubP!EstimateReverts(o)
  BY DEF Sub!EstimateReverts, SubP!EstimateReverts
<1>5. Sub!Send(o) <=> SubP!Send(o)
  BY DEF Sub!Send, SubP!Send
<1>6. Sub!SendUnanswered(o) <=> SubP!SendUnanswered(o)
  BY DEF Sub!SendUnanswered, SubP!SendUnanswered
<1>7. Sub!Mined(o) <=> SubP!Mined(o)
  BY DEF Sub!Mined, SubP!Mined
<1>8. Sub!WaitTimesOut(o) <=> SubP!WaitTimesOut(o)
  BY DEF Sub!WaitTimesOut, SubP!WaitTimesOut
<1> QED  BY <1>1, <1>2, <1>3, <1>4, <1>5, <1>6, <1>7, <1>8 DEF Sub!Attempt, SubP!Attempt

LEMMA SameSubmitter ==
    /\ Sub!Init <=> SubP!Init
    /\ \A o \in OrderIds : Sub!Submit(o) <=> SubP!Submit(o)
    /\ \A o \in OrderIds : Sub!SubmitWorker(o) <=> SubP!SubmitWorker(o)
    /\ Sub!Mine <=> SubP!Mine
<1>1. Sub!Init <=> SubP!Init
  BY DEF Sub!Init, SubP!Init, Sub!Workers, SubP!Workers
<1>2. \A o \in OrderIds : Sub!Submit(o) <=> SubP!Submit(o)
  BY DEF Sub!Submit, SubP!Submit, Sub!Goto, SubP!Goto, Sub!retryVars, SubP!retryVars,
         Sub!nodeVars, SubP!nodeVars
<1>3. \A o \in OrderIds : Sub!Enqueue(o) <=> SubP!Enqueue(o)
  BY DEF Sub!Enqueue, SubP!Enqueue, Sub!Goto, SubP!Goto, Sub!retryVars, SubP!retryVars,
         Sub!nodeVars, SubP!nodeVars
<1>4. \A o \in OrderIds : Sub!SubmitWorker(o) <=> SubP!SubmitWorker(o)
  BY <1>3, SameAttempts DEF Sub!SubmitWorker, SubP!SubmitWorker
<1>5. Sub!Mine <=> SubP!Mine
  BY DEF Sub!Mine, SubP!Mine, Sub!Status, SubP!Status, Sub!Settled, SubP!Settled,
         Sub!retryVars, SubP!retryVars
<1> QED  BY <1>1, <1>2, <1>4, <1>5

\* What a step of the pipeline is to the submitter: handing a batch over, going
\* on with it, mining, or nothing.
LEMMA SubmitterSteps ==
    ASSUME [PipelineNext]_pipelineVars
    PROVE  [SubP!Next]_(SubP!vars)
<1> USE DEF submitterVars, SubP!vars, SubP!retryVars, SubP!nodeVars
<1>1. ASSUME NEW o \in OrderIds, HandlerStep(o) \/ AggregateFails(o) \/ Reply(o)
      PROVE  UNCHANGED SubP!vars
  BY <1>1 DEF HandlerStep, AggregateFails, Reply
<1>2. ASSUME NEW o \in OrderIds, AggregateBLS(o) PROVE SubP!Next
  BY <1>2, SameSubmitter DEF AggregateBLS, SubP!Next
<1>3. ASSUME NEW o \in OrderIds, SubmitStep(o) PROVE SubP!Next
  BY <1>3, SameSubmitter DEF SubmitStep, SubP!Next
<1>4. CASE Mine
  BY <1>4, SameSubmitter DEF Mine, SubP!Next
<1>5. CASE UNCHANGED pipelineVars
  BY <1>5 DEF pipelineVars
<1> QED  BY <1>1, <1>2, <1>3, <1>4, <1>5 DEF PipelineNext

\* matcher.go, main.go:254-265: the handlers drive a submitter as Submitter has it,
\* however they interleave.
THEOREM PipelineSubmits == PipelineSpec => SubP!Spec
<1>1. PipelineInit => SubP!Init
  BY SameSubmitter DEF PipelineInit
<1>2. [PipelineNext]_pipelineVars => [SubP!Next]_(SubP!vars)
  BY SubmitterSteps
<1> QED  BY <1>1, <1>2, PTL DEF PipelineSpec, SubP!Spec

-----------------------------------------------------------------------------
(* The order book in the pipeline. *)

\* A handler past the mutex replies: the steps of Pipeline that are not of Matcher.
LEMMA ReplyInv ==
    ASSUME IInv, NEW o \in OrderIds, pc[o] = "matched",
           pc' = [pc EXCEPT ![o] = "replied"],
           UNCHANGED <<posted, orderBook, mu, roundVars, batch, volumeVars>>
    PROVE  IInv'
<1> USE DEF roundVars, volumeVars
<1>1. \A p \in OrderIds :
        /\ pc'[p] = "idle" <=> pc[p] = "idle"
        /\ pc'[p] = "appended" <=> pc[p] = "appended"
        /\ pc'[p] = "matching" <=> pc[p] = "matching"
        /\ pc'[p] = "tracking" <=> pc[p] = "tracking"
  BY DEF IInv, TypeOK
<1>2. TypeOK'
  BY DEF IInv, TypeOK
<1>3. BookInv'
  BY <1>1 DEF IInv, BookInv, TypeOK, Order
<1>4. LockInv'
  BY <1>1 DEF IInv, LockInv
<1>5. RoundInv'
  <2>1. SUFFICES ASSUME \E p \in OrderIds : pc[p] = "matching"
                 PROVE  HalvesInv' /\ PointerInv' /\ FillsInv' /\ StartedInv'
    BY <1>1 DEF RoundInv
  <2>2. HalvesInv'
    <3>1. (\A x \in DOMAIN bids : bids[x] \in Order) /\ (\A x \in DOMAIN asks : asks[x] \in Order)
      BY DEF IInv, TypeOK
    <3> QED  BY <1>1, <2>1, <3>1 DEF IInv, RoundInv, HalvesInv, Order
  <2> QED  BY <2>1, <2>2 DEF IInv, RoundInv, PointerInv, FillsInv, InPriority, StartedInv
<1>6. LiveIds' = LiveIds
  BY <1>1 DEF LiveIds
<1>7. \A id \in OrderIds : Gone(id) => Gone(id)'
  BY <1>1, <1>6 DEF Gone
<1>8. PriorityKept' /\ NoFillTwice'
  BY DEF IInv, PriorityKept, NoFillTwice
<1>9. \A p \in OrderIds : \A k \in DOMAIN batch[p] : Spent(batch[p][k])'
  BY <1>7, BatchFills, SpentStays DEF IInv, SpentInv
<1>10. \A k \in DOMAIN fills : Spent(fills[k]) => Spent(fills[k])'
  BY <1>7, RoundFills, SpentStays DEF IInv
<1>11. SpentInv'
  BY <1>1, <1>9, <1>10 DEF IInv, SpentInv
<1> QED  BY <1>2, <1>3, <1>4, <1>5, <1>8, <1>11 DEF IInv

LEMMA PipelineStepInv == ASSUME IInv, [PipelineNext]_pipelineVars PROVE IInv'
<1>1. ASSUME NEW o \in OrderIds, HandlerStep(o) PROVE IInv'
  BY <1>1, NextInv DEF HandlerStep, Next
<1>2. ASSUME NEW o \in OrderIds, AggregateFails(o) \/ Reply(o) PROVE IInv'
  BY <1>2, ReplyInv DEF AggregateFails, Reply
<1>3. CASE UNCHANGED vars
  BY <1>3, NextInv
<1> QED  BY <1>1, <1>2, <1>3 DEF PipelineNext, AggregateBLS, SubmitStep, Mine, pipelineVars

\* The order book is as Matcher has it also where handlers submit what they matched.
LEMMA PipelineBook == PipelineSpec => []IInv
<1>1. PipelineInit => IInv
  BY InitInv DEF PipelineInit
<1> QED  BY <1>1, PipelineStepInv, PTL DEF PipelineSpec

-----------------------------------------------------------------------------
(* The handlers between the book and the submitter. *)

\* A handler starts its worker when it has signed its batch, and replies when
\* the worker is through or there is nothing signed to submit.
HandlerInv ==
    /\ aggSig \in [OrderIds -> {0, SignatureLength}]
    /\ worker \in [OrderIds -> Sub!Underway \cup {"idle", "exhausted", "ok", "failed"}]
    /\ cleared = {}
    /\ \A o \in OrderIds : worker[o] = "idle" <=> aggSig[o] = 0
    /\ \A o \in OrderIds : worker[o] # "idle" => pc[o] \in {"matched", "replied"}
    /\ \A o \in OrderIds : pc[o] = "replied" /\ batch[o] # <<>> =>
          worker[o] \in {"ok", "failed"} \/ (Keys > 0 /\ aggSig[o] = 0)

LEMMA HandlerInit == PipelineInit => HandlerInv
BY DEF PipelineInit, Init, Sub!Init, Sub!Workers, HandlerInv

\* A handler past the mutex stays past it, and one that replies without a
\* batch has none.
LEMMA HandlerSteps ==
    ASSUME IInv, NEW o \in OrderIds, Post(o) \/ Handler(o)
    PROVE  /\ \A p \in OrderIds : pc[p] \in {"matched", "replied"} =>
                  pc'[p] = pc[p] /\ batch'[p] = batch[p]
           /\ \A p \in OrderIds : pc'[p] = "replied" /\ pc[p] # "replied" => batch'[p] = <<>>
<1>1. CASE Post(o) \/ StartMatch(o)
  <2>1. /\ pc[o] \in {"idle", "appended"} /\ batch' = batch
        /\ \E label \in {"appended", "matching"} : pc' = [pc EXCEPT ![o] = label]
    BY <1>1 DEF Post, StartMatch
  <2> QED  BY <2>1 DEF IInv, TypeOK
<1>2. CASE NotEnoughOrders(o)
  BY <1>2 DEF NotEnoughOrders, IInv, TypeOK, SpentInv
<1>3. CASE Iterate(o) \/ TrackVolume(o)
  BY <1>3 DEF Iterate, TrackVolume
<1>4. CASE FinishMatch(o)
  BY <1>4 DEF FinishMatch, IInv, TypeOK
<1>5. CASE Unlock(o)
  BY <1>5 DEF Unlock, IInv, TypeOK
<1> QED  BY <1>1, <1>2, <1>3, <1>4, <1>5 DEF Handler

\* What a step of a worker does to it.
LEMMA WorkerSteps ==
    ASSUME HandlerInv, NEW o \in OrderIds, Sub!SubmitWorker(o)
    PROVE  /\ worker[o] \in Sub!Underway \cup {"exhausted"}
           /\ \E label \in Sub!Underway \cup {"exhausted", "ok", "failed"} :
                 worker' = [worker EXCEPT ![o] = label]
           /\ cleared' = cleared
<1> USE DEF Sub!Goto, Sub!Underway, Sub!AttemptFails, Sub!AttemptSucceeds
<1>1. CASE Sub!NodeFails(o) \/ Sub!EstimateReverts(o) \/ Sub!SendUnanswered(o)
  <2>1. Sub!AttemptFails(o) /\ worker[o] \in Sub!Underway
    BY <1>1 DEF Sub!NodeFails, Sub!EstimateReverts, Sub!SendUnanswered
  <2> QED  BY <2>1
<1>2. CASE Sub!ReadNonce(o) \/ Sub!EstimateGas(o) \/ Sub!Send(o)
  BY <1>2 DEF Sub!ReadNonce, Sub!EstimateGas, Sub!Send
<1>3. CASE Sub!Mined(o) \/ Sub!WaitTimesOut(o)
  <2>1. (Sub!AttemptFails(o) \/ Sub!AttemptSucceeds(o)) /\ worker[o] \in Sub!Underway
    BY <1>3 DEF Sub!Mined, Sub!WaitTimesOut
  <2> QED  BY <2>1
<1>4. CASE Sub!Enqueue(o)
  BY <1>4 DEF Sub!Enqueue
<1> QED  BY <1>1, <1>2, <1>3, <1>4 DEF Sub!SubmitWorker, Sub!Attempt

LEMMA HandlerStepInv ==
    ASSUME IInv, HandlerInv, [PipelineNext]_pipelineVars PROVE HandlerInv'
<1> USE DEF submitterVars
<1>1. ASSUME NEW o \in OrderIds, HandlerStep(o) PROVE HandlerInv'
  <2>1. Post(o) \/ Handler(o)
    BY <1>1 DEF HandlerStep
  <2>2. UNCHANGED <<aggSig, worker, cleared>>
    BY <1>1 DEF HandlerStep
  <2> QED  BY <2>1, <2>2, HandlerSteps DEF HandlerInv
<1>2. ASSUME NEW o \in OrderIds, AggregateBLS(o) PROVE HandlerInv'
  <2>1. /\ pc[o] = "matched" /\ UNCHANGED <<pc, batch, cleared>>
        /\ aggSig' = [aggSig EXCEPT ![o] = SignatureLength]
        /\ worker[o] = "idle" /\ worker' = [worker EXCEPT ![o] = "attempt"]
    BY <1>2 DEF AggregateBLS, vars, Sub!Submit, Sub!Goto
  <2>2. SignatureLength # 0
    BY DEF SignatureLength, MockLength, PointLength
  <2> QED  BY <2>1, <2>2 DEF HandlerInv, Sub!Underway
<1>3. ASSUME NEW o \in OrderIds, AggregateFails(o) PROVE HandlerInv'
  BY <1>3 DEF AggregateFails, HandlerInv, IInv, TypeOK
<1>4. ASSUME NEW o \in OrderIds, SubmitStep(o) PROVE HandlerInv'
  <2>1. UNCHANGED <<pc, batch, aggSig>>
    BY <1>4 DEF SubmitStep, vars
  <2>2. PICK label \in Sub!Underway \cup {"exhausted", "ok", "failed"} :
            worker' = [worker EXCEPT ![o] = label]
    BY <1>4, WorkerSteps DEF SubmitStep
  <2>3. worker[o] \in Sub!Underway \cup {"exhausted"} /\ cleared' = cleared
    BY <1>4, WorkerSteps DEF SubmitStep
  <2> QED  BY <2>1, <2>2, <2>3 DEF HandlerInv, Sub!Underway
<1>5. ASSUME NEW o \in OrderIds, Reply(o) PROVE HandlerInv'
  BY <1>5 DEF Reply, HandlerInv, IInv, TypeOK
<1>6. CASE Mine
  BY <1>6 DEF Mine, Sub!Mine, vars, HandlerInv
<1>7. CASE UNCHANGED pipelineVars
  BY <1>7 DEF pipelineVars, vars, HandlerInv
<1> QED  BY <1>1, <1>2, <1>3, <1>4, <1>5, <1>6, <1>7 DEF PipelineNext

LEMMA HandlersInductive == PipelineSpec => [](IInv /\ HandlerInv)
<1>1. PipelineInit => HandlerInv
  BY HandlerInit
<1>2. IInv /\ HandlerInv /\ [PipelineNext]_pipelineVars => HandlerInv'
  BY HandlerStepInv
<1> QED  BY <1>1, <1>2, PipelineBook, PTL DEF PipelineSpec

-----------------------------------------------------------------------------
(* Nothing lost, nothing twice, from the book to the chain. *)

\* main.go:236-265: whatever the handlers, the submitter and the node do, fills
\* the book has forgotten are with their handler, the submitter or the node, in
\* the queue or settled, unless their batch could not be signed.
THEOREM PipelineDelivers == PipelineSpec => []FillsDelivered
<1>1. PipelineSpec => []SubP!NoBatchLost
  BY PipelineSubmits, SubmitterAssumptions, SubP!NothingIsLost, PTL
<1>2. IInv /\ HandlerInv /\ SubP!NoBatchLost => FillsDelivered
  <2> SUFFICES ASSUME HandlerInv, SubP!NoBatchLost, NEW o \in OrderIds,
                      pc[o] \in {"matched", "replied"}, batch[o] # <<>>
               PROVE  \/ pc[o] = "matched"
                           /\ worker[o] \in {"idle"} \cup Sub!Underway \cup {"exhausted"}
                      \/ Sub!Pending(o) \/ Sub!InQueue(o) \/ o \in Sub!Settled
                      \/ Keys > 0 /\ aggSig[o] = 0
    BY DEF FillsDelivered
  <2>1. CASE worker[o] \in {"ok", "failed"}
    <3>1. SubP!InQueue(o) \/ SubP!Pending(o) \/ o \in SubP!Settled
      BY <2>1 DEF SubP!NoBatchLost, SubP!Underway, HandlerInv
    <3> QED  BY <3>1 DEF SubP!InQueue, Sub!InQueue, SubP!Pending, Sub!Pending,
                         SubP!Settled, Sub!Settled
  <2>2. CASE worker[o] \notin {"ok", "failed"}
    BY <2>2 DEF HandlerInv
  <2> QED  BY <2>1, <2>2
<1> QED  BY <1>1, <1>2, HandlersInductive, PTL

\* What has been mined are batches, each settled once.
ReceiptsInv == SubP!TypeOK /\ SubP!SettledOnce

LEMMA ReceiptsInductive == PipelineSpec => []ReceiptsInv
<1>1. SubP!Spec => []SubP!TypeOK
  BY SubP!TypeCorrect, SubmitterAssumptions
<1>2. SubP!Spec => []SubP!SettledOnce
  BY SubP!SettlesOnce, SubmitterAssumptions
<1> QED  BY <1>1, <1>2, PipelineSubmits, PTL DEF ReceiptsInv

\* matcher.go:287-335, submitter.go:144-159: no fill is settled twice.  In one
\* batch there are no two alike, two batches have none in common, and no batch
\* is settled twice.
THEOREM PipelineSettlesOnce == PipelineSpec => []FillsSettledOnce
<1>1. IInv /\ ReceiptsInv => FillsSettledOnce
  <2> SUFFICES ASSUME IInv, ReceiptsInv, NEW r \in receipts, NEW s \in receipts,
                      r.status = 1, s.status = 1, r # s
               PROVE  FillsOf(r.root) \cap FillsOf(s.root) = {}
    BY DEF FillsSettledOnce
  <2>1. r.root \in OrderIds /\ s.root \in OrderIds /\ r.root # s.root
    BY DEF ReceiptsInv, SubP!TypeOK, SubP!SettledOnce
  <2>2. \A o \in OrderIds : \A k \in DOMAIN batch[o] : k \in 1 .. Len(batch[o])
    BY BatchFills DEF IInv
  <2> QED  BY <2>1, <2>2 DEF FillsOf, IInv, NoFillTwice
<1> QED  BY <1>1, HandlersInductive, ReceiptsInductive, PTL

-----------------------------------------------------------------------------
(* Transactions in the order of their nonces. *)

Below(S, r) == {s \in S : s.nonce < r.nonce}

\* S has a transaction of every rank.
Ranked(S) ==
    /\ IsFiniteSet(S)
    /\ \A r \in S : r.nonce \in Nat
    /\ \A r, s \in S : r.nonce = s.nonce => r = s
    /\ \A k \in 1 .. Cardinality(S) : \E r \in S : Cardinality(Below(S, r)) = k - 1

LEMMA RankUnique ==
    ASSUME NEW S, Ranked(S), NEW r \in S, NEW s \in S,
           Cardinality(Below(S, r)) = Cardinality(Below(S, s))
    PROVE  r = s
<1>1. ASSUME NEW x \in S, NEW y \in S, x.nonce < y.nonce
      PROVE  Cardinality(Below(S, x)) # Cardinality(Below(S, y))
  <2>1. IsFiniteSet(Below(S, y))
    BY FS_Subset DEF Ranked, Below
  <2>2. Below(S, x) \subseteq Below(S, y) /\ x \in Below(S, y) /\ x \notin Below(S, x)
    BY <1>1 DEF Ranked, Below
  <2> QED  BY <2>1, <2>2, FS_Subset
<1>2. r.nonce < s.nonce \/ s.nonce < r.nonce \/ r.nonce = s.nonce
  BY DEF Ranked
<1> QED  BY <1>1, <1>2 DEF Ranked

LEMMA NthFacts ==
    ASSUME NEW S, Ranked(S), NEW k \in 1 .. Cardinality(S)
    PROVE  /\ Nth(S, k) \in S /\ Cardinality(Below(S, Nth(S, k))) = k - 1
           /\ \A r \in S : Cardinality(Below(S, r)) = k - 1 => r = Nth(S, k)
<1>1. Nth(S, k) = CHOOSE r \in S : Cardinality(Below(S, r)) = k - 1
  BY DEF Nth, Below
<1>2. Nth(S, k) \in S /\ Cardinality(Below(S, Nth(S, k))) = k - 1
  BY <1>1 DEF Ranked
<1> QED  BY <1>2, RankUnique

\* A transaction after all the others is the last one and moves none of them.
LEMMA RankedAppended ==
    ASSUME NEW S, Ranked(S), NEW new, new.nonce \in Nat,
           \A r \in S : r.nonce < new.nonce, NEW T, T = S \cup {new}
    PROVE  /\ Ranked(T) /\ Cardinality(T) = Cardinality(S) + 1
           /\ Nth(T, Cardinality(T)) = new
           /\ \A k \in 1 .. Cardinality(S) : Nth(T, k) = Nth(S, k)
<1>1. IsFiniteSet(S) /\ Cardinality(S) \in Nat /\ new \notin S
  BY FS_CardinalityType DEF Ranked
<1>2. IsFiniteSet(T) /\ Cardinality(T) = Cardinality(S) + 1
  BY <1>1, FS_AddElement
<1>3. \A r \in S : Below(T, r) = Below(S, r)
  BY DEF Below, Ranked
<1>4. Below(T, new) = S
  BY DEF Below
<1>5. Ranked(T)
  <2>1. \A k \in 1 .. Cardinality(T) : \E r \in T : Cardinality(Below(T, r)) = k - 1
    <3> SUFFICES ASSUME NEW k \in 1 .. Cardinality(T)
                 PROVE  \E r \in T : Cardinality(Below(T, r)) = k - 1
      OBVIOUS
    <3>1. CASE k = Cardinality(T)
      BY <1>1, <1>2, <1>4, <3>1
    <3>2. CASE k \in 1 .. Cardinality(S)
      <4>1. PICK r \in S : Cardinality(Below(S, r)) = k - 1
        BY <3>2 DEF Ranked
      <4>2. r \in T /\ Below(T, r) = Below(S, r)
        BY <1>3
      <4>3. Cardinality(Below(T, r)) = k - 1
        BY <4>1, <4>2
      <4> QED  BY <4>2, <4>3
    <3>3. k = Cardinality(T) \/ k \in 1 .. Cardinality(S)
      BY <1>1, <1>2
    <3> QED  BY <3>1, <3>2, <3>3
  <2>2. \A r, s \in T : r.nonce = s.nonce => r = s
    BY DEF Ranked
  <2> QED  BY <1>2, <2>1, <2>2 DEF Ranked
<1>6. Nth(T, Cardinality(T)) = new
  <2>1. Cardinality(T) \in 1 .. Cardinality(T) /\ Cardinality(Below(T, new)) = Cardinality(T) - 1
    BY <1>1, <1>2, <1>4
  <2> QED  BY <1>5, <2>1, NthFacts
<1>7. ASSUME NEW k \in 1 .. Cardinality(S) PROVE Nth(T, k) = Nth(S, k)
  <2>1. Nth(S, k) \in S /\ Cardinality(Below(S, Nth(S, k))) = k - 1
    BY NthFacts
  <2>2. k \in 1 .. Cardinality(T)
    BY <1>1, <1>2
  <2>3. \A r \in T : Cardinality(Below(T, r)) = k - 1 => r = Nth(T, k)
    BY <1>5, <2>2, NthFacts
  <2> QED  BY <1>3, <2>1, <2>3
<1> QED  BY <1>2, <1>5, <1>6, <1>7

-----------------------------------------------------------------------------
(* The chain of the pipeline is the contract of Settlement. *)

MinedInv ==
    /\ nextNonce \in Nat
    /\ \A r \in receipts : r.nonce < nextNonce
    /\ Ranked(receipts) /\ Ranked(SettledReceipts)

LEMMA MinedInit == PipelineInit => MinedInv /\ Chain!Init
<1> SUFFICES ASSUME PipelineInit PROVE MinedInv /\ Chain!Init
  OBVIOUS
<1>1. receipts = {} /\ nextNonce = 0 /\ SettledReceipts = {}
  BY DEF PipelineInit, Sub!Init, SettledReceipts
<1>2. Ranked({})
  BY FS_EmptySet DEF Ranked
<1>3. Cardinality(SettledReceipts) = 0
  BY <1>1, FS_EmptySet
<1>4. ChainLog = <<>>
  BY <1>3 DEF ChainLog
<1>5. ChainRoots = [o \in OrderIds |-> 0]
  BY <1>1 DEF ChainRoots, Sub!Settled
<1>6. ChainReceipt = [call |-> "none"]
  BY <1>1 DEF ChainReceipt
<1> QED  BY <1>1, <1>2, <1>3, <1>4, <1>5, <1>6 DEF MinedInv, Chain!Init, Chain!NoCall

LEMMA MineFollows ==
    ASSUME ReceiptsInv, MinedInv, Mine
    PROVE  MinedInv' /\ Chain!Next
<1>1. PICK tx \in mempool :
          /\ tx.nonce = nextNonce
          /\ receipts' = receipts \cup {[nonce |-> tx.nonce, root |-> tx.root,
                                         status |-> Sub!Status(tx.root)]}
  BY DEF Mine, Sub!Mine
<1> DEFINE root == tx.root
           new == [nonce |-> nextNonce, root |-> root, status |-> Sub!Status(root)]
           n == Cardinality(SettledReceipts)
<1>2. /\ root \in OrderIds /\ nextNonce \in Nat /\ nextNonce' = nextNonce + 1
      /\ receipts' = receipts \cup {new}
  BY <1>1 DEF Mine, Sub!Mine, ReceiptsInv, SubP!TypeOK, MinedInv
<1>3. /\ new.nonce = nextNonce /\ new.root = root /\ new.status = Sub!Status(root)
      /\ \A r \in receipts : r.nonce \in Nat /\ r.nonce < new.nonce
  BY DEF MinedInv, Ranked
<1> HIDE DEF new, root
<1>4. Ranked(receipts') /\ Nth(receipts', Cardinality(receipts')) = new
  BY <1>2, <1>3, RankedAppended DEF MinedInv
<1>5. \A r \in receipts' : r.nonce < nextNonce'
  BY <1>2, <1>3
<1>6. ChainReceipt' = [call |-> "submitBatch", root |-> root,
                       error |-> IF new.status = 1 THEN "none" ELSE "DuplicateBatchRoot"]
  BY <1>2, <1>3, <1>4 DEF ChainReceipt
<1>7. CASE root \in Sub!Settled
  <2>1. new.status = 0
    BY <1>3, <1>7 DEF Sub!Status
  <2>2. SettledReceipts' = SettledReceipts
    BY <1>2, <2>1 DEF SettledReceipts
  <2>3. ChainRoots' = ChainRoots /\ ChainLog' = ChainLog /\ ChainRoots[root] = 1
    <3>1. Sub!Settled' = Sub!Settled
      BY <2>2 DEF Sub!Settled, SettledReceipts
    <3> QED  BY <1>2, <1>7, <2>2, <3>1 DEF ChainRoots, ChainLog
  <2>4. MinedInv'
    BY <1>2, <1>4, <1>5, <2>2 DEF MinedInv
  <2>5. Chain!SubmitError(root, 1, SignatureLength) = "DuplicateBatchRoot"
    BY <2>3 DEF Chain!SubmitError
  <2>6. Chain!SubmitBatchReverts(root, 1, SignatureLength)
    BY <1>6, <2>1, <2>2, <2>3, <2>5
       DEF Chain!SubmitBatchReverts, Chain!settlementVars, Chain!disputeVars
  <2> QED  BY <1>2, <2>4, <2>6 DEF Chain!Next, Chain!Submission
<1>8. CASE root \notin Sub!Settled
  <2>1. new.status = 1
    BY <1>3, <1>8 DEF Sub!Status
  <2>2. SettledReceipts' = SettledReceipts \cup {new}
    BY <1>2, <2>1 DEF SettledReceipts
  <2>3. /\ Ranked(SettledReceipts') /\ Cardinality(SettledReceipts)' = n + 1
        /\ Nth(SettledReceipts', n + 1) = new
        /\ \A k \in 1 .. n : Nth(SettledReceipts', k) = Nth(SettledReceipts, k)
    <3>1. \A r \in SettledReceipts : r.nonce < new.nonce
      BY <1>3 DEF SettledReceipts
    <3>2. Ranked(SettledReceipts) /\ new.nonce \in Nat
      BY <1>2, <1>3 DEF MinedInv
    <3> HIDE DEF n
    <3>3. /\ Ranked(SettledReceipts')
          /\ Cardinality(SettledReceipts') = Cardinality(SettledReceipts) + 1
          /\ Nth(SettledReceipts', Cardinality(SettledReceipts')) = new
      BY <2>2, <3>1, <3>2, RankedAppended
    <3>4. ASSUME NEW k \in 1 .. Cardinality(SettledReceipts)
          PROVE  Nth(SettledReceipts', k) = Nth(SettledReceipts, k)
      BY <2>2, <3>1, <3>2, RankedAppended
    <3> QED  BY <3>3, <3>4 DEF n
  <2>4. n \in Nat
    BY FS_CardinalityType DEF MinedInv, Ranked
  <2> HIDE DEF n
  <2>5. MinedInv'
    BY <1>2, <1>4, <1>5, <2>3 DEF MinedInv
  <2>6. ChainRoots' = [ChainRoots EXCEPT ![root] = 1] /\ ChainRoots[root] = 0
    <3>1. \A o : o \in Sub!Settled' <=> o \in Sub!Settled \/ o = root
      BY <1>3, <2>2 DEF Sub!Settled, SettledReceipts
    <3> QED  BY <1>2, <1>8, <3>1 DEF ChainRoots
  <2>7. ChainLog' = Append(ChainLog, [event |-> "BatchSubmitted", root |-> root,
                                      blockNumber |-> 1, batchId |-> n + 1])
    <3> DEFINE entry(r, k) == [event |-> "BatchSubmitted", root |-> r.root,
                               blockNumber |-> 1, batchId |-> k]
    <3>1. ChainLog' = [k \in 1 .. n + 1 |-> entry(Nth(SettledReceipts', k), k)]
      BY <2>3 DEF ChainLog
    <3>2. ChainLog = [k \in 1 .. n |-> entry(Nth(SettledReceipts, k), k)]
      BY DEF ChainLog, n
    <3> HIDE DEF entry
    <3>3. Append(ChainLog, entry(new, n + 1)) =
              [k \in 1 .. n + 1 |-> IF k <= n THEN ChainLog[k] ELSE entry(new, n + 1)]
      BY <2>4, <3>2
    <3>4. ChainLog' = Append(ChainLog, entry(new, n + 1))
      BY <2>3, <2>4, <3>1, <3>2, <3>3
    <3> QED  BY <1>3, <3>4 DEF entry
  <2>8. Chain!SubmitError(root, 1, SignatureLength) = "none"
    BY <2>6 DEF Chain!SubmitError, Chain!VerifyBLSQuorum, SignatureLength, MockLength,
                PointLength
  <2>9. Chain!SubmitBatch(root, 1, SignatureLength)
    BY <1>6, <2>1, <2>3, <2>6, <2>7, <2>8 DEF Chain!SubmitBatch, Chain!disputeVars, n
  <2> QED  BY <1>2, <2>5, <2>9 DEF Chain!Next, Chain!Submission
<1> QED  BY <1>7, <1>8

LEMMA ChainSteps ==
    ASSUME ReceiptsInv, MinedInv, [PipelineNext]_pipelineVars
    PROVE  MinedInv' /\ [Chain!Next]_(Chain!vars)
<1>1. CASE Mine
  BY <1>1, MineFollows
<1>2. CASE UNCHANGED <<receipts, nextNonce>>
  <2>1. SettledReceipts' = SettledReceipts /\ Sub!Settled' = Sub!Settled
    BY <1>2 DEF SettledReceipts, Sub!Settled
  <2>2. ChainRoots' = ChainRoots /\ ChainLog' = ChainLog /\ ChainReceipt' = ChainReceipt
    BY <1>2, <2>1 DEF ChainRoots, ChainLog, ChainReceipt
  <2> QED  BY <1>2, <2>1, <2>2
              DEF MinedInv, Chain!vars, Chain!settlementVars, Chain!disputeVars
<1>3. Mine \/ UNCHANGED <<receipts, nextNonce>>
  <2>1. \A o : Sub!Attempt(o) => UNCHANGED <<receipts, nextNonce>>
    BY DEF Sub!Attempt, Sub!NodeFails, Sub!ReadNonce, Sub!EstimateGas, Sub!EstimateReverts,
           Sub!Send, Sub!SendUnanswered, Sub!Mined, Sub!WaitTimesOut, Sub!nodeVars
  <2> QED  BY <2>1 DEF PipelineNext, HandlerStep, AggregateBLS, AggregateFails, SubmitStep,
                       Reply, Sub!Submit, Sub!SubmitWorker, Sub!Enqueue, Sub!nodeVars,
                       submitterVars, pipelineVars
<1> QED  BY <1>1, <1>2, <1>3

\* submitter.go:222-258 with BatchSettlement.sol:80-110: every step of the pipeline
\* is a call of submitBatch as the contract's specification has it, or none.
THEOREM PipelineImplementsSettlement == PipelineSpec => ChainFollowsSettlement
<1>1. PipelineInit => MinedInv /\ Chain!Init
  BY MinedInit
<1>2. ReceiptsInv /\ MinedInv /\ [PipelineNext]_pipelineVars =>
          MinedInv' /\ [Chain!Next]_(Chain!vars)
  BY ChainSteps
<1> QED  BY <1>1, <1>2, ReceiptsInductive, PTL
            DEF PipelineSpec, ChainFollowsSettlement, Chain!Spec

-----------------------------------------------------------------------------
(* What the exchange sort does to a list. *)

Rearranges(t, s, n) == \E f \in Bijection(1 .. n, 1 .. n) : t = [k \in 1 .. n |-> s[f[k]]]

LEMMA RearrangesSelf ==
    ASSUME NEW n, NEW D, NEW s \in [1 .. n -> D] PROVE Rearranges(s, s, n)
<1> DEFINE f == [k \in 1 .. n |-> k]
<1>1. f \in [1 .. n -> 1 .. n] /\ \A k \in 1 .. n : f[k] = k
  OBVIOUS
<1>2. s = [k \in 1 .. n |-> s[f[k]]]
  OBVIOUS
<1> HIDE DEF f
<1>3. f \in Bijection(1 .. n, 1 .. n)
  <2>1. \A a, b \in 1 .. n : f[a] = f[b] => a = b
    BY <1>1
  <2>2. \A b \in 1 .. n : \E a \in 1 .. n : f[a] = b
    BY <1>1
  <2> QED  BY <1>1, <2>1, <2>2, BijFacts
<1> QED  BY <1>2, <1>3 DEF Rearranges

LEMMA RearrangesBoth ==
    ASSUME NEW n, NEW s, NEW t, NEW u, Rearranges(t, s, n), Rearranges(u, t, n)
    PROVE  Rearranges(u, s, n)
<1>1. PICK f \in Bijection(1 .. n, 1 .. n) : t = [k \in 1 .. n |-> s[f[k]]]
  BY DEF Rearranges
<1>2. PICK g \in Bijection(1 .. n, 1 .. n) : u = [k \in 1 .. n |-> t[g[k]]]
  BY DEF Rearranges
<1> DEFINE h == [k \in 1 .. n |-> f[g[k]]]
<1>3. h \in Bijection(1 .. n, 1 .. n)
  BY BijBoth
<1>4. u = [k \in 1 .. n |-> s[h[k]]]
  <2>1. g \in [1 .. n -> 1 .. n]
    BY BijFacts
  <2> QED  BY <1>1, <1>2, <2>1
<1> HIDE DEF h
<1> QED  BY <1>3, <1>4 DEF Rearranges

LEMMA SwapRearranges ==
    ASSUME NEW n, NEW D, NEW s \in [1 .. n -> D], NEW x \in 1 .. n, NEW y \in 1 .. n
    PROVE  /\ Swapped(s, x, y) \in [1 .. n -> D]
           /\ Rearranges(Swapped(s, x, y), s, n)
           /\ Swapped(s, x, y)[x] = s[y] /\ Swapped(s, x, y)[y] = s[x]
           /\ \A k \in 1 .. n : k # x /\ k # y => Swapped(s, x, y)[k] = s[k]
<1> DEFINE f == [k \in 1 .. n |-> IF k = x THEN y ELSE IF k = y THEN x ELSE k]
<1>1. f \in [1 .. n -> 1 .. n] /\ \A k \in 1 .. n : f[f[k]] = k
  OBVIOUS
<1>2. Swapped(s, x, y) = [k \in 1 .. n |-> s[f[k]]]
  BY DEF Swapped
<1>3. /\ f[x] = y /\ f[y] = x
      /\ \A k \in 1 .. n : k # x /\ k # y => f[k] = k
  OBVIOUS
<1> HIDE DEF f
<1>4. f \in Bijection(1 .. n, 1 .. n)
  <2>1. \A a, b \in 1 .. n : f[a] = f[b] => a = b
    BY <1>1
  <2>2. \A b \in 1 .. n : \E a \in 1 .. n : f[a] = b
    BY <1>1
  <2> QED  BY <1>1, <2>1, <2>2, BijFacts
<1>5. Rearranges(Swapped(s, x, y), s, n)
  BY <1>2, <1>4 DEF Rearranges
<1> QED  BY <1>1, <1>2, <1>3, <1>5

PassStep(n, D, rank, x) ==
    [k \in 1 .. n - x |-> [t \in [1 .. n -> D] |->
        IF rank[t[x]] > rank[t[x + k]] THEN Swapped(t, x, x + k) ELSE t]]

LEMMA PassRuns ==
    ASSUME NEW n \in Nat, NEW D, NEW rank \in [D -> Int], NEW s \in [1 .. n -> D],
           NEW x \in 1 .. n
    PROVE  \E P : /\ Runs(P, n - x, [1 .. n -> D], s, PassStep(n, D, rank, x))
                  /\ Pass(s, x, rank) = P[n - x]
<1> DEFINE m == n - x
           R == [1 .. n -> D]
           pos == Positions(x + 1, Len(s))
           step == PassStep(n, D, rank, x)
           Rec(F) == [S \in SUBSET (1 .. m) |-> IF S = {} THEN s
                         ELSE IF rank[F[S \ {Max(S)}][x]] > rank[F[S \ {Max(S)}][pos[Max(S)]]]
                              THEN Swapped(F[S \ {Max(S)}], x, pos[Max(S)])
                              ELSE F[S \ {Max(S)}]]
           iter == CHOOSE F : F = Rec(F)
<1>1. m \in Nat /\ DOMAIN pos = 1 .. m /\ \A k \in 1 .. m : pos[k] = x + k /\ x + k \in 1 .. n
  <2>1. Len(s) = n
    OBVIOUS
  <2> QED  BY <2>1 DEF Positions
<1>2. Pass(s, x, rank) = iter[1 .. m]
  <2> HIDE DEF m, pos
  <2> QED  BY <1>1 DEF Pass, FoldLeft, MapThenFoldSet, pos
<1>3. \A k \in 1 .. m, t \in R :
         /\ step[k][t] = IF rank[t[x]] > rank[t[pos[k]]] THEN Swapped(t, x, pos[k]) ELSE t
         /\ step[k][t] \in R
  BY <1>1, SwapRearranges DEF PassStep
<1> HIDE DEF m, pos, step
<1>4. CanRun(m, R, s, step)
  BY <1>1, <1>3 DEF CanRun
<1> HIDE DEF R
<1>5. PICK F : FoldOf(F, 1 .. m, R, s, Highest(m), step)
  BY <1>4, CanFoldPlaces
<1>6. ASSUME NEW S \in SUBSET (1 .. m), S # {}
      PROVE  Highest(m)[S] = Max(S) /\ Max(S) \in 1 .. m /\ S \ {Max(S)} \in SUBSET (1 .. m)
  BY <1>1, <1>6, MaxFacts DEF Highest
<1>7. F = Rec(F)
  <2>1. ASSUME NEW S \in SUBSET (1 .. m), S # {} PROVE F[S] = Rec(F)[S]
    <3>1. F[S] = step[Max(S)][F[S \ {Max(S)}]]
      BY <1>5, <1>6, <2>1 DEF FoldOf, IsFold
    <3>2. F[S \ {Max(S)}] \in R /\ Max(S) \in 1 .. m
      BY <1>5, <1>6, <2>1 DEF FoldOf
    <3> QED  BY <1>3, <2>1, <3>1, <3>2
  <2>2. F[{}] = s
    BY <1>5 DEF FoldOf, IsFold
  <2>3. F = [S \in SUBSET (1 .. m) |-> F[S]]
    BY <1>5 DEF FoldOf
  <2> QED  BY <2>1, <2>2, <2>3
<1>8. iter = Rec(iter)
  <2> HIDE DEF Rec
  <2> QED  BY <1>7
<1> HIDE DEF iter
<1>9. Follows(iter, 1 .. m, R, s, Highest(m), step)
  <2>1. iter[{}] = s
    BY <1>8
  <2>2. ASSUME NEW S \in SUBSET (1 .. m), S # {}, iter[S \ {Highest(m)[S]}] \in R
        PROVE  iter[S] = step[Highest(m)[S]][iter[S \ {Highest(m)[S]}]]
    <3>1. Highest(m)[S] = Max(S) /\ Max(S) \in 1 .. m
      BY <1>6, <2>2
    <3>2. iter[S] = Rec(iter)[S]
      <4> HIDE DEF Rec
      <4> QED  BY <1>8
    <3>3. Rec(iter)[S] = step[Max(S)][iter[S \ {Max(S)}]]
      BY <1>3, <2>2, <3>1
    <3> HIDE DEF Rec
    <3> QED  BY <3>1, <3>2, <3>3
  <2> QED  BY <2>1, <2>2 DEF Follows
<1>10. \E P : Runs(P, m, R, s, step) /\ iter[1 .. m] = P[m]
  BY <1>4, <1>9, RunsUp
<1> QED  BY <1>2, <1>10 DEF m, R, step

\* A pass leaves what is before x and puts a lowest of the others at x.
Passed(t, s, n, rank, x) ==
    /\ Rearranges(t, s, n)
    /\ \A a \in 1 .. n : a < x => t[a] = s[a]
    /\ \A b \in x .. n : \E c \in x .. n : t[b] = s[c]
    /\ \A b \in x .. n : rank[t[x]] <= rank[t[b]]

LEMMA PassSorts ==
    ASSUME NEW n \in Nat, NEW D, NEW rank \in [D -> Int], NEW s \in [1 .. n -> D],
           NEW x \in 1 .. n, NEW t, t = Pass(s, x, rank)
    PROVE  t \in [1 .. n -> D] /\ Passed(t, s, n, rank, x)
<1> DEFINE m == n - x
           R == [1 .. n -> D]
           step == PassStep(n, D, rank, x)
<1>1. \E P : Runs(P, m, R, s, step) /\ Pass(s, x, rank) = P[m]
  <2> HIDE DEF step
  <2> QED  BY PassRuns DEF step
<1>2. /\ m \in Nat /\ x + m = n /\ s \in R
      /\ \A k \in 1 .. m : x + k \in 1 .. n
      /\ \A k \in Nat : k <= m => x + k <= n
      /\ \A u \in R, b \in 1 .. n : u[b] \in D /\ rank[u[b]] \in Int
  OBVIOUS
<1>3. \A k \in 1 .. m, u \in R :
         step[k][u] = IF rank[u[x]] > rank[u[x + k]] THEN Swapped(u, x, x + k) ELSE u
  BY DEF PassStep
<1>4. \A u \in R, y \in 1 .. n :
         /\ Rearranges(Swapped(u, x, y), u, n)
         /\ Swapped(u, x, y)[x] = u[y] /\ Swapped(u, x, y)[y] = u[x]
         /\ \A k \in 1 .. n : k # x /\ k # y => Swapped(u, x, y)[k] = u[k]
  <2> TAKE u \in R, y \in 1 .. n
  <2> HIDE DEF R, m, step
  <2>1. u \in [1 .. n -> D]
    BY DEF R
  <2>2. Rearranges(Swapped(u, x, y), u, n)
    BY <2>1, SwapRearranges
  <2>3. Swapped(u, x, y)[x] = u[y] /\ Swapped(u, x, y)[y] = u[x]
    BY <2>1 DEF Swapped
  <2>4. \A k \in 1 .. n : k # x /\ k # y => Swapped(u, x, y)[k] = u[k]
    BY <2>1 DEF Swapped
  <2> QED  BY <2>2, <2>3, <2>4
<1>5. Rearranges(s, s, n)
  BY RearrangesSelf
<1> HIDE DEF step, m, R
<1>6. PICK P : Runs(P, m, R, s, step) /\ t = P[m]
  BY <1>1
<1> DEFINE Good(u, k) == /\ Rearranges(u, s, n)
                         /\ \A a \in 1 .. n : a < x => u[a] = s[a]
                         /\ \A b \in x .. n : \E c \in x .. n : u[b] = s[c]
                         /\ \A b \in x .. x + k : rank[u[x]] <= rank[u[b]]
           N == {k \in Nat : k <= m => Good(P[k], k)}
<1>7. 0 \in N
  <2>1. P[0] = s
    BY <1>6 DEF Runs
  <2>2. rank[s[x]] \in Int /\ \A b \in x .. x + 0 : b = x
    BY <1>2
  <2>3. \A b \in x .. n : \E c \in x .. n : s[b] = s[c]
    OBVIOUS
  <2>4. \A b \in x .. x + 0 : rank[s[x]] <= rank[s[b]]
    BY <2>2
  <2>5. Good(P[0], 0)
    BY <1>5, <2>1, <2>3, <2>4
  <2> HIDE DEF Good
  <2> QED  BY <2>5
<1> HIDE DEF Good
<1>8. ASSUME NEW k \in N PROVE k + 1 \in N
  <2>0. k \in Nat /\ (k <= m => Good(P[k], k))
    OBVIOUS
  <2> SUFFICES ASSUME k + 1 <= m PROVE Good(P[k + 1], k + 1)
    BY <2>0
  <2> DEFINE u == P[k]
             v == P[k + 1]
             y == x + (k + 1)
  <2>1. Good(P[k], k) /\ k \in Nat /\ k \in 0 .. m /\ k + 1 \in 1 .. m /\ k + 1 - 1 = k
    BY <1>2, <2>0
  <2>2. u \in R
    BY <1>6, <2>1 DEF Runs
  <2>3. v = step[k + 1][u]
    BY <1>6, <2>1 DEF Runs
  <2>4. v = IF rank[u[x]] > rank[u[y]] THEN Swapped(u, x, y) ELSE u
    BY <1>3, <2>1, <2>2, <2>3
  <2>5. y \in 1 .. n /\ y \in x .. n /\ x # y /\ x < y /\ x \in x .. n
        /\ \A b \in x .. x + (k + 1) : b \in x .. x + k \/ b = y
    <3>1. y \in 1 .. n
      BY <1>2, <2>1
    <3>2. y > x /\ \A b \in x .. x + (k + 1) : b \in x .. x + k \/ b = y
      BY <2>0
    <3> QED  BY <3>1, <3>2
  <2> HIDE DEF u, v, y, N
  <2>6. \A b \in 1 .. n : rank[u[b]] \in Int
    BY <1>2, <2>2
  <2>7. \A b \in x .. x + k : b \in 1 .. n /\ b # y
    <3>1. x + k <= n
      BY <1>2, <2>1
    <3> QED  BY <2>0, <3>1 DEF y
  <2>8. CASE rank[u[x]] > rank[u[y]]
    <3>1. /\ Rearranges(v, u, n) /\ v[x] = u[y] /\ v[y] = u[x]
          /\ \A b \in 1 .. n : b # x /\ b # y => v[b] = u[b]
      BY <1>4, <2>2, <2>4, <2>5, <2>8
    <3>2. Rearranges(v, s, n)
      BY <2>1, <3>1, RearrangesBoth DEF u, Good
    <3>3. ASSUME NEW a \in 1 .. n, a < x PROVE v[a] = s[a]
      <4>1. a # x /\ a # y
        BY <2>1, <3>3 DEF y
      <4> QED  BY <2>1, <3>1, <3>3, <4>1 DEF u, Good
    <3>4. ASSUME NEW b \in x .. n PROVE \E c \in x .. n : v[b] = s[c]
      <4>1. b \in 1 .. n
        OBVIOUS
      <4>2. v[b] = u[b] \/ v[b] = u[x] \/ v[b] = u[y]
        BY <3>1, <4>1
      <4> QED  BY <2>1, <2>5, <4>2 DEF u, Good
    <3>5. ASSUME NEW b \in x .. x + (k + 1) PROVE rank[v[x]] <= rank[v[b]]
      <4>1. CASE b = x
        BY <2>5, <2>6, <3>1, <4>1
      <4>2. CASE b = y
        BY <2>5, <2>6, <2>8, <3>1, <4>2
      <4>3. CASE b \in x .. x + k /\ b # x
        <5>1. v[b] = u[b] /\ rank[u[x]] <= rank[u[b]] /\ b \in 1 .. n
          BY <2>1, <2>7, <3>1, <4>3 DEF u, Good
        <5> QED  BY <2>5, <2>6, <2>8, <3>1, <5>1
      <4> QED  BY <2>5, <4>1, <4>2, <4>3
    <3> QED  BY <3>2, <3>3, <3>4, <3>5 DEF v, Good
  <2>9. CASE ~(rank[u[x]] > rank[u[y]])
    <3>1. v = u
      BY <2>4, <2>9
    <3>2. ASSUME NEW b \in x .. x + (k + 1) PROVE rank[v[x]] <= rank[v[b]]
      <4>1. CASE b = y
        BY <2>5, <2>6, <2>9, <3>1, <4>1
      <4>2. CASE b \in x .. x + k
        BY <2>1, <3>1, <4>2 DEF u, Good
      <4> QED  BY <2>5, <4>1, <4>2
    <3> QED  BY <2>1, <3>1, <3>2 DEF u, v, Good
  <2> QED  BY <2>8, <2>9
<1>9. N = Nat
  <2>1. N \in SUBSET Nat
    OBVIOUS
  <2> HIDE DEF N
  <2> QED  BY <1>7, <1>8, <2>1, Induction
<1>10. Good(P[m], m) /\ x + m = n
  <2>1. m <= m /\ m \in N
    <3> HIDE DEF N
    <3> QED  BY <1>2, <1>9
  <2> QED  BY <1>2, <2>1
<1>11. P[m] \in R
  BY <1>2, <1>6 DEF Runs
<1>12. t = P[m]
  BY <1>6
<1>13. Good(t, m)
  BY <1>10, <1>12
<1> QED  BY <1>2, <1>11, <1>12, <1>13 DEF R, Good, Passed

\* How many passes there are.
Passes(n) == IF n = 0 THEN 0 ELSE n - 1

SortStep(n, D, rank) ==
    [k \in 1 .. Passes(n) |-> [t \in [1 .. n -> D] |-> Pass(t, k, rank)]]

LEMMA SortRuns ==
    ASSUME NEW n \in Nat, NEW D, NEW rank \in [D -> Int], NEW s \in [1 .. n -> D]
    PROVE  \E P : /\ Runs(P, Passes(n), [1 .. n -> D], s, SortStep(n, D, rank))
                  /\ ExchangeSort(s, rank) = P[Passes(n)]
<1> DEFINE m == Passes(n)
           R == [1 .. n -> D]
           pos == Positions(1, Len(s) - 1)
           step == SortStep(n, D, rank)
           Rec(F) == [S \in SUBSET (1 .. m) |-> IF S = {} THEN s
                         ELSE Pass(F[S \ {Max(S)}], pos[Max(S)], rank)]
           iter == CHOOSE F : F = Rec(F)
<1>1. m \in Nat /\ DOMAIN pos = 1 .. m /\ \A k \in 1 .. m : pos[k] = k /\ k \in 1 .. n
  <2>1. Len(s) = n
    OBVIOUS
  <2>2. 1 .. Len(s) - 1 - 1 + 1 = 1 .. Passes(n) /\ Passes(n) \in Nat
    BY <2>1 DEF Passes
  <2>3. \A k \in 1 .. Passes(n) : k \in 1 .. n /\ 1 + k - 1 = k
    BY DEF Passes
  <2> QED  BY <2>2, <2>3 DEF Positions
<1>2. ExchangeSort(s, rank) = iter[1 .. m]
  <2> HIDE DEF m, pos
  <2> QED  BY <1>1 DEF ExchangeSort, FoldLeft, MapThenFoldSet, pos
<1>3. \A k \in 1 .. m, t \in R : step[k][t] = Pass(t, pos[k], rank) /\ step[k][t] \in R
  <2> TAKE k \in 1 .. m, t \in R
  <2>1. step[k][t] = Pass(t, k, rank)
    BY DEF SortStep
  <2>2. Pass(t, k, rank) \in R
    <3> HIDE DEF m
    <3>1. k \in 1 .. n
      BY <1>1
    <3> QED  BY <3>1, PassSorts
  <2> QED  BY <1>1, <2>1, <2>2
<1> HIDE DEF m, pos, step
<1>4. CanRun(m, R, s, step)
  BY <1>1, <1>3 DEF CanRun
<1> HIDE DEF R
<1>5. PICK F : FoldOf(F, 1 .. m, R, s, Highest(m), step)
  BY <1>4, CanFoldPlaces
<1>6. ASSUME NEW S \in SUBSET (1 .. m), S # {}
      PROVE  Highest(m)[S] = Max(S) /\ Max(S) \in 1 .. m /\ S \ {Max(S)} \in SUBSET (1 .. m)
  BY <1>1, <1>6, MaxFacts DEF Highest
<1>7. F = Rec(F)
  <2>1. ASSUME NEW S \in SUBSET (1 .. m), S # {} PROVE F[S] = Rec(F)[S]
    <3>1. F[S] = step[Max(S)][F[S \ {Max(S)}]]
      BY <1>5, <1>6, <2>1 DEF FoldOf, IsFold
    <3>2. F[S \ {Max(S)}] \in R /\ Max(S) \in 1 .. m
      BY <1>5, <1>6, <2>1 DEF FoldOf
    <3> QED  BY <1>3, <2>1, <3>1, <3>2
  <2>2. F[{}] = s
    BY <1>5 DEF FoldOf, IsFold
  <2>3. F = [S \in SUBSET (1 .. m) |-> F[S]]
    BY <1>5 DEF FoldOf
  <2> QED  BY <2>1, <2>2, <2>3
<1>8. iter = Rec(iter)
  <2> HIDE DEF Rec
  <2> QED  BY <1>7
<1> HIDE DEF iter
<1>9. Follows(iter, 1 .. m, R, s, Highest(m), step)
  <2>1. iter[{}] = s
    BY <1>8
  <2>2. ASSUME NEW S \in SUBSET (1 .. m), S # {}, iter[S \ {Highest(m)[S]}] \in R
        PROVE  iter[S] = step[Highest(m)[S]][iter[S \ {Highest(m)[S]}]]
    <3>1. Highest(m)[S] = Max(S) /\ Max(S) \in 1 .. m
      BY <1>6, <2>2
    <3>2. iter[S] = Rec(iter)[S]
      <4> HIDE DEF Rec
      <4> QED  BY <1>8
    <3>3. Rec(iter)[S] = step[Max(S)][iter[S \ {Max(S)}]]
      BY <1>3, <2>2, <3>1
    <3> HIDE DEF Rec
    <3> QED  BY <3>1, <3>2, <3>3
  <2> QED  BY <2>1, <2>2 DEF Follows
<1>10. \E P : Runs(P, m, R, s, step) /\ iter[1 .. m] = P[m]
  BY <1>4, <1>9, RunsUp
<1> QED  BY <1>2, <1>10 DEF m, R, step

Ascends(t, n, rank) == \A a, b \in 1 .. n : a < b => rank[t[a]] <= rank[t[b]]

\* The exchange sort rearranges its list and leaves it sorted.
LEMMA SortSorts ==
    ASSUME NEW n \in Nat, NEW D, NEW rank \in [D -> Int], NEW s \in [1 .. n -> D],
           NEW t, t = ExchangeSort(s, rank)
    PROVE  t \in [1 .. n -> D] /\ Rearranges(t, s, n) /\ Ascends(t, n, rank)
<1> DEFINE m == Passes(n)
           R == [1 .. n -> D]
           step == SortStep(n, D, rank)
<1>1. \E P : Runs(P, m, R, s, step) /\ ExchangeSort(s, rank) = P[m]
  <2> HIDE DEF step
  <2> QED  BY SortRuns DEF step
<1>2. m \in Nat /\ (\A k \in 1 .. m : k \in 1 .. n) /\ (\A a \in 1 .. n : a > m => a = n)
  BY DEF Passes
<1>3. \A k \in 1 .. m, u \in R : step[k][u] = Pass(u, k, rank)
  BY DEF SortStep
<1>4. Rearranges(s, s, n)
  BY RearrangesSelf
<1>5. \A u \in R, b \in 1 .. n : rank[u[b]] \in Int
  OBVIOUS
<1> HIDE DEF step, m
<1>6. PICK P : Runs(P, m, R, s, step) /\ t = P[m]
  BY <1>1
<1> DEFINE Good(u, k) ==
              /\ Rearranges(u, s, n)
              /\ \A a, b \in 1 .. n : a <= k /\ a < b => rank[u[a]] <= rank[u[b]]
           N == {k \in Nat : k <= m => Good(P[k], k)}
<1>7. 0 \in N
  <2>1. P[0] = s
    BY <1>6 DEF Runs
  <2>2. Good(P[0], 0)
    BY <1>4, <2>1
  <2> HIDE DEF Good
  <2> QED  BY <2>2
<1> HIDE DEF Good
<1>8. ASSUME NEW k \in N PROVE k + 1 \in N
  <2>0. k \in Nat /\ (k <= m => Good(P[k], k))
    OBVIOUS
  <2> SUFFICES ASSUME k + 1 <= m PROVE Good(P[k + 1], k + 1)
    BY <2>0
  <2> DEFINE u == P[k]
             v == P[k + 1]
             x == k + 1
  <2>1. Good(u, k) /\ k \in Nat /\ k \in 0 .. m /\ x \in 1 .. m /\ x - 1 = k
    BY <1>2, <2>0
  <2>2. u \in R
    BY <1>6, <2>1 DEF Runs
  <2>3. v = step[x][u] /\ v \in R
    BY <1>2, <1>6, <2>1 DEF Runs
  <2>4. v = Pass(u, x, rank) /\ x \in 1 .. n
    BY <1>2, <1>3, <2>1, <2>2, <2>3
  <2> HIDE DEF u, v, x, N
  <2>5. /\ Rearranges(v, u, n)
        /\ \A a \in 1 .. n : a < x => v[a] = u[a]
        /\ \A b \in x .. n : \E c \in x .. n : v[b] = u[c]
        /\ \A b \in x .. n : rank[v[x]] <= rank[v[b]]
    <3>1. Passed(v, u, n, rank, x)
      BY <2>2, <2>4, PassSorts
    <3> QED  BY <3>1 DEF Passed
  <2>6. Rearranges(v, s, n)
    BY <2>1, <2>5, RearrangesBoth DEF Good
  <2>7. ASSUME NEW a \in 1 .. n, NEW b \in 1 .. n, a <= x, a < b
        PROVE  rank[v[a]] <= rank[v[b]]
    <3>1. CASE a = x
      BY <2>4, <2>5, <2>7, <3>1
    <3>2. CASE a < x
      <4>1. a <= k /\ v[a] = u[a]
        BY <2>1, <2>5, <3>2 DEF x
      <4>2. \E c \in 1 .. n : a < c /\ v[b] = u[c]
        <5>1. CASE b < x
          BY <2>5, <2>7, <5>1
        <5>2. CASE b \in x .. n
          <6>1. PICK c \in x .. n : v[b] = u[c]
            BY <2>5, <5>2
          <6>2. c \in 1 .. n /\ a < c
            BY <2>4, <3>2
          <6> QED  BY <6>1, <6>2
        <5>3. b < x \/ b \in x .. n
          BY <2>4
        <5> QED  BY <5>1, <5>2, <5>3
      <4> QED  BY <2>1, <4>1, <4>2 DEF Good
    <3>3. a = x \/ a < x
      BY <2>4, <2>7
    <3> QED  BY <3>1, <3>2, <3>3
  <2>8. Good(v, x)
    BY <2>6, <2>7 DEF Good
  <2> QED  BY <2>8 DEF v, x
<1>9. N = Nat
  <2>1. N \in SUBSET Nat
    OBVIOUS
  <2> HIDE DEF N
  <2> QED  BY <1>7, <1>8, <2>1, Induction
<1>10. Good(P[m], m)
  <2>1. m <= m /\ m \in N
    <3> HIDE DEF N
    <3> QED  BY <1>2, <1>9
  <2> QED  BY <2>1
<1>11. P[m] \in R
  BY <1>2, <1>6 DEF Runs
<1>12. Good(t, m) /\ t \in R
  BY <1>6, <1>10, <1>11
<1>13. ASSUME NEW a \in 1 .. n, NEW b \in 1 .. n, a < b PROVE rank[t[a]] <= rank[t[b]]
  <2>1. a <= m
    BY <1>2, <1>13
  <2> QED  BY <1>12, <1>13, <2>1 DEF Good
<1>14. Rearranges(t, s, n)
  BY <1>12 DEF Good
<1> QED  BY <1>12, <1>13, <1>14 DEF Ascends

-----------------------------------------------------------------------------
(* What a copy of the book shows. *)

Side == {"bid", "ask"}
Entry == [price : Nat \ {0}, amount : Nat, side : Side]

IsCopy(all, B) ==
    /\ IsFiniteSet(B) /\ B \in SUBSET Order
    /\ all \in Bijection(1 .. Cardinality(B), B)

LEMMA CopyFacts ==
    ASSUME NEW all, NEW B, IsCopy(all, B)
    PROVE  /\ Cardinality(B) \in Nat /\ all \in [1 .. Cardinality(B) -> B]
           /\ all \in Seq(Order) /\ Len(all) = Cardinality(B)
           /\ DOMAIN all = 1 .. Cardinality(B)
           /\ \A x, y \in 1 .. Cardinality(B) : all[x] = all[y] => x = y
           /\ \A x \in B : \E k \in 1 .. Cardinality(B) : all[k] = x
<1>1. Cardinality(B) \in Nat
  BY FS_CardinalityType DEF IsCopy
<1>2. /\ all \in [1 .. Cardinality(B) -> B]
      /\ \A x, y \in 1 .. Cardinality(B) : all[x] = all[y] => x = y
      /\ \A x \in B : \E k \in 1 .. Cardinality(B) : all[k] = x
  BY DEF IsCopy, Bijection, Injection, Surjection, IsInjective
<1>3. all \in [1 .. Cardinality(B) -> Order]
  BY <1>2 DEF IsCopy
<1>4. all \in Seq(Order) /\ Len(all) = Cardinality(B)
  BY <1>1, <1>3
<1> QED  BY <1>1, <1>2, <1>4

\* Copying the slice is one of the ways to list the book.
LEMMA CopiesAreCopies ==
    ASSUME IInv, NEW all \in Copies PROVE IsCopy(all, orderBook)
<1>1. IsFiniteSet(orderBook) /\ orderBook \in SUBSET Order
  BY DEF IInv, BookInv, TypeOK
<1> DEFINE n == Cardinality(orderBook)
<1>2. /\ all \in [1 .. n -> orderBook]
      /\ \A x, y \in 1 .. n : all[x] = all[y] => x = y
  BY DEF Copies
<1>3. n \in Nat /\ IsFiniteSet(1 .. n) /\ Cardinality(1 .. n) = n
  <2>1. n \in Nat
    BY <1>1, FS_CardinalityType
  <2> HIDE DEF n
  <2> QED  BY <2>1, FS_Interval
<1> HIDE DEF n
<1>4. all \in Injection(1 .. n, orderBook)
  BY <1>2 DEF Injection, IsInjective
<1>5. all \in Surjection(1 .. n, orderBook)
  BY <1>1, <1>3, <1>4, FS_Injection DEF n
<1>6. all \in Bijection(1 .. n, orderBook)
  BY <1>4, <1>5 DEF Bijection
<1> QED  BY <1>1, <1>6 DEF IsCopy, n

\* The average splits the prices: all bids are above all asks.
LEMMA SidesApart ==
    ASSUME NEW all, NEW B, IsCopy(all, B), NEW high \in BOOLEAN
    PROVE  /\ \A x : SideOf(x, all, high) \in Side
           /\ \A x, y \in B : SideOf(x, all, high) = "bid" /\ SideOf(y, all, high) = "ask"
                 => x.price > y.price
<1> DEFINE g == [k \in DOMAIN all |-> all[k].price]
           sum == SumUp(g)
           n == Len(all)
<1>1. n \in Nat /\ DOMAIN all = 1 .. n /\ \A k \in 1 .. n : all[k] \in B
  BY CopyFacts
<1>2. \A x \in B : x.price \in Nat \ {0}
  BY DEF IsCopy, Order
<1>3. g \in [1 .. n -> Nat] /\ IsFiniteSet(1 .. n)
  <2> HIDE DEF n
  <2>1. IsFiniteSet(1 .. n)
    BY <1>1, FS_Interval
  <2> QED  BY <1>1, <1>2, <2>1
<1> HIDE DEF g
<1>4. sum \in Nat
  BY <1>3, SumWithin
<1>5. \A x : SideOf(x, all, high) = IF x.price * n > sum \/ (x.price * n = sum /\ ~high)
                                   THEN "bid" ELSE "ask"
  BY Zenon DEF SideOf, g, sum, n
<1> HIDE DEF sum, n
<1>6. ASSUME NEW x \in B, NEW y \in B,
             SideOf(x, all, high) = "bid", SideOf(y, all, high) = "ask"
      PROVE  x.price > y.price
  <2>1. x.price * n \in Nat /\ y.price * n \in Nat
    BY <1>1, <1>2
  <2>2. x.price * n > y.price * n
    <3>1. x.price * n > sum \/ (x.price * n = sum /\ ~high)
      BY <1>5, <1>6
    <3>2. ~(y.price * n > sum \/ (y.price * n = sum /\ ~high))
      BY <1>5, <1>6
    <3> HIDE DEF n
    <3> QED  BY <1>4, <2>1, <3>1, <3>2
  <2>3. \A a, b, c \in Nat : a * c > b * c => a > b
    OBVIOUS
  <2> QED  BY <1>1, <1>2, <2>2, <2>3
<1> QED  BY <1>5, <1>6 DEF Side

-----------------------------------------------------------------------------
(* The orders of a side, listed. *)

\* The entries show the orders, each once.
Lists(L, S, side) ==
    \E h \in Bijection(1 .. Len(L), S) :
        \A k \in 1 .. Len(L) : L[k] = FrontendOrder(h[k], side)

\* The orders of the first k that are on a side.
SideUpto(all, k, side, high) ==
    {all[l] : l \in {l \in 1 .. k : SideOf(all[l], all, high) = side}}

OnSideStep(all, side, high) ==
    [k \in 1 .. Len(all) |-> [r \in Seq(Entry) |->
        IF SideOf(all[k], all, high) = side
        THEN Append(r, FrontendOrder(all[k], side)) ELSE r]]

LEMMA OnSideRuns ==
    ASSUME NEW all \in Seq(Order), NEW side \in Side, NEW high \in BOOLEAN
    PROVE  \E P : /\ Runs(P, Len(all), Seq(Entry), <<>>, OnSideStep(all, side, high))
                  /\ OnSide(all, side, high) = P[Len(all)]
<1> DEFINE m == Len(all)
           R == Seq(Entry)
           step == OnSideStep(all, side, high)
           Rec(F) == [S \in SUBSET (1 .. m) |-> IF S = {} THEN <<>>
                         ELSE IF SideOf(all[Max(S)], all, high) = side
                              THEN Append(F[S \ {Max(S)}], FrontendOrder(all[Max(S)], side))
                              ELSE F[S \ {Max(S)}]]
           iter == CHOOSE F : F = Rec(F)
<1>1. m \in Nat /\ DOMAIN all = 1 .. m /\ (\A k \in 1 .. m : all[k] \in Order) /\ <<>> \in R
  OBVIOUS
<1>2. OnSide(all, side, high) = iter[1 .. m]
  <2> HIDE DEF m
  <2> QED  BY <1>1 DEF OnSide, FoldLeft, MapThenFoldSet
<1>3. \A k \in 1 .. m, r \in R :
         /\ step[k][r] = IF SideOf(all[k], all, high) = side
                         THEN Append(r, FrontendOrder(all[k], side)) ELSE r
         /\ step[k][r] \in R
  <2>1. \A k \in 1 .. m : FrontendOrder(all[k], side) \in Entry
    BY <1>1 DEF FrontendOrder, Entry, Order, Amount
  <2> TAKE k \in 1 .. m, r \in R
  <2>2. step[k][r] = IF SideOf(all[k], all, high) = side
                     THEN Append(r, FrontendOrder(all[k], side)) ELSE r
    BY DEF OnSideStep
  <2> HIDE DEF step
  <2>3. Append(r, FrontendOrder(all[k], side)) \in R
    BY <2>1
  <2> QED  BY <2>2, <2>3
<1> HIDE DEF m, step
<1>4. CanRun(m, R, <<>>, step)
  BY <1>1, <1>3 DEF CanRun
<1> HIDE DEF R
<1>5. PICK F : FoldOf(F, 1 .. m, R, <<>>, Highest(m), step)
  BY <1>4, CanFoldPlaces
<1>6. ASSUME NEW S \in SUBSET (1 .. m), S # {}
      PROVE  Highest(m)[S] = Max(S) /\ Max(S) \in 1 .. m /\ S \ {Max(S)} \in SUBSET (1 .. m)
  BY <1>1, <1>6, MaxFacts DEF Highest
<1>7. F = Rec(F)
  <2>1. ASSUME NEW S \in SUBSET (1 .. m), S # {} PROVE F[S] = Rec(F)[S]
    <3>1. F[S] = step[Max(S)][F[S \ {Max(S)}]]
      BY <1>5, <1>6, <2>1 DEF FoldOf, IsFold
    <3>2. F[S \ {Max(S)}] \in R /\ Max(S) \in 1 .. m
      BY <1>5, <1>6, <2>1 DEF FoldOf
    <3> QED  BY <1>3, <2>1, <3>1, <3>2
  <2>2. F[{}] = <<>>
    BY <1>5 DEF FoldOf, IsFold
  <2>3. F = [S \in SUBSET (1 .. m) |-> F[S]]
    BY <1>5 DEF FoldOf
  <2> QED  BY <2>1, <2>2, <2>3
<1>8. iter = Rec(iter)
  <2> HIDE DEF Rec
  <2> QED  BY <1>7
<1> HIDE DEF iter
<1>9. Follows(iter, 1 .. m, R, <<>>, Highest(m), step)
  <2>1. iter[{}] = <<>>
    BY <1>8
  <2>2. ASSUME NEW S \in SUBSET (1 .. m), S # {}, iter[S \ {Highest(m)[S]}] \in R
        PROVE  iter[S] = step[Highest(m)[S]][iter[S \ {Highest(m)[S]}]]
    <3>1. Highest(m)[S] = Max(S) /\ Max(S) \in 1 .. m
      BY <1>6, <2>2
    <3>2. iter[S] = Rec(iter)[S]
      <4> HIDE DEF Rec
      <4> QED  BY <1>8
    <3>3. Rec(iter)[S] = step[Max(S)][iter[S \ {Max(S)}]]
      BY <1>3, <2>2, <3>1
    <3> HIDE DEF Rec
    <3> QED  BY <3>1, <3>2, <3>3
  <2> QED  BY <2>1, <2>2 DEF Follows
<1>10. \E P : Runs(P, m, R, <<>>, step) /\ iter[1 .. m] = P[m]
  BY <1>4, <1>9, RunsUp
<1> QED  BY <1>2, <1>10 DEF m, R, step

\* One more entry, for an order not listed yet.
LEMMA ListMore ==
    ASSUME NEW L \in Seq(Entry), NEW S, NEW side \in Side, Lists(L, S, side),
           NEW x, x \notin S, FrontendOrder(x, side) \in Entry
    PROVE  Lists(Append(L, FrontendOrder(x, side)), S \cup {x}, side)
<1> DEFINE M == Append(L, FrontendOrder(x, side))
           n == Len(L)
<1>1. PICK h \in Bijection(1 .. n, S) : \A k \in 1 .. n : L[k] = FrontendOrder(h[k], side)
  BY DEF Lists
<1>2. /\ n \in Nat /\ Len(M) = n + 1 /\ M[n + 1] = FrontendOrder(x, side)
      /\ \A k \in 1 .. n : M[k] = L[k]
  OBVIOUS
<1>3. /\ h \in [1 .. n -> S] /\ (\A a, b \in 1 .. n : h[a] = h[b] => a = b)
      /\ \A y \in S : \E a \in 1 .. n : h[a] = y
  BY DEF Bijection, Injection, Surjection, IsInjective
<1> DEFINE g == [k \in 1 .. n + 1 |-> IF k = n + 1 THEN x ELSE h[k]]
<1> HIDE DEF M, n
<1>4. /\ g \in [1 .. n + 1 -> S \cup {x}] /\ g[n + 1] = x
      /\ \A k \in 1 .. n : g[k] = h[k] /\ k \in 1 .. n + 1
      /\ \A k \in 1 .. n + 1 : k = n + 1 \/ k \in 1 .. n
  BY <1>2, <1>3
<1> HIDE DEF g
<1>5. g \in Bijection(1 .. n + 1, S \cup {x})
  <2>1. ASSUME NEW a \in 1 .. n + 1, NEW b \in 1 .. n + 1, g[a] = g[b] PROVE a = b
    BY <1>3, <1>4, <2>1
  <2>2. ASSUME NEW y \in S \cup {x} PROVE \E a \in 1 .. n + 1 : g[a] = y
    BY <1>2, <1>3, <1>4
  <2> QED  BY <1>4, <2>1, <2>2 DEF Bijection, Injection, Surjection, IsInjective
<1>6. \A k \in 1 .. n + 1 : M[k] = FrontendOrder(g[k], side)
  BY <1>1, <1>2, <1>4
<1> QED  BY <1>2, <1>5, <1>6 DEF Lists, M

\* The loop over the copy lists the orders that are on the side.
LEMMA SideListed ==
    ASSUME NEW all, NEW B, IsCopy(all, B), NEW side \in Side, NEW high \in BOOLEAN
    PROVE  /\ OnSide(all, side, high) \in Seq(Entry)
           /\ Lists(OnSide(all, side, high), {x \in B : SideOf(x, all, high) = side}, side)
<1> DEFINE n == Len(all)
           step == OnSideStep(all, side, high)
           On(k) == SideUpto(all, k, side, high)
<1>1. /\ n \in Nat /\ all \in Seq(Order) /\ (\A k \in 1 .. n : all[k] \in B /\ all[k] \in Order)
      /\ (\A x, y \in 1 .. n : all[x] = all[y] => x = y)
      /\ \A x \in B : \E k \in 1 .. n : all[k] = x
  BY CopyFacts DEF IsCopy
<1>2. \E P : Runs(P, n, Seq(Entry), <<>>, step) /\ OnSide(all, side, high) = P[n]
  BY <1>1, OnSideRuns
<1>3. \A k \in 1 .. n, r \in Seq(Entry) :
         step[k][r] = IF SideOf(all[k], all, high) = side
                      THEN Append(r, FrontendOrder(all[k], side)) ELSE r
  BY DEF OnSideStep
<1>4. \A k \in 1 .. n : FrontendOrder(all[k], side) \in Entry
  <2> HIDE DEF n
  <2> QED  BY <1>1 DEF FrontendOrder, Entry, Order, Amount
<1>5. /\ On(0) = {}
      /\ \A k \in Nat : On(k + 1) = IF SideOf(all[k + 1], all, high) = side
                                     THEN On(k) \cup {all[k + 1]} ELSE On(k)
      /\ \A k \in Nat : k + 1 <= n => all[k + 1] \notin On(k)
      /\ On(n) = {x \in B : SideOf(x, all, high) = side}
  <2> HIDE DEF n
  <2>1. On(0) = {}
    BY DEF SideUpto
  <2>2. ASSUME NEW k \in Nat
        PROVE  On(k + 1) = IF SideOf(all[k + 1], all, high) = side
                           THEN On(k) \cup {all[k + 1]} ELSE On(k)
    <3>1. 1 .. k + 1 = (1 .. k) \cup {k + 1}
      OBVIOUS
    <3> QED  BY <3>1 DEF SideUpto
  <2>3. ASSUME NEW k \in Nat, k + 1 <= n PROVE all[k + 1] \notin On(k)
    <3>1. k + 1 \in 1 .. n /\ \A l \in 1 .. k : l \in 1 .. n /\ l # k + 1
      BY <1>1, <2>3
    <3> QED  BY <1>1, <3>1 DEF SideUpto
  <2>4. On(n) = {x \in B : SideOf(x, all, high) = side}
    BY <1>1 DEF SideUpto
  <2> QED  BY <2>1, <2>2, <2>3, <2>4
<1> HIDE DEF n, step, On
<1>6. PICK P : Runs(P, n, Seq(Entry), <<>>, step) /\ OnSide(all, side, high) = P[n]
  BY <1>2
<1> DEFINE Good(r, k) == r \in Seq(Entry) /\ Lists(r, On(k), side)
           N == {k \in Nat : k <= n => Good(P[k], k)}
<1>7. 0 \in N
  <2>1. P[0] = <<>> /\ <<>> \in Seq(Entry) /\ Len(<<>>) = 0
    BY <1>6 DEF Runs
  <2> DEFINE h == [k \in 1 .. 0 |-> k]
  <2>2. h \in Bijection(1 .. 0, {})
    BY DEF Bijection, Injection, Surjection, IsInjective
  <2>3. \A k \in 1 .. 0 : <<>>[k] = FrontendOrder(h[k], side)
    OBVIOUS
  <2> HIDE DEF h
  <2>4. Lists(<<>>, {}, side)
    BY <2>1, <2>2, <2>3 DEF Lists
  <2> QED  BY <1>5, <2>1, <2>4
<1> HIDE DEF Good
<1>8. ASSUME NEW k \in N PROVE k + 1 \in N
  <2>0. k \in Nat /\ (k <= n => Good(P[k], k))
    OBVIOUS
  <2> SUFFICES ASSUME k + 1 <= n PROVE Good(P[k + 1], k + 1)
    BY <2>0
  <2> DEFINE r == P[k]
             x == all[k + 1]
  <2>1. Good(r, k) /\ k \in Nat /\ k \in 0 .. n /\ k + 1 \in 1 .. n /\ k + 1 - 1 = k
    BY <1>1, <2>0
  <2>2. P[k + 1] = IF SideOf(x, all, high) = side
                   THEN Append(r, FrontendOrder(x, side)) ELSE r
    BY <1>3, <1>6, <2>1 DEF Runs
  <2>3. FrontendOrder(x, side) \in Entry /\ x \notin On(k)
    BY <1>4, <1>5, <2>1
  <2>4. On(k + 1) = IF SideOf(x, all, high) = side THEN On(k) \cup {x} ELSE On(k)
    BY <1>5, <2>1
  <2> HIDE DEF r, x, N
  <2>5. r \in Seq(Entry) /\ Lists(r, On(k), side)
    BY <2>1 DEF Good
  <2>6. CASE SideOf(x, all, high) = side
    <3>1. Append(r, FrontendOrder(x, side)) \in Seq(Entry)
      BY <2>3, <2>5
    <3>2. Lists(Append(r, FrontendOrder(x, side)), On(k) \cup {x}, side)
      BY <2>3, <2>5, ListMore
    <3> QED  BY <2>2, <2>4, <2>6, <3>1, <3>2 DEF Good
  <2>7. CASE SideOf(x, all, high) # side
    BY <2>2, <2>4, <2>5, <2>7 DEF Good
  <2> QED  BY <2>6, <2>7
<1>9. N = Nat
  <2>1. N \in SUBSET Nat
    OBVIOUS
  <2> HIDE DEF N
  <2> QED  BY <1>7, <1>8, <2>1, Induction
<1>10. Good(P[n], n)
  <2>1. n <= n /\ n \in N
    <3> HIDE DEF N
    <3> QED  BY <1>1, <1>9
  <2> QED  BY <2>1
<1> QED  BY <1>5, <1>6, <1>10 DEF Good

\* Sorting a list rearranges what it lists.
LEMMA SortListed ==
    ASSUME NEW L \in Seq(Entry), NEW S, NEW side \in Side, Lists(L, S, side),
           NEW rank \in [ToSet(L) -> Int], NEW t, t = ExchangeSort(L, rank)
    PROVE  t \in Seq(Entry) /\ Lists(t, S, side) /\ Ascends(t, Len(t), rank)
           /\ ToSet(t) \in SUBSET ToSet(L)
<1> DEFINE n == Len(L)
           D == ToSet(L)
<1>1. n \in Nat /\ L \in [1 .. n -> D] /\ D \in SUBSET Entry
  BY DEF ToSet
<1> HIDE DEF n, D
<1>2. t \in [1 .. n -> D] /\ Rearranges(t, L, n) /\ Ascends(t, n, rank)
  BY <1>1, SortSorts DEF D
<1>3. Len(t) = n /\ t \in Seq(Entry) /\ ToSet(t) \in SUBSET D
  <2>1. t \in [1 .. n -> Entry] /\ DOMAIN t = 1 .. n
    BY <1>1, <1>2
  <2> QED  BY <1>1, <1>2, <2>1 DEF ToSet
<1>4. PICK f \in Bijection(1 .. n, 1 .. n) : t = [k \in 1 .. n |-> L[f[k]]]
  BY <1>2 DEF Rearranges
<1>5. PICK h \in Bijection(1 .. n, S) : \A k \in 1 .. n : L[k] = FrontendOrder(h[k], side)
  BY DEF Lists, n
<1> DEFINE g == [k \in 1 .. n |-> h[f[k]]]
<1>6. g \in Bijection(1 .. n, S)
  BY BijBoth
<1>7. \A k \in 1 .. n : t[k] = FrontendOrder(g[k], side)
  <2>1. \A k \in 1 .. n : f[k] \in 1 .. n
    BY DEF Bijection, Injection
  <2> QED  BY <1>4, <1>5, <2>1
<1> HIDE DEF g
<1>8. Lists(t, S, side)
  BY <1>3, <1>6, <1>7 DEF Lists
<1> QED  BY <1>2, <1>3, <1>8 DEF D

-----------------------------------------------------------------------------
(* The answer to GET /book. *)

OnSideOf(B, all, high, side) == {x \in B : SideOf(x, all, high) = side}

BookListed(book, B, all, high) ==
    /\ book.bids \in Seq(Entry) /\ Lists(book.bids, OnSideOf(B, all, high, "bid"), "bid")
    /\ book.asks \in Seq(Entry) /\ Lists(book.asks, OnSideOf(B, all, high, "ask"), "ask")
    /\ \A x, y \in DOMAIN book.bids : x < y => book.bids[x].price >= book.bids[y].price
    /\ \A x, y \in DOMAIN book.asks : x < y => book.asks[x].price <= book.asks[y].price

LEMMA BookLists ==
    ASSUME NEW all, NEW B, IsCopy(all, B), NEW high \in BOOLEAN,
           NEW book, book = BookOf(all, high)
    PROVE  BookListed(book, B, all, high)
<1> DEFINE buys == OnSide(all, "bid", high)
           sells == OnSide(all, "ask", high)
           down == [x \in ToSet(buys) |-> -x.price]
           up == [x \in ToSet(sells) |-> x.price]
<1>1. buys \in Seq(Entry) /\ Lists(buys, OnSideOf(B, all, high, "bid"), "bid")
  BY SideListed DEF OnSideOf, Side
<1>2. sells \in Seq(Entry) /\ Lists(sells, OnSideOf(B, all, high, "ask"), "ask")
  BY SideListed DEF OnSideOf, Side
<1>3. \A s \in Seq(Entry) : \A x \in ToSet(s) : x \in Entry
  BY DEF ToSet
<1>4. \A x \in Entry : x.price \in Nat
  BY DEF Entry
<1>5. book.bids = ExchangeSort(buys, down) /\ book.asks = ExchangeSort(sells, up)
  BY DEF BookOf
<1> HIDE DEF buys, sells
<1>6. down \in [ToSet(buys) -> Int] /\ up \in [ToSet(sells) -> Int]
  BY <1>1, <1>2, <1>3, <1>4
<1>7. /\ \A x \in ToSet(buys) : down[x] = -x.price /\ x.price \in Nat
      /\ \A x \in ToSet(sells) : up[x] = x.price
  BY <1>1, <1>3, <1>4
<1> HIDE DEF down, up
<1>8. /\ book.bids \in Seq(Entry) /\ Lists(book.bids, OnSideOf(B, all, high, "bid"), "bid")
      /\ Ascends(book.bids, Len(book.bids), down) /\ ToSet(book.bids) \in SUBSET ToSet(buys)
  BY <1>1, <1>5, <1>6, SortListed DEF Side
<1>9. /\ book.asks \in Seq(Entry) /\ Lists(book.asks, OnSideOf(B, all, high, "ask"), "ask")
      /\ Ascends(book.asks, Len(book.asks), up) /\ ToSet(book.asks) \in SUBSET ToSet(sells)
  BY <1>2, <1>5, <1>6, SortListed DEF Side
<1>10. ASSUME NEW x \in DOMAIN book.bids, NEW y \in DOMAIN book.bids, x < y
       PROVE  book.bids[x].price >= book.bids[y].price
  <2>1. book.bids[x] \in ToSet(buys) /\ book.bids[y] \in ToSet(buys)
    BY <1>8 DEF ToSet
  <2>2. down[book.bids[x]] <= down[book.bids[y]]
    BY <1>8, <1>10 DEF Ascends
  <2> QED  BY <1>7, <2>1, <2>2
<1>11. ASSUME NEW x \in DOMAIN book.asks, NEW y \in DOMAIN book.asks, x < y
       PROVE  book.asks[x].price <= book.asks[y].price
  <2>1. book.asks[x] \in ToSet(sells) /\ book.asks[y] \in ToSet(sells)
    BY <1>9 DEF ToSet
  <2>2. up[book.asks[x]] <= up[book.asks[y]]
    BY <1>9, <1>11 DEF Ascends
  <2> QED  BY <1>7, <2>1, <2>2
<1> QED  BY <1>8, <1>9, <1>10, <1>11 DEF BookListed

\* What is shown names the orders of the book, each with its side.
ShowsBook(L, h, B, all, high) ==
    /\ L \in Seq(Entry)
    /\ h \in Bijection(1 .. Len(L), B)
    /\ \A k \in 1 .. Len(L) : L[k] = FrontendOrder(h[k], SideOf(h[k], all, high))

LEMMA ShownLists ==
    ASSUME NEW all, NEW B, IsCopy(all, B), NEW high \in BOOLEAN,
           NEW book, BookListed(book, B, all, high)
    PROVE  \E h : ShowsBook(book.bids \o book.asks, h, B, all, high)
<1> DEFINE b == book.bids
           a == book.asks
           n == Len(b)
           m == Len(a)
           L == b \o a
           Bids == OnSideOf(B, all, high, "bid")
           Asks == OnSideOf(B, all, high, "ask")
<1>1. PICK f \in Bijection(1 .. n, Bids) : \A k \in 1 .. n : b[k] = FrontendOrder(f[k], "bid")
  BY DEF BookListed, Lists
<1>2. PICK g \in Bijection(1 .. m, Asks) : \A k \in 1 .. m : a[k] = FrontendOrder(g[k], "ask")
  BY DEF BookListed, Lists
<1>3. b \in Seq(Entry) /\ a \in Seq(Entry)
  BY DEF BookListed
<1> HIDE DEF a, b
<1>4. /\ n \in Nat /\ m \in Nat /\ L \in Seq(Entry) /\ Len(L) = n + m
      /\ \A k \in 1 .. n + m : L[k] = IF k <= n THEN b[k] ELSE a[k - n]
  BY <1>3
<1> HIDE DEF n, m, L
<1> DEFINE h == [k \in 1 .. n + m |-> IF k <= n THEN f[k] ELSE g[k - n]]
<1>5. /\ f \in [1 .. n -> Bids] /\ (\A x, y \in 1 .. n : f[x] = f[y] => x = y)
      /\ \A y \in Bids : \E x \in 1 .. n : f[x] = y
  BY DEF Bijection, Injection, Surjection, IsInjective
<1>6. /\ g \in [1 .. m -> Asks] /\ (\A x, y \in 1 .. m : g[x] = g[y] => x = y)
      /\ \A y \in Asks : \E x \in 1 .. m : g[x] = y
  BY DEF Bijection, Injection, Surjection, IsInjective
<1>7. /\ Bids \cap Asks = {} /\ Bids \cup Asks = B
      /\ (\A x \in Bids : SideOf(x, all, high) = "bid")
      /\ \A x \in Asks : SideOf(x, all, high) = "ask"
  BY SidesApart DEF OnSideOf, Side
<1> HIDE DEF Bids, Asks
<1>8. /\ \A k \in 1 .. n : k \in 1 .. n + m /\ h[k] = f[k]
      /\ \A k \in 1 .. m : n + k \in 1 .. n + m /\ h[n + k] = g[k]
      /\ \A k \in 1 .. n + m : k \in 1 .. n \/ \E l \in 1 .. m : k = n + l
  <2>1. ASSUME NEW k \in 1 .. n PROVE k \in 1 .. n + m /\ h[k] = f[k]
    BY <1>4
  <2>2. ASSUME NEW k \in 1 .. m PROVE n + k \in 1 .. n + m /\ h[n + k] = g[k]
    <3>1. n + k \in 1 .. n + m /\ ~(n + k <= n) /\ n + k - n = k
      BY <1>4
    <3> DEFINE l == n + k
    <3>2. h[l] = IF l <= n THEN f[l] ELSE g[l - n]
      <4> HIDE DEF l
      <4> QED  BY <3>1 DEF l
    <3> HIDE DEF h, l
    <3>3. l - n = k /\ l \in 1 .. n + m /\ ~(l <= n)
      BY <1>4, <3>1 DEF l
    <3>4. h[l] = g[k]
      BY <3>2, <3>3
    <3> QED  BY <3>3, <3>4 DEF l
  <2>3. ASSUME NEW k \in 1 .. n + m PROVE k \in 1 .. n \/ \E l \in 1 .. m : k = n + l
    <3> HIDE DEF h
    <3>1. CASE k > n
      <4>1. k - n \in 1 .. m /\ k = n + (k - n)
        BY <1>4, <3>1
      <4> QED  BY <4>1
    <3>2. CASE ~(k > n)
      BY <1>4, <3>2
    <3> QED  BY <3>1, <3>2
  <2> QED  BY <2>1, <2>2, <2>3
<1>9. h \in [1 .. n + m -> B]
  <2>1. ASSUME NEW k \in 1 .. n + m PROVE h[k] \in B
    <3> HIDE DEF h
    <3>1. CASE k \in 1 .. n
      BY <1>5, <1>7, <1>8, <3>1
    <3>2. CASE k \notin 1 .. n
      <4>1. PICK l \in 1 .. m : k = n + l
        BY <1>8, <3>2
      <4> QED  BY <1>6, <1>7, <1>8, <4>1
    <3> QED  BY <3>1, <3>2
  <2> QED  BY <2>1
<1> HIDE DEF h
<1>10. h \in Bijection(1 .. n + m, B)
  <2>1. ASSUME NEW x \in 1 .. n + m, NEW y \in 1 .. n + m, h[x] = h[y] PROVE x = y
    <3>1. CASE x \in 1 .. n /\ y \in 1 .. n
      BY <1>5, <1>8, <2>1, <3>1
    <3>2. CASE x \in 1 .. n /\ y \notin 1 .. n
      BY <1>5, <1>6, <1>7, <1>8, <2>1, <3>2
    <3>3. CASE x \notin 1 .. n /\ y \in 1 .. n
      BY <1>5, <1>6, <1>7, <1>8, <2>1, <3>3
    <3>4. CASE x \notin 1 .. n /\ y \notin 1 .. n
      BY <1>6, <1>8, <2>1, <3>4
    <3> QED  BY <3>1, <3>2, <3>3, <3>4
  <2>2. ASSUME NEW y \in B PROVE \E x \in 1 .. n + m : h[x] = y
    BY <1>5, <1>6, <1>7, <1>8
  <2> QED  BY <1>9, <2>1, <2>2 DEF Bijection, Injection, Surjection, IsInjective
<1>11. ASSUME NEW k \in 1 .. n + m
       PROVE  L[k] = FrontendOrder(h[k], SideOf(h[k], all, high))
  <2>1. CASE k \in 1 .. n
    <3>1. L[k] = b[k] /\ h[k] = f[k] /\ f[k] \in Bids
      BY <1>4, <1>5, <1>8, <2>1
    <3> QED  BY <1>1, <1>7, <2>1, <3>1
  <2>2. CASE k \notin 1 .. n
    <3>1. PICK l \in 1 .. m : k = n + l
      BY <1>8, <2>2
    <3>2. L[k] = a[l]
      BY <1>4, <3>1
    <3>3. h[k] = g[l] /\ g[l] \in Asks
      BY <1>6, <1>8, <3>1
    <3> QED  BY <1>2, <1>7, <3>2, <3>3
  <2> QED  BY <2>1, <2>2
<1> QED  BY <1>4, <1>10, <1>11 DEF ShowsBook, L, a, b

\* What there is to show is found in what is shown, as often.
LEMMA ShownParts ==
    ASSUME NEW all, NEW B, IsCopy(all, B), NEW high \in BOOLEAN,
           NEW L, NEW h, ShowsBook(L, h, B, all, high),
           NEW S \in SUBSET (1 .. Len(L)), NEW T \in SUBSET B,
           \A k \in 1 .. Len(L) : k \in S <=> h[k] \in T
    PROVE  /\ \E f \in Bijection(S, T) : \A k \in S : f[k] = h[k]
           /\ IsFiniteSet(S) /\ IsFiniteSet(T) /\ Cardinality(S) = Cardinality(T)
<1>1. h \in Bijection(1 .. Len(L), B)
  BY DEF ShowsBook
<1> DEFINE f == [k \in S |-> h[k]]
<1>2. f \in Bijection(S, T)
  BY <1>1, BijPart
<1>3. \A k \in S : f[k] = h[k]
  OBVIOUS
<1>4. IsFiniteSet(T)
  BY FS_Subset DEF IsCopy
<1>5. IsFiniteSet(S)
  <2>1. Len(L) \in Nat
    BY DEF ShowsBook
  <2>2. IsFiniteSet(1 .. Len(L))
    BY <2>1, FS_Interval
  <2> QED  BY <2>2, FS_Subset
<1> HIDE DEF f
<1>6. Cardinality(S) = Cardinality(T)
  BY <1>2, <1>5, FS_Bijection DEF ExistsBijection
<1> QED  BY <1>2, <1>3, <1>4, <1>5, <1>6

LEMMA EntryFacts ==
    \A x, side : /\ FrontendOrder(x, side).price = x.price
                 /\ FrontendOrder(x, side).amount = x.makeAmount
                 /\ FrontendOrder(x, side).side = side
BY DEF FrontendOrder

\* The answer tells of a copy of the book as it was.
BookCopied(r) ==
    r.endpoint = "/book" =>
        \E high \in BOOLEAN : \E all :
            IsCopy(all, r.of) /\ r.book = BookOf(all, high)

LEMMA BookSound ==
    ASSUME BookCopied(reply) PROVE BookReplySound
<1> SUFFICES ASSUME reply.endpoint = "/book" PROVE BookReplySound
  BY DEF BookReplySound
<1> DEFINE B == reply.of
           book == reply.book
           L == Shown(reply)
<1>1. PICK high \in BOOLEAN : \E all : IsCopy(all, B) /\ book = BookOf(all, high)
  BY DEF BookCopied
<1>2. PICK all : IsCopy(all, B) /\ book = BookOf(all, high)
  BY <1>1
<1> HIDE DEF B, book
<1>3. BookListed(book, B, all, high)
  BY <1>2, BookLists
<1>4. PICK h : ShowsBook(book.bids \o book.asks, h, B, all, high)
  BY <1>2, <1>3, ShownLists
<1>5. ShowsBook(L, h, B, all, high)
  BY <1>4 DEF Shown, book
<1> HIDE DEF L
<1>6. Len(L) \in Nat /\ DOMAIN L = 1 .. Len(L) /\ \A k \in 1 .. Len(L) : L[k].price = h[k].price
  <2>1. Len(L) \in Nat /\ DOMAIN L = 1 .. Len(L)
    BY <1>5 DEF ShowsBook
  <2>2. ASSUME NEW k \in 1 .. Len(L) PROVE L[k].price = h[k].price
    <3>1. L[k] = FrontendOrder(h[k], SideOf(h[k], all, high))
      BY <1>5 DEF ShowsBook
    <3> QED  BY <3>1, EntryFacts
  <2> QED  BY <2>1, <2>2
<1>7. ASSUME NEW price
      PROVE  Cardinality({k \in DOMAIN L : L[k].price = price})
                = Cardinality({x \in B : x.price = price})
  <2> DEFINE S == {k \in DOMAIN L : L[k].price = price}
             T == {x \in B : x.price = price}
  <2>1. S \in SUBSET (1 .. Len(L)) /\ T \in SUBSET B
    BY <1>6
  <2>2. \A k \in 1 .. Len(L) : k \in S <=> h[k] \in T
    <3>1. \A k \in 1 .. Len(L) : h[k] \in B
      BY <1>5 DEF ShowsBook, Bijection, Injection
    <3> QED  BY <1>6, <3>1
  <2> HIDE DEF S, T
  <2>3. Cardinality(S) = Cardinality(T)
    BY <1>2, <1>5, <2>1, <2>2, ShownParts
  <2> QED  BY <2>3 DEF S, T
<1>8. Len(L) = Cardinality(B)
  <2>1. h \in Bijection(1 .. Len(L), B)
    BY <1>5 DEF ShowsBook
  <2> QED  BY <1>6, <2>1, FS_CountingElements DEF ExistsBijection
<1>9. ASSUME NEW x \in DOMAIN book.bids, NEW y \in DOMAIN book.asks
      PROVE  book.bids[x].price > book.asks[y].price
  <2>1. PICK f \in Bijection(1 .. Len(book.bids), OnSideOf(B, all, high, "bid")) :
            \A k \in 1 .. Len(book.bids) : book.bids[k] = FrontendOrder(f[k], "bid")
    BY <1>3 DEF BookListed, Lists
  <2>2. PICK g \in Bijection(1 .. Len(book.asks), OnSideOf(B, all, high, "ask")) :
            \A k \in 1 .. Len(book.asks) : book.asks[k] = FrontendOrder(g[k], "ask")
    BY <1>3 DEF BookListed, Lists
  <2>3. x \in 1 .. Len(book.bids) /\ y \in 1 .. Len(book.asks)
    BY <1>3 DEF BookListed
  <2>4. f[x] \in OnSideOf(B, all, high, "bid") /\ g[y] \in OnSideOf(B, all, high, "ask")
    BY <2>3 DEF Bijection, Injection
  <2>5. f[x].price > g[y].price
    BY <1>2, <2>4, SidesApart DEF OnSideOf
  <2>6. book.bids[x].price = f[x].price /\ book.asks[y].price = g[y].price
    <3>1. book.bids[x] = FrontendOrder(f[x], "bid") /\ book.asks[y] = FrontendOrder(g[y], "ask")
      BY <2>1, <2>2, <2>3
    <3> QED  BY <3>1, EntryFacts
  <2> QED  BY <2>5, <2>6
<1>10. /\ \A x, y \in DOMAIN book.bids : x < y => book.bids[x].price >= book.bids[y].price
       /\ \A x, y \in DOMAIN book.asks : x < y => book.asks[x].price <= book.asks[y].price
  BY <1>3 DEF BookListed
<1> QED  BY <1>7, <1>8, <1>9, <1>10 DEF BookReplySound, L, B, book

-----------------------------------------------------------------------------
(* The answer to GET /depth. *)

\* What orders offer, whatever list they are in.
Worth(T) == SumUp([x \in T |-> x.makeAmount])

LEMMA WorthFacts ==
    ASSUME NEW B \in SUBSET Order, IsFiniteSet(B), NEW T \in SUBSET B, NEW S \in SUBSET T
    PROVE  /\ Worth(S) \in Nat /\ Worth(T) \in Nat /\ Worth(S) <= Worth(T)
           /\ Worth(T) = Worth(S) + Worth(T \ S) /\ Worth(T \ S) \in Nat
<1> DEFINE g == [x \in T |-> x.makeAmount]
<1>1. IsFiniteSet(T)
  BY FS_Subset
<1>2. g \in [T -> Nat]
  BY DEF Order, Amount
<1>3. /\ [x \in S |-> g[x]] = [x \in S |-> x.makeAmount]
      /\ [x \in T \ S |-> g[x]] = [x \in T \ S |-> x.makeAmount]
  OBVIOUS
<1>4. Worth(T) = SumUp(g)
  BY DEF Worth
<1> HIDE DEF g
<1>5. /\ SumUp(g) = SumUp([x \in S |-> g[x]]) + SumUp([x \in T \ S |-> g[x]])
      /\ SumUp([x \in S |-> g[x]]) \in Nat /\ SumUp([x \in T \ S |-> g[x]]) \in Nat
  BY <1>1, <1>2, SumParts
<1>6. Worth(S) = SumUp([x \in S |-> g[x]]) /\ Worth(T \ S) = SumUp([x \in T \ S |-> g[x]])
  BY <1>3 DEF Worth
<1> QED  BY <1>4, <1>5, <1>6

\* One order offers something.
LEMMA WorthSome ==
    ASSUME NEW B \in SUBSET Order, IsFiniteSet(B), NEW T \in SUBSET B, NEW x \in T,
           x.makeAmount > 0
    PROVE  Worth(T) > 0
<1> DEFINE S == {x}
           none == {}
           g == [y \in none |-> y.makeAmount]
           e == [y \in S |-> y.makeAmount]
<1>1. S = none \cup {x} /\ x \notin none /\ IsFiniteSet(none)
  BY FS_EmptySet
<1>2. g \in [none -> Nat] /\ \A y \in none : g[y] = e[y]
  OBVIOUS
<1>3. e \in [S -> Nat] /\ e[x] = x.makeAmount
  BY DEF Order, Amount
<1> DEFINE R == SumUp(e)
<1> HIDE DEF none, g, e
<1>6. R = SumUp(g) + e[x] /\ SumUp(g) \in Nat
  <2>1. e \in [none \cup {x} -> Nat]
    BY <1>1, <1>3
  <2> HIDE DEF S
  <2> QED  BY <1>1, <1>2, <2>1, SumAdd
<1>7. Worth(S) = R
  BY DEF Worth, e
<1>4. Worth(S) <= Worth(T) /\ Worth(S) \in Nat /\ Worth(T) \in Nat
  <2>1. S \in SUBSET T
    OBVIOUS
  <2> HIDE DEF S
  <2> QED  BY <2>1, WorthFacts
<1>5. x.makeAmount \in Nat
  BY DEF Order, Amount
<1> HIDE DEF R, S
<1> QED  BY <1>3, <1>6, <1>7, <1>4, <1>5

\* Places of a copy offer what the orders there do.
LEMMA OfferedWorth ==
    ASSUME NEW all, NEW B, IsCopy(all, B), NEW S \in SUBSET DOMAIN all, NEW T \in SUBSET B,
           \A k \in DOMAIN all : k \in S <=> all[k] \in T
    PROVE  Offered(all, S) = Worth(T)
<1> DEFINE f == [k \in S |-> all[k]]
           g == [k \in S |-> all[k].makeAmount]
           w == [x \in T |-> x.makeAmount]
<1>1. DOMAIN all = 1 .. Cardinality(B) /\ Cardinality(B) \in Nat
      /\ \A k \in DOMAIN all : all[k] \in B
  BY CopyFacts
<1>2. f \in Bijection(S, T)
  BY <1>1, BijPart DEF IsCopy
<1>3. IsFiniteSet(S)
  <2>1. IsFiniteSet(DOMAIN all)
    BY <1>1, FS_Interval
  <2> QED  BY <2>1, FS_Subset
<1>4. g \in [S -> Nat] /\ w \in [T -> Nat]
  <2>1. \A x \in B : x.makeAmount \in Nat
    BY DEF IsCopy, Order, Amount
  <2> QED  BY <1>1, <2>1
<1>5. \A k \in S : g[k] = w[f[k]]
  OBVIOUS
<1> HIDE DEF f, g, w
<1>6. SumUp(g) = SumUp(w)
  BY <1>2, <1>3, <1>4, <1>5, SumMoved
<1> QED  BY <1>6 DEF Offered, Worth, g, w

\* The prices of the orders, each once, the lowest first.
Listing(t, Z) ==
    /\ Len(t) \in Nat /\ t \in [1 .. Len(t) -> Z] /\ DOMAIN t = 1 .. Len(t)
    /\ \A p \in Z : \E k \in 1 .. Len(t) : t[k] = p
    /\ \A a, b \in 1 .. Len(t) : a < b => t[a] < t[b]

LEMMA PricesSorted ==
    ASSUME NEW all, NEW B, IsCopy(all, B)
    PROVE  Listing(PricePoints(all), {x.price : x \in B})
<1> DEFINE Z == {x.price : x \in B}
           n == Cardinality(Z)
           q == SetToSeq(Z)
           rank == [price \in Z |-> price]
           t == PricePoints(all)
<1>1. {all[k].price : k \in DOMAIN all} = Z
  BY CopyFacts
<1>2. t = ExchangeSort(q, rank)
  BY <1>1 DEF PricePoints
<1>3. \A p \in Z : p \in Nat
  BY DEF IsCopy, Order
<1>4. IsFiniteSet(Z)
  <2> DEFINE f == [x \in B |-> x.price]
  <2>1. f \in Surjection(B, Z)
    BY DEF Surjection
  <2> HIDE DEF f, Z
  <2> QED  BY <2>1, FS_Surjection DEF IsCopy
<1> HIDE DEF Z
<1>5. n \in Nat /\ ExistsBijection(1 .. n, Z)
  BY <1>4, FS_CardinalityType
<1>6. q \in [1 .. n -> Z] /\ IsInjective(q)
  <2>1. \E f : f \in [1 .. n -> Z] /\ IsInjective(f)
    BY <1>5 DEF ExistsBijection, Bijection, Injection
  <2> QED  BY <2>1 DEF SetToSeq
<1>7. rank \in [Z -> Int] /\ \A p \in Z : rank[p] = p
  BY <1>3
<1> HIDE DEF n, q, rank, t
<1>8. t \in [1 .. n -> Z] /\ Rearranges(t, q, n) /\ Ascends(t, n, rank)
  BY <1>2, <1>5, <1>6, <1>7, SortSorts
<1>9. PICK f \in Bijection(1 .. n, 1 .. n) : t = [k \in 1 .. n |-> q[f[k]]]
  BY <1>8 DEF Rearranges
<1>10. \A a, b \in 1 .. n : t[a] = t[b] => a = b
  <2>1. f \in [1 .. n -> 1 .. n] /\ \A a, b \in 1 .. n : f[a] = f[b] => a = b
    BY DEF Bijection, Injection, IsInjective
  <2> QED  BY <1>6, <1>9, <2>1 DEF IsInjective
<1>11. \A a, b \in 1 .. n : a < b => t[a] < t[b]
  <2> TAKE a \in 1 .. n, b \in 1 .. n
  <2> HAVE a < b
  <2>1. t[a] # t[b] /\ t[a] \in Z /\ t[b] \in Z
    BY <1>8, <1>10
  <2>2. t[a] <= t[b]
    BY <1>7, <1>8, <2>1 DEF Ascends
  <2> QED  BY <1>3, <2>1, <2>2
<1>12. \A p \in Z : \E k \in 1 .. n : t[k] = p
  <2>1. t \in Injection(1 .. n, Z)
    BY <1>8, <1>10 DEF Injection, IsInjective
  <2>2. Cardinality(1 .. n) = n /\ IsFiniteSet(1 .. n)
    BY <1>5, FS_Interval
  <2>3. t \in Surjection(1 .. n, Z)
    BY <1>4, <2>1, <2>2, FS_Injection DEF n
  <2> QED  BY <2>3 DEF Surjection
<1>13. Len(t) = n /\ DOMAIN t = 1 .. n
  BY <1>5, <1>8
<1> QED  BY <1>5, <1>8, <1>11, <1>12, <1>13 DEF Z, t, Listing

\* The orders of a side up to a price.
UpToPrice(B, all, high, side, price) ==
    {x \in B : SideOf(x, all, high) = side /\ x.price <= price}

LEMMA DepthWorth ==
    ASSUME NEW all, NEW B, IsCopy(all, B), NEW high \in BOOLEAN,
           NEW d, d = DepthsOf(all, high), NEW t, t = PricePoints(all)
    PROVE  /\ DOMAIN d = DOMAIN t
           /\ \A k \in DOMAIN t :
                /\ d[k].price = t[k]
                /\ d[k].bidDepth = Worth(UpToPrice(B, all, high, "bid", t[k]))
                /\ d[k].askDepth = Worth(UpToPrice(B, all, high, "ask", t[k]))
<1> DEFINE V(side, price) == Offered(all, {k \in DOMAIN all :
                SideOf(all[k], all, high) = side /\ all[k].price <= price})
           W(side, price) == Worth(UpToPrice(B, all, high, side, price))
<1>1. \A k \in DOMAIN all : all[k] \in B
  BY CopyFacts
<1>2. ASSUME NEW side, NEW price
      PROVE  V(side, price) = W(side, price)
  <2> DEFINE S == {k \in DOMAIN all : SideOf(all[k], all, high) = side /\ all[k].price <= price}
             T == UpToPrice(B, all, high, side, price)
  <2>1. S \in SUBSET DOMAIN all /\ T \in SUBSET B
    BY DEF UpToPrice
  <2>2. \A k \in DOMAIN all : k \in S <=> all[k] \in T
    BY <1>1 DEF UpToPrice
  <2> HIDE DEF S, T
  <2>3. Offered(all, S) = Worth(T)
    BY <2>1, <2>2, OfferedWorth
  <2> QED  BY <2>3 DEF S, T
<1>3. ASSUME NEW k \in DOMAIN t
      PROVE  /\ d[k].price = t[k]
             /\ d[k].bidDepth = V("bid", t[k]) /\ d[k].askDepth = V("ask", t[k])
  BY DEF DepthsOf
<1>4. DOMAIN d = DOMAIN t
  BY DEF DepthsOf
<1>5. ASSUME NEW k \in DOMAIN t
      PROVE  /\ d[k].price = t[k]
             /\ d[k].bidDepth = W("bid", t[k]) /\ d[k].askDepth = W("ask", t[k])
  <2> HIDE DEF V, W
  <2> QED  BY <1>2, <1>3
<1> QED  BY <1>4, <1>5

\* What an answer of /depth is kept as.
DepthCopied(r) ==
    r.endpoint = "/depth" => r.high \in BOOLEAN /\ \E all :
        IsCopy(all, r.of) /\ r.depths = DepthsOf(all, r.high)

LEMMA DepthSound ==
    ASSUME DepthCopied(reply) PROVE DepthReplySound
<1> SUFFICES ASSUME reply.endpoint = "/depth" PROVE DepthReplySound
  BY DEF DepthReplySound
<1> DEFINE B == reply.of
           d == reply.depths
           high == reply.high
<1>1. PICK all : IsCopy(all, B) /\ d = DepthsOf(all, high)
  BY DEF DepthCopied
<1>2. high \in BOOLEAN
  BY DEF DepthCopied
<1> DEFINE t == PricePoints(all)
           U(side, price) == UpToPrice(B, all, high, side, price)
           Z == {x.price : x \in B}
<1> HIDE DEF B, d, high
<1>3. /\ DOMAIN d = DOMAIN t
      /\ \A k \in DOMAIN t :
           /\ d[k].price = t[k]
           /\ d[k].bidDepth = Worth(U("bid", t[k]))
           /\ d[k].askDepth = Worth(U("ask", t[k]))
  BY <1>1, <1>2, DepthWorth
<1>4. /\ Len(t) \in Nat /\ t \in [1 .. Len(t) -> Z] /\ DOMAIN t = 1 .. Len(t)
      /\ \A p \in Z : \E k \in 1 .. Len(t) : t[k] = p
      /\ \A a, b \in 1 .. Len(t) : a < b => t[a] < t[b]
  BY <1>1, PricesSorted DEF Listing
<1>5. B \in SUBSET Order /\ IsFiniteSet(B) /\ \A x \in B : x.price \in Nat
  BY <1>1 DEF IsCopy, Order
<1>6. \A p \in Z : p \in Nat
  BY <1>5
<1> HIDE DEF t
<1>7. \A side, price : U(side, price) \in SUBSET B
  BY DEF UpToPrice
<1>8. {d[k].price : k \in DOMAIN d} = Z
  <2>1. \A k \in DOMAIN d : d[k].price \in Z
    BY <1>3, <1>4
  <2>2. \A p \in Z : \E k \in DOMAIN d : d[k].price = p
    BY <1>3, <1>4
  <2> HIDE DEF Z
  <2> QED  BY <2>1, <2>2
<1>9. ASSUME NEW x \in DOMAIN d, NEW y \in DOMAIN d, x < y
      PROVE  /\ d[x].price < d[y].price
             /\ d[x].bidDepth <= d[y].bidDepth
             /\ d[x].askDepth <= d[y].askDepth
  <2>1. t[x] < t[y] /\ t[x] \in Nat /\ t[y] \in Nat
    BY <1>3, <1>4, <1>6, <1>9
  <2>2. ASSUME NEW side PROVE Worth(U(side, t[x])) <= Worth(U(side, t[y]))
    <3>1. U(side, t[x]) \in SUBSET U(side, t[y])
      BY <1>5, <2>1 DEF UpToPrice
    <3>2. U(side, t[y]) \in SUBSET B
      BY <1>7
    <3> HIDE DEF U
    <3> QED  BY <1>5, <3>1, <3>2, WorthFacts
  <2>3. d[x].price < d[y].price
    BY <1>3, <2>1
  <2>4. d[x].bidDepth <= d[y].bidDepth
    BY <1>3, <2>2
  <2>5. d[x].askDepth <= d[y].askDepth
    BY <1>3, <2>2
  <2> QED  BY <2>3, <2>4, <2>5
<1>10. ASSUME d # <<>>
       PROVE  d[Len(d)].bidDepth + d[Len(d)].askDepth = SumUp([x \in B |-> x.makeAmount])
  <2> DEFINE n == Len(t)
  <2>1. n \in 1 .. n /\ Len(d) = n
    <3>1. DOMAIN d = 1 .. n /\ n \in Nat
      BY <1>3, <1>4
    <3>2. Len(d) = n
      <4>1. d = [k \in DOMAIN t |-> d[k]]
        BY <1>1, <1>3 DEF DepthsOf, t
      <4> QED  BY <1>4, <4>1
    <3>3. n # 0
      <4> SUFFICES ASSUME n = 0 PROVE FALSE
        OBVIOUS
      <4>1. d = [k \in {} |-> d[k]]
        <5>1. DOMAIN t = {}
          BY <1>4
        <5> QED  BY <1>1, <5>1 DEF DepthsOf, t
      <4> QED  BY <1>10, <4>1
    <3> QED  BY <3>1, <3>2, <3>3
  <2>2. \A x \in B : x.price <= t[n]
    <3> TAKE x \in B
    <3>1. PICK k \in 1 .. n : t[k] = x.price
      BY <1>4
    <3>2. k = n \/ k < n
      <4>1. n \in Nat
        BY <1>4
      <4> HIDE DEF n
      <4> QED  BY <4>1
    <3>3. k = n \/ t[k] < t[n]
      BY <1>4, <2>1, <3>2
    <3>4. t[n] \in Nat
      BY <1>4, <1>6, <2>1
    <3> QED  BY <1>5, <3>1, <3>3, <3>4
  <2>3. \A x \in B : SideOf(x, all, high) \in {"bid", "ask"}
    BY DEF SideOf
  <2>4. U("ask", t[n]) = B \ U("bid", t[n])
    BY <2>2, <2>3 DEF UpToPrice
  <2>5. Worth(B) = Worth(U("bid", t[n])) + Worth(B \ U("bid", t[n]))
    <3>1. U("bid", t[n]) \in SUBSET B
      BY <1>7
    <3> HIDE DEF U
    <3> QED  BY <1>5, <3>1, WorthFacts
  <2>6. d[n].bidDepth = Worth(U("bid", t[n])) /\ d[n].askDepth = Worth(U("ask", t[n]))
    BY <1>3, <1>4, <2>1
  <2> HIDE DEF U
  <2> QED  BY <2>1, <2>4, <2>5, <2>6 DEF Worth
<1> QED  BY <1>8, <1>9, <1>10 DEF DepthReplySound, B, d, Z
-----------------------------------------------------------------------------
(* The depths the chart works out of what is shown. *)

\* Of some orders on one side, the one that all others are as good as.
LEMMA WorstExists ==
    ASSUME NEW X \in SUBSET Order, X # {}, NEW side \in Side, NEW p \in Int,
           \A x \in X : AsGood(side, x.price, p)
    PROVE  \E y \in X : \A x \in X : AsGood(side, x.price, y.price)
<1>1. \A x \in X : x.price \in Nat
  BY DEF Order
<1>2. CASE side = "bid"
  <2> DEFINE N == {x.price : x \in X}
  <2>1. PICK n \in N : \A m \in N : n <= m
    <3>1. N \in SUBSET Nat /\ N # {}
      BY <1>1
    <3> HIDE DEF N
    <3> QED  BY <3>1, LeastExists
  <2>2. PICK y \in X : n = y.price
    BY <2>1
  <2>3. \A x \in X : y.price <= x.price
    BY <2>1, <2>2
  <2> QED  BY <1>1, <1>2, <2>3 DEF AsGood
<1>3. CASE side = "ask"
  <2> DEFINE N == {p - x.price : x \in X}
  <2>1. \A x \in X : x.price <= p /\ p - x.price \in Nat
    BY <1>1, <1>3 DEF AsGood
  <2>2. PICK n \in N : \A m \in N : n <= m
    <3>1. N \in SUBSET Nat /\ N # {}
      BY <2>1
    <3> HIDE DEF N
    <3> QED  BY <3>1, LeastExists
  <2>3. PICK y \in X : n = p - y.price
    BY <2>2
  <2>4. \A x \in X : x.price <= y.price
    <3> TAKE x \in X
    <3>1. p - y.price <= p - x.price
      BY <2>2, <2>3
    <3> QED  BY <1>1, <3>1
  <2> QED  BY <1>1, <1>3, <2>4 DEF AsGood
<1> QED  BY <1>2, <1>3 DEF Side

\* Places of a list of orders have the amounts of the orders there.
LEMMA AmountWorth ==
    ASSUME NEW D \in SUBSET Order, NEW L \in Seq(Entry),
           NEW h \in Bijection(1 .. Len(L), D), \A k \in 1 .. Len(L) : L[k].amount = h[k].makeAmount,
           NEW S \in SUBSET (1 .. Len(L)), NEW T \in SUBSET D,
           \A k \in 1 .. Len(L) : k \in S <=> h[k] \in T
    PROVE  AmountOf(L, S) = Worth(T)
<1> DEFINE f == [k \in S |-> h[k]]
           g == [k \in S |-> L[k].amount]
           w == [x \in T |-> x.makeAmount]
<1>1. Len(L) \in Nat /\ IsFiniteSet(1 .. Len(L))
  BY FS_Interval
<1>2. IsFiniteSet(S)
  BY <1>1, FS_Subset
<1>3. f \in Bijection(S, T)
  BY BijPart
<1>4. w \in [T -> Nat]
  BY DEF Order, Amount
<1>5. h \in [1 .. Len(L) -> D]
  BY BijFacts
<1>6. g \in [S -> Nat] /\ \A k \in S : g[k] = w[f[k]]
  <2>1. \A k \in S : L[k].amount = h[k].makeAmount /\ h[k] \in T
    OBVIOUS
  <2> QED  BY <1>4, <2>1
<1>7. Renamed(g, w, f, S, T)
  <2> HIDE DEF f, g, w
  <2> QED  BY <1>2, <1>3, <1>4, <1>6 DEF Renamed
<1> HIDE DEF f, g, w
<1>8. SumUp(g) = SumUp(w)
  BY <1>7, SumRenamed
<1> QED  BY <1>8 DEF AmountOf, Worth, g, w

LEMMA WorthNothing == Worth({}) = 0
<1> DEFINE none == {}
           g == [x \in none |-> x.makeAmount]
<1>1. g \in [none -> Nat] /\ DOMAIN g = none
  OBVIOUS
<1>2. Worth(none) = SumUp(g)
  BY DEF Worth
<1> HIDE DEF g
<1> QED  BY <1>1, <1>2, SumEmpty

\* The orders of a side that are as good as a price.
Reaching(B, all, high, side, price) ==
    {x \in B : SideOf(x, all, high) = side /\ AsGood(side, x.price, price)}

LEMMA ShownFacts ==
    ASSUME NEW all, NEW B, IsCopy(all, B), NEW high, NEW L, NEW h, ShowsBook(L, h, B, all, high)
    PROVE  /\ DOMAIN L = 1 .. Len(L) /\ h \in [1 .. Len(L) -> B]
           /\ \A x \in B : \E k \in 1 .. Len(L) : h[k] = x
           /\ \A k \in 1 .. Len(L) :
                /\ L[k].price = h[k].price /\ L[k].amount = h[k].makeAmount
                /\ L[k].side = SideOf(h[k], all, high) /\ h[k].price \in Nat
<1>1. h \in [1 .. Len(L) -> B] /\ \A x \in B : \E k \in 1 .. Len(L) : h[k] = x
  BY DEF ShowsBook, Bijection, Injection, Surjection
<1>2. ASSUME NEW k \in 1 .. Len(L)
      PROVE  /\ L[k].price = h[k].price /\ L[k].amount = h[k].makeAmount
             /\ L[k].side = SideOf(h[k], all, high) /\ h[k].price \in Nat
  <2>1. L[k] = FrontendOrder(h[k], SideOf(h[k], all, high))
    BY DEF ShowsBook
  <2>2. h[k] \in Order
    BY <1>1 DEF IsCopy
  <2> QED  BY <2>1, <2>2, EntryFacts DEF Order
<1>3. DOMAIN L = 1 .. Len(L)
  BY DEF ShowsBook
<1> QED  BY <1>1, <1>2, <1>3

\* The running sums of the chart come to what the orders that reach a price offer.
LEMMA DepthAtWorth ==
    ASSUME NEW all, NEW B, IsCopy(all, B), NEW high \in BOOLEAN,
           NEW L, NEW h, ShowsBook(L, h, B, all, high), NEW side \in Side, NEW p \in Int
    PROVE  DepthAt(p, side, L) = Worth(Reaching(B, all, high, side, p))
<1> DEFINE mine == {k \in DOMAIN L : L[k].side = side}
           UpTo(k) == {l \in mine : AsGood(side, L[l].price, L[k].price)}
           reaching == {k \in mine : AsGood(side, L[k].price, p)}
           sums == {0} \cup {AmountOf(L, UpTo(k)) : k \in reaching}
           Y(q) == Reaching(B, all, high, side, q)
           v == Worth(Y(p))
<1>1. DepthAt(p, side, L) = Max(sums)
  BY DEF DepthAt
<1>2. /\ DOMAIN L = 1 .. Len(L) /\ h \in [1 .. Len(L) -> B]
      /\ \A x \in B : \E k \in 1 .. Len(L) : h[k] = x
      /\ \A k \in 1 .. Len(L) :
           /\ L[k].price = h[k].price /\ L[k].amount = h[k].makeAmount
           /\ L[k].side = SideOf(h[k], all, high) /\ h[k].price \in Nat
  BY ShownFacts
<1>3. B \in SUBSET Order /\ IsFiniteSet(B) /\ \A x \in B : x.price \in Nat
  BY DEF IsCopy, Order
<1>4. \A q : Y(q) \in SUBSET B
  BY DEF Reaching
<1>5. \A k \in reaching : k \in 1 .. Len(L) /\ AsGood(side, h[k].price, p)
  BY <1>2
<1>6. ASSUME NEW k \in reaching PROVE AmountOf(L, UpTo(k)) = Worth(Y(L[k].price))
  <2> DEFINE S == UpTo(k)
             T == Y(L[k].price)
  <2>1. S \in SUBSET (1 .. Len(L)) /\ T \in SUBSET B
    BY <1>2, <1>4
  <2>2. \A l \in 1 .. Len(L) : l \in S <=> h[l] \in T
    BY <1>2 DEF Reaching
  <2>3. L \in Seq(Entry) /\ h \in Bijection(1 .. Len(L), B)
    BY DEF ShowsBook
  <2>4. \A l \in 1 .. Len(L) : L[l].amount = h[l].makeAmount
    BY <1>2
  <2> HIDE DEF S, T
  <2>5. AmountOf(L, S) = Worth(T)
    BY <1>3, <2>1, <2>2, <2>3, <2>4, AmountWorth
  <2> QED  BY <2>5 DEF S, T
<1>7. v \in Nat
  <2>1. Y(p) \in SUBSET B
    BY <1>4
  <2> HIDE DEF Y
  <2> QED  BY <1>3, <2>1, WorthFacts
<1>8. ASSUME NEW k \in reaching PROVE AmountOf(L, UpTo(k)) \in Nat /\ AmountOf(L, UpTo(k)) <= v
  <2>1. Y(L[k].price) \in SUBSET Y(p)
    <3>1. L[k].price \in Nat /\ AsGood(side, L[k].price, p)
      BY <1>2, <1>5
    <3>2. \A x \in B : AsGood(side, x.price, L[k].price) => AsGood(side, x.price, p)
      BY <1>3, <3>1 DEF AsGood
    <3> QED  BY <3>2 DEF Reaching
  <2>2. Y(p) \in SUBSET B
    BY <1>4
  <2>3. AmountOf(L, UpTo(k)) = Worth(Y(L[k].price))
    BY <1>6
  <2> HIDE DEF Y, UpTo
  <2> QED  BY <1>3, <2>1, <2>2, <2>3, WorthFacts
<1>9. v \in sums
  <2>1. CASE Y(p) = {}
    BY <2>1, WorthNothing
  <2>2. CASE Y(p) # {}
    <3>1. PICK y \in Y(p) : \A x \in Y(p) : AsGood(side, x.price, y.price)
      <4>1. Y(p) \in SUBSET Order /\ \A x \in Y(p) : AsGood(side, x.price, p)
        BY <1>3 DEF Reaching
      <4> HIDE DEF Y
      <4> QED  BY <2>2, <4>1, WorstExists
    <3>2. PICK k \in 1 .. Len(L) : h[k] = y
      BY <1>2, <1>4
    <3>3. k \in reaching /\ L[k].price = y.price
      BY <1>2, <3>1, <3>2 DEF Reaching
    <3>4. Y(y.price) = Y(p)
      <4>1. \A x \in Y(y.price) : x \in Y(p)
        <5> TAKE x \in Y(y.price)
        <5>1. x \in B /\ y \in B /\ AsGood(side, x.price, y.price) /\ AsGood(side, y.price, p)
          BY <3>1 DEF Reaching
        <5>2. AsGood(side, x.price, p)
          BY <1>3, <5>1 DEF AsGood
        <5> QED  BY <5>1, <5>2 DEF Reaching
      <4>2. \A x \in Y(p) : x \in Y(y.price)
        BY <3>1 DEF Reaching
      <4> HIDE DEF Y
      <4> QED  BY <4>1, <4>2
    <3>5. AmountOf(L, UpTo(k)) = v
      <4>1. AmountOf(L, UpTo(k)) = Worth(Y(L[k].price))
        BY <1>6, <3>3
      <4> HIDE DEF Y, UpTo
      <4> QED  BY <3>3, <3>4, <4>1
    <3> QED  BY <3>3, <3>5
  <2> QED  BY <2>1, <2>2
<1>10. \A u \in sums : u \in Nat /\ u <= v
  <2>1. \A u \in sums : u = 0 \/ \E k \in reaching : u = AmountOf(L, UpTo(k))
    OBVIOUS
  <2> HIDE DEF sums, reaching, UpTo, v
  <2> QED  BY <1>7, <1>8, <2>1
<1>11. Max(sums) = v
  <2> HIDE DEF sums, v
  <2> QED  BY <1>7, <1>9, <1>10, MaxIs
<1> QED  BY <1>1, <1>11

\* The sums of a side that is shown are those of its orders.
SideSums(s, D, p) ==
    /\ AmountOf(s, {k \in DOMAIN s : s[k].price >= p}) = Worth({x \in D : x.price >= p})
    /\ AmountOf(s, {k \in DOMAIN s : s[k].price <= p}) = Worth({x \in D : x.price <= p})
    /\ AmountOf(s, DOMAIN s) = Worth(D)

LEMMA SideWorth ==
    ASSUME NEW B \in SUBSET Order, NEW D \in SUBSET B, NEW s \in Seq(Entry), NEW side,
           Lists(s, D, side), NEW p \in Int
    PROVE  SideSums(s, D, p)
<1>1. PICK f \in Bijection(1 .. Len(s), D) : \A k \in 1 .. Len(s) : s[k] = FrontendOrder(f[k], side)
  BY DEF Lists
<1>2. \A k \in 1 .. Len(s) : s[k].price = f[k].price /\ s[k].amount = f[k].makeAmount
  <2> TAKE k \in 1 .. Len(s)
  <2>1. s[k] = FrontendOrder(f[k], side)
    BY <1>1
  <2> QED  BY <2>1, EntryFacts
<1>3. DOMAIN s = 1 .. Len(s) /\ D \in SUBSET Order
  OBVIOUS
<1>4. f \in [1 .. Len(s) -> D]
  BY BijFacts
<1>5. ASSUME NEW S \in SUBSET (1 .. Len(s)), NEW T \in SUBSET D,
             \A k \in 1 .. Len(s) : k \in S <=> f[k] \in T
      PROVE  AmountOf(s, S) = Worth(T)
  BY <1>2, <1>3, <1>5, AmountWorth
<1>6. AmountOf(s, {k \in DOMAIN s : s[k].price >= p}) = Worth({x \in D : x.price >= p})
  <2> DEFINE S == {k \in DOMAIN s : s[k].price >= p}
             T == {x \in D : x.price >= p}
  <2>1. S \in SUBSET (1 .. Len(s)) /\ T \in SUBSET D /\ \A k \in 1 .. Len(s) : k \in S <=> f[k] \in T
    BY <1>2, <1>3, <1>4
  <2> HIDE DEF S, T
  <2>2. AmountOf(s, S) = Worth(T)
    BY <1>5, <2>1
  <2> QED  BY <2>2 DEF S, T
<1>7. AmountOf(s, {k \in DOMAIN s : s[k].price <= p}) = Worth({x \in D : x.price <= p})
  <2> DEFINE S == {k \in DOMAIN s : s[k].price <= p}
             T == {x \in D : x.price <= p}
  <2>1. S \in SUBSET (1 .. Len(s)) /\ T \in SUBSET D /\ \A k \in 1 .. Len(s) : k \in S <=> f[k] \in T
    BY <1>2, <1>3, <1>4
  <2> HIDE DEF S, T
  <2>2. AmountOf(s, S) = Worth(T)
    BY <1>5, <2>1
  <2> QED  BY <2>2 DEF S, T
<1>8. AmountOf(s, DOMAIN s) = Worth(D)
  <2>1. \A k \in 1 .. Len(s) : k \in 1 .. Len(s) <=> f[k] \in D
    BY <1>4
  <2>2. 1 .. Len(s) \in SUBSET (1 .. Len(s)) /\ D \in SUBSET D
    OBVIOUS
  <2>3. AmountOf(s, 1 .. Len(s)) = Worth(D)
    BY <1>5, <2>1, <2>2
  <2> QED  BY <1>3, <2>3
<1> QED  BY <1>6, <1>7, <1>8 DEF SideSums

-----------------------------------------------------------------------------
(* The prices the chart has points for. *)

LEMMA StepPositive == GridStep \in Nat /\ GridStep > 0 /\ Margin \in Nat /\ 2 * Margin >= 3 * GridStep
<1>1. GridStep \in Nat /\ GridStep % 2 = 1
  BY GridAssumption DEF GridAssumption
<1>2. GridStep # 0
  <2>1. 0 % 2 = 0
    OBVIOUS
  <2> QED  BY <1>1, <2>1
<1> QED  BY <1>1, <1>2, GridAssumption DEF GridAssumption

LEMMA Division ==
    ASSUME NEW a \in Int, NEW b \in Nat, b > 0
    PROVE  /\ a \div b \in Int /\ a % b \in 0 .. b - 1
           /\ a = b * (a \div b) + (a % b)
OBVIOUS

LEMMA Multiples ==
    ASSUME NEW g \in Nat, g > 0, NEW k \in Int PROVE (g * k) % g = 0
<1> DEFINE a == g * k
           d == a \div g
           m == a % g
<1>1. a \in Int
  OBVIOUS
<1>2. d \in Int /\ m \in 0 .. g - 1 /\ a = g * d + m
  <2> HIDE DEF a
  <2> QED  BY <1>1, Division
<1>3. g * k = g * d + m
  BY <1>2
<1> HIDE DEF a, d, m
<1>4. m = g * (k - d)
  BY <1>2, <1>3
<1>5. ~(k - d >= 1)
  <2> SUFFICES ASSUME k - d >= 1 PROVE FALSE
    OBVIOUS
  <2>1. g * (k - d) >= g * 1
    BY <1>2
  <2> QED  BY <1>2, <1>4, <2>1
<1>6. ~(k - d <= -1)
  <2> SUFFICES ASSUME k - d <= -1 PROVE FALSE
    OBVIOUS
  <2>1. g * (k - d) <= g * (-1)
    BY <1>2
  <2> QED  BY <1>2, <1>4, <2>1
<1>7. k - d = 0
  BY <1>2, <1>5, <1>6
<1> QED  BY <1>4, <1>7 DEF a, m

\* Rounding moves a price by half a step at most.
LEMMA RoundedNear ==
    ASSUME NEW p \in Int
    PROVE  /\ Rounded(p) \in Int
           /\ 2 * Rounded(p) <= 2 * p + GridStep /\ 2 * Rounded(p) >= 2 * p - GridStep
<1> DEFINE g == GridStep
           a == 2 * p + g
           b == 2 * g
           d == a \div b
           m == a % b
<1>1. g \in Nat /\ g > 0
  BY StepPositive
<1> HIDE DEF g
<1>2. a \in Int /\ b \in Nat /\ b > 0
  BY <1>1
<1>3. d \in Int /\ m \in 0 .. b - 1 /\ a = b * d + m
  <2> HIDE DEF a, b
  <2> QED  BY <1>2, Division
<1>4. Rounded(p) = g * d
  BY DEF Rounded, g
<1> HIDE DEF d, m
<1>5. g * d \in Int /\ b * d = 2 * (g * d)
  BY <1>1, <1>3
<1> DEFINE R == g * d
<1> HIDE DEF R
<1>6. R \in Int /\ 2 * p + g = 2 * R + m /\ m \in Int /\ 0 <= m /\ m < 2 * g
  BY <1>1, <1>3, <1>5 DEF R
<1> QED  BY <1>1, <1>4, <1>6 DEF R, g

\* The grid reaches below the lowest price and above the highest.
LEMMA GridEnds ==
    ASSUME NEW Z \in SUBSET Nat, NEW lo \in Z, NEW hi \in Z, \A z \in Z : lo <= z /\ z <= hi
    PROVE  /\ ChartGrid(Z) \in SUBSET Int
           /\ \E p \in ChartGrid(Z) : p <= lo
           /\ \E p \in ChartGrid(Z) : p >= hi
<1> DEFINE g == GridStep
           M == Margin
           Q == {q \in lo - M .. hi + M : (q - lo + M) % g = 0}
<1>1. g \in Nat /\ g > 0 /\ M \in Nat /\ 2 * M >= 3 * g
  BY StepPositive
<1>2. lo \in Nat /\ hi \in Nat /\ lo <= hi
  OBVIOUS
<1>3. Min(Z) = lo /\ Max(Z) = hi
  <2>1. Z \in SUBSET Int
    OBVIOUS
  <2> QED  BY <2>1, MinIs, MaxIs
<1>4. ChartGrid(Z) = {Rounded(q) : q \in Q}
  BY <1>3 DEF ChartGrid
<1> HIDE DEF g, M
<1>5. \A q \in Q : q \in Int
  BY <1>1, <1>2
<1>6. ASSUME NEW k \in Nat, g * k <= hi - lo + 2 * M PROVE lo - M + g * k \in Q
  <2> DEFINE a == g * k
             q == lo - M + a
  <2>1. a \in Nat /\ a % g = 0
    BY <1>1, Multiples
  <2> HIDE DEF a
  <2>2. q \in lo - M .. hi + M /\ q - lo + M = a
    BY <1>1, <1>2, <1>6, <2>1 DEF a
  <2>3. q \in Q
    <3> HIDE DEF q
    <3> QED  BY <2>1, <2>2
  <2> QED  BY <2>3 DEF a
<1> HIDE DEF Q
<1>7. ChartGrid(Z) \in SUBSET Int
  BY <1>4, <1>5, RoundedNear
<1>8. \E p \in ChartGrid(Z) : p <= lo
  <2> DEFINE q == lo - M
  <2>1. q \in Q
    <3>1. g * 0 = 0 /\ 0 \in Nat
      BY <1>1
    <3>2. lo - M + g * 0 \in Q
      BY <1>1, <1>2, <1>6, <3>1
    <3> QED  BY <1>1, <1>2, <3>1, <3>2
  <2>2. Rounded(q) \in Int /\ 2 * Rounded(q) <= 2 * q + g
    BY <1>5, <2>1, RoundedNear DEF g
  <2>3. Rounded(q) <= lo
    BY <1>1, <1>2, <2>2
  <2> QED  BY <1>4, <2>1, <2>3
<1>9. \E p \in ChartGrid(Z) : p >= hi
  <2> DEFINE w == hi - lo + 2 * M
             k == w \div g
             m == w % g
             a == g * k
             q == lo - M + a
  <2>1. w \in Nat
    BY <1>1, <1>2
  <2>2. k \in Int /\ m \in 0 .. g - 1 /\ w = g * k + m
    <3> HIDE DEF w
    <3> QED  BY <1>1, <2>1, Division
  <2> HIDE DEF w, k, m
  <2>3. k \in Nat
    <3> SUFFICES ASSUME k <= -1 PROVE FALSE
      BY <2>2
    <3>1. g * k <= g * (-1)
      BY <1>1, <2>2
    <3> QED  BY <1>1, <2>1, <2>2, <3>1
  <2>4. a \in Nat /\ w = a + m
    BY <1>1, <2>2, <2>3
  <2>5. a <= hi - lo + 2 * M
    BY <2>1, <2>2, <2>4 DEF w
  <2>6. q \in Q
    BY <1>6, <2>3, <2>5
  <2> HIDE DEF a
  <2>7. Rounded(q) \in Int /\ 2 * Rounded(q) >= 2 * q - g
    BY <1>5, <2>6, RoundedNear DEF g
  <2>8. q > hi + M - g
    BY <1>1, <1>2, <2>2, <2>4 DEF w
  <2>9. Rounded(q) >= hi
    BY <1>1, <1>2, <2>4, <2>7, <2>8
  <2> QED  BY <1>4, <2>6, <2>9
<1> QED  BY <1>7, <1>8, <1>9

\* A book that is not empty has a lowest and a highest price.
LEMMA PriceEnds ==
    ASSUME NEW all, NEW B, IsCopy(all, B), B # {}, NEW Z, Z = {x.price : x \in B}
    PROVE  /\ Z \in SUBSET Nat
           /\ \E lo, hi \in Z : \A z \in Z : lo <= z /\ z <= hi
<1> DEFINE t == PricePoints(all)
           n == Len(t)
<1>1. Z \in SUBSET Nat
  BY DEF IsCopy, Order
<1>2. Listing(t, Z)
  BY PricesSorted
<1> HIDE DEF t
<1>3. n \in Nat /\ (\A k \in 1 .. n : t[k] \in Z) /\ (\A z \in Z : \E k \in 1 .. n : t[k] = z)
      /\ \A a, b \in 1 .. n : a < b => t[a] < t[b]
  BY <1>2 DEF Listing
<1> HIDE DEF n
<1>4. Z # {}
  OBVIOUS
<1>5. 1 \in 1 .. n /\ n \in 1 .. n
  BY <1>3, <1>4
<1>6. ASSUME NEW z \in Z PROVE t[1] <= z /\ z <= t[n]
  <2>1. PICK k \in 1 .. n : t[k] = z
    BY <1>3
  <2>2. (k = 1 \/ 1 < k) /\ (k = n \/ k < n)
    BY <1>3
  <2>3. (k = 1 \/ t[1] < t[k]) /\ (k = n \/ t[k] < t[n])
    BY <1>3, <1>5, <2>2
  <2>4. t[1] \in Nat /\ t[n] \in Nat /\ t[k] \in Nat
    BY <1>1, <1>3, <1>5
  <2> QED  BY <2>1, <2>3, <2>4
<1>7. t[1] \in Z /\ t[n] \in Z
  BY <1>3, <1>5
<1> QED  BY <1>1, <1>6, <1>7

-----------------------------------------------------------------------------
(* The depth chart. *)

\* Each order in an answer of /book offers something.
AllOffer(r) == r.endpoint = "/book" => \A x \in r.of : x.makeAmount > 0

LEMMA ChartSound ==
    ASSUME BookCopied(reply), AllOffer(reply) PROVE ChartShowsAll
<1> SUFFICES ASSUME reply.endpoint = "/book", Shown(reply) # <<>> PROVE ChartShowsAll
  BY DEF ChartShowsAll
<1> DEFINE B == reply.of
           book == reply.book
           L == Shown(reply)
           Z == {x.price : x \in B}
           point(p) == [price |-> p, bidDepth |-> DepthAt(p, "bid", L),
                        askDepth |-> DepthAt(p, "ask", L)]
           chart == ComputeDepth(L)
<1>1. PICK high \in BOOLEAN : \E all : IsCopy(all, B) /\ book = BookOf(all, high)
  BY DEF BookCopied
<1>2. PICK all : IsCopy(all, B) /\ book = BookOf(all, high)
  BY <1>1
<1>3. \A x \in B : x.makeAmount > 0
  BY DEF AllOffer
<1> HIDE DEF B, book
<1>4. BookListed(book, B, all, high)
  BY <1>2, BookLists
<1>5. PICK h : ShowsBook(book.bids \o book.asks, h, B, all, high)
  BY <1>2, <1>4, ShownLists
<1>6. ShowsBook(L, h, B, all, high) /\ L # <<>>
  BY <1>5 DEF Shown, book
<1> HIDE DEF L
<1>7. /\ DOMAIN L = 1 .. Len(L) /\ h \in [1 .. Len(L) -> B]
      /\ \A x \in B : \E k \in 1 .. Len(L) : h[k] = x
      /\ \A k \in 1 .. Len(L) : L[k].price = h[k].price
  BY <1>2, <1>6, ShownFacts
<1>8. B # {}
  <2>1. 1 \in 1 .. Len(L)
    BY <1>6 DEF ShowsBook
  <2> QED  BY <1>7, <2>1
<1>9. {L[k].price : k \in DOMAIN L} = Z
  BY <1>7
<1>10. chart = {d \in {point(p) : p \in ChartGrid(Z)} : d.bidDepth > 0 \/ d.askDepth > 0}
  BY <1>6, <1>9 DEF ComputeDepth
<1> HIDE DEF chart
<1> DEFINE Bids == OnSideOf(B, all, high, "bid")
           Asks == OnSideOf(B, all, high, "ask")
           Over(p) == {x \in Bids : x.price >= p}
           Under(p) == {x \in Asks : x.price <= p}
<1>11. B \in SUBSET Order /\ IsFiniteSet(B) /\ (\A x \in B : x.price \in Nat)
       /\ Bids \in SUBSET B /\ Asks \in SUBSET B /\ Bids \cup Asks = B
  BY <1>2 DEF IsCopy, Order, OnSideOf, SideOf
<1>12. ASSUME NEW p \in Int
       PROVE  DepthAt(p, "bid", L) = Worth(Over(p)) /\ DepthAt(p, "ask", L) = Worth(Under(p))
  <2>1. Reaching(B, all, high, "bid", p) = Over(p) /\ Reaching(B, all, high, "ask", p) = Under(p)
    BY DEF Reaching, AsGood, OnSideOf
  <2>2. /\ DepthAt(p, "bid", L) = Worth(Reaching(B, all, high, "bid", p))
        /\ DepthAt(p, "ask", L) = Worth(Reaching(B, all, high, "ask", p))
    BY <1>2, <1>6, DepthAtWorth DEF Side
  <2> HIDE DEF Over, Under
  <2> QED  BY <2>1, <2>2
<1>13. ASSUME NEW p \in Int
       PROVE  /\ AmountOf(book.bids, {k \in DOMAIN book.bids : book.bids[k].price >= p}) = Worth(Over(p))
              /\ AmountOf(book.bids, DOMAIN book.bids) = Worth(Bids)
  <2>1. book.bids \in Seq(Entry) /\ Lists(book.bids, Bids, "bid")
    BY <1>4 DEF BookListed
  <2> HIDE DEF Bids
  <2>2. SideSums(book.bids, Bids, p)
    BY <1>11, <2>1, SideWorth
  <2> QED  BY <2>2 DEF SideSums
<1>14. ASSUME NEW p \in Int
       PROVE  /\ AmountOf(book.asks, {k \in DOMAIN book.asks : book.asks[k].price <= p}) = Worth(Under(p))
              /\ AmountOf(book.asks, DOMAIN book.asks) = Worth(Asks)
  <2>1. book.asks \in Seq(Entry) /\ Lists(book.asks, Asks, "ask")
    BY <1>4 DEF BookListed
  <2> HIDE DEF Asks
  <2>2. SideSums(book.asks, Asks, p)
    BY <1>11, <2>1, SideWorth
  <2> QED  BY <2>2 DEF SideSums
<1>15. Z \in SUBSET Nat /\ \E lo, hi \in Z : \A z \in Z : lo <= z /\ z <= hi
  <2> HIDE DEF Z
  <2> QED  BY <1>2, <1>8, PriceEnds DEF Z
<1>16. PICK lo \in Z, hi \in Z : \A z \in Z : lo <= z /\ z <= hi
  BY <1>15
<1>17. \A x \in B : lo <= x.price /\ x.price <= hi
  BY <1>16
<1>18. lo \in Nat /\ hi \in Nat
  BY <1>15
<1> HIDE DEF Z
<1>19. /\ ChartGrid(Z) \in SUBSET Int
       /\ \E p \in ChartGrid(Z) : p <= lo
       /\ \E p \in ChartGrid(Z) : p >= hi
  BY <1>15, <1>16, GridEnds
<1>20. PICK low \in ChartGrid(Z) : low <= lo
  BY <1>19
<1>21. PICK top \in ChartGrid(Z) : top >= hi
  BY <1>19
<1>22. low \in Int /\ top \in Int
  BY <1>19
<1>23. Over(low) = Bids /\ Under(top) = Asks
  BY <1>11, <1>17, <1>18, <1>20, <1>21, <1>22
<1>24. /\ \A p : point(p).price = p /\ point(p).bidDepth = DepthAt(p, "bid", L)
               /\ point(p).askDepth = DepthAt(p, "ask", L)
  OBVIOUS
<1>25. ASSUME NEW d \in chart PROVE d = Depth(book, d.price)
  <2>1. PICK p \in ChartGrid(Z) : d = point(p)
    BY <1>10
  <2>2. p \in Int
    BY <1>19
  <2>3. Depth(book, p) = [price |-> p, bidDepth |-> Worth(Over(p)), askDepth |-> Worth(Under(p))]
    <3> HIDE DEF Over, Under
    <3> QED  BY <1>13, <1>14, <2>2 DEF Depth
  <2>4. point(p) = [price |-> p, bidDepth |-> Worth(Over(p)), askDepth |-> Worth(Under(p))]
    <3> HIDE DEF Over, Under
    <3> QED  BY <1>12, <2>2
  <2>5. d.price = p
    BY <1>24, <2>1
  <2> HIDE DEF point
  <2> QED  BY <2>1, <2>3, <2>4, <2>5
<1>26. ASSUME NEW T \in SUBSET B, T # {} PROVE Worth(T) > 0
  <2>1. PICK x \in T : x \in B
    BY <1>26
  <2> QED  BY <1>3, <1>11, <2>1, WorthSome
<1>27. /\ point(low).bidDepth = Worth(Bids) /\ point(low).askDepth = Worth(Under(low))
       /\ point(top).askDepth = Worth(Asks) /\ point(top).bidDepth = Worth(Over(top))
  <2> HIDE DEF Bids, Asks, Over, Under, point
  <2> QED  BY <1>12, <1>22, <1>23, <1>24
<1>28. \A p \in ChartGrid(Z) : point(p).bidDepth > 0 \/ point(p).askDepth > 0 => point(p) \in chart
  <2> HIDE DEF point
  <2> QED  BY <1>10
<1>29. /\ Bids # {} => point(low) \in chart
       /\ Asks # {} => point(top) \in chart
  <2> HIDE DEF Bids, Asks, point
  <2> QED  BY <1>11, <1>26, <1>27, <1>28
<1>30. (Bids = {} => Over(top) = Bids) /\ (Asks = {} => Under(low) = Asks)
  OBVIOUS
<1>31. \E d \in chart : d.bidDepth = AmountOf(book.bids, DOMAIN book.bids)
  <2>1. AmountOf(book.bids, DOMAIN book.bids) = Worth(Bids)
    BY <1>13, <1>22
  <2> HIDE DEF Bids, Asks, point, Over, Under
  <2>2. CASE Bids # {}
    BY <1>27, <1>29, <2>1, <2>2
  <2>3. CASE Bids = {}
    <3>1. Asks # {}
      BY <1>8, <1>11, <2>3
    <3> QED  BY <1>27, <1>29, <1>30, <2>1, <2>3, <3>1
  <2> QED  BY <2>2, <2>3
<1>32. \E d \in chart : d.askDepth = AmountOf(book.asks, DOMAIN book.asks)
  <2>1. AmountOf(book.asks, DOMAIN book.asks) = Worth(Asks)
    BY <1>14, <1>22
  <2> HIDE DEF Bids, Asks, point, Over, Under
  <2>2. CASE Asks # {}
    BY <1>27, <1>29, <2>1, <2>2
  <2>3. CASE Asks = {}
    <3>1. Bids # {}
      BY <1>8, <1>11, <2>3
    <3> QED  BY <1>27, <1>29, <1>30, <2>1, <2>3, <3>1
  <2> QED  BY <2>2, <2>3
<1> HIDE DEF point
<1> QED  BY <1>25, <1>31, <1>32 DEF ChartShowsAll, chart, book, L

\* On which side an order is does not depend on how the book is listed.
LEMMA SidesAgree ==
    ASSUME NEW B, NEW s, NEW t, IsCopy(s, B), IsCopy(t, B), NEW x \in B, NEW high
    PROVE  SideOf(x, s, high) = SideOf(x, t, high)
<1> DEFINE w == [y \in B |-> y.price]
<1>1. w \in [B -> Nat]
  BY DEF IsCopy, Order
<1>2. ASSUME NEW all, IsCopy(all, B)
      PROVE  SumUp([k \in DOMAIN all |-> all[k].price]) = SumUp(w) /\ Len(all) = Cardinality(B)
  <2> DEFINE S == DOMAIN all
             g == [k \in S |-> all[k].price]
  <2>1. /\ S = 1 .. Cardinality(B) /\ Len(all) = Cardinality(B) /\ Cardinality(B) \in Nat
        /\ all \in [S -> B]
    BY <1>2, CopyFacts
  <2>2. IsFiniteSet(S)
    BY <2>1, FS_Interval
  <2>3. g \in [S -> Nat] /\ \A k \in S : g[k] = w[all[k]]
    BY <1>1, <2>1
  <2>4. Renamed(g, w, all, S, B)
    <3>1. all \in Bijection(S, B)
      BY <1>2, <2>1 DEF IsCopy
    <3> HIDE DEF g, w, S
    <3> QED  BY <1>1, <2>2, <2>3, <3>1 DEF Renamed
  <2>5. SumUp(g) = SumUp(w)
    <3> HIDE DEF g, w, S
    <3> QED  BY <2>4, SumRenamed
  <2> QED  BY <2>1, <2>5
<1> HIDE DEF w
<1>3. /\ SumUp([k \in DOMAIN s |-> s[k].price]) = SumUp([k \in DOMAIN t |-> t[k].price])
      /\ Len(s) = Len(t)
  BY <1>2
<1> QED  BY <1>3 DEF SideOf

\* A set can be listed.
LEMMA Listed ==
    ASSUME NEW B \in SUBSET Order, IsFiniteSet(B) PROVE IsCopy(SetToSeq(B), B)
<1> DEFINE n == Cardinality(B)
           q == SetToSeq(B)
<1>1. n \in Nat /\ ExistsBijection(1 .. n, B)
  BY FS_CardinalityType
<1>2. q \in [1 .. n -> B] /\ IsInjective(q)
  <2> HIDE DEF n
  <2>1. \E f : f \in [1 .. n -> B] /\ IsInjective(f)
    BY <1>1 DEF ExistsBijection, Bijection, Injection
  <2> QED  BY <2>1 DEF SetToSeq, n
<1> HIDE DEF n, q
<1>3. q \in Injection(1 .. n, B)
  BY <1>2 DEF Injection
<1>4. Cardinality(1 .. n) = n /\ IsFiniteSet(1 .. n)
  BY <1>1, FS_Interval
<1>5. q \in Surjection(1 .. n, B)
  BY <1>3, <1>4, FS_Injection DEF n
<1> QED  BY <1>3, <1>5 DEF IsCopy, Bijection, n, q

LEMMA SourcesAgree ==
    ASSUME DepthCopied(reply) PROVE ChartSourcesAgree
<1> SUFFICES ASSUME reply.endpoint = "/depth" PROVE ChartSourcesAgree
  BY DEF ChartSourcesAgree
<1> DEFINE B == reply.of
           d == reply.depths
           high == reply.high
           other == SetToSeq(B)
           book == BookOf(other, high)
           orders == Shown([book |-> book])
<1>1. PICK all : IsCopy(all, B) /\ d = DepthsOf(all, high)
  BY DEF DepthCopied
<1>2. high \in BOOLEAN
  BY DEF DepthCopied
<1> HIDE DEF B, d, high
<1> DEFINE t == PricePoints(all)
           n == Len(t)
           U(side, price) == UpToPrice(B, all, high, side, price)
           Z == {x.price : x \in B}
<1>3. /\ DOMAIN d = DOMAIN t
      /\ \A k \in DOMAIN t :
           /\ d[k].price = t[k]
           /\ d[k].bidDepth = Worth(U("bid", t[k]))
           /\ d[k].askDepth = Worth(U("ask", t[k]))
  BY <1>1, <1>2, DepthWorth
<1>4. Listing(t, Z)
  BY <1>1, PricesSorted
<1>5. B \in SUBSET Order /\ IsFiniteSet(B) /\ \A x \in B : x.price \in Nat
  BY <1>1 DEF IsCopy, Order
<1>6. IsCopy(other, B)
  BY <1>5, Listed
<1> HIDE DEF other
<1>7. BookListed(book, B, other, high)
  BY <1>2, <1>6, BookLists
<1>8. PICK h : ShowsBook(orders, h, B, other, high)
  <2> HIDE DEF book
  <2>1. orders = book.bids \o book.asks
    BY DEF Shown
  <2> QED  BY <1>2, <1>6, <1>7, <2>1, ShownLists
<1> HIDE DEF book, orders, t
<1>9. /\ DOMAIN t = 1 .. n /\ n \in Nat
      /\ (\A k \in 1 .. n : t[k] \in Z) /\ (\A p \in Z : \E k \in 1 .. n : t[k] = p)
      /\ \A a, b \in 1 .. n : a < b => t[a] < t[b]
  BY <1>4 DEF Listing
<1>10. \A p \in Z : p \in Nat
  BY <1>5
<1>11. ASSUME NEW side \in Side, NEW p \in Int
       PROVE  DepthAt(p, side, orders) = Worth(Reaching(B, all, high, side, p))
  <2>1. DepthAt(p, side, orders) = Worth(Reaching(B, other, high, side, p))
    BY <1>2, <1>6, <1>8, DepthAtWorth
  <2>2. \A x \in B : SideOf(x, other, high) = SideOf(x, all, high)
    BY <1>1, <1>6, SidesAgree
  <2>3. Reaching(B, other, high, side, p) = Reaching(B, all, high, side, p)
    BY <2>2 DEF Reaching
  <2> QED  BY <2>1, <2>3
<1>12. ASSUME NEW k \in DOMAIN d PROVE d[k].askDepth = DepthAt(d[k].price, "ask", orders)
  <2>1. d[k].price = t[k] /\ t[k] \in Int /\ d[k].askDepth = Worth(U("ask", t[k]))
    BY <1>3, <1>9, <1>10
  <2>2. U("ask", t[k]) = Reaching(B, all, high, "ask", t[k])
    BY DEF UpToPrice, Reaching, AsGood
  <2>3. DepthAt(t[k], "ask", orders) = Worth(Reaching(B, all, high, "ask", t[k]))
    BY <1>11, <2>1 DEF Side
  <2> HIDE DEF U
  <2> QED  BY <2>1, <2>2, <2>3
<1>13. ASSUME d # <<>> PROVE d[Len(d)].bidDepth = DepthAt(d[1].price, "bid", orders)
  <2>1. Len(d) = n /\ n # 0
    <3>1. d = [k \in DOMAIN t |-> d[k]]
      BY <1>1, <1>3 DEF DepthsOf, t
    <3>2. Len(d) = n
      BY <1>9, <3>1
    <3>3. n # 0
      <4> SUFFICES ASSUME n = 0 PROVE FALSE
        OBVIOUS
      <4>1. DOMAIN t = {}
        BY <1>9
      <4> QED  BY <1>13, <3>1, <4>1
    <3> QED  BY <3>2, <3>3
  <2> HIDE DEF n
  <2>2. 1 \in 1 .. n /\ n \in 1 .. n
    BY <1>9, <2>1
  <2>3. \A x \in B : t[1] <= x.price /\ x.price <= t[n]
    <3> TAKE x \in B
    <3>1. PICK k \in 1 .. n : t[k] = x.price
      BY <1>9
    <3>2. (k = 1 \/ 1 < k) /\ (k = n \/ k < n)
      BY <1>9
    <3>3. (k = 1 \/ t[1] < t[k]) /\ (k = n \/ t[k] < t[n])
      BY <1>9, <2>2, <3>2
    <3>4. t[1] \in Nat /\ t[n] \in Nat /\ t[k] \in Nat
      BY <1>9, <1>10, <2>2
    <3> QED  BY <3>1, <3>3, <3>4
  <2>4. U("bid", t[n]) = Reaching(B, all, high, "bid", t[1])
    BY <2>3, <1>5 DEF UpToPrice, Reaching, AsGood
  <2>5. d[n].bidDepth = Worth(U("bid", t[n])) /\ d[1].price = t[1] /\ t[1] \in Int
    BY <1>3, <1>9, <1>10, <2>2
  <2>6. DepthAt(t[1], "bid", orders) = Worth(Reaching(B, all, high, "bid", t[1]))
    BY <1>11, <2>5 DEF Side
  <2> HIDE DEF U
  <2> QED  BY <2>1, <2>4, <2>5, <2>6
<1> QED  BY <1>12, <1>13 DEF ChartSourcesAgree, orders, book, other, B, d, high

-----------------------------------------------------------------------------
(* The entries GET /volume shows. *)

LEMMA EntryVolumes ==
    ASSUME NEW s \in Seq(VolumeEntry)
    PROVE  /\ Len(s) \in Nat /\ DOMAIN s = 1 .. Len(s) /\ IsFiniteSet(DOMAIN s)
           /\ [k \in DOMAIN s |-> s[k].volume] \in [DOMAIN s -> Nat]
<1>1. Len(s) \in Nat /\ DOMAIN s = 1 .. Len(s) /\ \A k \in 1 .. Len(s) : s[k] \in VolumeEntry
  OBVIOUS
<1>2. \A e \in VolumeEntry : e.volume \in Nat
  BY DEF VolumeEntry, Amount
<1>3. IsFiniteSet(1 .. Len(s))
  BY <1>1, FS_Interval
<1> QED  BY <1>1, <1>2, <1>3

LEMMA VolumeType == ASSUME NEW s \in Seq(VolumeEntry) PROVE VolumeOf(s) \in Nat
<1> DEFINE g == [k \in DOMAIN s |-> s[k].volume]
<1>1. IsFiniteSet(DOMAIN s) /\ g \in [DOMAIN s -> Nat]
  BY EntryVolumes
<1> HIDE DEF g
<1>2. SumUp(g) \in Nat
  BY <1>1, SumWithin
<1> QED  BY <1>2 DEF VolumeOf, g

LEMMA VolumeNothing == VolumeOf(<<>>) = 0
<1> DEFINE none == {}
           g == [k \in none |-> <<>>[k].volume]
<1>1. DOMAIN <<>> = none /\ g \in [none -> Nat] /\ DOMAIN g = none
  OBVIOUS
<1>2. VolumeOf(<<>>) = SumUp(g)
  BY <1>1 DEF VolumeOf
<1> HIDE DEF g
<1> QED  BY <1>1, <1>2, SumEmpty

\* A list of amounts, and the same with one more at its end.
LEMMA SumLonger ==
    ASSUME NEW n \in Nat, NEW g \in [1 .. n -> Nat], NEW h \in [1 .. n + 1 -> Nat],
           \A k \in 1 .. n : g[k] = h[k]
    PROVE  SumUp(h) = SumUp(g) + h[n + 1]
<1>1. IsFiniteSet(1 .. n)
  BY FS_Interval
<1>2. 1 .. n + 1 = 1 .. n \cup {n + 1}
  OBVIOUS
<1>3. OneMore(g, h, 1 .. n, n + 1)
  BY <1>1, <1>2 DEF OneMore
<1> QED  BY <1>3, SumOneMore

\* A list of amounts, and the same with one more in front.
LEMMA SumLater ==
    ASSUME NEW n \in Nat, NEW g \in [1 .. n -> Nat], NEW h \in [1 .. n + 1 -> Nat],
           \A k \in 1 .. n : g[k] = h[k + 1]
    PROVE  SumUp(h) = SumUp(g) + h[1]
<1> DEFINE S == 1 .. n
           R == 2 .. n + 1
           f == [k \in S |-> k + 1]
           r == [k \in R |-> h[k]]
<1>1. f \in Bijection(S, R)
  <2>1. f \in [S -> R] /\ \A a, b \in S : f[a] = f[b] => a = b
    OBVIOUS
  <2>2. \A b \in R : \E a \in S : f[a] = b
    <3> TAKE b \in R
    <3>1. b - 1 \in S /\ f[b - 1] = b
      OBVIOUS
    <3> QED  BY <3>1
  <2> HIDE DEF f, S, R
  <2> QED  BY <2>1, <2>2, BijFacts
<1>2. IsFiniteSet(S) /\ IsFiniteSet(R)
  BY FS_Interval
<1>3. g \in [S -> Nat] /\ r \in [R -> Nat] /\ \A k \in S : g[k] = r[f[k]]
  OBVIOUS
<1>4. OneMore(r, h, R, 1)
  <2>1. 1 .. n + 1 = R \cup {1} /\ 1 \notin R
    OBVIOUS
  <2> QED  BY <1>2, <1>3, <2>1 DEF OneMore
<1>5. SumUp(g) = SumUp(r)
  <2>1. Renamed(g, r, f, S, R)
    <3> HIDE DEF S, R, f, r
    <3> QED  BY <1>1, <1>2, <1>3 DEF Renamed
  <2> HIDE DEF S, R, f, r
  <2> QED  BY <2>1, SumRenamed
<1>6. SumUp(h) = SumUp(r) + h[1]
  <2> HIDE DEF r, R
  <2> QED  BY <1>4, SumOneMore
<1> QED  BY <1>5, <1>6

\* One more entry adds its volume.
LEMMA VolumeMore ==
    ASSUME NEW s \in Seq(VolumeEntry), NEW e \in VolumeEntry
    PROVE  VolumeOf(Append(s, e)) = VolumeOf(s) + e.volume
<1> DEFINE t == Append(s, e)
           n == Len(s)
           g == [k \in DOMAIN s |-> s[k].volume]
           h == [k \in DOMAIN t |-> t[k].volume]
<1>1. /\ t \in Seq(VolumeEntry) /\ n \in Nat /\ Len(t) = n + 1 /\ t[n + 1] = e
      /\ DOMAIN s = 1 .. n /\ DOMAIN t = 1 .. n + 1
      /\ \A k \in 1 .. n : t[k] = s[k]
  OBVIOUS
<1> HIDE DEF t, n
<1>2. g \in [1 .. n -> Nat] /\ h \in [1 .. n + 1 -> Nat]
  BY <1>1, EntryVolumes
<1>3. (\A k \in 1 .. n : g[k] = h[k]) /\ h[n + 1] = e.volume
  BY <1>1
<1>4. VolumeOf(s) = SumUp(g) /\ VolumeOf(t) = SumUp(h)
  BY DEF VolumeOf
<1> HIDE DEF g, h
<1>5. SumUp(h) = SumUp(g) + h[n + 1]
  BY <1>1, <1>2, <1>3, SumLonger
<1> QED  BY <1>3, <1>4, <1>5 DEF t

\* The oldest entry takes its volume along.
LEMMA VolumeLess ==
    ASSUME NEW s \in Seq(VolumeEntry), s # <<>>
    PROVE  VolumeOf(s) = s[1].volume + VolumeOf(Tail(s)) /\ s[1].volume \in Nat
<1> DEFINE t == Tail(s)
           n == Len(t)
           g == [k \in DOMAIN t |-> t[k].volume]
           h == [k \in DOMAIN s |-> s[k].volume]
<1>1. /\ t \in Seq(VolumeEntry) /\ n \in Nat /\ Len(s) = n + 1
      /\ DOMAIN t = 1 .. n /\ DOMAIN s = 1 .. n + 1
      /\ \A k \in 1 .. n : t[k] = s[k + 1]
  OBVIOUS
<1>2. VolumeOf(t) \in Nat
  BY <1>1, VolumeType
<1> HIDE DEF t, n
<1>3. g \in [1 .. n -> Nat] /\ h \in [1 .. n + 1 -> Nat]
  BY <1>1, EntryVolumes
<1>4. (\A k \in 1 .. n : g[k] = h[k + 1]) /\ h[1] = s[1].volume /\ h[1] \in Nat
  BY <1>1, <1>3
<1>5. VolumeOf(t) = SumUp(g) /\ VolumeOf(s) = SumUp(h)
  BY DEF VolumeOf
<1> HIDE DEF g, h
<1>6. SumUp(h) = SumUp(g) + h[1]
  BY <1>1, <1>3, <1>4, SumLater
<1> DEFINE v == VolumeOf(t)
<1>7. VolumeOf(s) = v + s[1].volume /\ v \in Nat /\ s[1].volume \in Nat
  BY <1>2, <1>4, <1>5, <1>6
<1> HIDE DEF v
<1>8. VolumeOf(s) = s[1].volume + v
  BY <1>7
<1> QED  BY <1>7, <1>8 DEF v, t

\* The window holds the volume of all fills tracked, until it is full.
WindowInv ==
    /\ Len(volumeData) <= VolumeWindow
    /\ totalVolume >= VolumeOf(volumeData)
    /\ Len(volumeData) < VolumeWindow => totalVolume = VolumeOf(volumeData)

LEMMA WindowTrack ==
    ASSUME NEW o \in OrderIds, IInv, WindowInv, TrackVolume(o)
    PROVE  WindowInv'
<1> DEFINE quantity == batch[o][tracked + 1].quantity
           entry == [volume |-> quantity, value |-> posted[o].price * quantity]
           data == Append(volumeData, entry)
<1>1. totalVolume' = totalVolume + quantity /\ volumeData' = KeepLast(data)
  BY DEF TrackVolume
<1>2. totalVolume \in Nat /\ volumeData \in Seq(VolumeEntry)
  BY DEF IInv, TypeOK
<1>3. quantity \in Nat /\ entry \in VolumeEntry
  <2>1. tracked + 1 \in DOMAIN batch[o]
    BY DEF TrackVolume, IInv, TypeOK
  <2>2. batch[o][tracked + 1] \in Fill
    BY <2>1, BatchFills DEF IInv
  <2>3. posted[o] \in Order
    BY DEF TrackVolume, IInv, LockInv
  <2>4. quantity \in Nat /\ posted[o].price \in Nat
    BY <2>2, <2>3 DEF Fill, Order, Amount
  <2>5. \A a, b \in Nat : a * b \in Nat
    OBVIOUS
  <2> QED  BY <2>4, <2>5 DEF VolumeEntry, Amount
<1>4. entry.volume = quantity
  OBVIOUS
<1> HIDE DEF entry, quantity
<1>5. /\ data \in Seq(VolumeEntry) /\ data # <<>>
      /\ Len(data) = Len(volumeData) + 1 /\ Len(volumeData) \in Nat
  BY <1>2, <1>3
<1>6. VolumeOf(data) = VolumeOf(volumeData) + quantity /\ VolumeOf(volumeData) \in Nat
  BY <1>2, <1>3, <1>4, VolumeMore, VolumeType
<1> HIDE DEF data
<1>7. CASE Len(data) > VolumeWindow
  <2>1. volumeData' = Tail(data)
    BY <1>1, <1>7 DEF KeepLast
  <2>2. Tail(data) \in Seq(VolumeEntry) /\ Len(Tail(data)) = Len(data) - 1
    BY <1>5
  <2>3. VolumeOf(data) = data[1].volume + VolumeOf(Tail(data)) /\ data[1].volume \in Nat
        /\ VolumeOf(Tail(data)) \in Nat
    BY <1>5, <2>2, VolumeLess, VolumeType
  <2>4. Len(volumeData) = VolumeWindow
    BY <1>5, <1>7, WindowAssumption DEF WindowInv
  <2>5. Len(volumeData') = VolumeWindow
    BY <1>5, <2>1, <2>2, <2>4, WindowAssumption
  <2>6. totalVolume' >= VolumeOf(volumeData')
    BY <1>1, <1>2, <1>3, <1>6, <2>1, <2>3 DEF WindowInv
  <2> QED  BY <1>1, <1>2, <1>3, <2>5, <2>6, WindowAssumption DEF WindowInv
<1>8. CASE ~(Len(data) > VolumeWindow)
  <2>1. volumeData' = data
    BY <1>1, <1>8 DEF KeepLast
  <2>2. totalVolume = VolumeOf(volumeData)
    BY <1>5, <1>8, WindowAssumption DEF WindowInv
  <2> QED  BY <1>1, <1>2, <1>3, <1>5, <1>6, <1>8, <2>1, <2>2, WindowAssumption DEF WindowInv
<1> QED  BY <1>7, <1>8

\* Only trackVolume writes the volume.
LEMMA WindowNext == ASSUME IInv, WindowInv, [Next]_vars PROVE WindowInv'
<1>1. CASE \E o \in OrderIds : TrackVolume(o)
  BY <1>1, WindowTrack
<1>2. CASE ~\E o \in OrderIds : TrackVolume(o)
  <2>1. totalVolume' = totalVolume /\ volumeData' = volumeData
    BY <1>2 DEF Next, Handler, Post, NotEnoughOrders, StartMatch, Iterate, FinishMatch,
                Unlock, vars, volumeVars
  <2> QED  BY <2>1 DEF WindowInv
<1> QED  BY <1>1, <1>2

-----------------------------------------------------------------------------
(* What the last answer to GET /volume said stays true. *)

IsVolume(r) == r.endpoint = "/volume" /\ ~r.mock

\* What was shown last added up.
LastShownInv ==
    IsVolume(reply) =>
        /\ reply.total >= VolumeOf(reply.entries)
        /\ Len(reply.entries) < VolumeWindow => reply.total = VolumeOf(reply.entries)

\* The last answer to GET /book or GET /depth is that of some copy of a book.
CopiedInv == BookCopied(reply) /\ DepthCopied(reply) /\ AllOffer(reply)

MarketInv == IInv /\ WindowInv /\ LastShownInv /\ CopiedInv

LEMMA MarketInvInit == MarketInit => MarketInv
<1> SUFFICES ASSUME MarketInit PROVE MarketInv
  OBVIOUS
<1>1. IInv
  BY InitInv DEF MarketInit
<1>2. WindowInv
  <2>1. volumeData = <<>> /\ totalVolume = 0 /\ Len(<<>>) = 0
    BY DEF MarketInit, Init
  <2> QED  BY <2>1, VolumeNothing, WindowAssumption DEF WindowInv
<1>3. LastShownInv
  BY DEF MarketInit, NoReply, LastShownInv, IsVolume
<1>4. CopiedInv
  BY DEF MarketInit, NoReply, CopiedInv, BookCopied, DepthCopied, AllOffer
<1> QED  BY <1>1, <1>2, <1>3, <1>4 DEF MarketInv

\* A real volume that is shown is all that has been traded.
LEMMA VolumeShown ==
    ASSUME GetVolume, IsVolume(reply')
    PROVE  reply'.total = totalVolume /\ reply'.entries = volumeData
<1>1. /\ reply'.mock = (volumeData = <<>>) /\ reply'.entries = volumeData
      /\ reply'.total = IF volumeData = <<>> THEN MockTotal ELSE totalVolume
  BY DEF GetVolume
<1>2. ~reply'.mock
  BY DEF IsVolume
<1>3. volumeData # <<>>
  BY <1>1, <1>2
<1> QED  BY <1>1, <1>3

LEMMA OtherReplies ==
    ASSUME GetBook \/ GetDepth PROVE ~IsVolume(reply')
<1>1. reply'.endpoint \in {"/book", "/depth"}
  BY DEF GetBook, GetDepth
<1> QED  BY <1>1 DEF IsVolume

\* An answer is worked out from a copy of the book.
LEMMA CopiedNext ==
    ASSUME IInv, CopiedInv, [MarketNext]_marketVars PROVE CopiedInv'
<1>1. CASE reply' = reply
  BY <1>1 DEF CopiedInv, BookCopied, DepthCopied, AllOffer
<1>2. CASE GetBook
  <2>1. PICK all \in Copies, high \in BOOLEAN :
           reply' = [endpoint |-> "/book", of |-> orderBook, book |-> BookOf(all, high)]
    BY <1>2 DEF GetBook
  <2>2. reply'.endpoint = "/book" /\ reply'.of = orderBook /\ reply'.book = BookOf(all, high)
    BY <2>1
  <2>3. BookCopied(reply')
    BY <2>2, CopiesAreCopies DEF BookCopied
  <2>4. AllOffer(reply')
    BY <2>2 DEF AllOffer, IInv, BookInv, Whole
  <2> QED  BY <2>2, <2>3, <2>4 DEF CopiedInv, DepthCopied
<1>3. CASE GetDepth
  <2>1. PICK all \in Copies, high \in BOOLEAN :
           reply' = [endpoint |-> "/depth", of |-> orderBook, high |-> high,
                     depths |-> DepthsOf(all, high)]
    BY <1>3 DEF GetDepth
  <2>2. /\ reply'.endpoint = "/depth" /\ reply'.of = orderBook /\ reply'.high = high
        /\ reply'.depths = DepthsOf(all, high)
    BY <2>1
  <2>3. DepthCopied(reply')
    BY <2>2, CopiesAreCopies DEF DepthCopied
  <2> QED  BY <2>2, <2>3 DEF CopiedInv, DepthCopied, BookCopied, AllOffer
<1>4. CASE GetVolume
  <2>1. reply'.endpoint = "/volume"
    BY <1>4 DEF GetVolume
  <2> QED  BY <2>1 DEF CopiedInv, DepthCopied, BookCopied, AllOffer
<1> QED  BY <1>1, <1>2, <1>3, <1>4 DEF MarketNext, marketVars

LEMMA ReadsOnly ==
    ASSUME GetBook \/ GetDepth \/ GetVolume \/ UNCHANGED marketVars
    PROVE  UNCHANGED vars
BY DEF GetBook, GetDepth, GetVolume, marketVars

LEMMA MarketInvNext == MarketInv /\ [MarketNext]_marketVars => MarketInv'
<1> SUFFICES ASSUME IInv, WindowInv, LastShownInv, CopiedInv, [MarketNext]_marketVars
             PROVE  MarketInv'
  BY DEF MarketInv
<1>1. [Next]_vars
  BY ReadsOnly DEF MarketNext
<1>2. IInv'
  BY <1>1, NextInv
<1>3. WindowInv'
  BY <1>1, WindowNext
<1>4. ASSUME reply' = reply PROVE LastShownInv'
  BY <1>4 DEF LastShownInv, IsVolume
<1>5. ASSUME GetBook \/ GetDepth PROVE LastShownInv'
  BY <1>5, OtherReplies DEF LastShownInv
<1>6. ASSUME GetVolume PROVE LastShownInv'
  <2> SUFFICES ASSUME IsVolume(reply') PROVE LastShownInv'
    BY DEF LastShownInv
  <2>1. reply'.total = totalVolume /\ reply'.entries = volumeData
    BY <1>6, VolumeShown
  <2> QED  BY <2>1 DEF LastShownInv, WindowInv
<1>7. LastShownInv'
  BY <1>4, <1>5, <1>6 DEF MarketNext, marketVars
<1> QED  BY <1>2, <1>3, <1>7, CopiedNext DEF MarketInv

\* The steps of MarketData keep it, those of Matcher among them.
LEMMA MarketInductive == MarketSpec => []MarketInv
BY MarketInvInit, MarketInvNext, PTL DEF MarketSpec

\* main.go:145-169, 433-445.  For any terms and any size of the window, and also
\* in the middle of a round, the total GET /volume shows is at least that of the
\* entries it shows, and exactly that while all of them fit.
THEOREM VolumeRepliesAddUp == MarketSpec => []VolumeReplyAddsUp
<1>1. MarketInv => VolumeReplyAddsUp
  BY DEF MarketInv, LastShownInv, IsVolume, VolumeReplyAddsUp
<1> QED  BY <1>1, MarketInductive, PTL

\* main.go:292-325.  For any terms, and whatever order the slice of the book is
\* in, GET /book shows each of its orders once, bids from the highest price down,
\* asks from the lowest up, and any bid above any ask.
THEOREM BookRepliesSound == MarketSpec => []BookReplySound
<1>1. MarketInv => BookReplySound
  BY BookSound DEF MarketInv, CopiedInv
<1> QED  BY <1>1, MarketInductive, PTL

\* main.go:356-408.  For any terms, GET /depth has a point for each price, the
\* lowest first; depths never fall from one to the next, and the last ones are
\* all there is to trade.
THEOREM DepthRepliesSound == MarketSpec => []DepthReplySound
<1>1. MarketInv => DepthReplySound
  BY DepthSound DEF MarketInv, CopiedInv
<1> QED  BY <1>1, MarketInductive, PTL

\* DepthChart.tsx:37-115.  For any terms and any grid that goes on by a step and a
\* half or more (the code's goes on by ten), each point of the chart has the depth
\* of its price, and no order falls off at either end.
THEOREM ChartComplete == MarketSpec => []ChartShowsAll
<1>1. MarketInv => ChartShowsAll
  BY ChartSound DEF MarketInv, CopiedInv
<1> QED  BY <1>1, MarketInductive, PTL

\* main.go:396-408 with DepthChart.tsx:82-104.  For any terms, the chart has the
\* same asks, and the same sum of all bids, from /depth and out of /book.
THEOREM ChartSourcesEqual == MarketSpec => []ChartSourcesAgree
<1>1. MarketInv => ChartSourcesAgree
  BY SourcesAgree DEF MarketInv, CopiedInv
<1> QED  BY <1>1, MarketInductive, PTL

\* main.go:160-168, 437-440.  For any terms and any size of the window, a made-up
\* volume is answered only as long as nothing has been traded: the window is never
\* empty again.
THEOREM MadeUpAtFirst == MarketSpec => MadeUpOnlyAtFirst
<1> DEFINE MadeUp == reply' # reply /\ reply'.endpoint = "/volume" /\ reply'.mock
                        => totalVolume = 0
<1>1. MarketInv /\ [MarketNext]_marketVars => [MadeUp]_marketVars
  <2> SUFFICES ASSUME WindowInv, MarketNext,
                      reply' # reply, reply'.endpoint = "/volume", reply'.mock
               PROVE  totalVolume = 0
    BY DEF MarketInv
  <2>1. GetVolume
    BY DEF MarketNext, GetBook, GetDepth
  <2>2. volumeData = <<>>
    BY <2>1 DEF GetVolume
  <2>3. Len(volumeData) < VolumeWindow
    BY <2>2, WindowAssumption
  <2> QED  BY <2>2, <2>3, VolumeNothing DEF WindowInv
<1> QED  BY <1>1, MarketInductive, PTL DEF MarketSpec, MadeUpOnlyAtFirst
=============================================================================
