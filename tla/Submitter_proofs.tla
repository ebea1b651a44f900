-------------------------- MODULE Submitter_proofs --------------------------
(***************************************************************************)
(* Proofs about Submitter for any batches, retriers and number of          *)
(* attempts: its types, the nonces, the queue, and that with one retry     *)
(* call it implements Delivery.  What a retry leaves of the queue is a     *)
(* fold, followed step by step with FoldTheorems.                          *)
(***************************************************************************)
EXTENDS Submitter, SequenceTheorems, FoldTheorems

-----------------------------------------------------------------------------
(* The inductive invariant. *)

\* What is needed of the types.
NonceTypes ==
    /\ pc \in [Workers -> Labels]
    /\ nonce \in [Workers -> Nat]
    /\ nextNonce \in Nat
    /\ IsFiniteSet(mempool)
    /\ \A tx \in mempool : tx.nonce \in Nat

\* The workers that have a nonce they have not used yet.
Holds(w) == pc[w] \in {"estimate", "send"}

\* Up to the nonce a worker holds there is no gap, and there will be none: what
\* has left the mempool since was mined.
HeldNoncesContinue ==
    \A w \in Workers : Holds(w) =>
        \A m \in nextNonce .. nonce[w] - 1 : \E tx \in mempool : tx.nonce = m

IInv == NonceTypes /\ NoNonceGap /\ HeldNoncesContinue

-----------------------------------------------------------------------------
LEMMA InitInv == Init => IInv
BY FS_EmptySet DEF Init, IInv, NonceTypes, NoNonceGap, HeldNoncesContinue, Holds, Labels

\* A step that touches neither the node nor a nonce, and after which no worker
\* has a nonce that it had not before.
LEMMA QuietInv ==
    ASSUME IInv, UNCHANGED <<nonce, nextNonce, mempool>>,
           pc' \in [Workers -> Labels],
           \A w \in Workers : Holds(w)' => Holds(w)
    PROVE  IInv'
BY DEF IInv, NonceTypes, NoNonceGap, HeldNoncesContinue

\* The end of an attempt leaves its worker without a nonce.
LEMMA AttemptEnds ==
    ASSUME NonceTypes, NEW w \in Workers, AttemptFails(w) \/ AttemptSucceeds(w)
    PROVE  /\ pc' \in [Workers -> Labels]
           /\ \A v \in Workers : Holds(v)' => Holds(v) /\ v # w
<1>1. PICK label \in {"attempt", "exhausted", "next", "ok"} :
          pc' = [pc EXCEPT ![w] = label]
  BY DEF AttemptFails, AttemptSucceeds, Goto
<1> QED  BY <1>1 DEF NonceTypes, Labels, Underway, Holds

\* The node takes the transaction of a worker that holds its nonce.
LEMMA HeldInv ==
    ASSUME IInv, NEW w \in Workers, Holds(w), Accepts(nonce[w]),
           mempool' = Held(w), UNCHANGED <<nonce, nextNonce>>,
           pc' \in [Workers -> Labels],
           \A v \in Workers : Holds(v)' => Holds(v) /\ v # w
    PROVE  IInv'
<1> DEFINE new == [nonce |-> nonce[w], root |-> Root(w)]
<1>1. /\ mempool' = (mempool \ SameNonce(nonce[w])) \cup {new}
      /\ new.nonce = nonce[w] /\ new \in mempool'
  BY DEF Held
<1> HIDE DEF new
<1>2. nonce[w] \in Nat /\ nextNonce \in Nat /\ nonce[w] >= nextNonce
  BY DEF IInv, NonceTypes, Accepts
<1>3. \A tx \in mempool' : tx = new \/ (tx \in mempool /\ tx.nonce # nonce[w])
  BY <1>1 DEF SameNonce
<1>4. \A tx \in mempool : \E other \in mempool' : other.nonce = tx.nonce
  BY <1>1 DEF SameNonce
<1>5. NonceTypes'
  <2>1. IsFiniteSet(mempool \ SameNonce(nonce[w]))
    BY FS_Subset DEF IInv, NonceTypes
  <2>2. IsFiniteSet(mempool')
    BY <1>1, <2>1, FS_AddElement
  <2> QED  BY <1>1, <1>2, <1>3, <2>2 DEF IInv, NonceTypes
<1>6. NoNonceGap'
  <2>1. \A tx \in mempool' : tx.nonce >= nextNonce
    BY <1>1, <1>2, <1>3 DEF IInv, NoNonceGap
  <2>2. \A tx \in mempool' : \A n \in nextNonce .. tx.nonce :
            \E other \in mempool' : other.nonce = n
    <3> SUFFICES ASSUME NEW tx \in mempool', NEW n \in nextNonce .. tx.nonce
                 PROVE  \E other \in mempool' : other.nonce = n
      OBVIOUS
    <3>1. CASE tx = new
      <4>1. n = nonce[w] \/ n \in nextNonce .. nonce[w] - 1
        BY <1>1, <1>2, <3>1
      <4>2. ASSUME n \in nextNonce .. nonce[w] - 1
            PROVE  \E other \in mempool : other.nonce = n
        BY <4>2 DEF IInv, HeldNoncesContinue
      <4> QED  BY <1>1, <1>4, <4>1, <4>2
    <3>2. CASE tx \in mempool
      BY <1>4, <3>2 DEF IInv, NoNonceGap
    <3> QED  BY <1>3, <3>1, <3>2
  <2>3. \A tx, other \in mempool' : tx.nonce = other.nonce => tx = other
    BY <1>1, <1>3 DEF IInv, NoNonceGap
  <2> QED  BY <2>1, <2>2, <2>3 DEF NoNonceGap
<1>7. HeldNoncesContinue'
  BY <1>4 DEF IInv, HeldNoncesContinue
<1> QED  BY <1>5, <1>6, <1>7 DEF IInv

LEMMA ReadNonceInv == ASSUME NEW w \in Workers, IInv, ReadNonce(w) PROVE IInv'
<1>1. PICK n \in nextNonce .. nextNonce + Cardinality(mempool) :
          IsPendingNonce(n) /\ nonce' = [nonce EXCEPT ![w] = n]
  BY DEF ReadNonce
<1>2. nextNonce \in Nat /\ Cardinality(mempool) \in Nat
  BY FS_CardinalityType DEF IInv, NonceTypes
<1>3. n \in Nat
  BY <1>1, <1>2
<1>4. pc' = [pc EXCEPT ![w] = "estimate"] /\ UNCHANGED <<nextNonce, mempool>>
  BY DEF ReadNonce, Goto, nodeVars
<1>5. NonceTypes'
  BY <1>1, <1>3, <1>4 DEF IInv, NonceTypes, Labels, Underway
<1>6. NoNonceGap'
  BY <1>4 DEF IInv, NoNonceGap
<1>7. HeldNoncesContinue'
  BY <1>1, <1>4 DEF IInv, NonceTypes, HeldNoncesContinue, Holds, IsPendingNonce
<1> QED  BY <1>5, <1>6, <1>7 DEF IInv

LEMMA MineInv == ASSUME IInv, Mine PROVE IInv'
<1>1. PICK tx \in mempool : tx.nonce = nextNonce /\ mempool' = mempool \ {tx}
  BY DEF Mine
<1>2. nextNonce' = nextNonce + 1 /\ nextNonce \in Nat /\ UNCHANGED <<pc, nonce>>
  BY DEF Mine, IInv, NonceTypes
<1>3. \A other \in mempool' : other \in mempool /\ other.nonce \in Nat /\ other.nonce # nextNonce
  BY <1>1 DEF IInv, NonceTypes, NoNonceGap
<1>4. \A other \in mempool : other.nonce # nextNonce => other \in mempool'
  BY <1>1
<1>5. NonceTypes'
  BY <1>1, <1>2, <1>3, FS_Subset DEF IInv, NonceTypes
<1>6. NoNonceGap'
  <2>1. \A other \in mempool' : other.nonce >= nextNonce'
    BY <1>2, <1>3 DEF IInv, NoNonceGap
  <2>2. \A other \in mempool' : \A n \in nextNonce' .. other.nonce :
            \E third \in mempool' : third.nonce = n
    <3> SUFFICES ASSUME NEW other \in mempool', NEW n \in nextNonce' .. other.nonce
                 PROVE  \E third \in mempool' : third.nonce = n
      OBVIOUS
    <3>1. n \in nextNonce .. other.nonce /\ n # nextNonce
      BY <1>2, <1>3
    <3>2. \E third \in mempool : third.nonce = n
      BY <1>3, <3>1 DEF IInv, NoNonceGap
    <3> QED  BY <1>4, <3>1, <3>2
  <2>3. \A other, third \in mempool' : other.nonce = third.nonce => other = third
    BY <1>3 DEF IInv, NoNonceGap
  <2> QED  BY <2>1, <2>2, <2>3 DEF NoNonceGap
<1>7. HeldNoncesContinue'
  <2> SUFFICES ASSUME NEW w \in Workers, Holds(w), NEW m \in nextNonce' .. nonce[w] - 1
               PROVE  \E other \in mempool' : other.nonce = m
    BY <1>2 DEF HeldNoncesContinue, Holds
  <2>1. nonce[w] \in Nat
    BY DEF IInv, NonceTypes
  <2>2. m \in nextNonce .. nonce[w] - 1 /\ m # nextNonce
    BY <1>2, <2>1
  <2>3. \E other \in mempool : other.nonce = m
    BY <2>2 DEF IInv, HeldNoncesContinue
  <2> QED  BY <1>4, <2>2, <2>3
<1> QED  BY <1>5, <1>6, <1>7 DEF IInv

LEMMA AttemptInv == ASSUME NEW w \in Workers, IInv, Attempt(w) PROVE IInv'
<1>1. CASE NodeFails(w) \/ EstimateReverts(w) \/ WaitTimesOut(w) \/ Mined(w)
  <2>1. AttemptFails(w) \/ AttemptSucceeds(w)
    BY <1>1 DEF NodeFails, EstimateReverts, WaitTimesOut, Mined
  <2>2. UNCHANGED <<nonce, nextNonce, mempool>>
    BY <1>1 DEF NodeFails, EstimateReverts, WaitTimesOut, Mined, nodeVars
  <2> QED  BY <2>1, <2>2, AttemptEnds, QuietInv DEF IInv
<1>2. CASE ReadNonce(w)
  BY <1>2, ReadNonceInv
<1>3. CASE EstimateGas(w)
  <2>1. pc[w] = "estimate" /\ pc' = [pc EXCEPT ![w] = "send"]
    BY <1>3 DEF EstimateGas, Goto
  <2>2. pc' \in [Workers -> Labels] /\ \A v \in Workers : Holds(v)' => Holds(v)
    BY <2>1 DEF IInv, NonceTypes, Labels, Underway, Holds
  <2> QED  BY <1>3, <2>2, QuietInv DEF EstimateGas, nodeVars
<1>4. CASE Send(w)
  <2>1. pc[w] = "send" /\ pc' = [pc EXCEPT ![w] = "wait"]
    BY <1>4 DEF Send, Goto
  <2>2. /\ Holds(w) /\ pc' \in [Workers -> Labels]
        /\ \A v \in Workers : Holds(v)' => Holds(v) /\ v # w
    BY <2>1 DEF IInv, NonceTypes, Labels, Underway, Holds
  <2> QED  BY <1>4, <2>2, HeldInv DEF Send
<1>5. CASE SendUnanswered(w)
  <2>1. Holds(w) /\ AttemptFails(w)
    BY <1>5 DEF SendUnanswered, Holds
  <2> QED  BY <1>5, <2>1, AttemptEnds, HeldInv DEF SendUnanswered, IInv
<1> QED  BY <1>1, <1>2, <1>3, <1>4, <1>5 DEF Attempt

\* The steps of a call outside its attempts.
LEMMA CallInv ==
    ASSUME NEW w \in Workers, IInv,
           \/ Submit(w) \/ Enqueue(w) \/ StartRetry(w) \/ NextBatch(w) \/ FinishRetry(w)
    PROVE  IInv'
<1>1. PICK label \in {"attempt", "failed", "done"} : pc' = [pc EXCEPT ![w] = label]
  BY DEF Submit, Enqueue, StartRetry, NextBatch, FinishRetry, Goto
<1>2. UNCHANGED <<nonce, nextNonce, mempool>>
  BY DEF Submit, Enqueue, StartRetry, NextBatch, FinishRetry, nodeVars
<1>3. pc' \in [Workers -> Labels] /\ \A v \in Workers : Holds(v)' => Holds(v)
  BY <1>1 DEF IInv, NonceTypes, Labels, Underway, Holds
<1> QED  BY <1>2, <1>3, QuietInv

LEMMA StepInv == ASSUME ~Drops, IInv, [Next]_vars PROVE IInv'
<1>1. ASSUME NEW b \in Batches, Submit(b) \/ SubmitWorker(b) PROVE IInv'
  BY <1>1, AttemptInv, CallInv DEF SubmitWorker, Workers
<1>2. ASSUME NEW r \in Retriers, StartRetry(r) \/ RetryWorker(r) PROVE IInv'
  BY <1>2, AttemptInv, CallInv DEF RetryWorker, Workers
<1>3. CASE ClearFailedBatches
  BY <1>3, QuietInv DEF ClearFailedBatches, nodeVars, IInv, NonceTypes, Holds
<1>4. CASE Crash
  <2>1. pc' = [w \in Workers |-> IF pc[w] = "idle" THEN "idle" ELSE "dead"]
    BY <1>4 DEF Crash
  <2>2. pc' \in [Workers -> Labels] /\ \A v \in Workers : ~Holds(v)'
    BY <2>1 DEF Labels, Holds
  <2> QED  BY <1>4, <2>2, QuietInv DEF Crash, nodeVars
<1>5. CASE Mine
  BY <1>5, MineInv
<1>6. CASE Drop
  BY <1>6 DEF Drop
<1>7. CASE UNCHANGED vars
  BY <1>7, QuietInv DEF vars, nodeVars, IInv, NonceTypes, Holds
<1> QED  BY <1>1, <1>2, <1>3, <1>4, <1>5, <1>6, <1>7 DEF Next

-----------------------------------------------------------------------------
(* The theorems. *)

\* With a node that forgets no transaction, what it holds of the account has
\* consecutive nonces, each once, however many workers send, are told the same
\* nonce, give up or die.
THEOREM NoncesContinue == ASSUME ~Drops PROVE Spec => []NoNonceGap
<1>1. Init => IInv
  BY InitInv
<1>2. IInv /\ [Next]_vars => IInv'
  BY StepInv
<1>3. IInv => NoNonceGap
  BY DEF IInv
<1> QED  BY <1>1, <1>2, <1>3, PTL DEF Spec

\* No batch is settled twice, whatever the node does with the transactions.
THEOREM SettlesOnce == Spec => []SettledOnce
<1>1. Init => SettledOnce
  BY DEF Init, SettledOnce
<1>2. ASSUME SettledOnce, [Next]_vars PROVE SettledOnce'
  <2>1. CASE Mine
    <3>1. PICK tx \in mempool : receipts' = receipts \cup {[nonce |-> tx.nonce,
                root |-> tx.root, status |-> Status(tx.root)]}
      BY <2>1 DEF Mine
    <3>2. ASSUME NEW r \in receipts, r.status = 1, r.root = tx.root
          PROVE  Status(tx.root) = 0
      BY <3>2 DEF Status, Settled
    <3> QED  BY <1>2, <3>1, <3>2 DEF SettledOnce
  <2>2. CASE UNCHANGED receipts
    BY <1>2, <2>2 DEF SettledOnce
  <2>3. \A w : Attempt(w) => UNCHANGED receipts
    BY DEF Attempt, NodeFails, ReadNonce, EstimateGas, EstimateReverts, Send,
           SendUnanswered, Mined, WaitTimesOut, nodeVars
  <2>4. [Next]_vars => Mine \/ UNCHANGED receipts
    BY <2>3 DEF Next, SubmitWorker, RetryWorker, Submit, Enqueue, StartRetry, NextBatch,
           FinishRetry, ClearFailedBatches, Crash, Drop, vars, nodeVars
  <2> QED  BY <1>2, <2>1, <2>2, <2>4
<1> QED  BY <1>1, <1>2, PTL DEF Spec

-----------------------------------------------------------------------------
(* What RemoveBackward leaves of the queue. *)

\* An entry taken out, if it is there.
Taken(q, k) == IF k <= Len(q) THEN RemoveAt(q, k) ELSE q

LEMMA TakenFacts ==
    ASSUME NEW q \in Seq(Batches), NEW k \in Nat \ {0}
    PROVE  /\ Taken(q, k) \in Seq(Batches)
           /\ k > Len(q) => Taken(q, k) = q
           /\ k <= Len(q) =>
                /\ Len(Taken(q, k)) = Len(q) - 1
                /\ \A l \in 1 .. Len(q) - 1 :
                      Taken(q, k)[l] = IF l < k THEN q[l] ELSE q[l + 1]
<1>1. CASE k > Len(q)
  BY <1>1 DEF Taken
<1>2. CASE k <= Len(q)
  <2> DEFINE front == SubSeq(q, 1, k - 1)
             back == SubSeq(q, k + 1, Len(q))
  <2>1. /\ Len(q) \in Nat /\ k \in 1 .. Len(q)
        /\ front \in Seq(Batches) /\ Len(front) = k - 1
        /\ \A l \in 1 .. k - 1 : front[l] = q[l]
    BY <1>2
  <2>2. /\ back \in Seq(Batches) /\ Len(back) = Len(q) - k
        /\ \A l \in 1 .. Len(q) - k : back[l] = q[l + k]
    BY <1>2
  <2>3. Taken(q, k) = front \o back
    BY <1>2 DEF Taken, RemoveAt
  <2> HIDE DEF front, back
  <2>4. /\ front \o back \in Seq(Batches)
        /\ Len(front \o back) = Len(front) + Len(back)
        /\ \A l \in 1 .. Len(front) + Len(back) : (front \o back)[l] =
              IF l <= Len(front) THEN front[l] ELSE back[l - Len(front)]
    BY <2>1, <2>2, ConcatProperties
  <2>5. ASSUME NEW l \in 1 .. Len(q) - 1
        PROVE  (front \o back)[l] = IF l < k THEN q[l] ELSE q[l + 1]
    <3>1. CASE l < k
      <4>1. l \in 1 .. k - 1 /\ l \in 1 .. Len(front) + Len(back)
        BY <2>1, <2>2, <3>1
      <4>2. (front \o back)[l] = front[l]
        BY <2>1, <2>4, <4>1
      <4> QED  BY <2>1, <3>1, <4>1, <4>2
    <3>2. CASE l >= k
      <4> DEFINE m == l - (k - 1)
      <4>1. /\ m \in 1 .. Len(q) - k /\ m + k = l + 1 /\ m = l - Len(front)
            /\ l \in 1 .. Len(front) + Len(back) /\ ~(l <= Len(front)) /\ ~(l < k)
        BY <2>1, <2>2, <3>2
      <4> HIDE DEF m
      <4>2. (front \o back)[l] = back[m]
        BY <2>4, <4>1
      <4>3. back[m] = q[l + 1]
        BY <2>2, <4>1
      <4> QED  BY <4>1, <4>2, <4>3
    <3>3. l < k \/ l >= k
      BY <2>1
    <3> QED  BY <3>1, <3>2, <3>3
  <2>6. Len(front \o back) = Len(q) - 1
    BY <2>1, <2>2, <2>4
  <2>7. ~(k > Len(q))
    BY <1>2, <2>1
  <2> QED  BY <2>3, <2>4, <2>5, <2>6, <2>7
<1>3. Len(q) \in Nat
  OBVIOUS
<1> QED  BY <1>1, <1>2, <1>3

\* One of the steps of RemoveBackward.
Removal(indices) == [j \in DOMAIN indices |-> [q \in Seq(Batches) |-> Taken(q, indices[j])]]

Removes(P, indices, queue) ==
    Runs(P, Len(indices), Seq(Batches), queue, Backward(Len(indices), Removal(indices)))

LEMMA RemovalRuns ==
    ASSUME NEW queue \in Seq(Batches), NEW indices \in Seq(Nat \ {0})
    PROVE  \E P : Removes(P, indices, queue) /\ RemoveBackward(indices, queue) = P[Len(indices)]
<1> DEFINE n == Len(indices)
           Rec(F) == [S \in SUBSET (1 .. n) |-> IF S = {} THEN queue
                         ELSE IF indices[Min(S)] <= Len(F[S \ {Min(S)}])
                              THEN RemoveAt(F[S \ {Min(S)}], indices[Min(S)])
                              ELSE F[S \ {Min(S)}]]
           iter == CHOOSE F : F = Rec(F)
<1>1. n \in Nat /\ DOMAIN indices = 1 .. n /\ \A k \in 1 .. n : indices[k] \in Nat \ {0}
  OBVIOUS
<1>2. RemoveBackward(indices, queue) = iter[1 .. n]
  <2> HIDE DEF n
  <2> QED  BY <1>1 DEF RemoveBackward, FoldRight, MapThenFoldSet
<1> HIDE DEF n
<1>3. ASSUME NEW k \in 1 .. n, NEW q \in Seq(Batches)
      PROVE  /\ Removal(indices)[k][q] = IF indices[k] <= Len(q) THEN RemoveAt(q, indices[k]) ELSE q
             /\ Removal(indices)[k][q] \in Seq(Batches)
  <2>1. Removal(indices)[k][q] = Taken(q, indices[k])
    BY <1>1 DEF Removal
  <2>2. Taken(q, indices[k]) \in Seq(Batches)
    BY <1>1, TakenFacts
  <2> QED  BY <2>1, <2>2 DEF Taken
<1>4. CanRun(n, Seq(Batches), queue, Removal(indices))
  BY <1>1, <1>3 DEF CanRun
<1>5. PICK F : FoldOf(F, 1 .. n, Seq(Batches), queue, Lowest(n), Removal(indices))
  BY <1>4, CanFoldPlaces
<1>6. ASSUME NEW S \in SUBSET (1 .. n), S # {}
      PROVE  Lowest(n)[S] = Min(S) /\ Min(S) \in 1 .. n /\ S \ {Min(S)} \in SUBSET (1 .. n)
  BY <1>1, <1>6, MinFacts DEF Lowest
<1>7. F = Rec(F)
  <2>1. ASSUME NEW S \in SUBSET (1 .. n), S # {}
        PROVE  F[S] = Rec(F)[S]
    <3>1. F[S] = Removal(indices)[Min(S)][F[S \ {Min(S)}]]
      BY <1>5, <1>6, <2>1 DEF FoldOf, IsFold
    <3>2. F[S \ {Min(S)}] \in Seq(Batches) /\ Min(S) \in 1 .. n
      BY <1>5, <1>6, <2>1 DEF FoldOf
    <3> QED  BY <1>3, <2>1, <3>1, <3>2
  <2>2. F[{}] = queue
    BY <1>5 DEF FoldOf, IsFold
  <2>3. F = [S \in SUBSET (1 .. n) |-> F[S]]
    BY <1>5 DEF FoldOf
  <2> QED  BY <2>1, <2>2, <2>3
<1>8. iter = Rec(iter)
  <2> HIDE DEF Rec
  <2> QED  BY <1>7
<1> HIDE DEF iter
<1>9. Follows(iter, 1 .. n, Seq(Batches), queue, Lowest(n), Removal(indices))
  <2>1. iter[{}] = queue
    BY <1>8
  <2>2. ASSUME NEW S \in SUBSET (1 .. n), S # {}, iter[S \ {Lowest(n)[S]}] \in Seq(Batches)
        PROVE  iter[S] = Removal(indices)[Lowest(n)[S]][iter[S \ {Lowest(n)[S]}]]
    <3>1. Lowest(n)[S] = Min(S) /\ Min(S) \in 1 .. n
      BY <1>6, <2>2
    <3>2. iter[S] = IF indices[Min(S)] <= Len(iter[S \ {Min(S)}])
                    THEN RemoveAt(iter[S \ {Min(S)}], indices[Min(S)])
                    ELSE iter[S \ {Min(S)}]
      BY <1>8, <2>2
    <3> QED  BY <1>3, <2>2, <3>1, <3>2
  <2> QED  BY <2>1, <2>2 DEF Follows
<1>10. \E P : /\ Runs(P, n, Seq(Batches), queue, Backward(n, Removal(indices)))
              /\ iter[1 .. n] = P[n]
  BY <1>4, <1>9, RunsDown
<1> QED  BY <1>2, <1>10 DEF Removes, n

\* From one step to the next.
LEMMA RemovesFacts ==
    ASSUME NEW queue \in Seq(Batches), NEW indices \in Seq(Nat \ {0}),
           NEW P, Removes(P, indices, queue)
    PROVE  /\ Len(indices) \in Nat /\ P \in [0 .. Len(indices) -> Seq(Batches)]
           /\ P[0] = queue
           /\ \A c \in 1 .. Len(indices) : P[c] = Taken(P[c - 1], indices[Len(indices) - c + 1])
<1> DEFINE n == Len(indices)
<1>1. n \in Nat /\ DOMAIN indices = 1 .. n
  OBVIOUS
<1>2. Runs(P, n, Seq(Batches), queue, Backward(n, Removal(indices)))
  BY DEF Removes
<1> HIDE DEF n
<1>3. ASSUME NEW c \in 1 .. n PROVE P[c] = Taken(P[c - 1], indices[n - c + 1])
  <2>1. P[c - 1] \in Seq(Batches) /\ n - c + 1 \in 1 .. n
    BY <1>1, <1>2 DEF Runs
  <2>2. P[c] = Removal(indices)[n - c + 1][P[c - 1]]
    BY <1>2 DEF Runs, Backward
  <2> QED  BY <1>1, <2>1, <2>2 DEF Removal
<1> QED  BY <1>1, <1>2, <1>3 DEF Runs, n

LEMMA RemovalType ==
    ASSUME NEW queue \in Seq(Batches), NEW indices \in Seq(Nat \ {0})
    PROVE  RemoveBackward(indices, queue) \in Seq(Batches)
<1>1. PICK P : Removes(P, indices, queue) /\ RemoveBackward(indices, queue) = P[Len(indices)]
  BY RemovalRuns
<1> QED  BY <1>1, RemovesFacts

Distinct(q) == \A k, l \in DOMAIN q : q[k] = q[l] => k = l

\* What is left of a queue when the entries at some places are gone: below the
\* lowest of them nothing has moved.
Thinned(q, s, low, gone) ==
    /\ s \in Seq(Batches) /\ Distinct(s)
    /\ low - 1 <= Len(s) /\ \A l \in 1 .. low - 1 : s[l] = q[l]
    /\ \A l \in DOMAIN s : \E m \in DOMAIN q : s[l] = q[m]
    /\ \A m \in DOMAIN q \ gone : \E l \in DOMAIN s : s[l] = q[m]

\* A lower place is where it was, so the entry taken out is the right one.
LEMMA ThinnedMore ==
    ASSUME NEW q \in Seq(Batches), Distinct(q), NEW s, NEW low \in Nat, NEW gone,
           low - 1 <= Len(q), Thinned(q, s, low, gone), NEW k \in Nat \ {0}, k < low
    PROVE  Thinned(q, Taken(s, k), k, gone \cup {k})
<1> DEFINE t == Taken(s, k)
<1>1. /\ s \in Seq(Batches) /\ Distinct(s) /\ Len(s) \in Nat /\ DOMAIN s = 1 .. Len(s)
      /\ k \in 1 .. Len(s) /\ k <= Len(s) /\ \A l \in 1 .. k : s[l] = q[l]
  BY DEF Thinned
<1>2. /\ t \in Seq(Batches) /\ Len(t) = Len(s) - 1
      /\ \A l \in 1 .. Len(s) - 1 : t[l] = IF l < k THEN s[l] ELSE s[l + 1]
  BY <1>1, TakenFacts
<1>3. DOMAIN t = 1 .. Len(s) - 1
  BY <1>2
<1> HIDE DEF t
<1>4. ASSUME NEW l \in DOMAIN t
      PROVE  \E o \in DOMAIN s : o # k /\ t[l] = s[o] /\ l = IF o < k THEN o ELSE o - 1
  <2>1. CASE l < k
    BY <1>1, <1>2, <1>3, <2>1
  <2>2. CASE ~(l < k)
    <3>1. l + 1 \in DOMAIN s /\ l + 1 # k /\ ~(l + 1 < k) /\ l = l + 1 - 1
      BY <1>1, <1>3, <2>2
    <3> QED  BY <1>2, <1>3, <2>2, <3>1
  <2> QED  BY <2>1, <2>2
<1>5. ASSUME NEW o \in DOMAIN s, o # k PROVE \E l \in DOMAIN t : t[l] = s[o]
  <2>1. CASE o < k
    <3>1. o \in DOMAIN t
      BY <1>1, <1>3, <2>1
    <3> QED  BY <1>2, <1>3, <2>1, <3>1
  <2>2. CASE o > k
    <3>1. o - 1 \in DOMAIN t /\ ~(o - 1 < k) /\ o - 1 + 1 = o
      BY <1>1, <1>3, <2>2
    <3> QED  BY <1>2, <1>3, <3>1
  <2> QED  BY <1>1, <1>5, <2>1, <2>2
<1>6. Distinct(t)
  <2> SUFFICES ASSUME NEW l \in DOMAIN t, NEW m \in DOMAIN t, t[l] = t[m] PROVE l = m
    BY DEF Distinct
  <2>1. PICK o \in DOMAIN s : t[l] = s[o] /\ l = IF o < k THEN o ELSE o - 1
    BY <1>4
  <2>2. PICK p \in DOMAIN s : t[m] = s[p] /\ m = IF p < k THEN p ELSE p - 1
    BY <1>4
  <2>3. o = p
    BY <1>1, <2>1, <2>2 DEF Distinct
  <2> QED  BY <2>1, <2>2, <2>3
<1>7. k - 1 <= Len(t) /\ \A l \in 1 .. k - 1 : t[l] = q[l]
  <2>1. \A l \in 1 .. k - 1 : l \in 1 .. Len(s) - 1 /\ l < k /\ l \in 1 .. k
    BY <1>1
  <2> QED  BY <1>1, <1>2, <2>1
<1>8. \A l \in DOMAIN t : \E m \in DOMAIN q : t[l] = q[m]
  BY <1>4 DEF Thinned
<1>9. ASSUME NEW m \in DOMAIN q \ (gone \cup {k}) PROVE \E l \in DOMAIN t : t[l] = q[m]
  <2>1. PICK o \in DOMAIN s : s[o] = q[m]
    BY DEF Thinned
  <2>2. o # k
    <3>1. k \in DOMAIN q /\ s[k] = q[k]
      BY <1>1
    <3> QED  BY <2>1, <3>1 DEF Distinct
  <2> QED  BY <1>5, <2>1, <2>2
<1> QED  BY <1>2, <1>6, <1>7, <1>8, <1>9 DEF Thinned, t

\* Places of a queue, the lowest first.
Increasing(indices, n) ==
    /\ indices \in Seq(Nat \ {0})
    /\ \A k \in DOMAIN indices : indices[k] <= n
    /\ \A k, l \in DOMAIN indices : k < l => indices[k] < indices[l]

\* submitter.go:318-328.  Taken out from the last index down, exactly the entries
\* at the indices are gone.
LEMMA RemovalThins ==
    ASSUME NEW q \in Seq(Batches), Distinct(q), NEW indices, Increasing(indices, Len(q)),
           NEW s, s = RemoveBackward(indices, q)
    PROVE  /\ s \in Seq(Batches) /\ Distinct(s)
           /\ \A l \in DOMAIN s : \E m \in DOMAIN q : s[l] = q[m]
           /\ \A m \in DOMAIN q : (\A k \in DOMAIN indices : indices[k] # m)
                => \E l \in DOMAIN s : s[l] = q[m]
<1> DEFINE n == Len(indices)
           Low(c) == IF c = 0 THEN Len(q) + 1 ELSE indices[n - c + 1]
           Gone(c) == {indices[k] : k \in n - c + 1 .. n}
<1>1. indices \in Seq(Nat \ {0})
  BY DEF Increasing
<1>2. PICK P : Removes(P, indices, q) /\ s = P[n]
  BY <1>1, RemovalRuns
<1>3. /\ n \in Nat /\ P \in [0 .. n -> Seq(Batches)] /\ P[0] = q
      /\ \A c \in 1 .. n : P[c] = Taken(P[c - 1], indices[n - c + 1])
  BY <1>1, <1>2, RemovesFacts
<1>4. /\ DOMAIN indices = 1 .. n /\ Len(q) \in Nat /\ DOMAIN q = 1 .. Len(q)
      /\ \A k \in 1 .. n : indices[k] \in Nat \ {0} /\ indices[k] <= Len(q)
      /\ \A k, l \in 1 .. n : k < l => indices[k] < indices[l]
  BY DEF Increasing
<1> HIDE DEF n
<1> DEFINE N == {c \in Nat : c <= n => Thinned(q, P[c], Low(c), Gone(c))}
<1>5. 0 \in N
  <2>1. Thinned(q, q, Len(q) + 1, {})
    BY <1>4 DEF Thinned
  <2>2. Low(0) = Len(q) + 1 /\ Gone(0) = {}
    BY <1>3
  <2> HIDE DEF Low, Gone
  <2> QED  BY <1>3, <2>1, <2>2
<1>6. ASSUME NEW c \in N PROVE c + 1 \in N
  <2> SUFFICES ASSUME c + 1 <= n PROVE Thinned(q, P[c + 1], Low(c + 1), Gone(c + 1))
    OBVIOUS
  <2> DEFINE k == indices[n - c]
  <2>1. /\ c \in Nat /\ c <= n /\ c + 1 \in 1 .. n /\ c + 1 - 1 = c /\ n - (c + 1) + 1 = n - c
        /\ n - c \in 1 .. n /\ c + 1 # 0
    BY <1>3
  <2>2. P[c + 1] = Taken(P[c], k) /\ Low(c + 1) = k
    BY <1>3, <2>1
  <2>3. Gone(c + 1) = Gone(c) \cup {k}
    <3>1. \A a \in 1 .. n : a .. n = (a + 1 .. n) \cup {a}
      BY <1>3
    <3>2. n - c .. n = (n - c + 1 .. n) \cup {n - c}
      BY <2>1, <3>1
    <3> QED  BY <2>1, <3>2
  <2>4. k \in Nat \ {0} /\ Low(c) \in Nat /\ Low(c) - 1 <= Len(q) /\ k < Low(c)
    <3>1. CASE c = 0
      <4>1. k \in Nat \ {0} /\ k <= Len(q) /\ Low(c) = Len(q) + 1
        BY <1>4, <2>1, <3>1
      <4> HIDE DEF k, Low
      <4> QED  BY <1>4, <4>1
    <3>2. CASE c # 0
      <4>1. n - c + 1 \in 1 .. n /\ n - c < n - c + 1
        BY <1>3, <2>1, <3>2
      <4>2. Low(c) = indices[n - c + 1]
        BY <3>2
      <4>3. /\ k \in Nat \ {0} /\ indices[n - c + 1] \in Nat \ {0}
            /\ indices[n - c + 1] <= Len(q) /\ k < indices[n - c + 1]
        BY <1>4, <2>1, <4>1
      <4> HIDE DEF k, Low
      <4> QED  BY <1>4, <4>2, <4>3
    <3> QED  BY <3>1, <3>2
  <2>5. Thinned(q, P[c], Low(c), Gone(c))
    BY <2>1
  <2> HIDE DEF k, Low, Gone
  <2> QED  BY <2>2, <2>3, <2>4, <2>5, ThinnedMore
<1>7. N = Nat
  <2>1. N \in SUBSET Nat
    OBVIOUS
  <2> HIDE DEF N
  <2> QED  BY <1>5, <1>6, <2>1, Induction
<1>8. Thinned(q, s, Low(n), Gone(n))
  <2>1. n \in N
    <3> HIDE DEF N
    <3> QED  BY <1>3, <1>7
  <2>2. n <= n
    BY <1>3
  <2> HIDE DEF Low, Gone
  <2> QED  BY <1>2, <2>1, <2>2
<1>9. ASSUME NEW m \in Gone(n) PROVE \E k \in DOMAIN indices : indices[k] = m
  <2>1. PICK k \in n - n + 1 .. n : m = indices[k]
    OBVIOUS
  <2>2. k \in 1 .. n
    BY <1>3, <2>1
  <2>3. k \in DOMAIN indices
    BY <1>4, <2>2
  <2> QED  BY <2>1, <2>3
<1> HIDE DEF Low, Gone
<1> QED  BY <1>8, <1>9 DEF Thinned

-----------------------------------------------------------------------------
(* Types. *)

\* A retrier at work is at an entry of its copy.
TypeInv ==
    /\ TypeOK
    /\ IsFiniteSet(mempool)
    /\ \A r \in Retriers :
          /\ pc[r] = "idle" => index[r] = 1
          /\ pc[r] \in Underway \cup {"next"} => index[r] <= Len(toRetry[r])

LEMMA TypeInit == Init => TypeInv
BY RetriesAssumption, FS_EmptySet
   DEF Init, TypeInv, TypeOK, Workers, Labels, Underway

\* What a worker is submitting is a batch.
LEMMA RootType ==
    ASSUME TypeInv, NEW w \in Workers, pc[w] \in Underway
    PROVE  Root(w) \in Batches
<1>1. CASE w \in Batches
  BY <1>1 DEF Root
<1>2. CASE w \notin Batches
  <2>1. /\ w \in Retriers /\ index[w] \in Nat \ {0} /\ index[w] <= Len(toRetry[w])
        /\ toRetry[w] \in Seq(Batches)
    BY <1>2 DEF TypeInv, TypeOK, Workers
  <2>2. toRetry[w][index[w]] \in Batches
    BY <2>1
  <2> QED  BY <1>2, <2>2 DEF Root
<1> QED  BY <1>1, <1>2

\* A mempool of transactions of batches.
Pool(txs) == IsFiniteSet(txs) /\ txs \subseteq [nonce : Nat, root : Batches]

LEMMA HeldType ==
    ASSUME TypeInv, NEW w \in Workers, pc[w] = "send" PROVE Pool(Held(w))
<1>1. Root(w) \in Batches
  BY RootType DEF Underway
<1>2. nonce[w] \in Nat /\ Pool(mempool)
  BY DEF TypeInv, TypeOK, Pool
<1>3. IsFiniteSet(mempool \ SameNonce(nonce[w]))
  BY <1>2, FS_Subset DEF Pool
<1>4. IsFiniteSet(Held(w))
  BY <1>3, FS_AddElement DEF Held
<1> QED  BY <1>1, <1>2, <1>4 DEF Pool, Held

\* A worker that goes on within its call, whatever it has done at the node.
LEMMA GoesOn ==
    ASSUME TypeInv, NEW w \in Workers, pc[w] \in Underway,
           NEW label \in Labels \ {"idle"}, pc' = [pc EXCEPT ![w] = label],
           attempt' \in [Workers -> 1 .. MaxRetries],
           nonce' \in [Workers -> Nat],
           successful' \in [Retriers -> Seq(Nat \ {0})],
           Pool(mempool'),
           UNCHANGED <<failedBatches, toRetry, index, nextNonce, receipts, cleared>>
    PROVE  TypeInv'
<1>1. pc' \in [Workers -> Labels]
  BY DEF TypeInv, TypeOK
<1>2. \A v \in Workers : v # w => pc'[v] = pc[v]
  BY DEF TypeInv, TypeOK
<1>3. \A r \in Retriers : /\ pc'[r] = "idle" => index'[r] = 1
                          /\ pc'[r] \in Underway \cup {"next"} => index'[r] <= Len(toRetry'[r])
  BY <1>1, <1>2 DEF TypeInv, TypeOK, Workers, Underway
<1> QED  BY <1>1, <1>3 DEF TypeInv, TypeOK, Pool

LEMMA AttemptEndsType ==
    ASSUME TypeInv, NEW w \in Workers, pc[w] \in Underway,
           AttemptFails(w) \/ AttemptSucceeds(w),
           UNCHANGED <<nonce, nextNonce, receipts>>, Pool(mempool')
    PROVE  TypeInv'
<1>1. /\ attempt \in [Workers -> 1 .. MaxRetries] /\ nonce' \in [Workers -> Nat]
      /\ successful \in [Retriers -> Seq(Nat \ {0})] /\ index \in [Retriers -> Nat \ {0}]
  BY DEF TypeInv, TypeOK
<1>2. CASE AttemptFails(w)
  <2>1. attempt' \in [Workers -> 1 .. MaxRetries]
    <3>1. attempt[w] \in 1 .. MaxRetries /\ MaxRetries \in Nat
      BY <1>1, RetriesAssumption
    <3>2. attempt[w] < MaxRetries => attempt[w] + 1 \in 1 .. MaxRetries
      BY <3>1
    <3> QED  BY <1>1, <1>2, <3>2 DEF AttemptFails
  <2>2. PICK label \in {"attempt", "exhausted", "next"} : pc' = [pc EXCEPT ![w] = label]
    BY <1>2 DEF AttemptFails, Goto
  <2>3. /\ label \in Labels \ {"idle"} /\ successful' = successful
        /\ UNCHANGED <<failedBatches, toRetry, index, cleared>>
    BY <1>2 DEF AttemptFails, retryVars, Labels, Underway
  <2> QED  BY <1>1, <2>1, <2>2, <2>3, GoesOn
<1>3. CASE AttemptSucceeds(w)
  <2>1. successful' \in [Retriers -> Seq(Nat \ {0})]
    <3>1. CASE w \in Retriers
      <4>1. Append(successful[w], index[w]) \in Seq(Nat \ {0})
        BY <1>1, <3>1
      <4>2. successful' = [successful EXCEPT ![w] = Append(successful[w], index[w])]
        BY <1>3, <3>1 DEF AttemptSucceeds
      <4> QED  BY <1>1, <4>1, <4>2
    <3>2. CASE w \notin Retriers
      BY <1>1, <1>3, <3>2 DEF AttemptSucceeds
    <3> QED  BY <3>1, <3>2
  <2>2. PICK label \in {"ok", "next"} : pc' = [pc EXCEPT ![w] = label]
    BY <1>3 DEF AttemptSucceeds, Goto
  <2>3. /\ label \in Labels \ {"idle"} /\ attempt' = attempt
        /\ UNCHANGED <<failedBatches, toRetry, index, cleared>>
    BY <1>3 DEF AttemptSucceeds, Labels
  <2> QED  BY <1>1, <2>1, <2>2, <2>3, GoesOn
<1> QED  BY <1>2, <1>3

LEMMA AttemptType == ASSUME TypeInv, NEW w \in Workers, Attempt(w) PROVE TypeInv'
<1>1. Pool(mempool) /\ nextNonce \in Nat
  BY DEF TypeInv, TypeOK, Pool
<1>2. CASE NodeFails(w) \/ EstimateReverts(w) \/ Mined(w) \/ WaitTimesOut(w)
  <2>1. /\ pc[w] \in Underway
        /\ AttemptFails(w) \/ AttemptSucceeds(w)
        /\ UNCHANGED <<nonce, nextNonce, mempool, receipts>>
    BY <1>2 DEF NodeFails, EstimateReverts, Mined, WaitTimesOut, Underway, nodeVars
  <2> QED  BY <1>1, <2>1, AttemptEndsType
<1>3. CASE ReadNonce(w)
  <2>1. nonce' \in [Workers -> Nat]
    <3>1. PICK n \in nextNonce .. nextNonce + Cardinality(mempool) :
              nonce' = [nonce EXCEPT ![w] = n]
      BY <1>3 DEF ReadNonce
    <3>2. n \in Nat
      BY <1>1, <3>1, FS_CardinalityType DEF Pool
    <3> QED  BY <3>1, <3>2 DEF TypeInv, TypeOK
  <2>2. /\ pc[w] \in Underway /\ "estimate" \in Labels \ {"idle"} /\ pc' = [pc EXCEPT ![w] = "estimate"]
        /\ UNCHANGED <<attempt, failedBatches, retryVars, nodeVars, cleared>>
    BY <1>3 DEF ReadNonce, Goto, Labels, Underway
  <2> QED  BY <1>1, <2>1, <2>2, GoesOn DEF retryVars, nodeVars, TypeInv, TypeOK
<1>4. CASE EstimateGas(w)
  <2>1. /\ pc[w] \in Underway /\ "send" \in Labels \ {"idle"} /\ pc' = [pc EXCEPT ![w] = "send"]
        /\ UNCHANGED <<attempt, nonce, failedBatches, retryVars, nodeVars, cleared>>
    BY <1>4 DEF EstimateGas, Goto, Labels, Underway
  <2> QED  BY <1>1, <2>1, GoesOn DEF retryVars, nodeVars, TypeInv, TypeOK
<1>5. CASE Send(w)
  <2>1. /\ pc[w] = "send" /\ pc[w] \in Underway /\ "wait" \in Labels \ {"idle"}
        /\ pc' = [pc EXCEPT ![w] = "wait"] /\ mempool' = Held(w)
        /\ UNCHANGED <<attempt, nonce, failedBatches, retryVars, nextNonce, receipts, cleared>>
    BY <1>5 DEF Send, Goto, Labels, Underway
  <2> QED  BY <2>1, HeldType, GoesOn DEF retryVars, TypeInv, TypeOK
<1>6. CASE SendUnanswered(w)
  <2>1. /\ pc[w] = "send" /\ pc[w] \in Underway /\ AttemptFails(w) /\ mempool' = Held(w)
        /\ UNCHANGED <<nonce, nextNonce, receipts>>
    BY <1>6 DEF SendUnanswered, Underway
  <2> QED  BY <2>1, HeldType, AttemptEndsType
<1> QED  BY <1>2, <1>3, <1>4, <1>5, <1>6 DEF Attempt

\* The steps of a call outside its attempts.
LEMMA SubmitType ==
    ASSUME TypeInv, NEW b \in Batches, Submit(b) \/ Enqueue(b) PROVE TypeInv'
<1>1. b \in Workers /\ b \notin Retriers
  BY WorkersAssumption DEF Workers
<1>2. PICK label \in {"attempt", "failed"} : pc' = [pc EXCEPT ![b] = label]
  BY DEF Submit, Enqueue, Goto
<1>3. pc' \in [Workers -> Labels] /\ \A r \in Retriers : pc'[r] = pc[r]
  BY <1>1, <1>2 DEF TypeInv, TypeOK, Labels, Underway, Workers
<1>4. failedBatches' \in Seq(Batches)
  <2>1. failedBatches \in Seq(Batches)
    BY DEF TypeInv, TypeOK
  <2>2. failedBatches' = failedBatches \/ failedBatches' = Append(failedBatches, b)
    BY DEF Submit, Enqueue
  <2> QED  BY <2>1, <2>2
<1>5. UNCHANGED <<attempt, nonce, toRetry, index, successful, nextNonce, mempool, receipts, cleared>>
  BY DEF Submit, Enqueue, retryVars, nodeVars
<1> QED  BY <1>3, <1>4, <1>5 DEF TypeInv, TypeOK

LEMMA RetryType ==
    ASSUME TypeInv, NEW r \in Retriers, StartRetry(r) \/ NextBatch(r) \/ FinishRetry(r)
    PROVE  TypeInv'
<1>1. /\ pc \in [Workers -> Labels] /\ r \in Workers
      /\ toRetry \in [Retriers -> Seq(Batches)] /\ index \in [Retriers -> Nat \ {0}]
      /\ successful \in [Retriers -> Seq(Nat \ {0})] /\ failedBatches \in Seq(Batches)
      /\ attempt \in [Workers -> 1 .. MaxRetries]
  BY DEF TypeInv, TypeOK, Workers
<1>2. /\ UNCHANGED <<nonce, successful, nextNonce, mempool, receipts, cleared>>
      /\ \E label \in {"attempt", "done"} : pc' = [pc EXCEPT ![r] = label]
  BY DEF StartRetry, NextBatch, FinishRetry, Goto, nodeVars, retryVars
<1>3. pc' \in [Workers -> Labels] /\ pc'[r] # "idle" /\ \A s \in Retriers \ {r} : pc'[s] = pc[s]
  BY <1>1, <1>2 DEF Labels, Underway, Workers
<1>4. CASE StartRetry(r)
  <2>1. /\ failedBatches # <<>> /\ toRetry' = [toRetry EXCEPT ![r] = failedBatches]
        /\ pc[r] = "idle" /\ UNCHANGED <<attempt, failedBatches, index>>
    BY <1>4 DEF StartRetry
  <2>2. index[r] = 1 /\ 1 <= Len(failedBatches)
    BY <1>1, <2>1 DEF TypeInv
  <2> QED  BY <1>1, <1>2, <1>3, <2>1, <2>2 DEF TypeInv, TypeOK
<1>5. CASE NextBatch(r)
  <2>1. /\ index[r] < Len(toRetry[r]) /\ index' = [index EXCEPT ![r] = @ + 1]
        /\ attempt' = [attempt EXCEPT ![r] = 1] /\ UNCHANGED <<toRetry, failedBatches>>
    BY <1>5 DEF NextBatch
  <2>2. /\ index' \in [Retriers -> Nat \ {0}] /\ index'[r] <= Len(toRetry[r])
        /\ \A s \in Retriers \ {r} : index'[s] = index[s]
    BY <1>1, <2>1
  <2>3. attempt' \in [Workers -> 1 .. MaxRetries]
    BY <1>1, <2>1, RetriesAssumption
  <2> QED  BY <1>1, <1>2, <1>3, <2>1, <2>2, <2>3 DEF TypeInv, TypeOK
<1>6. CASE FinishRetry(r)
  <2>1. /\ failedBatches' = RemoveBackward(successful[r], failedBatches)
        /\ pc' = [pc EXCEPT ![r] = "done"] /\ UNCHANGED <<attempt, index, toRetry>>
    BY <1>6 DEF FinishRetry, Goto, retryVars
  <2>2. failedBatches' \in Seq(Batches)
    BY <1>1, <2>1, RemovalType
  <2>3. pc'[r] = "done"
    BY <1>1, <2>1
  <2> QED  BY <1>1, <1>2, <1>3, <2>1, <2>2, <2>3 DEF TypeInv, TypeOK, Underway
<1> QED  BY <1>4, <1>5, <1>6

LEMMA TypeNext == TypeInv /\ [Next]_vars => TypeInv'
<1> SUFFICES ASSUME TypeInv, [Next]_vars PROVE TypeInv'
  OBVIOUS
<1>1. ASSUME NEW b \in Batches, Submit(b) \/ SubmitWorker(b) PROVE TypeInv'
  BY <1>1, AttemptType, SubmitType DEF SubmitWorker, Workers
<1>2. ASSUME NEW r \in Retriers, StartRetry(r) \/ RetryWorker(r) PROVE TypeInv'
  BY <1>2, AttemptType, RetryType DEF RetryWorker, Workers
<1>3. CASE ClearFailedBatches
  <2>1. {failedBatches[k] : k \in DOMAIN failedBatches} \subseteq Batches
    BY DEF TypeInv, TypeOK
  <2>2. <<>> \in Seq(Batches)
    OBVIOUS
  <2>3. /\ failedBatches' = <<>>
        /\ cleared' = cleared \cup {failedBatches[k] : k \in DOMAIN failedBatches}
        /\ UNCHANGED <<pc, attempt, nonce, toRetry, index, successful, nextNonce, mempool, receipts>>
    BY <1>3 DEF ClearFailedBatches, retryVars, nodeVars
  <2> QED  BY <2>1, <2>2, <2>3 DEF TypeInv, TypeOK
<1>4. CASE Crash
  <2>1. /\ pc' = [w \in Workers |-> IF pc[w] = "idle" THEN "idle" ELSE "dead"]
        /\ failedBatches' = <<>>
        /\ UNCHANGED <<attempt, nonce, toRetry, index, successful, nextNonce, mempool, receipts, cleared>>
    BY <1>4 DEF Crash, retryVars, nodeVars
  <2>2. <<>> \in Seq(Batches)
    OBVIOUS
  <2>3. /\ pc' \in [Workers -> Labels]
        /\ \A r \in Retriers : (pc'[r] = "idle" <=> pc[r] = "idle") /\ pc'[r] \notin Underway \cup {"next"}
    BY <2>1 DEF Labels, Underway, Workers
  <2> QED  BY <2>1, <2>2, <2>3 DEF TypeInv, TypeOK
<1>5. CASE Mine
  <2>1. PICK tx \in mempool :
            /\ mempool' = mempool \ {tx}
            /\ receipts' = receipts \cup {[nonce |-> tx.nonce, root |-> tx.root,
                                           status |-> Status(tx.root)]}
    BY <1>5 DEF Mine
  <2>2. /\ nextNonce' = nextNonce + 1
        /\ UNCHANGED <<pc, attempt, nonce, failedBatches, toRetry, index, successful, cleared>>
    BY <1>5 DEF Mine, retryVars
  <2>3. tx.nonce \in Nat /\ tx.root \in Batches /\ Status(tx.root) \in {0, 1}
    BY DEF TypeInv, TypeOK, Status
  <2>4. receipts' \subseteq [nonce : Nat, root : Batches, status : {0, 1}]
    BY <2>1, <2>3 DEF TypeInv, TypeOK
  <2>5. IsFiniteSet(mempool')
    BY <2>1, FS_Subset DEF TypeInv
  <2> QED  BY <2>1, <2>2, <2>4, <2>5 DEF TypeInv, TypeOK
<1>6. CASE Drop
  <2>1. /\ mempool' \subseteq mempool
        /\ UNCHANGED <<pc, attempt, nonce, failedBatches, toRetry, index, successful, nextNonce,
                       receipts, cleared>>
    BY <1>6 DEF Drop, retryVars
  <2>2. IsFiniteSet(mempool')
    BY <2>1, FS_Subset DEF TypeInv
  <2> QED  BY <2>1, <2>2 DEF TypeInv, TypeOK
<1>7. CASE UNCHANGED vars
  BY <1>7 DEF vars, retryVars, nodeVars, TypeInv, TypeOK
<1> QED  BY <1>1, <1>2, <1>3, <1>4, <1>5, <1>6, <1>7 DEF Next

\* submitter.go:138-328.  However many workers and retriers there are, and
\* whatever the node and the callers do, the submitter never looks past the end of a
\* copy and what it removes by index leaves a queue of batches.
THEOREM TypeCorrect == Spec => []TypeOK
<1>1. TypeInv => TypeOK
  BY DEF TypeInv
<1>2. TypeInv /\ [Next]_vars => TypeInv'
  BY TypeNext
<1> QED  BY <1>1, <1>2, TypeInit, PTL DEF Spec

-----------------------------------------------------------------------------
(* The queue never holds a batch twice, whatever the node does and however   *)
(* many retries there are.                                                   *)

\* Entries of a queue, none of them twice.
PartOf(q, s) ==
    /\ s \in Seq(Batches) /\ Distinct(s)
    /\ \A l \in DOMAIN s : \E m \in DOMAIN q : s[l] = q[m]

LEMMA TakenPart ==
    ASSUME NEW q, NEW s, PartOf(q, s), NEW k \in Nat \ {0}
    PROVE  PartOf(q, Taken(s, k))
<1> DEFINE t == Taken(s, k)
<1>1. /\ s \in Seq(Batches) /\ Distinct(s) /\ Len(s) \in Nat /\ DOMAIN s = 1 .. Len(s)
  BY DEF PartOf
<1>2. /\ t \in Seq(Batches)
      /\ k > Len(s) => t = s
      /\ k <= Len(s) => /\ Len(t) = Len(s) - 1
                        /\ \A l \in 1 .. Len(s) - 1 : t[l] = IF l < k THEN s[l] ELSE s[l + 1]
  BY <1>1, TakenFacts
<1> HIDE DEF t
<1>3. CASE k > Len(s)
  BY <1>2, <1>3 DEF t
<1>4. CASE k <= Len(s)
  <2>1. DOMAIN t = 1 .. Len(s) - 1
    BY <1>2, <1>4
  <2>2. ASSUME NEW l \in DOMAIN t
        PROVE  \E o \in DOMAIN s : t[l] = s[o] /\ l = IF o < k THEN o ELSE o - 1
    <3>1. CASE l < k
      BY <1>1, <1>2, <1>4, <2>1, <3>1
    <3>2. CASE ~(l < k)
      <4>1. l + 1 \in DOMAIN s /\ ~(l + 1 < k) /\ l = l + 1 - 1
        BY <1>1, <2>1, <3>2
      <4> QED  BY <1>2, <1>4, <2>1, <3>2, <4>1
    <3> QED  BY <3>1, <3>2
  <2>3. Distinct(t)
    <3> SUFFICES ASSUME NEW l \in DOMAIN t, NEW m \in DOMAIN t, t[l] = t[m] PROVE l = m
      BY DEF Distinct
    <3>1. PICK o \in DOMAIN s : t[l] = s[o] /\ l = IF o < k THEN o ELSE o - 1
      BY <2>2
    <3>2. PICK p \in DOMAIN s : t[m] = s[p] /\ m = IF p < k THEN p ELSE p - 1
      BY <2>2
    <3>3. o = p
      BY <1>1, <3>1, <3>2 DEF Distinct
    <3> QED  BY <3>1, <3>2, <3>3
  <2>4. \A l \in DOMAIN t : \E m \in DOMAIN q : t[l] = q[m]
    BY <2>2 DEF PartOf
  <2> QED  BY <1>2, <2>3, <2>4 DEF PartOf, t
<1> QED  BY <1>1, <1>3, <1>4

\* submitter.go:318-328.  Whichever indices are taken out, right or wrong.
LEMMA RemovalLeavesPart ==
    ASSUME NEW q \in Seq(Batches), Distinct(q), NEW indices \in Seq(Nat \ {0})
    PROVE  PartOf(q, RemoveBackward(indices, q))
<1> DEFINE n == Len(indices)
<1>1. PICK P : Removes(P, indices, q) /\ RemoveBackward(indices, q) = P[n]
  BY RemovalRuns
<1>2. /\ n \in Nat /\ P[0] = q
      /\ \A c \in 1 .. n : P[c] = Taken(P[c - 1], indices[n - c + 1])
  BY <1>1, RemovesFacts
<1>3. \A k \in 1 .. n : indices[k] \in Nat \ {0}
  OBVIOUS
<1> HIDE DEF n
<1> DEFINE N == {c \in Nat : c <= n => PartOf(q, P[c])}
<1>4. 0 \in N
  BY <1>2 DEF PartOf
<1>5. ASSUME NEW c \in N PROVE c + 1 \in N
  <2> SUFFICES ASSUME c + 1 <= n PROVE PartOf(q, P[c + 1])
    OBVIOUS
  <2>1. /\ c \in Nat /\ c <= n /\ c + 1 \in 1 .. n /\ c + 1 - 1 = c
        /\ n - (c + 1) + 1 \in 1 .. n
    BY <1>2
  <2>2. PartOf(q, P[c])
    BY <2>1
  <2>3. P[c + 1] = Taken(P[c], indices[n - (c + 1) + 1])
    BY <1>2, <2>1
  <2>4. indices[n - (c + 1) + 1] \in Nat \ {0}
    BY <1>3, <2>1
  <2> HIDE DEF N
  <2> QED  BY <2>2, <2>3, <2>4, TakenPart
<1>6. N = Nat
  <2>1. N \in SUBSET Nat
    OBVIOUS
  <2> HIDE DEF N
  <2> QED  BY <1>4, <1>5, <2>1, Induction
<1> QED  BY <1>1, <1>2, <1>6

\* Whoever is in the queue has returned, and so comes to it once.
QueueInv ==
    QueuedOnce /\ \A k \in DOMAIN failedBatches : pc[failedBatches[k]] = "failed"

\* A step that lets the queue be, and whoever has failed.
LEMMA QueueKept ==
    ASSUME TypeInv, QueueInv, failedBatches' = failedBatches,
           \A b \in Batches : pc[b] = "failed" => pc'[b] = "failed"
    PROVE  QueueInv'
<1>1. \A k \in DOMAIN failedBatches : failedBatches[k] \in Batches
  BY DEF TypeInv, TypeOK
<1> QED  BY <1>1 DEF QueueInv, QueuedOnce

\* No entry is added while a batch is under way, and a retry adds none.
LEMMA QueueNext == ASSUME TypeInv, QueueInv, [Next]_vars PROVE QueueInv'
<1>1. pc \in [Workers -> Labels] /\ failedBatches \in Seq(Batches)
  BY DEF TypeInv, TypeOK
<1>2. ASSUME NEW w \in Workers, Attempt(w)
      PROVE  QueueInv'
  <2>1. /\ failedBatches' = failedBatches /\ pc[w] # "failed"
        /\ \E label \in Labels : pc' = [pc EXCEPT ![w] = label]
    BY <1>2 DEF Attempt, NodeFails, ReadNonce, EstimateGas, EstimateReverts, Send,
                SendUnanswered, Mined, WaitTimesOut, AttemptFails, AttemptSucceeds, Goto,
                Labels, Underway
  <2> QED  BY <1>1, <2>1, QueueKept DEF Workers
<1>3. ASSUME NEW b \in Batches, Submit(b) PROVE QueueInv'
  BY <1>1, <1>3, QueueKept DEF Submit, Goto, Workers
<1>4. ASSUME NEW b \in Batches, Enqueue(b) PROVE QueueInv'
  <2>1. /\ pc[b] = "exhausted" /\ pc' = [pc EXCEPT ![b] = "failed"]
        /\ failedBatches' = Append(failedBatches, b) /\ b \in Workers
    BY <1>4 DEF Enqueue, Goto, Workers
  <2>2. /\ DOMAIN failedBatches' = DOMAIN failedBatches \cup {Len(failedBatches) + 1}
        /\ failedBatches'[Len(failedBatches) + 1] = b
        /\ \A k \in DOMAIN failedBatches : failedBatches'[k] = failedBatches[k]
    BY <1>1, <2>1
  <2>3. \A k \in DOMAIN failedBatches : failedBatches[k] # b /\ failedBatches[k] \in Workers
    BY <1>1, <2>1 DEF QueueInv, Workers
  <2>4. QueuedOnce'
    BY <2>2, <2>3 DEF QueueInv, QueuedOnce
  <2>5. \A k \in DOMAIN failedBatches' : pc'[failedBatches'[k]] = "failed"
    BY <1>1, <2>1, <2>2, <2>3 DEF QueueInv
  <2> QED  BY <2>4, <2>5 DEF QueueInv
<1>5. ASSUME NEW r \in Retriers, StartRetry(r) \/ NextBatch(r) PROVE QueueInv'
  BY <1>1, <1>5, WorkersAssumption, QueueKept DEF StartRetry, NextBatch, Goto, Workers
<1>6. ASSUME NEW r \in Retriers, FinishRetry(r) PROVE QueueInv'
  <2>1. /\ pc' = [pc EXCEPT ![r] = "done"]
        /\ failedBatches' = RemoveBackward(successful[r], failedBatches)
        /\ successful[r] \in Seq(Nat \ {0})
    BY <1>6 DEF FinishRetry, Goto, TypeInv, TypeOK
  <2>2. PartOf(failedBatches, failedBatches')
    <3>1. Distinct(failedBatches)
      BY DEF QueueInv, QueuedOnce, Distinct
    <3> QED  BY <1>1, <2>1, <3>1, RemovalLeavesPart
  <2>3. \A k \in DOMAIN failedBatches : pc'[failedBatches[k]] = "failed"
    BY <1>1, <2>1, WorkersAssumption DEF QueueInv, Workers
  <2> QED  BY <2>2, <2>3 DEF PartOf, QueueInv, QueuedOnce, Distinct
<1>7. CASE ClearFailedBatches \/ Crash
  BY <1>7 DEF ClearFailedBatches, Crash, QueueInv, QueuedOnce
<1>8. CASE Mine \/ Drop \/ UNCHANGED vars
  BY <1>8, QueueKept DEF Mine, Drop, vars
<1> QED  BY <1>2, <1>3, <1>4, <1>5, <1>6, <1>7, <1>8 DEF Next, SubmitWorker, RetryWorker, Workers

\* submitter.go:161-177, 318-328: the queue holds no batch twice, however many
\* calls end at a time, however many retries overlap and whatever they remove.
THEOREM QueuesOnce == Spec => []QueuedOnce
<1>1. Init => TypeInv /\ QueueInv
  BY TypeInit DEF Init, QueueInv, QueuedOnce
<1>2. TypeInv /\ QueueInv /\ [Next]_vars => TypeInv' /\ QueueInv'
  BY TypeNext, QueueNext
<1>3. QueueInv => QueuedOnce
  BY DEF QueueInv
<1> QED  BY <1>1, <1>2, <1>3, PTL DEF Spec

-----------------------------------------------------------------------------
(* The submitter implements Delivery. *)

\* One retry call, of which the server has none: it never calls
\* RetryFailedBatches, and cmd/retry is a process of its own.  The node keeps what
\* it takes, and the process does not end.
OneRetryAssumption ==
    /\ \A r, s \in Retriers : r = s
    /\ ~Replaces /\ ~Drops /\ ~Clears /\ ~Crashes

\* Who waits, or has been told it succeeded, has sent its batch.
SentInv ==
    \A w \in Workers : pc[w] \in {"wait", "ok"} => Root(w) \in Sent

\* The copy a retrier works on is still the front of the queue, and what it has
\* noted as successful was sent, in the order of the copy.
CopyInv(r) ==
    /\ Len(toRetry[r]) <= Len(failedBatches)
    /\ \A k \in DOMAIN toRetry[r] : failedBatches[k] = toRetry[r][k]
NotedInv(r) ==
    /\ Increasing(successful[r], Len(toRetry[r]))
    /\ \A k \in DOMAIN successful[r] :
          /\ successful[r][k] <= index[r]
          /\ pc[r] # "next" => successful[r][k] < index[r]
          /\ toRetry[r][successful[r][k]] \in Sent
RetryInv ==
    \A r \in Retriers :
       /\ pc[r] = "idle" => successful[r] = <<>>
       /\ pc[r] \in Underway \cup {"next"} => CopyInv(r) /\ NotedInv(r)

DeliveryInv == TypeInv /\ QueueInv /\ SentInv /\ RetryInv

LEMMA DeliveryInit == Init => DeliveryInv /\ Promise!Init
<1> SUFFICES ASSUME Init PROVE DeliveryInv /\ Promise!Init
  OBVIOUS
<1>1. Settled = {} /\ Sent = {}
  BY DEF Init, Settled, Sent, Pending
<1>2. Handed = {} /\ InHand = {} /\ Queue = {}
  BY DEF Init, Handed, InHand, Queue, InQueue, Workers, Underway
<1>3. SentInv /\ QueueInv /\ RetryInv
  BY DEF Init, SentInv, QueueInv, QueuedOnce, RetryInv, Workers, Underway
<1> QED  BY <1>1, <1>2, <1>3, TypeInit DEF DeliveryInv, Promise!Init

\* What an attempt may do: it moves its worker and no queue; it sends the batch
\* before it waits; it ends well only if the batch was sent.
Outcome(w, label) ==
    /\ pc' = [pc EXCEPT ![w] = label]
    /\ label \in Underway \cup (IF w \in Batches THEN {"exhausted", "ok"} ELSE {"next"})
    /\ label = "wait" => Root(w) \in Sent'
    /\ label = "ok" => Root(w) \in Sent /\ Sent' = Sent
    /\ Sent' = Sent \/ Sent' = Sent \cup {Root(w)}
    /\ \/ successful' = successful
       \/ /\ w \in Retriers /\ label = "next" /\ Root(w) \in Sent
          /\ successful' = [successful EXCEPT ![w] = Append(@, index[w])]
    /\ UNCHANGED <<failedBatches, toRetry, index>>
    /\ Settled' = Settled

LEMMA FailureOutcome ==
    ASSUME NEW w \in Workers, AttemptFails(w), Settled' = Settled,
           Sent' = Sent \/ Sent' = Sent \cup {Root(w)}
    PROVE  \E label : Outcome(w, label)
<1>1. PICK label \in {"attempt"} \cup (IF w \in Batches THEN {"exhausted"} ELSE {"next"}) :
          pc' = [pc EXCEPT ![w] = label]
  BY DEF AttemptFails, Goto
<1>2. UNCHANGED <<failedBatches, toRetry, index, successful>>
  BY DEF AttemptFails, retryVars
<1>3. Outcome(w, label)
  BY <1>1, <1>2 DEF Outcome, Underway
<1> QED  BY <1>3

LEMMA SuccessOutcome ==
    ASSUME NEW w \in Workers, AttemptSucceeds(w), Root(w) \in Sent, UNCHANGED nodeVars
    PROVE  \E label : Outcome(w, label)
<1>1. Sent' = Sent /\ Settled' = Settled
  BY DEF nodeVars, Sent, Settled, Pending
<1>2. UNCHANGED <<failedBatches, toRetry, index>>
  BY DEF AttemptSucceeds
<1>3. CASE w \in Batches
  <2>1. pc' = [pc EXCEPT ![w] = "ok"] /\ successful' = successful
    BY <1>3, WorkersAssumption DEF AttemptSucceeds, Goto
  <2>2. Outcome(w, "ok")
    BY <1>1, <1>2, <1>3, <2>1 DEF Outcome
  <2> QED  BY <2>2
<1>4. CASE w \notin Batches
  <2>1. /\ w \in Retriers /\ pc' = [pc EXCEPT ![w] = "next"]
        /\ successful' = [successful EXCEPT ![w] = Append(@, index[w])]
    BY <1>4 DEF AttemptSucceeds, Goto, Workers
  <2>2. Outcome(w, "next")
    BY <1>1, <1>2, <1>4, <2>1 DEF Outcome
  <2> QED  BY <2>2
<1> QED  BY <1>3, <1>4

\* The node takes a transaction.
LEMMA HeldSent ==
    ASSUME TypeInv, ~Replaces, NEW w \in Workers, pc[w] = "send",
           Accepts(nonce[w]), mempool' = Held(w), receipts' = receipts
    PROVE  Sent' = Sent \cup {Root(w)} /\ Settled' = Settled
<1>1. mempool' = mempool \cup {[nonce |-> nonce[w], root |-> Root(w)]}
  BY DEF Accepts, Held
<1>2. Settled' = Settled
  BY DEF Settled
<1>3. PICK new : new.root = Root(w) /\ mempool' = mempool \cup {new}
  BY <1>1
<1>4. \A c \in Batches : Pending(c)' <=> Pending(c) \/ c = Root(w)
  BY <1>3 DEF Pending
<1>5. Root(w) \in Batches
  BY RootType DEF Underway
<1> QED  BY <1>2, <1>4, <1>5 DEF Sent

LEMMA AttemptOutcome ==
    ASSUME DeliveryInv, ~Replaces, NEW w \in Workers, Attempt(w)
    PROVE  pc[w] \in Underway /\ \E label : Outcome(w, label)
<1>1. CASE NodeFails(w) \/ EstimateReverts(w)
  <2>1. AttemptFails(w) /\ pc[w] \in Underway /\ UNCHANGED nodeVars
    BY <1>1 DEF NodeFails, EstimateReverts, Underway
  <2>2. Sent' = Sent /\ Settled' = Settled
    BY <2>1 DEF nodeVars, Sent, Settled, Pending
  <2> QED  BY <2>1, <2>2, FailureOutcome
<1>2. CASE ReadNonce(w) \/ EstimateGas(w)
  <2>1. PICK label \in {"estimate", "send"} :
            pc' = [pc EXCEPT ![w] = label] /\ pc[w] \in Underway
    BY <1>2 DEF ReadNonce, EstimateGas, Goto, Underway
  <2>2. UNCHANGED <<failedBatches, toRetry, index, successful, mempool, receipts>>
    BY <1>2 DEF ReadNonce, EstimateGas, retryVars, nodeVars
  <2>3. Sent' = Sent /\ Settled' = Settled
    BY <2>2 DEF Sent, Settled, Pending
  <2>4. Outcome(w, label)
    BY <2>1, <2>2, <2>3 DEF Outcome, Underway
  <2> QED  BY <2>1, <2>4
<1>3. CASE Send(w)
  <2>1. /\ pc[w] = "send" /\ Accepts(nonce[w]) /\ mempool' = Held(w)
        /\ pc' = [pc EXCEPT ![w] = "wait"]
        /\ UNCHANGED <<failedBatches, toRetry, index, successful, receipts>>
    BY <1>3 DEF Send, Goto, retryVars
  <2>2. Sent' = Sent \cup {Root(w)} /\ Settled' = Settled
    BY <2>1, HeldSent DEF DeliveryInv
  <2>3. Outcome(w, "wait") /\ pc[w] \in Underway
    BY <2>1, <2>2 DEF Outcome, Underway
  <2> QED  BY <2>3
<1>4. CASE SendUnanswered(w)
  <2>1. /\ pc[w] = "send" /\ Accepts(nonce[w]) /\ mempool' = Held(w) /\ receipts' = receipts
        /\ AttemptFails(w) /\ pc[w] \in Underway
    BY <1>4 DEF SendUnanswered, Underway
  <2>2. Sent' = Sent \cup {Root(w)} /\ Settled' = Settled
    BY <2>1, HeldSent DEF DeliveryInv
  <2> QED  BY <2>1, <2>2, FailureOutcome
<1>5. CASE Mined(w) \/ WaitTimesOut(w)
  <2>1. /\ pc[w] = "wait" /\ UNCHANGED nodeVars
        /\ AttemptFails(w) \/ AttemptSucceeds(w)
    BY <1>5 DEF Mined, WaitTimesOut
  <2>2. pc[w] \in Underway /\ Root(w) \in Sent
    BY <2>1 DEF Underway, DeliveryInv, SentInv
  <2>3. Sent' = Sent /\ Settled' = Settled
    BY <2>1 DEF nodeVars, Sent, Settled, Pending
  <2> QED  BY <2>1, <2>2, <2>3, FailureOutcome, SuccessOutcome
<1> QED  BY <1>1, <1>2, <1>3, <1>4, <1>5 DEF Attempt

LEMMA AttemptImplements ==
    ASSUME DeliveryInv, NEW w \in Workers, pc[w] \in Underway,
           NEW label, Outcome(w, label)
    PROVE  [Promise!Next]_(Promise!vars)
<1>1. pc \in [Workers -> Labels] /\ pc' = [pc EXCEPT ![w] = label]
  BY DEF DeliveryInv, TypeInv, TypeOK, Outcome
<1>2. Handed' = Handed
  BY <1>1 DEF Outcome, Handed, Workers, Underway
<1>3. Queue' = Queue /\ Settled' = Settled
  BY DEF Outcome, Queue, InQueue
<1>4. CASE label = "ok"
  <2>1. w \in Batches
    BY <1>4 DEF Outcome, Underway
  <2>2. w \in InHand /\ InHand' = InHand \ {w}
    BY <1>1, <1>4, <2>1 DEF InHand, Workers, Underway
  <2>3. w \in Sent /\ Sent' = Sent
    BY <1>4, <2>1 DEF Outcome, Root
  <2> QED  BY <1>2, <1>3, <2>1, <2>2, <2>3 DEF Promise!Next, Promise!Return
<1>5. CASE label # "ok"
  <2>1. InHand' = InHand
    BY <1>1, <1>5, WorkersAssumption DEF Outcome, InHand, Workers, Underway
  <2>2. CASE Sent' = Sent
    BY <1>2, <1>3, <2>1, <2>2 DEF Promise!vars
  <2>3. CASE Sent' # Sent
    <3>1. Sent' = Sent \cup {Root(w)} /\ Root(w) \notin Sent /\ Root(w) \in Batches
      BY <2>3, RootType DEF Outcome, DeliveryInv
    <3>2. Root(w) \in InHand \cup Queue
      <4>1. CASE w \in Batches
        BY <4>1 DEF Root, InHand
      <4>2. CASE w \notin Batches
        <5>1. /\ w \in Retriers /\ CopyInv(w) /\ index[w] \in Nat \ {0}
              /\ index[w] <= Len(toRetry[w]) /\ toRetry[w] \in Seq(Batches)
              /\ failedBatches \in Seq(Batches)
          BY <4>2 DEF DeliveryInv, RetryInv, TypeInv, TypeOK, Workers
        <5>2. index[w] \in DOMAIN toRetry[w] /\ index[w] \in DOMAIN failedBatches
          BY <5>1 DEF CopyInv
        <5>3. failedBatches[index[w]] = Root(w)
          BY <4>2, <5>1, <5>2 DEF CopyInv, Root
        <5> QED  BY <3>1, <5>2, <5>3 DEF Queue, InQueue
      <4> QED  BY <4>1, <4>2
    <3> QED  BY <1>2, <1>3, <2>1, <3>1, <3>2 DEF Promise!Next, Promise!Send
  <2> QED  BY <2>2, <2>3
<1> QED  BY <1>4, <1>5

\* Noting the entry a retrier is at keeps its notes in order.
LEMMA NoteAdded ==
    ASSUME NEW s, NEW n \in Nat, Increasing(s, n), NEW k \in Nat \ {0}, k <= n,
           \A l \in DOMAIN s : s[l] < k
    PROVE  /\ Increasing(Append(s, k), n)
           /\ \A l \in DOMAIN Append(s, k) :
                 \/ l \in DOMAIN s /\ Append(s, k)[l] = s[l]
                 \/ Append(s, k)[l] = k
<1> DEFINE t == Append(s, k)
<1>1. /\ s \in Seq(Nat \ {0}) /\ t \in Seq(Nat \ {0}) /\ Len(s) \in Nat
      /\ DOMAIN s = 1 .. Len(s) /\ DOMAIN t = 1 .. Len(s) + 1
      /\ t[Len(s) + 1] = k /\ \A l \in 1 .. Len(s) : t[l] = s[l]
  BY DEF Increasing
<1> HIDE DEF t
<1>2. ASSUME NEW l \in DOMAIN t
      PROVE  \/ l \in DOMAIN s /\ t[l] = s[l]
             \/ l = Len(s) + 1 /\ t[l] = k
  BY <1>1
<1>3. \A l \in DOMAIN s : s[l] \in Nat \ {0}
  BY <1>1
<1>4. \A l \in DOMAIN t : t[l] <= n
  BY <1>2 DEF Increasing
<1>5. ASSUME NEW l \in DOMAIN t, NEW m \in DOMAIN t, l < m PROVE t[l] < t[m]
  <2>1. l \in DOMAIN s /\ t[l] = s[l]
    BY <1>1, <1>5
  <2>2. CASE m \in DOMAIN s /\ t[m] = s[m]
    BY <1>5, <2>1, <2>2 DEF Increasing
  <2>3. CASE t[m] = k
    BY <2>1, <2>3
  <2> QED  BY <1>2, <2>2, <2>3
<1>6. Increasing(t, n)
  BY <1>1, <1>4, <1>5 DEF Increasing
<1> QED  BY <1>2, <1>6 DEF t

\* A retrier that another step leaves alone, while the queue keeps its front.
LEMMA RetrierKept ==
    ASSUME NEW r \in Retriers, TypeInv, CopyInv(r), NotedInv(r), Sent \subseteq Sent',
           UNCHANGED <<pc[r], toRetry[r], index[r], successful[r]>>,
           Len(failedBatches') >= Len(failedBatches),
           \A k \in DOMAIN failedBatches : failedBatches'[k] = failedBatches[k],
           failedBatches' \in Seq(Batches)
    PROVE  CopyInv(r)' /\ NotedInv(r)'
<1>1. failedBatches \in Seq(Batches) /\ toRetry[r] \in Seq(Batches)
  BY DEF TypeInv, TypeOK
<1>2. CopyInv(r)'
  <2>1. /\ Len(toRetry[r]) \in Nat /\ Len(failedBatches) \in Nat /\ Len(failedBatches') \in Nat
        /\ DOMAIN toRetry[r] = 1 .. Len(toRetry[r]) /\ DOMAIN failedBatches = 1 .. Len(failedBatches)
    BY <1>1
  <2>2. \A k \in DOMAIN toRetry[r] : k \in DOMAIN failedBatches
    BY <2>1 DEF CopyInv
  <2> QED  BY <2>1, <2>2 DEF CopyInv
<1>3. NotedInv(r)'
  BY DEF NotedInv
<1> QED  BY <1>2, <1>3

LEMMA AttemptKeeps ==
    ASSUME DeliveryInv, TypeInv', QueueInv', \A r, s \in Retriers : r = s,
           NEW w \in Workers, pc[w] \in Underway, NEW label, Outcome(w, label)
    PROVE  DeliveryInv'
<1>1. /\ pc \in [Workers -> Labels] /\ pc' = [pc EXCEPT ![w] = label]
      /\ UNCHANGED <<failedBatches, toRetry, index>> /\ Sent \subseteq Sent'
  BY DEF DeliveryInv, TypeInv, TypeOK, Outcome
<1>2. SentInv'
  <2>1. \A v \in Workers : Root(v)' = Root(v)
    BY <1>1 DEF Root
  <2>2. \A v \in Workers \ {w} : pc'[v] = pc[v]
    BY <1>1
  <2>3. pc'[w] \in {"wait", "ok"} => Root(w) \in Sent'
    BY <1>1 DEF Outcome
  <2> QED  BY <1>1, <2>1, <2>2, <2>3 DEF SentInv, DeliveryInv
<1>3. ASSUME NEW r \in Retriers
      PROVE  /\ pc'[r] = "idle" => successful'[r] = <<>>
             /\ pc'[r] \in Underway \cup {"next"} => CopyInv(r)' /\ NotedInv(r)'
  <2>1. r \in Workers /\ r \notin Batches
    BY WorkersAssumption DEF Workers
  <2>2. CASE w # r
    <3>1. w \notin Retriers /\ pc'[r] = pc[r] /\ successful' = successful
      BY <1>1, <2>1, <2>2 DEF Outcome
    <3>2. failedBatches' \in Seq(Batches) /\ Len(failedBatches') >= Len(failedBatches)
      BY <1>1 DEF DeliveryInv, TypeInv, TypeOK
    <3>3. /\ pc[r] = "idle" => successful[r] = <<>>
          /\ pc[r] \in Underway \cup {"next"} => CopyInv(r) /\ NotedInv(r)
      BY DEF DeliveryInv, RetryInv
    <3>4. pc'[r] = "idle" => successful'[r] = <<>>
      BY <3>1, <3>3
    <3>5. ASSUME pc'[r] \in Underway \cup {"next"} PROVE CopyInv(r)' /\ NotedInv(r)'
      <4>1. CopyInv(r) /\ NotedInv(r)
        BY <3>1, <3>3, <3>5
      <4>2. /\ UNCHANGED <<pc[r], toRetry[r], index[r], successful[r]>>
            /\ \A k \in DOMAIN failedBatches : failedBatches'[k] = failedBatches[k]
        BY <1>1, <3>1
      <4> QED  BY <1>1, <3>2, <4>1, <4>2, RetrierKept DEF DeliveryInv
    <3> QED  BY <3>4, <3>5
  <2>3. CASE w = r
    <3>1. /\ CopyInv(r) /\ NotedInv(r) /\ pc[r] # "next" /\ pc'[r] = label /\ label # "idle"
      BY <1>1, <2>1, <2>3 DEF DeliveryInv, RetryInv, Outcome, Underway
    <3>2. /\ index[r] \in Nat \ {0} /\ index[r] <= Len(toRetry[r]) /\ toRetry[r] \in Seq(Batches)
          /\ successful \in [Retriers -> Seq(Nat \ {0})]
      BY <2>3 DEF DeliveryInv, TypeInv, TypeOK
    <3>3. CopyInv(r)'
      BY <1>1, <3>1 DEF CopyInv
    <3>4. /\ Increasing(successful[r], Len(toRetry[r]))
          /\ \A k \in DOMAIN successful[r] : /\ successful[r][k] < index[r]
                                            /\ successful[r][k] <= index[r]
                                            /\ toRetry[r][successful[r][k]] \in Sent
      <4>1. \A k \in DOMAIN successful[r] : /\ successful[r][k] < index[r]
                                            /\ successful[r][k] <= index[r]
                                            /\ toRetry[r][successful[r][k]] \in Sent
        BY <3>1 DEF NotedInv
      <4> QED  BY <3>1, <4>1 DEF NotedInv
    <3>5. ASSUME successful' = successful PROVE NotedInv(r)'
      <4>1. /\ Increasing(successful'[r], Len(toRetry'[r]))
            /\ \A k \in DOMAIN successful'[r] : /\ successful'[r][k] < index'[r]
                                               /\ successful'[r][k] <= index'[r]
                                               /\ toRetry'[r][successful'[r][k]] \in Sent'
        BY <1>1, <3>4, <3>5
      <4> QED  BY <4>1 DEF NotedInv
    <3>6. ASSUME successful' # successful PROVE NotedInv(r)'
      <4>1. /\ label = "next" /\ toRetry[r][index[r]] \in Sent
            /\ successful'[r] = Append(successful[r], index[r])
        BY <2>1, <2>3, <3>2, <3>6 DEF Outcome, Root
      <4>2. Len(toRetry[r]) \in Nat
        BY <3>2
      <4>3. /\ Increasing(successful'[r], Len(toRetry[r]))
            /\ \A k \in DOMAIN successful'[r] :
                  \/ k \in DOMAIN successful[r] /\ successful'[r][k] = successful[r][k]
                  \/ successful'[r][k] = index[r]
        BY <3>2, <3>4, <4>1, <4>2, NoteAdded
      <4>4. \A k \in DOMAIN successful'[r] : /\ successful'[r][k] <= index[r]
                                            /\ toRetry[r][successful'[r][k]] \in Sent
        BY <3>2, <3>4, <4>1, <4>3
      <4> QED  BY <1>1, <3>1, <4>1, <4>3, <4>4 DEF NotedInv
    <3>7. NotedInv(r)'
      BY <3>5, <3>6
    <3> QED  BY <3>1, <3>3, <3>7
  <2> QED  BY <2>2, <2>3
<1>4. RetryInv'
  BY <1>3 DEF RetryInv
<1> QED  BY <1>2, <1>4 DEF DeliveryInv

LEMMA SubmitKeeps ==
    ASSUME DeliveryInv, TypeInv', QueueInv', NEW b \in Batches, Submit(b)
    PROVE  DeliveryInv' /\ Promise!HandOver(b)
<1>1. /\ pc \in [Workers -> Labels] /\ pc[b] = "idle" /\ pc' = [pc EXCEPT ![b] = "attempt"]
      /\ UNCHANGED <<failedBatches, retryVars, mempool, receipts>>
  BY DEF DeliveryInv, TypeInv, TypeOK, Submit, Goto, nodeVars
<1>2. Sent' = Sent /\ Settled' = Settled
  BY <1>1 DEF Sent, Settled, Pending
<1>3. /\ b \notin Handed /\ Handed' = Handed \cup {b}
      /\ InHand' = InHand \cup {b} /\ Queue' = Queue
  BY <1>1 DEF Workers, Handed, InHand, Queue, InQueue, Underway
<1>4. /\ \A w \in Workers : Root(w)' = Root(w)
      /\ \A w \in Workers \ {b} : pc'[w] = pc[w]
      /\ pc'[b] = "attempt"
  BY <1>1 DEF Root, retryVars, Workers
<1>5. SentInv'
  BY <1>2, <1>4 DEF SentInv, DeliveryInv
<1>6. RetryInv'
  <2>1. \A r \in Retriers : pc'[r] = pc[r]
    BY <1>4, WorkersAssumption DEF Workers
  <2> QED  BY <1>1, <1>2, <2>1 DEF DeliveryInv, RetryInv, CopyInv, NotedInv, retryVars
<1> QED  BY <1>2, <1>3, <1>5, <1>6 DEF DeliveryInv, Promise!HandOver

LEMMA EnqueueKeeps ==
    ASSUME DeliveryInv, TypeInv', QueueInv', NEW b \in Batches, Enqueue(b)
    PROVE  DeliveryInv' /\ Promise!Return(b)
<1>1. /\ pc \in [Workers -> Labels] /\ pc[b] = "exhausted" /\ pc' = [pc EXCEPT ![b] = "failed"]
      /\ failedBatches' = Append(failedBatches, b) /\ failedBatches \in Seq(Batches)
      /\ failedBatches' \in Seq(Batches)
      /\ UNCHANGED <<retryVars, mempool, receipts>>
  BY DEF DeliveryInv, TypeInv, TypeOK, Enqueue, Goto, nodeVars
<1>2. /\ Len(failedBatches') = Len(failedBatches) + 1 /\ Len(failedBatches) \in Nat
      /\ failedBatches'[Len(failedBatches) + 1] = b
      /\ \A k \in DOMAIN failedBatches : failedBatches'[k] = failedBatches[k]
      /\ DOMAIN failedBatches' = DOMAIN failedBatches \cup {Len(failedBatches) + 1}
      /\ Len(failedBatches') >= Len(failedBatches)
  BY <1>1
<1>3. Sent' = Sent /\ Settled' = Settled
  BY <1>1 DEF Sent, Settled, Pending
<1>4. Queue' = Queue \cup {b}
  BY <1>2 DEF Queue, InQueue
<1>5. b \in InHand /\ InHand' = InHand \ {b} /\ Handed' = Handed
  BY <1>1 DEF Workers, Handed, InHand, Underway
<1>6. /\ \A w \in Workers : Root(w)' = Root(w)
      /\ \A w \in Workers \ {b} : pc'[w] = pc[w]
      /\ pc'[b] = "failed" /\ b \in Workers
  BY <1>1 DEF Root, retryVars, Workers
<1>7. SentInv'
  BY <1>3, <1>6 DEF SentInv, DeliveryInv
<1>8. ASSUME NEW r \in Retriers
      PROVE  /\ pc'[r] = "idle" => successful'[r] = <<>>
             /\ pc'[r] \in Underway \cup {"next"} => CopyInv(r)' /\ NotedInv(r)'
  <2>1. pc'[r] = pc[r] /\ UNCHANGED <<pc[r], toRetry[r], index[r], successful[r]>>
    BY <1>1, <1>6, WorkersAssumption DEF Workers, retryVars
  <2>2. /\ pc[r] = "idle" => successful[r] = <<>>
        /\ pc[r] \in Underway \cup {"next"} => CopyInv(r) /\ NotedInv(r)
    BY DEF DeliveryInv, RetryInv
  <2>3. ASSUME pc'[r] \in Underway \cup {"next"} PROVE CopyInv(r)' /\ NotedInv(r)'
    BY <1>1, <1>2, <1>3, <2>1, <2>2, <2>3, RetrierKept DEF DeliveryInv
  <2> QED  BY <2>1, <2>2, <2>3
<1>9. RetryInv'
  BY <1>8 DEF RetryInv
<1> QED  BY <1>3, <1>4, <1>5, <1>7, <1>9 DEF DeliveryInv, Promise!Return

\* A step of the only retrier that sends nothing and leaves the queue alone.
LEMMA RetrierSteps ==
    ASSUME DeliveryInv, TypeInv', QueueInv', \A p, s \in Retriers : p = s, NEW r \in Retriers,
           pc[r] \in {"idle", "next"},
           pc' = [pc EXCEPT ![r] = "attempt"],
           UNCHANGED <<failedBatches, nodeVars, successful>>,
           \A w \in Batches : Root(w)' = Root(w),
           CopyInv(r)', NotedInv(r)'
    PROVE  DeliveryInv' /\ UNCHANGED Promise!vars
<1>1. pc \in [Workers -> Labels] /\ r \in Workers /\ r \notin Batches
  BY WorkersAssumption DEF DeliveryInv, TypeInv, TypeOK, Workers
<1>2. Sent' = Sent /\ Settled' = Settled
  BY DEF Sent, Settled, Pending, nodeVars
<1>3. Handed' = Handed /\ InHand' = InHand /\ Queue' = Queue
  BY <1>1 DEF Handed, InHand, Queue, InQueue, Workers
<1>4. \A w \in Workers \ {r} : pc'[w] = pc[w] /\ w \in Batches
  BY <1>1 DEF Workers
<1>5. SentInv'
  BY <1>1, <1>2, <1>4 DEF SentInv, DeliveryInv
<1>6. \A s \in Retriers : s = r
  OBVIOUS
<1>7. pc'[r] # "idle"
  BY <1>1
<1>8. RetryInv'
  BY <1>6, <1>7 DEF RetryInv
<1> QED  BY <1>2, <1>3, <1>5, <1>8 DEF DeliveryInv, Promise!vars

LEMMA StartKeeps ==
    ASSUME DeliveryInv, TypeInv', QueueInv', \A p, s \in Retriers : p = s, NEW r \in Retriers,
           StartRetry(r)
    PROVE  DeliveryInv' /\ UNCHANGED Promise!vars
<1>1. /\ pc[r] = "idle" /\ pc' = [pc EXCEPT ![r] = "attempt"]
      /\ UNCHANGED <<failedBatches, nodeVars, successful>>
      /\ failedBatches \in Seq(Batches)
      /\ toRetry' = [toRetry EXCEPT ![r] = failedBatches]
  BY DEF StartRetry, Goto, DeliveryInv, TypeInv, TypeOK
<1>2. toRetry'[r] = failedBatches /\ failedBatches' = failedBatches
  BY <1>1 DEF DeliveryInv, TypeInv, TypeOK
<1>3. CopyInv(r)'
  <2>1. Len(failedBatches) \in Nat
    BY <1>1
  <2> QED  BY <1>2, <2>1 DEF CopyInv
<1>4. successful'[r] = <<>>
  BY <1>1 DEF DeliveryInv, RetryInv
<1>5. NotedInv(r)'
  BY <1>4 DEF NotedInv, Increasing
<1>6. \A w \in Batches : Root(w)' = Root(w)
  BY DEF Root
<1> QED  BY <1>1, <1>3, <1>5, <1>6, RetrierSteps

LEMMA NextKeeps ==
    ASSUME DeliveryInv, TypeInv', QueueInv', \A p, s \in Retriers : p = s, NEW r \in Retriers,
           NextBatch(r)
    PROVE  DeliveryInv' /\ UNCHANGED Promise!vars
<1>1. /\ pc[r] = "next" /\ pc' = [pc EXCEPT ![r] = "attempt"]
      /\ UNCHANGED <<failedBatches, nodeVars, successful, toRetry>>
      /\ index' = [index EXCEPT ![r] = @ + 1] /\ index \in [Retriers -> Nat \ {0}]
      /\ successful \in [Retriers -> Seq(Nat \ {0})]
  BY DEF NextBatch, Goto, DeliveryInv, TypeInv, TypeOK
<1>2. CopyInv(r) /\ NotedInv(r)
  BY <1>1 DEF DeliveryInv, RetryInv
<1>3. CopyInv(r)'
  BY <1>1, <1>2 DEF CopyInv
<1>4. /\ Increasing(successful[r], Len(toRetry[r]))
      /\ \A k \in DOMAIN successful[r] : /\ successful[r][k] <= index[r]
                                        /\ toRetry[r][successful[r][k]] \in Sent
  BY <1>2 DEF NotedInv
<1>5. index'[r] = index[r] + 1 /\ index[r] \in Nat
  BY <1>1
<1>6. \A k \in DOMAIN successful[r] : successful[r][k] \in Nat
  BY <1>1
<1>7. Sent' = Sent
  BY <1>1 DEF Sent, Settled, Pending, nodeVars
<1>8. \A k \in DOMAIN successful'[r] : /\ successful'[r][k] <= index'[r]
                                      /\ successful'[r][k] < index'[r]
                                      /\ toRetry'[r][successful'[r][k]] \in Sent'
  BY <1>1, <1>4, <1>5, <1>6, <1>7
<1>9. Increasing(successful'[r], Len(toRetry'[r]))
  BY <1>1, <1>4
<1>10. NotedInv(r)'
  BY <1>8, <1>9 DEF NotedInv
<1>11. \A w \in Batches : Root(w)' = Root(w)
  BY DEF Root
<1> QED  BY <1>1, <1>3, <1>10, <1>11, RetrierSteps

\* submitter.go:318-328.  What is taken out of the queue has been sent.
LEMMA FinishKeeps ==
    ASSUME DeliveryInv, TypeInv', QueueInv', \A p, s \in Retriers : p = s, NEW r \in Retriers,
           FinishRetry(r)
    PROVE  DeliveryInv' /\ Promise!Dequeue
<1>1. /\ pc[r] = "next" /\ pc' = [pc EXCEPT ![r] = "done"]
      /\ UNCHANGED <<retryVars, nodeVars>>
      /\ failedBatches' = RemoveBackward(successful[r], failedBatches)
      /\ failedBatches \in Seq(Batches) /\ toRetry[r] \in Seq(Batches)
      /\ pc \in [Workers -> Labels] /\ r \in Workers /\ r \notin Batches
  BY WorkersAssumption DEF FinishRetry, Goto, DeliveryInv, TypeInv, TypeOK, Workers
<1>2. CopyInv(r) /\ NotedInv(r)
  BY <1>1 DEF DeliveryInv, RetryInv
<1>3. Increasing(successful[r], Len(failedBatches))
  <2>1. Increasing(successful[r], Len(toRetry[r])) /\ Len(toRetry[r]) <= Len(failedBatches)
    BY <1>2 DEF CopyInv, NotedInv
  <2>2. Len(toRetry[r]) \in Nat /\ Len(failedBatches) \in Nat
    BY <1>1
  <2>3. \A k \in DOMAIN successful[r] : successful[r][k] \in Nat
    BY <2>1 DEF Increasing
  <2> QED  BY <2>1, <2>2, <2>3 DEF Increasing
<1>4. Distinct(failedBatches)
  BY DEF DeliveryInv, QueueInv, QueuedOnce, Distinct
<1>5. /\ Distinct(failedBatches')
      /\ \A l \in DOMAIN failedBatches' : \E m \in DOMAIN failedBatches :
            failedBatches'[l] = failedBatches[m]
      /\ \A m \in DOMAIN failedBatches :
            (\A k \in DOMAIN successful[r] : successful[r][k] # m)
            => \E l \in DOMAIN failedBatches' : failedBatches'[l] = failedBatches[m]
  BY <1>1, <1>3, <1>4, RemovalThins
<1>6. Sent' = Sent /\ Settled' = Settled
  BY <1>1 DEF Sent, Settled, Pending, nodeVars
<1>7. Handed' = Handed /\ InHand' = InHand
  BY <1>1 DEF Handed, InHand, Workers
<1>8. Queue' \subseteq Queue
  BY <1>5 DEF Queue, InQueue
<1>9. ASSUME NEW b \in Queue, b \notin Queue' PROVE b \in Sent
  <2>1. PICK m \in DOMAIN failedBatches : failedBatches[m] = b
    BY DEF Queue, InQueue
  <2>2. PICK k \in DOMAIN successful[r] : successful[r][k] = m
    BY <1>5, <1>9, <2>1 DEF Queue, InQueue
  <2>3. m \in DOMAIN toRetry[r] /\ toRetry[r][m] \in Sent
    <3>1. /\ toRetry[r][m] \in Sent /\ m <= Len(toRetry[r])
      BY <1>2, <2>2 DEF NotedInv, Increasing
    <3>2. m \in 1 .. Len(failedBatches) /\ Len(toRetry[r]) \in Nat
          /\ DOMAIN toRetry[r] = 1 .. Len(toRetry[r])
      BY <1>1
    <3> QED  BY <3>1, <3>2
  <2> QED  BY <1>2, <2>1, <2>3 DEF CopyInv
<1>10. Promise!Dequeue
  <2> DEFINE done == Queue \ Queue'
  <2>1. done \in SUBSET (Queue \cap Sent) /\ Queue' = Queue \ done
    BY <1>8, <1>9
  <2> QED  BY <1>6, <1>7, <2>1 DEF Promise!Dequeue
<1>11. \A w \in Workers : Root(w)' = Root(w)
  BY <1>1 DEF Root, retryVars
<1>12. \A w \in Workers \ {r} : pc'[w] = pc[w] /\ w \in Batches
  BY <1>1 DEF Workers
<1>13. SentInv'
  BY <1>1, <1>6, <1>11, <1>12 DEF SentInv, DeliveryInv
<1>14. RetryInv'
  <2>1. \A s \in Retriers : s = r
    OBVIOUS
  <2>2. pc'[r] = "done"
    BY <1>1
  <2> QED  BY <2>1, <2>2 DEF RetryInv, Underway
<1> QED  BY <1>10, <1>13, <1>14 DEF DeliveryInv

LEMMA MineKeeps ==
    ASSUME DeliveryInv, TypeInv', QueueInv', Mine
    PROVE  DeliveryInv' /\ [Promise!Next]_(Promise!vars)
<1>1. PICK tx \in mempool :
          /\ mempool' = mempool \ {tx}
          /\ receipts' = receipts \cup {[nonce |-> tx.nonce, root |-> tx.root,
                                         status |-> Status(tx.root)]}
  BY DEF Mine
<1>2. UNCHANGED <<pc, failedBatches, toRetry, index, successful>>
  BY DEF Mine, retryVars
<1>3. tx.root \in Batches /\ tx.root \in Sent
  BY DEF DeliveryInv, TypeInv, TypeOK, Sent, Pending
<1>4. Settled' = Settled \cup {tx.root}
  <2>1. CASE tx.root \in Settled
    BY <1>1, <2>1 DEF Settled, Status
  <2>2. CASE tx.root \notin Settled
    <3>1. receipts' = receipts \cup {[nonce |-> tx.nonce, root |-> tx.root, status |-> 1]}
      BY <1>1, <2>2 DEF Status
    <3>2. PICK new : /\ new.root = tx.root /\ new.status = 1
                     /\ receipts' = receipts \cup {new}
      BY <3>1
    <3>3. \A root : root \in Settled' <=> root \in Settled \/ root = tx.root
      BY <3>2 DEF Settled
    <3> QED  BY <3>3
  <2> QED  BY <2>1, <2>2
<1>5. Sent' = Sent
  <2>1. \A b \in Batches : Pending(b)' => Pending(b)
    BY <1>1 DEF Pending
  <2>2. \A b \in Batches : Pending(b) => Pending(b)' \/ b = tx.root
    BY <1>1 DEF Pending
  <2> QED  BY <1>3, <1>4, <2>1, <2>2 DEF Sent
<1>6. Handed' = Handed /\ InHand' = InHand /\ Queue' = Queue
  BY <1>2 DEF Handed, InHand, Queue, InQueue
<1>7. \A w \in Workers : Root(w)' = Root(w)
  BY <1>2 DEF Root
<1>8. SentInv' /\ RetryInv'
  BY <1>2, <1>5, <1>7 DEF DeliveryInv, SentInv, RetryInv, CopyInv, NotedInv
<1>9. Promise!Settle(tx.root) \/ UNCHANGED Promise!vars
  BY <1>3, <1>4, <1>5, <1>6 DEF Promise!Settle, Promise!vars
<1> QED  BY <1>3, <1>8, <1>9 DEF DeliveryInv, Promise!Next

\* Every step of the submitter and of its node is a step of the promise or none.
LEMMA StepImplements ==
    ASSUME OneRetryAssumption, DeliveryInv, [Next]_vars
    PROVE  DeliveryInv' /\ [Promise!Next]_(Promise!vars)
<1>1. TypeInv' /\ QueueInv'
  BY TypeNext, QueueNext DEF DeliveryInv
<1>2. \A r, s \in Retriers : r = s
  BY DEF OneRetryAssumption
<1>3. ASSUME NEW w \in Workers, Attempt(w)
      PROVE  DeliveryInv' /\ [Promise!Next]_(Promise!vars)
  <2>1. ~Replaces
    BY DEF OneRetryAssumption
  <2>2. PICK label : Outcome(w, label) /\ pc[w] \in Underway
    BY <1>3, <2>1, AttemptOutcome
  <2> QED  BY <1>1, <1>2, <2>2, AttemptKeeps, AttemptImplements
<1>4. ASSUME NEW b \in Batches, Submit(b) \/ Enqueue(b)
      PROVE  DeliveryInv' /\ [Promise!Next]_(Promise!vars)
  BY <1>1, <1>4, SubmitKeeps, EnqueueKeeps DEF Promise!Next
<1>5. ASSUME NEW r \in Retriers, StartRetry(r) \/ NextBatch(r) \/ FinishRetry(r)
      PROVE  DeliveryInv' /\ [Promise!Next]_(Promise!vars)
  BY <1>1, <1>2, <1>5, StartKeeps, NextKeeps, FinishKeeps DEF Promise!Next
<1>6. CASE Mine
  BY <1>1, <1>6, MineKeeps
<1>7. CASE UNCHANGED vars
  <2>1. UNCHANGED <<pc, failedBatches, toRetry, index, successful, mempool, receipts>>
    BY <1>7 DEF vars, retryVars, nodeVars
  <2>2. Sent' = Sent /\ Settled' = Settled
    BY <2>1 DEF Sent, Settled, Pending
  <2>3. Handed' = Handed /\ InHand' = InHand /\ Queue' = Queue
    BY <2>1 DEF Handed, InHand, Queue, InQueue
  <2>4. \A w \in Workers : Root(w)' = Root(w)
    BY <2>1 DEF Root
  <2>5. SentInv' /\ RetryInv'
    BY <2>1, <2>2, <2>4
       DEF DeliveryInv, SentInv, RetryInv, CopyInv, NotedInv
  <2> QED  BY <1>1, <2>2, <2>3, <2>5 DEF DeliveryInv, Promise!vars
<1>8. ~ClearFailedBatches /\ ~Crash /\ ~Drop
  BY DEF OneRetryAssumption, ClearFailedBatches, Crash, Drop
<1> QED  BY <1>3, <1>4, <1>5, <1>6, <1>7, <1>8 DEF Next, SubmitWorker, RetryWorker, Workers

\* submitter.go:138-179, 262-328.  However many batches are submitted at a time,
\* and a retry beside them, every step of the submitter and of a node that keeps
\* what it takes is a step of the promise: the safety part of DeliveryKept.
THEOREM PromiseKept ==
    ASSUME OneRetryAssumption
    PROVE  Spec => Promise!Init /\ [][Promise!Next]_(Promise!vars)
<1>1. Init => DeliveryInv /\ Promise!Init
  BY DeliveryInit
<1>2. DeliveryInv /\ [Next]_vars => DeliveryInv' /\ [Promise!Next]_(Promise!vars)
  BY StepImplements
<1> QED  BY <1>1, <1>2, PTL DEF Spec

\* Whatever keeps the promise loses nothing.
LEMMA PromiseStep ==
    /\ Promise!Init => Promise!NothingLost
    /\ Promise!NothingLost /\ [Promise!Next]_(Promise!vars) => Promise!NothingLost'
BY DEF Promise!Init, Promise!NothingLost, Promise!Next, Promise!vars, Promise!HandOver,
       Promise!Send, Promise!Settle, Promise!Return, Promise!Dequeue

\* submitter.go:138-179, 318-328; cmd/README.md:147: no batch is lost, however
\* many are submitted at a time, whichever calls to the node fail, and whatever is
\* queued while a retry works on its copy.
THEOREM NothingIsLost ==
    ASSUME OneRetryAssumption
    PROVE  Spec => []NoBatchLost
<1>1. Promise!NothingLost => NoBatchLost
  BY DEF Promise!NothingLost, NoBatchLost, Handed, InHand, Queue, Sent
<1> QED  BY <1>1, PromiseKept, PromiseStep, PTL
=============================================================================
