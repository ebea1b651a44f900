-------------------------- MODULE OrderForm_proofs --------------------------
(***************************************************************************)
(* Proofs about OrderForm for any terms and any number of presses.         *)
(***************************************************************************)
EXTENDS OrderForm, TLAPS

\* Presses that have made an order of which anything is left.
Live(n) == n \in requests \/ n \in sent \/ taken[n] > 0

\* An order on its way has not been taken, and none is taken before its press.
WireInv ==
    /\ \A n \in Presses : taken[n] \in {0, 1}
    /\ \A n \in sent : taken[n] = 0
    /\ \A n \in Presses : n > presses => taken[n] = 0

\* Live orders are valid, of the past, and no two of one time.
OrdersInv ==
    /\ \A n \in Presses : Live(n) =>
          posted[n].price > 0 /\ posted[n].quantity > 0 /\ posted[n].timestamp < now
    /\ \A m, n \in Presses : Live(m) /\ Live(n) /\ m # n =>
          posted[m].timestamp # posted[n].timestamp

IInv == TypeOK /\ MessageTellsLast /\ SuccessMeansTaken /\ WireInv /\ OrdersInv

Form == [price : Nat \cup {Empty}, quantity : Nat \cup {Empty}, side : {"buy", "sell"}]
Order == [price : Nat, quantity : Nat, side : {"buy", "sell"}, timestamp : Nat]

LEMMA FormFacts == Blank \in Form /\ NoOrder \in Order
BY DEF Blank, Form, NoOrder, Order

LEMMA InitInv == Init => IInv
<1> SUFFICES ASSUME Init PROVE IInv
  OBVIOUS
<1> USE DEF Init
<1>1. TypeOK
  <2>1. formData \in Form /\ posted \in [Presses -> Order] /\ taken \in [Presses -> Nat]
    BY FormFacts
  <2>2. presses \in 0 .. MaxPresses
    BY PressesAssumption
  <2>3. message \in [type : {"none", "success", "error"}, press : 0 .. presses]
    BY DEF NoMessage
  <2> QED  BY <2>1, <2>2, <2>3 DEF TypeOK, Form, Order
<1>2. MessageTellsLast /\ SuccessMeansTaken
  BY DEF MessageTellsLast, SuccessMeansTaken, NoMessage
<1>3. WireInv /\ OrdersInv
  BY DEF WireInv, OrdersInv, Live
<1> QED  BY <1>1, <1>2, <1>3 DEF IInv

\* Typing changes what is in the inputs.
LEMMA EditInv == ASSUME IInv, EditPrice \/ EditQuantity \/ EditSide PROVE IInv'
<1>1. UNCHANGED <<loading, message, requests, sent, posted, taken, presses, now>>
  BY DEF EditPrice, EditQuantity, EditSide, handleInputChange, wireVars
<1>2. formData' \in Form
  <2>1. formData \in Form
    BY DEF IInv, TypeOK, Form
  <2>2. CASE EditPrice
    BY <2>1, <2>2, TermsAssumption DEF EditPrice, handleInputChange, Form
  <2>3. CASE EditQuantity
    BY <2>1, <2>3, TermsAssumption DEF EditQuantity, handleInputChange, Form
  <2>4. CASE EditSide
    BY <2>1, <2>4 DEF EditSide, handleInputChange, Form
  <2> QED  BY <2>2, <2>3, <2>4
<1>3. TypeOK'
  BY <1>1, <1>2 DEF IInv, TypeOK, Form
<1>4. MessageTellsLast' /\ SuccessMeansTaken' /\ WireInv' /\ OrdersInv'
  BY <1>1 DEF IInv, MessageTellsLast, SuccessMeansTaken, WireInv, OrdersInv, Live
<1> QED  BY <1>3, <1>4 DEF IInv

\* A press makes an order that is newer than all others.
LEMMA SubmitInv == ASSUME IInv, Submit PROVE IInv'
<1> USE DEF IInv
<1> DEFINE n == presses + 1
<1>1. /\ ~loading /\ presses < MaxPresses /\ presses' = n /\ now' = now + 1
      /\ loading' = TRUE /\ message' = NoMessage
      /\ posted' = [posted EXCEPT ![n] = OrderOf(formData)]
      /\ requests' = requests \cup {n} /\ sent' = sent \cup {n}
      /\ UNCHANGED <<formData, taken>>
      /\ formData.price > 0 /\ formData.quantity > 0
      /\ formData.price # Empty /\ formData.quantity # Empty
  BY DEF Submit, PressButton, Positive, Complete, ButtonEnabled
<1>2. presses \in Nat /\ n \in Presses /\ now \in Nat
  BY <1>1, PressesAssumption DEF TypeOK, Presses
<1>3. OrderOf(formData) \in Order
  <2>1. formData \in Form
    BY DEF TypeOK, Form
  <2>2. formData.price \in Nat /\ formData.quantity \in Nat /\ formData.side \in {"buy", "sell"}
    BY <1>1, <2>1 DEF Form
  <2> QED  BY <1>2, <2>2 DEF OrderOf, Order
<1>4. /\ requests = {}
      /\ n \notin sent /\ taken[n] = 0
  BY <1>1, <1>2 DEF MessageTellsLast, TypeOK, WireInv
<1>5. TypeOK'
  <2>1. posted' \in [Presses -> Order]
    BY <1>1, <1>3 DEF TypeOK, Order
  <2>2. requests' \subseteq 1 .. n /\ sent' \subseteq 1 .. n /\ n \in 0 .. MaxPresses
    BY <1>1, <1>2, PressesAssumption DEF TypeOK
  <2>3. message' \in [type : {"none", "success", "error"}, press : 0 .. n] /\ now' \in Nat
    BY <1>1, <1>2 DEF NoMessage
  <2> QED  BY <1>1, <2>1, <2>2, <2>3 DEF TypeOK, Order
<1>6. MessageTellsLast' /\ SuccessMeansTaken'
  BY <1>1, <1>4 DEF MessageTellsLast, SuccessMeansTaken, NoMessage
<1>7. WireInv'
  <2>1. \A m \in Presses : m > n => m > presses
    BY <1>2 DEF Presses
  <2>2. \A m \in sent' : taken[m] = 0
    BY <1>1, <1>4 DEF WireInv
  <2> QED  BY <1>1, <2>1, <2>2 DEF WireInv
<1>8. \A m \in Presses \ {n} : (Live(m)' <=> Live(m)) /\ posted'[m] = posted[m]
  BY <1>1, <1>2 DEF Live, TypeOK
<1>9. /\ posted'[n].price > 0 /\ posted'[n].quantity > 0
      /\ posted'[n].timestamp = now
  BY <1>1, <1>2 DEF TypeOK, OrderOf
<1>10. \A m \in Presses \ {n} : Live(m) =>
          /\ posted[m].price > 0 /\ posted[m].quantity > 0
          /\ posted[m].timestamp \in Nat /\ posted[m].timestamp < now
  BY DEF OrdersInv, TypeOK
<1>11. OrdersInv'
  <2>1. ASSUME NEW m \in Presses, Live(m)'
        PROVE  /\ posted'[m].price > 0 /\ posted'[m].quantity > 0
               /\ posted'[m].timestamp < now'
    BY <1>1, <1>2, <1>8, <1>9, <1>10, <2>1
  <2>2. ASSUME NEW m \in Presses, NEW k \in Presses, Live(m)', Live(k)', m # k
        PROVE  posted'[m].timestamp # posted'[k].timestamp
    <3>1. CASE m # n /\ k # n
      BY <1>8, <2>2, <3>1 DEF OrdersInv
    <3>2. CASE m = n \/ k = n
      BY <1>2, <1>8, <1>9, <1>10, <2>2, <3>2
    <3> QED  BY <3>1, <3>2
  <2> QED  BY <2>1, <2>2 DEF OrdersInv
<1> QED  BY <1>5, <1>6, <1>7, <1>11

LEMMA RefusedInv == ASSUME IInv, SubmitRefused PROVE IInv'
<1> USE DEF IInv
<1>1. /\ ~loading /\ presses < MaxPresses /\ presses' = presses + 1 /\ now' = now + 1
      /\ loading' = FALSE /\ message' = [type |-> "error", press |-> presses + 1]
      /\ UNCHANGED <<formData, requests, sent, posted, taken>>
  BY DEF SubmitRefused, PressButton, ButtonEnabled, wireVars
<1>2. presses \in Nat /\ now \in Nat
  BY PressesAssumption DEF TypeOK
<1>3. TypeOK'
  <2>1. /\ presses' \in 0 .. MaxPresses /\ now' \in Nat
        /\ message' \in [type : {"none", "success", "error"}, press : 0 .. presses']
    BY <1>1, <1>2, PressesAssumption
  <2>2. requests' \subseteq 1 .. presses' /\ sent' \subseteq 1 .. presses'
    BY <1>1, <1>2 DEF TypeOK
  <2> QED  BY <1>1, <2>1, <2>2 DEF TypeOK
<1>4. MessageTellsLast' /\ SuccessMeansTaken'
  BY <1>1 DEF MessageTellsLast, SuccessMeansTaken
<1>5. WireInv'
  BY <1>1, <1>2 DEF WireInv, Presses
<1>6. \A n \in Presses : posted[n].timestamp \in Nat
  BY DEF TypeOK
<1>7. OrdersInv'
  BY <1>1, <1>2, <1>6 DEF OrdersInv, Live
<1> QED  BY <1>3, <1>4, <1>5, <1>7

\* The form stops waiting: it was the last press it waited for.
LEMMA AnswerInv == ASSUME IInv, NEW n \in Presses, Answer(n) PROVE IInv'
<1> USE DEF IInv
<1>1. /\ n \in requests /\ requests' = requests \ {n} /\ loading' = FALSE
      /\ UNCHANGED <<sent, posted, taken, presses, now>>
      /\ formData' \in {formData, Blank}
  BY DEF Answer, Succeed, Fail
<1>2. \/ taken[n] > 0 /\ message' = [type |-> "success", press |-> n]
      \/ message' = [type |-> "error", press |-> n]
  BY DEF Answer, Succeed, Fail
<1>3. requests = {presses} /\ n = presses
  BY <1>1 DEF MessageTellsLast, TypeOK
<1>4. TypeOK'
  <2>1. formData' \in Form
    BY <1>1, FormFacts DEF TypeOK, Form
  <2>2. message' \in [type : {"none", "success", "error"}, press : 0 .. presses]
    BY <1>2, <1>3 DEF Presses, TypeOK
  <2> QED  BY <1>1, <2>1, <2>2 DEF TypeOK, Form
<1>5. MessageTellsLast'
  BY <1>1, <1>2, <1>3 DEF MessageTellsLast
<1>6. SuccessMeansTaken'
  BY <1>1, <1>2 DEF SuccessMeansTaken, WireInv, OrdersInv, Live
<1>7. WireInv' /\ OrdersInv'
  BY <1>1 DEF WireInv, OrdersInv, Live
<1> QED  BY <1>4, <1>5, <1>6, <1>7

\* The sequencer takes an order it has not seen, or it is lost.
LEMMA WireStepInv == ASSUME IInv, NEW n \in Presses, Take(n) \/ Lose(n) PROVE IInv'
<1> USE DEF IInv
<1>1. /\ n \in sent /\ sent' = sent \ {n}
      /\ UNCHANGED <<formData, loading, message, requests, posted, presses, now>>
  BY DEF Take, Lose, formVars
<1>2. taken[n] = 0 /\ n <= presses
  BY <1>1 DEF WireInv, TypeOK
<1>3. taken' \in [Presses -> Nat] /\ taken'[n] \in {0, 1}
      /\ \A m \in Presses \ {n} : taken'[m] = taken[m]
  <2>1. CASE Take(n)
    BY <1>2, <2>1 DEF Take, TypeOK
  <2>2. CASE Lose(n)
    BY <1>2, <2>2 DEF Lose, TypeOK
  <2> QED  BY <2>1, <2>2
<1>4. TypeOK'
  BY <1>1, <1>3 DEF TypeOK
<1>5. MessageTellsLast'
  BY <1>1 DEF MessageTellsLast
<1>6. SuccessMeansTaken'
  <2> SUFFICES ASSUME message.type = "success"
               PROVE  /\ taken'[message.press] = 1
                      /\ posted[message.press].price > 0
                      /\ posted[message.press].quantity > 0
    BY <1>1 DEF SuccessMeansTaken
  <2>1. taken[message.press] = 1 /\ message.press # n
    BY <1>2 DEF SuccessMeansTaken
  <2>2. message.press \in Presses
    <3>1. ~loading /\ message.press = presses
      BY DEF MessageTellsLast, NoMessage
    <3>2. presses \in 0 .. MaxPresses /\ n \in 1 .. MaxPresses
      BY DEF TypeOK, Presses
    <3> QED  BY <1>2, <3>1, <3>2, PressesAssumption DEF Presses
  <2> QED  BY <1>3, <2>1, <2>2 DEF SuccessMeansTaken
<1>7. WireInv'
  <2>1. \A m \in Presses : taken'[m] \in {0, 1}
    BY <1>3 DEF WireInv
  <2>2. ASSUME NEW m \in sent' PROVE taken'[m] = 0
    <3>1. m \in sent /\ m # n
      BY <1>1
    <3>2. m \in Presses
      BY <3>1, PressesAssumption DEF TypeOK, Presses
    <3> QED  BY <1>3, <3>1, <3>2 DEF WireInv
  <2>3. \A m \in Presses : m > presses => taken'[m] = 0
    BY <1>2, <1>3, PressesAssumption DEF WireInv, TypeOK, Presses
  <2> QED  BY <1>1, <2>1, <2>2, <2>3 DEF WireInv
<1>8. \A m \in Presses : Live(m)' => Live(m)
  BY <1>1, <1>3 DEF Live
<1>9. OrdersInv'
  BY <1>1, <1>8 DEF OrdersInv
<1> QED  BY <1>4, <1>5, <1>6, <1>7, <1>9

LEMMA StepInv == ASSUME IInv, [Next]_vars PROVE IInv'
<1>1. CASE EditPrice \/ EditQuantity \/ EditSide
  BY <1>1, EditInv
<1>2. CASE Submit
  BY <1>2, SubmitInv
<1>3. CASE SubmitRefused
  BY <1>3, RefusedInv
<1>4. ASSUME NEW n \in Presses, Answer(n) \/ Take(n) \/ Lose(n) PROVE IInv'
  BY <1>4, AnswerInv, WireStepInv
<1>5. CASE UNCHANGED vars
  BY <1>5 DEF vars, formVars, wireVars, IInv, TypeOK, MessageTellsLast, SuccessMeansTaken,
              WireInv, OrdersInv, Live
<1> QED  BY <1>1, <1>2, <1>3, <1>4, <1>5 DEF Next

\* The state of the form keeps its types.
THEOREM TypeCorrect == Spec => []TypeOK
<1>1. Init => IInv
  BY InitInv
<1>2. IInv /\ [Next]_vars => IInv'
  BY StepInv
<1>3. IInv => TypeOK
  BY DEF IInv
<1> QED  BY <1>1, <1>2, <1>3, PTL DEF Spec

\* An order the form calls submitted is in the book.
THEOREM SuccessIsTrue == Spec => []SuccessMeansTaken
<1>1. Init => IInv
  BY InitInv
<1>2. IInv /\ [Next]_vars => IInv'
  BY StepInv
<1>3. IInv => SuccessMeansTaken
  BY DEF IInv
<1> QED  BY <1>1, <1>2, <1>3, PTL DEF Spec

\* The message is about the last press, and one answer is awaited at a time.
THEOREM MessageIsLast == Spec => []MessageTellsLast
<1>1. Init => IInv
  BY InitInv
<1>2. IInv /\ [Next]_vars => IInv'
  BY StepInv
<1>3. IInv => MessageTellsLast
  BY DEF IInv
<1> QED  BY <1>1, <1>2, <1>3, PTL DEF Spec

\* No press is taken twice, and no two orders of the form have one signature.
THEOREM PressesCount == Spec => []OncePerPress
<1>1. Init => IInv
  BY InitInv
<1>2. IInv /\ [Next]_vars => IInv'
  BY StepInv
<1>3. IInv => OncePerPress
  <2> SUFFICES ASSUME IInv PROVE OncePerPress
    OBVIOUS
  <2>1. \A n \in Presses : taken[n] <= 1
    BY DEF IInv, WireInv
  <2>2. ASSUME NEW m \in Presses, NEW n \in Presses, taken[m] > 0, taken[n] > 0, m # n
        PROVE  Signed(posted[m]) # Signed(posted[n])
    <3>1. posted[m].timestamp # posted[n].timestamp
      BY <2>2 DEF IInv, OrdersInv, Live
    <3>2. /\ Signed(posted[m])[4] = posted[m].timestamp
          /\ Signed(posted[n])[4] = posted[n].timestamp
      BY DEF Signed
    <3> QED  BY <3>1, <3>2
  <2> QED  BY <2>1, <2>2 DEF OncePerPress
<1> QED  BY <1>1, <1>2, <1>3, PTL DEF Spec
=============================================================================
