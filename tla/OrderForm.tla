------------------------------ MODULE OrderForm ------------------------------
(***************************************************************************)
(* The order form of the dashboard (web/src/components/OrderForm.tsx) and  *)
(* the sequencer as it meets it: POST /orders takes an order, and answers  *)
(* when the round it ran has been submitted, which may be long after the   *)
(* form has given up waiting.                                              *)
(*                                                                         *)
(* A press of the button is numbered; what it posts is named by its press. *)
(* Inputs stay open while a request is under way, the button does not.     *)
(***************************************************************************)
EXTENDS Integers

CONSTANTS
    Prices, Quantities,  \* what is typed of what the browser lets through
    MaxPresses           \* bounds the presses

ASSUME TermsAssumption == Prices \subseteq Nat /\ Quantities \subseteq Nat
ASSUME PressesAssumption == MaxPresses \in Nat

VARIABLES
    formData,
    loading,
    message,   \* its type, and the press it is about
    requests,  \* presses whose answer handleSubmit waits for
    sent,      \* presses whose order is on its way to the sequencer
    posted,    \* per press, the order made of it
    taken,     \* per press, how often the sequencer has taken its order
    presses,   \* presses so far
    now        \* the clock, in milliseconds

formVars == <<formData, loading, message>>
wireVars == <<requests, sent, posted, taken>>
vars == <<formVars, wireVars, presses, now>>

Empty == -1  \* an input with nothing in it
Blank == [price |-> Empty, quantity |-> Empty, side |-> "buy"]
NoMessage == [type |-> "none", press |-> 0]
NoOrder == [price |-> 0, quantity |-> 0, side |-> "buy", timestamp |-> 0]

Presses == 1 .. MaxPresses

Init ==
    /\ formData = Blank
    /\ loading = FALSE
    /\ message = NoMessage
    /\ requests = {} /\ sent = {}
    /\ posted = [n \in Presses |-> NoOrder]
    /\ taken = [n \in Presses |-> 0]
    /\ presses = 0
    /\ now = 1

-----------------------------------------------------------------------------
(* The inputs. *)

handleInputChange(data) ==
    /\ formData' = data
    /\ UNCHANGED <<loading, message, wireVars, presses, now>>

EditPrice == \E p \in Prices \cup {Empty} : handleInputChange([formData EXCEPT !.price = p])
EditQuantity ==
    \E q \in Quantities \cup {Empty} : handleInputChange([formData EXCEPT !.quantity = q])
EditSide == \E side \in {"buy", "sell"} : handleInputChange([formData EXCEPT !.side = side])

-----------------------------------------------------------------------------
(* handleSubmit. *)

\* createEIP712Order: maker and asset are always the same.
OrderOf(data) ==
    [price |-> data.price, quantity |-> data.quantity, side |-> data.side,
     timestamp |-> now]

\* What is signed: all but the side.
Signed(order) ==
    <<order.quantity, order.quantity * order.price, order.price, order.timestamp>>

\* A slip: the button does not mind.
ButtonAlwaysEnabled == TRUE
ButtonEnabled == ~loading

\* The browser lets no form go that has an empty input.
Complete == formData.price # Empty /\ formData.quantity # Empty
Positive == formData.price > 0 /\ formData.quantity > 0

\* A press takes a person more than a millisecond.
PressButton ==
    /\ presses < MaxPresses
    /\ ButtonEnabled /\ Complete
    /\ presses' = presses + 1
    /\ now' = now + 1

\* As far as the await.
Submit ==
    /\ PressButton /\ Positive
    /\ loading' = TRUE
    /\ message' = NoMessage
    /\ posted' = [posted EXCEPT ![presses + 1] = OrderOf(formData)]
    /\ requests' = requests \cup {presses + 1}
    /\ sent' = sent \cup {presses + 1}
    /\ UNCHANGED <<formData, taken>>

\* It throws before it posts.
SubmitRefused ==
    /\ PressButton /\ ~Positive
    /\ message' = [type |-> "error", press |-> presses + 1]
    /\ loading' = FALSE
    /\ UNCHANGED <<formData, wireVars>>

\* A slip: the answer is not awaited.
SucceedEarly(n) ==
    /\ n \in requests
    /\ requests' = requests \ {n}
    /\ message' = [type |-> "success", press |-> n]
    /\ formData' = Blank
    /\ loading' = FALSE
    /\ UNCHANGED <<sent, posted, taken, presses, now>>
\* The answer is there in time.  It clears the inputs, whatever is in them now.
Succeed(n) ==
    /\ n \in requests /\ taken[n] > 0
    /\ requests' = requests \ {n}
    /\ message' = [type |-> "success", press |-> n]
    /\ formData' = Blank
    /\ loading' = FALSE
    /\ UNCHANGED <<sent, posted, taken, presses, now>>

\* A slip: there is no finally.
FailSilent(n) ==
    /\ n \in requests
    /\ requests' = requests \ {n}
    /\ message' = [type |-> "error", press |-> n]
    /\ UNCHANGED <<formData, loading, sent, posted, taken, presses, now>>
\* A slip: before it gives up it sends the same order once more.
FailRetries(n) ==
    /\ n \in requests
    /\ requests' = requests \ {n}
    /\ sent' = sent \cup {n}
    /\ message' = [type |-> "error", press |-> n]
    /\ loading' = FALSE
    /\ UNCHANGED <<formData, posted, taken, presses, now>>
\* No connection, or no answer in time: the order may be on its way all the
\* same, or taken long ago.
Fail(n) ==
    /\ n \in requests
    /\ requests' = requests \ {n}
    /\ message' = [type |-> "error", press |-> n]
    /\ loading' = FALSE
    /\ UNCHANGED <<formData, sent, posted, taken, presses, now>>

-----------------------------------------------------------------------------
(* The sequencer and the network. *)

\* handleOrders appends the order; it goes by the signed fields, not by the side.
Take(n) ==
    /\ n \in sent
    /\ sent' = sent \ {n}
    /\ taken' = [taken EXCEPT ![n] = @ + 1]
    /\ UNCHANGED <<formVars, requests, posted, presses, now>>

Lose(n) ==
    /\ n \in sent
    /\ sent' = sent \ {n}
    /\ UNCHANGED <<formVars, requests, posted, taken, presses, now>>

Answer(n) == Succeed(n) \/ Fail(n)

Next ==
    \/ EditPrice
    \/ EditQuantity
    \/ EditSide
    \/ Submit
    \/ SubmitRefused
    \/ \E n \in Presses : Answer(n) \/ Take(n) \/ Lose(n)

Spec == Init /\ [][Next]_vars

\* axios ends each request: by the answer, or after five seconds.
FairSpec == Spec /\ \A n \in Presses : WF_vars(Answer(n))

-----------------------------------------------------------------------------
(* Properties. *)

TypeOK ==
    /\ formData \in [price : Nat \cup {Empty}, quantity : Nat \cup {Empty},
                     side : {"buy", "sell"}]
    /\ loading \in BOOLEAN
    /\ message \in [type : {"none", "success", "error"}, press : 0 .. presses]
    /\ requests \subseteq 1 .. presses /\ sent \subseteq 1 .. presses
    /\ posted \in [Presses -> [price : Nat, quantity : Nat, side : {"buy", "sell"},
                               timestamp : Nat]]
    /\ taken \in [Presses -> Nat]
    /\ presses \in 0 .. MaxPresses
    /\ now \in Nat

\* OrderForm.tsx:80-88.  Who reads "Order submitted successfully!" has an order
\* in the book with valid terms, though inputs were edited meanwhile and orders of
\* earlier presses may have arrived since.
SuccessMeansTaken ==
    message.type = "success" =>
        /\ taken[message.press] = 1
        /\ posted[message.press].price > 0 /\ posted[message.press].quantity > 0

\* OrderForm.tsx:62-101, 216.  The message under the form is about the last
\* press, and while it waits there is none: answers cannot overtake each other.
MessageTellsLast ==
    /\ loading => message = NoMessage /\ requests = {presses}
    /\ ~loading => message.press = presses /\ requests = {}

\* OrderForm.tsx:30-60, 80.  The sequencer takes the order of a press once at
\* most, and no two orders have one signature, though a form that failed is sent
\* again with the same terms while its first order is still on its way.
OncePerPress ==
    /\ \A n \in Presses : taken[n] <= 1
    /\ \A m, n \in Presses :
          taken[m] > 0 /\ taken[n] > 0 /\ m # n => Signed(posted[m]) # Signed(posted[n])

\* OrderForm.tsx:82, 98-100.  The button comes back after each press.
FormAnswers == loading ~> ~loading
=============================================================================
