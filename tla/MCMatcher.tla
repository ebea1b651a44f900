------------------------------ MODULE MCMatcher ------------------------------
(***************************************************************************)
(* Instances of Matcher for TLC, with the accounts over all rounds.        *)
(***************************************************************************)
EXTENDS Accounts, TLC

CONSTANTS o1, o2, o3, o4

\* An order as the terms it is posted with.
Term(p, t, m, k) ==
    [price |-> p, timestamp |-> t, makeAmount |-> m, takeAmount |-> k]
\* Three prices with a tie, two timestamps, and amounts that leave partial fills
\* on either side.  With a Grain of 3 they are finer than the last printed
\* decimal: 4, 5 and 8 units are 1.33, 1.67 and 2.67 of it.  The last is refused.
SomeTerms == {Term(1, 1, 4, 8), Term(2, 2, 5, 9), Term(2, 1, 8, 5), Term(3, 1, 5, 4),
              Term(2, 1, 3, -1)}
\* An order in the middle, one below it and one above.
RisingTerms == {Term(1, 2, 3, 2), Term(2, 1, 5, 5), Term(3, 1, 6, 6)}

ThreeOrders == {o1, o2, o3}
FourOrders == {o1, o2, o3, o4}

-----------------------------------------------------------------------------
\* cmd/README.md:222, "Fully filled orders are removed, partially filled
\* orders remain with updated amounts": whichever of its two amounts one goes by,
\* an order never trades more, over all its fills, than the larger of them.
FillsWithinAmounts ==
    mu = Nobody => \A o \in OrderIds : posted[o] # Nobody =>
        Total(batch, MakerFills(batch, o) \cup TakerFills(batch, o))
            <= Max({posted[o].makeAmount, posted[o].takeAmount})
=============================================================================
