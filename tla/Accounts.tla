------------------------------ MODULE Accounts ------------------------------
(***************************************************************************)
(* The accounts of the order book: what all the rounds of Matcher together *)
(* have filled, against what was posted, what is left and what GET /volume *)
(* is told.                                                                *)
(***************************************************************************)
EXTENDS Matcher, FiniteSetsExt

-----------------------------------------------------------------------------
\* The fills of some batches, each by its place: the handler and the index.
Fills(b) == UNION {{<<o, k>> : k \in DOMAIN b[o]} : o \in OrderIds}
FillAt(b, f) == b[f[1]][f[2]]
MakerFills(b, id) == {f \in Fills(b) : FillAt(b, f).maker.id = id}
TakerFills(b, id) == {f \in Fills(b) : FillAt(b, f).taker.id = id}
SumUp(amounts) == FoldFunction(+, 0, amounts)
Total(b, S) == SumUp([f \in S |-> FillAt(b, f).quantity])

Live(id) == {x \in orderBook : x.id = id}
Distance(a, b) == IF a < b THEN b - a ELSE a - b
\* Each fill prints the quantity and the rest to eight decimals.
Drift(S) == (Grain - 1) * Cardinality(S)

\* matcher.go:273-335.  Between rounds every posted order is accounted for: an
\* order in the book has lost of each amount what its fills on that side
\* traded; one no longer in it has traded all but an epsilon of one side.
\* What is printed may be off by half a decimal twice per fill, no more.
AmountsConserved ==
    mu = Nobody => \A o \in OrderIds : posted[o] # Nobody =>
        LET made == Total(batch, MakerFills(batch, o))
            taken == Total(batch, TakerFills(batch, o))
            madeDrift == Drift(MakerFills(batch, o))
            takenDrift == Drift(TakerFills(batch, o))
        IN  /\ Cardinality(Live(o)) <= 1
            /\ \A x \in Live(o) :
                 /\ Distance(posted[o].makeAmount, x.makeAmount + made) <= madeDrift
                 /\ Distance(posted[o].takeAmount, x.takeAmount + taken) <= takenDrift
            /\ Live(o) = {} =>
                 \/ Distance(posted[o].makeAmount, made) <= Epsilon + madeDrift
                 \/ Distance(posted[o].takeAmount, taken) <= Epsilon + takenDrift

\* main.go:145-169, 239-251.  Between rounds the total volume is that of all
\* fills of all batches, once each, and the window holds as many of the last
\* ones as it may.
VolumeAccounts ==
    mu = Nobody =>
        /\ totalVolume = Total(batch, Fills(batch))
        /\ Len(volumeData) = Lesser(VolumeWindow, Cardinality(Fills(batch)))
=============================================================================
