---------------------------- MODULE FoldTheorems ----------------------------
(***************************************************************************)
(* What a fold computes.  The folds of the community modules choose, over  *)
(* the subsets of a finite set, the function that satisfies a recursive    *)
(* equation: here it is shown to exist, to be typed, and to be determined  *)
(* by the order in which the elements are taken.                           *)
(*                                                                         *)
(* Induction is by a least counterexample, a set given by its elements, so *)
(* that no lemma takes an operator.                                        *)
(***************************************************************************)
EXTENDS FiniteSetTheorems, WellFoundedInduction, FiniteSetsExt, TLAPS

-----------------------------------------------------------------------------
(* Induction. *)

\* A set of numbers that is not empty has a least one.
LEMMA LeastExists ==
    ASSUME NEW N \in SUBSET Nat, N # {}
    PROVE  \E n \in N : \A m \in N : n <= m
<1> DEFINE Less == {p \in Nat \X Nat : p[1] < p[2]}
<1>1. IsWellFoundedOn(Less, Nat)
  BY NatLessThanWellFounded DEF OpToRel
<1>2. PICK n \in N : \A m \in N : ~(<<m, n>> \in Less)
  <2> HIDE DEF Less
  <2> QED  BY <1>1, WFMin
<1>3. ASSUME NEW m \in N PROVE n <= m
  <2>1. ~(<<m, n>> \in Nat \X Nat /\ m < n)
    BY <1>2
  <2> QED  BY <2>1
<1> QED  BY <1>3

LEMMA Induction ==
    ASSUME NEW N \in SUBSET Nat, 0 \in N, \A n \in N : n + 1 \in N
    PROVE  N = Nat
<1> SUFFICES ASSUME Nat \ N # {} PROVE FALSE
  OBVIOUS
<1>1. PICK n \in Nat \ N : \A m \in Nat \ N : n <= m
  BY LeastExists
<1>2. n - 1 \in Nat /\ n - 1 \notin Nat \ N
  BY <1>1
<1> QED  BY <1>1, <1>2

\* A smallest set of some finite ones.
LEMMA SmallestExists ==
    ASSUME NEW S, IsFiniteSet(S), NEW Bad \in SUBSET (SUBSET S), Bad # {}
    PROVE  \E T \in Bad : \A x \in T : T \ {x} \notin Bad
<1>1. \A T \in Bad : IsFiniteSet(T) /\ Cardinality(T) \in Nat
  BY FS_Subset, FS_CardinalityType
<1> DEFINE N == {Cardinality(T) : T \in Bad}
<1>2. PICK n \in N : \A m \in N : n <= m
  <2>1. N \in SUBSET Nat /\ N # {}
    BY <1>1
  <2> HIDE DEF N
  <2> QED  BY <2>1, LeastExists
<1>3. PICK T \in Bad : n = Cardinality(T)
  BY <1>2
<1>4. ASSUME NEW x \in T, T \ {x} \in Bad PROVE FALSE
  <2>1. Cardinality(T \ {x}) = Cardinality(T) - 1 /\ Cardinality(T) \in Nat
    BY <1>1, FS_RemoveElement
  <2> QED  BY <1>2, <1>3, <1>4, <2>1
<1> QED  BY <1>4

-----------------------------------------------------------------------------
(* Bijections. *)

LEMMA BijFacts ==
    ASSUME NEW S, NEW T, NEW f
    PROVE  f \in Bijection(S, T) <=>
              /\ f \in [S -> T]
              /\ \A x, y \in S : f[x] = f[y] => x = y
              /\ \A y \in T : \E x \in S : f[x] = y
BY DEF Bijection, Injection, Surjection, IsInjective

\* One after the other.
LEMMA BijBoth ==
    ASSUME NEW S, NEW T, NEW U, NEW f \in Bijection(S, T), NEW g \in Bijection(T, U)
    PROVE  [x \in S |-> g[f[x]]] \in Bijection(S, U)
<1>1. /\ f \in [S -> T] /\ (\A x, y \in S : f[x] = f[y] => x = y)
      /\ \A y \in T : \E x \in S : f[x] = y
  BY BijFacts
<1>2. /\ g \in [T -> U] /\ (\A x, y \in T : g[x] = g[y] => x = y)
      /\ \A y \in U : \E x \in T : g[x] = y
  BY BijFacts
<1> DEFINE h == [x \in S |-> g[f[x]]]
<1>3. h \in [S -> U] /\ \A x, y \in S : h[x] = h[y] => x = y
  BY <1>1, <1>2
<1>4. ASSUME NEW y \in U PROVE \E x \in S : h[x] = y
  <2>1. PICK z \in T : g[z] = y
    BY <1>2
  <2>2. PICK x \in S : f[x] = z
    BY <1>1
  <2> QED  BY <2>1, <2>2
<1> HIDE DEF h
<1>5. h \in Bijection(S, U)
  BY <1>3, <1>4, BijFacts
<1> QED  BY <1>5 DEF h

\* Between the parts of which the same holds.
LEMMA BijPart ==
    ASSUME NEW S, NEW T, NEW f \in Bijection(S, T), NEW A \in SUBSET S, NEW B \in SUBSET T,
           \A x \in S : x \in A <=> f[x] \in B
    PROVE  [x \in A |-> f[x]] \in Bijection(A, B)
<1>1. /\ f \in [S -> T] /\ (\A x, y \in S : f[x] = f[y] => x = y)
      /\ \A y \in T : \E x \in S : f[x] = y
  BY BijFacts
<1> DEFINE h == [x \in A |-> f[x]]
<1>2. h \in [A -> B] /\ (\A x, y \in A : h[x] = h[y] => x = y)
  BY <1>1
<1>3. \A y \in B : \E x \in A : h[x] = y
  BY <1>1
<1> HIDE DEF h
<1>4. h \in Bijection(A, B)
  BY <1>2, <1>3, BijFacts
<1> QED  BY <1>4 DEF h

-----------------------------------------------------------------------------
(* Folds over a finite set. *)

\* Folding over the subsets of a finite set, an element at a time.
IsFold(F, S, base, pick, step) ==
    F = [s \in SUBSET S |->
            IF s = {} THEN base ELSE step[pick[s]][F[s \ {pick[s]}]]]

CanFold(S, R, base, pick, step) ==
    /\ IsFiniteSet(S)
    /\ base \in R
    /\ \A s \in SUBSET S : s # {} => pick[s] \in s
    /\ \A x \in S, r \in R : step[x][r] \in R

LEMMA FoldExists ==
    ASSUME NEW S, NEW R, NEW base, NEW pick, NEW step, CanFold(S, R, base, pick, step)
    PROVE  \E F \in [SUBSET S -> R] : IsFold(F, S, base, pick, step)
<1> DEFINE Upto(n) == {s \in SUBSET S : Cardinality(s) <= n}
           Rec(F, s) == IF s = {} THEN base ELSE step[pick[s]][F[s \ {pick[s]}]]
           Good == {n \in Nat : \E F \in [Upto(n) -> R] : \A s \in Upto(n) : F[s] = Rec(F, s)}
<1> USE DEF CanFold
<1>1. \A s \in SUBSET S : IsFiniteSet(s) /\ Cardinality(s) \in Nat
  BY FS_Subset, FS_CardinalityType
<1>2. 0 \in Good
  <2>1. \A s \in Upto(0) : s = {}
    BY <1>1, FS_EmptySet
  <2> DEFINE F == [s \in Upto(0) |-> base]
  <2>2. F \in [Upto(0) -> R] /\ \A s \in Upto(0) : F[s] = Rec(F, s)
    BY <2>1
  <2> HIDE DEF F, Upto, Rec
  <2> QED  BY <2>2
<1>3. ASSUME NEW n \in Good PROVE n + 1 \in Good
  <2>1. PICK F \in [Upto(n) -> R] : \A s \in Upto(n) : F[s] = Rec(F, s)
    BY <1>3
  <2> DEFINE G == [s \in Upto(n + 1) |-> Rec(F, s)]
  <2>2. ASSUME NEW s \in Upto(n + 1), s # {}
        PROVE  s \ {pick[s]} \in Upto(n) /\ pick[s] \in S
    BY <1>1, <2>2, FS_RemoveElement
  <2>3. Upto(n) \subseteq Upto(n + 1) /\ n \in Nat
    BY <1>1
  <2> HIDE DEF Upto
  <2>4. G \in [Upto(n + 1) -> R]
    BY <2>2
  <2>5. \A s \in Upto(n) : G[s] = F[s]
    BY <2>1, <2>3
  <2>6. \A s \in Upto(n + 1) : G[s] = Rec(G, s)
    BY <2>2, <2>5
  <2> HIDE DEF G, Rec
  <2> QED  BY <2>3, <2>4, <2>6
<1>4. Good = Nat
  <2> HIDE DEF Good
  <2>1. Good \in SUBSET Nat
    BY DEF Good
  <2> QED  BY <1>2, <1>3, <2>1, Induction
<1>5. Cardinality(S) \in Good /\ SUBSET S = Upto(Cardinality(S))
  <2>1. \A s \in SUBSET S : Cardinality(s) <= Cardinality(S)
    BY FS_Subset
  <2> QED  BY <1>1, <1>4, <2>1
<1>6. PICK F \in [SUBSET S -> R] : \A s \in SUBSET S : F[s] = Rec(F, s)
  BY <1>5
<1>7. F = [s \in SUBSET S |-> Rec(F, s)]
  BY <1>6
<1> QED  BY <1>7 DEF IsFold

FoldOf(F, S, R, base, pick, step) == F \in [SUBSET S -> R] /\ IsFold(F, S, base, pick, step)

\* Whatever takes the elements in the same order computes the same.
Follows(G, S, R, base, pick, step) ==
    /\ G[{}] = base
    /\ \A s \in SUBSET S : s # {} /\ G[s \ {pick[s]}] \in R =>
          G[s] = step[pick[s]][G[s \ {pick[s]}]]

LEMMA FoldUnique ==
    ASSUME NEW S, NEW R, NEW base, NEW pick, NEW step, CanFold(S, R, base, pick, step),
           NEW F, FoldOf(F, S, R, base, pick, step),
           NEW G, Follows(G, S, R, base, pick, step)
    PROVE  G[S] = F[S]
<1> USE DEF FoldOf
<1> DEFINE Bad == {s \in SUBSET S : G[s] # F[s]}
<1>1. ASSUME Bad # {} PROVE FALSE
  <2>1. Bad \in SUBSET (SUBSET S) /\ IsFiniteSet(S)
    BY DEF CanFold
  <2>2. PICK s \in Bad : \A x \in s : s \ {x} \notin Bad
    <3> HIDE DEF Bad
    <3> QED  BY <1>1, <2>1, SmallestExists
  <2>3. s # {}
    BY <2>2 DEF IsFold, Follows
  <2>4. pick[s] \in s
    BY <2>3 DEF CanFold
  <2>5. G[s \ {pick[s]}] = F[s \ {pick[s]}] /\ F[s \ {pick[s]}] \in R
    BY <2>2, <2>4
  <2>6. F[s] = step[pick[s]][F[s \ {pick[s]}]]
    BY <2>3 DEF IsFold
  <2> QED  BY <2>2, <2>3, <2>5, <2>6 DEF Follows
<1> QED  BY <1>1

-----------------------------------------------------------------------------
(* Folding over the places of a sequence, from its first or its last. *)

LEMMA MaxFacts ==
    ASSUME NEW n \in Nat, NEW s \in SUBSET (1 .. n), s # {}
    PROVE  Max(s) \in s /\ \A y \in s : Max(s) >= y
<1> DEFINE N == {n - y : y \in s}
<1>1. N \in SUBSET Nat /\ N # {}
  <2>1. \A y \in s : n - y \in Nat
    OBVIOUS
  <2> QED  BY <2>1
<1>2. PICK m \in N : \A k \in N : m <= k
  <2> HIDE DEF N
  <2> QED  BY <1>1, LeastExists
<1>3. PICK x \in s : m = n - x
  BY <1>2
<1>4. \A y \in s : x >= y
  <2>1. \A y \in s : n - x <= n - y
    BY <1>2, <1>3
  <2> QED  BY <2>1
<1> QED  BY <1>4 DEF Max

LEMMA MinFacts ==
    ASSUME NEW n \in Nat, NEW s \in SUBSET (1 .. n), s # {}
    PROVE  Min(s) \in s /\ \A y \in s : Min(s) <= y
<1>1. s \in SUBSET Nat
  OBVIOUS
<1>2. \E x \in s : \A y \in s : x <= y
  BY <1>1, LeastExists
<1> QED  BY <1>2 DEF Min

\* Who is in a set and as high as any other, or as low, is its Max, or its Min.
LEMMA MaxIs ==
    ASSUME NEW S \in SUBSET Int, NEW v \in S, \A u \in S : u <= v
    PROVE  Max(S) = v
<1> DEFINE Highest(x) == x \in S /\ \A y \in S : x >= y
<1>1. Highest(v)
  OBVIOUS
<1>2. \A x : Highest(x) => x = v
  OBVIOUS
<1>3. Max(S) = CHOOSE x : Highest(x)
  BY DEF Max
<1> HIDE DEF Highest
<1> QED  BY <1>1, <1>2, <1>3

LEMMA MinIs ==
    ASSUME NEW S \in SUBSET Int, NEW v \in S, \A u \in S : v <= u
    PROVE  Min(S) = v
<1> DEFINE Smallest(x) == x \in S /\ \A y \in S : x <= y
<1>1. Smallest(v)
  OBVIOUS
<1>2. \A x : Smallest(x) => x = v
  OBVIOUS
<1>3. Min(S) = CHOOSE x : Smallest(x)
  BY DEF Min
<1> HIDE DEF Smallest
<1> QED  BY <1>1, <1>2, <1>3

\* P[k] is what the first k steps make of the base.
Runs(P, n, R, base, step) ==
    /\ P \in [0 .. n -> R]
    /\ P[0] = base
    /\ \A k \in 1 .. n : P[k] = step[k][P[k - 1]]

CanRun(n, R, base, step) ==
    n \in Nat /\ base \in R /\ \A k \in 1 .. n, r \in R : step[k][r] \in R

Highest(n) == [s \in SUBSET (1 .. n) |-> Max(s)]
Lowest(n) == [s \in SUBSET (1 .. n) |-> Min(s)]

\* The same steps, the last one first.
Backward(n, step) == [k \in 1 .. n |-> step[n - k + 1]]

LEMMA CanFoldPlaces ==
    ASSUME NEW n, NEW R, NEW base, NEW step, CanRun(n, R, base, step),
           NEW pick, pick = Highest(n) \/ pick = Lowest(n)
    PROVE  /\ CanFold(1 .. n, R, base, pick, step)
           /\ \E F : FoldOf(F, 1 .. n, R, base, pick, step)
<1>1. IsFiniteSet(1 .. n)
  BY FS_Interval DEF CanRun
<1>2. \A s \in SUBSET (1 .. n) : s # {} => pick[s] \in s
  BY MaxFacts, MinFacts DEF CanRun, Highest, Lowest
<1>3. CanFold(1 .. n, R, base, pick, step)
  BY <1>1, <1>2 DEF CanFold, CanRun
<1> QED  BY <1>3, FoldExists DEF FoldOf

\* A fold that takes the places from the last one down runs from the first one up.
LEMMA RunsUp ==
    ASSUME NEW n, NEW R, NEW base, NEW step, CanRun(n, R, base, step),
           NEW G, Follows(G, 1 .. n, R, base, Highest(n), step)
    PROVE  \E P : Runs(P, n, R, base, step) /\ G[1 .. n] = P[n]
<1>1. PICK F : FoldOf(F, 1 .. n, R, base, Highest(n), step)
  BY CanFoldPlaces
<1>2. G[1 .. n] = F[1 .. n]
  BY <1>1, CanFoldPlaces, FoldUnique
<1> DEFINE P == [k \in 0 .. n |-> F[1 .. k]]
<1>3. n \in Nat /\ \A k \in 0 .. n : 1 .. k \in SUBSET (1 .. n)
  BY DEF CanRun
<1>4. P[0] = base
  <2>1. 1 .. 0 = {} /\ 0 \in 0 .. n
    BY <1>3
  <2> QED  BY <1>1, <2>1 DEF FoldOf, IsFold
<1>5. ASSUME NEW k \in 1 .. n PROVE P[k] = step[k][P[k - 1]]
  <2>1. k \in 1 .. k /\ \A y \in 1 .. k : k >= y
    BY <1>3
  <2>2. Max(1 .. k) = k
    <3>1. k \in Nat /\ 1 .. k # {} /\ 1 .. k \in SUBSET (1 .. k)
      BY <1>3
    <3>2. Max(1 .. k) \in 1 .. k /\ \A y \in 1 .. k : Max(1 .. k) >= y
      BY <3>1, MaxFacts
    <3> QED  BY <2>1, <3>1, <3>2
  <2>3. (1 .. k) \ {k} = 1 .. k - 1 /\ k \in 0 .. n /\ k - 1 \in 0 .. n
    BY <1>3
  <2>4. F[1 .. k] = step[k][F[(1 .. k) \ {k}]]
    BY <1>1, <1>3, <2>1, <2>2, <2>3 DEF FoldOf, IsFold, Highest
  <2> QED  BY <2>3, <2>4
<1>6. P \in [0 .. n -> R]
  BY <1>1, <1>3 DEF FoldOf
<1>7. P[n] = F[1 .. n]
  BY <1>3
<1> HIDE DEF P
<1> QED  BY <1>2, <1>4, <1>5, <1>6, <1>7 DEF Runs

\* One that takes them from the first one up runs from the last one down.
LEMMA RunsDown ==
    ASSUME NEW n, NEW R, NEW base, NEW step, CanRun(n, R, base, step),
           NEW G, Follows(G, 1 .. n, R, base, Lowest(n), step)
    PROVE  \E P : Runs(P, n, R, base, Backward(n, step)) /\ G[1 .. n] = P[n]
<1>1. PICK F : FoldOf(F, 1 .. n, R, base, Lowest(n), step)
  BY CanFoldPlaces
<1>2. G[1 .. n] = F[1 .. n]
  BY <1>1, CanFoldPlaces, FoldUnique
<1> DEFINE P == [k \in 0 .. n |-> F[n - k + 1 .. n]]
<1>3. n \in Nat /\ \A k \in 0 .. n : n - k + 1 .. n \in SUBSET (1 .. n)
  BY DEF CanRun
<1>4. P[0] = base
  <2>1. n - 0 + 1 .. n = {} /\ 0 \in 0 .. n
    BY <1>3
  <2> QED  BY <1>1, <2>1 DEF FoldOf, IsFold
<1>5. ASSUME NEW k \in 1 .. n PROVE P[k] = Backward(n, step)[k][P[k - 1]]
  <2> DEFINE x == n - k + 1
  <2>1. x \in 1 .. n /\ x \in x .. n /\ \A y \in x .. n : x <= y
    BY <1>3
  <2>2. Min(x .. n) = x
    <3> HIDE DEF x
    <3>1. x .. n # {}
      BY <2>1
    <3>2. x .. n \in SUBSET (1 .. n) /\ n \in Nat
      BY <1>3, <2>1
    <3>3. Min(x .. n) \in x .. n /\ \A y \in x .. n : Min(x .. n) <= y
      BY <3>1, <3>2, MinFacts
    <3> QED  BY <2>1, <3>3
  <2>3. /\ (x .. n) \ {x} = n - (k - 1) + 1 .. n
        /\ k \in 0 .. n /\ k - 1 \in 0 .. n
    BY <1>3
  <2>4. x .. n \in SUBSET (1 .. n) /\ x .. n # {}
    BY <2>1
  <2>5. P[k] = F[x .. n] /\ P[k - 1] = F[(x .. n) \ {x}]
    BY <2>3
  <2> HIDE DEF P
  <2>6. F[x .. n] = step[x][F[(x .. n) \ {x}]]
    <3> HIDE DEF x
    <3> QED  BY <1>1, <2>2, <2>4 DEF FoldOf, IsFold, Lowest
  <2>7. Backward(n, step)[k] = step[x]
    BY DEF Backward
  <2> QED  BY <2>5, <2>6, <2>7
<1>6. P \in [0 .. n -> R]
  BY <1>1, <1>3 DEF FoldOf
<1>7. P[n] = F[1 .. n]
  <2>1. n \in 0 .. n /\ n - n + 1 = 1
    BY <1>3
  <2> QED  BY <2>1
<1> HIDE DEF P
<1> QED  BY <1>2, <1>4, <1>5, <1>6, <1>7 DEF Runs

\* Two runs that take the same steps make the same of the base.
LEMMA RunsAgree ==
    ASSUME NEW n \in Nat, NEW R, NEW base, NEW step, NEW P, Runs(P, n, R, base, step),
           NEW m \in 0 .. n, NEW next, NEW Q, Runs(Q, m, R, base, next),
           \A k \in 1 .. m, r \in R : next[k][r] = step[k][r]
    PROVE  \A k \in 0 .. m : Q[k] = P[k]
<1> DEFINE N == {k \in Nat : k <= m => Q[k] = P[k]}
<1>1. 0 \in N
  BY DEF Runs
<1>2. ASSUME NEW k \in N PROVE k + 1 \in N
  <2> SUFFICES ASSUME k + 1 <= m PROVE Q[k + 1] = P[k + 1]
    OBVIOUS
  <2>1. k + 1 \in 1 .. m /\ k + 1 \in 1 .. n /\ k + 1 - 1 = k /\ k \in 0 .. n
    OBVIOUS
  <2>2. Q[k + 1] = next[k + 1][Q[k]] /\ P[k + 1] = step[k + 1][P[k]]
    BY <2>1 DEF Runs
  <2>3. Q[k] = P[k] /\ P[k] \in R
    BY <2>1 DEF Runs
  <2> QED  BY <2>1, <2>2, <2>3
<1>3. N = Nat
  <2>1. N \in SUBSET Nat
    OBVIOUS
  <2> HIDE DEF N
  <2> QED  BY <1>1, <1>2, <2>1, Induction
<1> QED  BY <1>3
=============================================================================
