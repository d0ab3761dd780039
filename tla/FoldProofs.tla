----------------------------- MODULE FoldProofs -----------------------------
(***************************************************************************)
(* Induction over the folds of the model.  A theorem cannot be applied to  *)
(* an operator, but a module can: Pick and Step are those of a fold and    *)
(* Holds is what is claimed of it, so that an instance of this module is   *)
(* the induction for one fold and one claim.  A step reads a handler h and *)
(* the sequence or function c folded beside the accumulator.               *)
(*                                                                         *)
(* MapThenFoldSet, behind every fold of the community modules, applies a   *)
(* function chosen to satisfy a recursion over the subsets of a finite     *)
(* set.  That one exists is proved first, by way of the least cardinality  *)
(* that would have none.                                                   *)
(***************************************************************************)
EXTENDS Integers, Sequences, FiniteSetTheorems, WellFoundedInduction, TLAPS

CONSTANTS
    Pick(_),            \* the element of a set that is folded last
    Step(_, _, _, _),      \* of h, c, an element and the accumulator before it
    Holds(_, _, _, _, _)   \* of h, c, the base, a set and the accumulator there

\* The step that the recursion takes at t.
Unfold(h, c, b, t, f) == IF t = {} THEN b ELSE Step(h, c, Pick(t), f[t \ {Pick(t)}])

Recursion(h, c, b, D, f) == f = [t \in D |-> Unfold(h, c, b, t, f)]

FoldFcn(h, c, b, S) == CHOOSE f : Recursion(h, c, b, SUBSET S, f)

\* The fold picks its elements from the set.
Picks(S) == \A t \in SUBSET S : t # {} => Pick(t) \in t

-----------------------------------------------------------------------------
(* The recursion has a solution.                                           *)

\* A set of naturals that is not empty has a least element.
LEMMA LeastNatural ==
  ASSUME NEW T \in SUBSET Nat, T # {}
  PROVE  \E n \in T : \A m \in T : n <= m
  <1>1. PICK n \in T : \A m \in T : <<m, n>> \notin OpToRel(<, Nat)
    BY NatLessThanWellFounded, WFMin
  <1>2. \A m \in T : ~(m < n)
    BY <1>1 DEF OpToRel
  <1> QED BY <1>2

\* What FoldLeft picks: the greatest element of a set of positions.
LEMMA GreatestPosition ==
  ASSUME NEW n \in Nat, NEW t \in SUBSET (1..n), t # {}
  PROVE  \E x \in t : \A y \in t : x >= y
  <1> DEFINE T == {k \in Nat : n - k \in t}
  <1>1. T \in SUBSET Nat /\ T # {}
    <2>1. PICK y \in t : TRUE
      OBVIOUS
    <2>2. n - y \in Nat /\ n - (n - y) = y
      OBVIOUS
    <2> QED BY <2>1, <2>2
  <1>2. PICK k \in T : \A m \in T : k <= m
    BY <1>1, LeastNatural
  <1>3. ASSUME NEW y \in t
        PROVE  n - k >= y
    <2>1. n - y \in Nat /\ n - (n - y) = y
      OBVIOUS
    <2>2. k <= n - y
      BY <1>2, <2>1
    <2> HIDE DEF T
    <2> QED BY <1>1, <1>2, <2>1, <2>2
  <1> QED BY <1>3

\* The subsets of S with at most n elements.
Small(S, n) == {t \in SUBSET S : Cardinality(t) <= n}

\* Taking out the picked element leaves a smaller set.
LEMMA PickedOut ==
  ASSUME NEW S, IsFiniteSet(S), Picks(S), NEW t \in SUBSET S, t # {}
  PROVE  /\ t \ {Pick(t)} \in SUBSET S
         /\ Cardinality(t) \in Nat
         /\ Cardinality(t) > 0
         /\ Cardinality(t \ {Pick(t)}) = Cardinality(t) - 1
  <1>1. IsFiniteSet(t) /\ Pick(t) \in t
    BY FS_Subset DEF Picks
  <1>2. Cardinality(t) \in Nat /\ Cardinality(t \ {Pick(t)}) = Cardinality(t) - 1
    BY <1>1, FS_CardinalityType, FS_RemoveElement
  <1>3. Cardinality(t) # 0
    BY <1>1, FS_EmptySet
  <1> QED BY <1>2, <1>3

LEMMA SmallExists ==
  ASSUME NEW h, NEW c, NEW b, NEW S, IsFiniteSet(S), Picks(S), NEW n \in Nat
  PROVE  \E f : Recursion(h, c, b, Small(S, n), f)
  <1> DEFINE T == {k \in Nat : ~\E f : Recursion(h, c, b, Small(S, k), f)}
  <1> SUFFICES ASSUME T # {} PROVE FALSE
    OBVIOUS
  <1>0. T \in SUBSET Nat
    OBVIOUS
  <1>1. PICK k \in T : \A m \in T : k <= m
    BY <1>0, LeastNatural
  <1>2. \E g : \A t \in Small(S, k - 1) : g[t] = Unfold(h, c, b, t, g)
    <2>1. CASE k = 0
      <3>1. Small(S, k - 1) = {}
        <4>1. \A t \in SUBSET S : Cardinality(t) \in Nat
          BY FS_Subset, FS_CardinalityType
        <4> QED BY <2>1, <4>1 DEF Small
      <3> QED BY <3>1
    <2>2. CASE k # 0
      <3>1. k - 1 \in Nat /\ k - 1 \notin T
        BY <1>1, <2>2
      <3>2. PICK g : Recursion(h, c, b, Small(S, k - 1), g)
        BY <3>1
      <3> QED BY <3>2 DEF Recursion
    <2> QED BY <2>1, <2>2
  <1>3. PICK g : \A t \in Small(S, k - 1) : g[t] = Unfold(h, c, b, t, g)
    BY <1>2
  <1> DEFINE e == [t \in Small(S, k) |-> Unfold(h, c, b, t, g)]
  <1>4. \A t \in Small(S, k - 1) : t \in Small(S, k)
    <2>1. \A t \in SUBSET S : Cardinality(t) \in Nat
      BY FS_Subset, FS_CardinalityType
    <2> QED BY <2>1 DEF Small
  <1>5. \A t \in Small(S, k - 1) : e[t] = g[t]
    BY <1>3, <1>4
  <1>6. ASSUME NEW t \in Small(S, k), t # {}
        PROVE  t \ {Pick(t)} \in Small(S, k - 1)
    BY <1>6, PickedOut DEF Small
  <1>7. ASSUME NEW t \in Small(S, k)
        PROVE  Unfold(h, c, b, t, g) = Unfold(h, c, b, t, e)
    <2>1. CASE t = {}
      BY <2>1 DEF Unfold
    <2>2. CASE t # {}
      <3>1. e[t \ {Pick(t)}] = g[t \ {Pick(t)}]
        BY <1>5, <1>6, <2>2
      <3> HIDE DEF e
      <3> QED BY <3>1 DEF Unfold
    <2> QED BY <2>1, <2>2
  <1>8. Recursion(h, c, b, Small(S, k), e)
    BY <1>7 DEF Recursion
  <1> QED BY <1>1, <1>8

\* The fold of a finite set, one element at a time.
THEOREM FoldUnfolds ==
  ASSUME NEW h, NEW c, NEW b, NEW S, IsFiniteSet(S), Picks(S)
  PROVE  \A t \in SUBSET S : FoldFcn(h, c, b, S)[t] = Unfold(h, c, b, t, FoldFcn(h, c, b, S))
  <1>1. Cardinality(S) \in Nat /\ \A t \in SUBSET S : Cardinality(t) <= Cardinality(S)
    BY FS_CardinalityType, FS_Subset
  <1>2. Small(S, Cardinality(S)) = SUBSET S
    BY <1>1 DEF Small
  <1>3. \E f : Recursion(h, c, b, Small(S, Cardinality(S)), f)
    BY <1>1, SmallExists
  <1>4. Recursion(h, c, b, SUBSET S, FoldFcn(h, c, b, S))
    BY <1>2, <1>3 DEF FoldFcn
  <1> QED BY <1>4 DEF Recursion

\* What holds of the base and is kept by every step holds of the fold.
THEOREM FoldInduction ==
  ASSUME NEW h, NEW c, NEW b, NEW S, IsFiniteSet(S), Picks(S),
         Holds(h, c, b, {}, b),
         \A t \in SUBSET S : \A acc :
            t # {} /\ Holds(h, c, b, t \ {Pick(t)}, acc) => Holds(h, c, b, t, Step(h, c, Pick(t), acc))
  PROVE  Holds(h, c, b, S, FoldFcn(h, c, b, S)[S])
  <1> DEFINE f == FoldFcn(h, c, b, S)
             Fails(k) == \E t \in SUBSET S : Cardinality(t) = k /\ ~Holds(h, c, b, t, f[t])
             T == {k \in Nat : Fails(k)}
  <1> SUFFICES ASSUME ~Holds(h, c, b, S, f[S]) PROVE FALSE
    OBVIOUS
  <1>0. T \in SUBSET Nat /\ T # {}
    BY FS_CardinalityType
  <1>1. PICK k \in T : \A m \in T : k <= m
    BY <1>0, LeastNatural
  <1>2. PICK t \in SUBSET S : Cardinality(t) = k /\ ~Holds(h, c, b, t, f[t])
    OBVIOUS
  <1>3. f[t] = Unfold(h, c, b, t, f)
    BY FoldUnfolds
  <1>4. t # {}
    BY <1>2, <1>3 DEF Unfold
  <1> DEFINE u == t \ {Pick(t)}
  <1>5. u \in SUBSET S /\ Cardinality(u) \in Nat /\ Cardinality(u) < k
    <2>1. u \in SUBSET S /\ k \in Nat /\ k > 0 /\ Cardinality(u) = k - 1
      BY <1>2, <1>4, PickedOut
    <2> HIDE DEF u, T
    <2> QED BY <2>1
  <1>6. Holds(h, c, b, u, f[u])
    <2>1. Cardinality(u) \notin T
      <3> HIDE DEF u, T
      <3> QED BY <1>0, <1>1, <1>5
    <2> HIDE DEF u
    <2> QED BY <1>5, <2>1
  <1>7. f[t] = Step(h, c, Pick(t), f[u])
    BY <1>3, <1>4 DEF Unfold
  <1> QED BY <1>2, <1>4, <1>6, <1>7

-----------------------------------------------------------------------------
(* Folds over a sequence, as a run: one accumulator per prefix.            *)

\* The positions are taken from the last one down, as FoldLeft takes them.
PicksLast(n) == Picks(1 .. n) /\ \A j \in 1 .. n : Pick(1 .. j) = j

\* R[j] is the accumulator after the first j elements.
IsRun(h, c, b, n, R) == R[0] = b /\ \A j \in 1 .. n : R[j] = Step(h, c, j, R[j - 1])

\* The fold at every prefix is that of the run.
THEOREM RunIsFold ==
  ASSUME NEW h, NEW c, NEW b, NEW n \in Nat, PicksLast(n), NEW R, IsRun(h, c, b, n, R)
  PROVE  \A j \in 0 .. n : FoldFcn(h, c, b, 1 .. n)[1 .. j] = R[j]
  <1> DEFINE f == FoldFcn(h, c, b, 1 .. n)
             T == {j \in 0 .. n : f[1 .. j] # R[j]}
  <1> SUFFICES ASSUME T # {} PROVE FALSE
    OBVIOUS
  <1>1. PICK k \in T : \A m \in T : k <= m
    <2>1. T \in SUBSET Nat
      OBVIOUS
    <2> HIDE DEF T
    <2> QED BY <2>1, LeastNatural
  <1>2. k \in 0 .. n /\ f[1 .. k] # R[k]
    OBVIOUS
  <1>3. IsFiniteSet(1 .. n)
    BY FS_Interval
  <1>4. 1 .. k \in SUBSET (1 .. n)
    BY <1>2
  <1>5. f[1 .. k] = Unfold(h, c, b, 1 .. k, f)
    BY <1>3, <1>4, FoldUnfolds DEF PicksLast
  <1>6. CASE k = 0
    BY <1>2, <1>5, <1>6 DEF Unfold, IsRun
  <1>7. CASE k # 0
    <2>1. k \in 1 .. n /\ k - 1 \in 0 .. n /\ k \in Nat /\ ~(k <= k - 1)
      BY <1>2, <1>7
    <2>2. k - 1 \notin T
      <3> HIDE DEF T
      <3> QED BY <1>1, <2>1
    <2>3. f[1 .. (k - 1)] = R[k - 1]
      <3> HIDE DEF f
      <3> QED BY <2>1, <2>2
    <2>4. Pick(1 .. k) = k
      BY <2>1 DEF PicksLast
    <2>5. (1 .. k) \ {k} = 1 .. (k - 1) /\ 1 .. k # {}
      BY <2>1
    <2>6. f[1 .. k] = Step(h, c, k, R[k - 1])
      <3> HIDE DEF f
      <3> QED BY <1>5, <2>3, <2>4, <2>5 DEF Unfold
    <2> QED BY <1>2, <2>1, <2>6 DEF IsRun
  <1> QED BY <1>6, <1>7

\* There is one.
THEOREM RunExists ==
  ASSUME NEW h, NEW c, NEW b, NEW n \in Nat, PicksLast(n)
  PROVE  IsRun(h, c, b, n, [j \in 0 .. n |-> FoldFcn(h, c, b, 1 .. n)[1 .. j]])
  <1> DEFINE f == FoldFcn(h, c, b, 1 .. n)
             R == [j \in 0 .. n |-> f[1 .. j]]
  <1>1. IsFiniteSet(1 .. n)
    BY FS_Interval
  <1>2. \A j \in 0 .. n : f[1 .. j] = Unfold(h, c, b, 1 .. j, f)
    <2>1. \A j \in 0 .. n : 1 .. j \in SUBSET (1 .. n)
      OBVIOUS
    <2> QED BY <1>1, <2>1, FoldUnfolds DEF PicksLast
  <1> HIDE DEF f
  <1>3. R[0] = b
    <2>1. 1 .. 0 = {} /\ 0 \in 0 .. n
      OBVIOUS
    <2> QED BY <1>2, <2>1 DEF Unfold
  <1>4. ASSUME NEW j \in 1 .. n
        PROVE  R[j] = Step(h, c, j, R[j - 1])
    <2>1. j \in 0 .. n /\ j - 1 \in 0 .. n /\ (1 .. j) \ {j} = 1 .. (j - 1) /\ 1 .. j # {}
      OBVIOUS
    <2>2. Pick(1 .. j) = j
      BY DEF PicksLast
    <2>3. f[1 .. j] = Step(h, c, j, f[1 .. (j - 1)])
      BY <1>2, <2>1, <2>2 DEF Unfold
    <2> QED BY <2>1, <2>3
  <1> QED BY <1>3, <1>4 DEF IsRun, f
=============================================================================
