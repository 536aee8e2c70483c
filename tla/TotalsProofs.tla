---------------------------- MODULE TotalsProofs ----------------------------
(***************************************************************************)
(* The laws of sums that the proofs about counters rest on.                *)
(***************************************************************************)
EXTENDS Totals, FiniteSetTheorems, TLAPS

(* A unit is an argument and one of the numbers up to its value.           *)
LEMMA InUnits ==
    ASSUME NEW f, NEW u
    PROVE  u \in Units(f) <=> \E x \in DOMAIN f : \E i \in 1 .. f[x] : u = <<x, i>>
  BY DEF Units

(* The units of one argument are as many as its value.                     *)
LEMMA UnitsOfOne ==
    ASSUME NEW x, NEW n \in Nat
    PROVE  IsFiniteSet({x} \X (1 .. n)) /\ Cardinality({x} \X (1 .. n)) = n
  <1> DEFINE X == {x}
             I == 1 .. n
  <1>1. IsFiniteSet(X) /\ Cardinality(X) = 1
    BY FS_Singleton
  <1>2. IsFiniteSet(I) /\ Cardinality(I) = n
    BY FS_Interval
  <1> HIDE DEF X, I
  <1>3. IsFiniteSet(X \X I) /\ Cardinality(X \X I) = Cardinality(X) * Cardinality(I)
    BY <1>1, <1>2, FS_Product
  <1>4. IsFiniteSet(X \X I) /\ Cardinality(X \X I) = n
    BY <1>1, <1>2, <1>3
  <1> QED BY <1>4 DEF X, I

(* A sum without one summand is less by its value.                         *)
LEMMA TotalSplit ==
    ASSUME NEW S, NEW f \in [S -> Nat], NEW x \in S, NEW g \in [S \ {x} -> Nat],
           \A y \in S \ {x} : g[y] = f[y],
           IsFiniteSet(Units(f)) \/ IsFiniteSet(Units(g))
    PROVE  /\ IsFiniteSet(Units(f))
           /\ IsFiniteSet(Units(g))
           /\ Total(f) = Total(g) + f[x]
  <1> DEFINE U == {x} \X (1 .. f[x])
  <1>1. IsFiniteSet(U) /\ Cardinality(U) = f[x]
    BY UnitsOfOne
  <1>2. Units(f) = Units(g) \cup U
    BY InUnits
  <1>3. Units(g) \cap U = {}
    BY InUnits
  <1> HIDE DEF U
  <1>4. IsFiniteSet(Units(g))
    BY <1>2, FS_Subset
  <1>5. IsFiniteSet(Units(f)) /\ Cardinality(Units(f)) = Cardinality(Units(g)) + Cardinality(U) - Cardinality({})
    BY <1>1, <1>2, <1>3, <1>4, FS_Union
  <1>6. Cardinality(Units(g)) \in Nat /\ Cardinality({}) = 0
    BY <1>4, FS_CardinalityType, FS_EmptySet
  <1> QED BY <1>1, <1>4, <1>5, <1>6 DEF Total

(* If one summand changes, the sum changes by as much.                     *)
LEMMA TotalChange ==
    ASSUME NEW S, NEW f \in [S -> Nat], NEW g \in [S -> Nat], NEW x \in S,
           \A y \in S \ {x} : g[y] = f[y], IsFiniteSet(Units(f))
    PROVE  /\ IsFiniteSet(Units(g))
           /\ Total(g) = Total(f) - f[x] + g[x]
  <1> DEFINE h == [y \in S \ {x} |-> f[y]]
  <1>1. h \in [S \ {x} -> Nat]
    OBVIOUS
  <1>2. IsFiniteSet(Units(h)) /\ Total(f) = Total(h) + f[x]
    BY <1>1, TotalSplit
  <1>3. \A y \in S \ {x} : h[y] = g[y]
    OBVIOUS
  <1> HIDE DEF h
  <1>4. IsFiniteSet(Units(g)) /\ Total(g) = Total(h) + g[x]
    BY <1>1, <1>2, <1>3, TotalSplit
  <1>5. Total(h) \in Nat
    BY <1>2, FS_CardinalityType DEF Total
  <1> QED BY <1>2, <1>4, <1>5

(* Where only some arguments count, and for no more than n each, the sum   *)
(* is at most n times as many.                                             *)
LEMMA TotalBound ==
    ASSUME NEW S, NEW f \in [S -> Nat], NEW T \in SUBSET S, IsFiniteSet(T),
           NEW n \in Nat, \A x \in T : f[x] <= n, \A x \in S \ T : f[x] = 0
    PROVE  /\ IsFiniteSet(Units(f))
           /\ Total(f) <= Cardinality(T) * n
  <1>1. IsFiniteSet(1 .. n) /\ Cardinality(1 .. n) = n
    BY FS_Interval
  <1>2. IsFiniteSet(T \X (1 .. n)) /\ Cardinality(T \X (1 .. n)) = Cardinality(T) * n
    BY <1>1, FS_Product
  <1>3. Units(f) \subseteq T \X (1 .. n)
    BY InUnits
  <1> QED BY <1>2, <1>3, FS_Subset DEF Total

(* A sum of smaller summands is no greater.                                *)
LEMMA TotalMonotone ==
    ASSUME NEW S, NEW f \in [S -> Nat], NEW g \in [S -> Nat],
           \A x \in S : g[x] <= f[x], IsFiniteSet(Units(f))
    PROVE  /\ IsFiniteSet(Units(g))
           /\ Total(g) <= Total(f)
  <1>1. Units(g) \subseteq Units(f)
    BY InUnits
  <1> QED BY <1>1, FS_Subset DEF Total

(* A sum is a natural number, no smaller than any summand.                 *)
LEMMA TotalType ==
    ASSUME NEW S, NEW f \in [S -> Nat], IsFiniteSet(Units(f))
    PROVE  /\ Total(f) \in Nat
           /\ \A x \in S : f[x] <= Total(f)
  <1>1. Total(f) \in Nat
    BY FS_CardinalityType DEF Total
  <1>2. ASSUME NEW x \in S PROVE f[x] <= Total(f)
    <2> DEFINE h == [y \in S \ {x} |-> f[y]]
    <2>1. h \in [S \ {x} -> Nat]
      OBVIOUS
    <2>2. IsFiniteSet(Units(h)) /\ Total(f) = Total(h) + f[x]
      BY <2>1, TotalSplit
    <2> HIDE DEF h
    <2>3. Total(h) \in Nat
      BY <2>2, FS_CardinalityType DEF Total
    <2> QED BY <2>2, <2>3
  <1> QED BY <1>1, <1>2

(* Nothing to add up gives zero.                                           *)
LEMMA TotalZero ==
    ASSUME NEW S, NEW f, f = [x \in S |-> 0]
    PROVE  IsFiniteSet(Units(f)) /\ Total(f) = 0
  <1>1. Units(f) = {}
    BY InUnits
  <1> QED BY <1>1, FS_EmptySet DEF Total
=============================================================================
