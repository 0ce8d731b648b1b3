--------------------------- MODULE NaturalLemmas ---------------------------
(***************************************************************************)
(* Facts about finite sets of integers and about induction that the proofs *)
(* of several components use.  They are stated for sets, not for operators *)
(* on a predicate, so that they can be cited for any definition.           *)
(***************************************************************************)
EXTENDS Integers, FiniteSetTheorems, TLAPS

\* The elements of D below x: their number is the rank of x in D.
Below(D, x) == {d \in D : d < x}

\* Ranks are increasing, so that every rank is taken.
LEMMA RankIncreases ==
  ASSUME NEW D, D \subseteq Int, IsFiniteSet(D), NEW c \in D, NEW x \in Int, c < x
  PROVE  /\ Cardinality(Below(D, c)) \in Nat /\ Cardinality(Below(D, x)) \in Nat
         /\ Cardinality(Below(D, c)) < Cardinality(Below(D, x))
  <1>1. /\ Below(D, c) \cup {c} \subseteq Below(D, x) /\ c \notin Below(D, c)
        /\ Below(D, c) \subseteq D /\ Below(D, x) \subseteq D
    <2>1. c \in Int /\ \A d \in D : d \in Int
      OBVIOUS
    <2>2. \A d \in D : d < c => d < x
      BY <2>1
    <2>3. ~(c < c)
      BY <2>1
    <2> QED
      BY <2>2, <2>3 DEF Below
  <1> HIDE DEF Below
  <1>2. IsFiniteSet(Below(D, c)) /\ IsFiniteSet(Below(D, x))
    BY <1>1, FS_Subset
  <1>3. Cardinality(Below(D, c)) \in Nat /\ Cardinality(Below(D, x)) \in Nat
    BY <1>2, FS_CardinalityType
  <1>4. Cardinality(Below(D, c) \cup {c}) = Cardinality(Below(D, c)) + 1
    BY <1>1, <1>2, FS_AddElement
  <1>5. Cardinality(Below(D, c) \cup {c}) <= Cardinality(Below(D, x))
    BY <1>1, <1>2, FS_Subset
  <1> QED
    BY <1>3, <1>4, <1>5

\* Hence c is found at a given rank: the ranks map D one to one to its size.
LEMMA EveryRank ==
  ASSUME NEW D, D \subseteq Int, IsFiniteSet(D), NEW j \in 0..Cardinality(D) - 1
  PROVE  \E c \in D : Cardinality(Below(D, c)) = j
  <1> DEFINE f == [c \in D |-> Cardinality(Below(D, c))]
             T == 0..Cardinality(D) - 1
  <1>1. Cardinality(D) \in Nat
    BY FS_CardinalityType
  <1>2. IsFiniteSet(T) /\ Cardinality(T) = Cardinality(D)
    BY <1>1, FS_Interval
  <1>3. ASSUME NEW c \in D PROVE Cardinality(Below(D, c)) \in T
    <2>1. Below(D, c) \subseteq D \ {c}
      BY DEF Below
    <2>2. IsFiniteSet(D \ {c}) /\ Cardinality(D \ {c}) = Cardinality(D) - 1
      BY FS_RemoveElement
    <2>3. IsFiniteSet(Below(D, c)) /\ Cardinality(Below(D, c)) <= Cardinality(D) - 1
      BY <2>1, <2>2, FS_Subset
    <2>4. Cardinality(Below(D, c)) \in Nat
      BY <2>3, FS_CardinalityType
    <2> QED
      BY <1>1, <2>3, <2>4
  <1>4. ASSUME NEW c \in D, NEW e \in D, Cardinality(Below(D, c)) = Cardinality(Below(D, e))
        PROVE  c = e
    <2>1. c \in Int /\ e \in Int
      OBVIOUS
    <2>2. ASSUME c < e PROVE FALSE
      <3>1. Cardinality(Below(D, c)) < Cardinality(Below(D, e)) /\ Cardinality(Below(D, c)) \in Nat
        BY <2>1, <2>2, RankIncreases
      <3> QED
        BY <1>4, <3>1
    <2>3. ASSUME e < c PROVE FALSE
      <3>1. Cardinality(Below(D, e)) < Cardinality(Below(D, c)) /\ Cardinality(Below(D, c)) \in Nat
        BY <2>1, <2>3, RankIncreases
      <3> QED
        BY <1>4, <3>1
    <2> QED
      BY <2>1, <2>2, <2>3
  <1>5. f \in Injection(D, T)
    BY <1>3, <1>4 DEF Injection, IsInjective
  <1>6. f \in Surjection(D, T)
    BY <1>2, <1>5, FS_Injection
  <1>7. \E c \in D : f[c] = j
    BY <1>6 DEF Surjection
  <1> QED
    BY <1>7

\* Induction over the naturals: there would be a least one outside of T.
LEMMA SetInduction ==
  ASSUME NEW T, 0 \in T, \A n \in Nat : n \in T => n + 1 \in T
  PROVE  \A n \in Nat : n \in T
  <1> SUFFICES ASSUME NEW x \in Nat, x \notin T PROVE FALSE
    OBVIOUS
  <1> DEFINE B == {n \in 0..x : n \notin T}
  <1>1. IsFiniteSet(0..x)
    BY FS_Interval
  <1>2. B \subseteq 0..x /\ x \in B
    OBVIOUS
  <1>3. /\ \A n \in 0..x : n \notin B => n \in T
        /\ \A n \in B : n \notin T
    OBVIOUS
  <1> HIDE DEF B
  <1>4. IsFiniteSet(B) /\ B \subseteq Int /\ B # {}
    <2>1. IsFiniteSet(B)
      BY <1>1, <1>2, FS_Subset, Zenon
    <2>2. B \subseteq Int
      BY <1>2
    <2> QED
      BY <1>2, <2>1, <2>2
  <1>5. 0 \in 0..Cardinality(B) - 1
    <2>1. Cardinality(B) \in Nat
      BY <1>4, FS_CardinalityType
    <2>2. Cardinality(B) # 0
      BY <1>4, FS_EmptySet
    <2> QED
      BY <2>1, <2>2
  <1>6. PICK c \in B : Cardinality(Below(B, c)) = 0
    BY <1>4, <1>5, EveryRank
  <1>7. Below(B, c) \subseteq B
    BY DEF Below
  <1>8. Below(B, c) = {}
    <2>1. IsFiniteSet(Below(B, c))
      BY <1>4, <1>7, FS_Subset
    <2> QED
      BY <1>6, <2>1, FS_EmptySet
  <1>9. c \in Nat /\ c # 0 /\ c <= x /\ c \notin T
    BY <1>2, <1>3
  <1>10. c - 1 \in Nat /\ c - 1 \in 0..x /\ c - 1 < c /\ (c - 1) + 1 = c
    BY <1>9
  <1>11. c - 1 \notin B
    BY <1>8, <1>10 DEF Below
  <1> QED
    BY <1>3, <1>9, <1>10, <1>11

\* ... and over the naturals up to n.
LEMMA BoundedInduction ==
  ASSUME NEW n \in Nat, NEW T, 0 \in T, \A k \in 0..n - 1 : k \in T => k + 1 \in T
  PROVE  \A k \in 0..n : k \in T
  <1> DEFINE U == {k \in Nat : k <= n => k \in T}
  <1>1. 0 \in U
    OBVIOUS
  <1>2. \A k \in Nat : k \in U => k + 1 \in U
    <2> SUFFICES ASSUME NEW k \in Nat, k \in U, k + 1 <= n PROVE k + 1 \in T
      OBVIOUS
    <2>1. k \in 0..n - 1 /\ k \in T
      OBVIOUS
    <2> QED
      BY <2>1
  <1> HIDE DEF U
  <1>3. \A k \in Nat : k \in U
    BY <1>1, <1>2, SetInduction
  <1> QED
    BY <1>3 DEF U

\* A function on 0..n can be defined from its value at 0 and from what each step
\* makes of the value before: what the recursive definitions of the models do.
Steps(X, n) == [X \X (1..n) -> X]

Iterates(f, X, base, step, n) ==
    /\ f \in [0..n -> X]
    /\ f[0] = base
    /\ \A i \in 1..n : f[i] = step[<<f[i - 1], i>>]

LEMMA IterationExists ==
  ASSUME NEW X, NEW base \in X, NEW n \in Nat, NEW step \in Steps(X, n)
  PROVE  \E f : Iterates(f, X, base, step, n)
  <1>0. step \in [X \X (1..n) -> X]
    BY DEF Steps
  <1> DEFINE Fits(f, k) == /\ f[0] = base
                           /\ \A i \in 1..k : f[i] = step[<<f[i - 1], i>>]
             T == {k \in 0..n : \E f \in [0..k -> X] : Fits(f, k)}
  <1>1. 0 \in T
    <2> DEFINE f == [i \in 0..0 |-> base]
    <2>1. f \in [0..0 -> X] /\ f[0] = base
      OBVIOUS
    <2>2. Fits(f, 0)
      BY <2>1
    <2> HIDE DEF f
    <2>3. 0 \in 0..n /\ \E h \in [0..0 -> X] : Fits(h, 0)
      BY <2>1, <2>2
    <2> HIDE DEF Fits
    <2> QED
      BY <2>3
  <1>2. ASSUME NEW k \in 0..n - 1, k \in T PROVE k + 1 \in T
    <2>1. PICK f \in [0..k -> X] : Fits(f, k)
      BY <1>2
    <2> DEFINE g == [i \in 0..k + 1 |-> IF i = k + 1 THEN step[<<f[k], k + 1>>] ELSE f[i]]
    <2>2. k \in 0..k /\ f[k] \in X /\ k + 1 \in 1..n /\ k + 1 \in 0..n
      OBVIOUS
    <2>3. step[<<f[k], k + 1>>] \in X
      BY <1>0, <2>2
    <2>4. g \in [0..k + 1 -> X]
      BY <2>3
    <2>5. g[0] = base /\ g[k + 1] = step[<<f[k], k + 1>>] /\ \A i \in 0..k : g[i] = f[i]
      BY <2>1
    <2> HIDE DEF g
    <2>6. ASSUME NEW i \in 1..k + 1 PROVE g[i] = step[<<g[i - 1], i>>]
      <3>1. CASE i = k + 1
        BY <2>5, <3>1
      <3>2. CASE i \in 1..k
        <4>1. g[i] = f[i] /\ g[i - 1] = f[i - 1]
          BY <2>5, <3>2
        <4> QED
          BY <2>1, <3>2, <4>1
      <3> QED
        BY <3>1, <3>2
    <2>7. Fits(g, k + 1)
      BY <2>5, <2>6
    <2>8. k + 1 \in 0..n /\ \E h \in [0..k + 1 -> X] : Fits(h, k + 1)
      BY <2>2, <2>4, <2>7
    <2> HIDE DEF Fits
    <2> QED
      BY <2>8
  <1> HIDE DEF T
  <1>3. \A k \in 0..n : k \in T
    BY <1>1, <1>2, BoundedInduction
  <1>4. n \in 0..n
    OBVIOUS
  <1>5. n \in T
    BY <1>3, <1>4
  <1> QED
    BY <1>5 DEF T, Iterates

=============================================================================
