--------------------------------- MODULE Sums --------------------------------
(***************************************************************************)
(* Facts about the sum of a function over a finite set, SumFunctionOnSet.  *)
(* It is defined by a recursion over subsets in which the elements are     *)
(* taken in an order nobody knows: that the recursion defines a function,  *)
(* and that the order does not matter, is proved by looking for a smallest *)
(* counterexample.                                                         *)
(***************************************************************************)
EXTENDS Functions, FiniteSets, FiniteSetTheorems, WellFoundedInduction, TLAPS

\* A set of numbers has a least one.
LEMMA Smallest ==
    ASSUME NEW S \in SUBSET Nat, S # {}
    PROVE  \E m \in S : \A x \in S : m <= x
<1>. DEFINE R == OpToRel(<, Nat)
<1>1. IsWellFoundedOn(R, Nat)
  BY NatLessThanWellFounded
<1>2. \A x, y \in Nat : <<x, y>> \in R <=> x < y
  BY DEF OpToRel
<1>. HIDE DEF R
<1>3. PICK m \in S : \A x \in S : ~ (<<x, m>> \in R)
  BY <1>1, WFMin, Zenon
<1>4. \A x \in S : m <= x
  <2>1. SUFFICES ASSUME NEW x \in S
                 PROVE  m <= x
    OBVIOUS
  <2>2. m \in Nat /\ x \in Nat
    OBVIOUS
  <2>3. ~ (<<x, m>> \in R)
    BY <1>3
  <2>4. ~ (x < m)
    BY <1>2, <2>2, <2>3, Zenon
  <2>. QED
    BY <2>2, <2>4
<1>. QED
  BY <1>4

\* A set of numbers that has no least one is empty.
LEMMA NoSmallest ==
    ASSUME NEW S \in SUBSET Nat, \A m \in S : \E x \in S : x < m
    PROVE  S = {}
<1>1. SUFFICES ASSUME S # {}
               PROVE  FALSE
  OBVIOUS
<1>2. PICK m \in S : \A x \in S : m <= x
  BY <1>1, Smallest
<1>3. PICK x \in S : x < m
  OBVIOUS
<1>4. x \in Nat /\ m \in Nat /\ m <= x
  BY <1>2
<1>. QED
  BY <1>3, <1>4
-----------------------------------------------------------------------------
OneOf(s) == CHOOSE x \in s : TRUE

\* The recursion, for a function that sums f over the sets in D.
SumsUp(f, D, g) ==
    g = [s \in D |-> IF s = {} THEN 0 ELSE f[OneOf(s)] + g[s \ {OneOf(s)}]]

\* The same, for a function over all subsets of S.
SumsOver(f, S, g) == SumsUp(f, SUBSET S, g)

LEMMA Unfolded ==
    ASSUME NEW f, NEW S
    PROVE  SumFunctionOnSet(f, S) = (CHOOSE g : SumsOver(f, S, g))[S]
BY DEF SumFunctionOnSet, FoldFunctionOnSet, MapThenFoldSet, SumsOver, SumsUp, OneOf

\* The subsets of a finite set, by size.
LEMMA Sizes ==
    ASSUME NEW S, IsFiniteSet(S), NEW s \in SUBSET S
    PROVE  /\ IsFiniteSet(s) /\ Cardinality(s) \in Nat
           /\ Cardinality(s) <= Cardinality(S)
           /\ \A x \in s : Cardinality(s \ {x}) = Cardinality(s) - 1
           /\ Cardinality(s) = 0 <=> s = {}
           /\ s # {} => OneOf(s) \in s
<1>1. IsFiniteSet(s) /\ Cardinality(s) <= Cardinality(S)
  BY FS_Subset
<1>2. Cardinality(s) \in Nat /\ (Cardinality(s) = 0 <=> s = {})
  BY <1>1, FS_CardinalityType, FS_EmptySet
<1>3. \A x \in s : Cardinality(s \ {x}) = Cardinality(s) - 1
  BY <1>1, FS_RemoveElement
<1>4. s # {} => OneOf(s) \in s
  BY DEF OneOf
<1>. QED
  BY <1>1, <1>2, <1>3, <1>4

\* The recursion defines a function.
LEMMA SumsExist ==
    ASSUME NEW f, NEW S, IsFiniteSet(S)
    PROVE  \E g : SumsOver(f, S, g)
<1>. DEFINE Small(n) == {s \in SUBSET S : Cardinality(s) <= n}
            Bad == {n \in Nat : ~ \E g : SumsUp(f, Small(n), g)}
<1>1. ASSUME NEW m \in Bad
      PROVE  \E x \in Bad : x < m
  <2>1. CASE m = 0
    <3>. DEFINE g == [s \in Small(0) |-> 0]
    <3>1. \A s \in Small(0) : s = {}
      BY Sizes
    <3>2. SumsUp(f, Small(0), g)
      BY <3>1 DEF SumsUp
    <3>. QED
      BY <2>1, <3>2
  <2>2. ASSUME m # 0, m - 1 \notin Bad
        PROVE  FALSE
    <3>. DEFINE n == m - 1
    <3>1. n \in Nat /\ m = n + 1
      BY <2>2
    <3>2. PICK g : SumsUp(f, Small(n), g)
      BY <2>2, <3>1
    <3>. DEFINE h == [s \in Small(m) |-> IF s = {} THEN 0 ELSE f[OneOf(s)] + g[s \ {OneOf(s)}]]
    <3>3. \A s \in Small(n) : s \in Small(m) /\ h[s] = g[s]
      <4>1. ASSUME NEW s \in Small(n)
            PROVE  s \in Small(m) /\ h[s] = g[s]
        <5>1. s \in Small(m)
          BY <3>1, Sizes
        <5>2. h[s] = IF s = {} THEN 0 ELSE f[OneOf(s)] + g[s \ {OneOf(s)}]
          BY <5>1
        <5>3. g[s] = IF s = {} THEN 0 ELSE f[OneOf(s)] + g[s \ {OneOf(s)}]
          BY <3>2 DEF SumsUp
        <5>. QED
          BY <5>1, <5>2, <5>3
      <4>. QED
        BY <4>1
    <3>4. \A s \in Small(m) : s # {} => s \ {OneOf(s)} \in Small(n)
      BY <3>1, Sizes
    <3>5. h = [s \in Small(m) |-> IF s = {} THEN 0 ELSE f[OneOf(s)] + h[s \ {OneOf(s)}]]
      <4>. HIDE DEF Small
      <4>. QED
        BY <3>3, <3>4
    <3>6. SumsUp(f, Small(m), h)
      <4>. HIDE DEF h
      <4>. QED
        BY <3>5 DEF SumsUp
    <3>. QED
      BY <3>6
  <2>3. m \in Nat
    OBVIOUS
  <2>. HIDE DEF Bad
  <2>4. CASE m # 0 /\ m - 1 \in Bad
    BY <2>3, <2>4
  <2>. QED
    BY <2>1, <2>2, <2>4
<1>2. Bad = {}
  <2>. HIDE DEF Bad
  <2>1. Bad \in SUBSET Nat
    BY DEF Bad
  <2>. QED
    BY <1>1, <2>1, NoSmallest
<1>3. Cardinality(S) \in Nat /\ Small(Cardinality(S)) = SUBSET S
  BY Sizes
<1>. QED
  BY <1>2, <1>3 DEF SumsOver

\* Two functions that agree where they are summed.
Agree(f, h, T) == \A x \in T : f[x] = h[x]

\* What they sum to is the same for two functions that agree, whatever the
\* domains of the recursions.
LEMMA SumsAgree ==
    ASSUME NEW f, NEW h, NEW S, IsFiniteSet(S), NEW T, T \subseteq S,
           NEW g, SumsOver(f, S, g), NEW k, SumsOver(h, T, k),
           Agree(f, h, T)
    PROVE  g[T] = k[T]
<1>. DEFINE Bad == {n \in Nat : \E s \in SUBSET T : Cardinality(s) = n /\ g[s] # k[s]}
<1>1. ASSUME NEW n \in Bad
      PROVE  \E m \in Bad : m < n
  <2>1. PICK s \in SUBSET T : Cardinality(s) = n /\ g[s] # k[s]
    OBVIOUS
  <2>2. /\ g[s] = IF s = {} THEN 0 ELSE f[OneOf(s)] + g[s \ {OneOf(s)}]
        /\ k[s] = IF s = {} THEN 0 ELSE h[OneOf(s)] + k[s \ {OneOf(s)}]
    BY DEF SumsOver, SumsUp
  <2>3. s # {} /\ s \in SUBSET S
    BY <2>1, <2>2
  <2>. DEFINE t == s \ {OneOf(s)}
  <2>4. OneOf(s) \in s /\ Cardinality(t) = n - 1 /\ Cardinality(t) \in Nat /\ n \in Nat
    <3>1. t \in SUBSET S
      BY <2>3
    <3>. QED
      BY <2>1, <2>3, <3>1, Sizes
  <2>5. f[OneOf(s)] = h[OneOf(s)]
    BY <2>4 DEF Agree
  <2>6. g[t] # k[t]
    BY <2>1, <2>2, <2>3, <2>5
  <2>7. t \in SUBSET T
    OBVIOUS
  <2>8. n - 1 \in Bad
    BY <2>4, <2>6, <2>7
  <2>. QED
    BY <2>4, <2>8
<1>2. Bad = {}
  <2>. HIDE DEF Bad
  <2>1. Bad \in SUBSET Nat
    BY DEF Bad
  <2>. QED
    BY <1>1, <2>1, NoSmallest
<1>3. \A s \in SUBSET T : Cardinality(s) \in Nat
  BY Sizes
<1>. QED
  BY <1>2, <1>3

\* A sum is a number.
LEMMA SumsType ==
    ASSUME NEW f, NEW S, IsFiniteSet(S), NEW g, SumsOver(f, S, g), \A x \in S : f[x] \in Nat
    PROVE  \A s \in SUBSET S : g[s] \in Nat
<1>. DEFINE Bad == {n \in Nat : \E s \in SUBSET S : Cardinality(s) = n /\ g[s] \notin Nat}
<1>1. ASSUME NEW n \in Bad
      PROVE  \E m \in Bad : m < n
  <2>1. PICK s \in SUBSET S : Cardinality(s) = n /\ g[s] \notin Nat
    OBVIOUS
  <2>2. g[s] = IF s = {} THEN 0 ELSE f[OneOf(s)] + g[s \ {OneOf(s)}]
    BY DEF SumsOver, SumsUp
  <2>3. s # {}
    BY <2>1, <2>2
  <2>. DEFINE t == s \ {OneOf(s)}
  <2>4. OneOf(s) \in s /\ Cardinality(t) = n - 1 /\ Cardinality(t) \in Nat /\ n \in Nat
    BY <2>1, <2>3, Sizes
  <2>5. g[t] \notin Nat
    <3>1. f[OneOf(s)] \in Nat
      BY <2>4
    <3>. HIDE DEF t
    <3>2. g[t] \in Nat => f[OneOf(s)] + g[t] \in Nat
      BY <3>1
    <3>. QED
      BY <2>1, <2>2, <2>3, <3>2 DEF t
  <2>6. n - 1 \in Bad
    BY <2>4, <2>5
  <2>. QED
    BY <2>4, <2>6
<1>2. Bad = {}
  <2>. HIDE DEF Bad
  <2>1. Bad \in SUBSET Nat
    BY DEF Bad
  <2>. QED
    BY <1>1, <2>1, NoSmallest
<1>3. \A s \in SUBSET S : Cardinality(s) \in Nat
  BY Sizes
<1>. QED
  BY <1>2, <1>3

\* Any element may be taken first.
LEMMA SumsInAnyOrder ==
    ASSUME NEW f, NEW S, IsFiniteSet(S), NEW g, SumsOver(f, S, g), \A x \in S : f[x] \in Nat
    PROVE  \A s \in SUBSET S : \A x \in s : g[s] = f[x] + g[s \ {x}]
<1>. DEFINE Bad == {n \in Nat : \E s \in SUBSET S : /\ Cardinality(s) = n
                                                    /\ \E x \in s : g[s] # f[x] + g[s \ {x}]}
<1>1. ASSUME NEW n \in Bad
      PROVE  \E m \in Bad : m < n
  <2>1. PICK s \in SUBSET S : Cardinality(s) = n /\ \E x \in s : g[s] # f[x] + g[s \ {x}]
    OBVIOUS
  <2>2. PICK x \in s : g[s] # f[x] + g[s \ {x}]
    BY <2>1
  <2>. DEFINE y == OneOf(s)
  <2>3. s # {} /\ g[s] = f[y] + g[s \ {y}]
    BY DEF SumsOver, SumsUp
  <2>4. y \in s /\ y # x
    BY <2>2, <2>3, Sizes
  <2>. HIDE DEF y
  <2>5. /\ Cardinality(s \ {x}) = n - 1 /\ Cardinality(s \ {y}) = n - 1
        /\ n - 1 \in Nat /\ n \in Nat
    BY <2>1, <2>4, Sizes
  <2>6. CASE g[s \ {y}] # f[x] + g[(s \ {y}) \ {x}]
    <3>1. s \ {y} \in SUBSET S /\ x \in s \ {y}
      BY <2>4
    <3>2. n - 1 \in Bad
      BY <2>5, <2>6, <3>1
    <3>. QED
      BY <2>5, <3>2
  <2>7. CASE g[s \ {x}] # f[y] + g[(s \ {x}) \ {y}]
    <3>1. s \ {x} \in SUBSET S /\ y \in s \ {x}
      BY <2>4
    <3>2. n - 1 \in Bad
      BY <2>5, <2>7, <3>1
    <3>. QED
      BY <2>5, <3>2
  <2>8. CASE /\ g[s \ {y}] = f[x] + g[(s \ {y}) \ {x}]
             /\ g[s \ {x}] = f[y] + g[(s \ {x}) \ {y}]
    <3>. DEFINE u == (s \ {x}) \ {y}
    <3>1. u = (s \ {y}) \ {x} /\ u \in SUBSET S
      OBVIOUS
    <3>2. f[x] \in Nat /\ f[y] \in Nat /\ g[u] \in Nat
      BY <2>4, <3>1, SumsType
    <3>. HIDE DEF u
    <3>3. g[s \ {y}] = f[x] + g[u] /\ g[s \ {x}] = f[y] + g[u]
      BY <2>8, <3>1 DEF u
    <3>4. f[y] + (f[x] + g[u]) = f[x] + (f[y] + g[u])
      BY <3>2
    <3>. QED
      BY <2>2, <2>3, <3>3, <3>4
  <2>. QED
    BY <2>6, <2>7, <2>8
<1>2. Bad = {}
  <2>. HIDE DEF Bad
  <2>1. Bad \in SUBSET Nat
    BY DEF Bad
  <2>. QED
    BY <1>1, <2>1, NoSmallest
<1>3. \A s \in SUBSET S : Cardinality(s) \in Nat
  BY Sizes
<1>. QED
  BY <1>2, <1>3
-----------------------------------------------------------------------------
\* The sum over no element is zero.
LEMMA SumOfNone == \A f : SumFunctionOnSet(f, {}) = 0
<1>1. SUFFICES ASSUME NEW f PROVE SumFunctionOnSet(f, {}) = 0
  OBVIOUS
<1>2. \E g : SumsOver(f, {}, g)
  BY SumsExist, FS_EmptySet
<1>. DEFINE g == CHOOSE g : SumsOver(f, {}, g)
<1>3. SumsOver(f, {}, g)
  BY <1>2
<1>. HIDE DEF g
<1>4. g[{}] = 0
  BY <1>3 DEF SumsOver, SumsUp
<1>. QED
  BY <1>4, Unfolded DEF g

\* A sum of numbers is a number.
LEMMA SumIsNumber ==
    ASSUME NEW f, NEW S, IsFiniteSet(S), \A x \in S : f[x] \in Nat
    PROVE  SumFunctionOnSet(f, S) \in Nat
<1>. DEFINE g == CHOOSE g : SumsOver(f, S, g)
<1>1. SumsOver(f, S, g)
  BY SumsExist
<1>. HIDE DEF g
<1>2. g[S] \in Nat
  BY <1>1, SumsType
<1>. QED
  BY <1>2, Unfolded DEF g

\* Two functions that agree have the same sum.
LEMMA SameSum ==
    ASSUME NEW f, NEW h, NEW S, IsFiniteSet(S), \A x \in S : f[x] = h[x]
    PROVE  SumFunctionOnSet(f, S) = SumFunctionOnSet(h, S)
<1>. DEFINE g == CHOOSE g : SumsOver(f, S, g)
            k == CHOOSE k : SumsOver(h, S, k)
<1>1. SumsOver(f, S, g) /\ SumsOver(h, S, k)
  BY SumsExist
<1>. HIDE DEF g, k
<1>2. g[S] = k[S]
  <2>1. S \subseteq S /\ Agree(f, h, S)
    BY DEF Agree
  <2>. QED
    BY <1>1, <2>1, SumsAgree
<1>. QED
  BY <1>2, Unfolded DEF g, k

\* One more element adds what the function gives it.
LEMMA SumOfOneMore ==
    ASSUME NEW f, NEW S, IsFiniteSet(S), NEW x, x \notin S, \A y \in S \cup {x} : f[y] \in Nat
    PROVE  SumFunctionOnSet(f, S \cup {x}) = f[x] + SumFunctionOnSet(f, S)
<1>. DEFINE T == S \cup {x}
            g == CHOOSE g : SumsOver(f, S, g)
            k == CHOOSE k : SumsOver(f, T, k)
<1>1. IsFiniteSet(T) /\ x \in T /\ T \ {x} = S /\ S \subseteq T
  BY FS_AddElement
<1>2. \A y \in T : f[y] \in Nat
  OBVIOUS
<1>. HIDE DEF T
<1>3. SumsOver(f, S, g) /\ SumsOver(f, T, k)
  BY <1>1, SumsExist
<1>. HIDE DEF g, k
<1>4. k[T] = f[x] + k[T \ {x}]
  BY <1>1, <1>2, <1>3, SumsInAnyOrder
<1>5. k[S] = g[S]
  <2>1. Agree(f, f, S)
    BY DEF Agree
  <2>. QED
    BY <1>1, <1>3, <2>1, SumsAgree
<1>. QED
  BY <1>1, <1>4, <1>5, Unfolded DEF g, k, T

\* Raising one value raises the sum.
LEMMA SumRaised ==
    ASSUME NEW S, IsFiniteSet(S), NEW f, NEW h, NEW d \in S, NEW n \in Nat,
           \A x \in S : f[x] \in Nat /\ h[x] = IF x = d THEN f[x] + n ELSE f[x]
    PROVE  SumFunctionOnSet(h, S) = SumFunctionOnSet(f, S) + n
<1>. DEFINE T == S \ {d}
<1>1. IsFiniteSet(T) /\ d \notin T /\ S = T \cup {d}
  BY FS_Subset
<1>2. h[d] = f[d] + n /\ f[d] \in Nat /\ \A x \in T : h[x] = f[x] /\ f[x] \in Nat
  OBVIOUS
<1>. HIDE DEF T
<1>3. /\ SumFunctionOnSet(f, T \cup {d}) = f[d] + SumFunctionOnSet(f, T)
      /\ SumFunctionOnSet(h, T \cup {d}) = h[d] + SumFunctionOnSet(h, T)
  <2>1. \A y \in T \cup {d} : f[y] \in Nat /\ h[y] \in Nat
    BY <1>1
  <2>. QED
    BY <1>1, <2>1, SumOfOneMore
<1>4. SumFunctionOnSet(h, T) = SumFunctionOnSet(f, T)
  BY <1>1, <1>2, SameSum
<1>5. SumFunctionOnSet(f, T) \in Nat
  BY <1>1, <1>2, SumIsNumber
<1>6. PICK s \in Nat : s = SumFunctionOnSet(f, T)
  BY <1>5
<1>7. h[d] + s = (f[d] + s) + n
  BY <1>2
<1>. QED
  BY <1>1, <1>3, <1>4, <1>6, <1>7

\* A sum of values that are at most B, and zero outside T.
LEMMA SumBounded ==
    ASSUME NEW S, IsFiniteSet(S), NEW T, NEW B \in Nat, NEW f,
           \A x \in S : f[x] \in Nat /\ f[x] <= B /\ (x \notin T => f[x] = 0)
    PROVE  SumFunctionOnSet(f, S) <= B * Cardinality(S \cap T)
<1>. DEFINE Within(s) == SumFunctionOnSet(f, s) <= B * Cardinality(s \cap T)
            Bad == {n \in Nat : \E s \in SUBSET S : Cardinality(s) = n /\ ~ Within(s)}
<1>1. ASSUME NEW n \in Bad
      PROVE  \E m \in Bad : m < n
  <2>1. PICK s \in SUBSET S : Cardinality(s) = n /\ ~ Within(s)
    OBVIOUS
  <2>2. s # {}
    <3>1. SumFunctionOnSet(f, {}) = 0 /\ Cardinality({} \cap T) = 0
      BY SumOfNone, FS_EmptySet
    <3>2. Within({})
      BY <3>1
    <3>. QED
      BY <2>1, <3>2
  <2>3. PICK x \in s : TRUE
    BY <2>2
  <2>. DEFINE u == s \ {x}
  <2>4. /\ u \in SUBSET S /\ IsFiniteSet(u) /\ Cardinality(u) = n - 1 /\ n - 1 \in Nat /\ n \in Nat
        /\ s = u \cup {x} /\ x \notin u
    BY <2>1, <2>3, Sizes
  <2>. HIDE DEF u
  <2>5. SumFunctionOnSet(f, s) = f[x] + SumFunctionOnSet(f, u)
    <3>1. \A y \in u \cup {x} : f[y] \in Nat
      BY <2>4
    <3>. QED
      BY <2>4, <3>1, SumOfOneMore
  <2>6. SumFunctionOnSet(f, u) \in Nat /\ f[x] \in Nat /\ f[x] <= B
    BY <2>4, SumIsNumber
  <2>7. IsFiniteSet(u \cap T) /\ Cardinality(u \cap T) \in Nat
    BY <2>4, FS_Subset, FS_CardinalityType
  <2>8. ~ Within(u)
    <3>1. SUFFICES ASSUME SumFunctionOnSet(f, u) <= B * Cardinality(u \cap T)
                   PROVE  SumFunctionOnSet(f, s) <= B * Cardinality(s \cap T)
      BY <2>1
    <3>2. CASE x \in T
      <4>1. s \cap T = (u \cap T) \cup {x} /\ x \notin u \cap T
        BY <2>4, <3>2
      <4>2. Cardinality(s \cap T) = Cardinality(u \cap T) + 1
        BY <2>7, <4>1, FS_AddElement
      <4>3. PICK k \in Nat : k = Cardinality(u \cap T)
        BY <2>7
      <4>4. B * (k + 1) = B * k + B /\ B * k \in Nat
        BY <4>3
      <4>. QED
        BY <2>5, <2>6, <3>1, <4>2, <4>3, <4>4
    <3>3. CASE x \notin T
      <4>1. s \cap T = u \cap T /\ f[x] = 0
        BY <2>4, <3>3
      <4>2. SumFunctionOnSet(f, s) = SumFunctionOnSet(f, u)
        BY <2>5, <2>6, <4>1
      <4>. QED
        BY <3>1, <4>1, <4>2
    <3>. QED
      BY <3>2, <3>3
  <2>9. n - 1 \in Bad
    BY <2>4, <2>8
  <2>. QED
    BY <2>4, <2>9
<1>2. Bad = {}
  <2>. HIDE DEF Bad
  <2>1. Bad \in SUBSET Nat
    BY DEF Bad
  <2>. QED
    BY <1>1, <2>1, NoSmallest
<1>3. Cardinality(S) \in Nat /\ S \in SUBSET S
  BY FS_CardinalityType
<1>. QED
  BY <1>2, <1>3
=============================================================================
