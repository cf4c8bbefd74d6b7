-------------------------------- MODULE Sums --------------------------------
(***************************************************************************)
(* Facts about SumFunctionOnSet, the sum of a function over a finite set:  *)
(* it exists, any element may be taken out first, and it depends only on   *)
(* the values on the set.  Induction over the size of a set is written     *)
(* with a smallest counterexample.                                         *)
(***************************************************************************)
EXTENDS FiniteSetsExt, FiniteSetTheorems, TLAPS

\* A set of naturals has a smallest member.
LEMMA SmallestNat ==
    ASSUME NEW T \in SUBSET Nat, T # {}
    PROVE  \E m \in T : \A n \in T : m <= n
<1>1. PICK m \in T : \A n \in T : ~(<<n, m>> \in OpToRel(<, Nat))
    BY WFMin, NatLessThanWellFounded
<1>2. \A n \in T : ~(n < m)
    BY <1>1 DEF OpToRel
<1> QED
    BY <1>2

\* The element that the fold takes out of a set first.
First(s) == CHOOSE x \in s : TRUE

\* It is an element of the set.
LEMMA FirstIn == ASSUME NEW s, s # {} PROVE First(s) \in s
BY DEF First

\* A function that adds up h over the sets in D.
Adds(g, h, D) ==
    \A s \in D : g[s] = IF s = {} THEN 0 ELSE h[First(s)] + g[s \ {First(s)}]

\* The subsets with at most n elements.
Smaller(S, n) == {s \in SUBSET S : Cardinality(s) <= n}

\* Taking it out leaves a set with one element less.
LEMMA SmallerRest ==
    ASSUME NEW S, IsFiniteSet(S), NEW n \in Nat, NEW s \in Smaller(S, n + 1), s # {}
    PROVE  s \ {First(s)} \in Smaller(S, n) /\ First(s) \in S
<1>1. IsFiniteSet(s) /\ s \in SUBSET S /\ Cardinality(s) <= n + 1
    BY FS_Subset DEF Smaller
<1>2. First(s) \in s
    BY FirstIn
<1>3. Cardinality(s \ {First(s)}) = Cardinality(s) - 1 /\ Cardinality(s) \in Nat
    BY <1>1, <1>2, FS_RemoveElement, FS_CardinalityType
<1> QED
    BY <1>1, <1>2, <1>3 DEF Smaller

\* There is such a function for the subsets of any size.
LEMMA AddsUpTo ==
    ASSUME NEW S, IsFiniteSet(S), NEW h, \A x \in S : h[x] \in Int, NEW n \in Nat
    PROVE  \E g \in [Smaller(S, n) -> Int] : Adds(g, h, Smaller(S, n))
<1> DEFINE Bad == {m \in Nat : ~\E g \in [Smaller(S, m) -> Int] : Adds(g, h, Smaller(S, m))}
<1>1. SUFFICES ASSUME Bad # {} PROVE FALSE
    OBVIOUS
<1>2. PICK m \in Bad : \A k \in Bad : m <= k
    BY <1>1, SmallestNat
<1>3. CASE m = 0
    <2> DEFINE g == [s \in Smaller(S, 0) |-> 0]
    <2>1. \A s \in Smaller(S, 0) : s = {}
        BY FS_Subset, FS_CardinalityType, FS_EmptySet DEF Smaller
    <2>2. g \in [Smaller(S, 0) -> Int] /\ Adds(g, h, Smaller(S, 0))
        BY <2>1 DEF Adds
    <2> QED
        BY <1>3, <2>2
<1>4. CASE m # 0
    <2> DEFINE k == m - 1
    <2>1. k \in Nat /\ k \notin Bad /\ m = k + 1
        BY <1>2, <1>4
    <2>2. PICK f \in [Smaller(S, k) -> Int] : Adds(f, h, Smaller(S, k))
        BY <2>1
    <2> DEFINE g == [s \in Smaller(S, m) |->
                        IF s = {} THEN 0 ELSE h[First(s)] + f[s \ {First(s)}]]
    <2> HIDE DEF k
    <2>3. ASSUME NEW s \in Smaller(S, m), s # {}
          PROVE  s \ {First(s)} \in Smaller(S, k) /\ First(s) \in S
        BY <2>1, <2>3, SmallerRest
    <2>4. g \in [Smaller(S, m) -> Int]
        BY <2>3
    <2>5. Smaller(S, k) \subseteq Smaller(S, m)
        BY <2>1, FS_Subset, FS_CardinalityType DEF Smaller
    <2>6. \A s \in Smaller(S, k) : g[s] = f[s]
        BY <2>2, <2>5 DEF Adds
    <2>7. Adds(g, h, Smaller(S, m))
        BY <2>3, <2>6 DEF Adds
    <2> QED
        BY <2>4, <2>7
<1> QED
    BY <1>3, <1>4

\* The sum is computed by such a function.
LEMMA SumIsFold ==
    ASSUME NEW S, IsFiniteSet(S), NEW h, \A x \in S : h[x] \in Int
    PROVE  \E g : Adds(g, h, SUBSET S) /\ SumFunctionOnSet(h, S) = g[S]
<1> DEFINE IsIter(g) == g = [s \in SUBSET S |-> IF s = {} THEN 0
                                ELSE h[First(s)] + g[s \ {First(s)}]]
<1>1. Smaller(S, Cardinality(S)) = SUBSET S
    BY FS_Subset DEF Smaller
<1>2. Cardinality(S) \in Nat
    BY FS_CardinalityType
<1>3. \E g \in [Smaller(S, Cardinality(S)) -> Int] : Adds(g, h, Smaller(S, Cardinality(S)))
    BY <1>2, AddsUpTo
<1>4. PICK f \in [SUBSET S -> Int] : Adds(f, h, SUBSET S)
    BY <1>1, <1>3
<1>5. IsIter(f)
    BY <1>4 DEF Adds
<1> DEFINE it == CHOOSE g : IsIter(g)
<1>6. IsIter(it)
    BY <1>5
<1>7. SumFunctionOnSet(h, S) = it[S]
    BY DEF SumFunctionOnSet, FoldFunctionOnSet, MapThenFoldSet, First
<1> HIDE DEF it
<1>8. Adds(it, h, SUBSET S)
    BY <1>6 DEF Adds
<1> QED
    BY <1>7, <1>8

\* Among finite sets there is a smallest one.
LEMMA SmallestSet ==
    ASSUME NEW C, C # {}, \A s \in C : IsFiniteSet(s)
    PROVE  \E s \in C : \A t \in C : Cardinality(s) <= Cardinality(t)
<1> DEFINE T == {Cardinality(s) : s \in C}
<1>1. T \in SUBSET Nat /\ T # {}
    BY FS_CardinalityType
<1>2. PICK m \in T : \A n \in T : m <= n
    BY <1>1, SmallestNat
<1> QED
    BY <1>2

\* Taking out an element gives a smaller set.
LEMMA TakenOut ==
    ASSUME NEW s, IsFiniteSet(s), NEW x \in s
    PROVE  IsFiniteSet(s \ {x}) /\ ~(Cardinality(s) <= Cardinality(s \ {x}))
<1>1. IsFiniteSet(s \ {x}) /\ Cardinality(s \ {x}) = Cardinality(s) - 1
    BY FS_RemoveElement
<1>2. Cardinality(s) \in Nat
    BY FS_CardinalityType
<1> QED
    BY <1>1, <1>2

\* Two such functions agree where the functions they add up do.
LEMMA AddsAgree ==
    ASSUME NEW S, IsFiniteSet(S), NEW f, NEW g, NEW h, NEW k,
           Adds(f, h, SUBSET S), Adds(g, k, SUBSET S), \A x \in S : h[x] = k[x]
    PROVE  f[S] = g[S]
<1> DEFINE C == {s \in SUBSET S : f[s] # g[s]}
<1> SUFFICES ASSUME C # {} PROVE FALSE
    OBVIOUS
<1>1. \A s \in C : IsFiniteSet(s)
    BY FS_Subset
<1>2. PICK s \in C : \A t \in C : Cardinality(s) <= Cardinality(t)
    BY <1>1, SmallestSet
<1>3. s # {}
    BY DEF Adds
<1>4. First(s) \in s
    BY <1>3, FirstIn
<1>5. s \ {First(s)} \notin C
    BY <1>1, <1>2, <1>4, TakenOut
<1>6. f[s \ {First(s)}] = g[s \ {First(s)}]
    BY <1>5
<1> QED
    BY <1>3, <1>4, <1>6 DEF Adds

\* The sum depends only on the values on the set.
LEMMA SumSame ==
    ASSUME NEW S, IsFiniteSet(S), NEW h, NEW k, \A x \in S : h[x] \in Int,
           \A x \in S : h[x] = k[x]
    PROVE  SumFunctionOnSet(h, S) = SumFunctionOnSet(k, S)
<1>1. PICK f : Adds(f, h, SUBSET S) /\ SumFunctionOnSet(h, S) = f[S]
    BY SumIsFold
<1>2. \A x \in S : k[x] \in Int
    OBVIOUS
<1>3. PICK g : Adds(g, k, SUBSET S) /\ SumFunctionOnSet(k, S) = g[S]
    BY <1>2, SumIsFold
<1> QED
    BY <1>1, <1>3, AddsAgree

\* The empty sum.
LEMMA SumEmpty ==
    ASSUME NEW h
    PROVE  SumFunctionOnSet(h, {}) = 0
<1>1. IsFiniteSet({}) /\ \A x \in {} : h[x] \in Int
    BY FS_EmptySet
<1>2. PICK f : Adds(f, h, SUBSET {}) /\ SumFunctionOnSet(h, {}) = f[{}]
    BY <1>1, SumIsFold
<1> QED
    BY <1>2 DEF Adds

\* The fold takes out its first element.
LEMMA SumFirst ==
    ASSUME NEW S, IsFiniteSet(S), NEW h, \A x \in S : h[x] \in Int, S # {}
    PROVE  SumFunctionOnSet(h, S) = h[First(S)] + SumFunctionOnSet(h, S \ {First(S)})
<1> DEFINE R == S \ {First(S)}
<1>1. PICK f : Adds(f, h, SUBSET S) /\ SumFunctionOnSet(h, S) = f[S]
    BY SumIsFold
<1>2. IsFiniteSet(R) /\ SUBSET R \subseteq SUBSET S /\ \A x \in R : h[x] \in Int
    BY FS_Subset
<1> HIDE DEF R
<1>3. PICK g : Adds(g, h, SUBSET R) /\ SumFunctionOnSet(h, R) = g[R]
    BY <1>2, SumIsFold
<1>4. Adds(f, h, SUBSET R)
    BY <1>1, <1>2 DEF Adds
<1>5. f[R] = g[R]
    BY <1>2, <1>3, <1>4, AddsAgree
<1> QED
    BY <1>1, <1>3, <1>5 DEF Adds, R

\* A sum of integers is one.
LEMMA SumIsInt ==
    ASSUME NEW S, IsFiniteSet(S), NEW h, \A x \in S : h[x] \in Int
    PROVE  SumFunctionOnSet(h, S) \in Int
<1> DEFINE C == {s \in SUBSET S : SumFunctionOnSet(h, s) \notin Int}
<1> SUFFICES ASSUME C # {} PROVE FALSE
    OBVIOUS
<1>1. \A s \in C : IsFiniteSet(s)
    BY FS_Subset
<1>2. PICK s \in C : \A t \in C : Cardinality(s) <= Cardinality(t)
    BY <1>1, SmallestSet
<1>3. s # {}
    BY SumEmpty
<1>4. First(s) \in s
    BY <1>3, FirstIn
<1>5. s \ {First(s)} \notin C
    BY <1>1, <1>2, <1>4, TakenOut
<1>6. SumFunctionOnSet(h, s) = h[First(s)] + SumFunctionOnSet(h, s \ {First(s)})
    BY <1>1, <1>3, SumFirst
<1> QED
    BY <1>4, <1>5, <1>6

\* A sum of naturals is one.
LEMMA SumIsNat ==
    ASSUME NEW S, IsFiniteSet(S), NEW h, \A x \in S : h[x] \in Nat
    PROVE  SumFunctionOnSet(h, S) \in Nat
<1> DEFINE C == {s \in SUBSET S : SumFunctionOnSet(h, s) \notin Nat}
<1> SUFFICES ASSUME C # {} PROVE FALSE
    OBVIOUS
<1>1. \A s \in C : IsFiniteSet(s)
    BY FS_Subset
<1>2. PICK s \in C : \A t \in C : Cardinality(s) <= Cardinality(t)
    BY <1>1, SmallestSet
<1>3. s # {}
    BY SumEmpty
<1>4. First(s) \in s
    BY <1>3, FirstIn
<1>5. s \ {First(s)} \notin C
    BY <1>1, <1>2, <1>4, TakenOut
<1>6. \A x \in s : h[x] \in Int
    OBVIOUS
<1>7. SumFunctionOnSet(h, s) = h[First(s)] + SumFunctionOnSet(h, s \ {First(s)})
    BY <1>1, <1>3, <1>6, SumFirst
<1> QED
    BY <1>4, <1>5, <1>7

\* Any element may be taken out first.
LEMMA SumRemove ==
    ASSUME NEW S, IsFiniteSet(S), NEW h, \A x \in S : h[x] \in Int, NEW x \in S
    PROVE  SumFunctionOnSet(h, S) = h[x] + SumFunctionOnSet(h, S \ {x})
<1> DEFINE Any(s) == \A y \in s : SumFunctionOnSet(h, s) = h[y] + SumFunctionOnSet(h, s \ {y})
<1> DEFINE C == {s \in SUBSET S : ~Any(s)}
<1> SUFFICES ASSUME C # {} PROVE FALSE
    OBVIOUS
<1>1. \A s \in C : IsFiniteSet(s)
    BY FS_Subset
<1>2. PICK s \in C : \A t \in C : Cardinality(s) <= Cardinality(t)
    BY <1>1, SmallestSet
<1>3. PICK y \in s : SumFunctionOnSet(h, s) # h[y] + SumFunctionOnSet(h, s \ {y})
    OBVIOUS
<1> DEFINE z == First(s)
<1>4. z \in s
    BY <1>3, FirstIn
<1>5. SumFunctionOnSet(h, s) = h[z] + SumFunctionOnSet(h, s \ {z})
    BY <1>1, <1>3, SumFirst
<1> HIDE DEF z
<1>6. y # z
    BY <1>3, <1>5
<1>7. s \ {z} \notin C /\ s \ {y} \notin C
    BY <1>1, <1>2, <1>3, <1>4, TakenOut
<1>8. SumFunctionOnSet(h, s \ {z}) = h[y] + SumFunctionOnSet(h, (s \ {z}) \ {y})
    BY <1>3, <1>6, <1>7
<1>9. SumFunctionOnSet(h, s \ {y}) = h[z] + SumFunctionOnSet(h, (s \ {y}) \ {z})
    BY <1>4, <1>6, <1>7
<1>10. (s \ {y}) \ {z} = (s \ {z}) \ {y}
    OBVIOUS
<1> DEFINE rest == SumFunctionOnSet(h, (s \ {z}) \ {y})
<1>11. rest \in Int
    <2>1. IsFiniteSet((s \ {z}) \ {y}) /\ \A w \in (s \ {z}) \ {y} : h[w] \in Int
        BY <1>1, FS_Subset
    <2> QED
        BY <2>1, SumIsInt
<1>12. h[y] \in Int /\ h[z] \in Int
    BY <1>3, <1>4
<1> HIDE DEF rest
<1>13. SumFunctionOnSet(h, s) = h[z] + (h[y] + rest)
       /\ SumFunctionOnSet(h, s \ {y}) = h[z] + rest
    BY <1>5, <1>8, <1>9, <1>10 DEF rest
<1> QED
    BY <1>3, <1>11, <1>12, <1>13

\* One value changes.
LEMMA SumChange ==
    ASSUME NEW S, IsFiniteSet(S), NEW h, NEW k, \A x \in S : h[x] \in Int /\ k[x] \in Int,
           NEW x \in S, \A y \in S : y # x => k[y] = h[y]
    PROVE  SumFunctionOnSet(k, S) = SumFunctionOnSet(h, S) - h[x] + k[x]
<1> DEFINE R == S \ {x}
<1>1. IsFiniteSet(R) /\ \A y \in R : h[y] \in Int /\ k[y] = h[y]
    BY FS_Subset
<1>2. SumFunctionOnSet(h, S) = h[x] + SumFunctionOnSet(h, R)
      /\ SumFunctionOnSet(k, S) = k[x] + SumFunctionOnSet(k, R)
    BY SumRemove
<1> HIDE DEF R
<1>3. SumFunctionOnSet(h, R) = SumFunctionOnSet(k, R)
    BY <1>1, SumSame
<1>4. SumFunctionOnSet(h, R) \in Int
    BY <1>1, SumIsInt
<1> QED
    BY <1>2, <1>3, <1>4

\* A part of a sum of naturals is at most the sum.
LEMMA SumBounds ==
    ASSUME NEW S, IsFiniteSet(S), NEW h, \A x \in S : h[x] \in Nat, NEW x \in S
    PROVE  h[x] <= SumFunctionOnSet(h, S)
<1>1. IsFiniteSet(S \ {x}) /\ \A y \in S \ {x} : h[y] \in Nat
    BY FS_Subset
<1>2. SumFunctionOnSet(h, S \ {x}) \in Nat
    BY <1>1, SumIsNat
<1>3. SumFunctionOnSet(h, S) = h[x] + SumFunctionOnSet(h, S \ {x})
    BY SumRemove
<1> QED
    BY <1>2, <1>3

\* A sum of zeros.
LEMMA SumOfZeros ==
    ASSUME NEW S, IsFiniteSet(S), NEW h, \A x \in S : h[x] = 0
    PROVE  SumFunctionOnSet(h, S) = 0
<1> DEFINE C == {s \in SUBSET S : SumFunctionOnSet(h, s) # 0}
<1> SUFFICES ASSUME C # {} PROVE FALSE
    OBVIOUS
<1>1. \A s \in C : IsFiniteSet(s)
    BY FS_Subset
<1>2. PICK s \in C : \A t \in C : Cardinality(s) <= Cardinality(t)
    BY <1>1, SmallestSet
<1>3. s # {}
    BY SumEmpty
<1>4. First(s) \in s
    BY <1>3, FirstIn
<1>5. s \ {First(s)} \notin C
    BY <1>1, <1>2, <1>4, TakenOut
<1>6. \A x \in s : h[x] \in Int
    OBVIOUS
<1>7. SumFunctionOnSet(h, s) = h[First(s)] + SumFunctionOnSet(h, s \ {First(s)})
    BY <1>1, <1>3, <1>6, SumFirst
<1> QED
    BY <1>4, <1>5, <1>7

\* Larger values have a larger sum.
LEMMA SumMonotone ==
    ASSUME NEW S, IsFiniteSet(S), NEW h, NEW k, \A x \in S : h[x] \in Int /\ k[x] \in Int /\ h[x] <= k[x]
    PROVE  SumFunctionOnSet(h, S) <= SumFunctionOnSet(k, S)
<1> DEFINE C == {s \in SUBSET S : ~(SumFunctionOnSet(h, s) <= SumFunctionOnSet(k, s))}
<1> SUFFICES ASSUME C # {} PROVE FALSE
    OBVIOUS
<1>1. \A s \in C : IsFiniteSet(s)
    BY FS_Subset
<1>2. PICK s \in C : \A t \in C : Cardinality(s) <= Cardinality(t)
    BY <1>1, SmallestSet
<1>3. s # {}
    BY SumEmpty
<1> DEFINE x == First(s)
           R == s \ {x}
<1>4. x \in s
    BY <1>3, FirstIn
<1>5. R \notin C
    BY <1>1, <1>2, <1>4, TakenOut
<1>6. IsFiniteSet(R) /\ \A y \in R : h[y] \in Int /\ k[y] \in Int
    BY <1>1, FS_Subset
<1>7. SumFunctionOnSet(h, R) \in Int /\ SumFunctionOnSet(k, R) \in Int
    BY <1>6, SumIsInt
<1>8. /\ SumFunctionOnSet(h, s) = h[x] + SumFunctionOnSet(h, R)
      /\ SumFunctionOnSet(k, s) = k[x] + SumFunctionOnSet(k, R)
    BY <1>1, <1>3, SumFirst
<1>9. h[x] \in Int /\ k[x] \in Int /\ h[x] <= k[x]
    BY <1>4
<1>10. SumFunctionOnSet(h, R) <= SumFunctionOnSet(k, R)
    BY <1>5
<1> HIDE DEF x, R
<1> QED
    BY <1>2, <1>7, <1>8, <1>9, <1>10
=============================================================================
