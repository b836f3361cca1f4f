---------------------------- MODULE SumTheorems ----------------------------
(***************************************************************************)
(* Lemmas about SumFunctionOnSet of the community module Functions, which   *)
(* sums a function over a finite set: that the sum exists, in whichever      *)
(* order it is taken, that it is linear, and how it goes by the set, by the  *)
(* terms and by the names of the indices.  Each is shown by induction on     *)
(* the cardinality of the set, with the set of the sets that are good in     *)
(* the place of a predicate (SetInduction).                                *)
(***************************************************************************)
EXTENDS Integers, FiniteSets, Functions, FiniteSetTheorems,
        WellFoundedInduction, TLAPS

\* A non-empty set of naturals has a least element.
LEMMA LeastNatural ==
    ASSUME NEW N \in SUBSET Nat, N # {}
    PROVE  \E n \in N : \A m \in N : n <= m
  <1>1. PICK n \in N : \A m \in N : ~(<<m, n>> \in OpToRel(<, Nat))
    BY NatLessThanWellFounded, WFMin
  <1>2. ASSUME NEW m \in N, m < n PROVE FALSE
    <2>1. <<m, n>> \in Nat \X Nat
      OBVIOUS
    <2>2. <<m, n>> \in OpToRel(<, Nat)
      BY <1>2, <2>1 DEF OpToRel
    <2>3. QED
      BY <1>1, <2>2
  <1>3. ASSUME NEW m \in N PROVE n <= m
    <2>1. n \in Nat /\ m \in Nat /\ ~(m < n)
      BY <1>2
    <2>2. QED
      BY <2>1
  <1>4. QED
    BY <1>3

AnyOf(s) == CHOOSE x \in s : TRUE

\* g sums f over the subsets of T.
Sums(f, D, g) ==
    g = [s \in D |-> IF s = {} THEN 0 ELSE f[AnyOf(s)] + g[s \ {AnyOf(s)}]]

UpTo(T, n) == {s \in SUBSET T : Cardinality(s) <= n}

LEMMA RemoveOne ==
    ASSUME NEW T, IsFiniteSet(T), NEW s \in SUBSET T, s # {}
    PROVE  /\ AnyOf(s) \in s
           /\ s \ {AnyOf(s)} \in SUBSET T
           /\ Cardinality(s) \in Nat
           /\ Cardinality(s \ {AnyOf(s)}) = Cardinality(s) - 1
           /\ Cardinality(s) > 0
  <1>1. AnyOf(s) \in s
    BY DEF AnyOf
  <1>2. IsFiniteSet(s)
    BY FS_Subset
  <1>3. Cardinality(s) \in Nat
    BY <1>2, FS_CardinalityType
  <1>4. Cardinality(s \ {AnyOf(s)}) = Cardinality(s) - 1
    BY <1>1, <1>2, FS_RemoveElement
  <1>5. Cardinality(s \ {AnyOf(s)}) \in Nat
    BY <1>2, FS_Subset, FS_CardinalityType
  <1>6. QED
    BY <1>1, <1>3, <1>4, <1>5

LEMMA SumsExist ==
    ASSUME NEW T, IsFiniteSet(T), NEW f
    PROVE  \E g : Sums(f, SUBSET T, g)
  <1> DEFINE Bad == {n \in Nat : ~ \E g : Sums(f, UpTo(T, n), g)}
  <1>1. Bad = {}
    <2> SUFFICES ASSUME Bad # {} PROVE FALSE
      OBVIOUS
    <2>1. PICK n \in Bad : \A m \in Bad : n <= m
      <3> Bad \in SUBSET Nat
        OBVIOUS
      <3> HIDE DEF Bad
      <3> QED BY LeastNatural
    <2>2. CASE n = 0
      <3> DEFINE g == [s \in UpTo(T, 0) |-> 0]
      <3>1. \A s \in UpTo(T, 0) : s = {}
        <4> TAKE s \in UpTo(T, 0)
        <4>1. s \in SUBSET T /\ Cardinality(s) <= 0
          BY DEF UpTo
        <4>2. Cardinality(s) \in Nat /\ (s # {} => Cardinality(s) > 0)
          BY <4>1, RemoveOne, FS_Subset, FS_CardinalityType
        <4>3. QED
          BY <4>1, <4>2
      <3>2. Sums(f, UpTo(T, 0), g)
        BY <3>1 DEF Sums
      <3>3. QED
        BY <2>2, <3>2
    <2>3. CASE n # 0
      <3>1. n - 1 \in Nat /\ n - 1 \notin Bad
        BY <2>1, <2>3
      <3>2. PICK g : Sums(f, UpTo(T, n - 1), g)
        BY <3>1
      <3> DEFINE h == [s \in UpTo(T, n) |->
                        IF s = {} THEN 0 ELSE f[AnyOf(s)] + g[s \ {AnyOf(s)}]]
      <3>3. ASSUME NEW s \in UpTo(T, n - 1) PROVE s \in UpTo(T, n) /\ h[s] = g[s]
        <4>1. s \in SUBSET T /\ Cardinality(s) <= n - 1
          BY <3>3 DEF UpTo
        <4>2. Cardinality(s) \in Nat
          BY <4>1, FS_Subset, FS_CardinalityType
        <4>3. s \in UpTo(T, n)
          BY <4>1, <4>2, <3>1 DEF UpTo
        <4>4. QED
          BY <4>3, <3>2 DEF Sums
      <3>4. ASSUME NEW s \in UpTo(T, n), s # {} PROVE s \ {AnyOf(s)} \in UpTo(T, n - 1)
        <4>1. s \in SUBSET T /\ Cardinality(s) <= n
          BY <3>4 DEF UpTo
        <4>2. QED
          BY <4>1, <3>1, <3>4, RemoveOne DEF UpTo
      <3>5. Sums(f, UpTo(T, n), h)
        <4>1. ASSUME NEW s \in UpTo(T, n)
              PROVE h[s] = IF s = {} THEN 0 ELSE f[AnyOf(s)] + h[s \ {AnyOf(s)}]
          BY <3>3, <3>4
        <4>2. h = [s \in UpTo(T, n) |->
                     IF s = {} THEN 0 ELSE f[AnyOf(s)] + h[s \ {AnyOf(s)}]]
          BY <4>1
        <4>3. QED
          BY <4>2 DEF Sums
      <3>6. QED
        BY <3>5
    <2>4. QED
      BY <2>2, <2>3
  <1>2. Cardinality(T) \in Nat
    BY FS_CardinalityType
  <1>3. UpTo(T, Cardinality(T)) = SUBSET T
    <2>1. ASSUME NEW s \in SUBSET T PROVE Cardinality(s) <= Cardinality(T)
      BY FS_Subset
    <2>2. QED
      BY <2>1 DEF UpTo
  <1>4. \E g : Sums(f, UpTo(T, Cardinality(T)), g)
    BY <1>1, <1>2
  <1>5. QED
    BY <1>3, <1>4

LEMMA SumsAreIntegers ==
    ASSUME NEW T, IsFiniteSet(T), NEW f, \A x \in T : f[x] \in Int,
           NEW g, Sums(f, SUBSET T, g)
    PROVE  \A s \in SUBSET T : g[s] \in Int
  <1> DEFINE Bad == {n \in Nat : \E s \in SUBSET T : Cardinality(s) = n /\ g[s] \notin Int}
  <1>1. Bad = {}
    <2> SUFFICES ASSUME Bad # {} PROVE FALSE
      OBVIOUS
    <2>1. PICK n \in Bad : \A m \in Bad : n <= m
      <3> Bad \in SUBSET Nat
        OBVIOUS
      <3> HIDE DEF Bad
      <3> QED BY LeastNatural
    <2>2. PICK s \in SUBSET T : Cardinality(s) = n /\ g[s] \notin Int
      OBVIOUS
    <2>3. s # {}
      BY <2>2 DEF Sums
    <2>4. g[s] = f[AnyOf(s)] + g[s \ {AnyOf(s)}]
      BY <2>3 DEF Sums
    <2>5. /\ f[AnyOf(s)] \in Int
          /\ s \ {AnyOf(s)} \in SUBSET T
          /\ Cardinality(s \ {AnyOf(s)}) \in Nat
          /\ Cardinality(s \ {AnyOf(s)}) < n
      BY <2>2, <2>3, RemoveOne
    <2>6. g[s \ {AnyOf(s)}] \in Int
      BY <2>1, <2>5
    <2>7. QED
      BY <2>2, <2>4, <2>5, <2>6
  <1>2. ASSUME NEW s \in SUBSET T PROVE Cardinality(s) \in Nat
    BY FS_Subset, FS_CardinalityType
  <1>3. QED
    BY <1>1, <1>2

LEMMA SumIsInteger ==
    ASSUME NEW T, IsFiniteSet(T), NEW f, \A x \in T : f[x] \in Int
    PROVE  SumFunctionOnSet(f, T) \in Int
  <1> DEFINE g == CHOOSE h : Sums(f, SUBSET T, h)
  <1>1. SumFunctionOnSet(f, T) = g[T]
    BY DEF SumFunctionOnSet, FoldFunctionOnSet, MapThenFoldSet, Sums, AnyOf
  <1>2. Sums(f, SUBSET T, g)
    BY SumsExist
  <1>3. QED
    BY <1>1, <1>2, SumsAreIntegers

\* Two ways to sum, over T and over U, of functions that agree on r.
SumTheSame(f, T, g, h, U, k, r) ==
    /\ IsFiniteSet(T) /\ Sums(f, SUBSET T, g) /\ Sums(h, SUBSET U, k)
    /\ r \in SUBSET T /\ r \in SUBSET U
    /\ \A x \in r : f[x] = h[x]

\* A sum of s goes by the values on s.
LEMMA SumsAreEqual ==
    ASSUME NEW f, NEW T, NEW g, NEW h, NEW U, NEW k, NEW r,
           SumTheSame(f, T, g, h, U, k, r)
    PROVE  g[r] = k[r]
  <1>0. /\ IsFiniteSet(T) /\ Sums(f, SUBSET T, g) /\ Sums(h, SUBSET U, k)
        /\ r \in SUBSET T /\ r \in SUBSET U
        /\ \A x \in r : f[x] = h[x]
    BY DEF SumTheSame
  <1> DEFINE Differ(s) == /\ s \in SUBSET T /\ s \in SUBSET U
                          /\ \A x \in s : f[x] = h[x]
                          /\ g[s] # k[s]
             Bad == {n \in Nat : \E s : Differ(s) /\ Cardinality(s) = n}
  <1>1. Bad = {}
    <2> SUFFICES ASSUME Bad # {} PROVE FALSE
      OBVIOUS
    <2>1. PICK n \in Bad : \A m \in Bad : n <= m
      <3> Bad \in SUBSET Nat
        OBVIOUS
      <3> HIDE DEF Bad
      <3> QED BY LeastNatural
    <2>2. PICK s : Differ(s) /\ Cardinality(s) = n
      OBVIOUS
    <2>3. s # {}
      BY <1>0, <2>2 DEF Sums
    <2> DEFINE q == s \ {AnyOf(s)}
    <2>4. /\ g[s] = f[AnyOf(s)] + g[q]
          /\ k[s] = h[AnyOf(s)] + k[q]
      BY <1>0, <2>2, <2>3 DEF Sums
    <2>5. /\ AnyOf(s) \in s /\ q \in SUBSET T /\ q \in SUBSET U
          /\ Cardinality(q) \in Nat /\ Cardinality(q) < n
      BY <1>0, <2>2, <2>3, RemoveOne
    <2>6. g[q] # k[q]
      BY <2>2, <2>4, <2>5
    <2>7. Cardinality(q) \in Bad
      BY <2>2, <2>5, <2>6
    <2>8. n <= Cardinality(q) /\ n \in Nat
      BY <2>1, <2>7
    <2>9. QED
      BY <2>5, <2>8
  <1>2. Cardinality(r) \in Nat
    BY <1>0, FS_Subset, FS_CardinalityType
  <1>3. QED
    BY <1>0, <1>1, <1>2

\* In whichever order a sum was taken, any element can be split off.
LEMMA SumsSplit ==
    ASSUME NEW T, IsFiniteSet(T), NEW f, \A x \in T : f[x] \in Int,
           NEW g, Sums(f, SUBSET T, g)
    PROVE  \A s \in SUBSET T : \A x \in s : g[s] = f[x] + g[s \ {x}]
  <1> DEFINE Splits(s) == \A x \in s : g[s] = f[x] + g[s \ {x}]
             Bad == {n \in Nat : \E s \in SUBSET T : ~Splits(s) /\ Cardinality(s) = n}
  <1>1. Bad = {}
    <2> SUFFICES ASSUME Bad # {} PROVE FALSE
      OBVIOUS
    <2>1. PICK n \in Bad : \A m \in Bad : n <= m
      <3> Bad \in SUBSET Nat
        OBVIOUS
      <3> HIDE DEF Bad
      <3> QED BY LeastNatural
    <2>2. PICK s \in SUBSET T : ~Splits(s) /\ Cardinality(s) = n
      OBVIOUS
    <2>3. PICK x \in s : g[s] # f[x] + g[s \ {x}]
      BY <2>2
    <2> DEFINE a == AnyOf(s)
    <2>4. g[s] = f[a] + g[s \ {a}]
      BY <2>3 DEF Sums
    <2>5. a \in s /\ Cardinality(s) \in Nat
      BY <2>3, RemoveOne
    <2> HIDE DEF a
    <2>6. a # x
      BY <2>3, <2>4
    <2>7. ASSUME NEW y \in s PROVE Splits(s \ {y})
      <3>1. IsFiniteSet(s)
        BY FS_Subset
      <3>2. Cardinality(s \ {y}) = Cardinality(s) - 1
        BY <3>1, FS_RemoveElement
      <3>3. IsFiniteSet(s \ {y})
        BY <3>1, FS_RemoveElement
      <3>4. Cardinality(s \ {y}) \in Nat /\ Cardinality(s \ {y}) < n
        BY <2>2, <2>5, <3>2, <3>3, FS_CardinalityType
      <3>5. Cardinality(s \ {y}) \notin Bad
        <4>1. n \in Nat
          BY <2>1
        <4>2. Cardinality(s \ {y}) \in Bad => n <= Cardinality(s \ {y})
          BY <2>1
        <4> HIDE DEF Bad
        <4>3. QED
          BY <3>4, <4>1, <4>2
      <3>6. s \ {y} \in SUBSET T
        OBVIOUS
      <3>7. QED
        BY <3>4, <3>5, <3>6
    <2>8. /\ g[s \ {a}] = f[x] + g[(s \ {a}) \ {x}]
          /\ g[s \ {x}] = f[a] + g[(s \ {x}) \ {a}]
      BY <2>5, <2>6, <2>7
    <2>9. (s \ {a}) \ {x} = (s \ {x}) \ {a}
      OBVIOUS
    <2>10. f[x] \in Int /\ f[a] \in Int /\ g[(s \ {a}) \ {x}] \in Int
      BY <2>5, SumsAreIntegers
    <2> DEFINE rest == g[(s \ {a}) \ {x}]
               fa == f[a]
               fx == f[x]
    <2>11. g[s] = fa + (fx + rest) /\ g[s \ {x}] = fa + rest /\ g[s] # fx + g[s \ {x}]
      BY <2>3, <2>4, <2>8, <2>9
    <2>12. fa \in Int /\ fx \in Int /\ rest \in Int
      BY <2>10
    <2> HIDE DEF rest, fa, fx
    <2>13. QED
      BY <2>11, <2>12
  <1>2. ASSUME NEW s \in SUBSET T PROVE Cardinality(s) \in Nat
    BY FS_Subset, FS_CardinalityType
  <1>3. QED
    BY <1>1, <1>2

SumGot(f, T) == (CHOOSE g : Sums(f, SUBSET T, g))[T]

LEMMA SumIsGot ==
    ASSUME NEW T, NEW f
    PROVE  SumFunctionOnSet(f, T) = SumGot(f, T)
  BY DEF SumGot, SumFunctionOnSet, FoldFunctionOnSet, MapThenFoldSet, Sums, AnyOf

LEMMA SumOfSame ==
    ASSUME NEW T, IsFiniteSet(T), NEW f, NEW h, \A x \in T : f[x] = h[x]
    PROVE  SumFunctionOnSet(f, T) = SumFunctionOnSet(h, T)
  <1> DEFINE g == CHOOSE i : Sums(f, SUBSET T, i)
             k == CHOOSE i : Sums(h, SUBSET T, i)
  <1>1. Sums(f, SUBSET T, g) /\ Sums(h, SUBSET T, k)
    BY SumsExist
  <1>2. SumGot(f, T) = g[T] /\ SumGot(h, T) = k[T]
    BY DEF SumGot
  <1> HIDE DEF g, k
  <1>3. SumTheSame(f, T, g, h, T, k, T)
    BY <1>1 DEF SumTheSame
  <1>4. g[T] = k[T]
    BY <1>3, SumsAreEqual
  <1>5. QED
    BY <1>2, <1>4, SumIsGot

LEMMA SumOfMore ==
    ASSUME NEW T, IsFiniteSet(T), NEW a, a \notin T,
           NEW f, \A x \in T \cup {a} : f[x] \in Int
    PROVE  SumFunctionOnSet(f, T \cup {a}) = f[a] + SumFunctionOnSet(f, T)
  <1> DEFINE U == T \cup {a}
             g == CHOOSE i : Sums(f, SUBSET U, i)
             k == CHOOSE i : Sums(f, SUBSET T, i)
  <1>1. IsFiniteSet(U)
    BY FS_AddElement
  <1>2. Sums(f, SUBSET U, g) /\ Sums(f, SUBSET T, k)
    BY <1>1, SumsExist
  <1>3. SumGot(f, U) = g[U] /\ SumGot(f, T) = k[T]
    BY DEF SumGot
  <1>4. /\ U \in SUBSET U /\ a \in U /\ U \ {a} = T /\ T \in SUBSET U
        /\ \A x \in U : f[x] \in Int
    OBVIOUS
  <1> HIDE DEF g, k, U
  <1>5. g[U] = f[a] + g[T]
    BY <1>1, <1>2, <1>4, SumsSplit
  <1>6. SumTheSame(f, U, g, f, T, k, T)
    BY <1>1, <1>2, <1>4 DEF SumTheSame
  <1>8. g[T] = k[T]
    BY <1>6, SumsAreEqual
  <1>7. QED
    BY <1>3, <1>5, <1>8, SumIsGot DEF U

LEMMA SumOfNothing ==
    ASSUME NEW f PROVE SumFunctionOnSet(f, {}) = 0
  <1> DEFINE g == CHOOSE i : Sums(f, SUBSET {}, i)
  <1>1. IsFiniteSet({})
    BY FS_EmptySet
  <1>2. Sums(f, SUBSET {}, g)
    BY <1>1, SumsExist
  <1>3. SumGot(f, {}) = g[{}]
    BY DEF SumGot
  <1> HIDE DEF g
  <1>4. g[{}] = 0
    BY <1>2 DEF Sums
  <1>5. QED
    BY <1>3, <1>4, SumIsGot

LEMMA SumGrows ==
    ASSUME NEW E, IsFiniteSet(E), NEW m, m \notin E, NEW f, NEW u,
           \A x \in E : u[x] = f[x], \A x \in E \cup {m} : u[x] \in Int
    PROVE  SumFunctionOnSet(u, E \cup {m}) = u[m] + SumFunctionOnSet(f, E)
  <1>1. SumFunctionOnSet(u, E \cup {m}) = u[m] + SumFunctionOnSet(u, E)
    BY SumOfMore
  <1>2. SumFunctionOnSet(u, E) = SumFunctionOnSet(f, E)
    BY SumOfSame
  <1>3. QED
    BY <1>1, <1>2

\* P is a set of sets that has the empty one and grows by any element of T.
LEMMA SetInduction ==
    ASSUME NEW T, IsFiniteSet(T), NEW P, {} \in P,
           \A s \in SUBSET T : \A x \in T \ s : s \in P => s \cup {x} \in P
    PROVE  T \in P
  <1> DEFINE Bad == {n \in Nat : \E s \in SUBSET T : s \notin P /\ Cardinality(s) = n}
  <1>1. Bad = {}
    <2> SUFFICES ASSUME Bad # {} PROVE FALSE
      OBVIOUS
    <2>1. PICK n \in Bad : \A m \in Bad : n <= m
      <3> Bad \in SUBSET Nat
        OBVIOUS
      <3> HIDE DEF Bad
      <3> QED BY LeastNatural
    <2>2. PICK s \in SUBSET T : s \notin P /\ Cardinality(s) = n
      OBVIOUS
    <2>3. PICK x \in s : TRUE
      BY <2>2
    <2> DEFINE q == s \ {x}
    <2>4. q \in SUBSET T /\ x \in T \ q /\ q \cup {x} = s
      BY <2>3
    <2>5. Cardinality(q) \in Nat /\ Cardinality(q) < n /\ n \in Nat
      <3>1. IsFiniteSet(s)
        BY FS_Subset
      <3>2. Cardinality(q) = Cardinality(s) - 1 /\ IsFiniteSet(q)
        BY <3>1, <2>3, FS_RemoveElement
      <3>3. QED
        BY <2>2, <3>1, <3>2, FS_CardinalityType
    <2> HIDE DEF q
    <2>6. q \notin P
      BY <2>2, <2>4
    <2>7. Cardinality(q) \in Bad
      BY <2>4, <2>5, <2>6
    <2>8. n <= Cardinality(q)
      BY <2>1, <2>7
    <2>9. QED
      BY <2>5, <2>8
  <1>2. Cardinality(T) \in Nat
    BY FS_CardinalityType
  <1>3. QED
    BY <1>1, <1>2

\* A sum is linear.
LEMMA SumOfTwo ==
    ASSUME NEW T, IsFiniteSet(T), NEW f, NEW g, NEW h,
           \A x \in T : f[x] \in Int /\ g[x] \in Int /\ h[x] = f[x] + g[x]
    PROVE  SumFunctionOnSet(h, T) = SumFunctionOnSet(f, T) + SumFunctionOnSet(g, T)
  <1> DEFINE Adds(s) == SumFunctionOnSet(h, s) = SumFunctionOnSet(f, s) + SumFunctionOnSet(g, s)
             P == {s \in SUBSET T : Adds(s)}
  <1>1. {} \in P
    <2>1. SumFunctionOnSet(h, {}) = 0 /\ SumFunctionOnSet(f, {}) = 0 /\ SumFunctionOnSet(g, {}) = 0
      BY SumOfNothing
    <2>2. QED
      BY <2>1
  <1>2. ASSUME NEW s \in SUBSET T, NEW x \in T \ s, s \in P PROVE s \cup {x} \in P
    <2>1. IsFiniteSet(s) /\ x \notin s /\ s \cup {x} \in SUBSET T
      BY FS_Subset
    <2>2. \A y \in s \cup {x} : f[y] \in Int /\ g[y] \in Int /\ h[y] \in Int
      BY <2>1
    <2>3. /\ SumFunctionOnSet(f, s \cup {x}) = f[x] + SumFunctionOnSet(f, s)
          /\ SumFunctionOnSet(g, s \cup {x}) = g[x] + SumFunctionOnSet(g, s)
          /\ SumFunctionOnSet(h, s \cup {x}) = h[x] + SumFunctionOnSet(h, s)
      BY <2>1, <2>2, SumOfMore
    <2>4. SumFunctionOnSet(f, s) \in Int /\ SumFunctionOnSet(g, s) \in Int
      BY <2>1, <2>2, SumIsInteger
    <2>5. f[x] \in Int /\ g[x] \in Int /\ h[x] = f[x] + g[x]
      OBVIOUS
    <2>6. Adds(s)
      BY <1>2
    <2>7. Adds(s \cup {x})
      BY <2>3, <2>4, <2>5, <2>6
    <2>8. QED
      BY <2>1, <2>7
  <1> HIDE DEF P
  <1>3. T \in P
    BY <1>1, <1>2, SetInduction
  <1>4. QED
    BY <1>3 DEF P

LEMMA SumOfScaled ==
    ASSUME NEW T, IsFiniteSet(T), NEW c \in Int, NEW f, NEW h,
           \A x \in T : f[x] \in Int /\ h[x] = c * f[x]
    PROVE  SumFunctionOnSet(h, T) = c * SumFunctionOnSet(f, T)
  <1> DEFINE Scales(s) == SumFunctionOnSet(h, s) = c * SumFunctionOnSet(f, s)
             P == {s \in SUBSET T : Scales(s)}
  <1>1. {} \in P
    <2>1. SumFunctionOnSet(h, {}) = 0 /\ SumFunctionOnSet(f, {}) = 0
      BY SumOfNothing
    <2>2. QED
      BY <2>1
  <1>2. ASSUME NEW s \in SUBSET T, NEW x \in T \ s, s \in P PROVE s \cup {x} \in P
    <2>1. IsFiniteSet(s) /\ x \notin s /\ s \cup {x} \in SUBSET T
      BY FS_Subset
    <2>2. \A y \in s \cup {x} : f[y] \in Int /\ h[y] \in Int
      BY <2>1
    <2>3. /\ SumFunctionOnSet(f, s \cup {x}) = f[x] + SumFunctionOnSet(f, s)
          /\ SumFunctionOnSet(h, s \cup {x}) = h[x] + SumFunctionOnSet(h, s)
      BY <2>1, <2>2, SumOfMore
    <2>4. SumFunctionOnSet(f, s) \in Int
      BY <2>1, <2>2, SumIsInteger
    <2>5. f[x] \in Int /\ h[x] = c * f[x]
      OBVIOUS
    <2>6. Scales(s)
      BY <1>2
    <2>7. Scales(s \cup {x})
      BY <2>3, <2>4, <2>5, <2>6
    <2>8. QED
      BY <2>1, <2>7
  <1> HIDE DEF P
  <1>3. T \in P
    BY <1>1, <1>2, SetInduction
  <1>4. QED
    BY <1>3 DEF P

\* And it goes by the bounds of its terms: at most c each in S, nothing elsewhere.
LEMMA SumAtMost ==
    ASSUME NEW T, IsFiniteSet(T), NEW S \in SUBSET T, NEW c \in Int, NEW f,
           \A x \in T : f[x] \in Int,
           \A x \in S : f[x] <= c, \A x \in T \ S : f[x] <= 0
    PROVE  SumFunctionOnSet(f, T) <= c * Cardinality(S)
  <1> DEFINE Bounded(s) == SumFunctionOnSet(f, s) <= c * Cardinality(s \cap S)
             P == {s \in SUBSET T : Bounded(s)}
  <1>1. {} \in P
    <2>1. SumFunctionOnSet(f, {}) = 0 /\ Cardinality({}) = 0 /\ {} \cap S = {}
      BY SumOfNothing, FS_EmptySet
    <2>2. QED
      BY <2>1
  <1>2. ASSUME NEW s \in SUBSET T, NEW x \in T \ s, s \in P PROVE s \cup {x} \in P
    <2>1. IsFiniteSet(s) /\ x \notin s /\ s \cup {x} \in SUBSET T
      BY FS_Subset
    <2>2. \A y \in s \cup {x} : f[y] \in Int
      BY <2>1
    <2>3. SumFunctionOnSet(f, s \cup {x}) = f[x] + SumFunctionOnSet(f, s)
      BY <2>1, <2>2, SumOfMore
    <2>4. SumFunctionOnSet(f, s) \in Int /\ f[x] \in Int
      BY <2>1, <2>2, SumIsInteger
    <2>5. Bounded(s)
      BY <1>2
    <2> DEFINE k == Cardinality(s \cap S)
               sum == SumFunctionOnSet(f, s)
               fx == f[x]
    <2>6. IsFiniteSet(s \cap S) /\ k \in Nat
      BY <2>1, FS_Subset, FS_CardinalityType
    <2>7. sum <= c * k /\ sum \in Int /\ fx \in Int /\ c * k \in Int
      BY <2>4, <2>5, <2>6
    <2>8. CASE x \in S
      <3>1. (s \cup {x}) \cap S = (s \cap S) \cup {x} /\ x \notin s \cap S
        BY <2>1, <2>8
      <3>2. Cardinality((s \cup {x}) \cap S) = k + 1
        BY <2>6, <3>1, FS_AddElement
      <3>3. fx <= c
        BY <2>8
      <3> HIDE DEF k, sum, fx
      <3>4. c * (k + 1) = c * k + c
        BY <2>6
      <3>5. fx + sum <= c * (k + 1)
        BY <2>7, <3>3, <3>4
      <3>6. Bounded(s \cup {x})
        BY <2>3, <3>2, <3>5 DEF sum, fx
      <3>7. QED
        BY <2>1, <3>6
    <2>9. CASE x \notin S
      <3>1. (s \cup {x}) \cap S = s \cap S
        BY <2>1, <2>9
      <3>2. fx <= 0
        BY <2>9
      <3> HIDE DEF k, sum, fx
      <3>3. fx + sum <= c * k
        BY <2>7, <3>2
      <3>4. Bounded(s \cup {x})
        BY <2>3, <3>1, <3>3 DEF k, sum, fx
      <3>5. QED
        BY <2>1, <3>4
    <2>10. QED
      BY <2>8, <2>9
  <1> HIDE DEF P
  <1>3. T \in P
    BY <1>1, <1>2, SetInduction
  <1>4. T \cap S = S
    OBVIOUS
  <1>5. QED
    BY <1>3, <1>4 DEF P

\* One term is one more.
LEMMA SumOfOneMore ==
    ASSUME NEW T, IsFiniteSet(T), NEW a \in T, NEW f, NEW h,
           \A x \in T : f[x] \in Int, h[a] = f[a] + 1, \A x \in T \ {a} : h[x] = f[x]
    PROVE  SumFunctionOnSet(h, T) = SumFunctionOnSet(f, T) + 1
  <1> DEFINE S == T \ {a}
  <1>1. IsFiniteSet(S) /\ a \notin S /\ S \cup {a} = T
    BY FS_Subset
  <1>2. \A x \in S \cup {a} : f[x] \in Int /\ h[x] \in Int
    BY <1>1
  <1>3. \A x \in S : f[x] = h[x] /\ f[x] \in Int
    BY <1>1
  <1> HIDE DEF S
  <1>4. /\ SumFunctionOnSet(f, S \cup {a}) = f[a] + SumFunctionOnSet(f, S)
        /\ SumFunctionOnSet(h, S \cup {a}) = h[a] + SumFunctionOnSet(h, S)
    BY <1>1, <1>2, SumOfMore
  <1>5. SumFunctionOnSet(f, S) = SumFunctionOnSet(h, S)
    BY <1>1, <1>3, SumOfSame
  <1>6. SumFunctionOnSet(f, S) \in Int
    BY <1>1, <1>3, SumIsInteger
  <1>7. f[a] \in Int /\ h[a] = f[a] + 1
    OBVIOUS
  <1> DEFINE sum == SumFunctionOnSet(f, S)
             fa == f[a]
  <1>8. SumFunctionOnSet(f, T) = fa + sum /\ SumFunctionOnSet(h, T) = (fa + 1) + sum
    BY <1>1, <1>4, <1>5, <1>7
  <1>9. fa \in Int /\ sum \in Int
    BY <1>6, <1>7
  <1> HIDE DEF sum, fa
  <1>10. QED
    BY <1>8, <1>9

\* A sum over 1 .. k, one number at a time.
LEMMA SumStep ==
    ASSUME NEW k \in Nat, NEW a, a = k + 1, NEW f, \A x \in 1 .. a : f[x] \in Int
    PROVE  SumFunctionOnSet(f, 1 .. a) = SumFunctionOnSet(f, 1 .. k) + f[a]
  <1> DEFINE T == 1 .. k
  <1>1. IsFiniteSet(T) /\ a \notin T
    BY FS_Interval
  <1>2. 1 .. a = T \cup {a}
    OBVIOUS
  <1>3. \A x \in T \cup {a} : f[x] \in Int
    BY <1>2
  <1>4. f[a] \in Int /\ \A x \in T : f[x] \in Int
    BY <1>3
  <1> HIDE DEF T
  <1>5. SumFunctionOnSet(f, T \cup {a}) = f[a] + SumFunctionOnSet(f, T)
    BY <1>1, <1>3, SumOfMore
  <1>6. SumFunctionOnSet(f, T) \in Int
    BY <1>1, <1>4, SumIsInteger
  <1>7. SumFunctionOnSet(f, T \cup {a}) = SumFunctionOnSet(f, T) + f[a]
    BY <1>4, <1>5, <1>6
  <1>8. QED
    BY <1>2, <1>7 DEF T

LEMMA SumOfTen ==
    ASSUME NEW f \in [1 .. 10 -> Int]
    PROVE  SumFunctionOnSet(f, 1 .. 10)
             = f[1] + f[2] + f[3] + f[4] + f[5] + f[6] + f[7] + f[8] + f[9] + f[10]
  <1> DEFINE T(k) == 1 .. k
             Sum(k) == SumFunctionOnSet(f, T(k))
             More(k, a) == Sum(a) = Sum(k) + f[a]
  <1>0. Sum(0) = 0
    <2>1. T(0) = {}
      OBVIOUS
    <2> HIDE DEF T
    <2>2. QED
      BY <2>1, SumOfNothing
  <1>1. \A k, a \in 0 .. 10 : a = k + 1 => More(k, a)
    <2> SUFFICES ASSUME NEW k \in 0 .. 10, NEW a \in 0 .. 10, a = k + 1 PROVE More(k, a)
      OBVIOUS
    <2>1. \A x \in 1 .. a : f[x] \in Int
      OBVIOUS
    <2>2. k \in Nat
      OBVIOUS
    <2>3. SumFunctionOnSet(f, 1 .. a) = SumFunctionOnSet(f, 1 .. k) + f[a]
      BY <2>1, <2>2, SumStep
    <2>4. QED
      BY <2>3
  <1> HIDE DEF Sum
  <1>2. /\ Sum(1) = Sum(0) + f[1] /\ Sum(2) = Sum(1) + f[2] /\ Sum(3) = Sum(2) + f[3]
        /\ Sum(4) = Sum(3) + f[4] /\ Sum(5) = Sum(4) + f[5] /\ Sum(6) = Sum(5) + f[6]
        /\ Sum(7) = Sum(6) + f[7] /\ Sum(8) = Sum(7) + f[8] /\ Sum(9) = Sum(8) + f[9]
        /\ Sum(10) = Sum(9) + f[10]
    BY <1>1
  <1>3. Sum(10) = f[1] + f[2] + f[3] + f[4] + f[5] + f[6] + f[7] + f[8] + f[9] + f[10]
    BY <1>0, <1>2
  <1>4. QED
    BY <1>3 DEF Sum

\* h is f on S and zero on the rest of T.
Extends(T, S, f, h) ==
    /\ IsFiniteSet(T) /\ S \in SUBSET T
    /\ \A x \in S : f[x] \in Int /\ h[x] = f[x]
    /\ \A x \in T \ S : h[x] = 0

\* Terms that are zero may be left out.
LEMMA SumOfSome ==
    ASSUME NEW T, NEW S, NEW f, NEW h, Extends(T, S, f, h)
    PROVE  SumFunctionOnSet(h, T) = SumFunctionOnSet(f, S)
  <1>0. /\ IsFiniteSet(T) /\ S \in SUBSET T
        /\ \A x \in S : f[x] \in Int /\ h[x] = f[x]
        /\ \A x \in T \ S : h[x] = 0
    BY DEF Extends
  <1> USE <1>0
  <1> DEFINE Adds(s) == SumFunctionOnSet(h, s) = SumFunctionOnSet(f, s \cap S)
             P == {s \in SUBSET T : Adds(s)}
  <1>1. {} \in P
    <2>1. {} \cap S = {} /\ SumFunctionOnSet(h, {}) = 0 /\ SumFunctionOnSet(f, {}) = 0
      BY SumOfNothing
    <2>2. QED
      BY <2>1
  <1>2. ASSUME NEW s \in SUBSET T, NEW x \in T \ s, s \in P PROVE s \cup {x} \in P
    <2>1. IsFiniteSet(s) /\ IsFiniteSet(s \cap S) /\ x \notin s /\ s \cup {x} \in SUBSET T
      BY FS_Subset
    <2>2. \A y \in s \cup {x} : h[y] \in Int
      BY <2>1
    <2>3. SumFunctionOnSet(h, s \cup {x}) = h[x] + SumFunctionOnSet(h, s)
      BY <2>1, <2>2, SumOfMore
    <2>4. SumFunctionOnSet(h, s) \in Int
      BY <2>1, <2>2, SumIsInteger
    <2>5. Adds(s)
      BY <1>2
    <2>6. CASE x \in S
      <3>1. (s \cup {x}) \cap S = (s \cap S) \cup {x} /\ x \notin s \cap S
        BY <2>1, <2>6
      <3>2. \A y \in (s \cap S) \cup {x} : f[y] \in Int
        BY <2>6
      <3>3. SumFunctionOnSet(f, (s \cap S) \cup {x}) = f[x] + SumFunctionOnSet(f, s \cap S)
        BY <2>1, <3>1, <3>2, SumOfMore
      <3>4. h[x] = f[x]
        BY <2>6
      <3>5. Adds(s \cup {x})
        BY <2>3, <2>5, <3>1, <3>3, <3>4
      <3>6. QED
        BY <2>1, <3>5
    <2>7. CASE x \notin S
      <3>1. (s \cup {x}) \cap S = s \cap S
        BY <2>7
      <3>2. h[x] = 0
        BY <2>7
      <3> DEFINE sum == SumFunctionOnSet(h, s)
      <3>3. 0 + sum = sum
        <4>1. sum \in Int
          BY <2>4
        <4> HIDE DEF sum
        <4>2. QED
          BY <4>1
      <3>4. SumFunctionOnSet(h, s \cup {x}) = sum
        BY <2>3, <3>2, <3>3
      <3>5. Adds(s \cup {x})
        BY <2>5, <3>1, <3>4
      <3>6. QED
        BY <2>1, <3>5
    <2>8. QED
      BY <2>6, <2>7
  <1> HIDE DEF P
  <1>3. T \in P
    BY <1>1, <1>2, SetInduction
  <1>4. T \cap S = S
    OBVIOUS
  <1>5. QED
    BY <1>3, <1>4 DEF P

\* h is f under other names.
Renames(T, U, name, f, h) ==
    /\ IsFiniteSet(T) /\ name \in Bijection(T, U)
    /\ \A x \in T : f[x] \in Int /\ h[name[x]] = f[x]

\* The indices may be renamed.
LEMMA SumOfRenamed ==
    ASSUME NEW T, NEW U, NEW name, NEW f, NEW h, Renames(T, U, name, f, h)
    PROVE  SumFunctionOnSet(h, U) = SumFunctionOnSet(f, T)
  <1>0. /\ IsFiniteSet(T) /\ name \in Bijection(T, U)
        /\ \A x \in T : f[x] \in Int /\ h[name[x]] = f[x]
    BY DEF Renames
  <1> USE <1>0
  <1> DEFINE Names(s) == {name[x] : x \in s}
             Adds(s) == SumFunctionOnSet(h, Names(s)) = SumFunctionOnSet(f, s)
             P == {s \in SUBSET T : Adds(s)}
  <1>1. {} \in P
    <2>1. Names({}) = {} /\ SumFunctionOnSet(h, {}) = 0 /\ SumFunctionOnSet(f, {}) = 0
      BY SumOfNothing
    <2>2. QED
      BY <2>1
  <1>2. ASSUME NEW s \in SUBSET T, NEW x \in T \ s, s \in P PROVE s \cup {x} \in P
    <2>1. IsFiniteSet(s) /\ x \notin s /\ s \cup {x} \in SUBSET T
      BY FS_Subset
    <2>2. IsFiniteSet(Names(s))
      <3> DEFINE g == [y \in s |-> name[y]]
      <3>1. g \in Surjection(s, Names(s))
        BY DEF Surjection
      <3>2. QED
        BY <2>1, <3>1, FS_Surjection
    <2>3. /\ Names(s \cup {x}) = Names(s) \cup {name[x]}
          /\ name[x] \notin Names(s)
      <3>1. \A y, z \in T : name[y] = name[z] => y = z
        BY DEF Bijection, Injection, IsInjective
      <3>2. QED
        BY <2>1, <3>1
    <2>4. \A y \in s \cup {x} : f[y] \in Int
      BY <2>1
    <2>5. \A z \in Names(s) \cup {name[x]} : h[z] \in Int
      BY <2>1
    <2>6. Adds(s) /\ h[name[x]] = f[x]
      BY <1>2
    <2> HIDE DEF Names
    <2>7. /\ SumFunctionOnSet(f, s \cup {x}) = f[x] + SumFunctionOnSet(f, s)
          /\ SumFunctionOnSet(h, Names(s) \cup {name[x]})
               = h[name[x]] + SumFunctionOnSet(h, Names(s))
      BY <2>1, <2>2, <2>3, <2>4, <2>5, SumOfMore
    <2>8. Adds(s \cup {x})
      BY <2>3, <2>6, <2>7
    <2>9. QED
      BY <2>1, <2>8
  <1> HIDE DEF P
  <1>3. T \in P
    BY <1>1, <1>2, SetInduction
  <1>4. Names(T) = U
    <2>1. /\ \A x \in T : name[x] \in U
          /\ \A y \in U : \E x \in T : name[x] = y
      BY DEF Bijection, Injection, Surjection
    <2>2. QED
      BY <2>1
  <1>5. Adds(T)
    BY <1>3 DEF P
  <1>6. QED
    BY <1>4, <1>5

LEMMA SumOfZeros ==
    ASSUME NEW T, IsFiniteSet(T), NEW f, \A x \in T : f[x] = 0
    PROVE  SumFunctionOnSet(f, T) = 0
  <1>1. SumFunctionOnSet(f, T) = SumFunctionOnSet(f, {})
    BY SumOfSome DEF Extends
  <1>2. QED
    BY <1>1, SumOfNothing

\* a sums the rows of v, b its columns, which w lists.
AddsUp(T, C, v, w, a, b) ==
    /\ IsFiniteSet(T) /\ IsFiniteSet(C)
    /\ \A x \in T, y \in C : v[x][y] \in Int /\ w[y][x] = v[x][y]
    /\ \A x \in T : a[x] = SumFunctionOnSet(v[x], C)
    /\ \A y \in C : b[y] = SumFunctionOnSet(w[y], T)

\* A table adds up to the same by its rows and by its columns.
LEMMA SumsSwap ==
    ASSUME NEW T, NEW C, NEW v, NEW w, NEW a, NEW b, AddsUp(T, C, v, w, a, b)
    PROVE  SumFunctionOnSet(a, T) = SumFunctionOnSet(b, C)
  <1>0. /\ IsFiniteSet(T) /\ IsFiniteSet(C)
        /\ \A x \in T, y \in C : v[x][y] \in Int /\ w[y][x] = v[x][y]
        /\ \A x \in T : a[x] = SumFunctionOnSet(v[x], C)
        /\ \A y \in C : b[y] = SumFunctionOnSet(w[y], T)
    BY DEF AddsUp
  <1> USE <1>0
  <1> DEFINE A(s) == [x \in T |-> SumFunctionOnSet(v[x], s)]
             Swaps(s) == SumFunctionOnSet(A(s), T) = SumFunctionOnSet(b, s)
             P == {s \in SUBSET C : Swaps(s)}
  <1>1. {} \in P
    <2>1. \A x \in T : A({})[x] = 0
      BY SumOfNothing
    <2> HIDE DEF A
    <2>2. SumFunctionOnSet(A({}), T) = 0 /\ SumFunctionOnSet(b, {}) = 0
      BY <2>1, SumOfNothing, SumOfZeros
    <2>3. QED
      BY <2>2
  <1>2. ASSUME NEW s \in SUBSET C, NEW y \in C \ s, s \in P PROVE s \cup {y} \in P
    <2>1. IsFiniteSet(s) /\ y \notin s /\ s \cup {y} \in SUBSET C
      BY FS_Subset
    <2>2. ASSUME NEW x \in T
          PROVE  /\ w[y][x] \in Int /\ A(s)[x] \in Int
                 /\ A(s \cup {y})[x] = w[y][x] + A(s)[x]
      <3>1. \A z \in s \cup {y} : v[x][z] \in Int
        BY <2>1
      <3>2. SumFunctionOnSet(v[x], s \cup {y}) = v[x][y] + SumFunctionOnSet(v[x], s)
        BY <2>1, <3>1, SumOfMore
      <3>3. SumFunctionOnSet(v[x], s) \in Int
        BY <2>1, <3>1, SumIsInteger
      <3>4. v[x][y] \in Int /\ w[y][x] = v[x][y]
        BY <2>1
      <3>5. QED
        BY <3>2, <3>3, <3>4
    <2>3. \A z \in s \cup {y} : b[z] \in Int
      <3> SUFFICES ASSUME NEW z \in C PROVE b[z] \in Int
        BY <2>1
      <3>1. \A x \in T : w[z][x] \in Int
        OBVIOUS
      <3>2. SumFunctionOnSet(w[z], T) \in Int
        BY <3>1, SumIsInteger
      <3>3. QED
        BY <3>2
    <2>4. SumFunctionOnSet(b, s \cup {y}) = b[y] + SumFunctionOnSet(b, s)
      BY <2>1, <2>3, SumOfMore
    <2>5. b[y] = SumFunctionOnSet(w[y], T) /\ Swaps(s)
      BY <1>2
    <2>6. SumFunctionOnSet(A(s \cup {y}), T)
            = SumFunctionOnSet(w[y], T) + SumFunctionOnSet(A(s), T)
      <3> DEFINE f == w[y]
                 g == A(s)
                 h == A(s \cup {y})
      <3>1. \A x \in T : f[x] \in Int /\ g[x] \in Int /\ h[x] = f[x] + g[x]
        BY <2>2
      <3> HIDE DEF f, g, h
      <3>2. SumFunctionOnSet(h, T) = SumFunctionOnSet(f, T) + SumFunctionOnSet(g, T)
        BY <3>1, SumOfTwo
      <3>3. QED
        BY <3>2 DEF f, g, h
    <2> HIDE DEF A
    <2>7. Swaps(s \cup {y})
      BY <2>4, <2>5, <2>6
    <2>8. QED
      BY <2>1, <2>7
  <1>3. C \in P
    <2> HIDE DEF P
    <2> QED BY <1>1, <1>2, SetInduction
  <1>4. \A x \in T : A(C)[x] = a[x]
    OBVIOUS
  <1>5. Swaps(C)
    BY <1>3
  <1>6. QED
    <2> HIDE DEF A
    <2>1. SumFunctionOnSet(A(C), T) = SumFunctionOnSet(a, T)
      BY <1>4, SumOfSame
    <2>2. QED
      BY <1>5, <2>1

\* The rank of the members of a finite set of numbers counts them from 1 on.
LEMMA RanksCount ==
    ASSUME NEW S \in SUBSET Int, IsFiniteSet(S), NEW rank,
           rank = [n \in S |-> Cardinality({k \in S : k <= n})]
    PROVE  rank \in Bijection(S, 1 .. Cardinality(S))
  <1> DEFINE Below(n) == {k \in S : k <= n}
  <1>1. ASSUME NEW n \in S
        PROVE  /\ n \in Below(n) /\ IsFiniteSet(Below(n))
               /\ rank[n] = Cardinality(Below(n))
               /\ rank[n] \in 1 .. Cardinality(S)
    <2>1. n \in Below(n) /\ Below(n) \in SUBSET S /\ rank[n] = Cardinality(Below(n))
      OBVIOUS
    <2> HIDE DEF Below
    <2>2. IsFiniteSet(Below(n)) /\ Cardinality(Below(n)) <= Cardinality(S)
      BY <2>1, FS_Subset
    <2>3. Cardinality(Below(n)) \in Nat /\ Cardinality(Below(n)) # 0
      BY <2>1, <2>2, FS_CardinalityType, FS_EmptySet
    <2>4. Cardinality(S) \in Nat
      BY FS_CardinalityType
    <2>5. QED
      BY <2>1, <2>2, <2>3, <2>4
  <1>2. ASSUME NEW n \in S, NEW m \in S, n < m PROVE rank[n] # rank[m]
    <2>1. Below(n) \in SUBSET Below(m) /\ m \in Below(m) /\ m \notin Below(n)
      <3>1. n \in Int /\ m \in Int /\ \A k \in S : k \in Int
        OBVIOUS
      <3>2. \A k \in S : k <= n => k <= m
        BY <1>2, <3>1
      <3>3. m <= m /\ ~(m <= n)
        BY <1>2, <3>1
      <3>4. QED
        BY <3>2, <3>3
    <2>2. IsFiniteSet(Below(m)) /\ rank[n] = Cardinality(Below(n))
          /\ rank[m] = Cardinality(Below(m))
      BY <1>1
    <2> HIDE DEF Below
    <2>3. QED
      BY <2>1, <2>2, FS_Subset
  <1>3. \A n, m \in S : rank[n] = rank[m] => n = m
    <2> SUFFICES ASSUME NEW n \in S, NEW m \in S, n # m PROVE rank[n] # rank[m]
      OBVIOUS
    <2>1. n < m \/ m < n
      OBVIOUS
    <2>2. QED
      BY <1>2, <2>1
  <1>4. rank \in [S -> 1 .. Cardinality(S)]
    BY <1>1
  <1>5. rank \in Injection(S, 1 .. Cardinality(S))
    BY <1>3, <1>4 DEF Injection, IsInjective
  <1>6. rank \in Surjection(S, 1 .. Cardinality(S))
    <2>1. Cardinality(S) \in Nat
      BY FS_CardinalityType
    <2>2. IsFiniteSet(1 .. Cardinality(S)) /\ Cardinality(1 .. Cardinality(S)) = Cardinality(S)
      BY <2>1, FS_Interval
    <2>3. QED
      BY <1>5, <2>2, FS_Injection
  <1>7. QED
    BY <1>5, <1>6 DEF Bijection
=============================================================================
