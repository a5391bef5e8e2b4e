----------------------------- MODULE FiniteSums -----------------------------
(***************************************************************************)
(* Sums over finite sets, for the proofs about quantities and amounts:     *)
(* what SumFunctionOnSet of the community module Functions computes for    *)
(* any finite set of indices.  Induction over a finite set is a set of     *)
(* natural numbers with no least missing one, so every step is first       *)
(* order.                                                                  *)
(***************************************************************************)
EXTENDS Functions, FiniteSetTheorems, TLAPS

-----------------------------------------------------------------------------
(* Induction *)

LEMMA NatSetInduction ==
    ASSUME NEW B \in SUBSET Nat, 0 \in B, \A n \in B : n + 1 \in B
    PROVE  B = Nat
<1>1. SUFFICES ASSUME Nat \ B # {} PROVE FALSE
  OBVIOUS
<1>2. PICK r : r = OpToRel(<, Nat)
  OBVIOUS
<1>3. IsWellFoundedOn(r, Nat)
  BY <1>2, NatLessThanWellFounded
<1>4. Nat \ B \subseteq Nat
  OBVIOUS
<1>5. PICK m \in Nat \ B : \A k \in Nat \ B : ~ (<<k, m>> \in r)
  BY ONLY <1>1, <1>3, <1>4, WFMin
<1>6. m # 0 /\ m - 1 \in Nat
  OBVIOUS
<1>7. <<m - 1, m>> \in r
  BY <1>2, <1>6 DEF OpToRel
<1>8. m - 1 \in B
  BY <1>5, <1>6, <1>7
<1> QED
  BY <1>6, <1>8

LEMMA SubsetInduction ==
    ASSUME NEW S, IsFiniteSet(S), NEW B, {} \in B,
           \A T \in SUBSET S : \A x \in S \ T : T \in B => T \cup {x} \in B
    PROVE  S \in B
<1> DEFINE N == {n \in Nat : \A T \in SUBSET S : Cardinality(T) = n => T \in B}
<1>1. \A T \in SUBSET S : IsFiniteSet(T) /\ Cardinality(T) \in Nat
  BY FS_Subset, FS_CardinalityType
<1>2. 0 \in N
  BY <1>1, FS_EmptySet
<1>3. ASSUME NEW n \in N PROVE n + 1 \in N
  <2>1. ASSUME NEW T \in SUBSET S, Cardinality(T) = n + 1 PROVE T \in B
    <3>1. T # {}
      BY <2>1, FS_EmptySet
    <3>2. PICK x \in T : TRUE
      BY <3>1
    <3>3. Cardinality(T \ {x}) = n
      BY <1>1, <2>1, FS_RemoveElement
    <3>4. T \ {x} \in B
      BY <3>3
    <3>5. T = (T \ {x}) \cup {x}
      OBVIOUS
    <3> QED
      BY <3>4, <3>5
  <2> QED
    BY <2>1
<1> HIDE DEF N
<1>4. N = Nat
  <2>1. N \in SUBSET Nat
    BY DEF N
  <2> QED
    BY <2>1, <1>2, <1>3, NatSetInduction
<1>5. Cardinality(S) \in N
  BY <1>1, <1>4
<1> QED
  BY <1>5 DEF N

-----------------------------------------------------------------------------
(* The recursion behind SumFunctionOnSet *)

First(s) == CHOOSE x \in s : TRUE

Summation(g, f, S) ==
    g = [s \in SUBSET S |-> IF s = {} THEN 0 ELSE f[First(s)] + g[s \ {First(s)}]]

\* g is such a summation as far as the sets of at most n elements go.
SumsUpTo(g, f, S, n) ==
    \A s \in SUBSET S : Cardinality(s) <= n =>
       g[s] = IF s = {} THEN 0 ELSE f[First(s)] + g[s \ {First(s)}]

LEMMA FirstIsIn ==
    ASSUME NEW s, s # {}
    PROVE  First(s) \in s
BY DEF First

LEMMA SumUnfolds ==
    ASSUME NEW f, NEW S
    PROVE  SumFunctionOnSet(f, S) = (CHOOSE g : Summation(g, f, S))[S]
BY DEF SumFunctionOnSet, FoldFunctionOnSet, MapThenFoldSet, Summation, First

LEMMA SummationExists ==
    ASSUME NEW S, IsFiniteSet(S), NEW f, \A x \in S : f[x] \in Int
    PROVE  \E g \in [SUBSET S -> Int] : Summation(g, f, S)
<1> DEFINE N == {n \in Nat : \E g \in [SUBSET S -> Int] : SumsUpTo(g, f, S, n)}
<1>1. \A T \in SUBSET S : IsFiniteSet(T) /\ Cardinality(T) \in Nat
  BY FS_Subset, FS_CardinalityType
<1>2. \A T \in SUBSET S : T # {} =>
         /\ First(T) \in T /\ T \ {First(T)} \in SUBSET S
         /\ Cardinality(T) > 0
         /\ Cardinality(T \ {First(T)}) = Cardinality(T) - 1
  <2> SUFFICES ASSUME NEW T \in SUBSET S, T # {}
               PROVE  /\ First(T) \in T /\ T \ {First(T)} \in SUBSET S
                      /\ Cardinality(T) > 0
                      /\ Cardinality(T \ {First(T)}) = Cardinality(T) - 1
    OBVIOUS
  <2>1. First(T) \in T
    BY FirstIsIn
  <2>2. Cardinality(T) # 0 /\ Cardinality(T) \in Nat
    BY <1>1, FS_EmptySet
  <2>3. Cardinality(T \ {First(T)}) = Cardinality(T) - 1
    BY <1>1, <2>1, FS_RemoveElement
  <2> QED
    BY <2>1, <2>2, <2>3
<1>3. 0 \in N
  <2>1. PICK g : g = [s \in SUBSET S |-> 0]
    OBVIOUS
  <2>2. g \in [SUBSET S -> Int] /\ SumsUpTo(g, f, S, 0)
    <3>1. ASSUME NEW s \in SUBSET S, Cardinality(s) <= 0 PROVE s = {}
      <4>1. Cardinality(s) \in Nat /\ (s # {} => Cardinality(s) > 0)
        BY <1>1, <1>2
      <4> QED
        BY <3>1, <4>1
    <3> QED
      BY <2>1, <3>1 DEF SumsUpTo
  <2> QED
    BY <2>2
<1>4. ASSUME NEW n \in N PROVE n + 1 \in N
  <2>1. PICK g \in [SUBSET S -> Int] : SumsUpTo(g, f, S, n)
    OBVIOUS
  <2>2. n \in Nat
    OBVIOUS
  <2>3. PICK h : h = [s \in SUBSET S |-> IF s = {} THEN 0 ELSE f[First(s)] + g[s \ {First(s)}]]
    OBVIOUS
  <2>4. h \in [SUBSET S -> Int]
    <3>1. ASSUME NEW s \in SUBSET S, s # {} PROVE f[First(s)] + g[s \ {First(s)}] \in Int
      <4>1. First(s) \in S /\ s \ {First(s)} \in SUBSET S
        BY <1>2, <3>1
      <4> QED
        BY <4>1
    <3> QED
      BY <2>3, <3>1
  <2>5. ASSUME NEW s \in SUBSET S, Cardinality(s) <= n PROVE h[s] = g[s]
    BY <2>1, <2>3, <2>5 DEF SumsUpTo
  <2>6. ASSUME NEW s \in SUBSET S, Cardinality(s) <= n + 1, s # {}
        PROVE  h[s] = f[First(s)] + h[s \ {First(s)}]
    <3>1. /\ s \ {First(s)} \in SUBSET S
          /\ Cardinality(s \ {First(s)}) <= n
      BY <1>1, <1>2, <2>2, <2>6
    <3>2. h[s \ {First(s)}] = g[s \ {First(s)}]
      BY <2>5, <3>1
    <3> QED
      BY <2>3, <2>6, <3>2
  <2>7. SumsUpTo(h, f, S, n + 1)
    BY <2>3, <2>6 DEF SumsUpTo
  <2>8. n + 1 \in Nat
    BY <2>2
  <2>9. \E k \in [SUBSET S -> Int] : SumsUpTo(k, f, S, n + 1)
    BY <2>4, <2>7, ZenonT(30)
  <2> QED
    BY <2>8, <2>9
<1> HIDE DEF N
<1>5. N = Nat
  <2>1. N \in SUBSET Nat
    BY DEF N
  <2> QED
    BY <2>1, <1>3, <1>4, NatSetInduction
<1>6. Cardinality(S) \in N
  BY <1>1, <1>5
<1>7. PICK g \in [SUBSET S -> Int] : SumsUpTo(g, f, S, Cardinality(S))
  BY <1>6 DEF N
<1>8. \A s \in SUBSET S : Cardinality(s) <= Cardinality(S)
  BY FS_Subset
<1>9. Summation(g, f, S)
  BY <1>7, <1>8 DEF SumsUpTo, Summation
<1> QED
  BY <1>9

\* Two such recursions agree on the sets they have in common.
LEMMA SummationsAgree ==
    ASSUME NEW S, NEW T, IsFiniteSet(S), NEW f, NEW e, NEW g, NEW h,
           Summation(g, f, S), Summation(h, e, T), S \subseteq T,
           \A x \in S : f[x] = e[x]
    PROVE  g[S] = h[S]
<1> DEFINE N == {n \in Nat : \A s \in SUBSET S : Cardinality(s) = n => g[s] = h[s]}
<1>1. \A s \in SUBSET S : IsFiniteSet(s) /\ Cardinality(s) \in Nat
  BY FS_Subset, FS_CardinalityType
<1>2. 0 \in N
  <2>1. \A s \in SUBSET S : Cardinality(s) = 0 => s = {}
    BY <1>1, FS_EmptySet
  <2> QED
    BY <2>1 DEF Summation
<1>3. ASSUME NEW n \in N PROVE n + 1 \in N
  <2>1. ASSUME NEW s \in SUBSET S, Cardinality(s) = n + 1 PROVE g[s] = h[s]
    <3>1. n \in Nat /\ s # {}
      BY <2>1, FS_EmptySet
    <3>2. PICK x : x = First(s)
      OBVIOUS
    <3>3. x \in s
      BY <3>1, <3>2, FirstIsIn
    <3>4. Cardinality(s \ {x}) = n
      BY <1>1, <2>1, <3>1, <3>3, FS_RemoveElement
    <3>5. g[s \ {x}] = h[s \ {x}]
      BY <3>4
    <3>6. g[s] = f[x] + g[s \ {x}] /\ h[s] = e[x] + h[s \ {x}]
      BY <3>1, <3>2 DEF Summation
    <3> QED
      BY <3>3, <3>5, <3>6
  <2> QED
    BY <2>1
<1> HIDE DEF N
<1>4. N = Nat
  <2>1. N \in SUBSET Nat
    BY DEF N
  <2> QED
    BY <2>1, <1>2, <1>3, NatSetInduction
<1>5. Cardinality(S) \in N
  BY <1>1, <1>4
<1> QED
  BY <1>5 DEF N

-----------------------------------------------------------------------------
(* What a sum over a finite set is *)

\* The sum over a subset is what the recursion over the whole set gives it.
LEMMA SumIs ==
    ASSUME NEW S, NEW T, IsFiniteSet(T), S \subseteq T, NEW f, NEW g,
           \A x \in T : f[x] \in Int, Summation(g, f, T)
    PROVE  SumFunctionOnSet(f, S) = g[S]
<1>1. IsFiniteSet(S) /\ \A x \in S : f[x] \in Int
  BY FS_Subset
<1>2. \E h : Summation(h, f, S)
  BY <1>1, SummationExists
<1>3. PICK h : h = CHOOSE k : Summation(k, f, S)
  OBVIOUS
<1>4. Summation(h, f, S)
  BY <1>2, <1>3
<1>5. SumFunctionOnSet(f, S) = h[S]
  BY <1>3, SumUnfolds
<1>6. h[S] = g[S]
  BY <1>1, <1>4, SummationsAgree
<1> QED
  BY <1>5, <1>6

LEMMA SumEmpty ==
    ASSUME NEW f
    PROVE  SumFunctionOnSet(f, {}) = 0
<1>1. PICK g : Summation(g, f, {})
  <2>1. IsFiniteSet({})
    BY FS_EmptySet
  <2> QED
    BY <2>1, SummationExists
<1>2. g[{}] = 0
  BY <1>1 DEF Summation
<1> QED
  BY <1>1, <1>2, FS_EmptySet, SumIs

LEMMA SumInt ==
    ASSUME NEW S, IsFiniteSet(S), NEW f, \A x \in S : f[x] \in Int
    PROVE  SumFunctionOnSet(f, S) \in Int
<1>1. PICK g \in [SUBSET S -> Int] : Summation(g, f, S)
  BY SummationExists
<1>2. SumFunctionOnSet(f, S) = g[S]
  BY <1>1, SumIs
<1> QED
  BY <1>2

\* Only the values on the set count.
LEMMA SumSame ==
    ASSUME NEW S, IsFiniteSet(S), NEW f, NEW e,
           \A x \in S : f[x] \in Int, \A x \in S : e[x] = f[x]
    PROVE  SumFunctionOnSet(e, S) = SumFunctionOnSet(f, S)
<1>1. PICK g : Summation(g, f, S)
  BY SummationExists
<1>2. PICK h : Summation(h, e, S)
  BY SummationExists
<1>3. g[S] = h[S]
  BY <1>1, <1>2, SummationsAgree
<1>4. SumFunctionOnSet(f, S) = g[S]
  BY <1>1, SumIs
<1>5. SumFunctionOnSet(e, S) = h[S]
  BY <1>2, SumIs
<1> QED
  BY <1>3, <1>4, <1>5

\* Any element may be taken first.
LEMMA SumRemove ==
    ASSUME NEW S, IsFiniteSet(S), NEW f, \A x \in S : f[x] \in Int, NEW y \in S
    PROVE  SumFunctionOnSet(f, S) = f[y] + SumFunctionOnSet(f, S \ {y})
<1>1. PICK g \in [SUBSET S -> Int] : Summation(g, f, S)
  BY SummationExists
<1> DEFINE N == {n \in Nat : \A s \in SUBSET S : Cardinality(s) = n =>
                    \A x \in s : g[s] = f[x] + g[s \ {x}]}
<1>2. \A s \in SUBSET S : IsFiniteSet(s) /\ Cardinality(s) \in Nat
  BY FS_Subset, FS_CardinalityType
<1>3. 0 \in N
  <2>1. \A s \in SUBSET S : Cardinality(s) = 0 => s = {}
    BY <1>2, FS_EmptySet
  <2> QED
    BY <2>1
<1>4. ASSUME NEW n \in N PROVE n + 1 \in N
  <2>1. ASSUME NEW s \in SUBSET S, Cardinality(s) = n + 1, NEW x \in s
        PROVE  g[s] = f[x] + g[s \ {x}]
    <3>1. PICK z : z = First(s)
      OBVIOUS
    <3>2. z \in s
      BY <3>1, FirstIsIn
    <3>3. g[s] = f[z] + g[s \ {z}]
      BY <1>1, <3>1 DEF Summation
    <3>4. CASE x = z
      BY <3>3, <3>4
    <3>5. CASE x # z
      <4>1. n \in Nat /\ Cardinality(s \ {z}) = n /\ Cardinality(s \ {x}) = n
        <5>1. n \in Nat /\ IsFiniteSet(s) /\ (n + 1) - 1 = n
          BY <1>2
        <5>2. /\ Cardinality(s \ {z}) = Cardinality(s) - 1
              /\ Cardinality(s \ {x}) = Cardinality(s) - 1
          BY <3>2, <5>1, FS_RemoveElement
        <5> QED
          BY <2>1, <5>1, <5>2
      <4>2. /\ s \ {z} \in SUBSET S /\ x \in s \ {z}
            /\ s \ {x} \in SUBSET S /\ z \in s \ {x}
        BY <3>2, <3>5
      <4>3. g[s \ {z}] = f[x] + g[(s \ {z}) \ {x}]
        BY <4>1, <4>2
      <4>4. g[s \ {x}] = f[z] + g[(s \ {x}) \ {z}]
        BY <4>1, <4>2
      <4>5. (s \ {z}) \ {x} = (s \ {x}) \ {z} /\ (s \ {x}) \ {z} \in SUBSET S
        OBVIOUS
      <4>6. /\ f[x] \in Int /\ f[z] \in Int
            /\ g[(s \ {x}) \ {z}] \in Int
        BY <3>2, <4>5
      <4>7. \A a, b, m \in Int : a + (b + m) = b + (a + m)
        OBVIOUS
      <4>8. f[z] + (f[x] + g[(s \ {x}) \ {z}]) = f[x] + (f[z] + g[(s \ {x}) \ {z}])
        BY ONLY <4>6, <4>7, Zenon
      <4> QED
        BY ONLY <3>3, <4>3, <4>4, <4>5, <4>8, Zenon
    <3> QED
      BY <3>4, <3>5
  <2>2. n + 1 \in Nat
    OBVIOUS
  <2> QED
    BY <2>1, <2>2
<1> HIDE DEF N
<1>5. N = Nat
  <2>1. N \in SUBSET Nat
    BY DEF N
  <2> QED
    BY <2>1, <1>3, <1>4, NatSetInduction
<1>6. Cardinality(S) \in N
  BY <1>2, <1>5
<1>7. g[S] = f[y] + g[S \ {y}]
  BY <1>6 DEF N
<1>8. SumFunctionOnSet(f, S) = g[S]
  BY <1>1, SumIs
<1>9. SumFunctionOnSet(f, S \ {y}) = g[S \ {y}]
  BY <1>1, SumIs
<1> QED
  BY <1>7, <1>8, <1>9

\* One element more.
LEMMA SumAdd ==
    ASSUME NEW S, IsFiniteSet(S), NEW y, y \notin S,
           NEW f, \A x \in S \cup {y} : f[x] \in Int
    PROVE  SumFunctionOnSet(f, S \cup {y}) = f[y] + SumFunctionOnSet(f, S)
<1>1. IsFiniteSet(S \cup {y}) /\ y \in S \cup {y}
  BY FS_AddElement
<1>2. (S \cup {y}) \ {y} = S
  OBVIOUS
<1>3. SumFunctionOnSet(f, S \cup {y}) = f[y] + SumFunctionOnSet(f, (S \cup {y}) \ {y})
  BY <1>1, SumRemove
<1> QED
  BY <1>2, <1>3

\* The sum of what is nowhere negative.
LEMMA SumNat ==
    ASSUME NEW S, IsFiniteSet(S), NEW f, \A x \in S : f[x] \in Nat
    PROVE  SumFunctionOnSet(f, S) \in Nat
<1> DEFINE B == {T \in SUBSET S : SumFunctionOnSet(f, T) \in Nat}
<1>1. {} \in B
  BY SumEmpty
<1>2. ASSUME NEW T \in SUBSET S, NEW x \in S \ T, T \in B PROVE T \cup {x} \in B
  <2>1. IsFiniteSet(T) /\ \A z \in T \cup {x} : f[z] \in Int
    BY FS_Subset
  <2>2. SumFunctionOnSet(f, T \cup {x}) = f[x] + SumFunctionOnSet(f, T)
    BY <2>1, SumAdd
  <2>3. f[x] \in Nat /\ SumFunctionOnSet(f, T) \in Nat
    BY <1>2
  <2>4. f[x] + SumFunctionOnSet(f, T) \in Nat
    BY <2>3
  <2> QED
    BY <2>2, <2>4
<1> HIDE DEF B
<1>3. S \in B
  BY <1>1, <1>2, SubsetInduction
<1> QED
  BY <1>3 DEF B

\* The sum of pointwise sums.
LEMMA SumPlus ==
    ASSUME NEW S, IsFiniteSet(S), NEW f, NEW g, NEW h,
           \A x \in S : f[x] \in Int /\ g[x] \in Int /\ h[x] = f[x] + g[x]
    PROVE  SumFunctionOnSet(h, S) = SumFunctionOnSet(f, S) + SumFunctionOnSet(g, S)
<1> DEFINE B == {T \in SUBSET S :
                   SumFunctionOnSet(h, T) = SumFunctionOnSet(f, T) + SumFunctionOnSet(g, T)}
<1>1. {} \in B
  BY SumEmpty
<1>2. ASSUME NEW T \in SUBSET S, NEW x \in S \ T, T \in B PROVE T \cup {x} \in B
  <2>1. /\ IsFiniteSet(T)
        /\ \A z \in T \cup {x} : f[z] \in Int /\ g[z] \in Int /\ h[z] \in Int
    BY FS_Subset
  <2>2. /\ SumFunctionOnSet(f, T \cup {x}) = f[x] + SumFunctionOnSet(f, T)
        /\ SumFunctionOnSet(g, T \cup {x}) = g[x] + SumFunctionOnSet(g, T)
        /\ SumFunctionOnSet(h, T \cup {x}) = h[x] + SumFunctionOnSet(h, T)
    BY <2>1, SumAdd
  <2>3. /\ SumFunctionOnSet(f, T) \in Int /\ SumFunctionOnSet(g, T) \in Int
        /\ f[x] \in Int /\ g[x] \in Int /\ h[x] = f[x] + g[x]
    BY <2>1, SumInt
  <2>4. SumFunctionOnSet(h, T) = SumFunctionOnSet(f, T) + SumFunctionOnSet(g, T)
    BY <1>2
  <2>5. SumFunctionOnSet(h, T \cup {x})
          = SumFunctionOnSet(f, T \cup {x}) + SumFunctionOnSet(g, T \cup {x})
    BY ONLY <2>2, <2>3, <2>4
  <2> QED
    BY <2>5
<1> HIDE DEF B
<1>3. S \in B
  BY <1>1, <1>2, SubsetInduction
<1> QED
  BY <1>3 DEF B

LEMMA SumZero ==
    ASSUME NEW S, IsFiniteSet(S), NEW f, \A x \in S : f[x] = 0
    PROVE  SumFunctionOnSet(f, S) = 0
<1>1. \A x \in S : f[x] \in Int /\ f[x] = f[x] + f[x]
  OBVIOUS
<1>2. SumFunctionOnSet(f, S) = SumFunctionOnSet(f, S) + SumFunctionOnSet(f, S)
  BY <1>1, SumPlus
<1>3. SumFunctionOnSet(f, S) \in Int
  BY <1>1, SumInt
<1>4. \A n \in Int : n = n + n => n = 0
  OBVIOUS
<1> QED
  BY <1>2, <1>3, <1>4, Zenon

\* A sum in which one summand changed.
LEMMA SumChange ==
    ASSUME NEW S, IsFiniteSet(S), NEW f, NEW g, NEW y \in S,
           \A x \in S : f[x] \in Int /\ g[x] \in Int,
           \A x \in S : x # y => g[x] = f[x]
    PROVE  SumFunctionOnSet(g, S) = SumFunctionOnSet(f, S) + (g[y] - f[y])
<1>1. IsFiniteSet(S \ {y})
  BY FS_RemoveElement
<1>2. SumFunctionOnSet(g, S \ {y}) = SumFunctionOnSet(f, S \ {y})
  BY <1>1, SumSame
<1>3. /\ SumFunctionOnSet(f, S) = f[y] + SumFunctionOnSet(f, S \ {y})
      /\ SumFunctionOnSet(g, S) = g[y] + SumFunctionOnSet(g, S \ {y})
  BY SumRemove
<1>4. SumFunctionOnSet(f, S \ {y}) \in Int /\ f[y] \in Int /\ g[y] \in Int
  BY <1>1, SumInt
<1> QED
  BY <1>2, <1>3, <1>4

\* A sum over two parts.
LEMMA SumUnion ==
    ASSUME NEW S, IsFiniteSet(S), NEW R, IsFiniteSet(R), S \cap R = {},
           NEW f, \A x \in S \cup R : f[x] \in Int
    PROVE  SumFunctionOnSet(f, S \cup R) = SumFunctionOnSet(f, S) + SumFunctionOnSet(f, R)
<1> DEFINE B == {T \in SUBSET R : SumFunctionOnSet(f, S \cup T)
                                     = SumFunctionOnSet(f, S) + SumFunctionOnSet(f, T)}
<1>0. SumFunctionOnSet(f, S) \in Int
  BY SumInt
<1>1. {} \in B
  <2>1. SumFunctionOnSet(f, {}) = 0 /\ S \cup {} = S
    BY SumEmpty
  <2> QED
    BY <1>0, <2>1
<1>2. ASSUME NEW T \in SUBSET R, NEW x \in R \ T, T \in B PROVE T \cup {x} \in B
  <2>1. IsFiniteSet(T) /\ IsFiniteSet(S \cup T)
    BY FS_Subset, FS_Union
  <2>2. /\ x \notin S \cup T /\ (S \cup T) \cup {x} = S \cup (T \cup {x})
        /\ \A z \in (S \cup T) \cup {x} : f[z] \in Int
    OBVIOUS
  <2>3. SumFunctionOnSet(f, (S \cup T) \cup {x}) = f[x] + SumFunctionOnSet(f, S \cup T)
    BY ONLY <2>1, <2>2, SumAdd
  <2>4. SumFunctionOnSet(f, T \cup {x}) = f[x] + SumFunctionOnSet(f, T)
    BY <2>1, SumAdd
  <2>5. SumFunctionOnSet(f, T) \in Int /\ f[x] \in Int
    BY <2>1, SumInt
  <2>6. SumFunctionOnSet(f, S \cup T) = SumFunctionOnSet(f, S) + SumFunctionOnSet(f, T)
    BY <1>2
  <2>7. \A a, b, m \in Int : m + (a + b) = a + (m + b)
    OBVIOUS
  <2>8. f[x] + (SumFunctionOnSet(f, S) + SumFunctionOnSet(f, T))
          = SumFunctionOnSet(f, S) + (f[x] + SumFunctionOnSet(f, T))
    BY ONLY <1>0, <2>5, <2>7, Zenon
  <2>9. SumFunctionOnSet(f, (S \cup T) \cup {x})
          = SumFunctionOnSet(f, S) + SumFunctionOnSet(f, T \cup {x})
    BY ONLY <2>3, <2>4, <2>6, <2>8, Zenon
  <2> QED
    BY <2>2, <2>9
<1> HIDE DEF B
<1>3. R \in B
  BY <1>1, <1>2, SubsetInduction
<1> QED
  BY <1>3 DEF B

\* A larger summand makes no smaller sum.
LEMMA SumMonotonic ==
    ASSUME NEW S, IsFiniteSet(S), NEW f, NEW g,
           \A x \in S : f[x] \in Int /\ g[x] \in Int /\ f[x] <= g[x]
    PROVE  SumFunctionOnSet(f, S) <= SumFunctionOnSet(g, S)
<1>1. PICK d : d = [x \in S |-> g[x] - f[x]]
  OBVIOUS
<1>2. \A x \in S : d[x] \in Nat /\ d[x] \in Int /\ g[x] = f[x] + d[x]
  BY <1>1
<1>3. SumFunctionOnSet(g, S) = SumFunctionOnSet(f, S) + SumFunctionOnSet(d, S)
  BY <1>2, SumPlus
<1>4. SumFunctionOnSet(d, S) \in Nat /\ SumFunctionOnSet(f, S) \in Int
  BY <1>2, SumNat, SumInt
<1> QED
  BY <1>3, <1>4

-----------------------------------------------------------------------------
(* The same of SumFunction, which sums a function over its whole domain *)

\* A finite function to integers.
Summable(f) == IsFiniteSet(DOMAIN f) /\ \A x \in DOMAIN f : f[x] \in Int

LEMMA FunctionSumInt ==
    ASSUME NEW f, Summable(f)
    PROVE  SumFunction(f) \in Int
BY SumInt DEF SumFunction, Summable

LEMMA FunctionSumNat ==
    ASSUME NEW f, Summable(f), \A x \in DOMAIN f : f[x] \in Nat
    PROVE  SumFunction(f) \in Nat
BY SumNat DEF SumFunction, Summable

LEMMA FunctionSumEmpty ==
    ASSUME NEW f, DOMAIN f = {}
    PROVE  SumFunction(f) = 0
BY SumEmpty DEF SumFunction

LEMMA FunctionSumZero ==
    ASSUME NEW f, IsFiniteSet(DOMAIN f), \A x \in DOMAIN f : f[x] = 0
    PROVE  SumFunction(f) = 0
BY SumZero DEF SumFunction

\* Pointwise sums.
LEMMA FunctionSumPlus ==
    ASSUME NEW f, NEW g, NEW h, Summable(f), Summable(g),
           DOMAIN g = DOMAIN f, DOMAIN h = DOMAIN f,
           \A x \in DOMAIN f : h[x] = f[x] + g[x]
    PROVE  SumFunction(h) = SumFunction(f) + SumFunction(g)
BY SumPlus DEF SumFunction, Summable

\* A function with one more value.
LEMMA FunctionSumAdd ==
    ASSUME NEW f, NEW g, Summable(f), NEW y, y \notin DOMAIN f,
           DOMAIN g = DOMAIN f \cup {y}, g[y] \in Int,
           \A x \in DOMAIN f : g[x] = f[x]
    PROVE  SumFunction(g) = SumFunction(f) + g[y]
<1>1. PICK S : S = DOMAIN f
  OBVIOUS
<1>2. IsFiniteSet(S) /\ \A x \in S : f[x] \in Int /\ g[x] = f[x]
  BY <1>1 DEF Summable
<1>3. y \notin S /\ \A x \in S \cup {y} : g[x] \in Int
  BY <1>1, <1>2
<1>4. SumFunctionOnSet(g, S \cup {y}) = g[y] + SumFunctionOnSet(g, S)
  BY <1>2, <1>3, SumAdd
<1>5. SumFunctionOnSet(g, S) = SumFunctionOnSet(f, S)
  BY <1>2, SumSame
<1>6. SumFunctionOnSet(f, S) \in Int
  BY <1>2, SumInt
<1>7. \A n \in Int : g[y] + n = n + g[y]
  OBVIOUS
<1>8. /\ SumFunction(g) = SumFunctionOnSet(g, S \cup {y})
      /\ SumFunction(f) = SumFunctionOnSet(f, S)
  BY <1>1 DEF SumFunction
<1> QED
  BY <1>4, <1>5, <1>6, <1>7, <1>8, Zenon

\* A function with one value changed.
LEMMA FunctionSumChange ==
    ASSUME NEW f, NEW g, Summable(f), DOMAIN g = DOMAIN f,
           NEW y \in DOMAIN f, g[y] \in Int,
           \A x \in DOMAIN f : x # y => g[x] = f[x]
    PROVE  SumFunction(g) = SumFunction(f) + (g[y] - f[y])
<1>1. \A x \in DOMAIN f : f[x] \in Int /\ g[x] \in Int
  BY DEF Summable
<1>2. SumFunctionOnSet(g, DOMAIN f) = SumFunctionOnSet(f, DOMAIN f) + (g[y] - f[y])
  BY <1>1, SumChange DEF Summable
<1> QED
  BY <1>2 DEF SumFunction

\* A function made of two with no index in common.
LEMMA FunctionSumUnion ==
    ASSUME NEW f, NEW g, NEW h, Summable(f), Summable(g),
           DOMAIN f \cap DOMAIN g = {}, DOMAIN h = DOMAIN f \cup DOMAIN g,
           \A x \in DOMAIN f : h[x] = f[x], \A x \in DOMAIN g : h[x] = g[x]
    PROVE  SumFunction(h) = SumFunction(f) + SumFunction(g)
<1>1. PICK S : S = DOMAIN f
  OBVIOUS
<1>2. PICK R : R = DOMAIN g
  OBVIOUS
<1>3. /\ IsFiniteSet(S) /\ IsFiniteSet(R) /\ S \cap R = {}
      /\ \A x \in S : f[x] \in Int /\ h[x] = f[x]
      /\ \A x \in R : g[x] \in Int /\ h[x] = g[x]
  BY <1>1, <1>2 DEF Summable
<1>4. \A x \in S \cup R : h[x] \in Int
  BY <1>3
<1>5. SumFunctionOnSet(h, S \cup R) = SumFunctionOnSet(h, S) + SumFunctionOnSet(h, R)
  BY ONLY <1>3, <1>4, SumUnion
<1>6. /\ SumFunctionOnSet(h, S) = SumFunctionOnSet(f, S)
      /\ SumFunctionOnSet(h, R) = SumFunctionOnSet(g, R)
  BY ONLY <1>3, SumSame
<1> QED
  BY <1>1, <1>2, <1>5, <1>6 DEF SumFunction

\* Part of what is nowhere negative is not more than all of it.
LEMMA FunctionSumPart ==
    ASSUME NEW f, NEW h, Summable(h), DOMAIN f \subseteq DOMAIN h,
           \A x \in DOMAIN h : h[x] \in Nat, \A x \in DOMAIN f : f[x] = h[x]
    PROVE  SumFunction(f) <= SumFunction(h)
<1>1. PICK g : g = [x \in DOMAIN h \ DOMAIN f |-> h[x]]
  OBVIOUS
<1>2. IsFiniteSet(DOMAIN f) /\ IsFiniteSet(DOMAIN g)
  BY <1>1, FS_Subset DEF Summable
<1>3. /\ \A x \in DOMAIN f : f[x] \in Nat /\ f[x] \in Int /\ h[x] = f[x]
      /\ \A x \in DOMAIN g : g[x] \in Nat /\ g[x] \in Int /\ h[x] = g[x]
  BY <1>1
<1>4. DOMAIN f \cap DOMAIN g = {} /\ DOMAIN h = DOMAIN f \cup DOMAIN g
  BY <1>1
<1>5. Summable(f) /\ Summable(g)
  BY <1>2, <1>3 DEF Summable
<1>6. SumFunction(h) = SumFunction(f) + SumFunction(g)
  BY ONLY <1>3, <1>4, <1>5, FunctionSumUnion
<1>7. SumFunction(f) \in Nat /\ SumFunction(g) \in Nat
  BY ONLY <1>3, <1>5, FunctionSumNat
<1> QED
  BY <1>6, <1>7

\* Values of zero may be left out.
LEMMA FunctionSumPad ==
    ASSUME NEW f, NEW h, Summable(h), DOMAIN f \subseteq DOMAIN h,
           \A x \in DOMAIN f : f[x] = h[x], \A x \in DOMAIN h \ DOMAIN f : h[x] = 0
    PROVE  SumFunction(f) = SumFunction(h)
<1>1. PICK g : g = [x \in DOMAIN h \ DOMAIN f |-> 0]
  OBVIOUS
<1>2. IsFiniteSet(DOMAIN f) /\ IsFiniteSet(DOMAIN g)
  BY <1>1, FS_Subset DEF Summable
<1>3. /\ \A x \in DOMAIN f : f[x] \in Int /\ h[x] = f[x]
      /\ \A x \in DOMAIN g : g[x] = 0 /\ g[x] \in Int /\ h[x] = g[x]
  BY <1>1 DEF Summable
<1>4. DOMAIN f \cap DOMAIN g = {} /\ DOMAIN h = DOMAIN f \cup DOMAIN g
  BY <1>1
<1>5. Summable(f) /\ Summable(g)
  BY <1>2, <1>3 DEF Summable
<1>6. SumFunction(h) = SumFunction(f) + SumFunction(g)
  BY ONLY <1>3, <1>4, <1>5, FunctionSumUnion
<1>7. SumFunction(f) \in Int /\ SumFunction(g) = 0
  BY ONLY <1>2, <1>3, <1>5, FunctionSumInt, FunctionSumZero
<1> QED
  BY <1>6, <1>7
=============================================================================
