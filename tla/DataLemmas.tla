------------------------------ MODULE DataLemmas ------------------------------
(***************************************************************************)
(* Facts about SumFunctionOnSet, the fold in which the models write the    *)
(* byte counts of the code: the sum of f over a finite set exists, does    *)
(* not depend on the order in which the fold picks, splits at any element, *)
(* and is monotone.  And what proofs about prefixes need: induction up to  *)
(* a number, functions defined by it, and the prefixes of a sequence.      *)
(* Induction is by a minimal counterexample, which exists because strict   *)
(* inclusion of finite sets is well founded.                               *)
(***************************************************************************)
EXTENDS Integers, Sequences, Functions, FiniteSetsExt, FiniteSetTheorems,
        WellFoundedInduction, TLAPS

Picked(s) == CHOOSE x \in s : TRUE

\* g is the function the fold computes sums over subsets of S with.
Folds(f, S, g) ==
    g = [s \in SUBSET S |-> IF s = {} THEN 0 ELSE f[Picked(s)] + g[s \ {Picked(s)}]]

\* f counts something of every element of S.
Counts(f, S) == \A x \in S : f[x] \in Nat

\* Among the subsets of a finite set, every nonempty collection has a member
\* none of whose proper subsets is in it.
LEMMA MinimalSubset ==
    ASSUME NEW S, IsFiniteSet(S), NEW C \in SUBSET (SUBSET S), C # {}
    PROVE  \E T \in C : \A U \in C : U \subseteq T => U = T
  <1>1. IsWellFoundedOn(StrictSubsetOrdering(S), SUBSET S)
    BY FS_StrictSubsetOrderingWellFounded, FS_FiniteSubsetsOfFinite
  <1>2. PICK T \in C : \A U \in C : ~ (<<U, T>> \in StrictSubsetOrdering(S))
    BY <1>1, WFMin
  <1>3. ASSUME NEW U \in C, U \subseteq T PROVE U = T
    BY <1>2, <1>3 DEF StrictSubsetOrdering
  <1> QED
    BY <1>3

\* The value of a fold at a nonempty subset.
LEMMA FoldStep ==
    ASSUME NEW f, NEW S, NEW g, Folds(f, S, g), NEW s \in SUBSET S
    PROVE  /\ s = {} => g[s] = 0
           /\ s # {} => /\ Picked(s) \in s
                        /\ g[s] = f[Picked(s)] + g[s \ {Picked(s)}]
  <1>1. s # {} => Picked(s) \in s
    BY DEF Picked
  <1>2. g[s] = IF s = {} THEN 0 ELSE f[Picked(s)] + g[s \ {Picked(s)}]
    BY Zenon DEF Folds
  <1> QED
    BY <1>1, <1>2

\* Two folds agree where both are defined.
LEMMA FoldUnique ==
    ASSUME NEW f, NEW S, IsFiniteSet(S), NEW T \in SUBSET S, NEW g, NEW h,
           Folds(f, S, g), Folds(f, T, h)
    PROVE  \A s \in SUBSET T : g[s] = h[s]
  <1> DEFINE C == {s \in SUBSET T : g[s] # h[s]}
  <1>c. C \in SUBSET (SUBSET T)
    OBVIOUS
  <1>1. ASSUME C # {} PROVE FALSE
    <2>1. IsFiniteSet(T)
      BY FS_Subset
    <2>2. PICK s \in C : \A u \in C : u \subseteq s => u = s
      <3> HIDE DEF C
      <3> QED
        BY <1>c, <1>1, <2>1, MinimalSubset
    <2>3. s # {}
      BY FoldStep
    <2>4. Picked(s) \in s
      BY <2>3 DEF Picked
    <2>5. g[s \ {Picked(s)}] = h[s \ {Picked(s)}]
      BY <2>2, <2>4
    <2> QED
      BY <2>3, <2>5, FoldStep
  <1> QED
    BY <1>1

\* Every finite set has its fold.
LEMMA FoldExists ==
    ASSUME NEW f, NEW S, IsFiniteSet(S)
    PROVE  \E g : Folds(f, S, g)
  <1> DEFINE C == {T \in SUBSET S : ~ \E g : Folds(f, T, g)}
  <1>c. C \in SUBSET (SUBSET S)
    OBVIOUS
  <1>1. ASSUME C # {} PROVE FALSE
    <2>1. PICK T \in C : \A U \in C : U \subseteq T => U = T
      <3> HIDE DEF C
      <3> QED
        BY <1>c, <1>1, MinimalSubset
    <2> DEFINE h(U) == CHOOSE g : Folds(f, U, g)
               rest(s) == s \ {Picked(s)}
               G == [s \in SUBSET T |-> IF s = {} THEN 0
                                        ELSE f[Picked(s)] + h(rest(s))[rest(s)]]
    <2>2. ASSUME NEW U \in SUBSET T, U # T PROVE Folds(f, U, h(U))
      BY <2>1, <2>2
    <2> HIDE DEF h
    <2>3. ASSUME NEW s \in SUBSET T, s # {}
          PROVE  G[rest(s)] = h(rest(s))[rest(s)]
      <3> DEFINE r == rest(s)
      <3>1. Picked(s) \in s /\ r \in SUBSET T /\ r # T
        BY <2>3 DEF Picked
      <3>2. Folds(f, r, h(r))
        BY <2>2, <3>1
      <3>3. CASE r = {}
        <4>1. h(r)[r] = 0
          BY <3>2, <3>3, FoldStep
        <4>2. G[r] = 0
          BY <3>1, <3>3
        <4> QED
          BY <4>1, <4>2
      <3>4. CASE r # {}
        <4>1. Picked(r) \in r /\ rest(r) \in SUBSET T /\ rest(r) # T /\ rest(r) \in SUBSET r
          BY <3>1, <3>4 DEF Picked
        <4>2. Folds(f, rest(r), h(rest(r)))
          BY <2>2, <4>1
        <4>3. IsFiniteSet(r)
          BY <3>1, FS_Subset
        <4>4. h(r)[rest(r)] = h(rest(r))[rest(r)]
          <5> DEFINE a == h(r)
                     b == h(rest(r))
                     q == rest(r)
          <5>1. Folds(f, r, a) /\ Folds(f, q, b) /\ q \in SUBSET r /\ IsFiniteSet(r)
            BY <3>2, <4>1, <4>2, <4>3
          <5>2. a[q] = b[q]
            <6> HIDE DEF a, b, q, r
            <6>1. \A u \in SUBSET q : a[u] = b[u]
              BY <5>1, FoldUnique
            <6> QED
              BY <6>1
          <5> QED
            BY <5>2
        <4>5. h(r)[r] = f[Picked(r)] + h(r)[rest(r)]
          <5> DEFINE a == h(r)
          <5>1. Folds(f, r, a) /\ r # {}
            BY <3>2, <3>4
          <5>2. a[r] = f[Picked(r)] + a[r \ {Picked(r)}]
            <6> HIDE DEF a, r
            <6> QED
              BY <5>1, FoldStep
          <5> QED
            BY <5>2
        <4>6. G[r] = f[Picked(r)] + h(rest(r))[rest(r)]
          BY <3>1, <3>4
        <4> QED
          BY <4>4, <4>5, <4>6
      <3> QED
        BY <3>3, <3>4
    <2>4. G = [s \in SUBSET T |-> IF s = {} THEN 0 ELSE f[Picked(s)] + G[rest(s)]]
      BY <2>3
    <2>5. Folds(f, T, G)
      BY <2>4, Zenon DEF Folds
    <2> QED
      BY <2>5
  <1> QED
    BY <1>1

\* The library's sum, read off a fold.
LEMMA SumIsFold ==
    ASSUME NEW f, NEW S, IsFiniteSet(S)
    PROVE  \E g : Folds(f, S, g) /\ SumFunctionOnSet(f, S) = g[S]
  <1>1. SumFunctionOnSet(f, S) = (CHOOSE g : Folds(f, S, g))[S]
    BY Zenon DEF SumFunctionOnSet, FoldFunctionOnSet, MapThenFoldSet, Folds, Picked
  <1> QED
    BY <1>1, FoldExists

\* The empty sum is 0.
LEMMA SumEmpty == ASSUME NEW f PROVE SumFunctionOnSet(f, {}) = 0
  <1>1. IsFiniteSet({})
    BY FS_EmptySet
  <1>2. PICK g : Folds(f, {}, g) /\ SumFunctionOnSet(f, {}) = g[{}]
    BY <1>1, SumIsFold
  <1>3. g[{}] = 0
    BY <1>2, FoldStep
  <1> QED
    BY <1>2, <1>3

\* The sum takes off the element it picks.
LEMMA SumPicked ==
    ASSUME NEW f, NEW S, IsFiniteSet(S), S # {}
    PROVE  /\ Picked(S) \in S
           /\ SumFunctionOnSet(f, S)
                = f[Picked(S)] + SumFunctionOnSet(f, S \ {Picked(S)})
  <1> DEFINE r == S \ {Picked(S)}
  <1>1. PICK g : Folds(f, S, g) /\ SumFunctionOnSet(f, S) = g[S]
    BY SumIsFold
  <1>2. Picked(S) \in S /\ g[S] = f[Picked(S)] + g[r]
    BY <1>1, FoldStep
  <1>3. IsFiniteSet(r)
    BY FS_Subset
  <1>4. PICK h : Folds(f, r, h) /\ SumFunctionOnSet(f, r) = h[r]
    BY <1>3, SumIsFold
  <1>5. g[r] = h[r]
    BY <1>1, <1>4, FoldUnique
  <1> QED
    BY <1>1, <1>2, <1>4, <1>5

\* A sum of counts is a count.
LEMMA SumType ==
    ASSUME NEW f, NEW S, IsFiniteSet(S), Counts(f, S)
    PROVE  SumFunctionOnSet(f, S) \in Nat
  <1> DEFINE C == {T \in SUBSET S : SumFunctionOnSet(f, T) \notin Nat}
  <1>c. C \in SUBSET (SUBSET S)
    OBVIOUS
  <1>1. ASSUME C # {} PROVE FALSE
    <2>1. PICK T \in C : \A U \in C : U \subseteq T => U = T
      <3> HIDE DEF C
      <3> QED
        BY <1>c, <1>1, MinimalSubset
    <2>2. T # {} /\ IsFiniteSet(T)
      <3>1. SumFunctionOnSet(f, {}) \in Nat
        BY SumEmpty
      <3> QED
        BY <3>1, FS_Subset
    <2>3. Picked(T) \in T
          /\ SumFunctionOnSet(f, T) = f[Picked(T)] + SumFunctionOnSet(f, T \ {Picked(T)})
      BY <2>2, SumPicked
    <2>4. SumFunctionOnSet(f, T \ {Picked(T)}) \in Nat
      BY <2>1, <2>3
    <2>5. f[Picked(T)] \in Nat
      BY <2>3 DEF Counts
    <2> QED
      BY <2>3, <2>4, <2>5
  <1> QED
    BY <1>1

\* Whichever element is taken off, the sum is that element's count more: the
\* order in which the fold picks does not matter.
LEMMA SumSplit ==
    ASSUME NEW f, NEW S, IsFiniteSet(S), Counts(f, S), NEW x \in S
    PROVE  SumFunctionOnSet(f, S) = f[x] + SumFunctionOnSet(f, S \ {x})
  <1> DEFINE C == {T \in SUBSET S : \E y \in T :
                      SumFunctionOnSet(f, T) # f[y] + SumFunctionOnSet(f, T \ {y})}
  <1>c. C \in SUBSET (SUBSET S)
    OBVIOUS
  <1>1. ASSUME C # {} PROVE FALSE
    <2>1. PICK T \in C : \A U \in C : U \subseteq T => U = T
      <3> HIDE DEF C
      <3> QED
        BY <1>c, <1>1, MinimalSubset
    <2>2. PICK y \in T : SumFunctionOnSet(f, T) # f[y] + SumFunctionOnSet(f, T \ {y})
      OBVIOUS
    <2> DEFINE c == Picked(T)
    <2>3. IsFiniteSet(T) /\ T # {}
      BY <2>2, FS_Subset
    <2>4. c \in T /\ SumFunctionOnSet(f, T) = f[c] + SumFunctionOnSet(f, T \ {c})
      BY <2>3, SumPicked
    <2> HIDE DEF c
    <2>5. c # y
      BY <2>2, <2>4
    <2>6. T \ {c} \notin C /\ T \ {y} \notin C
      BY <2>1, <2>2, <2>4
    <2>7. SumFunctionOnSet(f, T \ {c}) = f[y] + SumFunctionOnSet(f, (T \ {c}) \ {y})
      BY <2>5, <2>6
    <2>8. SumFunctionOnSet(f, T \ {y}) = f[c] + SumFunctionOnSet(f, (T \ {y}) \ {c})
      BY <2>4, <2>5, <2>6
    <2>9. (T \ {c}) \ {y} = (T \ {y}) \ {c}
      OBVIOUS
    <2>10. SumFunctionOnSet(f, (T \ {y}) \ {c}) \in Nat /\ f[y] \in Nat /\ f[c] \in Nat
      <3>1. IsFiniteSet((T \ {y}) \ {c}) /\ Counts(f, (T \ {y}) \ {c})
        BY <2>3, FS_Subset DEF Counts
      <3> QED
        BY <3>1, SumType, <2>4 DEF Counts
    <2>11. SumFunctionOnSet(f, T) = f[c] + (f[y] + SumFunctionOnSet(f, (T \ {y}) \ {c}))
      BY <2>4, <2>7, <2>9
    <2>12. f[y] + SumFunctionOnSet(f, T \ {y})
             = f[y] + (f[c] + SumFunctionOnSet(f, (T \ {y}) \ {c}))
      BY <2>8
    <2>13. \A a, b, d \in Nat : a + (b + d) = b + (a + d)
      OBVIOUS
    <2>14. SumFunctionOnSet(f, T) = f[y] + SumFunctionOnSet(f, T \ {y})
      BY <2>10, <2>11, <2>12, <2>13
    <2> QED
      BY <2>2, <2>14
  <1> QED
    BY <1>1

\* Adding an element adds its count.
LEMMA SumAdd ==
    ASSUME NEW f, NEW S, IsFiniteSet(S), NEW x, x \notin S, Counts(f, S \cup {x})
    PROVE  SumFunctionOnSet(f, S \cup {x}) = SumFunctionOnSet(f, S) + f[x]
  <1>1. IsFiniteSet(S \cup {x}) /\ (S \cup {x}) \ {x} = S
    BY FS_AddElement
  <1>2. SumFunctionOnSet(f, S \cup {x}) = f[x] + SumFunctionOnSet(f, S)
    BY <1>1, SumSplit
  <1>3. SumFunctionOnSet(f, S) \in Nat /\ f[x] \in Nat
    BY SumType DEF Counts
  <1> QED
    BY <1>2, <1>3

\* Only the values on the set count.
LEMMA SumSame ==
    ASSUME NEW f, NEW g, NEW S, IsFiniteSet(S), \A x \in S : f[x] = g[x]
    PROVE  SumFunctionOnSet(f, S) = SumFunctionOnSet(g, S)
  <1> DEFINE C == {T \in SUBSET S : SumFunctionOnSet(f, T) # SumFunctionOnSet(g, T)}
  <1>c. C \in SUBSET (SUBSET S)
    OBVIOUS
  <1>1. ASSUME C # {} PROVE FALSE
    <2>1. PICK T \in C : \A U \in C : U \subseteq T => U = T
      <3> HIDE DEF C
      <3> QED
        BY <1>c, <1>1, MinimalSubset
    <2>2. T # {} /\ IsFiniteSet(T)
      BY SumEmpty, FS_Subset
    <2>3. /\ Picked(T) \in T
          /\ SumFunctionOnSet(f, T) = f[Picked(T)] + SumFunctionOnSet(f, T \ {Picked(T)})
          /\ SumFunctionOnSet(g, T) = g[Picked(T)] + SumFunctionOnSet(g, T \ {Picked(T)})
      BY <2>2, SumPicked
    <2>4. SumFunctionOnSet(f, T \ {Picked(T)}) = SumFunctionOnSet(g, T \ {Picked(T)})
      BY <2>1, <2>3
    <2> QED
      BY <2>3, <2>4
  <1> QED
    BY <1>1

\* Nothing sums to nothing.
LEMMA SumZero ==
    ASSUME NEW f, NEW S, IsFiniteSet(S), \A x \in S : f[x] = 0
    PROVE  SumFunctionOnSet(f, S) = 0
  <1> DEFINE C == {T \in SUBSET S : SumFunctionOnSet(f, T) # 0}
  <1>c. C \in SUBSET (SUBSET S)
    OBVIOUS
  <1>1. ASSUME C # {} PROVE FALSE
    <2>1. PICK T \in C : \A U \in C : U \subseteq T => U = T
      <3> HIDE DEF C
      <3> QED
        BY <1>c, <1>1, MinimalSubset
    <2>2. T # {} /\ IsFiniteSet(T)
      BY SumEmpty, FS_Subset
    <2>3. Picked(T) \in T
          /\ SumFunctionOnSet(f, T) = f[Picked(T)] + SumFunctionOnSet(f, T \ {Picked(T)})
      BY <2>2, SumPicked
    <2>4. SumFunctionOnSet(f, T \ {Picked(T)}) = 0 /\ f[Picked(T)] = 0
      BY <2>1, <2>3
    <2> QED
      BY <2>3, <2>4
  <1> QED
    BY <1>1

\* A part sums to no more than the whole.
LEMMA SumMonotone ==
    ASSUME NEW f, NEW S, IsFiniteSet(S), Counts(f, S), NEW T \in SUBSET S
    PROVE  SumFunctionOnSet(f, T) <= SumFunctionOnSet(f, S)
  <1> DEFINE C == {U \in SUBSET S : T \subseteq U /\
                      ~ SumFunctionOnSet(f, T) <= SumFunctionOnSet(f, U)}
  <1>c. C \in SUBSET (SUBSET S)
    OBVIOUS
  <1>1. ASSUME C # {} PROVE FALSE
    <2>1. PICK U \in C : \A V \in C : V \subseteq U => V = U
      <3> HIDE DEF C
      <3> QED
        BY <1>c, <1>1, MinimalSubset
    <2>2. IsFiniteSet(T) /\ IsFiniteSet(U) /\ Counts(f, T) /\ Counts(f, U)
      BY FS_Subset DEF Counts
    <2>3. SumFunctionOnSet(f, T) \in Nat
      BY <2>2, SumType
    <2>4. PICK x \in U : x \notin T
      BY <2>3
    <2>5. SumFunctionOnSet(f, U) = f[x] + SumFunctionOnSet(f, U \ {x})
      BY <2>2, SumSplit
    <2>6. SumFunctionOnSet(f, T) <= SumFunctionOnSet(f, U \ {x})
      BY <2>1, <2>4
    <2>7. SumFunctionOnSet(f, U \ {x}) \in Nat /\ f[x] \in Nat
      <3>1. IsFiniteSet(U \ {x}) /\ Counts(f, U \ {x})
        BY <2>2, FS_Subset DEF Counts
      <3> QED
        BY <3>1, <2>2, SumType DEF Counts
    <2> QED
      BY <2>3, <2>5, <2>6, <2>7
  <1> QED
    BY <1>1

\* Two sets without a common element sum to the sum of both.
LEMMA SumUnion ==
    ASSUME NEW f, NEW S, IsFiniteSet(S), Counts(f, S), NEW T \in SUBSET S
    PROVE  SumFunctionOnSet(f, S)
             = SumFunctionOnSet(f, T) + SumFunctionOnSet(f, S \ T)
  <1> DEFINE C == {U \in SUBSET T :
                     SumFunctionOnSet(f, S \ (T \ U))
                       # SumFunctionOnSet(f, U) + SumFunctionOnSet(f, S \ T)}
  <1>0. IsFiniteSet(T)
    BY FS_Subset
  <1>c. C \in SUBSET (SUBSET T)
    OBVIOUS
  <1>1. ASSUME C # {} PROVE FALSE
    <2>1. PICK U \in C : \A V \in C : V \subseteq U => V = U
      <3> HIDE DEF C
      <3> QED
        BY <1>c, <1>0, <1>1, MinimalSubset
    <2>2. IsFiniteSet(S \ T) /\ Counts(f, S \ T) /\ IsFiniteSet(U) /\ Counts(f, U)
      BY FS_Subset DEF Counts
    <2>3. SumFunctionOnSet(f, S \ T) \in Nat
      BY <2>2, SumType
    <2>4. U # {}
      <3>1. S \ (T \ {}) = S \ T
        OBVIOUS
      <3> QED
        BY <3>1, <2>3, SumEmpty
    <2>5. PICK x \in U : TRUE
      BY <2>4
    <2> DEFINE V == U \ {x}
    <2>6. SumFunctionOnSet(f, S \ (T \ V)) = SumFunctionOnSet(f, V) + SumFunctionOnSet(f, S \ T)
      <3>1. V \subseteq U /\ V # U /\ V \in SUBSET T
        BY <2>5
      <3>2. V \notin C
        BY <2>1, <3>1
      <3> HIDE DEF V
      <3> QED
        BY <3>1, <3>2
    <2>7. IsFiniteSet(S \ (T \ U)) /\ Counts(f, S \ (T \ U)) /\ x \in S \ (T \ U)
          /\ (S \ (T \ U)) \ {x} = S \ (T \ V)
      BY <2>5, FS_Subset DEF Counts
    <2>8. SumFunctionOnSet(f, S \ (T \ U)) = f[x] + SumFunctionOnSet(f, S \ (T \ V))
      <3> DEFINE W == S \ (T \ U)
      <3>1. SumFunctionOnSet(f, W) = f[x] + SumFunctionOnSet(f, W \ {x})
        <4> HIDE DEF W
        <4> QED
          BY <2>7, SumSplit DEF W
      <3> QED
        BY <3>1, <2>7
    <2>9. SumFunctionOnSet(f, U) = f[x] + SumFunctionOnSet(f, V)
      BY <2>2, SumSplit
    <2>10. SumFunctionOnSet(f, V) \in Nat /\ f[x] \in Nat
      <3>1. IsFiniteSet(V) /\ Counts(f, V)
        BY <2>2, FS_Subset DEF Counts
      <3> QED
        BY <3>1, <2>2, SumType DEF Counts
    <2> QED
      BY <2>3, <2>6, <2>8, <2>9, <2>10
  <1>2. S \ (T \ T) = S
    OBVIOUS
  <1> QED
    BY <1>1, <1>2

-----------------------------------------------------------------------------
(* Least and greatest                                                       *)

\* A nonempty finite set of integers has a greatest element, and Max is it.
LEMMA MaxExists ==
    ASSUME NEW S, IsFiniteSet(S), S # {}, \A x \in S : x \in Int
    PROVE  Max(S) \in S /\ \A y \in S : Max(S) >= y
  <1> DEFINE From(x) == {y \in S : y >= x}
             C == {From(x) : x \in S}
  <1>1. C # {}
    OBVIOUS
  <1>c. C \in SUBSET (SUBSET S)
    OBVIOUS
  <1>2. PICK T \in C : \A U \in C : U \subseteq T => U = T
    <2> HIDE DEF C
    <2> QED
      BY <1>c, <1>1, MinimalSubset
  <1>3. PICK m \in S : T = From(m)
    OBVIOUS
  <1>4. \A y \in S : m >= y
    <2> SUFFICES ASSUME NEW y \in S, y > m PROVE FALSE
      OBVIOUS
    <2>1. \A z \in S : z >= y => z >= m
      OBVIOUS
    <2>2. m \in From(m) /\ m \notin From(y)
      OBVIOUS
    <2>3. From(y) \subseteq From(m) /\ From(y) \in C
      BY <2>1
    <2> HIDE DEF C
    <2> QED
      BY <1>2, <1>3, <2>2, <2>3
  <1> QED
    BY <1>4 DEF Max

\* Max and Min of two integers.
LEMMA MaxOfTwo ==
    ASSUME NEW x \in Int, NEW y \in Int
    PROVE  Max({x, y}) = IF x >= y THEN x ELSE y
  <1>1. \E m \in {x, y} : \A z \in {x, y} : m >= z
    OBVIOUS
  <1>2. Max({x, y}) \in {x, y} /\ \A z \in {x, y} : Max({x, y}) >= z
    BY <1>1 DEF Max
  <1> QED
    BY <1>2

LEMMA MinOfTwo ==
    ASSUME NEW x \in Int, NEW y \in Int
    PROVE  Min({x, y}) = IF x <= y THEN x ELSE y
  <1>1. \E m \in {x, y} : \A z \in {x, y} : m <= z
    OBVIOUS
  <1>2. Min({x, y}) \in {x, y} /\ \A z \in {x, y} : Min({x, y}) <= z
    BY <1>1 DEF Min
  <1> QED
    BY <1>2

\* A finite nonempty set of integers has a least element.
LEMMA MinExists ==
    ASSUME NEW S, IsFiniteSet(S), S # {}, \A x \in S : x \in Int
    PROVE  Min(S) \in S /\ \A y \in S : Min(S) <= y
  <1> DEFINE From(x) == {y \in S : y <= x}
             C == {From(x) : x \in S}
  <1>1. C # {}
    OBVIOUS
  <1>c. C \in SUBSET (SUBSET S)
    OBVIOUS
  <1>2. PICK T \in C : \A U \in C : U \subseteq T => U = T
    <2> HIDE DEF C
    <2> QED
      BY <1>c, <1>1, MinimalSubset
  <1>3. PICK m \in S : T = From(m)
    OBVIOUS
  <1>4. \A y \in S : m <= y
    <2> SUFFICES ASSUME NEW y \in S, y < m PROVE FALSE
      OBVIOUS
    <2>1. \A z \in S : z <= y => z <= m
      OBVIOUS
    <2>2. m \in From(m) /\ m \notin From(y)
      OBVIOUS
    <2>3. From(y) \subseteq From(m) /\ From(y) \in C
      BY <2>1
    <2> HIDE DEF C
    <2> QED
      BY <1>2, <1>3, <2>2, <2>3
  <1> QED
    BY <1>4 DEF Min

-----------------------------------------------------------------------------
(* Numbers up to n, and prefixes of sequences                               *)

\* What holds at 0 and of every successor up to n holds up to n.
LEMMA Reaches ==
    ASSUME NEW n \in Nat, NEW S, 0 \in S, \A k \in 0..(n - 1) : k \in S => k + 1 \in S
    PROVE  \A k \in 0..n : k \in S
  <1> DEFINE C == {T \in SUBSET (0..n) : \E j \in 0..n : T = 0..j /\ j \notin S}
  <1>c. C \in SUBSET (SUBSET (0..n))
    OBVIOUS
  <1>1. SUFFICES ASSUME NEW k \in 0..n, k \notin S PROVE FALSE
    OBVIOUS
  <1>2. C # {}
    <2>1. 0..k \in C
      BY <1>1
    <2> QED
      BY <2>1
  <1>f. IsFiniteSet(0..n)
    BY FS_Interval
  <1>3. PICK T \in C : \A U \in C : U \subseteq T => U = T
    <2> DEFINE I == 0..n
    <2>1. IsFiniteSet(I) /\ C \in SUBSET (SUBSET I)
      BY <1>c, <1>f
    <2> HIDE DEF C, I
    <2> QED
      BY <1>2, <2>1, MinimalSubset
  <1>4. PICK j \in 0..n : T = 0..j /\ j \notin S
    OBVIOUS
  <1>5. j - 1 \in 0..n /\ j - 1 \notin S
    <2>1. j # 0
      BY <1>4
    <2>2. j - 1 \in 0..(n - 1) /\ (j - 1) + 1 = j
      BY <2>1
    <2> QED
      BY <1>4, <2>2
  <1>6. 0..(j - 1) \in C
    BY <1>5
  <1>7. 0..(j - 1) \subseteq 0..j /\ j \in 0..j /\ j \notin 0..(j - 1)
    OBVIOUS
  <1> QED
    BY <1>3, <1>4, <1>6, <1>7

\* A function takes finitely many values on a finite set.
LEMMA ImageIsFinite ==
    ASSUME NEW S, NEW f, f = [x \in S |-> f[x]], IsFiniteSet(S)
    PROVE  IsFiniteSet({f[x] : x \in S})
  <1> DEFINE T == {f[x] : x \in S}
  <1>1. f \in [S -> T] /\ \A y \in T : \E x \in S : f[x] = y
    OBVIOUS
  <1> HIDE DEF T
  <1>2. f \in Surjection(S, T)
    BY <1>1 DEF Surjection
  <1>3. IsFiniteSet(T)
    BY <1>2, FS_Surjection
  <1> QED
    BY <1>3 DEF T

\* h holds the values G gives from a, step j from the one before it.
Iterated(h, a, G, k) == h[0] = a /\ \A j \in 1..k : h[j] = G[<<j, h[j - 1]>>]

\* A function of the step and the value before can be iterated k times.
LEMMA Iterates ==
    ASSUME NEW T, NEW a \in T, NEW G \in [Nat \X T -> T], NEW k \in Nat
    PROVE  \E h \in [0..k -> T] : Iterated(h, a, G, k)
  <1> DEFINE S == {m \in 0..k : \E h \in [0..m -> T] : Iterated(h, a, G, m)}
  <1>1. 0 \in S
    <2> DEFINE h == [j \in 0..0 |-> a]
    <2>1. h \in [0..0 -> T] /\ Iterated(h, a, G, 0) /\ 0 \in 0..k
      BY DEF Iterated
    <2> HIDE DEF h
    <2> QED
      BY <2>1
  <1>2. ASSUME NEW m \in 0..(k - 1), m \in S PROVE m + 1 \in S
    <2>1. PICK h \in [0..m -> T] : Iterated(h, a, G, m)
      BY <1>2
    <2> DEFINE g == [j \in 0..(m + 1) |-> IF j = m + 1 THEN G[<<m + 1, h[m]>>] ELSE h[j]]
    <2>2. h[m] \in T /\ G[<<m + 1, h[m]>>] \in T
      OBVIOUS
    <2>3. g \in [0..(m + 1) -> T]
      BY <2>2
    <2>4. g[0] = a
      BY <2>1 DEF Iterated
    <2>5. ASSUME NEW j \in 1..(m + 1) PROVE g[j] = G[<<j, g[j - 1]>>]
      <3>1. CASE j = m + 1
        <4>1. j - 1 = m /\ m \in 0..(m + 1) /\ m # m + 1
          BY <3>1
        <4>2. g[j] = G[<<j, h[m]>>] /\ g[m] = h[m]
          BY <3>1, <4>1
        <4> HIDE DEF g
        <4> QED
          BY <4>1, <4>2
      <3>2. CASE j # m + 1
        <4>1. j \in 1..m /\ j - 1 \in 0..m /\ j - 1 # m + 1 /\ j - 1 \in 0..(m + 1)
          BY <3>2
        <4>2. h[j] = G[<<j, h[j - 1]>>]
          BY <2>1, <4>1 DEF Iterated
        <4> QED
          BY <3>2, <4>1, <4>2
      <3> QED
        BY <3>1, <3>2
    <2>6. m + 1 \in 0..k
      OBVIOUS
    <2> HIDE DEF g
    <2>7. Iterated(g, a, G, m + 1)
      BY <2>4, <2>5 DEF Iterated
    <2> QED
      BY <2>3, <2>6, <2>7
  <1> HIDE DEF S
  <1>3. k \in S
    BY <1>1, <1>2, Reaches
  <1> QED
    BY <1>3 DEF S

\* Where two such functions both go, they agree.
LEMMA IteratesAgree ==
    ASSUME NEW a, NEW G, NEW k \in Nat, NEW m \in k..(k + 1), NEW g, NEW h,
           Iterated(g, a, G, k), Iterated(h, a, G, m)
    PROVE  \A j \in 0..k : g[j] = h[j]
  <1> DEFINE S == {j \in 0..k : g[j] = h[j]}
  <1>1. 0 \in S
    BY DEF Iterated
  <1>2. ASSUME NEW j \in 0..(k - 1), j \in S PROVE j + 1 \in S
    <2>1. j + 1 \in 1..k /\ j + 1 \in 1..m /\ (j + 1) - 1 = j /\ j + 1 \in 0..k
      OBVIOUS
    <2>2. g[j + 1] = G[<<j + 1, g[j]>>] /\ h[j + 1] = G[<<j + 1, h[j]>>]
      BY <2>1 DEF Iterated
    <2> QED
      BY <1>2, <2>1, <2>2
  <1> HIDE DEF S
  <1>3. \A j \in 0..k : j \in S
    BY <1>1, <1>2, Reaches
  <1> QED
    BY <1>3 DEF S

\* SubSeq(s, 1, k) is the prefix of length k.
LEMMA Prefixing ==
    ASSUME NEW S, NEW s \in Seq(S), NEW k \in 0..Len(s)
    PROVE  /\ SubSeq(s, 1, k) \in Seq(S) /\ Len(SubSeq(s, 1, k)) = k /\ Len(s) \in Nat
           /\ \A i \in 1..k : SubSeq(s, 1, k)[i] = s[i]
           /\ \A j \in 0..k : SubSeq(SubSeq(s, 1, k), 1, j) = SubSeq(s, 1, j)
           /\ SubSeq(s, 1, Len(s)) = s
           /\ SubSeq(s, 1, 0) = <<>>
           /\ k # 0 => SubSeq(s, 1, k) = Append(SubSeq(s, 1, k - 1), s[k]) /\ s[k] \in S
  OBVIOUS
=============================================================================
