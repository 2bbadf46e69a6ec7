------------------------------ MODULE SumLemmas -----------------------------
(***************************************************************************)
(* What SumFunctionOnSet computes: the sum of the values of a function     *)
(* over a finite set, with no order in it.                                 *)
(***************************************************************************)
EXTENDS Integers, Functions, Folds, FiniteSetTheorems, TLAPS

\* Among subsets of a finite set there is a smallest one: what stands for
\* induction.
LEMMA SmallestSet ==
    ASSUME NEW S, IsFiniteSet(S), NEW Sets \in SUBSET (SUBSET S), Sets # {}
    PROVE  \E T \in Sets : IsFiniteSet(T) /\ \A U \in Sets : U \subseteq T => U = T
<1>1. Sets \subseteq FiniteSubsetsOf(S)
  BY FS_Subset DEF FiniteSubsetsOf
<1>2. \E T \in Sets : \A U \in Sets : ~(<<U, T>> \in StrictSubsetOrdering(S))
  BY <1>1, FS_StrictSubsetOrderingWellFounded, WFMin
<1> QED
  BY <1>1, <1>2 DEF StrictSubsetOrdering, FiniteSubsetsOf

-----------------------------------------------------------------------------
(* The recursive function that the sum is taken from                       *)

Pick(s) == CHOOSE x \in s : TRUE

Terms(f, Sets, g) ==
    [s \in Sets |-> IF s = {} THEN 0 ELSE f[Pick(s)] + g[s \ {Pick(s)}]]

\* The subsets of S that have no more than n elements.
UpTo(S, n) == {s \in SUBSET S : Cardinality(s) <= n}

LEMMA PickIn == ASSUME NEW s, s # {} PROVE Pick(s) \in s
BY DEF Pick

\* There is such a function on the subsets of a finite set.
LEMMA TermsUpTo ==
    ASSUME NEW f, NEW S, IsFiniteSet(S), NEW n \in Nat
    PROVE  \E g : g = Terms(f, UpTo(S, n), g)
<1> DEFINE Bad == {m \in Nat : ~\E g : g = Terms(f, UpTo(S, m), g)}
<1> SUFFICES ASSUME Bad # {} PROVE FALSE
  OBVIOUS
<1>1. PICK m \in Bad : \A k \in Bad : ~(k < m)
  <2>1. PICK b \in Bad : TRUE
    OBVIOUS
  <2> DEFINE Below == {0 .. k : k \in {i \in Bad : i <= b}}
  <2> DEFINE All == 0 .. b
  <2>2. Below # {} /\ IsFiniteSet(All)
    <3>1. b \in {i \in Bad : i <= b}
      BY <2>1
    <3>2. IsFiniteSet(All)
      BY <2>1, FS_Interval
    <3> QED
      BY <3>1, <3>2
  <2>3. PICK T \in Below : \A U \in Below : U \subseteq T => U = T
    <3>1. Below \in SUBSET (SUBSET All)
      <4>1. ASSUME NEW k \in Bad, k <= b PROVE 0 .. k \subseteq All
        BY <2>1, <4>1
      <4> QED
        BY <4>1
    <3> HIDE DEF Below, All
    <3> QED
      BY <2>2, <3>1, SmallestSet
  <2>4. PICK m \in Bad : m <= b /\ T = 0 .. m
    BY <2>3
  <2>5. ASSUME NEW k \in Bad, k < m PROVE FALSE
    <3>1. 0 .. k \in Below /\ 0 .. k \subseteq T
      BY <2>4, <2>5
    <3>2. 0 .. k = 0 .. m
      BY <2>3, <2>4, <3>1
    <3> QED
      BY <2>5, <3>2
  <2> QED
    BY <2>5
<1>2. \A s \in SUBSET S : IsFiniteSet(s) /\ Cardinality(s) \in Nat
  BY FS_Subset, FS_CardinalityType
<1>3. CASE m = 0
  <2>1. \A s \in UpTo(S, m) : s = {}
    BY <1>2, <1>3, FS_EmptySet DEF UpTo
  <2> DEFINE g == [s \in UpTo(S, m) |-> 0]
  <2>2. g = Terms(f, UpTo(S, m), g)
    BY <2>1 DEF Terms
  <2> QED
    BY <1>1, <2>2
<1>4. CASE m # 0
  <2>1. m - 1 \in Nat /\ m - 1 \notin Bad
    BY <1>1, <1>4
  <2>2. PICK g : g = Terms(f, UpTo(S, m - 1), g)
    BY <2>1
  <2> DEFINE h == Terms(f, UpTo(S, m), g)
  <2>3. ASSUME NEW s \in UpTo(S, m), s # {}
        PROVE  s \ {Pick(s)} \in UpTo(S, m - 1) /\ s \ {Pick(s)} \in UpTo(S, m)
    <3>1. Cardinality(s \ {Pick(s)}) = Cardinality(s) - 1
      BY <1>2, <2>3, PickIn, FS_RemoveElement DEF UpTo
    <3> QED
      BY <1>1, <1>2, <2>3, <3>1 DEF UpTo
  <2>4. ASSUME NEW s \in UpTo(S, m - 1), s \in UpTo(S, m) PROVE g[s] = h[s]
    <3>1. g[s] = Terms(f, UpTo(S, m - 1), g)[s]
      BY <2>2
    <3> QED
      BY <2>4, <3>1 DEF Terms
  <2>5. h = Terms(f, UpTo(S, m), h)
    <3> HIDE DEF h
    <3>1. ASSUME NEW s \in UpTo(S, m), s # {}
          PROVE  g[s \ {Pick(s)}] = h[s \ {Pick(s)}]
      BY <2>3, <2>4, <3>1
    <3>2. h = [s \in UpTo(S, m) |-> IF s = {} THEN 0 ELSE f[Pick(s)] + g[s \ {Pick(s)}]]
      BY DEF h, Terms
    <3> QED
      BY <3>1, <3>2 DEF Terms
  <2> QED
    BY <1>1, <2>5
<1> QED
  BY <1>3, <1>4

\* g has the sums of f over the subsets of S.
Computes(g, f, S) == g = Terms(f, SUBSET S, g)

\* The sum is the value of such a function.
LEMMA SumIsTerms ==
    ASSUME NEW f, NEW S, IsFiniteSet(S)
    PROVE  \E g : Computes(g, f, S) /\ SumFunctionOnSet(f, S) = g[S]
<1> DEFINE g == CHOOSE g : g = Terms(f, SUBSET S, g)
<1>1. UpTo(S, Cardinality(S)) = SUBSET S /\ Cardinality(S) \in Nat
  BY FS_Subset, FS_CardinalityType DEF UpTo
<1>2. \E h : h = Terms(f, SUBSET S, h)
  <2>1. \A n \in Nat : \E h : h = Terms(f, UpTo(S, n), h)
    BY TermsUpTo
  <2> QED
    BY <1>1, <2>1
<1>3. g = Terms(f, SUBSET S, g)
  BY <1>2
<1>4. SumFunctionOnSet(f, S) = g[S]
  BY DEF SumFunctionOnSet, FoldFunctionOnSet, MapThenFoldSet, Terms, Pick
<1> QED
  BY <1>3, <1>4 DEF Computes

\* Two such functions agree where both are defined.
LEMMA TermsAgree ==
    ASSUME NEW f, NEW S, NEW T, NEW g, NEW h, IsFiniteSet(T), T \subseteq S,
           Computes(g, f, S), Computes(h, f, T)
    PROVE  g[T] = h[T]
<1> DEFINE Bad == {s \in SUBSET T : g[s] # h[s]}
<1> SUFFICES ASSUME Bad # {} PROVE FALSE
  OBVIOUS
<1>1. Bad \in SUBSET (SUBSET T)
  OBVIOUS
<1>2. PICK s \in Bad : \A u \in Bad : u \subseteq s => u = s
  <2> HIDE DEF Bad
  <2> QED
    BY <1>1, SmallestSet
<1>3. g[s] = Terms(f, SUBSET S, g)[s] /\ h[s] = Terms(f, SUBSET T, h)[s]
  BY DEF Computes
<1>4. s # {} /\ g[s \ {Pick(s)}] # h[s \ {Pick(s)}]
  BY <1>2, <1>3 DEF Terms
<1> QED
  BY <1>2, <1>4, PickIn

-----------------------------------------------------------------------------
(* The sum                                                                 *)

LEMMA SumEmpty == ASSUME NEW f PROVE SumFunctionOnSet(f, {}) = 0
<1>1. PICK g : Computes(g, f, {}) /\ SumFunctionOnSet(f, {}) = g[{}]
  BY SumIsTerms, FS_EmptySet
<1>2. g[{}] = Terms(f, SUBSET {}, g)[{}]
  BY <1>1 DEF Computes
<1> QED
  BY <1>1, <1>2 DEF Terms

LEMMA SumPick ==
    ASSUME NEW f, NEW S, IsFiniteSet(S), S # {}
    PROVE  SumFunctionOnSet(f, S) = f[Pick(S)] + SumFunctionOnSet(f, S \ {Pick(S)})
<1> DEFINE T == S \ {Pick(S)}
<1>1. PICK g : Computes(g, f, S) /\ SumFunctionOnSet(f, S) = g[S]
  BY SumIsTerms
<1>2. IsFiniteSet(T)
  BY FS_RemoveElement
<1>3. PICK h : Computes(h, f, T) /\ SumFunctionOnSet(f, T) = h[T]
  BY <1>2, SumIsTerms
<1>4. g[T] = h[T]
  <2>1. T \subseteq S
    OBVIOUS
  <2> HIDE DEF T
  <2> QED
    BY <1>1, <1>2, <1>3, <2>1, TermsAgree
<1>5. g[S] = Terms(f, SUBSET S, g)[S]
  BY <1>1 DEF Computes
<1>6. g[S] = f[Pick(S)] + g[T]
  BY <1>5 DEF Terms
<1> QED
  BY <1>1, <1>3, <1>4, <1>6

\* A sum of naturals is one.
LEMMA SumType ==
    ASSUME NEW f, NEW S, IsFiniteSet(S), \A x \in S : f[x] \in Nat
    PROVE  SumFunctionOnSet(f, S) \in Nat
<1> DEFINE Bad == {T \in SUBSET S : SumFunctionOnSet(f, T) \notin Nat}
<1> SUFFICES ASSUME Bad # {} PROVE FALSE
  OBVIOUS
<1>1. Bad \in SUBSET (SUBSET S)
  OBVIOUS
<1>2. PICK T \in Bad : IsFiniteSet(T) /\ \A U \in Bad : U \subseteq T => U = T
  <2> HIDE DEF Bad
  <2> QED
    BY <1>1, SmallestSet
<1>3. T # {}
  BY SumEmpty
<1>4. Pick(T) \in T /\ T \ {Pick(T)} \notin Bad
  BY <1>2, <1>3, PickIn
<1>5. SumFunctionOnSet(f, T \ {Pick(T)}) \in Nat /\ f[Pick(T)] \in Nat
  BY <1>4
<1> QED
  BY <1>2, <1>3, <1>5, SumPick

\* Only the values on the set count.
LEMMA SumSame ==
    ASSUME NEW f, NEW g, NEW S, IsFiniteSet(S), \A x \in S : f[x] = g[x]
    PROVE  SumFunctionOnSet(f, S) = SumFunctionOnSet(g, S)
<1> DEFINE Bad == {T \in SUBSET S : SumFunctionOnSet(f, T) # SumFunctionOnSet(g, T)}
<1> SUFFICES ASSUME Bad # {} PROVE FALSE
  OBVIOUS
<1>1. Bad \in SUBSET (SUBSET S)
  OBVIOUS
<1>2. PICK T \in Bad : IsFiniteSet(T) /\ \A U \in Bad : U \subseteq T => U = T
  <2> HIDE DEF Bad
  <2> QED
    BY <1>1, SmallestSet
<1>3. T # {}
  BY SumEmpty
<1>4. Pick(T) \in T /\ T \ {Pick(T)} \notin Bad
  BY <1>2, <1>3, PickIn
<1>5. /\ SumFunctionOnSet(f, T \ {Pick(T)}) = SumFunctionOnSet(g, T \ {Pick(T)})
      /\ f[Pick(T)] = g[Pick(T)]
  BY <1>4
<1>6. /\ SumFunctionOnSet(f, T) = f[Pick(T)] + SumFunctionOnSet(f, T \ {Pick(T)})
      /\ SumFunctionOnSet(g, T) = g[Pick(T)] + SumFunctionOnSet(g, T \ {Pick(T)})
  BY <1>2, <1>3, SumPick
<1> QED
  BY <1>2, <1>5, <1>6

\* Any element can be the last to be added.
LEMMA SumRemove ==
    ASSUME NEW f, NEW S, IsFiniteSet(S), \A x \in S : f[x] \in Nat, NEW x \in S
    PROVE  SumFunctionOnSet(f, S) = f[x] + SumFunctionOnSet(f, S \ {x})
<1> DEFINE Splits(T, y) == SumFunctionOnSet(f, T) = f[y] + SumFunctionOnSet(f, T \ {y})
           Bad == {T \in SUBSET S : \E y \in T : ~Splits(T, y)}
<1> SUFFICES ASSUME Bad # {} PROVE FALSE
  OBVIOUS
<1>1. Bad \in SUBSET (SUBSET S)
  OBVIOUS
<1>2. PICK T \in Bad : IsFiniteSet(T) /\ \A U \in Bad : U \subseteq T => U = T
  <2> HIDE DEF Bad
  <2> QED
    BY <1>1, SmallestSet
<1>3. PICK y \in T : ~Splits(T, y)
  OBVIOUS
<1> DEFINE p == Pick(T)
<1>4. p \in T /\ Splits(T, p)
  BY <1>2, PickIn, SumPick
<1> HIDE DEF p
<1>5. p # y
  BY <1>3, <1>4
<1>6. T \ {p} \notin Bad /\ T \ {y} \notin Bad
  BY <1>2, <1>3, <1>4
<1>7. Splits(T \ {p}, y) /\ Splits(T \ {y}, p)
  BY <1>3, <1>4, <1>5, <1>6
<1>8. (T \ {p}) \ {y} = (T \ {y}) \ {p}
  OBVIOUS
<1>9. /\ f[p] \in Nat /\ f[y] \in Nat /\ SumFunctionOnSet(f, (T \ {p}) \ {y}) \in Nat
  <2>1. IsFiniteSet((T \ {p}) \ {y})
    BY <1>2, FS_RemoveElement
  <2> QED
    BY <1>3, <1>4, <2>1, SumType
<1>10. SumFunctionOnSet(f, T) = f[p] + (f[y] + SumFunctionOnSet(f, (T \ {p}) \ {y}))
  BY <1>4, <1>7
<1>11. SumFunctionOnSet(f, T \ {y}) = f[p] + SumFunctionOnSet(f, (T \ {p}) \ {y})
  BY <1>7, <1>8
<1>12. Splits(T, y)
  BY <1>9, <1>10, <1>11
<1> QED
  BY <1>3, <1>12

\* A set that grows by an element.
LEMMA SumAdd ==
    ASSUME NEW f, NEW S, IsFiniteSet(S), NEW x, x \notin S, f[x] \in Nat,
           \A y \in S : f[y] \in Nat
    PROVE  SumFunctionOnSet(f, S \union {x}) = f[x] + SumFunctionOnSet(f, S)
<1>1. IsFiniteSet(S \union {x}) /\ (S \union {x}) \ {x} = S
  BY FS_AddElement
<1> QED
  BY <1>1, SumRemove

\* A part is no more than the whole.
LEMMA SumPart ==
    ASSUME NEW f, NEW S, IsFiniteSet(S), \A x \in S : f[x] \in Nat, NEW T \in SUBSET S
    PROVE  SumFunctionOnSet(f, T) <= SumFunctionOnSet(f, S)
<1> DEFINE Bad == {U \in SUBSET S : T \subseteq U
                                    /\ ~(SumFunctionOnSet(f, T) <= SumFunctionOnSet(f, U))}
<1> SUFFICES ASSUME Bad # {} PROVE FALSE
  OBVIOUS
<1>1. Bad \in SUBSET (SUBSET S)
  OBVIOUS
<1>2. PICK U \in Bad : IsFiniteSet(U) /\ \A V \in Bad : V \subseteq U => V = U
  <2> HIDE DEF Bad
  <2> QED
    BY <1>1, SmallestSet
<1>3. SumFunctionOnSet(f, T) \in Nat
  BY FS_Subset, SumType
<1>4. PICK x \in U : x \notin T
  BY <1>3
<1>5. U \ {x} \notin Bad /\ T \subseteq U \ {x}
  BY <1>2, <1>4
<1>6. SumFunctionOnSet(f, T) <= SumFunctionOnSet(f, U \ {x})
  BY <1>5
<1>7. SumFunctionOnSet(f, U) = f[x] + SumFunctionOnSet(f, U \ {x}) /\ f[x] \in Nat
  BY <1>2, SumRemove
<1>8. SumFunctionOnSet(f, U \ {x}) \in Nat
  BY <1>2, FS_RemoveElement, SumType
<1> QED
  BY <1>2, <1>3, <1>6, <1>7, <1>8

=============================================================================
