-------------------------- MODULE MarketMaker_proofs --------------------------
(***************************************************************************)
(* Proofs about MarketMaker.                                               *)
(*                                                                         *)
(* What the wallet holds is a sum, and the library defines sums by         *)
(* recursion over finite sets.  Instead of an induction, which no prover   *)
(* here can instantiate, the proofs look at a smallest set for which the   *)
(* statement fails (MinimalSet).                                           *)
(***************************************************************************)
EXTENDS MarketMaker, FiniteSetTheorems, FunctionTheorems,
        SequenceTheorems, WellFoundedInduction, TLAPS

-----------------------------------------------------------------------------
(* Finite sets.                                                            *)

\* Among some subsets of a finite set there is one that is minimal.
LEMMA MinimalSet ==
  ASSUME NEW S, IsFiniteSet(S), NEW P \in SUBSET SUBSET S, P # {}
  PROVE  \E T \in P : \A U \in P : U \subseteq T => U = T
<1>1. IsWellFoundedOn(StrictSubsetOrdering(S), SUBSET S)
  BY FS_StrictSubsetOrderingWellFounded, FS_FiniteSubsetsOfFinite
<1>2. \E T \in P : \A U \in P : ~(<<U, T>> \in StrictSubsetOrdering(S))
  BY <1>1, WFMin
<1> QED
  BY <1>2 DEF StrictSubsetOrdering

\* Some natural numbers have a least one.
LEMMA LeastNumber ==
  ASSUME NEW T \in SUBSET Nat, T # {}
  PROVE  \E n \in T : \A k \in T : n <= k
<1>1. PICK n \in T : TRUE
  OBVIOUS
<1> DEFINE D == 1..n
           P == {1..k : k \in {k \in T : k <= n}}
<1>2. IsFiniteSet(D)
  BY <1>1, FS_Interval
<1>3. P \in SUBSET SUBSET D /\ P # {}
  BY <1>1
<1>4. PICK U \in P : \A V \in P : V \subseteq U => V = U
  <2> HIDE DEF P, D
  <2> QED BY <1>2, <1>3, MinimalSet
<1>5. PICK m \in T : m <= n /\ U = 1..m
  BY <1>4
<1>6. ASSUME NEW k \in T, k < m
      PROVE  FALSE
  <2>1. 1..k \in P
    BY <1>1, <1>5, <1>6
  <2>2. 1..k \subseteq 1..m
    BY <1>5, <1>6
  <2>4. 1..k = 1..m
    <3> HIDE DEF P
    <3> QED BY <1>4, <1>5, <2>1, <2>2
  <2>3. m \in 1..m /\ m \notin 1..k
    BY <1>6, <1>5
  <2> QED BY <2>4, <2>3
<1> QED
  BY <1>5, <1>6

-----------------------------------------------------------------------------
(* Sums.                                                                   *)

Pick(T) == CHOOSE x \in T : TRUE

\* g gives the sum of f over each subset of S
IsSum(f, S, g) ==
  g = [T \in SUBSET S |->
         IF T = {} THEN 0 ELSE f[Pick(T)] + g[T \ {Pick(T)}]]

LEMMA PickIn ==
  ASSUME NEW T, T # {}
  PROVE  /\ Pick(T) \in T
         /\ T \ {Pick(T)} \subseteq T /\ T \ {Pick(T)} # T
  BY DEF Pick

LEMMA SumUnique ==
  ASSUME NEW f, NEW U, NEW V, IsFiniteSet(U), IsFiniteSet(V),
         NEW g, IsSum(f, U, g), NEW h, IsSum(f, V, h),
         NEW T, T \subseteq U, T \subseteq V
  PROVE  g[T] = h[T]
<1> DEFINE P == {W \in SUBSET T : g[W] # h[W]}
<1>1. SUFFICES P = {}
  OBVIOUS
<1>2. SUFFICES ASSUME P # {}
               PROVE  FALSE
  OBVIOUS
<1>3. IsFiniteSet(T)
  BY FS_Subset
<1>4. PICK W \in P : \A X \in P : X \subseteq W => X = W
  <2>1. P \in SUBSET SUBSET T
    OBVIOUS
  <2> HIDE DEF P
  <2> QED BY <1>2, <1>3, <2>1, MinimalSet
<1>5. W # {}
  BY <1>4 DEF IsSum
<1>6. g[W \ {Pick(W)}] = h[W \ {Pick(W)}]
  BY <1>4, <1>5, PickIn
<1>7. g[W] = f[Pick(W)] + g[W \ {Pick(W)}]
  BY <1>4, <1>5 DEF IsSum
<1>8. h[W] = f[Pick(W)] + h[W \ {Pick(W)}]
  BY <1>4, <1>5 DEF IsSum
<1> QED
  BY <1>4, <1>6, <1>7, <1>8

LEMMA SumExists ==
  ASSUME NEW f, NEW S, IsFiniteSet(S)
  PROVE  \E g : IsSum(f, S, g)
<1> DEFINE P == {U \in SUBSET S : ~\E g : IsSum(f, U, g)}
<1>1. SUFFICES ASSUME P # {}
               PROVE  FALSE
  OBVIOUS
<1>2. PICK T \in P : \A U \in P : U \subseteq T => U = T
  <2>1. P \in SUBSET SUBSET S
    OBVIOUS
  <2> HIDE DEF P
  <2> QED BY <1>1, <2>1, MinimalSet
<1> DEFINE Sub(U) == CHOOSE g : IsSum(f, U, g)
           At0(U) == IF U = {} THEN 0
                     ELSE f[Pick(U)] + Sub(U \ {Pick(U)})[U \ {Pick(U)}]
           G == [U \in SUBSET T |-> At0(U)]
<1>3. IsFiniteSet(T)
  BY <1>2, FS_Subset
<1>4. \A U \in SUBSET T : U # T => IsSum(f, U, Sub(U))
  BY <1>2
<1>5. ASSUME NEW U \in SUBSET T, U # {}
      PROVE  G[U \ {Pick(U)}] = Sub(U \ {Pick(U)})[U \ {Pick(U)}]
  <2> DEFINE V == U \ {Pick(U)}
             W == V \ {Pick(V)}
  <2>1. V \in SUBSET T /\ V # T /\ IsFiniteSet(V)
    BY <1>3, <1>5, PickIn, FS_Subset
  <2>2. IsSum(f, V, Sub(V))
    BY <1>4, <2>1
  <2>3. CASE V = {}
    <3>1. Sub(V)[V] = 0
      BY <2>2, <2>3 DEF IsSum
    <3> QED BY <3>1, <2>1, <2>3
  <2>4. CASE V # {}
    <3>1. W \in SUBSET T /\ W # T /\ IsFiniteSet(W) /\ W \subseteq V
      BY <2>1, <2>4, PickIn, FS_Subset
    <3>2. IsSum(f, W, Sub(W))
      BY <1>4, <3>1
    <3>3. Sub(W)[W] = Sub(V)[W]
      <4> HIDE DEF Sub, V, W
      <4> QED BY <2>1, <2>2, <3>1, <3>2, SumUnique
    <3>4. Sub(V)[V] = f[Pick(V)] + Sub(V)[W]
      <4> HIDE DEF Sub
      <4> QED BY <2>2, <2>4 DEF IsSum
    <3>5. G[V] = f[Pick(V)] + Sub(W)[W]
      BY <2>1, <2>4
    <3> QED BY <3>3, <3>4, <3>5
  <2> QED BY <2>3, <2>4
<1>6. IsSum(f, T, G)
  <2>1. \A U \in SUBSET T :
          G[U] = IF U = {} THEN 0 ELSE f[Pick(U)] + G[U \ {Pick(U)}]
    <3> SUFFICES ASSUME NEW U \in SUBSET T
                 PROVE  G[U] = IF U = {} THEN 0
                               ELSE f[Pick(U)] + G[U \ {Pick(U)}]
      OBVIOUS
    <3>1. G[U] = At0(U)
      OBVIOUS
    <3>2. U # {} => G[U \ {Pick(U)}] = Sub(U \ {Pick(U)})[U \ {Pick(U)}]
      BY <1>5
    <3> HIDE DEF G, Sub
    <3> QED BY <3>1, <3>2
  <2>2. G = [U \in SUBSET T |-> G[U]]
    OBVIOUS
  <2> HIDE DEF G
  <2>3. G = [U \in SUBSET T |->
               IF U = {} THEN 0 ELSE f[Pick(U)] + G[U \ {Pick(U)}]]
    BY <2>1, <2>2, Zenon
  <2> QED BY <2>3 DEF IsSum
<1> QED
  BY <1>2, <1>6

LEMMA SumIter ==
  ASSUME NEW f, NEW S, IsFiniteSet(S)
  PROVE  \E g : IsSum(f, S, g) /\ SumFunctionOnSet(f, S) = g[S]
<1> DEFINE iter == CHOOSE g : IsSum(f, S, g)
<1>1. IsSum(f, S, iter)
  BY SumExists
<1>2. SumFunctionOnSet(f, S) = iter[S]
  BY DEF SumFunctionOnSet, FoldFunctionOnSet, MapThenFoldSet, IsSum, Pick
<1> QED
  BY <1>1, <1>2

LEMMA SumEmpty ==
  ASSUME NEW f
  PROVE  SumFunctionOnSet(f, {}) = 0
<1>1. PICK g : IsSum(f, {}, g) /\ SumFunctionOnSet(f, {}) = g[{}]
  BY SumIter, FS_EmptySet
<1> QED
  BY <1>1 DEF IsSum

LEMMA SumPick ==
  ASSUME NEW f, NEW S, IsFiniteSet(S), S # {}
  PROVE  SumFunctionOnSet(f, S) =
           f[Pick(S)] + SumFunctionOnSet(f, S \ {Pick(S)})
<1> DEFINE U == S \ {Pick(S)}
<1>1. IsFiniteSet(U) /\ U \subseteq S
  BY PickIn, FS_Subset
<1>2. PICK g : IsSum(f, S, g) /\ SumFunctionOnSet(f, S) = g[S]
  BY SumIter
<1>3. PICK h : IsSum(f, U, h) /\ SumFunctionOnSet(f, U) = h[U]
  BY <1>1, SumIter
<1>4. g[U] = h[U]
  <2> HIDE DEF U
  <2> QED BY <1>1, <1>2, <1>3, SumUnique
<1>5. g[S] = f[Pick(S)] + g[U]
  BY <1>2 DEF IsSum
<1> QED
  BY <1>2, <1>3, <1>4, <1>5

LEMMA SumInt ==
  ASSUME NEW f, NEW S, IsFiniteSet(S), \A x \in S : f[x] \in Int
  PROVE  SumFunctionOnSet(f, S) \in Int
<1> DEFINE P == {T \in SUBSET S : SumFunctionOnSet(f, T) \notin Int}
<1>1. SUFFICES ASSUME P # {}
               PROVE  FALSE
  OBVIOUS
<1>2. PICK T \in P : \A U \in P : U \subseteq T => U = T
  <2>1. P \in SUBSET SUBSET S
    OBVIOUS
  <2> HIDE DEF P
  <2> QED BY <1>1, <2>1, MinimalSet
<1>3. T # {} /\ IsFiniteSet(T)
  <2>1. SumFunctionOnSet(f, {}) \in Int
    BY SumEmpty
  <2>2. IsFiniteSet(T)
    BY <1>2, FS_Subset
  <2> QED BY <1>2, <2>1, <2>2
<1>4. SumFunctionOnSet(f, T \ {Pick(T)}) \in Int
  BY <1>2, <1>3, PickIn
<1>5. f[Pick(T)] \in Int
  BY <1>2, <1>3, PickIn
<1> QED
  BY <1>2, <1>3, <1>4, <1>5, SumPick

\* Whatever is taken out of a set counts once: the order does not matter.
LEMMA SumRemove ==
  ASSUME NEW f, NEW S, IsFiniteSet(S), \A x \in S : f[x] \in Int,
         NEW x \in S
  PROVE  SumFunctionOnSet(f, S) = f[x] + SumFunctionOnSet(f, S \ {x})
<1> DEFINE Same(T, y) == SumFunctionOnSet(f, T) =
                           f[y] + SumFunctionOnSet(f, T \ {y})
           P == {T \in SUBSET S : \E y \in T : ~Same(T, y)}
<1>1. SUFFICES ASSUME P # {}
               PROVE  FALSE
  OBVIOUS
<1>2. PICK T \in P : \A U \in P : U \subseteq T => U = T
  <2>1. P \in SUBSET SUBSET S
    OBVIOUS
  <2> HIDE DEF P
  <2> QED BY <1>1, <2>1, MinimalSet
<1>3. PICK y \in T : ~Same(T, y)
  BY <1>2
<1> DEFINE p == Pick(T)
<1>4. p \in T /\ IsFiniteSet(T) /\ T \subseteq S
  BY <1>2, <1>3, PickIn, FS_Subset
<1>5. Same(T, p)
  BY <1>3, <1>4, SumPick
<1>6. p # y
  BY <1>3, <1>5
<1>7. Same(T \ {p}, y) /\ Same(T \ {y}, p)
  <2>1. \A U \in SUBSET S : U \subseteq T /\ U # T => \A z \in U : Same(U, z)
    BY <1>2
  <2>2. T \ {p} \subseteq T /\ T \ {p} # T /\ y \in T \ {p}
    BY <1>3, <1>4, <1>6
  <2>3. T \ {y} \subseteq T /\ T \ {y} # T /\ p \in T \ {y}
    BY <1>3, <1>4, <1>6
  <2>4. T \ {p} \in SUBSET S /\ T \ {y} \in SUBSET S
    BY <1>4
  <2> HIDE DEF Same, P
  <2> QED BY <2>1, <2>2, <2>3, <2>4
<1>8. (T \ {p}) \ {y} = (T \ {y}) \ {p}
  OBVIOUS
<1>9. f[p] \in Int /\ f[y] \in Int
  BY <1>3, <1>4
<1>10. SumFunctionOnSet(f, (T \ {p}) \ {y}) \in Int
  <2>1. IsFiniteSet((T \ {p}) \ {y})
    BY <1>4, FS_Subset
  <2> QED BY <1>4, <2>1, SumInt
<1> DEFINE rest == SumFunctionOnSet(f, (T \ {p}) \ {y})
<1>11. /\ SumFunctionOnSet(f, T) = f[p] + (f[y] + rest)
       /\ SumFunctionOnSet(f, T \ {y}) = f[p] + rest
  BY <1>5, <1>7, <1>8
<1>12. SumFunctionOnSet(f, T) # f[y] + (f[p] + rest)
  BY <1>3, <1>11
<1>13. rest \in Int
  BY <1>10
<1> HIDE DEF rest
<1> QED
  BY <1>9, <1>11, <1>12, <1>13

LEMMA SumAdd ==
  ASSUME NEW f, NEW S, IsFiniteSet(S), NEW x, x \notin S,
         \A y \in S \cup {x} : f[y] \in Int
  PROVE  SumFunctionOnSet(f, S \cup {x}) = f[x] + SumFunctionOnSet(f, S)
<1>1. IsFiniteSet(S \cup {x})
  BY FS_AddElement
<1>2. (S \cup {x}) \ {x} = S
  OBVIOUS
<1> QED
  BY <1>1, <1>2, SumRemove

\* The sum depends on the values only, not on where they are.
LEMMA SumImage ==
  ASSUME NEW f, NEW g, NEW S, IsFiniteSet(S), NEW R, NEW h \in [S -> R],
         \A x, y \in S : h[x] = h[y] => x = y,
         \A y \in R : \E x \in S : h[x] = y,
         \A x \in S : f[x] \in Int /\ g[h[x]] = f[x]
  PROVE  IsFiniteSet(R) /\ SumFunctionOnSet(g, R) = SumFunctionOnSet(f, S)
<1> DEFINE Im(T) == {h[x] : x \in T}
           P == {T \in SUBSET S :
                   SumFunctionOnSet(g, Im(T)) # SumFunctionOnSet(f, T)}
<1>1. ASSUME NEW T \in SUBSET S
      PROVE  IsFiniteSet(T) /\ IsFiniteSet(Im(T))
  <2> DEFINE k == [x \in T |-> h[x]]
  <2>1. k \in Surjection(T, Im(T))
    BY DEF Surjection
  <2>2. IsFiniteSet(T)
    BY FS_Subset
  <2> HIDE DEF k, Im
  <2> QED BY <2>1, <2>2, FS_Surjection
<1>2. SUFFICES ASSUME P # {}
               PROVE  FALSE
  <2>1. Im(S) = R
    OBVIOUS
  <2>2. S \notin P => SumFunctionOnSet(g, Im(S)) = SumFunctionOnSet(f, S)
    OBVIOUS
  <2> HIDE DEF Im, P
  <2> QED BY <1>1, <2>1, <2>2
<1>3. PICK T \in P : \A U \in P : U \subseteq T => U = T
  <2>1. P \in SUBSET SUBSET S
    OBVIOUS
  <2> HIDE DEF P
  <2> QED BY <1>2, <2>1, MinimalSet
<1>4. T # {}
  <2>1. Im({}) = {}
    OBVIOUS
  <2>2. SumFunctionOnSet(g, {}) = SumFunctionOnSet(f, {})
    BY SumEmpty
  <2> QED BY <1>3, <2>1, <2>2
<1> DEFINE p == Pick(T)
           U == T \ {p}
<1>5. p \in T /\ T \in SUBSET S /\ U \in SUBSET S
  BY <1>3, <1>4, PickIn
<1>6. SumFunctionOnSet(g, Im(U)) = SumFunctionOnSet(f, U)
  BY <1>3, <1>5
<1>7. Im(T) = Im(U) \cup {h[p]} /\ h[p] \notin Im(U)
  BY <1>5
<1>8. \A y \in Im(U) \cup {h[p]} : g[y] \in Int
  BY <1>5
<1>9. IsFiniteSet(Im(U)) /\ IsFiniteSet(T)
  BY <1>1, <1>5
<1>10. SumFunctionOnSet(g, Im(U) \cup {h[p]}) =
         g[h[p]] + SumFunctionOnSet(g, Im(U))
  <2> HIDE DEF Im, U, p
  <2> QED BY <1>7, <1>8, <1>9, SumAdd
<1>11. SumFunctionOnSet(f, T) = f[p] + SumFunctionOnSet(f, U)
  BY <1>4, <1>9, SumPick
<1>12. SumFunctionOnSet(g, Im(T)) = SumFunctionOnSet(f, T)
  <2>1. g[h[p]] = f[p]
    BY <1>5
  <2> HIDE DEF Im, U, p
  <2> QED BY <1>6, <1>7, <1>10, <1>11, <2>1
<1> QED
  BY <1>3, <1>12

\* Two functions that agree on a set have the same sum.
LEMMA SumSame ==
  ASSUME NEW f, NEW g, NEW S, IsFiniteSet(S),
         \A x \in S : f[x] \in Int /\ g[x] = f[x]
  PROVE  SumFunctionOnSet(g, S) = SumFunctionOnSet(f, S)
<1> DEFINE h == [x \in S |-> x]
<1>1. h \in [S -> S]
  OBVIOUS
<1>2. \A x, y \in S : h[x] = h[y] => x = y
  OBVIOUS
<1>3. \A x \in S : f[x] \in Int /\ g[h[x]] = f[x]
  OBVIOUS
<1>4. \A y \in S : \E x \in S : h[x] = y
  OBVIOUS
<1> HIDE DEF h
<1> QED
  BY <1>1, <1>2, <1>3, <1>4, SumImage

LEMMA SumUnion ==
  ASSUME NEW f, NEW S, IsFiniteSet(S), NEW T, IsFiniteSet(T), S \cap T = {},
         \A x \in S \cup T : f[x] \in Int
  PROVE  SumFunctionOnSet(f, S \cup T) =
           SumFunctionOnSet(f, S) + SumFunctionOnSet(f, T)
<1> DEFINE P == {U \in SUBSET T : SumFunctionOnSet(f, S \cup U) #
                   SumFunctionOnSet(f, S) + SumFunctionOnSet(f, U)}
<1>1. SUFFICES ASSUME P # {}
               PROVE  FALSE
  OBVIOUS
<1>2. PICK U \in P : \A V \in P : V \subseteq U => V = U
  <2>1. P \in SUBSET SUBSET T
    OBVIOUS
  <2> HIDE DEF P
  <2> QED BY <1>1, <2>1, MinimalSet
<1>3. SumFunctionOnSet(f, S) \in Int
  BY SumInt
<1>4. U # {}
  <2>1. S \cup {} = S /\ SumFunctionOnSet(f, {}) = 0
    BY SumEmpty
  <2>2. SumFunctionOnSet(f, S \cup {}) =
          SumFunctionOnSet(f, S) + SumFunctionOnSet(f, {})
    BY <1>3, <2>1
  <2> QED BY <1>2, <2>2, Zenon
<1> DEFINE p == Pick(U)
           V == U \ {p}
<1>5. p \in U /\ U \in SUBSET T /\ V \in SUBSET T
  BY <1>2, <1>4, PickIn
<1>6. SumFunctionOnSet(f, S \cup V) =
        SumFunctionOnSet(f, S) + SumFunctionOnSet(f, V)
  BY <1>2, <1>5
<1>7. IsFiniteSet(U) /\ IsFiniteSet(V) /\ IsFiniteSet(S \cup V)
  BY <1>5, FS_Subset, FS_Union
<1>8. SumFunctionOnSet(f, U) = f[p] + SumFunctionOnSet(f, V)
  BY <1>4, <1>7, SumPick
<1>9. SumFunctionOnSet(f, (S \cup V) \cup {p}) =
        f[p] + SumFunctionOnSet(f, S \cup V)
  <2>1. p \notin S \cup V /\ \A y \in (S \cup V) \cup {p} : f[y] \in Int
    BY <1>5
  <2> HIDE DEF p, V
  <2> QED BY <1>7, <2>1, SumAdd
<1>10. (S \cup V) \cup {p} = S \cup U
  BY <1>5
<1>11. SumFunctionOnSet(f, V) \in Int /\ f[p] \in Int
  BY <1>5, <1>7, SumInt
<1>12. SumFunctionOnSet(f, S \cup U) #
         SumFunctionOnSet(f, S) + SumFunctionOnSet(f, U)
  BY <1>2
<1> DEFINE a == SumFunctionOnSet(f, S)
           b == SumFunctionOnSet(f, V)
<1>13. SumFunctionOnSet(f, S \cup U) = f[p] + (a + b)
  BY <1>6, <1>9, <1>10
<1>14. a + SumFunctionOnSet(f, U) = a + (f[p] + b)
  BY <1>8
<1>15. a \in Int /\ b \in Int /\ f[p] \in Int
  BY <1>3, <1>11
<1> HIDE DEF p, V, P, a, b
<1>16. f[p] + (a + b) = a + (f[p] + b)
  BY <1>15
<1> QED
  BY <1>12, <1>13, <1>14, <1>16 DEF a

LEMMA SumSplit ==
  ASSUME NEW f, NEW S, IsFiniteSet(S), \A x \in S : f[x] \in Int,
         NEW T \in SUBSET S
  PROVE  SumFunctionOnSet(f, S) =
           SumFunctionOnSet(f, T) + SumFunctionOnSet(f, S \ T)
<1>1. IsFiniteSet(T) /\ IsFiniteSet(S \ T)
  BY FS_Subset
<1>2. T \cup (S \ T) = S /\ T \cap (S \ T) = {}
  OBVIOUS
<1> QED
  BY <1>1, <1>2, SumUnion

-----------------------------------------------------------------------------
(* Sequences.                                                              *)

\* how many places of I there are up to i
Rank(I, i) == Cardinality(I \cap 1..i)

LEMMA RankProperties ==
  ASSUME NEW N \in Nat, NEW I \in SUBSET (1..N)
  PROVE  /\ IsFiniteSet(I) /\ Cardinality(I) \in Nat /\ Cardinality(I) <= N
         /\ \A i \in I : Rank(I, i) \in 1..Cardinality(I)
         /\ \A i, j \in I : i < j => Rank(I, i) < Rank(I, j)
         /\ \A n \in 1..Cardinality(I) : \E i \in I : Rank(I, i) = n
<1> DEFINE C == Cardinality(I)
           r == [i \in I |-> Rank(I, i)]
<1>1. IsFiniteSet(I) /\ C \in Nat /\ C <= N
  <2>1. IsFiniteSet(1..N) /\ Cardinality(1..N) = N
    BY FS_Interval
  <2> QED BY <2>1, FS_Subset, FS_CardinalityType
<1>2. ASSUME NEW i \in I
      PROVE  Rank(I, i) \in 1..C
  <2> DEFINE T == I \cap 1..i
  <2>1. IsFiniteSet(T) /\ Cardinality(T) <= C
    BY <1>1, FS_Subset
  <2>2. i \in T
    OBVIOUS
  <2>3. Cardinality(T) # 0 /\ Cardinality(T) \in Nat
    <3> HIDE DEF T
    <3> QED BY <2>1, <2>2, FS_EmptySet, FS_CardinalityType
  <2> HIDE DEF C
  <2> QED BY <1>1, <2>1, <2>3 DEF Rank
<1>3. ASSUME NEW i \in I, NEW j \in I, i < j
      PROVE  Rank(I, i) < Rank(I, j)
  <2> DEFINE T == I \cap 1..i
             U == I \cap 1..j
  <2>1. T \subseteq U /\ j \in U /\ j \notin T /\ U \subseteq I
    BY <1>3
  <2>2. IsFiniteSet(U) /\ IsFiniteSet(T)
    <3> HIDE DEF T, U
    <3> QED BY <1>1, <2>1, FS_Subset
  <2>3. Cardinality(T) <= Cardinality(U) /\ Cardinality(T) # Cardinality(U)
    <3> HIDE DEF T, U
    <3> QED BY <2>1, <2>2, FS_Subset
  <2>4. Cardinality(T) \in Nat /\ Cardinality(U) \in Nat
    BY <2>2, FS_CardinalityType
  <2> HIDE DEF T, U
  <2> QED BY <2>3, <2>4 DEF Rank, T, U
<1>4. r \in Injection(I, 1..C)
  <2>1. r \in [I -> 1..C]
    BY <1>2
  <2>2. \A i, j \in I : r[i] = r[j] => i = j
    <3> SUFFICES ASSUME NEW i \in I, NEW j \in I, i # j
                 PROVE  r[i] # r[j]
      OBVIOUS
    <3>1. i < j \/ j < i
      OBVIOUS
    <3>2. r[i] = Rank(I, i) /\ r[j] = Rank(I, j)
      OBVIOUS
    <3>3. r[i] \in Nat /\ r[j] \in Nat
      <4> HIDE DEF r, C
      <4> QED BY <1>1, <2>1
    <3> HIDE DEF r, C
    <3> QED BY <1>3, <3>1, <3>2, <3>3
  <2> HIDE DEF r, C
  <2> QED BY <2>1, <2>2, Fun_IsInj
<1>5. r \in Surjection(I, 1..C)
  <2>1. IsFiniteSet(1..C) /\ Cardinality(1..C) = C
    BY <1>1, FS_Interval
  <2> HIDE DEF r
  <2> QED BY <1>4, <2>1, FS_Injection
<1>6. \A n \in 1..C : \E i \in I : r[i] = n
  <2> HIDE DEF r, C
  <2> QED BY <1>5 DEF Surjection
<1> QED
  BY <1>1, <1>2, <1>3, <1>6

\* At keeps the elements at the places in I and their order.
LEMMA AtPlaces ==
  ASSUME NEW S, NEW seq \in Seq(S), NEW I \in SUBSET DOMAIN seq
  PROVE  /\ IsFiniteSet(I) /\ Cardinality(I) \in Nat
         /\ Cardinality(I) <= Len(seq)
         /\ \E h \in [1..Cardinality(I) -> I] :
              /\ \A n, m \in 1..Cardinality(I) : n < m => h[n] < h[m]
              /\ \A i \in I : \E n \in 1..Cardinality(I) : h[n] = i
              /\ At(seq, I) = [n \in 1..Cardinality(I) |-> seq[h[n]]]
<1>1. PICK N \in Nat : N = Len(seq)
  OBVIOUS
<1>2. DOMAIN seq = 1..N /\ I \in SUBSET (1..N)
  BY <1>1
<1> DEFINE C == Cardinality(I)
           h == [n \in 1..C |-> CHOOSE i \in I : Rank(I, i) = n]
<1>3. /\ IsFiniteSet(I) /\ C \in Nat /\ C <= N
      /\ \A i \in I : Rank(I, i) \in 1..C
      /\ \A i, j \in I : i < j => Rank(I, i) < Rank(I, j)
      /\ \A n \in 1..C : \E i \in I : Rank(I, i) = n
  BY <1>2, RankProperties
<1> HIDE DEF C
<1>4. h \in [1..C -> I] /\ \A n \in 1..C : Rank(I, h[n]) = n
  BY <1>3
<1>5. At(seq, I) = [n \in 1..C |-> seq[h[n]]]
  BY DEF At, Rank, C
<1> HIDE DEF h
<1>6. ASSUME NEW n \in 1..C, NEW m \in 1..C, n < m
      PROVE  h[n] < h[m]
  <2>1. h[n] \in I /\ h[m] \in I /\ h[n] \in Int /\ h[m] \in Int
    BY <1>2, <1>4
  <2>2. n \in Int /\ m \in Int /\ Rank(I, h[n]) = n /\ Rank(I, h[m]) = m
    BY <1>4
  <2>3. h[n] # h[m]
    BY <1>6, <2>2
  <2>4. ~(h[m] < h[n])
    BY <1>3, <1>6, <2>1, <2>2
  <2> QED BY <2>1, <2>3, <2>4
<1>7. ASSUME NEW i \in I
      PROVE  \E n \in 1..C : h[n] = i
  <2> DEFINE n == Rank(I, i)
  <2>1. n \in 1..C /\ h[n] \in I /\ Rank(I, h[n]) = n
    BY <1>3, <1>4
  <2>2. h[n] \in Int /\ i \in Int /\ Rank(I, i) \in Int
    BY <1>2, <1>3, <2>1
  <2>3. h[n] = i
    <3> HIDE DEF n
    <3>1. ~(h[n] < i) /\ ~(i < h[n])
      BY <1>3, <2>1, <2>2 DEF n
    <3> QED BY <2>2, <3>1
  <2> QED BY <2>1, <2>3
<1> QED
  BY <1>1, <1>3, <1>4, <1>5, <1>6, <1>7 DEF C

LEMMA AtSeq ==
  ASSUME NEW S, NEW seq \in Seq(S), NEW I \in SUBSET DOMAIN seq
  PROVE  /\ At(seq, I) \in Seq(S) /\ Len(At(seq, I)) = Cardinality(I)
         /\ ToSet(At(seq, I)) = {seq[i] : i \in I}
         /\ IsInjective(seq) => IsInjective(At(seq, I))
<1> DEFINE C == Cardinality(I)
<1>1. IsFiniteSet(I) /\ C \in Nat
  BY AtPlaces
<1>2. PICK h \in [1..C -> I] :
        /\ \A n, m \in 1..C : n < m => h[n] < h[m]
        /\ \A i \in I : \E n \in 1..C : h[n] = i
        /\ At(seq, I) = [n \in 1..C |-> seq[h[n]]]
  BY AtPlaces
<1> HIDE DEF C
<1>3. \A n \in 1..C : seq[h[n]] \in S
  BY <1>2
<1>4. At(seq, I) \in [1..C -> S]
  BY <1>2, <1>3
<1>5. At(seq, I) \in Seq(S) /\ Len(At(seq, I)) = C
  BY <1>1, <1>4
<1>6. ToSet(At(seq, I)) = {seq[i] : i \in I}
  BY <1>2 DEF ToSet
<1>7. ASSUME IsInjective(seq)
      PROVE  IsInjective(At(seq, I))
  <2> SUFFICES ASSUME NEW n \in 1..C, NEW m \in 1..C, n # m
               PROVE  At(seq, I)[n] # At(seq, I)[m]
    BY <1>2 DEF IsInjective
  <2>1. h[n] # h[m]
    <3>1. n < m \/ m < n
      BY <1>1
    <3>2. h[n] < h[m] \/ h[m] < h[n]
      BY <1>2, <3>1
    <3>3. h[n] \in Int
      BY <1>2
    <3> QED BY <3>2, <3>3
  <2>2. h[n] \in DOMAIN seq /\ h[m] \in DOMAIN seq
    BY <1>2
  <2> QED BY <1>2, <1>7, <2>1, <2>2 DEF IsInjective
<1> QED
  BY <1>5, <1>6, <1>7 DEF C

LEMMA InsertAtIs ==
  ASSUME NEW S, NEW seq \in Seq(S), NEW N \in Nat, Len(seq) = N,
         NEW k \in 0..N, NEW a \in S
  PROVE  InsertAt(seq, k + 1, a) =
           [i \in 1..(N + 1) |->
              IF i <= k THEN seq[i] ELSE IF i = k + 1 THEN a ELSE seq[i - 1]]
<1> DEFINE front == SubSeq(seq, 1, k)
           back == SubSeq(seq, k + 1, N)
           head == front \o <<a>>
           g == [i \in 1..(N + 1) |->
                   IF i <= k THEN seq[i] ELSE IF i = k + 1 THEN a
                   ELSE seq[i - 1]]
<1>1. InsertAt(seq, k + 1, a) = head \o back
  BY DEF InsertAt
<1>2. \A i \in 1..N : seq[i] \in S
  OBVIOUS
<1>3. front = [i \in 1..k |-> seq[i]]
  OBVIOUS
<1>4. back = [i \in 1..(1 + N - (k + 1)) |-> seq[i + (k + 1) - 1]]
  OBVIOUS
<1>5. back = [i \in 1..(N - k) |-> seq[k + i]]
  BY <1>4
<1> HIDE DEF front, back
<1>6. front \in Seq(S) /\ Len(front) = k
  BY <1>2, <1>3
<1>7. back \in Seq(S) /\ Len(back) = N - k
  BY <1>2, <1>5
<1>8. /\ head \in Seq(S) /\ Len(head) = k + 1
      /\ \A i \in 1..(k + 1) : head[i] = IF i <= k THEN seq[i] ELSE a
  BY <1>3, <1>6
<1> HIDE DEF head
<1> DEFINE c == head \o back
<1>9. /\ c \in Seq(S) /\ Len(c) = N + 1
      /\ \A i \in 1..(N + 1) :
           c[i] = IF i <= k + 1 THEN head[i] ELSE back[i - (k + 1)]
  <2>1. /\ head \o back \in Seq(S)
        /\ Len(head \o back) = Len(head) + Len(back)
        /\ \A i \in 1..(Len(head) + Len(back)) : (head \o back)[i] =
             IF i <= Len(head) THEN head[i] ELSE back[i - Len(head)]
    BY <1>7, <1>8, ConcatProperties
  <2>2. Len(head) + Len(back) = N + 1
    BY <1>7, <1>8
  <2> HIDE DEF c
  <2>3. /\ c \in Seq(S) /\ Len(c) = Len(head) + Len(back)
        /\ \A i \in 1..(Len(head) + Len(back)) :
             c[i] = IF i <= Len(head) THEN head[i] ELSE back[i - Len(head)]
    BY <2>1 DEF c
  <2> QED BY <1>8, <2>2, <2>3
<1> HIDE DEF c
<1>10. c = [i \in 1..(N + 1) |-> c[i]]
  BY <1>9
<1>11. ASSUME NEW i \in 1..(N + 1)
       PROVE  c[i] = g[i]
  <2>1. CASE i <= k
    BY <1>8, <1>9, <2>1
  <2>2. CASE i = k + 1
    BY <1>8, <1>9, <2>2
  <2>3. CASE i > k + 1
    <3>1. i - (k + 1) \in 1..(N - k) /\ k + (i - (k + 1)) = i - 1
      BY <2>3
    <3>2. back[i - (k + 1)] = seq[i - 1]
      BY <1>5, <3>1
    <3>3. c[i] = seq[i - 1]
      BY <1>9, <2>3, <3>2
    <3>4. g[i] = seq[i - 1]
      BY <2>3
    <3> QED BY <3>3, <3>4
  <2> QED BY <2>1, <2>2, <2>3
<1>12. g = [i \in 1..(N + 1) |-> g[i]]
  OBVIOUS
<1> HIDE DEF g
<1>13. c = g
  BY <1>10, <1>11, <1>12
<1> QED
  BY <1>1, <1>13 DEF c, g

LEMMA SumAt ==
  ASSUME NEW seq \in Seq(Int), NEW I \in SUBSET DOMAIN seq
  PROVE  SumFunction(At(seq, I)) = SumFunctionOnSet(seq, I)
<1> DEFINE C == Cardinality(I)
           f == At(seq, I)
<1>1. IsFiniteSet(I) /\ C \in Nat
  BY AtPlaces
<1>2. PICK h :
        /\ h \in [1..C -> I]
        /\ \A n, m \in 1..C : n < m => h[n] < h[m]
        /\ \A i \in I : \E n \in 1..C : h[n] = i
        /\ f = [n \in 1..C |-> seq[h[n]]]
  BY AtPlaces
<1> HIDE DEF C, f
<1>3. DOMAIN f = 1..C /\ IsFiniteSet(1..C)
  BY <1>1, <1>2, FS_Interval
<1>4. \A n, m \in 1..C : h[n] = h[m] => n = m
  <2> SUFFICES ASSUME NEW n \in 1..C, NEW m \in 1..C, n # m
               PROVE  h[n] # h[m]
    OBVIOUS
  <2>1. n < m \/ m < n
    BY <1>1
  <2>2. h[n] < h[m] \/ h[m] < h[n]
    BY <1>2, <2>1
  <2>3. h[n] \in Int
    BY <1>2
  <2> QED BY <2>2, <2>3
<1>5. \A n \in 1..C : f[n] \in Int /\ seq[h[n]] = f[n]
  BY <1>2
<1>6. SumFunctionOnSet(seq, I) = SumFunctionOnSet(f, 1..C)
  <2> DEFINE D == 1..C
  <2> HIDE DEF D
  <2>1. IsFiniteSet(D) /\ h \in [D -> I]
    BY <1>2, <1>3 DEF D
  <2>2. \A n, m \in D : h[n] = h[m] => n = m
    BY <1>4 DEF D
  <2>3. \A i \in I : \E n \in D : h[n] = i
    BY <1>2 DEF D
  <2>4. \A n \in D : f[n] \in Int /\ seq[h[n]] = f[n]
    BY <1>5 DEF D
  <2>5. SumFunctionOnSet(seq, I) = SumFunctionOnSet(f, D)
    BY <2>1, <2>2, <2>3, <2>4, SumImage
  <2> QED BY <2>5 DEF D
<1> QED
  BY <1>3, <1>6 DEF SumFunction, f

\* The sequences the wallet may be: amounts, largest first.
Wallets ==
  {seq \in Seq(Nat \ {0}) :
     \A i, j \in DOMAIN seq : i < j => seq[i] >= seq[j]}

\* The large amounts are in front.
LEMMA LargeInFront ==
  ASSUME NEW seq \in Wallets, NEW a \in Nat
  PROVE  \E k \in 0..Len(seq) :
           /\ k = Cardinality({i \in DOMAIN seq : seq[i] >= a})
           /\ \A i \in DOMAIN seq : seq[i] >= a <=> i <= k
<1>1. PICK N \in Nat : N = Len(seq)
  BY DEF Wallets
<1>2. DOMAIN seq = 1..N /\ \A i \in 1..N : seq[i] \in Nat
  BY <1>1 DEF Wallets
<1> DEFINE J == {i \in 1..N : seq[i] >= a}
           T == {n \in 1..(N + 1) : n \notin J}
<1>3. PICK m \in T : \A n \in T : m <= n
  <2>1. N + 1 \in T /\ T \in SUBSET Nat
    OBVIOUS
  <2> HIDE DEF T
  <2> QED BY <2>1, LeastNumber
<1>4. ASSUME NEW i \in 1..N
      PROVE  seq[i] >= a <=> i <= m - 1
  <2>1. CASE i < m
    <3>1. i \in J
      BY <1>3, <2>1
    <3> QED BY <2>1, <3>1, <1>3
  <2>2. CASE m <= i
    <3>1. m \in 1..N /\ ~(seq[m] >= a)
      BY <1>3, <2>2
    <3>2. seq[m] >= seq[i]
      BY <1>2, <2>2, <3>1 DEF Wallets
    <3>3. seq[m] \in Nat /\ seq[i] \in Nat
      BY <1>2, <3>1
    <3> QED BY <2>2, <3>1, <3>2, <3>3
  <2>3. i \in Int /\ m \in Int
    BY <1>3
  <2> QED BY <2>1, <2>2, <2>3
<1>5. J = 1..(m - 1)
  <2>1. m - 1 <= N /\ m \in Nat
    BY <1>3
  <2> QED BY <1>4, <2>1
<1>6. Cardinality(J) = m - 1
  <2>1. m - 1 \in Nat
    BY <1>3
  <2> HIDE DEF J
  <2> QED BY <1>5, <2>1, FS_Interval
<1>7. m - 1 \in 0..N
  BY <1>3
<1> QED
  BY <1>1, <1>2, <1>4, <1>6, <1>7

LEMMA ReceivedWallet ==
  ASSUME NEW seq \in Wallets, NEW a \in Nat \ {0}
  PROVE  /\ Received(seq, a) \in Wallets
         /\ SumFunction(Received(seq, a)) = SumFunction(seq) + a
<1>1. PICK N \in Nat : N = Len(seq)
  BY DEF Wallets
<1>2. DOMAIN seq = 1..N /\ \A i \in 1..N : seq[i] \in Nat \ {0}
  BY <1>1 DEF Wallets
<1>3. PICK k \in 0..N :
        /\ k = Cardinality({i \in DOMAIN seq : seq[i] >= a})
        /\ \A i \in 1..N : seq[i] >= a <=> i <= k
  BY <1>1, <1>2, LargeInFront
<1> DEFINE g == [i \in 1..(N + 1) |->
                   IF i <= k THEN seq[i] ELSE IF i = k + 1 THEN a
                   ELSE seq[i - 1]]
<1>4. Received(seq, a) = g
  <2>1. 1 + k = k + 1 /\ seq \in Seq(Nat \ {0})
    BY <1>3 DEF Wallets
  <2>2. Received(seq, a) = InsertAt(seq, k + 1, a)
    BY <1>3, <2>1 DEF Received
  <2> DEFINE A == Nat \ {0}
  <2> HIDE DEF A
  <2>3. seq \in Seq(A) /\ a \in A /\ Len(seq) = N
    BY <1>1, <2>1 DEF A
  <2>4. InsertAt(seq, k + 1, a) = g
    BY <2>3, InsertAtIs
  <2> QED BY <2>2, <2>4
<1>5. \A i \in 1..(N + 1) : g[i] \in Nat \ {0}
  BY <1>2, <1>3
<1>6. g \in Wallets
  <2>1. g \in Seq(Nat \ {0}) /\ DOMAIN g = 1..(N + 1)
    BY <1>5
  <2>2. ASSUME NEW i \in 1..(N + 1), NEW j \in 1..(N + 1), i < j
        PROVE  g[i] >= g[j]
    <3>1. CASE j <= k
      <4>1. g[i] = seq[i] /\ g[j] = seq[j] /\ i \in 1..N /\ j \in 1..N
        BY <1>3, <2>2, <3>1
      <4>2. seq[i] >= seq[j]
        BY <1>2, <2>2, <4>1 DEF Wallets
      <4> QED BY <4>1, <4>2
    <3>2. CASE j = k + 1
      <4>1. g[i] = seq[i] /\ g[j] = a /\ i \in 1..N /\ i <= k
        BY <1>3, <2>2, <3>2
      <4> QED BY <1>3, <4>1
    <3>3. CASE j > k + 1 /\ i = k + 1
      <4>1. g[j] = seq[j - 1] /\ g[i] = a /\ j - 1 \in 1..N /\ j - 1 > k
        BY <1>3, <2>2, <3>3
      <4>2. ~(seq[j - 1] >= a) /\ seq[j - 1] \in Nat
        BY <1>2, <1>3, <4>1
      <4> QED BY <4>1, <4>2
    <3>4. CASE j > k + 1 /\ i # k + 1
      <4> DEFINE x == IF i <= k THEN i ELSE i - 1
      <4>1. g[j] = seq[j - 1] /\ j - 1 \in 1..N
        BY <1>3, <2>2, <3>4
      <4>2. g[i] = seq[x] /\ x \in 1..N /\ x < j - 1
        BY <1>3, <2>2, <3>4
      <4> HIDE DEF x
      <4>3. seq[x] >= seq[j - 1]
        BY <1>2, <4>1, <4>2 DEF Wallets
      <4> QED BY <4>1, <4>2, <4>3
    <3> QED BY <1>3, <3>1, <3>2, <3>3, <3>4
  <2> HIDE DEF g
  <2> QED BY <2>1, <2>2 DEF Wallets
<1>7. SumFunctionOnSet(g, 1..(N + 1)) = a + SumFunctionOnSet(seq, 1..N)
  <2> DEFINE D == 1..N
             E == 1..(N + 1)
             R == E \ {k + 1}
             h == [i \in D |-> IF i <= k THEN i ELSE i + 1]
  <2>1. IsFiniteSet(D) /\ IsFiniteSet(E)
    BY FS_Interval
  <2>2. /\ h \in [D -> R]
        /\ \A i, j \in D : h[i] = h[j] => i = j
        /\ \A j \in R : \E i \in D : h[i] = j
        /\ \A i \in D : seq[i] \in Int /\ g[h[i]] = seq[i]
    <3>1. h \in [D -> R]
      BY <1>3
    <3>2. \A i, j \in D : h[i] = h[j] => i = j
      BY <1>3
    <3>3. ASSUME NEW j \in R
          PROVE  \E i \in D : h[i] = j
      <4> DEFINE i == IF j <= k THEN j ELSE j - 1
      <4>1. i \in D /\ h[i] = j
        BY <1>3, <3>3
      <4> QED BY <4>1
    <3>4. \A i \in D : seq[i] \in Int /\ g[h[i]] = seq[i]
      BY <1>2, <1>3
    <3> QED BY <3>1, <3>2, <3>3, <3>4
  <2>3. k + 1 \in E /\ g[k + 1] = a /\ \A i \in E : g[i] \in Int
    BY <1>3, <1>5
  <2> HIDE DEF g, D, E, R, h
  <2>4. SumFunctionOnSet(g, R) = SumFunctionOnSet(seq, D)
    BY <2>1, <2>2, SumImage
  <2>5. SumFunctionOnSet(g, E) = g[k + 1] + SumFunctionOnSet(g, R)
    BY <2>1, <2>3, SumRemove DEF R
  <2> QED BY <2>3, <2>4, <2>5 DEF D, E
<1>8. DOMAIN g = 1..(N + 1)
  OBVIOUS
<1>9. SumFunctionOnSet(seq, 1..N) \in Int
  <2> DEFINE D == 1..N
  <2>1. IsFiniteSet(D) /\ \A i \in D : seq[i] \in Int
    BY <1>2, FS_Interval
  <2> HIDE DEF D
  <2>2. SumFunctionOnSet(seq, D) \in Int
    BY <2>1, SumInt
  <2> QED BY <2>2 DEF D
<1> HIDE DEF g
<1>10. SumFunction(g) = SumFunction(seq) + a
  BY <1>2, <1>7, <1>8, <1>9 DEF SumFunction
<1> QED
  BY <1>4, <1>6, <1>10

LEMMA SumLess ==
  ASSUME NEW f, NEW g, NEW S, IsFiniteSet(S),
         \A x \in S : f[x] \in Int /\ g[x] \in Int /\ f[x] <= g[x]
  PROVE  SumFunctionOnSet(f, S) <= SumFunctionOnSet(g, S)
<1> DEFINE P == {T \in SUBSET S :
                   ~(SumFunctionOnSet(f, T) <= SumFunctionOnSet(g, T))}
<1>1. SUFFICES ASSUME P # {}
               PROVE  FALSE
  OBVIOUS
<1>2. PICK T \in P : \A U \in P : U \subseteq T => U = T
  <2>1. P \in SUBSET SUBSET S
    OBVIOUS
  <2> HIDE DEF P
  <2> QED BY <1>1, <2>1, MinimalSet
<1>3. T # {}
  <2>1. SumFunctionOnSet(f, {}) <= SumFunctionOnSet(g, {})
    BY SumEmpty
  <2> QED BY <1>2, <2>1
<1> DEFINE p == Pick(T)
           U == T \ {p}
<1>4. p \in T /\ T \in SUBSET S /\ U \in SUBSET S
  BY <1>2, <1>3, PickIn
<1>5. SumFunctionOnSet(f, U) <= SumFunctionOnSet(g, U)
  BY <1>2, <1>4
<1>6. IsFiniteSet(T) /\ IsFiniteSet(U)
  BY <1>4, FS_Subset
<1>7. /\ SumFunctionOnSet(f, T) = f[p] + SumFunctionOnSet(f, U)
      /\ SumFunctionOnSet(g, T) = g[p] + SumFunctionOnSet(g, U)
  BY <1>3, <1>6, SumPick
<1>8. SumFunctionOnSet(f, U) \in Int /\ SumFunctionOnSet(g, U) \in Int
  BY <1>4, <1>6, SumInt
<1>9. f[p] \in Int /\ g[p] \in Int /\ f[p] <= g[p]
  BY <1>4
<1>10. SumFunctionOnSet(f, T) <= SumFunctionOnSet(g, T)
  <2> HIDE DEF U, p
  <2> QED BY <1>5, <1>7, <1>8, <1>9
<1> QED
  BY <1>2, <1>10

LEMMA WalletPlaces ==
  ASSUME NEW seq \in Wallets, NEW I \in SUBSET DOMAIN seq
  PROVE  /\ seq \in Seq(Int) /\ seq \in Seq(Nat \ {0})
         /\ IsFiniteSet(DOMAIN seq) /\ IsFiniteSet(I)
         /\ \A i \in DOMAIN seq : seq[i] \in Nat \ {0}
         /\ SumFunctionOnSet(seq, I) \in Int /\ SumFunction(seq) \in Int
<1>1. seq \in Seq(Int) /\ seq \in Seq(Nat \ {0})
  BY DEF Wallets
<1>2. \A i \in DOMAIN seq : seq[i] \in Nat \ {0}
  BY <1>1
<1>3. IsFiniteSet(DOMAIN seq)
  <2>1. PICK N \in Nat : N = Len(seq)
    BY <1>1
  <2>2. DOMAIN seq = 1..N
    BY <1>1, <2>1
  <2> QED BY <2>2, FS_Interval
<1>4. IsFiniteSet(I)
  BY <1>3, FS_Subset
<1>5. SumFunctionOnSet(seq, I) \in Int
  BY <1>2, <1>4, SumInt
<1>6. SumFunctionOnSet(seq, DOMAIN seq) \in Int
  BY <1>2, <1>3, SumInt
<1> QED
  BY <1>1, <1>2, <1>3, <1>4, <1>5, <1>6 DEF SumFunction

LEMMA AtWallet ==
  ASSUME NEW seq \in Wallets, NEW I \in SUBSET DOMAIN seq
  PROVE  At(seq, I) \in Wallets
<1>1. seq \in Seq(Nat \ {0})
  BY WalletPlaces
<1>2. At(seq, I) \in Seq(Nat \ {0})
  BY <1>1, AtSeq
<1> DEFINE C == Cardinality(I)
<1>3. PICK h : /\ h \in [1..C -> I]
               /\ \A n, m \in 1..C : n < m => h[n] < h[m]
               /\ At(seq, I) = [n \in 1..C |-> seq[h[n]]]
  BY <1>1, AtPlaces
<1> HIDE DEF C
<1>4. ASSUME NEW n \in 1..C, NEW m \in 1..C, n < m
      PROVE  At(seq, I)[n] >= At(seq, I)[m]
  <2>1. h[n] \in DOMAIN seq /\ h[m] \in DOMAIN seq /\ h[n] < h[m]
    BY <1>3, <1>4
  <2>2. seq[h[n]] >= seq[h[m]]
    BY <2>1 DEF Wallets
  <2> QED BY <1>3, <2>2
<1>5. DOMAIN At(seq, I) = 1..C
  BY <1>3
<1> QED
  BY <1>2, <1>4, <1>5 DEF Wallets

\* What is spent leaves the wallet, the rest stays in order.
LEMMA SpentWallet ==
  ASSUME wallet \in Wallets, NEW I \in SUBSET DOMAIN wallet
  PROVE  /\ Spent(I) \in Wallets
         /\ SumFunction(Spent(I)) = SumFunction(wallet) - Amount(I)
<1>1. Spent(I) \in Wallets
  BY AtWallet DEF Spent
<1>2. /\ wallet \in Seq(Int) /\ IsFiniteSet(DOMAIN wallet)
      /\ \A i \in DOMAIN wallet : wallet[i] \in Int
      /\ SumFunctionOnSet(wallet, I) \in Int
      /\ SumFunctionOnSet(wallet, DOMAIN wallet \ I) \in Int
  BY WalletPlaces
<1>3. SumFunction(Spent(I)) = SumFunctionOnSet(wallet, DOMAIN wallet \ I)
  BY <1>2, SumAt DEF Spent
<1>4. SumFunctionOnSet(wallet, DOMAIN wallet) =
        SumFunctionOnSet(wallet, I)
          + SumFunctionOnSet(wallet, DOMAIN wallet \ I)
  BY <1>2, SumSplit
<1> QED
  BY <1>1, <1>2, <1>3, <1>4 DEF SumFunction, Amount

LEMMA SumOfOne ==
  ASSUME NEW f, NEW x, f[x] \in Int
  PROVE  SumFunctionOnSet(f, {x}) = f[x]
<1>1. {} \cup {x} = {x}
  OBVIOUS
<1>2. SumFunctionOnSet(f, {} \cup {x}) = f[x] + SumFunctionOnSet(f, {})
  BY FS_EmptySet, SumAdd
<1> QED
  BY <1>1, <1>2, SumEmpty

\* What findUTXOs finds is enough and not too many.
LEMMA FoundIsEnough ==
  ASSUME wallet \in Wallets, NEW v \in Nat \ {0}, NEW I \in findUTXOs(v)
  PROVE  /\ I \in SUBSET DOMAIN wallet /\ Amount(I) \in Int /\ Amount(I) >= v
         /\ Cardinality(I) \in 1..MaxInputs
<1>1. MaxInputs \in Nat \ {0}
  BY WalletAssumption
<1>2. CASE \E i \in DOMAIN wallet : wallet[i] >= v /\ I = {i}
  <2>1. PICK i \in DOMAIN wallet : wallet[i] >= v /\ I = {i}
    BY <1>2
  <2>2. wallet[i] \in Int
    <3>1. {i} \in SUBSET DOMAIN wallet
      OBVIOUS
    <3>2. \A j \in DOMAIN wallet : wallet[j] \in Nat \ {0}
      BY <3>1, WalletPlaces
    <3> QED BY <3>2
  <2>3. Amount(I) = wallet[i]
    BY <2>1, <2>2, SumOfOne DEF Amount
  <2>4. Cardinality(I) = 1
    BY <2>1, FS_Singleton
  <2> QED BY <1>1, <2>1, <2>2, <2>3, <2>4
<1>3. CASE I \in Greedy(v) /\ Cardinality(I) <= MaxInputs
  <2>1. PICK n \in DOMAIN wallet : I = 1..n
    BY <1>3 DEF Greedy
  <2>2. PICK N \in Nat : DOMAIN wallet = 1..N
    BY DEF Wallets
  <2>3. I \in SUBSET DOMAIN wallet
    BY <2>1, <2>2
  <2>4. Cardinality(I) = n /\ n \in Nat \ {0}
    BY <2>1, <2>2, FS_Interval
  <2>5. Amount(I) >= v
    BY <1>3 DEF Greedy
  <2>6. Amount(I) \in Int
    BY <2>3, WalletPlaces DEF Amount
  <2> QED BY <1>1, <1>3, <2>3, <2>4, <2>5, <2>6
<1> QED
  BY <1>2, <1>3 DEF findUTXOs

\* No outputs are worth more than as many of the largest ones.
LEMMA LargestAreMost ==
  ASSUME wallet \in Wallets, NEW J \in SUBSET DOMAIN wallet
  PROVE  /\ 1..Cardinality(J) \in SUBSET DOMAIN wallet
         /\ Amount(1..Cardinality(J)) >= Amount(J)
<1> DEFINE C == Cardinality(J)
           f == At(wallet, J)
<1>1. PICK N \in Nat : N = Len(wallet) /\ DOMAIN wallet = 1..N
  BY DEF Wallets
<1>2. /\ wallet \in Seq(Int) /\ C \in Nat /\ C <= N
      /\ \A i \in 1..N : wallet[i] \in Int
  <2>1. /\ wallet \in Seq(Int)
        /\ \A i \in DOMAIN wallet : wallet[i] \in Nat \ {0}
    BY WalletPlaces
  <2>2. C \in Nat /\ C <= Len(wallet)
    BY <2>1, AtPlaces
  <2> HIDE DEF C
  <2> QED BY <1>1, <2>1, <2>2
<1>3. PICK h : /\ h \in [1..C -> J]
               /\ \A n, m \in 1..C : n < m => h[n] < h[m]
               /\ f = [n \in 1..C |-> wallet[h[n]]]
  BY <1>2, AtPlaces
<1> HIDE DEF C, f
<1>4. \A n \in 1..C : h[n] >= n
  <2> DEFINE T == {n \in 1..C : h[n] < n}
  <2>1. SUFFICES ASSUME T # {}
                 PROVE  FALSE
    <3>1. \A n \in 1..C : h[n] \in Int
      BY <1>1, <1>3
    <3> QED BY <3>1
  <2>2. T \in SUBSET Nat
    BY <1>2
  <2>3. PICK n \in T : \A k \in T : n <= k
    <3> HIDE DEF T
    <3> QED BY <2>1, <2>2, LeastNumber
  <2>4. n \in 1..C /\ h[n] < n /\ h[n] \in 1..N
    BY <1>1, <1>3
  <2>5. n > 1
    BY <1>2, <2>4
  <2>6. n - 1 \in 1..C /\ n - 1 < n
    BY <1>2, <2>4, <2>5
  <2>7. ~(h[n - 1] < n - 1)
    BY <2>3, <2>6, <1>2
  <2>8. h[n - 1] < h[n] /\ h[n - 1] \in 1..N
    BY <1>1, <1>3, <2>4, <2>6
  <2> QED BY <1>2, <2>4, <2>7, <2>8
<1>5. \A n \in 1..C : f[n] \in Int /\ wallet[n] \in Int /\ f[n] <= wallet[n]
  <2> SUFFICES ASSUME NEW n \in 1..C
               PROVE  f[n] \in Int /\ wallet[n] \in Int /\ f[n] <= wallet[n]
    OBVIOUS
  <2>1. n \in 1..N /\ h[n] \in 1..N /\ h[n] >= n
    BY <1>1, <1>2, <1>3, <1>4
  <2>2. h[n] = n \/ n < h[n]
    BY <2>1
  <2>3. wallet[n] \in Int /\ wallet[h[n]] \in Int /\ f[n] = wallet[h[n]]
    BY <1>2, <1>3, <2>1
  <2>4. n < h[n] => wallet[n] >= wallet[h[n]]
    BY <1>1, <2>1 DEF Wallets
  <2> QED BY <2>2, <2>3, <2>4
<1>6. SumFunctionOnSet(f, 1..C) <= SumFunctionOnSet(wallet, 1..C)
  <2> DEFINE D == 1..C
  <2>1. IsFiniteSet(D)
    BY <1>2, FS_Interval
  <2>2. \A n \in D : f[n] \in Int /\ wallet[n] \in Int /\ f[n] <= wallet[n]
    BY <1>5
  <2> HIDE DEF D
  <2>3. SumFunctionOnSet(f, D) <= SumFunctionOnSet(wallet, D)
    BY <2>1, <2>2, SumLess
  <2> QED BY <2>3 DEF D
<1>7. SumFunctionOnSet(f, 1..C) = SumFunctionOnSet(wallet, J)
  <2>1. DOMAIN f = 1..C
    BY <1>3
  <2>2. SumFunction(At(wallet, J)) = SumFunctionOnSet(wallet, J)
    BY <1>2, SumAt
  <2> QED BY <2>1, <2>2 DEF f, SumFunction
<1>8. 1..C \in SUBSET DOMAIN wallet
  BY <1>1, <1>2
<1>9. Amount(1..C) \in Int /\ Amount(J) \in Int
  BY <1>8, WalletPlaces DEF Amount
<1> QED
  BY <1>6, <1>7, <1>8, <1>9 DEF C, Amount

\* If there are outputs that are enough and not too many, some are found.
LEMMA EnoughIsFound ==
  ASSUME wallet \in Wallets, NEW v \in Nat \ {0},
         NEW J \in SUBSET DOMAIN wallet,
         Amount(J) >= v, Cardinality(J) <= MaxInputs
  PROVE  findUTXOs(v) # {}
<1>1. PICK N \in Nat : N = Len(wallet) /\ DOMAIN wallet = 1..N
  BY DEF Wallets
<1> DEFINE C == Cardinality(J)
           T == {n \in 1..N : Amount(1..n) >= v}
<1>2. C \in Nat /\ C <= N /\ MaxInputs \in Nat
  <2>1. wallet \in Seq(Int)
    BY WalletPlaces
  <2> QED BY <1>1, <2>1, AtPlaces, WalletAssumption
<1>3. \A n \in 0..N : 1..n \in SUBSET DOMAIN wallet /\ Amount(1..n) \in Int
  <2> SUFFICES ASSUME NEW n \in 0..N
               PROVE  1..n \in SUBSET DOMAIN wallet /\ Amount(1..n) \in Int
    OBVIOUS
  <2>1. 1..n \in SUBSET DOMAIN wallet
    BY <1>1
  <2> QED BY <2>1, WalletPlaces DEF Amount
<1>4. Amount({}) = 0
  BY SumEmpty DEF Amount
<1>5. C \in T
  <2>1. Amount(1..C) >= Amount(J)
    BY LargestAreMost
  <2>2. Amount(J) \in Int /\ Amount(1..C) \in Int
    BY <1>2, <1>3, WalletPlaces DEF Amount
  <2>3. Amount(1..C) >= v
    <3> HIDE DEF C
    <3> QED BY <2>1, <2>2
  <2>4. C # 0
    <3>1. C = 0 => 1..C = {}
      OBVIOUS
    <3> HIDE DEF C
    <3> QED BY <1>4, <2>3, <3>1
  <2> HIDE DEF C
  <2> QED BY <1>2, <2>3, <2>4
<1> HIDE DEF C
<1>6. PICK n \in T : \A k \in T : n <= k
  <2>1. T \in SUBSET Nat /\ T # {}
    BY <1>5
  <2> HIDE DEF T
  <2> QED BY <2>1, LeastNumber
<1>7. n \in 1..N /\ Amount(1..n) >= v /\ n <= C
  BY <1>5, <1>6
<1>8. Amount(1..(n - 1)) < v
  <2>1. CASE n = 1
    <3>1. 1..(n - 1) = {}
      BY <2>1
    <3> QED BY <1>4, <3>1
  <2>2. CASE n > 1
    <3>1. n - 1 \in 1..N /\ n - 1 \notin T
      BY <1>6, <1>7, <2>2
    <3>2. Amount(1..(n - 1)) \in Int
      BY <1>3, <3>1
    <3> QED BY <3>1, <3>2
  <2> QED BY <1>7, <2>1, <2>2
<1>9. Cardinality(1..n) = n /\ (1..n) \ {n} = 1..(n - 1)
  <2>1. n \in Int /\ 1 <= n
    BY <1>7
  <2>2. Cardinality(1..n) = n
    BY <2>1, FS_Interval
  <2>3. (1..n) \ {n} = 1..(n - 1)
    BY <2>1
  <2> QED BY <2>2, <2>3
<1>10. 1..n \in Greedy(v) /\ Cardinality(1..n) <= MaxInputs
  <2>1. Cardinality(1..n) <= MaxInputs
    BY <1>2, <1>7, <1>9 DEF C
  <2>2. 1..n \in {1..k : k \in DOMAIN wallet}
    BY <1>1, <1>7
  <2>3. Amount((1..n) \ {Cardinality(1..n)}) < v
    BY <1>8, <1>9
  <2> QED BY <1>7, <2>1, <2>2, <2>3 DEF Greedy
<1> QED
  BY <1>10 DEF findUTXOs

LEMMA FindsOutputsHolds ==
  ASSUME wallet \in Wallets
  PROVE  FindsOutputs
<1> DEFINE few == {I \in SUBSET DOMAIN wallet : Cardinality(I) <= MaxInputs}
<1> SUFFICES ASSUME NEW v \in 1..(SumFunction(wallet) + 1)
             PROVE  /\ \A I \in findUTXOs(v) : I \in few /\ Amount(I) >= v
                    /\ (\E I \in few : Amount(I) >= v) => findUTXOs(v) # {}
  BY DEF FindsOutputs
<1>1. v \in Nat \ {0}
  OBVIOUS
<1>2. ASSUME NEW I \in findUTXOs(v)
      PROVE  I \in few /\ Amount(I) >= v
  <2>1. /\ I \in SUBSET DOMAIN wallet /\ Amount(I) >= v
        /\ Cardinality(I) \in 1..MaxInputs
    BY <1>1, FoundIsEnough
  <2> QED BY <2>1
<1>3. \A I \in few : Amount(I) >= v => findUTXOs(v) # {}
  BY <1>1, EnoughIsFound
<1> QED
  BY <1>2, <1>3

-----------------------------------------------------------------------------
(* Queries, lists and the calls of the loop.                               *)

LEMMA StageFacts ==
  /\ DOMAIN Stages = 1..8 /\ Len(Stages) = 8
  /\ \A n \in 1..8 :
       /\ Stages[n].of \in {"bch2sbch", "sbch2bch", "BCH", "sBCH"}
       /\ Stages[n].of \in {"BCH", "sBCH"} =>
            Stages[n].name \in {"scanBchBlocks", "scanSbchEvents"}
       /\ Stages[n].name = "refundLockedSbch" =>
            Stages[n].of = "bch2sbch" /\ Stages[n].status = "Locked"
       /\ Stages[n].name = "refundLockedBCH" =>
            Stages[n].of = "sbch2bch" /\ Stages[n].status = "Locked"
       /\ Stages[n].name = "handleBchUserDeposits" =>
            Stages[n].of = "bch2sbch" /\ Stages[n].status = "New"
       /\ Stages[n].name = "handleSbchUserDeposits" =>
            Stages[n].of = "sbch2bch" /\ Stages[n].status = "New"
       /\ Stages[n].name = "unlockBchUserDeposits" =>
            Stages[n].of = "bch2sbch" /\ Stages[n].status = "Revealed"
       /\ Stages[n].name = "unlockSbchUserDeposits" =>
            Stages[n].of = "sbch2bch" /\ Stages[n].status = "Revealed"
       /\ Stages[n].of \notin {"BCH", "sBCH"} =>
            <<Stages[n].status, Stages[n].done>> \in
              {<<"New", "Locked">>, <<"Locked", "Refunded">>,
               <<"Revealed", "Unlocked">>}
<1>1. DOMAIN Stages = 1..8 /\ Len(Stages) = 8
  BY DEF Stages
<1> SUFFICES ASSUME NEW n \in 1..8
             PROVE  /\ Stages[n].of \in {"bch2sbch", "sbch2bch", "BCH", "sBCH"}
                    /\ Stages[n].of \in {"BCH", "sBCH"} =>
                         Stages[n].name \in {"scanBchBlocks", "scanSbchEvents"}
                    /\ Stages[n].name = "refundLockedSbch" =>
                         Stages[n].of = "bch2sbch" /\ Stages[n].status = "Locked"
                    /\ Stages[n].name = "refundLockedBCH" =>
                         Stages[n].of = "sbch2bch" /\ Stages[n].status = "Locked"
                    /\ Stages[n].name = "handleBchUserDeposits" =>
                         Stages[n].of = "bch2sbch" /\ Stages[n].status = "New"
                    /\ Stages[n].name = "handleSbchUserDeposits" =>
                         Stages[n].of = "sbch2bch" /\ Stages[n].status = "New"
                    /\ Stages[n].name = "unlockBchUserDeposits" =>
                         Stages[n].of = "bch2sbch" /\ Stages[n].status = "Revealed"
                    /\ Stages[n].name = "unlockSbchUserDeposits" =>
                         Stages[n].of = "sbch2bch" /\ Stages[n].status = "Revealed"
                    /\ Stages[n].of \notin {"BCH", "sBCH"} =>
                         <<Stages[n].status, Stages[n].done>> \in
                           {<<"New", "Locked">>, <<"Locked", "Refunded">>,
                            <<"Revealed", "Unlocked">>}
  BY <1>1
<1>2. n = 1 \/ n = 2 \/ n = 3 \/ n = 4 \/ n = 5 \/ n = 6 \/ n = 7 \/ n = 8
  OBVIOUS
<1> QED
  BY <1>2 DEF Stages

LEMMA SetToSeqIs ==
  ASSUME NEW S, IsFiniteSet(S)
  PROVE  /\ SetToSeq(S) \in Seq(S) /\ ToSet(SetToSeq(S)) = S
         /\ IsInjective(SetToSeq(S))
<1> DEFINE C == Cardinality(S)
           F == {f \in [1..C -> S] : IsInjective(f)}
           q == SetToSeq(S)
<1>1. C \in Nat /\ ExistsBijection(1..C, S)
  BY FS_CardinalityType
<1>2. PICK b : b \in Bijection(1..C, S)
  BY <1>1, Fun_ExistsBij
<1>3. b \in F
  <2>1. b \in [1..C -> S] /\ \A i, j \in 1..C : b[i] = b[j] => i = j
    <3> HIDE DEF C
    <3> QED BY <1>2, Fun_BijectionProperties
  <2> QED BY <2>1 DEF IsInjective
<1>4. q \in F
  BY <1>3 DEF SetToSeq
<1>5. q \in Injection(1..C, S)
  <2>1. q \in [1..C -> S] /\ \A i, j \in 1..C : q[i] = q[j] => i = j
    BY <1>4 DEF IsInjective
  <2> HIDE DEF q, C
  <2> QED BY <2>1, Fun_IsInj
<1>6. q \in Surjection(1..C, S)
  <2>1. Cardinality(1..C) = C
    BY <1>1, FS_Interval
  <2> HIDE DEF q
  <2> QED BY <1>5, <2>1, FS_Injection DEF C
<1> HIDE DEF q
<1>7. ToSet(q) = S
  BY <1>4, <1>6 DEF Surjection, ToSet
<1>8. q \in Seq(S) /\ IsInjective(q)
  BY <1>1, <1>4
<1> QED
  BY <1>7, <1>8 DEF q

LEMMA FirstSeq ==
  ASSUME NEW S, NEW seq \in Seq(S), IsInjective(seq), NEW n \in Nat
  PROVE  /\ First(n, seq) \in Seq(S) /\ IsInjective(First(n, seq))
         /\ ToSet(First(n, seq)) \subseteq ToSet(seq)
         /\ Len(seq) <= n => First(n, seq) = seq
<1>1. PICK N \in Nat : N = Len(seq) /\ DOMAIN seq = 1..N
  OBVIOUS
<1> DEFINE m == IF N <= n THEN N ELSE n
<1>2. m \in 0..N /\ First(n, seq) = SubSeq(seq, 1, m)
  <2>1. m \in 0..N
    BY <1>1
  <2>2. SubSeq(seq, 1, N) = seq
    BY <1>1
  <2> QED BY <1>1, <2>1, <2>2 DEF First
<1> HIDE DEF m
<1>3. SubSeq(seq, 1, m) = [i \in 1..m |-> seq[i]]
  BY <1>1, <1>2
<1>4. \A i \in 1..m : seq[i] \in S /\ i \in DOMAIN seq
  BY <1>1, <1>2
<1>5. First(n, seq) \in Seq(S)
  BY <1>2, <1>3, <1>4
<1>6. IsInjective(First(n, seq))
  BY <1>2, <1>3, <1>4 DEF IsInjective
<1>7. ToSet(First(n, seq)) \subseteq ToSet(seq)
  BY <1>2, <1>3, <1>4 DEF ToSet
<1>8. N <= n => First(n, seq) = seq
  <2>1. N <= n => m = N
    BY DEF m
  <2>2. seq = [i \in 1..N |-> seq[i]]
    BY <1>1
  <2> QED BY <1>2, <1>3, <2>1, <2>2
<1> QED
  BY <1>1, <1>5, <1>6, <1>7, <1>8

LEMMA SwapsFinite ==
  /\ IsFiniteSet(Swaps)
  /\ \A S \in SUBSET Swaps : IsFiniteSet(S)
<1>1. IsFiniteSet(Swaps)
  BY SwapsAssumption, FS_Union DEF Swaps
<1> QED
  BY <1>1, FS_Subset

TablesOK ==
  /\ status \in [Swaps -> Statuses] /\ table \in [Tables -> Seq(Swaps)]
  /\ \A t \in Tables :
       /\ IsInjective(table[t])
       /\ ToSet(table[t]) = {s \in Swaps : TableOf(s) = t /\ status[s] # "none"}

\* the records of a table with a status
WithStatus(t, st) == {s \in Swaps : TableOf(s) = t /\ status[s] = st}

\* A query returns records of its table with its status, none twice, and all
\* of them if there are no more than the limit.
LEMMA QueryReturns ==
  ASSUME TablesOK, NEW t \in Tables, NEW st \in Statuses \ {"none"},
         NEW limit \in Nat
  PROVE  /\ Query(t, st, limit) \in Seq(Swaps)
         /\ IsInjective(Query(t, st, limit))
         /\ \A s \in ToSet(Query(t, st, limit)) :
              TableOf(s) = t /\ status[s] = st
         /\ Cardinality(WithStatus(t, st)) <= limit =>
              \A s \in WithStatus(t, st) : s \in ToSet(Query(t, st, limit))
<1> DEFINE q == table[t]
           I == {i \in DOMAIN q : status[q[i]] = st}
           all == At(q, I)
           W == WithStatus(t, st)
<1>1. q \in Seq(Swaps) /\ IsInjective(q)
  BY DEF TablesOK
<1>2. I \in SUBSET DOMAIN q
  OBVIOUS
<1>3. /\ all \in Seq(Swaps) /\ ToSet(all) = {q[i] : i \in I} /\ IsInjective(all)
  <2> HIDE DEF q, I
  <2> QED BY <1>1, <1>2, AtSeq
<1>4. Query(t, st, limit) = First(limit, all)
  BY DEF Query
<1>5. \A s \in ToSet(all) : TableOf(s) = t /\ status[s] = st
  <2>1. \A i \in DOMAIN q : q[i] \in ToSet(q)
    BY DEF ToSet
  <2> QED BY <1>3, <2>1 DEF TablesOK
<1>6. \A s \in W : s \in ToSet(all)
  <2> SUFFICES ASSUME NEW s \in Swaps, TableOf(s) = t, status[s] = st
               PROVE  s \in ToSet(all)
    BY DEF WithStatus
  <2>1. s \in ToSet(q)
    BY DEF TablesOK
  <2>2. PICK i \in DOMAIN q : q[i] = s
    BY <2>1 DEF ToSet
  <2> QED BY <1>3, <2>2
<1> HIDE DEF all, q, I
<1>7. /\ First(limit, all) \in Seq(Swaps) /\ IsInjective(First(limit, all))
      /\ ToSet(First(limit, all)) \subseteq ToSet(all)
      /\ Len(all) <= limit => First(limit, all) = all
  BY <1>3, FirstSeq
<1>8. IsFiniteSet(W) /\ Cardinality(W) \in Nat
  <2>1. IsFiniteSet(W)
    BY SwapsFinite DEF WithStatus
  <2> QED BY <2>1, FS_CardinalityType
<1>9. Len(all) <= Cardinality(W)
  <2>1. PICK N \in Nat : N = Len(all) /\ DOMAIN all = 1..N
    BY <1>3
  <2>2. all \in [1..N -> W]
    <3>1. \A i \in 1..N : all[i] \in Swaps /\ all[i] \in ToSet(all)
      BY <1>3, <2>1 DEF ToSet
    <3>2. \A i \in 1..N : all[i] \in W
      BY <1>5, <3>1 DEF WithStatus
    <3> HIDE DEF W
    <3> QED BY <1>3, <2>1, <3>2
  <2>3. \A i, j \in 1..N : all[i] = all[j] => i = j
    BY <1>3, <2>1 DEF IsInjective
  <2> HIDE DEF W
  <2>4. all \in Injection(1..N, W)
    BY <2>2, <2>3, Fun_IsInj
  <2>5. Cardinality(1..N) = N
    BY FS_Interval
  <2>6. Cardinality(1..N) <= Cardinality(W)
    BY <1>8, <2>4, FS_Injection
  <2> QED BY <2>1, <2>5, <2>6
<1>10. Cardinality(W) <= limit => Len(all) <= limit
  BY <1>3, <1>8, <1>9
<1> QED
  BY <1>4, <1>5, <1>6, <1>7, <1>10

-----------------------------------------------------------------------------
(* The invariant.                                                          *)

Kinds == {"lock", "refund", "unlock"}

ChainsOK ==
  /\ userLeg \in [Swaps -> {"none", "locked", "taken", "refunded"}]
  /\ botLeg \in [Swaps -> {"none", "locked", "claimed", "refunded"}]
  /\ orphans \in [Swaps -> Nat]
  /\ expired \subseteq Swaps
  /\ unseen \in [{"BCH", "sBCH"} -> SUBSET Swaps]

\* one transaction of the account at a time; the account takes part in B2S
\* swaps with locks and refunds, in S2B swaps with unlocks
PendingOK ==
  /\ pending \subseteq Kinds \X Swaps
  /\ Cardinality(pending) <= 1
  /\ \A kind \in Kinds, s \in Swaps : <<kind, s>> \in pending =>
       IF kind = "unlock" THEN s \in S2B ELSE s \in B2S

\* the records on the list are as the query found them, the events on it are
\* still to be handled
ListOK ==
  /\ pc \in 1..8 /\ todo \in Seq(Swaps) /\ IsInjective(todo)
  /\ \A s \in ToSet(todo) :
       IF Stages[pc].of \in {"BCH", "sBCH"} THEN s \in unseen[Stages[pc].of]
       ELSE TableOf(s) = Stages[pc].of /\ status[s] = Stages[pc].status

\* a call that sends a transaction has a record at hand; only the HTLC contract
\* makes it wait
CallOK ==
  /\ call \in {"none", "waiting", "ok", "reverted"}
  /\ call # "none" => todo # <<>> /\ Stages[pc].of \notin {"BCH", "sBCH"}
  /\ call \in {"waiting", "reverted"} =>
       Stages[pc].name \in {"refundLockedSbch", "handleBchUserDeposits",
                            "unlockSbchUserDeposits"}

InfoTyped ==
  /\ asked \in 0..3 /\ due \subseteq Swaps /\ Cardinality(due) <= 1
  /\ due = {} <=> asked = 0

\* A deposit is handled once.  The bot locks BCH only with a record of it, and
\* takes back what it has locked only when the record says so.
EventsOK ==
  \A s \in Swaps :
    /\ s \in unseen[CoinsOn(s)] => status[s] = "none" /\ userLeg[s] # "none"
    /\ userLeg[s] = "none" => status[s] = "none"
    /\ s \in S2B /\ status[s] = "none" => botLeg[s] = "none"
    /\ s \in S2B /\ status[s] = "New" => botLeg[s] # "refunded"

IInv ==
  /\ ChainsOK /\ wallet \in Wallets /\ PendingOK /\ TablesOK /\ ListOK /\ CallOK
  /\ InfoTyped /\ EventsOK /\ faults \in 0..MaxFaults

LEMMA IInvTypes == IInv => TypeOK
<1> SUFFICES ASSUME IInv
             PROVE  TypeOK
  OBVIOUS
<1>1. DOMAIN Stages = 1..8 /\ Len(Queries) = 3
  BY StageFacts DEF Queries
<1>2. ToSet(todo) \subseteq Swaps
  BY DEF IInv, ListOK, ToSet
<1>3. /\ wallet \in Seq(Nat \ {0})
      /\ \A i, j \in DOMAIN wallet : i < j => wallet[i] >= wallet[j]
  BY DEF IInv, Wallets
<1> QED
  BY <1>1, <1>2, <1>3 DEF IInv, TypeOK, ChainsOK, PendingOK, TablesOK, ListOK,
     CallOK, InfoTyped, Kinds

-----------------------------------------------------------------------------
(* A record is saved, the next one is taken.                               *)

LEMMA SaveTables ==
  ASSUME TablesOK, NEW s \in Swaps, NEW st \in Statuses \ {"none"}, Save(s, st)
  PROVE  TablesOK'
<1> DEFINE t == TableOf(s)
           q == table[t]
           I == {i \in DOMAIN q : q[i] # s}
           rest == At(q, I)
<1>1. t \in Tables
  BY DEF TableOf, Tables
<1>2. q \in Seq(Swaps) /\ IsInjective(q)
  BY <1>1 DEF TablesOK
<1>3. /\ rest \in Seq(Swaps) /\ IsInjective(rest)
      /\ ToSet(rest) = {q[i] : i \in I}
  <2>1. I \in SUBSET DOMAIN q
    OBVIOUS
  <2> HIDE DEF q, I
  <2> QED BY <1>2, <2>1, AtSeq
<1>4. ToSet(rest) = ToSet(q) \ {s}
  BY <1>3 DEF ToSet
<1>5. status' = [status EXCEPT ![s] = st] /\ table' = [table EXCEPT ![t] =
        Append(rest, s)]
  BY DEF Save
<1> HIDE DEF rest, I
<1>6. /\ Append(rest, s) \in Seq(Swaps)
      /\ DOMAIN Append(rest, s) = 1..(Len(rest) + 1)
      /\ \A i \in 1..Len(rest) : Append(rest, s)[i] = rest[i]
      /\ Append(rest, s)[Len(rest) + 1] = s
      /\ DOMAIN rest = 1..Len(rest) /\ Len(rest) \in Nat
  BY <1>3
<1>7. \A i \in DOMAIN rest : rest[i] # s
  BY <1>4 DEF ToSet
<1>8. IsInjective(Append(rest, s))
  <2> SUFFICES ASSUME NEW i \in 1..(Len(rest) + 1),
                      NEW j \in 1..(Len(rest) + 1), i < j
               PROVE  Append(rest, s)[i] # Append(rest, s)[j]
    BY <1>6 DEF IsInjective
  <2>1. i \in 1..Len(rest)
    BY <1>6
  <2>2. CASE j = Len(rest) + 1
    BY <1>6, <1>7, <2>1, <2>2
  <2>3. CASE j \in 1..Len(rest)
    BY <1>3, <1>6, <2>1, <2>3 DEF IsInjective
  <2> QED BY <1>6, <2>2, <2>3
<1>9. ToSet(Append(rest, s)) = ToSet(rest) \cup {s}
  <2>1. \A x \in ToSet(Append(rest, s)) : x \in ToSet(rest) \cup {s}
    <3> SUFFICES ASSUME NEW i \in 1..(Len(rest) + 1)
                 PROVE  Append(rest, s)[i] \in ToSet(rest) \cup {s}
      BY <1>6 DEF ToSet
    <3>1. i \in 1..Len(rest) \/ i = Len(rest) + 1
      BY <1>6
    <3> QED BY <1>6, <3>1 DEF ToSet
  <2>2. \A x \in ToSet(rest) \cup {s} : x \in ToSet(Append(rest, s))
    <3>1. s \in ToSet(Append(rest, s))
      <4>1. Len(rest) + 1 \in DOMAIN Append(rest, s)
        BY <1>6
      <4> QED BY <1>6, <4>1 DEF ToSet
    <3>2. ASSUME NEW i \in 1..Len(rest)
          PROVE  rest[i] \in ToSet(Append(rest, s))
      <4>1. i \in DOMAIN Append(rest, s)
        BY <1>6
      <4> QED BY <1>6, <4>1 DEF ToSet
    <3> QED BY <1>6, <3>1, <3>2 DEF ToSet
  <2> QED BY <2>1, <2>2
<1>10. status' \in [Swaps -> Statuses]
  BY <1>5 DEF TablesOK
<1>11. table' \in [Tables -> Seq(Swaps)]
  BY <1>1, <1>5, <1>6 DEF TablesOK
<1>12. ASSUME NEW u \in Tables
       PROVE  /\ IsInjective(table'[u])
              /\ ToSet(table'[u]) =
                   {x \in Swaps : TableOf(x) = u /\ status'[x] # "none"}
  <2>1. CASE u = t
    <3>1. table'[u] = Append(rest, s)
      BY <1>1, <1>5, <2>1 DEF TablesOK
    <3>2. ToSet(q) = {x \in Swaps : TableOf(x) = u /\ status[x] # "none"}
      BY <1>1, <2>1 DEF TablesOK
    <3>3. \A x \in Swaps : status'[x] = IF x = s THEN st ELSE status[x]
      BY <1>5 DEF TablesOK
    <3>4. ToSet(table'[u]) = (ToSet(q) \ {s}) \cup {s}
      BY <1>4, <1>9, <3>1
    <3>5. (ToSet(q) \ {s}) \cup {s} =
            {x \in Swaps : TableOf(x) = u /\ status'[x] # "none"}
      BY <2>1, <3>2, <3>3
    <3> QED BY <1>8, <3>1, <3>4, <3>5
  <2>2. CASE u # t
    <3>1. table'[u] = table[u]
      BY <1>1, <1>5, <2>2 DEF TablesOK
    <3>2. \A x \in Swaps : TableOf(x) = u => status'[x] = status[x]
      BY <1>5, <2>2 DEF TablesOK
    <3> QED BY <3>1, <3>2 DEF TablesOK
  <2> QED BY <2>1, <2>2
<1> QED
  BY <1>10, <1>11, <1>12 DEF TablesOK

LEMMA TailList ==
  ASSUME NEW S, NEW seq \in Seq(S), IsInjective(seq), seq # <<>>
  PROVE  /\ Tail(seq) \in Seq(S) /\ IsInjective(Tail(seq))
         /\ Head(seq) \in ToSet(seq) /\ Head(seq) \in S
         /\ ToSet(Tail(seq)) \subseteq ToSet(seq) \ {Head(seq)}
<1>1. PICK N \in Nat : N = Len(seq) /\ DOMAIN seq = 1..N /\ N >= 1
  OBVIOUS
<1>2. /\ Tail(seq) \in Seq(S) /\ DOMAIN Tail(seq) = 1..(N - 1)
      /\ \A i \in 1..(N - 1) : Tail(seq)[i] = seq[i + 1]
      /\ Head(seq) = seq[1]
  BY <1>1
<1>3. IsInjective(Tail(seq))
  <2> SUFFICES ASSUME NEW i \in 1..(N - 1), NEW j \in 1..(N - 1),
                      Tail(seq)[i] = Tail(seq)[j]
               PROVE  i = j
    BY <1>2 DEF IsInjective
  <2>1. i + 1 \in DOMAIN seq /\ j + 1 \in DOMAIN seq
    BY <1>1
  <2>2. i + 1 = j + 1
    BY <1>2, <2>1 DEF IsInjective
  <2> QED BY <2>2
<1>4. 1 \in DOMAIN seq
  BY <1>1
<1>5. Head(seq) \in ToSet(seq) /\ Head(seq) \in S
  BY <1>2, <1>4 DEF ToSet
<1>6. ASSUME NEW i \in 1..(N - 1)
      PROVE  Tail(seq)[i] \in ToSet(seq) \ {Head(seq)}
  <2>1. i + 1 \in DOMAIN seq /\ i + 1 # 1
    BY <1>1
  <2>2. seq[i + 1] # seq[1]
    BY <1>4, <2>1 DEF IsInjective
  <2> QED BY <1>2, <2>1, <2>2 DEF ToSet
<1> QED
  BY <1>2, <1>3, <1>5, <1>6 DEF ToSet

LEMMA SaveInfo ==
  ASSUME InfoTyped, NEW s, NEW st, Save(s, st)
  PROVE  InfoTyped'
<1>1. due' \subseteq due
  BY DEF Save
<1>2. IsFiniteSet(due)
  BY SwapsFinite DEF InfoTyped
<1>3. Cardinality(due') <= Cardinality(due)
  BY <1>1, <1>2, FS_Subset
<1>4. Cardinality(due) \in Nat /\ Cardinality(due') \in Nat
  <2>1. IsFiniteSet(due')
    BY <1>1, <1>2, FS_Subset
  <2> QED BY <1>2, <2>1, FS_CardinalityType
<1>5. asked' = IF due' = {} THEN 0 ELSE asked
  BY DEF Save
<1>6. Cardinality(due') <= 1
  BY <1>3, <1>4 DEF InfoTyped
<1> QED
  BY <1>1, <1>5, <1>6 DEF InfoTyped

\* How a record may change: nothing comes back but a secret after a refund.
Moves ==
  {<<"none", "New">>, <<"New", "Locked">>, <<"New", "TooLate">>,
   <<"Locked", "Revealed">>, <<"Refunded", "Revealed">>,
   <<"Locked", "Refunded">>, <<"Revealed", "Unlocked">>}

\* the record at hand is left or saved with its next status
Saves(s) ==
  NoSave \/ \E st \in Statuses : Save(s, st) /\ <<status[s], st>> \in Moves

LEMMA SavesTables ==
  ASSUME TablesOK, InfoTyped, NEW s \in Swaps, Saves(s)
  PROVE  /\ TablesOK' /\ InfoTyped'
         /\ \A x \in Swaps : x # s => status'[x] = status[x]
         /\ status' = status \/ (status'[s] # "none" /\ <<status[s], status'[s]>> \in Moves)
<1>1. CASE NoSave
  BY <1>1 DEF NoSave, records, info, TablesOK, InfoTyped
<1>2. CASE \E st \in Statuses : Save(s, st) /\ <<status[s], st>> \in Moves
  <2>1. PICK st \in Statuses : Save(s, st) /\ <<status[s], st>> \in Moves
    BY <1>2
  <2>2. st # "none"
    BY <2>1 DEF Moves
  <2>3. TablesOK' /\ InfoTyped'
    BY <2>1, <2>2, SaveTables, SaveInfo
  <2>4. status' = [status EXCEPT ![s] = st]
    BY <2>1 DEF Save
  <2>5. status'[s] = st /\ \A x \in Swaps : x # s => status'[x] = status[x]
    BY <2>4 DEF TablesOK
  <2> QED BY <2>1, <2>2, <2>3, <2>5
<1> QED
  BY <1>1, <1>2 DEF Saves

\* The list goes on to the next record.
LEMMA RecordStep ==
  ASSUME IInv, todo # <<>>, NEW s, s = Head(todo), Done, Saves(s),
         \A c \in {"BCH", "sBCH"} : \A x \in unseen[c] :
           x # s => x \in unseen'[c]
  PROVE  s \in Swaps /\ TablesOK' /\ ListOK' /\ CallOK' /\ InfoTyped'
<1>1. /\ todo \in Seq(Swaps) /\ IsInjective(todo)
      /\ pc \in 1..8
  BY DEF IInv, ListOK
<1>2. todo' = Tail(todo) /\ pc' = pc /\ call' = "none"
  BY DEF Done
<1>3. /\ todo' \in Seq(Swaps) /\ IsInjective(todo')
      /\ s \in ToSet(todo) /\ s \in Swaps
      /\ ToSet(todo') \subseteq ToSet(todo) \ {s}
  BY <1>1, <1>2, TailList
<1>4. /\ TablesOK' /\ InfoTyped'
      /\ \A x \in Swaps : x # s => status'[x] = status[x]
  BY <1>3, SavesTables DEF IInv
<1>5. ASSUME NEW x \in ToSet(todo')
      PROVE  IF Stages[pc].of \in {"BCH", "sBCH"}
               THEN x \in unseen'[Stages[pc].of]
               ELSE TableOf(x) = Stages[pc].of /\ status'[x] = Stages[pc].status
  <2>1. x \in ToSet(todo) /\ x # s
    BY <1>3
  <2>2. \A i \in DOMAIN todo : todo[i] \in Swaps
    BY <1>1
  <2>3. x \in Swaps
    BY <2>1, <2>2 DEF ToSet
  <2> QED BY <1>4, <2>1, <2>3 DEF IInv, ListOK
<1>6. ListOK'
  BY <1>1, <1>2, <1>3, <1>5 DEF ListOK
<1>7. CallOK'
  BY <1>2 DEF CallOK
<1> QED
  BY <1>3, <1>4, <1>6, <1>7

LEMMA EventsStep ==
  ASSUME IInv, NEW s \in Swaps, Saves(s), UNCHANGED <<userLeg, botLeg>>,
         \A x \in Swaps : x \in unseen'[CoinsOn(x)] => x \in unseen[CoinsOn(x)],
         \/ status' = status \/ status[s] # "none"
         \/ s \notin unseen'[CoinsOn(s)] /\ userLeg[s] # "none"
  PROVE  EventsOK'
<1>1. /\ \A x \in Swaps : x # s => status'[x] = status[x]
      /\ \/ status' = status
         \/ status'[s] # "none" /\ <<status[s], status'[s]>> \in Moves
  BY SavesTables DEF IInv
<1>2. ASSUME NEW x \in Swaps
      PROVE  /\ x \in unseen'[CoinsOn(x)] =>
                  status'[x] = "none" /\ userLeg'[x] # "none"
             /\ userLeg'[x] = "none" => status'[x] = "none"
             /\ x \in S2B /\ status'[x] = "none" => botLeg'[x] = "none"
             /\ x \in S2B /\ status'[x] = "New" => botLeg'[x] # "refunded"
  <2>1. /\ x \in unseen[CoinsOn(x)] => status[x] = "none" /\ userLeg[x] # "none"
        /\ userLeg[x] = "none" => status[x] = "none"
        /\ x \in S2B /\ status[x] = "none" => botLeg[x] = "none"
        /\ x \in S2B /\ status[x] = "New" => botLeg[x] # "refunded"
    BY DEF IInv, EventsOK
  <2>2. CASE status'[x] = status[x]
    BY <2>1, <2>2
  <2>3. CASE status'[x] # status[x]
    <3>1. x = s /\ status'[s] # "none" /\ <<status[s], status'[s]>> \in Moves
      BY <1>1, <2>3
    <3>2. status'[s] = "New" => status[s] = "none"
      BY <3>1 DEF Moves
    <3>3. status' # status
      BY <2>3
    <3> QED BY <2>1, <3>1, <3>2, <3>3
  <2> QED BY <2>2, <2>3
<1> QED
  BY <1>2 DEF EventsOK, CoinsOn

\* The record at hand has the status and is in the table that were queried.
LEMMA AtHand ==
  ASSUME IInv, todo # <<>>
  PROVE  LET s == Head(todo) IN
         /\ s \in Swaps /\ pc \in 1..8
         /\ Stages[pc].of \in {"BCH", "sBCH"} => s \in unseen[Stages[pc].of]
         /\ Stages[pc].of \notin {"BCH", "sBCH"} =>
              TableOf(s) = Stages[pc].of /\ status[s] = Stages[pc].status
<1>1. Head(todo) \in ToSet(todo) /\ Head(todo) \in Swaps
  BY TailList DEF IInv, ListOK
<1> QED
  BY <1>1 DEF IInv, ListOK

LEMMA AtStage ==
  ASSUME IInv, NEW s, todo # <<>>, s = Head(todo)
  PROVE  /\ s \in Swaps
         /\ Stages[pc].name = "refundLockedSbch" =>
              s \in B2S /\ status[s] = "Locked"
         /\ Stages[pc].name = "refundLockedBCH" =>
              s \in S2B /\ status[s] = "Locked"
         /\ Stages[pc].name = "handleBchUserDeposits" =>
              s \in B2S /\ status[s] = "New"
         /\ Stages[pc].name = "handleSbchUserDeposits" =>
              s \in S2B /\ status[s] = "New"
         /\ Stages[pc].name = "unlockBchUserDeposits" =>
              s \in B2S /\ status[s] = "Revealed"
         /\ Stages[pc].name = "unlockSbchUserDeposits" =>
              s \in S2B /\ status[s] = "Revealed"
<1>1. /\ s \in Swaps /\ pc \in 1..8
      /\ Stages[pc].of \notin {"BCH", "sBCH"} =>
           TableOf(s) = Stages[pc].of /\ status[s] = Stages[pc].status
  BY AtHand
<1>2. TableOf(s) = "bch2sbch" => s \in B2S
  BY DEF TableOf
<1>3. TableOf(s) = "sbch2bch" => s \in S2B
  BY <1>1 DEF TableOf, Swaps
<1> QED
  BY <1>1, <1>2, <1>3, StageFacts

LEMMA RecordInv ==
  ASSUME IInv, todo # <<>>, NEW s, s = Head(todo), Done, Saves(s),
         \A c \in {"BCH", "sBCH"} : \A x \in unseen[c] :
           x # s => x \in unseen'[c],
         UNCHANGED <<userLeg, botLeg>>,
         \A x \in Swaps : x \in unseen'[CoinsOn(x)] => x \in unseen[CoinsOn(x)],
         \/ status' = status \/ status[s] # "none"
         \/ s \notin unseen'[CoinsOn(s)] /\ userLeg[s] # "none",
         ChainsOK', wallet' \in Wallets, PendingOK', faults' \in 0..MaxFaults
  PROVE  IInv'
<1>1. s \in Swaps /\ TablesOK' /\ ListOK' /\ CallOK' /\ InfoTyped'
  BY RecordStep
<1>2. EventsOK'
  BY <1>1, EventsStep
<1> QED
  BY <1>1, <1>2 DEF IInv

\* A record is saved or left while no coin moves and no event is taken off.
LEMMA NoCoinMoves ==
  ASSUME IInv, todo # <<>>, NEW s, s = Head(todo), Done, Saves(s),
         status' = status \/ status[s] # "none", UNCHANGED chains,
         faults' \in 0..MaxFaults
  PROVE  IInv' /\ UNCHANGED <<userLeg, botLeg, orphans, wallet>>
<1>1. UNCHANGED <<userLeg, botLeg, orphans, expired, pending, wallet, unseen>>
  BY DEF chains
<1>2. ChainsOK' /\ wallet' \in Wallets /\ PendingOK'
  BY <1>1 DEF IInv, ChainsOK, PendingOK
<1>3. \A x \in Swaps : x \in unseen'[CoinsOn(x)] => x \in unseen[CoinsOn(x)]
  BY <1>1
<1>4. IInv'
  BY <1>1, <1>2, <1>3, RecordInv
<1> QED
  BY <1>1, <1>4

LEMMA HandleEventInv ==
  ASSUME IInv, NEW s \in Swaps, HandleEvent(s)
  PROVE  IInv' /\ Saves(s) /\ UNCHANGED <<userLeg, botLeg, orphans, wallet>>
<1> DEFINE c == Stages[pc].of
           st == StatusAfter(s, c)
<1>1. /\ todo # <<>> /\ s = Head(todo) /\ Done
      /\ unseen' = [unseen EXCEPT ![c] = @ \ {s}]
      /\ IF st = status[s] THEN NoSave ELSE Save(s, st)
      /\ UNCHANGED <<userLeg, botLeg, orphans, expired, pending, wallet, faults>>
  BY DEF HandleEvent
<1>2. /\ DOMAIN unseen = {"BCH", "sBCH"} /\ c \in {"BCH", "sBCH"}
      /\ \A d \in {"BCH", "sBCH"} : unseen[d] \subseteq Swaps
  BY DEF HandleEvent, IInv, ChainsOK
<1>3. s \in unseen[c]
  BY <1>1, <1>2, AtHand
<1>4. s \in unseen[CoinsOn(s)] => status[s] = "none" /\ userLeg[s] # "none"
  BY DEF IInv, EventsOK
<1>5. status[s] \in Statuses
  BY DEF IInv, TablesOK
<1>6. /\ c = CoinsOn(s) => st = "New" /\ status[s] = "none"
      /\ c # CoinsOn(s) => st = status[s] \/ <<status[s], st>> \in Moves
  <2>1. c = CoinsOn(s) => st = "New" /\ status[s] = "none"
    BY <1>3, <1>4 DEF StatusAfter
  <2>2. ASSUME c # CoinsOn(s), st # status[s]
        PROVE  <<status[s], st>> \in Moves
    BY <2>2 DEF StatusAfter, Moves
  <2> QED BY <2>1, <2>2
<1>7. st # status[s] => st \in Statuses /\ <<status[s], st>> \in Moves
  BY <1>6 DEF Moves, Statuses
<1> HIDE DEF st, c
<1>8. Saves(s)
  BY <1>1, <1>7 DEF Saves
<1>9. \A d \in {"BCH", "sBCH"} :
        unseen'[d] = IF d = c THEN unseen[d] \ {s} ELSE unseen[d]
  BY <1>1, <1>2
<1>10. CoinsOn(s) \in {"BCH", "sBCH"} /\ \A x \in Swaps : CoinsOn(x) \in {"BCH", "sBCH"}
  BY DEF CoinsOn
<1>11. ChainsOK'
  <2>1. unseen' \in [{"BCH", "sBCH"} -> SUBSET Swaps]
    BY <1>1, <1>2, <1>9 DEF IInv, ChainsOK
  <2> QED BY <1>1, <2>1 DEF IInv, ChainsOK
<1>12. PendingOK' /\ wallet' \in Wallets /\ faults' \in 0..MaxFaults
  BY <1>1 DEF IInv, PendingOK
<1>13. \/ status' = status \/ status[s] # "none"
       \/ s \notin unseen'[CoinsOn(s)] /\ userLeg[s] # "none"
  <2>1. CASE c = CoinsOn(s)
    BY <1>3, <1>4, <1>9, <1>10, <2>1
  <2>2. CASE c # CoinsOn(s)
    <3>1. st = status[s] => status' = status
      BY <1>1 DEF NoSave, records
    <3>2. status[s] = "none" /\ c # CoinsOn(s) => st = status[s]
      BY DEF StatusAfter, st
    <3> QED BY <2>2, <3>1, <3>2
  <2> QED BY <2>1, <2>2
<1>14. IInv'
  <2>1. \A d \in {"BCH", "sBCH"} : \A x \in unseen[d] : x # s => x \in unseen'[d]
    BY <1>9
  <2>2. \A x \in Swaps : x \in unseen'[CoinsOn(x)] => x \in unseen[CoinsOn(x)]
    BY <1>9, <1>10
  <2> QED BY <1>1, <1>8, <1>11, <1>12, <1>13, <2>1, <2>2, RecordInv
<1> QED
  BY <1>1, <1>8, <1>14

LEMMA SkipInv ==
  ASSUME IInv, NEW s \in Swaps, SkipRefund(s) \/ LockBchFails(s)
  PROVE  IInv' /\ Saves(s) /\ UNCHANGED <<userLeg, botLeg, orphans, wallet>>
<1>1. /\ todo # <<>> /\ s = Head(todo) /\ Done /\ NoSave
      /\ UNCHANGED <<chains, faults>>
      /\ Stages[pc].name \in {"refundLockedSbch", "refundLockedBCH",
                              "handleSbchUserDeposits"}
  BY DEF SkipRefund, LockBchFails, NoInputs, Handling
<1>2. status[s] # "none"
  BY <1>1, AtStage
<1>3. Saves(s)
  BY <1>1 DEF Saves
<1>4. faults' \in 0..MaxFaults
  BY <1>1 DEF IInv
<1> QED
  BY <1>1, <1>2, <1>3, <1>4, NoCoinMoves

LEMMA TooLateInv ==
  ASSUME IInv, NEW s \in Swaps, TooLateToLock(s)
  PROVE  IInv' /\ Saves(s) /\ UNCHANGED <<userLeg, botLeg, orphans, wallet>>
<1>1. /\ todo # <<>> /\ s = Head(todo) /\ Done /\ Save(s, "TooLate")
      /\ UNCHANGED <<chains, faults>>
      /\ Stages[pc].name \in {"handleBchUserDeposits", "handleSbchUserDeposits"}
  BY DEF TooLateToLock, Handling
<1>2. status[s] = "New"
  BY <1>1, AtStage
<1>3. Saves(s)
  BY <1>1, <1>2 DEF Saves, Moves, Statuses
<1>4. faults' \in 0..MaxFaults
  BY <1>1 DEF IInv
<1> QED
  BY <1>1, <1>2, <1>3, <1>4, NoCoinMoves

\* What comes back into the wallet is the value less a fee.
LEMMA ValueReceived ==
  ASSUME wallet \in Wallets, NEW s \in Swaps
  PROVE  /\ Value[s] \in Nat /\ Value[s] - SpendFee \in Nat \ {0}
         /\ Received(wallet, Value[s] - SpendFee) \in Wallets
         /\ SumFunction(Received(wallet, Value[s] - SpendFee)) =
              SumFunction(wallet) + (Value[s] - SpendFee)
<1>1. Value[s] \in Nat /\ Value[s] - SpendFee \in Nat \ {0}
  BY SwapsAssumption DEF SpendFee
<1> QED
  BY <1>1, ReceivedWallet

\* A penalty is an output, if there is one.
LEMMA PenaltyReceived ==
  ASSUME wallet \in Wallets, NEW s \in Swaps
  PROVE  /\ Penalty(s) \in Nat /\ (PenaltyBPS = 0 => Penalty(s) = 0)
         /\ PenaltyBPS # 0 =>
              /\ Received(wallet, Penalty(s)) \in Wallets
              /\ SumFunction(Received(wallet, Penalty(s))) =
                   SumFunction(wallet) + Penalty(s)
<1> DEFINE part == (Value[s] * PenaltyBPS) \div 10000
<1>1. Value[s] \in Nat /\ PenaltyBPS \in Nat /\ Dust \in Nat \ {0}
  BY SwapsAssumption, WalletAssumption
<1>2. part \in Nat
  <2>1. Value[s] * PenaltyBPS \in Nat
    BY <1>1
  <2> QED BY <2>1
<1>3. Penalty(s) = IF PenaltyBPS = 0 THEN 0 ELSE IF part < Dust THEN Dust ELSE part
  BY DEF Penalty
<1> HIDE DEF part
<1>4. Penalty(s) \in Nat /\ (PenaltyBPS # 0 => Penalty(s) \in Nat \ {0})
  BY <1>1, <1>2, <1>3
<1> QED
  BY <1>3, <1>4, ReceivedWallet

\* A BCH transaction is sent: the record waits for its save.
LEMMA SentInv ==
  ASSUME IInv, Sent, todo # <<>>, Stages[pc].of \notin {"BCH", "sBCH"},
         ChainsOK', wallet' \in Wallets,
         \A x \in Swaps : userLeg'[x] = "none" <=> userLeg[x] = "none",
         \A x \in Swaps : x \in unseen'[CoinsOn(x)] => x \in unseen[CoinsOn(x)],
         \A x \in S2B :
           /\ status[x] = "none" => botLeg'[x] = botLeg[x]
           /\ status[x] = "New" => botLeg'[x] # "refunded"
  PROVE  IInv' /\ NoSave
<1>1. /\ call' = "ok"
      /\ UNCHANGED <<expired, pending, status, table, pc, todo, asked, due, faults>>
  BY DEF Sent, records, info
<1>2. TablesOK' /\ InfoTyped' /\ PendingOK'
  <2>1. TablesOK'
    BY <1>1 DEF IInv, TablesOK
  <2>2. InfoTyped'
    BY <1>1 DEF IInv, InfoTyped
  <2>3. PendingOK'
    BY <1>1 DEF IInv, PendingOK
  <2> QED BY <2>1, <2>2, <2>3
<1>3. ListOK'
  BY <1>1 DEF IInv, ListOK
<1>4. CallOK'
  BY <1>1 DEF CallOK
<1>5. EventsOK'
  <2> SUFFICES ASSUME NEW x \in Swaps
               PROVE  /\ x \in unseen'[CoinsOn(x)] =>
                           status'[x] = "none" /\ userLeg'[x] # "none"
                      /\ userLeg'[x] = "none" => status'[x] = "none"
                      /\ x \in S2B /\ status'[x] = "none" => botLeg'[x] = "none"
                      /\ x \in S2B /\ status'[x] = "New" => botLeg'[x] # "refunded"
    BY DEF EventsOK, CoinsOn
  <2>1. /\ x \in unseen[CoinsOn(x)] => status[x] = "none" /\ userLeg[x] # "none"
        /\ userLeg[x] = "none" => status[x] = "none"
        /\ x \in S2B /\ status[x] = "none" => botLeg[x] = "none"
    BY DEF IInv, EventsOK
  <2> QED BY <1>1, <2>1
<1> QED
  BY <1>1, <1>2, <1>3, <1>4, <1>5 DEF IInv, NoSave, records, info

LEMMA RefundBchInv ==
  ASSUME IInv, NEW s \in Swaps, RefundBch(s)
  PROVE  IInv' /\ NoSave /\ s \in S2B
<1>1. /\ todo # <<>> /\ s = Head(todo) /\ Sent
      /\ UNCHANGED <<userLeg, orphans, unseen>>
      /\ Stages[pc].name = "refundLockedBCH"
      /\ IF botLeg[s] = "locked"
           THEN /\ botLeg' = [botLeg EXCEPT ![s] = "refunded"]
                /\ wallet' = Received(wallet, Value[s] - SpendFee)
           ELSE UNCHANGED <<botLeg, wallet>>
  BY DEF RefundBch, Handling
<1>2. s \in S2B /\ status[s] = "Locked"
  BY <1>1, AtStage
<1>3. Stages[pc].of \notin {"BCH", "sBCH"}
  BY <1>1, StageFacts DEF IInv, ListOK
<1>4. wallet' \in Wallets
  BY <1>1, ValueReceived DEF IInv
<1>5. ChainsOK'
  BY <1>1 DEF IInv, ChainsOK, Sent
<1>6. \A x \in S2B : x # s => botLeg'[x] = botLeg[x]
  BY <1>1 DEF IInv, ChainsOK, Swaps
<1>7. \A x \in S2B : /\ status[x] = "none" => botLeg'[x] = botLeg[x]
                     /\ status[x] = "New" => botLeg'[x] # "refunded"
  BY <1>2, <1>6 DEF IInv, EventsOK, Swaps
<1>8. /\ \A x \in Swaps : userLeg'[x] = "none" <=> userLeg[x] = "none"
      /\ \A x \in Swaps : x \in unseen'[CoinsOn(x)] => x \in unseen[CoinsOn(x)]
  BY <1>1
<1> QED
  BY <1>1, <1>2, <1>3, <1>4, <1>5, <1>7, <1>8, SentInv

LEMMA UnlockBchInv ==
  ASSUME IInv, NEW s \in Swaps, UnlockBch(s)
  PROVE  IInv' /\ NoSave /\ s \in B2S
<1>1. /\ todo # <<>> /\ s = Head(todo) /\ Sent
      /\ UNCHANGED <<botLeg, orphans, unseen>>
      /\ Stages[pc].name = "unlockBchUserDeposits"
      /\ IF userLeg[s] = "locked"
           THEN /\ userLeg' = [userLeg EXCEPT ![s] = "taken"]
                /\ wallet' = Received(wallet, Value[s] - SpendFee)
           ELSE UNCHANGED <<userLeg, wallet>>
  BY DEF UnlockBch, Handling
<1>2. s \in B2S
  BY <1>1, AtStage
<1>3. Stages[pc].of \notin {"BCH", "sBCH"}
  BY <1>1, StageFacts DEF IInv, ListOK
<1>4. wallet' \in Wallets
  BY <1>1, ValueReceived DEF IInv
<1>5. ChainsOK'
  BY <1>1 DEF IInv, ChainsOK, Sent
<1>6. /\ \A x \in Swaps : userLeg'[x] = "none" <=> userLeg[x] = "none"
      /\ \A x \in Swaps : x \in unseen'[CoinsOn(x)] => x \in unseen[CoinsOn(x)]
      /\ \A x \in S2B : /\ status[x] = "none" => botLeg'[x] = botLeg[x]
                        /\ status[x] = "New" => botLeg'[x] # "refunded"
  BY <1>1 DEF IInv, ChainsOK, EventsOK, Swaps
<1> QED
  BY <1>1, <1>2, <1>3, <1>4, <1>5, <1>6, SentInv

\* The wallet after a lock transaction with the inputs I.
LEMMA LockSpends ==
  ASSUME wallet \in Wallets, NEW s \in Swaps, NEW I \in Inputs(s),
         Change(s, I) >= 0
  PROVE  /\ WalletAfter(s, I) \in Wallets
         /\ Cardinality(I) \in 1..MaxInputs
         /\ \E lost \in Fee(1)..(Fee(MaxInputs) + Dust) :
              SumFunction(WalletAfter(s, I)) = SumFunction(wallet) - Value[s] - lost
<1>1. /\ Value[s] \in Nat \ {0} /\ Reserve \in Nat /\ Dust \in Nat
      /\ MaxInputs \in Nat \ {0}
  BY SwapsAssumption, WalletAssumption
<1>2. /\ I \in SUBSET DOMAIN wallet /\ Amount(I) \in Int
      /\ Cardinality(I) \in 1..MaxInputs
  <2>1. Value[s] + Reserve \in Nat \ {0}
    BY <1>1
  <2> QED BY <2>1, FoundIsEnough DEF Inputs
<1>3. /\ Spent(I) \in Wallets
      /\ SumFunction(Spent(I)) = SumFunction(wallet) - Amount(I)
  BY <1>2, SpentWallet
<1>4. SumFunction(wallet) \in Int
  BY <1>2, WalletPlaces
<1> DEFINE n == Cardinality(I)
           ch == Amount(I) - Value[s] - (1 + n)
<1>5. Change(s, I) = ch /\ ch \in Int /\ ch >= 0
  BY <1>1, <1>2 DEF Change, Fee
<1>6. CASE ch > Dust
  <2>1. WalletAfter(s, I) = Received(Spent(I), ch)
    BY <1>5, <1>6 DEF WalletAfter
  <2>2. ch \in Nat \ {0}
    BY <1>1, <1>5, <1>6
  <2> HIDE DEF ch
  <2>3. /\ Received(Spent(I), ch) \in Wallets
        /\ SumFunction(Received(Spent(I), ch)) = SumFunction(Spent(I)) + ch
    BY <1>3, <2>2, ReceivedWallet
  <2>4. 1 + n \in Fee(1)..(Fee(MaxInputs) + Dust)
    BY <1>1, <1>2 DEF Fee
  <2>5. SumFunction(Spent(I)) + ch = SumFunction(wallet) - Value[s] - (1 + n)
    BY <1>1, <1>2, <1>3, <1>4 DEF ch
  <2> QED BY <1>2, <2>1, <2>3, <2>4, <2>5
<1>7. CASE ~(ch > Dust)
  <2>1. WalletAfter(s, I) = Spent(I)
    BY <1>5, <1>7 DEF WalletAfter
  <2>2. (1 + n) + ch \in Fee(1)..(Fee(MaxInputs) + Dust)
    BY <1>1, <1>2, <1>5, <1>7 DEF Fee
  <2>3. SumFunction(Spent(I)) = SumFunction(wallet) - Value[s] - ((1 + n) + ch)
    BY <1>1, <1>2, <1>3, <1>4
  <2> QED BY <1>2, <1>3, <2>1, <2>2, <2>3
<1> QED
  BY <1>6, <1>7

\* A lock is sent for a New record, perhaps not for the first time.
LEMMA LockBchInv ==
  ASSUME IInv, NEW s \in Swaps, LockBch(s)
  PROVE  /\ IInv' /\ NoSave /\ s \in S2B /\ status[s] = "New"
         /\ botLeg[s] # "refunded" /\ userLeg' = userLeg
         /\ botLeg' = [botLeg EXCEPT ![s] = "locked"]
         /\ orphans' = [orphans EXCEPT ![s] = IF botLeg[s] = "none" THEN @ ELSE @ + 1]
         /\ \E lost \in Fee(1)..(Fee(MaxInputs) + Dust) :
              SumFunction(wallet') = SumFunction(wallet) - Value[s] - lost
<1>1. /\ todo # <<>> /\ s = Head(todo) /\ Sent /\ userLeg' = userLeg
      /\ Stages[pc].name = "handleSbchUserDeposits"
      /\ botLeg' = [botLeg EXCEPT ![s] = "locked"]
      /\ orphans' = [orphans EXCEPT ![s] = IF botLeg[s] = "none" THEN @ ELSE @ + 1]
      /\ unseen' = [unseen EXCEPT !["BCH"] = @ \ {s}]
      /\ \E I \in Inputs(s) : Change(s, I) >= 0 /\ wallet' = WalletAfter(s, I)
  BY DEF LockBch, Handling
<1>2. s \in S2B /\ status[s] = "New"
  BY <1>1, AtStage
<1>3. Stages[pc].of \notin {"BCH", "sBCH"}
  BY <1>1, StageFacts DEF IInv, ListOK
<1>4. PICK I \in Inputs(s) : Change(s, I) >= 0 /\ wallet' = WalletAfter(s, I)
  BY <1>1
<1>5. /\ wallet' \in Wallets
      /\ \E lost \in Fee(1)..(Fee(MaxInputs) + Dust) :
           SumFunction(wallet') = SumFunction(wallet) - Value[s] - lost
  BY <1>4, LockSpends DEF IInv
<1>6. ChainsOK'
  <2>1. unseen' \in [{"BCH", "sBCH"} -> SUBSET Swaps]
    BY <1>1 DEF IInv, ChainsOK
  <2>2. orphans' \in [Swaps -> Nat]
    BY <1>1 DEF IInv, ChainsOK
  <2>3. botLeg' \in [Swaps -> {"none", "locked", "claimed", "refunded"}]
    BY <1>1 DEF IInv, ChainsOK
  <2> QED BY <1>1, <2>1, <2>2, <2>3 DEF IInv, ChainsOK, Sent
<1>7. /\ botLeg[s] # "refunded"
      /\ \A x \in S2B : /\ status[x] = "none" => botLeg'[x] = botLeg[x]
                        /\ status[x] = "New" => botLeg'[x] # "refunded"
  <2>1. \A x \in S2B : botLeg'[x] = IF x = s THEN "locked" ELSE botLeg[x]
    BY <1>1 DEF IInv, ChainsOK, Swaps
  <2> QED BY <1>2, <2>1 DEF IInv, EventsOK, Swaps
<1>8. \A x \in Swaps : x \in unseen'[CoinsOn(x)] => x \in unseen[CoinsOn(x)]
  BY <1>1 DEF IInv, ChainsOK, CoinsOn
<1>9. IInv' /\ NoSave
  BY <1>1, <1>2, <1>3, <1>5, <1>6, <1>7, <1>8, SentInv
<1> QED
  BY <1>1, <1>2, <1>5, <1>7, <1>9

\* A call of the contract is made for the record at hand, from its own stage.
LEMMA CallKind ==
  ASSUME NEW s, NEW kind \in SbchCall(s)
  PROVE  /\ todo # <<>> /\ s = Head(todo) /\ kind = Waiting
         /\ Stages[pc].name \in {"refundLockedSbch", "handleBchUserDeposits",
                                 "unlockSbchUserDeposits"}
<1>1. CASE Handling("refundLockedSbch", s) /\ s \in expired
  BY <1>1 DEF SbchCall, Handling, Waiting
<1>2. CASE ~(Handling("refundLockedSbch", s) /\ s \in expired)
           /\ Handling("handleBchUserDeposits", s) /\ s \notin expired
  BY <1>2 DEF SbchCall, Handling, Waiting
<1>3. CASE ~(Handling("refundLockedSbch", s) /\ s \in expired)
           /\ ~(Handling("handleBchUserDeposits", s) /\ s \notin expired)
  BY <1>3 DEF SbchCall, Handling, Waiting
<1> QED
  BY <1>1, <1>2, <1>3

\* What the contract may be called for, and how its record may go on.
LEMMA WaitingRecord ==
  ASSUME IInv, todo # <<>>, NEW s, s = Head(todo),
         Stages[pc].name \in {"refundLockedSbch", "handleBchUserDeposits",
                              "unlockSbchUserDeposits"}
  PROVE  /\ s \in Swaps /\ status[s] # "none" /\ Waiting \in Kinds
         /\ IF Waiting = "unlock" THEN s \in S2B ELSE s \in B2S
         /\ Waiting = "refund" => status[s] = "Locked"
         /\ Waiting = "lock" => status[s] = "New"
         /\ Waiting = "unlock" => status[s] = "Revealed"
         /\ \A kind : kind = Waiting /\ Settle(kind, s) => Saves(s)
<1>1. /\ s \in Swaps /\ status[s] # "none" /\ Waiting \in Kinds
      /\ IF Waiting = "unlock" THEN s \in S2B ELSE s \in B2S
      /\ Waiting = "refund" => status[s] = "Locked"
      /\ Waiting = "lock" => status[s] = "New"
      /\ Waiting = "unlock" => status[s] = "Revealed"
  BY AtStage DEF Waiting, Kinds
<1>2. ASSUME Settle(Waiting, s)
      PROVE  Saves(s)
  <2>1. CASE Waiting = "refund" /\ botLeg[s] = "refunded"
    BY <1>1, <1>2, <2>1 DEF Settle, Saves, Moves, Statuses
  <2>2. CASE Waiting = "unlock" /\ userLeg[s] = "taken"
    BY <1>1, <1>2, <2>2 DEF Settle, Saves, Moves, Statuses
  <2>3. CASE ~(Waiting = "refund" /\ botLeg[s] = "refunded")
             /\ ~(Waiting = "unlock" /\ userLeg[s] = "taken")
    BY <1>2, <2>3 DEF Settle, Saves
  <2> QED BY <2>1, <2>2, <2>3
<1> QED
  BY <1>1, <1>2

LEMMA SendFailsInv ==
  ASSUME IInv, NEW s \in Swaps, SendFails(s)
  PROVE  IInv' /\ Saves(s) /\ UNCHANGED <<userLeg, botLeg, orphans, wallet>>
<1>1. PICK kind \in SbchCall(s) : Settle(kind, s)
  BY DEF SendFails
<1>2. Done /\ UNCHANGED chains /\ faults' = faults
  BY DEF SendFails
<1>3. /\ todo # <<>> /\ s = Head(todo) /\ kind = Waiting
      /\ Stages[pc].name \in {"refundLockedSbch", "handleBchUserDeposits",
                              "unlockSbchUserDeposits"}
  BY CallKind
<1>4. Saves(s) /\ status[s] # "none"
  BY <1>1, <1>3, WaitingRecord
<1>5. faults' \in 0..MaxFaults
  BY <1>2 DEF IInv
<1> QED
  BY <1>2, <1>3, <1>4, <1>5, NoCoinMoves

LEMMA SaveResultInv ==
  ASSUME IInv, SaveResult
  PROVE  IInv' /\ UNCHANGED <<userLeg, botLeg, orphans, wallet>>
         /\ Saves(Head(todo)) /\ Head(todo) \in Swaps
         /\ status'[Head(todo)] # "New"
<1> DEFINE s == Head(todo)
           st == Stages[pc].done
<1>1. todo # <<>> /\ Stages[pc].of \notin {"BCH", "sBCH"}
  BY DEF SaveResult, IInv, CallOK
<1>2. Save(s, st) /\ Done /\ UNCHANGED chains /\ faults' = faults
  BY DEF SaveResult
<1>3. s \in Swaps /\ status[s] = Stages[pc].status /\ pc \in 1..8
  BY <1>1, AtHand
<1>4. <<status[s], st>> \in {<<"New", "Locked">>, <<"Locked", "Refunded">>,
                             <<"Revealed", "Unlocked">>}
  BY <1>1, <1>3, StageFacts
<1> HIDE DEF st
<1>5. Saves(s) /\ status[s] # "none" /\ st # "New"
  BY <1>2, <1>4 DEF Saves, Moves, Statuses
<1>6. faults' \in 0..MaxFaults
  BY <1>2 DEF IInv
<1>7. status'[s] = st
  BY <1>2, <1>3 DEF Save, IInv, TablesOK
<1> QED
  BY <1>1, <1>2, <1>3, <1>5, <1>6, <1>7, NoCoinMoves

\* What was sent stays so, the record is left.
LEMMA RecordLeftInv ==
  ASSUME IInv, LoseResult \/ \E s \in Swaps : RpcFails(s)
  PROVE  /\ IInv' /\ NoSave /\ UNCHANGED <<userLeg, botLeg, orphans, wallet>>
         /\ faults' = faults + 1 /\ call' = "none"
<1>1. /\ todo # <<>> /\ Fault /\ Done /\ NoSave /\ UNCHANGED chains
  BY DEF LoseResult, RpcFails, Handling, IInv, CallOK
<1>2. Saves(Head(todo)) /\ status' = status
  BY <1>1 DEF Saves, NoSave, records
<1>3. faults' \in 0..MaxFaults
  BY <1>1, BoundsAssumption DEF IInv, Fault
<1> QED
  BY <1>1, <1>2, <1>3, NoCoinMoves DEF Fault, Done

LEMMA CallFailsInv ==
  ASSUME IInv, CallFails
  PROVE  IInv' /\ UNCHANGED <<userLeg, botLeg, orphans, wallet>>
         /\ Saves(Head(todo)) /\ Head(todo) \in Swaps /\ call # "ok"
         /\ (faults' = faults \/ faults' = faults + 1)
<1> DEFINE s == Head(todo)
<1>1. /\ todo # <<>> /\ call # "ok"
      /\ Stages[pc].name \in {"refundLockedSbch", "handleBchUserDeposits",
                              "unlockSbchUserDeposits"}
  BY DEF CallFails, IInv, CallOK
<1>2. Settle(Waiting, s) /\ Done /\ UNCHANGED chains
  BY DEF CallFails
<1>3. s \in Swaps /\ status[s] # "none" /\ Saves(s)
  BY <1>1, <1>2, WaitingRecord
<1>4. faults' \in 0..MaxFaults /\ (faults' = faults \/ faults' = faults + 1)
  BY BoundsAssumption DEF IInv, CallFails, Fault
<1> QED
  BY <1>1, <1>2, <1>3, <1>4, NoCoinMoves

\* The transaction of the call is the only one, of the kind of the stage.
LEMMA SendSbchTxInv ==
  ASSUME IInv, NEW s \in Swaps, SendSbchTx(s)
  PROVE  IInv' /\ NoSave /\ UNCHANGED <<userLeg, botLeg, orphans, wallet>>
<1>1. PICK kind \in SbchCall(s) :
        pending = {} /\ pending' = pending \cup {<<kind, s>>}
  BY DEF SendSbchTx, CanSend
<1>2. /\ call' = "waiting"
      /\ UNCHANGED <<userLeg, botLeg, orphans, expired, wallet, unseen, records,
                     pc, todo, info, faults>>
  BY DEF SendSbchTx
<1>3. /\ todo # <<>> /\ s = Head(todo) /\ kind = Waiting
      /\ Stages[pc].name \in {"refundLockedSbch", "handleBchUserDeposits",
                              "unlockSbchUserDeposits"}
  BY CallKind
<1>4. kind \in Kinds /\ IF kind = "unlock" THEN s \in S2B ELSE s \in B2S
  BY <1>3, WaitingRecord
<1>5. pending' = {<<kind, s>>}
  BY <1>1
<1>6. Cardinality(pending') <= 1
  <2>1. Cardinality({<<kind, s>>}) = 1
    BY FS_Singleton
  <2> QED BY <1>5, <2>1
<1>7. PendingOK'
  BY <1>4, <1>5, <1>6 DEF PendingOK
<1>8. CallOK'
  <2>1. Stages[pc].of \notin {"BCH", "sBCH"}
    BY <1>3, StageFacts DEF IInv, ListOK
  <2> QED BY <1>2, <1>3, <2>1 DEF CallOK
<1>9. NoSave
  BY <1>2 DEF NoSave
<1>10. UNCHANGED <<userLeg, botLeg, orphans, expired, wallet, unseen, status,
                   table, pc, todo, asked, due, faults>>
  BY <1>2 DEF records, info
<1>11. ChainsOK' /\ TablesOK' /\ ListOK' /\ InfoTyped' /\ EventsOK'
  <2>1. ChainsOK' /\ TablesOK'
    BY <1>10 DEF IInv, ChainsOK, TablesOK
  <2>2. ListOK'
    BY <1>10 DEF IInv, ListOK
  <2>3. InfoTyped'
    BY <1>10 DEF IInv, InfoTyped
  <2>4. EventsOK'
    BY <1>10 DEF IInv, EventsOK
  <2> QED BY <2>1, <2>2, <2>3, <2>4
<1> QED
  BY <1>7, <1>8, <1>9, <1>10, <1>11 DEF IInv

-----------------------------------------------------------------------------
(* The loop goes on to another call, or starts again.                      *)

LEMMA EmptyList ==
  <<>> \in Seq(Swaps) /\ IsInjective(<<>>) /\ ToSet(<<>>) = {}
  BY DEF IsInjective, ToSet

\* A list holds what its call may handle.
LEMMA ListIs ==
  ASSUME IInv, NEW n \in 1..8
  PROVE  /\ List(n) \in Seq(Swaps) /\ IsInjective(List(n))
         /\ \A s \in ToSet(List(n)) :
              IF Stages[n].of \in {"BCH", "sBCH"} THEN s \in unseen[Stages[n].of]
              ELSE TableOf(s) = Stages[n].of /\ status[s] = Stages[n].status
<1> DEFINE c == Stages[n].of
<1>1. DOMAIN unseen = {"BCH", "sBCH"}
  BY DEF IInv, ChainsOK
<1>2. CASE c \in {"BCH", "sBCH"}
  <2>1. List(n) = SetToSeq(unseen[c])
    BY <1>1, <1>2 DEF List
  <2>2. unseen[c] \subseteq Swaps
    BY <1>2 DEF IInv, ChainsOK
  <2>3. IsFiniteSet(unseen[c])
    BY <2>2, SwapsFinite
  <2> HIDE DEF c
  <2>4. /\ SetToSeq(unseen[c]) \in Seq(unseen[c])
        /\ ToSet(SetToSeq(unseen[c])) = unseen[c]
        /\ IsInjective(SetToSeq(unseen[c]))
    BY <2>3, SetToSeqIs
  <2>5. List(n) \in Seq(Swaps)
    BY <2>1, <2>2, <2>4
  <2> QED BY <1>2, <2>1, <2>4, <2>5 DEF c
<1>3. CASE c \notin {"BCH", "sBCH"}
  <2>1. List(n) = Query(c, Stages[n].status, QueryLimit)
    BY <1>1, <1>3 DEF List
  <2>2. c \in Tables /\ Stages[n].status \in Statuses \ {"none"}
    <3>1. n = 1 \/ n = 2 \/ n = 3 \/ n = 4 \/ n = 5 \/ n = 6 \/ n = 7 \/ n = 8
      OBVIOUS
    <3> QED BY <1>3, <3>1 DEF Stages, Tables, Statuses
  <2>3. TablesOK /\ QueryLimit \in Nat
    BY BoundsAssumption DEF IInv
  <2> HIDE DEF c
  <2>4. /\ List(n) \in Seq(Swaps) /\ IsInjective(List(n))
        /\ \A s \in ToSet(List(n)) :
             TableOf(s) = c /\ status[s] = Stages[n].status
    BY <2>1, <2>2, <2>3, QueryReturns
  <2> QED BY <1>3, <2>4 DEF c
<1> QED
  BY <1>2, <1>3

\* The list is another one, with no call of the contract.
LEMMA NewListInv ==
  ASSUME IInv, ListOK', CallOK', UNCHANGED <<chains, records, info>>,
         faults' \in 0..MaxFaults
  PROVE  IInv' /\ NoSave /\ UNCHANGED <<userLeg, botLeg, orphans, wallet>>
<1>1. UNCHANGED <<userLeg, botLeg, orphans, expired, pending, wallet, unseen,
                  status, table, asked, due>>
  BY DEF chains, records, info
<1>2. ChainsOK' /\ TablesOK' /\ PendingOK' /\ InfoTyped' /\ EventsOK'
  <2>1. ChainsOK' /\ PendingOK'
    BY <1>1 DEF IInv, ChainsOK, PendingOK
  <2>2. TablesOK'
    BY <1>1 DEF IInv, TablesOK
  <2>3. InfoTyped'
    BY <1>1 DEF IInv, InfoTyped
  <2>4. EventsOK'
    BY <1>1 DEF IInv, EventsOK
  <2> QED BY <2>1, <2>2, <2>3, <2>4
<1> QED
  BY <1>1, <1>2 DEF IInv, NoSave

LEMMA EndStageInv ==
  ASSUME IInv, EndStage
  PROVE  IInv' /\ NoSave /\ UNCHANGED <<userLeg, botLeg, orphans, wallet>>
<1>1. PICK n \in 1..8 : pc' = n /\ todo' = List(n)
  BY StageFacts DEF EndStage
<1>3. todo = <<>> /\ UNCHANGED <<chains, records, call, info, faults>>
  BY DEF EndStage
<1>4. UNCHANGED <<unseen, status>>
  BY <1>3 DEF chains, records
<1>5. ListOK'
  <2>1. /\ List(n) \in Seq(Swaps) /\ IsInjective(List(n))
        /\ \A s \in ToSet(List(n)) :
             IF Stages[n].of \in {"BCH", "sBCH"} THEN s \in unseen[Stages[n].of]
             ELSE TableOf(s) = Stages[n].of /\ status[s] = Stages[n].status
    BY ListIs
  <2> QED BY <1>1, <1>4, <2>1 DEF ListOK
<1>6. CallOK'
  <2>1. call = "none"
    BY <1>3 DEF IInv, CallOK
  <2> QED BY <1>3, <2>1 DEF CallOK
<1>7. faults' \in 0..MaxFaults
  BY <1>3 DEF IInv
<1> QED
  BY <1>3, <1>5, <1>6, <1>7, NewListInv

LEMMA CrashInv ==
  ASSUME IInv, Crash
  PROVE  IInv' /\ NoSave /\ UNCHANGED <<userLeg, botLeg, orphans, wallet>>
         /\ faults' = faults + 1 /\ call' = "none"
<1>1. /\ pc' = 8 /\ todo' = <<>> /\ call' = "none"
      /\ UNCHANGED <<chains, records, info>>
  BY StageFacts DEF Crash
<1>2. ListOK'
  BY <1>1, EmptyList DEF ListOK
<1>3. CallOK'
  BY <1>1 DEF CallOK
<1>4. faults' \in 0..MaxFaults /\ faults' = faults + 1
  BY BoundsAssumption DEF IInv, Crash, Fault
<1> QED
  BY <1>1, <1>2, <1>3, <1>4, NewListInv

-----------------------------------------------------------------------------
(* The users and the chains take their steps.                              *)

\* The loop and its records stay as they are, and no event gets lost.
LEMMA WorldStep ==
  ASSUME IInv, UNCHANGED <<records, loop, info, faults>>, wallet' \in Wallets,
         \A c \in {"BCH", "sBCH"} : unseen[c] \subseteq unseen'[c],
         ChainsOK', PendingOK', EventsOK'
  PROVE  IInv' /\ NoSave
<1>1. UNCHANGED <<status, table, pc, todo, call, asked, due, faults>>
  BY DEF records, loop, info
<1>2. TablesOK'
  BY <1>1 DEF IInv, TablesOK
<1>3. ListOK'
  BY <1>1 DEF IInv, ListOK
<1>4. CallOK' /\ InfoTyped'
  BY <1>1 DEF IInv, CallOK, InfoTyped
<1> QED
  BY <1>1, <1>2, <1>3, <1>4 DEF IInv, NoSave

\* Nothing happens to the coins of x that the wallet has to do with.
SameCost(x) ==
  IF x \in S2B
    THEN /\ orphans'[x] = orphans[x]
         /\ botLeg'[x] = "none" <=> botLeg[x] = "none"
         /\ botLeg'[x] = "refunded" <=> botLeg[x] = "refunded"
  ELSE /\ userLeg'[x] = "taken" <=> userLeg[x] = "taken"
       /\ userLeg'[x] = "refunded" <=> userLeg[x] = "refunded"

LEMMA UserLocksInv ==
  ASSUME IInv, NEW s \in Swaps, UserLocks(s)
  PROVE  /\ IInv' /\ NoSave /\ UNCHANGED <<orphans, wallet, loop, faults>>
         /\ \A x \in Swaps : SameCost(x)
<1> DEFINE c == CoinsOn(s)
<1>1. /\ userLeg[s] = "none" /\ userLeg' = [userLeg EXCEPT ![s] = "locked"]
      /\ unseen' = [unseen EXCEPT ![c] = @ \cup {s}]
      /\ UNCHANGED <<botLeg, orphans, expired, pending, wallet, records, loop,
                     info, faults>>
  BY DEF UserLocks, Appears
<1>2. UNCHANGED status
  BY <1>1 DEF records
<1>3. /\ userLeg \in [Swaps -> {"none", "locked", "taken", "refunded"}]
      /\ unseen \in [{"BCH", "sBCH"} -> SUBSET Swaps]
      /\ status[s] = "none"
  BY <1>1 DEF IInv, ChainsOK, EventsOK
<1>4. \A x \in Swaps : userLeg'[x] = IF x = s THEN "locked" ELSE userLeg[x]
  BY <1>1, <1>3
<1>5. \A x \in Swaps : CoinsOn(x) \in {"BCH", "sBCH"}
  BY DEF CoinsOn
<1>6. \A d \in {"BCH", "sBCH"} :
        unseen'[d] = IF d = c THEN unseen[d] \cup {s} ELSE unseen[d]
  BY <1>1, <1>3, <1>5
<1> HIDE DEF c
<1>7. ChainsOK'
  <2>1. userLeg' \in [Swaps -> {"none", "locked", "taken", "refunded"}]
    BY <1>1, <1>3
  <2>2. unseen' \in [{"BCH", "sBCH"} -> SUBSET Swaps]
    BY <1>1, <1>3
  <2> QED BY <1>1, <2>1, <2>2 DEF IInv, ChainsOK
<1>8. PendingOK'
  BY <1>1 DEF IInv, PendingOK
<1>9. EventsOK'
  <2> SUFFICES ASSUME NEW x \in Swaps
               PROVE  /\ x \in unseen'[CoinsOn(x)] =>
                           status'[x] = "none" /\ userLeg'[x] # "none"
                      /\ userLeg'[x] = "none" => status'[x] = "none"
                      /\ x \in S2B /\ status'[x] = "none" => botLeg'[x] = "none"
                      /\ x \in S2B /\ status'[x] = "New" => botLeg'[x] # "refunded"
    BY DEF EventsOK, CoinsOn
  <2>1. /\ x \in unseen[CoinsOn(x)] => status[x] = "none" /\ userLeg[x] # "none"
        /\ userLeg[x] = "none" => status[x] = "none"
        /\ x \in S2B /\ status[x] = "none" => botLeg[x] = "none"
        /\ x \in S2B /\ status[x] = "New" => botLeg[x] # "refunded"
    BY DEF IInv, EventsOK
  <2>2. x \in unseen'[CoinsOn(x)] => x = s \/ x \in unseen[CoinsOn(x)]
    BY <1>5, <1>6
  <2> QED BY <1>1, <1>2, <1>3, <1>4, <2>1, <2>2
<1>10. \A x \in Swaps : SameCost(x)
  BY <1>1, <1>4 DEF SameCost
<1>11. wallet' \in Wallets
  BY <1>1 DEF IInv
<1> QED
  BY <1>1, <1>6, <1>7, <1>8, <1>9, <1>10, <1>11, WorldStep

LEMMA UserClaimsInv ==
  ASSUME IInv, NEW s \in Swaps, UserClaims(s)
  PROVE  /\ IInv' /\ NoSave /\ UNCHANGED <<orphans, wallet, loop, faults>>
         /\ \A x \in Swaps : SameCost(x)
<1> DEFINE c == Other(CoinsOn(s))
<1>1. /\ botLeg[s] = "locked" /\ botLeg' = [botLeg EXCEPT ![s] = "claimed"]
      /\ unseen' = [unseen EXCEPT ![c] = @ \cup {s}]
      /\ UNCHANGED <<userLeg, orphans, expired, pending, wallet, records, loop,
                     info, faults>>
  BY DEF UserClaims, Appears
<1>2. UNCHANGED status
  BY <1>1 DEF records
<1>3. /\ botLeg \in [Swaps -> {"none", "locked", "claimed", "refunded"}]
      /\ unseen \in [{"BCH", "sBCH"} -> SUBSET Swaps]
  BY DEF IInv, ChainsOK
<1>4. \A x \in Swaps : botLeg'[x] = IF x = s THEN "claimed" ELSE botLeg[x]
  BY <1>1, <1>3
<1>5. /\ \A x \in Swaps : CoinsOn(x) \in {"BCH", "sBCH"}
      /\ c \in {"BCH", "sBCH"} /\ c # CoinsOn(s)
  BY DEF CoinsOn, Other
<1>6. \A d \in {"BCH", "sBCH"} :
        unseen'[d] = IF d = c THEN unseen[d] \cup {s} ELSE unseen[d]
  BY <1>1, <1>3, <1>5
<1> HIDE DEF c
<1>7. ChainsOK'
  <2>1. botLeg' \in [Swaps -> {"none", "locked", "claimed", "refunded"}]
    BY <1>1, <1>3
  <2>2. unseen' \in [{"BCH", "sBCH"} -> SUBSET Swaps]
    BY <1>1, <1>3
  <2> QED BY <1>1, <2>1, <2>2 DEF IInv, ChainsOK
<1>8. PendingOK'
  BY <1>1 DEF IInv, PendingOK
<1>9. EventsOK'
  <2> SUFFICES ASSUME NEW x \in Swaps
               PROVE  /\ x \in unseen'[CoinsOn(x)] =>
                           status'[x] = "none" /\ userLeg'[x] # "none"
                      /\ userLeg'[x] = "none" => status'[x] = "none"
                      /\ x \in S2B /\ status'[x] = "none" => botLeg'[x] = "none"
                      /\ x \in S2B /\ status'[x] = "New" => botLeg'[x] # "refunded"
    BY DEF EventsOK, CoinsOn
  <2>1. /\ x \in unseen[CoinsOn(x)] => status[x] = "none" /\ userLeg[x] # "none"
        /\ userLeg[x] = "none" => status[x] = "none"
        /\ x \in S2B /\ status[x] = "none" => botLeg[x] = "none"
        /\ x \in S2B /\ status[x] = "New" => botLeg[x] # "refunded"
    BY DEF IInv, EventsOK
  <2>2. x \in unseen'[CoinsOn(x)] => x \in unseen[CoinsOn(x)]
    BY <1>5, <1>6
  <2> QED BY <1>1, <1>2, <1>4, <2>1, <2>2
<1>10. \A x \in Swaps : SameCost(x)
  BY <1>1, <1>4 DEF SameCost
<1>11. wallet' \in Wallets
  BY <1>1 DEF IInv
<1> QED
  BY <1>1, <1>6, <1>7, <1>8, <1>9, <1>10, <1>11, WorldStep

\* The user's refund and the clock make no event.
LEMMA UserWaitsInv ==
  ASSUME IInv, NEW s \in Swaps, UserRefunds(s) \/ TimePasses(s)
  PROVE  /\ IInv' /\ NoSave /\ UNCHANGED <<botLeg, orphans, loop, faults>>
         /\ TimePasses(s) => UNCHANGED <<userLeg, wallet>>
<1>1. UNCHANGED <<botLeg, orphans, pending, unseen, records, loop, info, faults>>
  BY DEF UserRefunds, TimePasses
<1>2. UNCHANGED status
  BY <1>1 DEF records
<1>3. userLeg \in [Swaps -> {"none", "locked", "taken", "refunded"}]
  BY DEF IInv, ChainsOK
<1>4. /\ userLeg' \in [Swaps -> {"none", "locked", "taken", "refunded"}]
      /\ \A x \in Swaps : userLeg'[x] = "none" <=> userLeg[x] = "none"
      /\ expired' \subseteq Swaps
      /\ TimePasses(s) => UNCHANGED <<userLeg, wallet>>
  <2>1. CASE UserRefunds(s)
    <3>1. ~TimePasses(s)
      BY <2>1 DEF UserRefunds, TimePasses
    <3> QED BY <1>3, <2>1, <3>1 DEF UserRefunds, IInv, ChainsOK
  <2>2. CASE TimePasses(s)
    BY <1>3, <2>2 DEF TimePasses
  <2> QED BY <2>1, <2>2
<1>5. ChainsOK'
  BY <1>1, <1>4 DEF IInv, ChainsOK
<1>6. PendingOK'
  BY <1>1 DEF IInv, PendingOK
<1>7. EventsOK'
  BY <1>1, <1>2, <1>4 DEF IInv, EventsOK, CoinsOn
<1>8. wallet' \in Wallets
  <2>1. wallet' = wallet \/ (PenaltyBPS # 0 /\ wallet' = Received(wallet, Penalty(s)))
    BY DEF UserRefunds, TimePasses
  <2> QED BY <2>1, PenaltyReceived DEF IInv
<1> QED
  BY <1>1, <1>4, <1>5, <1>6, <1>7, <1>8, WorldStep

LEMMA PendingRest ==
  ASSUME PendingOK, NEW tx
  PROVE  Cardinality(pending \ {tx}) <= 1
<1>1. IsFiniteSet(Kinds)
  <2>1. IsFiniteSet({"lock"})
    BY FS_Singleton
  <2>2. IsFiniteSet({"lock"} \cup {"refund"})
    BY <2>1, FS_AddElement
  <2>3. IsFiniteSet(({"lock"} \cup {"refund"}) \cup {"unlock"})
    BY <2>2, FS_AddElement
  <2>4. Kinds = ({"lock"} \cup {"refund"}) \cup {"unlock"}
    BY DEF Kinds
  <2> QED BY <2>3, <2>4
<1>2. IsFiniteSet(Kinds \X Swaps)
  BY <1>1, SwapsFinite, FS_Product
<1>3. IsFiniteSet(pending)
  BY <1>2, FS_Subset DEF PendingOK
<1>4. IsFiniteSet(pending \ {tx}) /\ Cardinality(pending \ {tx}) <= Cardinality(pending)
  <2>1. pending \ {tx} \in SUBSET pending
    OBVIOUS
  <2> QED BY <1>3, <2>1, FS_Subset
<1>5. Cardinality(pending) \in Nat /\ Cardinality(pending \ {tx}) \in Nat
  BY <1>3, <1>4, FS_CardinalityType
<1> QED
  BY <1>4, <1>5 DEF PendingOK

\* A mined transaction of the account moves coins on sBCH only.
LEMMA MineInv ==
  ASSUME IInv, Mine
  PROVE  /\ IInv' /\ NoSave /\ UNCHANGED <<orphans, wallet, pc, todo, faults>>
         /\ \A x \in Swaps : SameCost(x)
         /\ call' = call \/ call = "waiting"
<1>1. PICK kind \in Kinds, s \in Swaps :
        /\ <<kind, s>> \in pending /\ pending' = pending \ {<<kind, s>>}
        /\ IF Accepts(kind, s)
             THEN /\ botLeg' = [botLeg EXCEPT ![s] = IF kind = "lock" THEN "locked"
                              ELSE IF kind = "refund" THEN "refunded" ELSE @]
                  /\ userLeg' = [userLeg EXCEPT ![s] =
                                   IF kind = "unlock" THEN "taken" ELSE @]
             ELSE UNCHANGED <<botLeg, userLeg>>
        /\ call' = IF call # "waiting" THEN call
                   ELSE IF Accepts(kind, s) THEN "ok" ELSE "reverted"
  <2>1. PICK tx \in pending :
          /\ pending' = pending \ {tx}
          /\ IF Accepts(tx[1], tx[2])
               THEN /\ botLeg' = [botLeg EXCEPT ![tx[2]] = IF tx[1] = "lock" THEN "locked"
                                    ELSE IF tx[1] = "refund" THEN "refunded" ELSE @]
                    /\ userLeg' = [userLeg EXCEPT ![tx[2]] =
                                     IF tx[1] = "unlock" THEN "taken" ELSE @]
               ELSE UNCHANGED <<botLeg, userLeg>>
          /\ call' = IF call # "waiting" THEN call
                     ELSE IF Accepts(tx[1], tx[2]) THEN "ok" ELSE "reverted"
    BY DEF Mine
  <2>2. tx \in Kinds \X Swaps
    BY DEF IInv, PendingOK
  <2>3. tx[1] \in Kinds /\ tx[2] \in Swaps /\ tx = <<tx[1], tx[2]>>
    BY <2>2
  <2> QED BY <2>1, <2>3
<1>2. UNCHANGED <<orphans, expired, wallet, unseen, records, pc, todo, info,
                  faults>>
  BY DEF Mine
<1>3. UNCHANGED <<status, table, asked, due>>
  BY <1>2 DEF records, info
<1>4. /\ userLeg \in [Swaps -> {"none", "locked", "taken", "refunded"}]
      /\ botLeg \in [Swaps -> {"none", "locked", "claimed", "refunded"}]
  BY DEF IInv, ChainsOK
<1>5. IF kind = "unlock" THEN s \in S2B /\ s \notin B2S
      ELSE s \in B2S /\ s \notin S2B
  BY <1>1, SwapsAssumption DEF IInv, PendingOK
<1>6. /\ userLeg' \in [Swaps -> {"none", "locked", "taken", "refunded"}]
      /\ botLeg' \in [Swaps -> {"none", "locked", "claimed", "refunded"}]
  BY <1>1, <1>4 DEF Kinds
<1>7. /\ \A x \in Swaps : userLeg'[x] = "none" <=> userLeg[x] = "none"
      /\ \A x \in B2S : userLeg'[x] = userLeg[x]
      /\ \A x \in S2B : botLeg'[x] = botLeg[x]
  <2>1. CASE ~Accepts(kind, s)
    BY <1>1, <2>1
  <2>2. CASE Accepts(kind, s) /\ kind = "unlock"
    <3>1. userLeg[s] = "locked"
      BY <2>2 DEF Accepts
    <3>2. userLeg' = [userLeg EXCEPT ![s] = "taken"] /\ botLeg' = [botLeg EXCEPT ![s] = @]
      BY <1>1, <2>2
    <3> QED BY <1>4, <1>5, <2>2, <3>1, <3>2 DEF Swaps
  <2>3. CASE Accepts(kind, s) /\ kind # "unlock"
    <3>1. userLeg' = [userLeg EXCEPT ![s] = @]
      BY <1>1, <2>3
    <3>2. userLeg' = userLeg
      BY <1>4, <3>1
    <3>3. \A x \in Swaps : x # s => botLeg'[x] = botLeg[x]
      BY <1>1, <1>4, <2>3
    <3> QED BY <1>5, <2>3, <3>2, <3>3 DEF Swaps
  <2> QED BY <2>1, <2>2, <2>3
<1>8. PendingOK'
  <2>1. Cardinality(pending') <= 1
    BY <1>1, PendingRest DEF IInv
  <2> QED BY <1>1, <2>1 DEF IInv, PendingOK
<1>9. CallOK'
  BY <1>1, <1>2 DEF IInv, CallOK
<1>10. ChainsOK' /\ TablesOK' /\ ListOK' /\ InfoTyped' /\ EventsOK'
  <2>1. ChainsOK'
    BY <1>2, <1>6 DEF IInv, ChainsOK
  <2>2. TablesOK'
    BY <1>3 DEF IInv, TablesOK
  <2>3. ListOK'
    BY <1>2, <1>3 DEF IInv, ListOK
  <2>4. InfoTyped'
    BY <1>3 DEF IInv, InfoTyped
  <2>5. EventsOK'
    BY <1>2, <1>3, <1>7 DEF IInv, EventsOK, CoinsOn
  <2> QED BY <2>1, <2>2, <2>3, <2>4, <2>5
<1>11. \A x \in Swaps : SameCost(x)
  BY <1>2, <1>7 DEF SameCost, Swaps
<1>12. NoSave
  BY <1>2 DEF NoSave
<1> QED
  BY <1>1, <1>2, <1>8, <1>9, <1>10, <1>11, <1>12 DEF IInv

\* A request reads the tables and nothing else.
LEMMA InfoQueryInv ==
  ASSUME IInv, InfoQuery
  PROVE  IInv' /\ UNCHANGED <<userLeg, botLeg, orphans, wallet, status, loop, faults>>
<1>1. PICK s \in Swaps :
        due' = {s} \ ToSet(Query(TableOf(s), Queries[asked + 1], 500))
  BY DEF InfoQuery, IInv, InfoTyped
<1>2. /\ asked < 3 /\ asked' = IF due' = {} THEN 0 ELSE asked + 1
      /\ UNCHANGED <<chains, records, loop, faults>>
  BY DEF InfoQuery, Queries
<1>3. Cardinality(due') <= 1 /\ due' \subseteq Swaps
  <2>1. due' = {} \/ due' = {s}
    BY <1>1
  <2>2. Cardinality({s}) = 1 /\ Cardinality({}) = 0
    BY FS_Singleton, FS_EmptySet
  <2> QED BY <2>1, <2>2
<1>4. InfoTyped'
  BY <1>2, <1>3 DEF IInv, InfoTyped
<1>5. UNCHANGED <<userLeg, botLeg, orphans, expired, pending, wallet, unseen,
                  status, table, pc, todo, call, faults>>
  BY <1>2 DEF chains, records, loop
<1>6. ChainsOK' /\ TablesOK' /\ PendingOK' /\ ListOK' /\ CallOK' /\ EventsOK'
  <2>1. ChainsOK' /\ PendingOK'
    BY <1>5 DEF IInv, ChainsOK, PendingOK
  <2>2. TablesOK'
    BY <1>5 DEF IInv, TablesOK
  <2>3. ListOK' /\ CallOK'
    BY <1>5 DEF IInv, ListOK, CallOK
  <2>4. EventsOK'
    BY <1>5 DEF IInv, EventsOK
  <2> QED BY <2>1, <2>2, <2>3, <2>4
<1> QED
  BY <1>2, <1>4, <1>5, <1>6 DEF IInv

LEMMA IInvInit == Init => IInv
<1> SUFFICES ASSUME Init
             PROVE  IInv
  OBVIOUS
<1>1. ChainsOK
  BY DEF Init, ChainsOK
<1>2. wallet \in Wallets
  BY WalletAssumption DEF Init, Wallets
<1>3. PendingOK
  BY FS_EmptySet DEF Init, PendingOK
<1>4. TablesOK
  <2>1. status \in [Swaps -> Statuses]
    BY DEF Init, Statuses
  <2>2. table \in [Tables -> Seq(Swaps)]
    BY EmptyList DEF Init
  <2>3. \A t \in Tables : IsInjective(table[t]) /\ ToSet(table[t]) = {}
    BY EmptyList DEF Init
  <2>4. \A s \in Swaps : status[s] = "none"
    BY DEF Init
  <2> QED BY <2>1, <2>2, <2>3, <2>4 DEF TablesOK
<1>5. ListOK
  BY EmptyList DEF Init, ListOK
<1>6. CallOK /\ InfoTyped
  BY FS_EmptySet DEF Init, CallOK, InfoTyped
<1>7. EventsOK
  BY DEF Init, EventsOK, CoinsOn, Swaps
<1>8. faults \in 0..MaxFaults
  BY BoundsAssumption DEF Init
<1> QED
  BY <1>1, <1>2, <1>3, <1>4, <1>5, <1>6, <1>7, <1>8 DEF IInv

LEMMA IInvStutter ==
  ASSUME IInv, UNCHANGED vars
  PROVE  IInv' /\ NoSave /\ UNCHANGED <<userLeg, botLeg, orphans, wallet>>
<1>1. UNCHANGED <<chains, records, info, pc, todo, call, faults>>
  BY DEF vars, loop
<1>2. UNCHANGED <<unseen, status>>
  BY <1>1 DEF chains, records
<1>3. ListOK' /\ CallOK'
  BY <1>1, <1>2 DEF IInv, ListOK, CallOK
<1>4. faults' \in 0..MaxFaults
  BY <1>1 DEF IInv
<1> QED
  BY <1>1, <1>3, <1>4, NewListInv

\* Every step but a query of /info leaves the records or saves one of them.
LEMMA StepIs ==
  ASSUME IInv, Next
  PROVE  IInv' /\ (NoSave \/ InfoQuery \/ \E s \in Swaps : Saves(s))
<1>1. CASE EndStage
  BY <1>1, EndStageInv
<1>2. CASE IdlePass
  <2>1. UNCHANGED vars
    BY <1>2 DEF IdlePass
  <2> QED BY <2>1, IInvStutter
<1>3. CASE SaveResult
  BY <1>3, SaveResultInv
<1>4. CASE LoseResult \/ CallFails
  BY <1>4, RecordLeftInv, CallFailsInv
<1>5. ASSUME NEW s \in Swaps,
             \/ HandleEvent(s) \/ SkipRefund(s) \/ RefundBch(s) \/ UnlockBch(s)
             \/ TooLateToLock(s) \/ LockBch(s) \/ LockBchFails(s)
             \/ SendSbchTx(s) \/ SendFails(s) \/ RpcFails(s)
      PROVE  IInv' /\ (NoSave \/ Saves(s))
  <2>1. CASE HandleEvent(s)
    BY <2>1, HandleEventInv
  <2>2. CASE SkipRefund(s) \/ LockBchFails(s)
    BY <2>2, SkipInv
  <2>3. CASE RefundBch(s)
    BY <2>3, RefundBchInv
  <2>4. CASE UnlockBch(s)
    BY <2>4, UnlockBchInv
  <2>5. CASE TooLateToLock(s)
    BY <2>5, TooLateInv
  <2>6. CASE LockBch(s)
    BY <2>6, LockBchInv
  <2>7. CASE SendSbchTx(s)
    BY <2>7, SendSbchTxInv
  <2>8. CASE SendFails(s)
    BY <2>8, SendFailsInv
  <2>9. CASE RpcFails(s)
    BY <2>9, RecordLeftInv
  <2> QED BY <1>5, <2>1, <2>2, <2>3, <2>4, <2>5, <2>6, <2>7, <2>8, <2>9
<1>6. CASE Mine
  BY <1>6, MineInv
<1>7. ASSUME NEW s \in Swaps,
             UserLocks(s) \/ UserClaims(s) \/ UserRefunds(s) \/ TimePasses(s)
      PROVE  IInv' /\ NoSave
  <2>1. CASE UserLocks(s)
    BY <2>1, UserLocksInv
  <2>2. CASE UserClaims(s)
    BY <2>2, UserClaimsInv
  <2>3. CASE UserRefunds(s) \/ TimePasses(s)
    BY <2>3, UserWaitsInv
  <2> QED BY <1>7, <2>1, <2>2, <2>3
<1>8. CASE Crash
  BY <1>8, CrashInv
<1>9. CASE InfoQuery
  BY <1>9, InfoQueryInv
<1> QED
  BY <1>1, <1>2, <1>3, <1>4, <1>5, <1>6, <1>7, <1>8, <1>9
     DEF Next, LoopStep, UserStep

\* The invariant holds in every state: the records on the loop's list are still
\* as the query found them when their turn comes, whatever the users, the chains
\* and the other calls do in between, and also while one of them waits for its
\* save with its transaction already sent (bot.go:947, 1074); there is no lock on
\* BCH for a swap without a record, and none taken back while it is still New.
THEOREM InvariantHolds == Spec => []IInv
<1>1. IInv /\ [Next]_vars => IInv'
  <2> SUFFICES ASSUME IInv, [Next]_vars
               PROVE  IInv'
    OBVIOUS
  <2>1. CASE Next
    BY <2>1, StepIs
  <2>2. CASE UNCHANGED vars
    BY <2>2, IInvStutter
  <2> QED BY <2>1, <2>2
<1> QED
  BY <1>1, IInvInit, PTL DEF Spec

\* The type invariant: either table holds each record once (db.go), the account
\* has one transaction pending at most (client_sbch.go), and the wallet stays in
\* the order in which findUTXOs (client_bch.go) goes through it.
THEOREM TypeCorrect == Spec => []TypeOK
  BY InvariantHolds, IInvTypes, PTL

\* findUTXOs finds outputs exactly when some are enough and not too many,
\* whatever the loop has received and spent before.
THEOREM WalletFindsOutputs == Spec => []FindsOutputs
<1>1. IInv => FindsOutputs
  BY FindsOutputsHolds DEF IInv
<1> QED
  BY <1>1, InvariantHolds, PTL

-----------------------------------------------------------------------------
(* The balance of the wallet.                                              *)

LEMMA WalletSums ==
  ASSUME NEW seq \in Wallets
  PROVE  SumFunction(seq) \in Int
<1>1. PICK N \in Nat : N = Len(seq) /\ DOMAIN seq = 1..N
  BY DEF Wallets
<1>2. IsFiniteSet(1..N)
  BY FS_Interval
<1>3. \A i \in 1..N : seq[i] \in Int
  BY <1>1 DEF Wallets
<1>4. SumFunctionOnSet(seq, 1..N) \in Int
  BY <1>2, <1>3, SumInt
<1> QED
  BY <1>1, <1>4 DEF SumFunction

\* A sum changes by what one of its terms changes.
LEMMA OneTermChanges ==
  ASSUME NEW f \in [Swaps -> Int], NEW g \in [Swaps -> Int], NEW s \in Swaps,
         \A x \in Swaps : x # s => g[x] = f[x]
  PROVE  /\ SumFunction(f) \in Int /\ SumFunction(g) \in Int
         /\ SumFunction(g) = SumFunction(f) + (g[s] - f[s])
<1> DEFINE rest == Swaps \ {s}
<1>1. IsFiniteSet(Swaps) /\ IsFiniteSet(rest)
  BY SwapsFinite
<1>2. \A x \in Swaps : f[x] \in Int /\ g[x] \in Int
  OBVIOUS
<1>3. /\ SumFunctionOnSet(f, Swaps) = f[s] + SumFunctionOnSet(f, rest)
      /\ SumFunctionOnSet(g, Swaps) = g[s] + SumFunctionOnSet(g, rest)
  BY <1>1, <1>2, SumRemove
<1>4. \A x \in rest : f[x] \in Int /\ g[x] = f[x]
  OBVIOUS
<1> HIDE DEF rest
<1>5. SumFunctionOnSet(g, rest) = SumFunctionOnSet(f, rest)
  BY <1>1, <1>4, SumSame
<1>6. SumFunctionOnSet(f, rest) \in Int
  BY <1>1, <1>4, SumInt
<1>7. /\ SumFunction(f) = SumFunctionOnSet(f, Swaps)
      /\ SumFunction(g) = SumFunctionOnSet(g, Swaps)
  BY DEF SumFunction
<1> QED
  BY <1>2, <1>3, <1>5, <1>6, <1>7

LEMMA CostTyped ==
  ASSUME IInv, NEW fee \in Int, NEW s \in Swaps
  PROVE  LocksOf(s) \in Nat /\ Value[s] \in Nat /\ Cost(s, fee) \in Int
<1>1. LocksOf(s) \in Nat /\ Value[s] \in Nat /\ Penalty(s) \in Nat
  BY SwapsAssumption, PenaltyReceived DEF IInv, ChainsOK, LocksOf
<1> DEFINE n == LocksOf(s)
           k == Value[s] + fee
<1>2. n \in Int /\ k \in Int
  BY <1>1
<1> HIDE DEF n, k
<1>3. n * k \in Int
  BY <1>2
<1> QED
  BY <1>1, <1>3 DEF Cost, SpendFee, n, k

LEMMA CostsTyped ==
  IInv => \A fee \in Int, s \in Swaps : Cost(s, fee) \in Int
  BY CostTyped

LEMMA CostsTypedNext ==
  IInv' => (\A fee \in Int, s \in Swaps : Cost(s, fee) \in Int)'
  BY CostsTyped, PTL

\* What the wallet loses when one swap's coins move is what the swap then costs.
LEMMA BalanceMoves ==
  ASSUME IInv, IInv', WalletBalanced, NEW s \in Swaps,
         \A x \in Swaps : x # s => SameCost(x),
         NEW d \in Int, SumFunction(wallet') = SumFunction(wallet) - d,
         Cost(s, Fee(1))' - Cost(s, Fee(1)) <= d,
         d <= Cost(s, Fee(MaxInputs) + Dust)' - Cost(s, Fee(MaxInputs) + Dust)
  PROVE  WalletBalanced'
<1> DEFINE F == SumFunction(FirstWallet)
           W == SumFunction(wallet)
<1>1. F \in Int /\ W \in Int /\ SumFunction(wallet') = W - d
  BY WalletSums, WalletAssumption DEF IInv, Wallets
<1>2. ASSUME NEW fee \in Int
      PROVE  /\ TotalCost(fee) \in Int /\ TotalCost(fee)' \in Int
             /\ Cost(s, fee) \in Int /\ Cost(s, fee)' \in Int
             /\ TotalCost(fee)' = TotalCost(fee) + (Cost(s, fee)' - Cost(s, fee))
  <2> DEFINE f == [x \in Swaps |-> Cost(x, fee)]
             g == [x \in Swaps |-> Cost(x, fee)']
  <2>1. \A x \in Swaps : Cost(x, fee) \in Int
    BY CostTyped
  <2>2. \A x \in Swaps : Cost(x, fee)' \in Int
    BY CostsTypedNext
  <2>3. \A x \in Swaps : x # s => Cost(x, fee)' = Cost(x, fee)
    BY DEF SameCost, Cost, LocksOf, Penalty
  <2>4. f \in [Swaps -> Int] /\ g \in [Swaps -> Int]
    BY <2>1, <2>2
  <2>5. f[s] = Cost(s, fee) /\ g[s] = Cost(s, fee)'
    OBVIOUS
  <2>6. \A x \in Swaps : x # s => g[x] = f[x]
    BY <2>3
  <2>7. TotalCost(fee) = SumFunction(f) /\ TotalCost(fee)' = SumFunction(g)
    BY DEF TotalCost
  <2> HIDE DEF f, g
  <2> QED BY <2>1, <2>2, <2>4, <2>5, <2>6, <2>7, OneTermChanges
<1>3. Fee(1) \in Int /\ Fee(MaxInputs) + Dust \in Int
  BY WalletAssumption DEF Fee
<1>4. /\ TotalCost(Fee(1)) <= F - W
      /\ F - W <= TotalCost(Fee(MaxInputs) + Dust)
  BY DEF WalletBalanced
<1> HIDE DEF F, W
<1>5. /\ TotalCost(Fee(1))' <= F - (W - d)
      /\ F - (W - d) <= TotalCost(Fee(MaxInputs) + Dust)'
  BY <1>1, <1>2, <1>3, <1>4
<1> QED
  BY <1>1, <1>5 DEF WalletBalanced, F

LEMMA BalanceStays ==
  ASSUME WalletBalanced, wallet' = wallet, \A x \in Swaps : SameCost(x)
  PROVE  WalletBalanced'
<1>1. ASSUME NEW fee \in Int
      PROVE  TotalCost(fee)' = TotalCost(fee)
  <2>1. \A x \in Swaps : Cost(x, fee)' = Cost(x, fee)
    BY DEF SameCost, Cost, LocksOf, Penalty
  <2>2. [x \in Swaps |-> Cost(x, fee)'] = [x \in Swaps |-> Cost(x, fee)]
    BY <2>1
  <2> QED BY <2>2 DEF TotalCost
<1>2. Fee(1) \in Int /\ Fee(MaxInputs) + Dust \in Int
  BY WalletAssumption DEF Fee
<1>3. /\ TotalCost(Fee(1))' = TotalCost(Fee(1))
      /\ TotalCost(Fee(MaxInputs) + Dust)' = TotalCost(Fee(MaxInputs) + Dust)
  BY <1>1, <1>2
<1> QED
  BY <1>3 DEF WalletBalanced

LEMMA LegsSameCost ==
  ASSUME UNCHANGED <<userLeg, botLeg, orphans>>
  PROVE  \A x \in Swaps : SameCost(x)
  BY DEF SameCost

\* A lock costs the value and a fee, whether it is the first one or not.
LEMMA LockKeepsBalance ==
  ASSUME IInv, IInv', WalletBalanced, NEW s \in Swaps, LockBch(s)
  PROVE  WalletBalanced'
<1>1. /\ s \in S2B /\ botLeg[s] # "refunded" /\ userLeg' = userLeg
      /\ botLeg' = [botLeg EXCEPT ![s] = "locked"]
      /\ orphans' = [orphans EXCEPT ![s] = IF botLeg[s] = "none" THEN @ ELSE @ + 1]
  BY LockBchInv
<1>2. PICK lost \in Fee(1)..(Fee(MaxInputs) + Dust) :
        SumFunction(wallet') = SumFunction(wallet) - Value[s] - lost
  BY LockBchInv
<1>3. /\ \A x \in Swaps : botLeg'[x] = IF x = s THEN "locked" ELSE botLeg[x]
      /\ \A x \in Swaps : x # s => orphans'[x] = orphans[x]
      /\ orphans'[s] = IF botLeg[s] = "none" THEN orphans[s] ELSE orphans[s] + 1
      /\ orphans[s] \in Nat
  BY <1>1 DEF IInv, ChainsOK
<1>4. LocksOf(s)' = LocksOf(s) + 1 /\ LocksOf(s) \in Nat
  BY <1>3 DEF LocksOf
<1>5. \A x \in Swaps : x # s => SameCost(x)
  BY <1>1, <1>3 DEF SameCost
<1>6. ASSUME NEW fee \in Int
      PROVE  Cost(s, fee)' - Cost(s, fee) = Value[s] + fee
  <2> DEFINE n == LocksOf(s)
             k == Value[s] + fee
  <2>1. n \in Int /\ k \in Int
    BY <1>4, SwapsAssumption
  <2>2. Cost(s, fee) = n * k - 0
    BY <1>1 DEF Cost
  <2>3. Cost(s, fee)' = (n + 1) * k - 0
    BY <1>1, <1>3, <1>4 DEF Cost
  <2> HIDE DEF n, k
  <2>4. (n + 1) * k = n * k + k /\ n * k \in Int
    BY <2>1
  <2>5. Cost(s, fee)' - Cost(s, fee) = k
    BY <2>1, <2>2, <2>3, <2>4
  <2> QED BY <2>5 DEF k
<1> DEFINE d == Value[s] + lost
<1>7. /\ Fee(1) \in Int /\ Fee(MaxInputs) + Dust \in Int
      /\ Value[s] \in Int /\ SumFunction(wallet) \in Int /\ d \in Int
      /\ Fee(1) <= lost /\ lost <= Fee(MaxInputs) + Dust
  BY <1>2, WalletSums, WalletAssumption, SwapsAssumption DEF Fee, IInv
<1>8. SumFunction(wallet') = SumFunction(wallet) - d
  BY <1>2, <1>7
<1>9. /\ Cost(s, Fee(1))' - Cost(s, Fee(1)) <= d
      /\ d <= Cost(s, Fee(MaxInputs) + Dust)' - Cost(s, Fee(MaxInputs) + Dust)
  BY <1>6, <1>7
<1> QED
  BY <1>5, <1>7, <1>8, <1>9, BalanceMoves

\* What comes back into the wallet was in the balance, or is from now on.
LEMMA ReturnKeepsBalance ==
  ASSUME IInv, IInv', WalletBalanced, NEW s \in Swaps,
         \A x \in Swaps : x # s => SameCost(x),
         NEW back \in Nat, SumFunction(wallet') = SumFunction(wallet) + back,
         \A fee \in Int : Cost(s, fee)' = Cost(s, fee) - back
  PROVE  WalletBalanced'
<1> DEFINE d == 0 - back
<1>1. SumFunction(wallet') = SumFunction(wallet) - d
  BY WalletSums DEF IInv
<1>2. \A fee \in Int : Cost(s, fee)' - Cost(s, fee) = d
  BY CostTyped
<1>3. Fee(1) \in Int /\ Fee(MaxInputs) + Dust \in Int /\ d \in Int
  BY WalletAssumption DEF Fee
<1>4. /\ Cost(s, Fee(1))' - Cost(s, Fee(1)) <= d
      /\ d <= Cost(s, Fee(MaxInputs) + Dust)' - Cost(s, Fee(MaxInputs) + Dust)
  BY <1>2, <1>3
<1> QED
  BY <1>1, <1>3, <1>4, BalanceMoves

LEMMA RefundKeepsBalance ==
  ASSUME IInv, IInv', WalletBalanced, NEW s \in Swaps, RefundBch(s)
  PROVE  WalletBalanced'
<1>1. /\ UNCHANGED <<userLeg, orphans>> /\ s \in S2B
      /\ IF botLeg[s] = "locked"
           THEN /\ botLeg' = [botLeg EXCEPT ![s] = "refunded"]
                /\ wallet' = Received(wallet, Value[s] - SpendFee)
           ELSE UNCHANGED <<botLeg, wallet>>
  BY RefundBchInv DEF RefundBch
<1>2. CASE botLeg[s] # "locked"
  BY <1>1, <1>2, LegsSameCost, BalanceStays
<1>3. CASE botLeg[s] = "locked"
  <2>1. \A x \in Swaps : botLeg'[x] = IF x = s THEN "refunded" ELSE botLeg[x]
    BY <1>1, <1>3 DEF IInv, ChainsOK
  <2>2. \A x \in Swaps : x # s => SameCost(x)
    BY <1>1, <2>1 DEF SameCost
  <2>3. /\ Value[s] - SpendFee \in Nat
        /\ SumFunction(wallet') = SumFunction(wallet) + (Value[s] - SpendFee)
    BY <1>1, <1>3, ValueReceived DEF IInv
  <2>4. ASSUME NEW fee \in Int
        PROVE  Cost(s, fee)' = Cost(s, fee) - (Value[s] - SpendFee)
    <3>1. LocksOf(s)' = LocksOf(s) /\ LocksOf(s) \in Int /\ Value[s] + fee \in Int
      BY <1>1, <1>3, <2>1, CostTyped DEF LocksOf
    <3> DEFINE p == LocksOf(s) * (Value[s] + fee)
    <3>2. p \in Int
      BY <3>1
    <3>3. Cost(s, fee) = p - 0 /\ Cost(s, fee)' = p - (Value[s] - SpendFee)
      BY <1>1, <1>3, <2>1, <3>1 DEF Cost
    <3> HIDE DEF p
    <3> QED BY <2>3, <3>2, <3>3
  <2> QED BY <2>2, <2>3, <2>4, ReturnKeepsBalance
<1> QED
  BY <1>2, <1>3

LEMMA UnlockKeepsBalance ==
  ASSUME IInv, IInv', WalletBalanced, NEW s \in Swaps, UnlockBch(s)
  PROVE  WalletBalanced'
<1>1. /\ UNCHANGED <<botLeg, orphans>> /\ s \notin S2B
      /\ IF userLeg[s] = "locked"
           THEN /\ userLeg' = [userLeg EXCEPT ![s] = "taken"]
                /\ wallet' = Received(wallet, Value[s] - SpendFee)
           ELSE UNCHANGED <<userLeg, wallet>>
  BY UnlockBchInv, SwapsAssumption DEF UnlockBch
<1>2. CASE userLeg[s] # "locked"
  BY <1>1, <1>2, LegsSameCost, BalanceStays
<1>3. CASE userLeg[s] = "locked"
  <2>1. \A x \in Swaps : userLeg'[x] = IF x = s THEN "taken" ELSE userLeg[x]
    BY <1>1, <1>3 DEF IInv, ChainsOK
  <2>2. \A x \in Swaps : x # s => SameCost(x)
    BY <1>1, <2>1 DEF SameCost
  <2>3. /\ Value[s] - SpendFee \in Nat /\ Value[s] \in Nat
        /\ SumFunction(wallet') = SumFunction(wallet) + (Value[s] - SpendFee)
    BY <1>1, <1>3, ValueReceived DEF IInv
  <2>4. \A fee \in Int : Cost(s, fee)' = Cost(s, fee) - (Value[s] - SpendFee)
    BY <1>1, <1>3, <2>1, <2>3 DEF Cost, SpendFee
  <2> QED BY <2>2, <2>3, <2>4, ReturnKeepsBalance
<1> QED
  BY <1>2, <1>3

\* The user takes the deposit back; on BCH this brings the penalty.
LEMMA PenaltyKeepsBalance ==
  ASSUME IInv, IInv', WalletBalanced, NEW s \in Swaps, UserRefunds(s)
  PROVE  WalletBalanced'
<1>1. /\ userLeg[s] = "locked" /\ userLeg' = [userLeg EXCEPT ![s] = "refunded"]
      /\ wallet' = IF s \in B2S /\ PenaltyBPS # 0
                   THEN Received(wallet, Penalty(s)) ELSE wallet
      /\ UNCHANGED <<botLeg, orphans>>
  BY DEF UserRefunds
<1>2. \A x \in Swaps : userLeg'[x] = IF x = s THEN "refunded" ELSE userLeg[x]
  BY <1>1 DEF IInv, ChainsOK
<1>3. \A x \in Swaps : x # s => SameCost(x)
  BY <1>1, <1>2 DEF SameCost
<1>4. CASE s \in S2B
  <2>1. s \notin B2S /\ SameCost(s)
    BY <1>1, <1>4, SwapsAssumption DEF SameCost
  <2> QED BY <1>1, <1>3, <2>1, BalanceStays
<1>5. CASE s \notin S2B
  <2>1. s \in B2S
    BY <1>5 DEF Swaps
  <2>2. Penalty(s) \in Nat /\ SumFunction(wallet') = SumFunction(wallet) + Penalty(s)
    <3>1. SumFunction(wallet) \in Int
      BY WalletSums DEF IInv
    <3> QED BY <1>1, <2>1, <3>1, PenaltyReceived DEF IInv
  <2>3. \A fee \in Int : Cost(s, fee)' = Cost(s, fee) - Penalty(s)
    BY <1>1, <1>2, <1>5, <2>2 DEF Cost, Penalty
  <2> QED BY <1>3, <2>2, <2>3, ReturnKeepsBalance
<1> QED
  BY <1>4, <1>5

LEMMA BalanceStep ==
  ASSUME IInv, WalletBalanced, Next
  PROVE  WalletBalanced'
<1>0. IInv'
  BY StepIs
<1>1. ASSUME UNCHANGED <<userLeg, botLeg, orphans, wallet>>
      PROVE  WalletBalanced'
  BY <1>1, LegsSameCost, BalanceStays
<1>2. CASE EndStage \/ SaveResult \/ LoseResult \/ CallFails \/ Crash \/ InfoQuery
  BY <1>1, <1>2, EndStageInv, SaveResultInv, RecordLeftInv, CallFailsInv,
     CrashInv, InfoQueryInv
<1>3. CASE IdlePass
  <2>1. UNCHANGED vars
    BY <1>3 DEF IdlePass
  <2> QED BY <1>1, <2>1, IInvStutter
<1>4. ASSUME NEW s \in Swaps,
             \/ HandleEvent(s) \/ SkipRefund(s) \/ RefundBch(s) \/ UnlockBch(s)
             \/ TooLateToLock(s) \/ LockBch(s) \/ LockBchFails(s)
             \/ SendSbchTx(s) \/ SendFails(s) \/ RpcFails(s)
      PROVE  WalletBalanced'
  <2>1. CASE HandleEvent(s)
    BY <1>1, <2>1, HandleEventInv
  <2>2. CASE SkipRefund(s) \/ LockBchFails(s)
    BY <1>1, <2>2, SkipInv
  <2>3. CASE RefundBch(s)
    BY <1>0, <2>3, RefundKeepsBalance
  <2>4. CASE UnlockBch(s)
    BY <1>0, <2>4, UnlockKeepsBalance
  <2>5. CASE TooLateToLock(s)
    BY <1>1, <2>5, TooLateInv
  <2>6. CASE LockBch(s)
    BY <1>0, <2>6, LockKeepsBalance
  <2>7. CASE SendSbchTx(s)
    BY <1>1, <2>7, SendSbchTxInv
  <2>8. CASE SendFails(s)
    BY <1>1, <2>8, SendFailsInv
  <2>9. CASE RpcFails(s)
    BY <1>1, <2>9, RecordLeftInv
  <2> QED BY <1>4, <2>1, <2>2, <2>3, <2>4, <2>5, <2>6, <2>7, <2>8, <2>9
<1>5. CASE Mine
  BY <1>5, MineInv, BalanceStays
<1>6. ASSUME NEW s \in Swaps,
             UserLocks(s) \/ UserClaims(s) \/ UserRefunds(s) \/ TimePasses(s)
      PROVE  WalletBalanced'
  <2>1. CASE UserLocks(s)
    BY <2>1, UserLocksInv, BalanceStays
  <2>2. CASE UserClaims(s)
    BY <2>2, UserClaimsInv, BalanceStays
  <2>3. CASE UserRefunds(s)
    BY <1>0, <2>3, PenaltyKeepsBalance
  <2>4. CASE TimePasses(s)
    BY <1>1, <2>4, UserWaitsInv
  <2> QED BY <1>6, <2>1, <2>2, <2>3, <2>4
<1> QED
  BY <1>2, <1>3, <1>4, <1>5, <1>6 DEF Next, LoopStep, UserStep

LEMMA SumOfZeros ==
  ASSUME NEW f, NEW S, IsFiniteSet(S), f = [x \in S |-> 0]
  PROVE  SumFunction(f) = 0
<1> DEFINE P == {T \in SUBSET S : SumFunctionOnSet(f, T) # 0}
<1>1. DOMAIN f = S /\ (S \notin P => SumFunctionOnSet(f, S) = 0)
  OBVIOUS
<1>2. SUFFICES ASSUME P # {}
               PROVE  FALSE
  BY <1>1 DEF SumFunction
<1>3. PICK T \in P : \A U \in P : U \subseteq T => U = T
  <2>1. P \in SUBSET SUBSET S
    OBVIOUS
  <2> HIDE DEF P
  <2> QED BY <1>2, <2>1, MinimalSet
<1>4. T # {} /\ IsFiniteSet(T)
  BY <1>3, SumEmpty, FS_Subset
<1>5. SumFunctionOnSet(f, T \ {Pick(T)}) = 0 /\ f[Pick(T)] = 0
  BY <1>3, <1>4, PickIn
<1> QED
  BY <1>3, <1>4, <1>5, SumPick

LEMMA BalanceInit == Init => WalletBalanced
<1> SUFFICES ASSUME Init
             PROVE  WalletBalanced
  OBVIOUS
<1>1. SumFunction(wallet) = SumFunction(FirstWallet) /\ SumFunction(wallet) \in Int
  BY IInvInit, WalletSums DEF Init, IInv
<1>2. ASSUME NEW fee \in Int
      PROVE  TotalCost(fee) = 0
  <2>1. ASSUME NEW s \in Swaps
        PROVE  Cost(s, fee) = 0
    <3>1. LocksOf(s) = 0 /\ Value[s] + fee \in Int
      BY SwapsAssumption DEF Init, LocksOf
    <3> DEFINE k == Value[s] + fee
    <3> HIDE DEF k
    <3>2. 0 * k - 0 = 0
      BY <3>1 DEF k
    <3> QED BY <3>1, <3>2 DEF Init, Cost, k
  <2>2. [s \in Swaps |-> Cost(s, fee)] = [s \in Swaps |-> 0]
    BY <2>1
  <2> QED BY <2>2, SwapsFinite, SumOfZeros DEF TotalCost
<1>3. Fee(1) \in Int /\ Fee(MaxInputs) + Dust \in Int
  BY WalletAssumption DEF Fee
<1> QED
  BY <1>1, <1>2, <1>3 DEF WalletBalanced

\* What the wallet has lost is what the locks, refunds, unlocked deposits and
\* penalties cost, up to the fees and dust of the locks, with every lock that a
\* crash, a lost answer or a failed save between SendTx and the save (bot.go:1062,
\* 1074) makes the bot send again, and in whatever order the two directions use
\* the one wallet: no change or payment is lost or counted twice.
THEOREM WalletAlwaysBalanced == Spec => []WalletBalanced
<1>1. IInv /\ WalletBalanced /\ [Next]_vars => WalletBalanced'
  <2> SUFFICES ASSUME IInv, WalletBalanced, [Next]_vars
               PROVE  WalletBalanced'
    OBVIOUS
  <2>1. CASE Next
    BY <2>1, BalanceStep
  <2>2. CASE UNCHANGED vars
    BY <2>2, IInvStutter, LegsSameCost, BalanceStays
  <2> QED BY <2>1, <2>2
<1> QED
  BY <1>1, BalanceInit, InvariantHolds, PTL DEF Spec

-----------------------------------------------------------------------------
(* Second locks.                                                           *)

\* the record of a BCH lock that has been sent is about to be saved
AboutToSave(s) ==
  call = "ok" /\ Stages[pc].name = "handleSbchUserDeposits" /\ s = Head(todo)

\* the bot has locked BCH, the record does not say so
NotInRecord(s) == status[s] = "New" /\ botLeg[s] # "none"

\* the records that will not get to say so
Unsaved == {s \in S2B : NotInRecord(s) /\ ~AboutToSave(s)}

\* A fault for each second lock, and one for each that is still to come.
FaultsOK == SumFunction(orphans) + Cardinality(Unsaved) <= faults

LEMMA UnsavedFinite ==
  /\ IsFiniteSet(Unsaved) /\ Cardinality(Unsaved) \in Nat
  /\ IsFiniteSet(Unsaved') /\ Cardinality(Unsaved') \in Nat
<1>1. Unsaved \in SUBSET Swaps /\ Unsaved' \in SUBSET Swaps
  BY DEF Unsaved, Swaps
<1> QED
  BY <1>1, SwapsFinite, FS_CardinalityType

LEMMA OrphansSum == IInv => SumFunction(orphans) \in Int
<1> SUFFICES ASSUME IInv
             PROVE  SumFunction(orphans) \in Int
  OBVIOUS
<1>1. DOMAIN orphans = Swaps /\ \A s \in Swaps : orphans[s] \in Int
  BY DEF IInv, ChainsOK
<1>2. SumFunctionOnSet(orphans, Swaps) \in Int
  BY <1>1, SwapsFinite, SumInt
<1> QED
  BY <1>1, <1>2 DEF SumFunction

\* No record gets unsaved, or one does and there was a fault.
LEMMA FaultsCount ==
  ASSUME IInv, FaultsOK, orphans' = orphans,
         \/ faults' = faults /\ Unsaved' \subseteq Unsaved
         \/ faults' = faults + 1 /\ \E s : Unsaved' \subseteq Unsaved \cup {s}
  PROVE  FaultsOK'
<1> DEFINE u == Cardinality(Unsaved)
           sum == SumFunction(orphans)
<1>1. u \in Nat /\ IsFiniteSet(Unsaved) /\ sum \in Int /\ faults \in Int
  BY UnsavedFinite, OrphansSum DEF IInv
<1>2. Cardinality(Unsaved') \in Nat
  BY UnsavedFinite
<1>3. SumFunction(orphans') = sum
  OBVIOUS
<1>4. sum + u <= faults
  BY DEF FaultsOK
<1>5. CASE faults' = faults /\ Unsaved' \subseteq Unsaved
  <2>1. Cardinality(Unsaved') <= u
    BY <1>1, <1>5, FS_Subset
  <2> HIDE DEF u, sum
  <2>2. sum + Cardinality(Unsaved') <= faults'
    BY <1>1, <1>2, <1>4, <1>5, <2>1
  <2> QED BY <1>3, <2>2 DEF FaultsOK, sum
<1>6. CASE faults' = faults + 1 /\ \E s : Unsaved' \subseteq Unsaved \cup {s}
  <2>1. PICK s : Unsaved' \subseteq Unsaved \cup {s}
    BY <1>6
  <2>2. IsFiniteSet(Unsaved \cup {s}) /\ Cardinality(Unsaved \cup {s}) \in {u, u + 1}
    BY <1>1, FS_AddElement
  <2>3. Cardinality(Unsaved') <= Cardinality(Unsaved \cup {s})
    BY <2>1, <2>2, FS_Subset
  <2> HIDE DEF u, sum
  <2>4. sum + Cardinality(Unsaved') <= faults'
    BY <1>1, <1>2, <1>4, <1>6, <2>2, <2>3
  <2> QED BY <1>3, <2>4 DEF FaultsOK, sum
<1> QED
  BY <1>5, <1>6

\* A record that is saved or left is not made New with a lock on BCH.
LEMMA NewHasNoLock ==
  ASSUME IInv, NoSave \/ (\E s \in Swaps : Saves(s)) \/ status' = status,
         \A x \in S2B : botLeg'[x] = "none" <=> botLeg[x] = "none"
  PROVE  \A x \in S2B : NotInRecord(x)' => NotInRecord(x)
<1>1. CASE NoSave \/ status' = status
  BY <1>1 DEF NotInRecord, NoSave, records
<1>2. ASSUME NEW s \in Swaps, Saves(s), NEW x \in S2B, NotInRecord(x)'
      PROVE  NotInRecord(x)
  <2>1. /\ \A y \in Swaps : y # s => status'[y] = status[y]
        /\ \/ status' = status
           \/ status'[s] # "none" /\ <<status[s], status'[s]>> \in Moves
    BY <1>2, SavesTables DEF IInv
  <2>2. status'[x] = "New" /\ botLeg[x] # "none" /\ x \in Swaps
    BY <1>2 DEF NotInRecord, Swaps
  <2>3. status[x] # "none"
    BY <2>2 DEF IInv, EventsOK
  <2>4. status[x] = "New"
    <3>1. CASE status' = status \/ x # s
      BY <2>1, <2>2, <3>1
    <3>2. CASE x = s /\ <<status[s], status'[s]>> \in Moves
      BY <2>2, <2>3, <3>2 DEF Moves
    <3> QED BY <2>1, <3>1, <3>2
  <2> QED BY <2>2, <2>4 DEF NotInRecord
<1> QED
  BY <1>1, <1>2

LEMMA SameLocks ==
  ASSUME UNCHANGED <<userLeg, botLeg, orphans>> \/ \A x \in Swaps : SameCost(x)
  PROVE  \A x \in S2B : botLeg'[x] = "none" <=> botLeg[x] = "none"
  BY DEF SameCost, Swaps

\* A step of the loop with nothing about to be saved.
LEMMA NothingAtHand ==
  ASSUME IInv, FaultsOK, call # "ok", UNCHANGED <<orphans, faults>>,
         NoSave \/ (\E s \in Swaps : Saves(s)) \/ status' = status,
         \A x \in S2B : botLeg'[x] = "none" <=> botLeg[x] = "none"
  PROVE  FaultsOK'
<1>1. Unsaved' \subseteq Unsaved
  BY NewHasNoLock DEF Unsaved, AboutToSave
<1> QED
  BY <1>1, FaultsCount

\* A fault leaves at most the record at hand unsaved.
LEMMA FaultAtHand ==
  ASSUME IInv, FaultsOK, orphans' = orphans, faults' = faults + 1,
         NoSave \/ (\E s \in Swaps : Saves(s)),
         \A x \in S2B : botLeg'[x] = "none" <=> botLeg[x] = "none"
  PROVE  FaultsOK'
<1>1. Unsaved' \subseteq Unsaved \cup {Head(todo)}
  BY NewHasNoLock DEF Unsaved, AboutToSave
<1> QED
  BY <1>1, FaultsCount

\* The loop stays where it is.
LEMMA LoopWaits ==
  ASSUME IInv, FaultsOK, UNCHANGED <<orphans, faults, pc, todo>>,
         call' = call \/ call = "waiting", NoSave \/ status' = status,
         \A x \in S2B : botLeg'[x] = "none" <=> botLeg[x] = "none"
  PROVE  FaultsOK'
<1>1. \A x \in S2B : AboutToSave(x) => AboutToSave(x)'
  BY DEF AboutToSave
<1>2. Unsaved' \subseteq Unsaved
  BY <1>1, NewHasNoLock DEF Unsaved
<1> QED
  BY <1>2, FaultsCount

\* A second lock was an unsaved record before.
LEMMA LockHasFault ==
  ASSUME IInv, IInv', FaultsOK, NEW s \in Swaps, LockBch(s)
  PROVE  FaultsOK'
<1>1. /\ s \in S2B /\ status[s] = "New" /\ NoSave
      /\ botLeg' = [botLeg EXCEPT ![s] = "locked"]
      /\ orphans' = [orphans EXCEPT ![s] = IF botLeg[s] = "none" THEN @ ELSE @ + 1]
  BY LockBchInv
<1>2. /\ call = "none" /\ call' = "ok" /\ faults' = faults
      /\ Stages[pc].name = "handleSbchUserDeposits" /\ s = Head(todo)
      /\ UNCHANGED <<pc, todo, status>>
  BY DEF LockBch, Handling, Sent, records
<1>3. \A x \in S2B : x # s => botLeg'[x] = botLeg[x]
  BY <1>1 DEF IInv, ChainsOK, Swaps
<1>4. Unsaved' \subseteq Unsaved \ {s}
  <2> SUFFICES ASSUME NEW x \in S2B, NotInRecord(x)', ~AboutToSave(x)'
               PROVE  x \in Unsaved \ {s}
    BY DEF Unsaved
  <2>1. x # s
    BY <1>2 DEF AboutToSave
  <2>2. NotInRecord(x) /\ ~AboutToSave(x)
    BY <1>2, <1>3, <2>1 DEF NotInRecord, AboutToSave
  <2> QED BY <2>1, <2>2 DEF Unsaved
<1> DEFINE u == Cardinality(Unsaved)
           sum == SumFunction(orphans)
<1>5. u \in Nat /\ IsFiniteSet(Unsaved) /\ Cardinality(Unsaved') \in Nat
  BY UnsavedFinite
<1>6. /\ sum \in Int /\ faults \in Int /\ sum + u <= faults
      /\ orphans \in [Swaps -> Int] /\ orphans' \in [Swaps -> Int]
  BY OrphansSum DEF IInv, ChainsOK, FaultsOK
<1>7. SumFunction(orphans') = sum + (orphans'[s] - orphans[s])
  <2>1. \A x \in Swaps : x # s => orphans'[x] = orphans[x]
    BY <1>1 DEF IInv, ChainsOK
  <2> QED BY <1>6, <2>1, OneTermChanges
<1>8. CASE botLeg[s] = "none"
  <2>1. orphans'[s] = orphans[s]
    BY <1>1, <1>6, <1>8
  <2>2. Cardinality(Unsaved') <= u
    BY <1>4, <1>5, FS_Subset
  <2>3. orphans[s] \in Int
    BY <1>6
  <2> HIDE DEF u, sum
  <2>4. SumFunction(orphans') + Cardinality(Unsaved') <= faults'
    BY <1>2, <1>5, <1>6, <1>7, <2>1, <2>2, <2>3
  <2> QED BY <2>4 DEF FaultsOK
<1>9. CASE botLeg[s] # "none"
  <2>1. orphans'[s] = orphans[s] + 1
    BY <1>1, <1>6, <1>9
  <2>2. s \in Unsaved
    BY <1>1, <1>2, <1>9 DEF Unsaved, NotInRecord, AboutToSave
  <2>3. IsFiniteSet(Unsaved \ {s}) /\ Cardinality(Unsaved \ {s}) = u - 1
    BY <1>5, <2>2, FS_RemoveElement
  <2>4. Cardinality(Unsaved') <= u - 1
    BY <1>4, <2>3, FS_Subset
  <2>5. orphans[s] \in Int
    BY <1>6
  <2> HIDE DEF u, sum
  <2>6. SumFunction(orphans') + Cardinality(Unsaved') <= faults'
    BY <1>2, <1>5, <1>6, <1>7, <2>1, <2>4, <2>5
  <2> QED BY <2>6 DEF FaultsOK
<1> QED
  BY <1>8, <1>9

LEMMA FaultsStep ==
  ASSUME IInv, FaultsOK, Next
  PROVE  FaultsOK'
<1>0. IInv'
  BY StepIs
<1>1. CASE EndStage
  <2>1. call # "ok" /\ faults' = faults
    BY <1>1 DEF EndStage, IInv, CallOK
  <2> QED BY <1>1, <2>1, EndStageInv, SameLocks, NothingAtHand
<1>2. CASE IdlePass
  <2>1. UNCHANGED vars
    BY <1>2 DEF IdlePass
  <2>2. UNCHANGED <<pc, todo, call, faults>>
    BY <2>1 DEF vars, loop
  <2> QED BY <2>1, <2>2, IInvStutter, SameLocks, LoopWaits
<1>3. CASE SaveResult
  <2> DEFINE s == Head(todo)
  <2>1. /\ UNCHANGED <<userLeg, botLeg, orphans>> /\ Saves(s) /\ s \in Swaps
        /\ status'[s] # "New" /\ faults' = faults
    BY <1>3, SaveResultInv DEF SaveResult
  <2>2. \A x \in S2B : NotInRecord(x)' => NotInRecord(x) /\ x # s
    BY <2>1, SameLocks, NewHasNoLock DEF NotInRecord
  <2>3. Unsaved' \subseteq Unsaved
    BY <2>2 DEF Unsaved, AboutToSave
  <2> QED BY <2>1, <2>3, FaultsCount
<1>4. CASE LoseResult \/ Crash \/ \E s \in Swaps : RpcFails(s)
  BY <1>4, RecordLeftInv, CrashInv, SameLocks, FaultAtHand
<1>5. CASE CallFails
  BY <1>5, CallFailsInv, SameLocks, FaultAtHand, NothingAtHand
<1>6. ASSUME NEW s \in Swaps,
             \/ HandleEvent(s) \/ SkipRefund(s) \/ RefundBch(s) \/ UnlockBch(s)
             \/ TooLateToLock(s) \/ LockBchFails(s) \/ SendSbchTx(s) \/ SendFails(s)
      PROVE  FaultsOK'
  <2>1. faults' = faults
    BY <1>6 DEF HandleEvent, SkipRefund, RefundBch, UnlockBch, TooLateToLock,
       LockBchFails, SendSbchTx, SendFails, Sent
  <2>2. call # "ok"
    <3>1. CASE HandleEvent(s)
      BY <3>1 DEF HandleEvent, IInv, CallOK, ChainsOK
    <3>2. CASE SendSbchTx(s) \/ SendFails(s)
      BY <3>2 DEF SendSbchTx, SendFails, SbchCall, Handling
    <3>3. CASE \/ SkipRefund(s) \/ RefundBch(s) \/ UnlockBch(s)
               \/ TooLateToLock(s) \/ LockBchFails(s)
      BY <3>3 DEF SkipRefund, RefundBch, UnlockBch, TooLateToLock, LockBchFails,
         NoInputs, Handling
    <3> QED BY <1>6, <3>1, <3>2, <3>3
  <2>3. CASE RefundBch(s)
    <3>1. /\ NoSave /\ orphans' = orphans
          /\ \/ botLeg[s] = "locked" /\ botLeg' = [botLeg EXCEPT ![s] = "refunded"]
             \/ botLeg' = botLeg
      BY <2>3, RefundBchInv DEF RefundBch
    <3>2. \A x \in S2B : botLeg'[x] = "none" <=> botLeg[x] = "none"
      BY <3>1 DEF IInv, ChainsOK, Swaps
    <3> QED BY <2>1, <2>2, <3>1, <3>2, NothingAtHand
  <2>4. CASE UnlockBch(s)
    <3>1. NoSave /\ UNCHANGED <<botLeg, orphans>>
      BY <2>4, UnlockBchInv DEF UnlockBch
    <3> QED BY <2>1, <2>2, <3>1, NothingAtHand
  <2>5. CASE \/ HandleEvent(s) \/ SkipRefund(s) \/ TooLateToLock(s)
             \/ LockBchFails(s) \/ SendSbchTx(s) \/ SendFails(s)
    <3>1. UNCHANGED <<userLeg, botLeg, orphans>> /\ (NoSave \/ Saves(s))
      BY <2>5, HandleEventInv, SkipInv, TooLateInv, SendSbchTxInv, SendFailsInv
    <3> QED BY <2>1, <2>2, <3>1, SameLocks, NothingAtHand
  <2> QED BY <1>6, <2>3, <2>4, <2>5
<1>7. ASSUME NEW s \in Swaps, LockBch(s)
      PROVE  FaultsOK'
  BY <1>0, <1>7, LockHasFault
<1>8. CASE Mine
  BY <1>8, MineInv, SameLocks, LoopWaits
<1>9. ASSUME NEW s \in Swaps,
             UserLocks(s) \/ UserClaims(s) \/ UserRefunds(s) \/ TimePasses(s)
      PROVE  FaultsOK'
  <2>1. NoSave /\ UNCHANGED <<orphans, loop, faults>>
    BY <1>9, UserLocksInv, UserClaimsInv, UserWaitsInv
  <2>2. \A x \in S2B : botLeg'[x] = "none" <=> botLeg[x] = "none"
    BY <1>9, UserLocksInv, UserClaimsInv, UserWaitsInv, SameLocks
  <2>3. UNCHANGED <<pc, todo, call>>
    BY <2>1 DEF loop
  <2> QED BY <2>1, <2>2, <2>3, LoopWaits
<1>10. CASE InfoQuery
  <2>1. UNCHANGED <<userLeg, botLeg, orphans, status, pc, todo, call, faults>>
    BY <1>10, InfoQueryInv DEF loop
  <2> QED BY <2>1, SameLocks, LoopWaits
<1> QED
  BY <1>1, <1>2, <1>3, <1>4, <1>5, <1>6, <1>7, <1>8, <1>9, <1>10
     DEF Next, LoopStep, UserStep

LEMMA FaultsInit == Init => FaultsOK
<1> SUFFICES ASSUME Init
             PROVE  FaultsOK
  OBVIOUS
<1>1. Unsaved = {}
  BY DEF Init, Unsaved, NotInRecord, Swaps
<1>2. Cardinality(Unsaved) = 0
  BY <1>1, FS_EmptySet
<1>3. SumFunction(orphans) = 0
  BY SwapsFinite, SumOfZeros DEF Init
<1> QED
  BY <1>2, <1>3 DEF Init, FaultsOK

\* However often the bot locks BCH a second time for one swap, each time a crash,
\* a lost answer or a failed save has come between SendTx (bot.go:1062) and the
\* save (1074) before: neither the other direction's transactions nor the order
\* of the queries, nor an event of a user makes it do so.
THEOREM SecondLocksHaveFaults == Spec => []SecondLocksAreFaults
<1>1. IInv /\ FaultsOK /\ [Next]_vars => FaultsOK'
  <2> SUFFICES ASSUME IInv, FaultsOK, [Next]_vars
               PROVE  FaultsOK'
    OBVIOUS
  <2>1. CASE Next
    BY <2>1, FaultsStep
  <2>2. CASE UNCHANGED vars
    <3>1. UNCHANGED <<pc, todo, call, faults>>
      BY <2>2 DEF vars, loop
    <3> QED BY <2>2, <3>1, IInvStutter, SameLocks, LoopWaits
  <2> QED BY <2>1, <2>2
<1>2. IInv /\ FaultsOK => SecondLocksAreFaults
  <2> SUFFICES ASSUME IInv, FaultsOK
               PROVE  SecondLocksAreFaults
    OBVIOUS
  <2>1. SumFunction(orphans) \in Int /\ Cardinality(Unsaved) \in Nat /\ faults \in Int
    BY OrphansSum, UnsavedFinite DEF IInv
  <2> QED BY <2>1 DEF FaultsOK, SecondLocksAreFaults
<1> QED
  BY <1>1, <1>2, FaultsInit, InvariantHolds, PTL DEF Spec

-----------------------------------------------------------------------------
(* The answer of /info.                                                    *)

\* what the limit of the queries leaves room for
FewActive ==
  \A t \in Tables, st \in Active : Cardinality(WithStatus(t, st)) <= 500

\* A record that has not been returned yet has a status still to be queried.
InfoOK ==
  /\ asked # 3
  /\ \A s \in due :
       /\ status[s] \in Active
       /\ asked >= 1 => status[s] # "New"
       /\ asked >= 2 => status[s] # "Locked"

LEMMA InfoSaves ==
  ASSUME IInv, InfoOK, NEW s \in Swaps, Saves(s)
  PROVE  InfoOK'
<1>1. CASE NoSave
  BY <1>1 DEF NoSave, records, info, InfoOK
<1>2. CASE \E st \in Statuses : Save(s, st) /\ <<status[s], st>> \in Moves
  <2>1. PICK st \in Statuses : Save(s, st) /\ <<status[s], st>> \in Moves
    BY <1>2
  <2>2. /\ status' = [status EXCEPT ![s] = st]
        /\ due' = IF st \in Active THEN due ELSE due \ {s}
        /\ asked' = IF due' = {} THEN 0 ELSE asked
    BY <2>1 DEF Save
  <2>3. asked \in 0..3 /\ due \subseteq Swaps /\ (due = {} <=> asked = 0)
    BY DEF IInv, InfoTyped
  <2>4. \A x \in Swaps : status'[x] = IF x = s THEN st ELSE status[x]
    BY <2>2 DEF IInv, TablesOK
  <2>5. ASSUME NEW x \in due'
        PROVE  /\ status'[x] \in Active
               /\ asked' >= 1 => status'[x] # "New"
               /\ asked' >= 2 => status'[x] # "Locked"
    <3>1. x \in due /\ asked' = asked /\ asked >= 1 /\ x \in Swaps
      BY <2>2, <2>3
    <3>2. status[x] \in Active /\ status[x] # "New" /\ (asked >= 2 => status[x] # "Locked")
      BY <3>1 DEF InfoOK
    <3>3. CASE x # s
      BY <2>4, <3>1, <3>2, <3>3
    <3>4. CASE x = s
      <4>1. st \in Active
        BY <2>2, <3>4
      <4>2. status'[x] = st /\ <<status[x], st>> \in Moves
        BY <2>1, <2>4, <3>1, <3>4
      <4>3. st # "New" /\ st # "Locked"
        BY <3>2, <4>2 DEF Moves, Active
      <4> QED BY <4>1, <4>2, <4>3
    <3> QED BY <3>3, <3>4
  <2>6. asked' # 3
    BY <2>2 DEF InfoOK
  <2> QED BY <2>5, <2>6 DEF InfoOK
<1> QED
  BY <1>1, <1>2 DEF Saves

LEMMA InfoQueries ==
  ASSUME IInv, InfoOK, FewActive, InfoQuery
  PROVE  InfoOK'
<1>1. PICK s \in IF asked > 0 THEN due ELSE {x \in Swaps : status[x] \in Active} :
        due' = {s} \ ToSet(Query(TableOf(s), Queries[asked + 1], 500))
  BY DEF InfoQuery
<1>2. /\ asked < 3 /\ asked' = IF due' = {} THEN 0 ELSE asked + 1
      /\ status' = status
  BY DEF InfoQuery, Queries, records
<1>3. asked \in 0..3 /\ due \subseteq Swaps
  BY DEF IInv, InfoTyped
<1>4. /\ s \in Swaps /\ status[s] \in Active
      /\ asked >= 1 => status[s] # "New"
      /\ asked >= 2 => status[s] # "Locked"
  <2>1. CASE asked > 0
    BY <1>1, <1>3, <2>1 DEF InfoOK
  <2>2. CASE ~(asked > 0)
    BY <1>1, <1>3, <2>2
  <2> QED BY <2>1, <2>2
<1> DEFINE st == Queries[asked + 1]
<1>5. /\ st \in Active
      /\ asked = 0 => st = "New"
      /\ asked = 1 => st = "Locked"
      /\ asked = 2 => st = "Revealed"
  BY <1>2, <1>3 DEF Queries, Active
<1>6. st \in Statuses \ {"none"} /\ TableOf(s) \in Tables
  BY <1>5 DEF Active, Statuses, TableOf, Tables
<1> HIDE DEF st
<1>7. Cardinality(WithStatus(TableOf(s), st)) <= 500
  BY <1>5, <1>6 DEF FewActive
<1>8. \A x \in WithStatus(TableOf(s), st) :
        x \in ToSet(Query(TableOf(s), st, 500))
  <2>1. TablesOK /\ 500 \in Nat
    BY DEF IInv
  <2> QED BY <1>6, <1>7, <2>1, QueryReturns
<1>9. due' = {s} \ ToSet(Query(TableOf(s), st, 500))
  BY <1>1 DEF st
<1>10. status[s] = st => due' = {}
  BY <1>4, <1>8, <1>9 DEF WithStatus
<1>11. CASE due' = {}
  BY <1>2, <1>11 DEF InfoOK
<1>12. CASE due' # {}
  <2>1. due' = {s} /\ status[s] # st /\ asked' = asked + 1
    BY <1>2, <1>9, <1>10, <1>12
  <2>2. asked = 0 \/ asked = 1 \/ asked = 2
    BY <1>2, <1>3
  <2>3. asked # 2
    BY <1>4, <1>5, <2>1 DEF Active
  <2>4. /\ asked' # 3 /\ status'[s] \in Active
        /\ asked' >= 1 => status'[s] # "New"
        /\ asked' >= 2 => status'[s] # "Locked"
    BY <1>2, <1>4, <1>5, <2>1, <2>2, <2>3
  <2> QED BY <2>1, <2>4 DEF InfoOK
<1> QED
  BY <1>11, <1>12

\* /info asks for New, Locked and Revealed records one after the other while the
\* loop saves them; as long as its limit of 500 does not cut a query short, a
\* record that is active all the while is in the answer (server.go, getBotInfo).
THEOREM NothingMissed == Spec /\ []FewActive => []NothingActiveMissed
<1>1. Init => InfoOK
  BY DEF Init, InfoOK
<1>2. IInv /\ FewActive /\ InfoOK /\ [Next]_vars => InfoOK'
  <2> SUFFICES ASSUME IInv, FewActive, InfoOK, [Next]_vars
               PROVE  InfoOK'
    OBVIOUS
  <2>1. NoSave => InfoOK'
    BY DEF NoSave, records, info, InfoOK
  <2>2. CASE Next
    BY <2>1, <2>2, StepIs, InfoSaves, InfoQueries
  <2>3. CASE UNCHANGED vars
    BY <2>1, <2>3, IInvStutter
  <2> QED BY <2>2, <2>3
<1>3. InfoOK => NothingActiveMissed
  BY DEF InfoOK, NothingActiveMissed, Queries
<1> QED
  BY <1>1, <1>2, <1>3, InvariantHolds, PTL DEF Spec

=============================================================================
