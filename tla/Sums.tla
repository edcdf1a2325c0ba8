-------------------------------- MODULE Sums --------------------------------
(***************************************************************************)
(* Facts about the sums of the models, MapThenSumSet of the community      *)
(* modules: how a sum follows one changed term, and what bounds it; then   *)
(* about the lists of Listing: what they hold, and in which order.         *)
(* The induction they need is on the subsets of a finite set, by the least *)
(* one that would be an exception.                                         *)
(***************************************************************************)
EXTENDS FiniteSetsExt, Integers, SequencesExt, Listing, FiniteSetTheorems, TLAPS

\* The element MapThenFoldSet takes first.
Chosen(s) == CHOOSE x \in s : TRUE

\* g is what MapThenFoldSet computes on its way to the sum of f over S.
SumIs(f, S, g) == g = [s \in SUBSET S |-> IF s = {} THEN 0 ELSE f[Chosen(s)] + g[s \ {Chosen(s)}]]

\* The sum of f over S, as the models write it.
SumOf(f, S) == MapThenSumSet(LAMBDA x : f[x], S)

\* A sum is the value at S of a function on the subsets of S.
LEMMA SumUnfolds ==
  ASSUME NEW f, NEW S
  PROVE  SumOf(f, S) = (CHOOSE g : SumIs(f, S, g))[S]
  BY DEF SumOf, MapThenSumSet, MapThenFoldSet, SumIs, Chosen

\* Of some subsets of a finite set one holds none of the others.
LEMMA LeastSubset ==
  ASSUME NEW S, IsFiniteSet(S), NEW B \in SUBSET SUBSET S, B # {}
  PROVE  \E V \in B : \A W \in B : W \subseteq V => W = V
<1>1. B \subseteq FiniteSubsetsOf(S)
  BY FS_FiniteSubsetsOfFinite
<1>2. \E V \in B : \A W \in B : ~ (<<W, V>> \in StrictSubsetOrdering(S))
  BY <1>1, FS_StrictSubsetOrderingWellFounded, WFMin
<1>3. PICK V \in B : \A W \in B : ~ (<<W, V>> \in StrictSubsetOrdering(S))
  BY <1>2
<1>4. ASSUME NEW W \in B, W \subseteq V PROVE W = V
  <2>1. <<W, V>> \in (SUBSET S) \X (SUBSET S)
    OBVIOUS
  <2> QED
    BY <1>3, <1>4, <2>1 DEF StrictSubsetOrdering
<1> QED
  BY <1>4

\* An element is chosen of each set that is not empty.
LEMMA ChosenIn == ASSUME NEW s, s # {} PROVE Chosen(s) \in s
  BY DEF Chosen

\* What such a function says of one subset.
LEMMA SumAt ==
  ASSUME NEW f, NEW S, NEW g, SumIs(f, S, g), NEW s \in SUBSET S
  PROVE  /\ s = {} => g[s] = 0
         /\ s # {} => g[s] = f[Chosen(s)] + g[s \ {Chosen(s)}]
<1>1. g[s] = [t \in SUBSET S |-> IF t = {} THEN 0 ELSE f[Chosen(t)] + g[t \ {Chosen(t)}]][s]
  BY DEF SumIs
<1> QED
  BY <1>1

\* Two such functions agree wherever both are defined.
LEMMA SumUnique ==
  ASSUME NEW f, NEW S, IsFiniteSet(S), NEW T, NEW g, NEW h, SumIs(f, S, g), SumIs(f, T, h),
         NEW U, U \subseteq S, U \subseteq T
  PROVE  g[U] = h[U]
<1> DEFINE Bad == {V \in SUBSET U : g[V] # h[V]}
<1> SUFFICES ASSUME Bad # {} PROVE FALSE
  OBVIOUS
<1>1. Bad \in SUBSET SUBSET S
  OBVIOUS
<1> HIDE DEF Bad
<1>2. PICK V \in Bad : \A W \in Bad : W \subseteq V => W = V
  BY <1>1, LeastSubset
<1>3. V \subseteq U /\ g[V] # h[V] /\ V \in SUBSET S /\ V \in SUBSET T
  BY <1>2 DEF Bad
<1>4. V # {}
  BY <1>3, SumAt
<1> DEFINE W == V \ {Chosen(V)}
<1>5. g[V] = f[Chosen(V)] + g[W] /\ h[V] = f[Chosen(V)] + h[W]
  BY <1>3, <1>4, SumAt
<1>6. Chosen(V) \in V
  BY <1>4, ChosenIn
<1>7. W \subseteq V /\ W # V /\ W \in SUBSET U
  BY <1>3, <1>6
<1> HIDE DEF W
<1>8. W \notin Bad
  BY <1>2, <1>7
<1>9. g[W] = h[W]
  BY <1>7, <1>8 DEF Bad
<1> QED
  BY <1>3, <1>5, <1>9

\* There is one for every finite set.
LEMMA SumExists ==
  ASSUME NEW f, NEW S, IsFiniteSet(S)
  PROVE  \E g : SumIs(f, S, g)
<1> DEFINE Bad == {T \in SUBSET S : ~ \E g : SumIs(f, T, g)}
<1> SUFFICES ASSUME Bad # {} PROVE FALSE
  OBVIOUS
<1>1. Bad \in SUBSET SUBSET S
  OBVIOUS
<1> HIDE DEF Bad
<1>2. PICK T \in Bad : \A W \in Bad : W \subseteq T => W = T
  BY <1>1, LeastSubset
<1>3. T \in SUBSET S /\ ~ \E g : SumIs(f, T, g)
  BY <1>2 DEF Bad
<1> DEFINE h(W) == CHOOSE g : SumIs(f, W, g)
<1>4. ASSUME NEW W, W \subseteq T, W # T
      PROVE  SumIs(f, W, h(W)) /\ IsFiniteSet(W)
  <2>1. W \in SUBSET S /\ W \notin Bad
    BY <1>2, <1>3, <1>4
  <2>2. \E g : SumIs(f, W, g)
    BY <2>1 DEF Bad
  <2> QED
    BY <2>1, <2>2, FS_Subset
<1> HIDE DEF h
<1> DEFINE rest(s) == s \ {Chosen(s)}
           v(s) == h(rest(s))[rest(s)]
           G == [s \in SUBSET T |-> IF s = {} THEN 0 ELSE f[Chosen(s)] + v(s)]
<1>5. ASSUME NEW s \in SUBSET T, s # {}
      PROVE  rest(s) \subseteq T /\ rest(s) # T /\ rest(s) \subseteq s
  BY <1>5, ChosenIn
<1>6. ASSUME NEW s \in SUBSET T, s # {} PROVE v(s) = G[rest(s)]
  <2> DEFINE W == rest(s)
  <2>1. W \subseteq T /\ W # T
    BY <1>5, <1>6
  <2> HIDE DEF W
  <2>2. SumIs(f, W, h(W)) /\ IsFiniteSet(W)
    BY <1>4, <2>1
  <2>3. CASE W = {}
    <3>1. h(W)[W] = 0
      BY <2>2, <2>3, SumAt
    <3>2. G[W] = 0
      BY <2>1, <2>3
    <3> QED
      BY <3>1, <3>2 DEF W
  <2>4. CASE W # {}
    <3>1. h(W)[W] = f[Chosen(W)] + h(W)[rest(W)]
      BY <2>2, <2>4, SumAt
    <3>2. rest(W) \subseteq T /\ rest(W) # T /\ rest(W) \subseteq W
      BY <1>5, <2>1, <2>4
    <3>3. SumIs(f, rest(W), h(rest(W)))
      BY <1>4, <3>2
    <3>4. h(W)[rest(W)] = h(rest(W))[rest(W)]
      BY <2>2, <3>2, <3>3, SumUnique
    <3>5. G[W] = f[Chosen(W)] + v(W)
      BY <2>1, <2>4
    <3> QED
      BY <3>1, <3>4, <3>5 DEF W
  <2> QED
    BY <2>3, <2>4
<1>7. G = [s \in SUBSET T |-> IF s = {} THEN 0 ELSE f[Chosen(s)] + G[rest(s)]]
  BY <1>6
<1>8. SumIs(f, T, G)
  BY <1>7 DEF SumIs
<1> QED
  BY <1>3, <1>8

\* The sum of a finite set, by the element MapThenFoldSet takes first.
LEMMA SumFirst ==
  ASSUME NEW f, NEW S, IsFiniteSet(S)
  PROVE  /\ S = {} => SumOf(f, S) = 0
         /\ S # {} => SumOf(f, S) = f[Chosen(S)] + SumOf(f, S \ {Chosen(S)})
<1> DEFINE g(T) == CHOOSE h : SumIs(f, T, h)
           R == S \ {Chosen(S)}
<1>1. IsFiniteSet(R) /\ R \subseteq S
  BY FS_Subset
<1>2. SumIs(f, S, g(S)) /\ SumIs(f, R, g(R))
  BY <1>1, SumExists
<1>3. SumOf(f, S) = g(S)[S] /\ SumOf(f, R) = g(R)[R]
  BY SumUnfolds
<1> HIDE DEF g, R
<1>4. g(S)[R] = g(R)[R]
  BY <1>1, <1>2, SumUnique
<1>5. /\ S = {} => g(S)[S] = 0
      /\ S # {} => g(S)[S] = f[Chosen(S)] + g(S)[R]
  <2> DEFINE k == g(S)
  <2>1. SumIs(f, S, k) /\ S \in SUBSET S
    BY <1>2
  <2> HIDE DEF k
  <2>2. /\ S = {} => k[S] = 0
        /\ S # {} => k[S] = f[Chosen(S)] + k[S \ {Chosen(S)}]
    BY <2>1, SumAt
  <2> QED
    BY <2>2 DEF k, R
<1> QED
  BY <1>3, <1>4, <1>5 DEF R

-----------------------------------------------------------------------------

\* The sum of nothing.
LEMMA SumEmpty == ASSUME NEW f PROVE SumOf(f, {}) = 0
  BY SumFirst, FS_EmptySet

\* A sum is in every set that holds 0 and whatever its terms lead to.
LEMMA SumIn ==
  ASSUME NEW f, NEW S, IsFiniteSet(S), NEW A, 0 \in A, \A x \in S : \A a \in A : f[x] + a \in A
  PROVE  SumOf(f, S) \in A
<1> DEFINE Bad == {T \in SUBSET S : SumOf(f, T) \notin A}
<1> SUFFICES ASSUME Bad # {} PROVE FALSE
  OBVIOUS
<1>1. Bad \in SUBSET SUBSET S
  OBVIOUS
<1> HIDE DEF Bad
<1>2. PICK T \in Bad : \A W \in Bad : W \subseteq T => W = T
  BY <1>1, LeastSubset
<1>3. T \in SUBSET S /\ SumOf(f, T) \notin A /\ IsFiniteSet(T)
  BY <1>2, FS_Subset DEF Bad
<1>4. T # {}
  BY <1>3, SumEmpty
<1> DEFINE W == T \ {Chosen(T)}
<1>5. Chosen(T) \in T
  BY <1>4, ChosenIn
<1>6. W \in SUBSET S /\ W \subseteq T /\ W # T
  BY <1>3, <1>5
<1>7. SumOf(f, T) = f[Chosen(T)] + SumOf(f, W)
  BY <1>3, <1>4, SumFirst
<1> HIDE DEF W
<1>8. SumOf(f, W) \in A
  BY <1>2, <1>6 DEF Bad
<1> QED
  BY <1>3, <1>5, <1>7, <1>8

\* A sum of integers is an integer.
LEMMA SumInt ==
  ASSUME NEW f, NEW S, IsFiniteSet(S), \A x \in S : f[x] \in Int
  PROVE  SumOf(f, S) \in Int
<1>1. 0 \in Int /\ \A x \in S : \A a \in Int : f[x] + a \in Int
  OBVIOUS
<1> QED
  BY <1>1, SumIn

\* A sum of natural numbers is one.
LEMMA SumNat ==
  ASSUME NEW f, NEW S, IsFiniteSet(S), \A x \in S : f[x] \in Nat
  PROVE  SumOf(f, S) \in Nat
<1>1. 0 \in Nat /\ \A x \in S : \A a \in Nat : f[x] + a \in Nat
  OBVIOUS
<1> QED
  BY <1>1, SumIn

\* A sum may be taken from any of its elements.
LEMMA SumRemove ==
  ASSUME NEW f, NEW S, IsFiniteSet(S), \A x \in S : f[x] \in Int, NEW e \in S
  PROVE  SumOf(f, S) = f[e] + SumOf(f, S \ {e})
<1> DEFINE Bad == {T \in SUBSET S : \E d \in T : SumOf(f, T) # f[d] + SumOf(f, T \ {d})}
<1> SUFFICES ASSUME Bad # {} PROVE FALSE
  OBVIOUS
<1>1. Bad \in SUBSET SUBSET S
  OBVIOUS
<1> HIDE DEF Bad
<1>2. PICK T \in Bad : \A W \in Bad : W \subseteq T => W = T
  BY <1>1, LeastSubset
<1>3. PICK d \in T : SumOf(f, T) # f[d] + SumOf(f, T \ {d})
  BY <1>2 DEF Bad
<1>4. T \in SUBSET S /\ IsFiniteSet(T) /\ T # {}
  BY <1>2, FS_Subset DEF Bad
<1> DEFINE c == Chosen(T)
<1>5. c \in T /\ SumOf(f, T) = f[c] + SumOf(f, T \ {c})
  BY <1>4, ChosenIn, SumFirst
<1> HIDE DEF c
<1>6. c # d
  BY <1>3, <1>5
<1>7. /\ T \ {c} \in SUBSET S /\ T \ {c} \subseteq T /\ T \ {c} # T /\ d \in T \ {c}
      /\ T \ {d} \in SUBSET S /\ T \ {d} \subseteq T /\ T \ {d} # T /\ c \in T \ {d}
  BY <1>4, <1>5, <1>6
<1>8. SumOf(f, T \ {c}) = f[d] + SumOf(f, (T \ {c}) \ {d})
  BY <1>2, <1>7 DEF Bad
<1>9. SumOf(f, T \ {d}) = f[c] + SumOf(f, (T \ {d}) \ {c})
  BY <1>2, <1>7 DEF Bad
<1>10. (T \ {c}) \ {d} = (T \ {d}) \ {c}
  OBVIOUS
<1> DEFINE R == (T \ {d}) \ {c}
<1>11. SumOf(f, R) \in Int /\ f[c] \in Int /\ f[d] \in Int
  BY <1>4, <1>5, FS_Subset, SumInt
<1> DEFINE r == SumOf(f, R)
<1>12. SumOf(f, T) = f[c] + (f[d] + r) /\ SumOf(f, T \ {d}) = f[c] + r
  BY <1>5, <1>8, <1>9, <1>10
<1> HIDE DEF R, r
<1> QED
  BY <1>3, <1>11, <1>12 DEF r

\* Sums of values that are no greater are no greater.
LEMMA SumLeq ==
  ASSUME NEW f, NEW h, NEW S, IsFiniteSet(S), \A x \in S : f[x] \in Int /\ h[x] \in Int /\ f[x] <= h[x]
  PROVE  SumOf(f, S) <= SumOf(h, S)
<1> DEFINE Bad == {T \in SUBSET S : ~ (SumOf(f, T) <= SumOf(h, T))}
<1> SUFFICES ASSUME Bad # {} PROVE FALSE
  OBVIOUS
<1>1. Bad \in SUBSET SUBSET S
  OBVIOUS
<1> HIDE DEF Bad
<1>2. PICK T \in Bad : \A W \in Bad : W \subseteq T => W = T
  BY <1>1, LeastSubset
<1>3. T \in SUBSET S /\ ~ (SumOf(f, T) <= SumOf(h, T)) /\ IsFiniteSet(T)
  BY <1>2, FS_Subset DEF Bad
<1>4. T # {}
  <2>1. SumOf(f, {}) = 0 /\ SumOf(h, {}) = 0
    BY SumEmpty
  <2> QED
    BY <1>3, <2>1
<1> DEFINE W == T \ {Chosen(T)}
<1>5. Chosen(T) \in T
  BY <1>4, ChosenIn
<1>6. W \in SUBSET S /\ W \subseteq T /\ W # T /\ IsFiniteSet(W)
  BY <1>3, <1>5, FS_Subset
<1>7. SumOf(f, T) = f[Chosen(T)] + SumOf(f, W) /\ SumOf(h, T) = h[Chosen(T)] + SumOf(h, W)
  BY <1>3, <1>4, SumFirst
<1> HIDE DEF W
<1>8. SumOf(f, W) <= SumOf(h, W) /\ SumOf(f, W) \in Int /\ SumOf(h, W) \in Int
  BY <1>2, <1>6, SumInt DEF Bad
<1> QED
  BY <1>3, <1>5, <1>7, <1>8

\* The sum of one function over another set, or of one that differs there.
LEMMA SumSame ==
  ASSUME NEW f, NEW h, NEW S, IsFiniteSet(S), \A x \in S : f[x] \in Int /\ f[x] = h[x]
  PROVE  SumOf(f, S) = SumOf(h, S)
<1>1. SumOf(f, S) <= SumOf(h, S) /\ SumOf(h, S) <= SumOf(f, S)
  BY SumLeq
<1>2. SumOf(f, S) \in Int /\ SumOf(h, S) \in Int
  BY SumInt
<1> QED
  BY <1>1, <1>2

\* When one value changes, so does the sum, by as much.
LEMMA SumChange ==
  ASSUME NEW f, NEW h, NEW S, IsFiniteSet(S), NEW e \in S,
         \A x \in S : f[x] \in Int /\ h[x] \in Int, \A x \in S \ {e} : f[x] = h[x]
  PROVE  SumOf(h, S) = SumOf(f, S) + (h[e] - f[e])
<1>1. SumOf(f, S) = f[e] + SumOf(f, S \ {e}) /\ SumOf(h, S) = h[e] + SumOf(h, S \ {e})
  BY SumRemove
<1>2. IsFiniteSet(S \ {e})
  BY FS_Subset
<1>3. SumOf(f, S \ {e}) = SumOf(h, S \ {e}) /\ SumOf(f, S \ {e}) \in Int
  BY <1>2, SumSame, SumInt
<1> QED
  BY <1>1, <1>3

\* Fewer natural numbers have no greater a sum.
LEMMA SumSubset ==
  ASSUME NEW f, NEW S, IsFiniteSet(S), \A x \in S : f[x] \in Nat, NEW T, T \subseteq S
  PROVE  SumOf(f, T) <= SumOf(f, S)
<1> DEFINE Bad == {U \in SUBSET S : ~ (SumOf(f, T \cap U) <= SumOf(f, U))}
<1> SUFFICES ASSUME Bad # {} PROVE FALSE
  <2>1. T \cap S = T
    OBVIOUS
  <2> QED
    BY <2>1
<1>1. Bad \in SUBSET SUBSET S
  OBVIOUS
<1> HIDE DEF Bad
<1>2. PICK U \in Bad : \A W \in Bad : W \subseteq U => W = U
  BY <1>1, LeastSubset
<1>3. U \in SUBSET S /\ ~ (SumOf(f, T \cap U) <= SumOf(f, U)) /\ IsFiniteSet(U) /\ IsFiniteSet(T \cap U)
  BY <1>2, FS_Subset DEF Bad
<1>4. U # {}
  BY <1>3, SumEmpty
<1>5. PICK e \in U : TRUE
  BY <1>4
<1> DEFINE W == U \ {e}
<1>6. W \in SUBSET S /\ W \subseteq U /\ W # U /\ IsFiniteSet(W) /\ IsFiniteSet(T \cap W)
  BY <1>3, FS_Subset
<1>7. SumOf(f, U) = f[e] + SumOf(f, W) /\ f[e] \in Nat
  BY <1>3, SumRemove
<1>8. SumOf(f, T \cap U) = SumOf(f, T \cap W) \/ SumOf(f, T \cap U) = f[e] + SumOf(f, T \cap W)
  <2>1. CASE e \in T
    <3>1. (T \cap U) \ {e} = T \cap W /\ e \in T \cap U /\ \A x \in T \cap U : f[x] \in Int
      BY <2>1, <1>3
    <3> QED
      BY <3>1, <1>3, SumRemove
  <2>2. CASE e \notin T
    <3>1. T \cap U = T \cap W
      BY <2>2
    <3> QED
      BY <3>1
  <2> QED
    BY <2>1, <2>2
<1>9. SumOf(f, W) \in Nat /\ SumOf(f, T \cap W) \in Nat
  BY <1>6, SumNat
<1> HIDE DEF W
<1>10. SumOf(f, T \cap W) <= SumOf(f, W)
  BY <1>2, <1>6 DEF Bad
<1> QED
  BY <1>3, <1>7, <1>8, <1>9, <1>10

\* What is nothing outside a set may be left out of the sum.
LEMMA SumRestrict ==
  ASSUME NEW f, NEW h, NEW S, IsFiniteSet(S), NEW T, T \subseteq S,
         \A x \in S : h[x] \in Int, \A x \in T : f[x] = h[x], \A x \in S \ T : h[x] = 0
  PROVE  SumOf(h, S) = SumOf(f, T)
<1> DEFINE Bad == {U \in SUBSET S : SumOf(h, U) # SumOf(f, T \cap U)}
<1> SUFFICES ASSUME Bad # {} PROVE FALSE
  <2>1. T \cap S = T
    OBVIOUS
  <2> QED
    BY <2>1
<1>1. Bad \in SUBSET SUBSET S
  OBVIOUS
<1> HIDE DEF Bad
<1>2. PICK U \in Bad : \A W \in Bad : W \subseteq U => W = U
  BY <1>1, LeastSubset
<1>3. U \in SUBSET S /\ SumOf(h, U) # SumOf(f, T \cap U) /\ IsFiniteSet(U) /\ IsFiniteSet(T \cap U)
  BY <1>2, FS_Subset DEF Bad
<1>4. U # {}
  <2>1. SumOf(f, {}) = 0 /\ SumOf(h, {}) = 0 /\ T \cap {} = {}
    BY SumEmpty
  <2> QED
    BY <1>3, <2>1
<1> DEFINE c == Chosen(U)
           W == U \ {c}
<1>5. c \in U
  BY <1>4, ChosenIn
<1>6. W \in SUBSET S /\ W \subseteq U /\ W # U
  BY <1>3, <1>5
<1>7. SumOf(h, U) = h[c] + SumOf(h, W)
  BY <1>3, <1>4, SumFirst
<1>8. SumOf(h, W) = SumOf(f, T \cap W)
  <2> HIDE DEF W
  <2> QED
    BY <1>2, <1>6 DEF Bad
<1>9. SumOf(f, T \cap W) \in Int
  <2>1. IsFiniteSet(T \cap W) /\ \A x \in T \cap W : f[x] \in Int
    BY <1>3, FS_Subset
  <2> HIDE DEF W
  <2> QED
    BY <2>1, SumInt
<1>10. CASE c \in T
  <2>1. (T \cap U) \ {c} = T \cap W /\ c \in T \cap U /\ f[c] = h[c]
    BY <1>5, <1>10
  <2>2. \A x \in T \cap U : f[x] \in Int
    OBVIOUS
  <2> HIDE DEF c, W
  <2>3. SumOf(f, T \cap U) = f[c] + SumOf(f, T \cap W)
    BY <1>3, <2>1, <2>2, SumRemove
  <2> QED
    BY <1>3, <1>7, <1>8, <2>1, <2>3
<1>11. CASE c \notin T
  <2>1. T \cap U = T \cap W /\ h[c] = 0
    BY <1>3, <1>5, <1>11
  <2> HIDE DEF c, W
  <2>2. SumOf(f, T \cap U) = SumOf(f, T \cap W)
    BY <2>1, Zenon
  <2> DEFINE b == SumOf(f, T \cap W)
  <2> HIDE DEF b
  <2>3. SumOf(h, U) = b /\ SumOf(f, T \cap U) = b
    BY <1>7, <1>8, <1>9, <2>1, <2>2 DEF b
  <2> QED
    BY <1>3, <2>3
<1> QED
  BY <1>10, <1>11

\* The sum of sums.
LEMMA SumPlus ==
  ASSUME NEW f, NEW g, NEW h, NEW S, IsFiniteSet(S),
         \A x \in S : f[x] \in Int /\ g[x] \in Int /\ h[x] = f[x] + g[x]
  PROVE  SumOf(h, S) = SumOf(f, S) + SumOf(g, S)
<1> DEFINE Bad == {T \in SUBSET S : SumOf(h, T) # SumOf(f, T) + SumOf(g, T)}
<1> SUFFICES ASSUME Bad # {} PROVE FALSE
  OBVIOUS
<1>1. Bad \in SUBSET SUBSET S
  OBVIOUS
<1> HIDE DEF Bad
<1>2. PICK T \in Bad : \A W \in Bad : W \subseteq T => W = T
  BY <1>1, LeastSubset
<1>3. T \in SUBSET S /\ SumOf(h, T) # SumOf(f, T) + SumOf(g, T) /\ IsFiniteSet(T)
  BY <1>2, FS_Subset DEF Bad
<1>4. T # {}
  <2> SUFFICES ASSUME T = {} PROVE FALSE
    OBVIOUS
  <2>1. SumOf(h, T) = 0 /\ SumOf(f, T) = 0 /\ SumOf(g, T) = 0
    BY SumEmpty
  <2>2. 0 # 0 + 0
    BY <1>3, <2>1
  <2> QED
    BY <2>2
<1> DEFINE c == Chosen(T)
           W == T \ {c}
<1>5. c \in T
  BY <1>4, ChosenIn
<1>6. W \in SUBSET S /\ W \subseteq T /\ W # T /\ IsFiniteSet(W)
  BY <1>3, <1>5, FS_Subset
<1>7. SumOf(f, T) = f[c] + SumOf(f, W) /\ SumOf(g, T) = g[c] + SumOf(g, W) /\ SumOf(h, T) = h[c] + SumOf(h, W)
  BY <1>3, <1>4, SumFirst
<1> HIDE DEF c, W
<1>8. SumOf(h, W) = SumOf(f, W) + SumOf(g, W) /\ SumOf(f, W) \in Int /\ SumOf(g, W) \in Int
  BY <1>2, <1>6, SumInt DEF Bad
<1> DEFINE a == SumOf(f, W)
           b == SumOf(g, W)
<1>9. f[c] \in Int /\ g[c] \in Int /\ h[c] = f[c] + g[c] /\ a \in Int /\ b \in Int
  BY <1>3, <1>5, <1>8
<1>10. f[c] + a + (g[c] + b) # h[c] + (a + b) \/ FALSE
  BY <1>3, <1>7, <1>8
<1> HIDE DEF a, b
<1> QED
  BY <1>9, <1>10

\* A sum whose terms are nothing outside a set is at most the greatest of the others times
\* as many as these.
LEMMA SumWithin ==
  ASSUME NEW f, NEW S, IsFiniteSet(S), NEW T, T \subseteq S, NEW k \in Nat,
         \A x \in S : f[x] \in Int /\ f[x] <= IF x \in T THEN k ELSE 0
  PROVE  SumOf(f, S) <= k * Cardinality(T)
<1> DEFINE Bad == {U \in SUBSET S : ~ (SumOf(f, U) <= k * Cardinality(T \cap U))}
<1> SUFFICES ASSUME Bad # {} PROVE FALSE
  <2>1. T \cap S = T
    OBVIOUS
  <2> QED
    BY <2>1
<1>1. Bad \in SUBSET SUBSET S
  OBVIOUS
<1> HIDE DEF Bad
<1>2. PICK U \in Bad : \A W \in Bad : W \subseteq U => W = U
  BY <1>1, LeastSubset
<1>3. U \in SUBSET S /\ ~ (SumOf(f, U) <= k * Cardinality(T \cap U)) /\ IsFiniteSet(U) /\ IsFiniteSet(T \cap U)
  BY <1>2, FS_Subset DEF Bad
<1>4. U # {}
  <2> SUFFICES ASSUME U = {} PROVE FALSE
    OBVIOUS
  <2>1. SumOf(f, U) = 0 /\ Cardinality(T \cap U) = 0
    BY SumEmpty, FS_EmptySet
  <2>2. k * Cardinality(T \cap U) = 0
    BY <2>1
  <2> QED
    BY <1>3, <2>1, <2>2
<1> DEFINE c == Chosen(U)
           W == U \ {c}
<1>5. c \in U
  BY <1>4, ChosenIn
<1>6. W \in SUBSET S /\ W \subseteq U /\ W # U /\ IsFiniteSet(W) /\ IsFiniteSet(T \cap W)
  BY <1>3, <1>5, FS_Subset
<1>7. SumOf(f, U) = f[c] + SumOf(f, W)
  BY <1>3, <1>4, SumFirst
<1>8. f[c] \in Int /\ f[c] <= IF c \in T THEN k ELSE 0
  BY <1>3, <1>5
<1>9. \A x \in W : f[x] \in Int
  BY <1>6
<1>10. Cardinality(T \cap W) = IF c \in T THEN Cardinality(T \cap U) - 1 ELSE Cardinality(T \cap U)
  <2>1. CASE c \in T
    <3> DEFINE X == T \cap U
    <3>1. X \ {c} = T \cap W /\ c \in X /\ IsFiniteSet(X)
      BY <2>1, <1>3, <1>5
    <3> HIDE DEF X, W
    <3>2. Cardinality(X \ {c}) = Cardinality(X) - 1
      BY <3>1, FS_RemoveElement
    <3> QED
      BY <3>1, <3>2, <2>1 DEF X
  <2>2. CASE c \notin T
    <3>1. T \cap U = T \cap W
      BY <2>2
    <3> QED
      BY <3>1, <2>2
  <2> QED
    BY <2>1, <2>2
<1> DEFINE n == Cardinality(T \cap U)
           m == Cardinality(T \cap W)
<1> HIDE DEF c, W
<1>11. SumOf(f, W) <= k * m /\ SumOf(f, W) \in Int /\ n \in Nat /\ m \in Nat
  BY <1>2, <1>3, <1>6, <1>9, SumInt, FS_CardinalityType DEF Bad
<1> DEFINE a == SumOf(f, W)
<1> HIDE DEF a, n, m
<1>12. a <= k * m /\ a \in Int /\ n \in Nat /\ m \in Nat /\ (m = IF c \in T THEN n - 1 ELSE n) /\ ~ (f[c] + a <= k * n)
  BY <1>3, <1>7, <1>10, <1>11 DEF a, n, m
<1>13. CASE c \in T
  <2>1. k * (n - 1) = k * n - k /\ k * n \in Int /\ f[c] <= k
    BY <1>8, <1>12, <1>13
  <2> DEFINE y == k * n
  <2>2. y \in Int /\ a <= y - k /\ ~ (f[c] + a <= y)
    BY <2>1, <1>12, <1>13
  <2> HIDE DEF y
  <2> QED
    BY <2>1, <2>2, <1>8, <1>12
<1>14. CASE c \notin T
  <2> DEFINE y == k * n
  <2>1. y \in Int /\ a <= y /\ ~ (f[c] + a <= y) /\ f[c] <= 0
    BY <1>8, <1>12, <1>14
  <2> HIDE DEF y
  <2> QED
    BY <2>1, <1>8, <1>12
<1> QED
  BY <1>13, <1>14

\* Terms raised by a number at most raise their sum by it as many times as there are terms.
LEMMA SumRaised ==
  ASSUME NEW f, NEW g, NEW S, IsFiniteSet(S), NEW k \in Nat,
         \A x \in S : f[x] \in Int /\ g[x] \in Int /\ g[x] <= f[x] + k
  PROVE  SumOf(g, S) <= SumOf(f, S) + k * Cardinality(S)
<1> DEFINE d == [x \in S |-> g[x] - f[x]]
<1>1. \A x \in S : d[x] \in Int /\ d[x] <= k /\ g[x] = f[x] + d[x] /\ f[x] \in Int
  OBVIOUS
<1> HIDE DEF d
<1>2. SumOf(g, S) = SumOf(f, S) + SumOf(d, S)
  BY <1>1, SumPlus
<1>3. \A x \in S : d[x] \in Int /\ d[x] <= IF x \in S THEN k ELSE 0
  BY <1>1
<1>4. SumOf(d, S) <= k * Cardinality(S)
  BY <1>3, SumWithin
<1>5. SumOf(f, S) \in Int /\ SumOf(d, S) \in Int /\ Cardinality(S) \in Nat
  BY <1>1, SumInt, FS_CardinalityType
<1> DEFINE m == k * Cardinality(S)
<1>6. m \in Int
  BY <1>5
<1> HIDE DEF m
<1> QED
  BY <1>2, <1>4, <1>5, <1>6 DEF m

-----------------------------------------------------------------------------

\* The sum of the costs of some rows, as the models write it, and its function.
CostsOf(rows, S) == MapThenSumSet(LAMBDA x : rows[x].cost, S)

CostsAre(rows, S, g) == g = [s \in SUBSET S |-> IF s = {} THEN 0 ELSE rows[Chosen(s)].cost + g[s \ {Chosen(s)}]]

\* The cents of some rows are the sum of their costs.
LEMMA CostsAreSums ==
  ASSUME NEW rows, NEW S, IsFiniteSet(S), NEW f, \A x \in S : f[x] = rows[x].cost
  PROVE  CostsOf(rows, S) = SumOf(f, S)
<1>1. CostsOf(rows, S) = (CHOOSE g : CostsAre(rows, S, g))[S]
  BY DEF CostsOf, MapThenSumSet, MapThenFoldSet, CostsAre, Chosen
<1>2. ASSUME NEW g PROVE CostsAre(rows, S, g) <=> SumIs(f, S, g)
  <2> DEFINE here(s) == IF s = {} THEN 0 ELSE f[Chosen(s)] + g[s \ {Chosen(s)}]
             there(s) == IF s = {} THEN 0 ELSE rows[Chosen(s)].cost + g[s \ {Chosen(s)}]
  <2>1. ASSUME NEW s \in SUBSET S PROVE here(s) = there(s)
    BY ChosenIn
  <2> HIDE DEF here, there
  <2>2. [s \in SUBSET S |-> here(s)] = [s \in SUBSET S |-> there(s)]
    BY <2>1
  <2> QED
    BY <2>2 DEF CostsAre, SumIs, here, there
<1>3. \E g : SumIs(f, S, g)
  BY SumExists
<1> DEFINE a == CHOOSE g : SumIs(f, S, g)
           b == CHOOSE g : CostsAre(rows, S, g)
<1>4. SumIs(f, S, a) /\ SumIs(f, S, b)
  BY <1>2, <1>3
<1>5. SumOf(f, S) = a[S] /\ CostsOf(rows, S) = b[S]
  BY <1>1, SumUnfolds
<1> HIDE DEF a, b
<1> QED
  BY <1>4, <1>5, SumUnique

-----------------------------------------------------------------------------
(* Sums by groups *)

\* A sum may be taken in two parts.
LEMMA SumSplit ==
  ASSUME NEW f, NEW S, IsFiniteSet(S), \A x \in S : f[x] \in Int, NEW T, T \subseteq S
  PROVE  SumOf(f, S) = SumOf(f, T) + SumOf(f, S \ T)
<1> DEFINE a == [x \in S |-> IF x \in T THEN f[x] ELSE 0]
           b == [x \in S |-> IF x \in T THEN 0 ELSE f[x]]
<1>1. \A x \in S : /\ a[x] \in Int /\ b[x] \in Int /\ f[x] = a[x] + b[x] /\ f[x] \in Int
                   /\ a[x] = (IF x \in T THEN f[x] ELSE 0) /\ b[x] = (IF x \in T THEN 0 ELSE f[x])
  OBVIOUS
<1> HIDE DEF a, b
<1>2. SumOf(f, S) = SumOf(a, S) + SumOf(b, S)
  BY <1>1, SumPlus
<1>3. SumOf(a, S) = SumOf(f, T)
  BY <1>1, SumRestrict
<1>4. SumOf(b, S) = SumOf(f, S \ T)
  <2>1. S \ T \subseteq S /\ \A x \in S \ (S \ T) : b[x] = 0
    BY <1>1
  <2> QED
    BY <1>1, <2>1, SumRestrict
<1> QED
  BY <1>2, <1>3, <1>4

\* Those of S that g puts in group k.
Group(S, g, k) == {x \in S : g[x] = k}

\* Or group by group: h is the sum of each group, g says which group is whose.
LEMMA SumGroups ==
  ASSUME NEW f, NEW S, IsFiniteSet(S), \A x \in S : f[x] \in Int,
         NEW K, IsFiniteSet(K), NEW g, \A x \in S : g[x] \in K,
         NEW h, \A k \in K : h[k] = SumOf(f, Group(S, g, k))
  PROVE  SumOf(h, K) = SumOf(f, S)
<1> DEFINE In(V) == {x \in S : g[x] \in V}
           Bad == {V \in SUBSET K : SumOf(h, V) # SumOf(f, In(V))}
<1> SUFFICES ASSUME Bad # {} PROVE FALSE
  <2>1. In(K) = S
    OBVIOUS
  <2> QED
    BY <2>1
<1>1. Bad \in SUBSET SUBSET K
  OBVIOUS
<1> HIDE DEF Bad
<1>2. PICK V \in Bad : \A W \in Bad : W \subseteq V => W = V
  BY <1>1, LeastSubset
<1>3. V \subseteq K /\ IsFiniteSet(V) /\ SumOf(h, V) # SumOf(f, In(V))
  BY <1>2, FS_Subset DEF Bad
<1>4. V # {}
  <2>1. In({}) = {}
    OBVIOUS
  <2> HIDE DEF In
  <2> QED
    BY <1>3, <2>1, SumEmpty
<1> DEFINE c == Chosen(V)
           W == V \ {c}
<1>5. c \in V /\ W \subseteq V /\ W # V /\ W \subseteq K
  BY <1>3, <1>4, ChosenIn
<1>6. SumOf(h, V) = h[c] + SumOf(h, W)
  BY <1>3, <1>4, SumFirst
<1>7. SumOf(h, W) = SumOf(f, In(W))
  BY <1>2, <1>5 DEF Bad
<1>8. h[c] = SumOf(f, In({c}))
  <2>1. In({c}) = Group(S, g, c)
    BY DEF Group
  <2> HIDE DEF In, c
  <2> QED
    BY <1>3, <1>5, <2>1
<1>9. SumOf(f, In(V)) = SumOf(f, In({c})) + SumOf(f, In(W))
  <2>1. In({c}) \subseteq In(V) /\ In(V) \ In({c}) = In(W) /\ In(V) \subseteq S
    BY <1>5
  <2>2. IsFiniteSet(In(V)) /\ \A x \in In(V) : f[x] \in Int
    BY <2>1, FS_Subset
  <2> DEFINE A == In(V)
             B == In({c})
  <2> HIDE DEF A, B
  <2>3. IsFiniteSet(A) /\ (\A x \in A : f[x] \in Int) /\ B \subseteq A
    BY <2>1, <2>2 DEF A, B
  <2>4. SumOf(f, A) = SumOf(f, B) + SumOf(f, A \ B)
    BY <2>3, SumSplit
  <2> HIDE DEF In
  <2> QED
    BY <2>1, <2>4 DEF A, B
<1> HIDE DEF In, c, W
<1> QED
  BY <1>3, <1>6, <1>7, <1>8, <1>9

\* The elements of a set are the sum of a one for each.
LEMMA SumOnes ==
  ASSUME NEW f, NEW S, IsFiniteSet(S), \A x \in S : f[x] = 1
  PROVE  SumOf(f, S) = Cardinality(S)
<1> DEFINE Bad == {V \in SUBSET S : SumOf(f, V) # Cardinality(V)}
<1> SUFFICES ASSUME Bad # {} PROVE FALSE
  OBVIOUS
<1>1. Bad \in SUBSET SUBSET S
  OBVIOUS
<1>2. PICK V \in Bad : \A W \in Bad : W \subseteq V => W = V
  <2> HIDE DEF Bad
  <2> QED
    BY <1>1, LeastSubset
<1>3. V \subseteq S /\ IsFiniteSet(V) /\ SumOf(f, V) # Cardinality(V)
  BY <1>2, FS_Subset
<1>4. V # {}
  BY <1>3, SumEmpty, FS_EmptySet
<1> DEFINE c == Chosen(V)
           W == V \ {c}
<1>5. c \in V /\ W \subseteq V /\ W # V /\ W \subseteq S
  BY <1>3, <1>4, ChosenIn
<1>6. SumOf(f, V) = 1 + SumOf(f, W)
  BY <1>3, <1>4, <1>5, SumFirst
<1>7. SumOf(f, W) = Cardinality(W)
  BY <1>2, <1>5
<1>8. Cardinality(W) = Cardinality(V) - 1 /\ Cardinality(V) \in Nat
  BY <1>3, <1>5, FS_RemoveElement, FS_CardinalityType
<1> HIDE DEF Bad, c, W
<1> QED
  BY <1>3, <1>6, <1>7, <1>8

-----------------------------------------------------------------------------
(* Lists *)

\* An order of S in which any two can be told apart.
Orders(S, R) ==
  /\ \A x \in S : <<x, x>> \notin R
  /\ \A x, y, z \in S : <<x, y>> \in R /\ <<y, z>> \in R => <<x, z>> \in R
  /\ \A x, y \in S : x = y \/ <<x, y>> \in R \/ <<y, x>> \in R

\* How many come before each.
Rank(S, R) == [x \in S |-> Cardinality({y \in S : <<y, x>> \in R})]

\* They are all different, and every one is that of some element.
LEMMA Ranks ==
  ASSUME NEW S, IsFiniteSet(S), NEW R, Orders(S, R)
  PROVE  LET rank == Rank(S, R)
         IN /\ Cardinality(S) \in Nat
            /\ \A x \in S : rank[x] \in 0..(Cardinality(S) - 1)
            /\ \A x, y \in S : <<x, y>> \in R => rank[x] < rank[y]
            /\ \A k \in 1..Cardinality(S) : \E x \in S : rank[x] = k - 1
<1> DEFINE Before(x) == {y \in S : <<y, x>> \in R}
           rank == Rank(S, R)
           n == Cardinality(S)
<1>1. n \in Nat
  BY FS_CardinalityType
<1>2. \A x \in S : rank[x] = Cardinality(Before(x))
  BY DEF Rank
<1>3. ASSUME NEW x \in S PROVE IsFiniteSet(Before(x)) /\ rank[x] \in 0..(n - 1)
  <2> DEFINE T == S \ {x}
  <2>1. IsFiniteSet(T) /\ Cardinality(T) = n - 1
    BY FS_RemoveElement
  <2>2. Before(x) \in SUBSET T
    BY DEF Orders
  <2> HIDE DEF T, Before, n
  <2>3. IsFiniteSet(Before(x)) /\ Cardinality(Before(x)) <= Cardinality(T)
    BY <2>1, <2>2, FS_Subset
  <2>4. Cardinality(Before(x)) \in Nat
    BY <2>3, FS_CardinalityType
  <2>5. rank[x] = Cardinality(Before(x))
    BY <1>2
  <2> HIDE DEF rank
  <2> QED
    BY <1>1, <2>1, <2>3, <2>4, <2>5
<1>4. ASSUME NEW x \in S, NEW y \in S, <<x, y>> \in R PROVE rank[x] < rank[y]
  <2>1. Before(x) \in SUBSET Before(y) /\ x \in Before(y) /\ x \notin Before(x)
    BY <1>4 DEF Orders
  <2> HIDE DEF Before
  <2>2. IsFiniteSet(Before(y)) /\ Before(x) # Before(y)
    BY <1>3, <2>1
  <2>3. Cardinality(Before(x)) <= Cardinality(Before(y)) /\ Cardinality(Before(x)) # Cardinality(Before(y))
    BY <2>1, <2>2, FS_Subset
  <2>4. rank[x] = Cardinality(Before(x)) /\ rank[y] = Cardinality(Before(y))
    BY <1>2
  <2>5. rank[x] \in Int /\ rank[y] \in Int
    BY <1>1, <1>3
  <2> HIDE DEF rank
  <2> QED
    BY <2>3, <2>4, <2>5
<1>5. \A k \in 1..n : \E x \in S : rank[x] = k - 1
  <2> DEFINE next == [x \in S |-> rank[x] + 1]
  <2> HIDE DEF rank
  <2>1. ASSUME NEW x \in S PROVE rank[x] \in Int /\ next[x] = rank[x] + 1 /\ next[x] \in 1..n
    <3>1. next[x] = rank[x] + 1
      OBVIOUS
    <3>2. rank[x] \in 0..(n - 1)
      BY <1>3
    <3> HIDE DEF n, next
    <3> QED
      BY <1>1, <3>1, <3>2
  <2>2. next \in [S -> 1..n]
    BY <2>1
  <2>3. \A x, y \in S : next[x] = next[y] => x = y
    <3> SUFFICES ASSUME NEW x \in S, NEW y \in S, x # y PROVE next[x] # next[y]
      OBVIOUS
    <3>1. rank[x] < rank[y] \/ rank[y] < rank[x]
      BY <1>4 DEF Orders
    <3> HIDE DEF next
    <3> QED
      BY <2>1, <3>1
  <2>4. next \in Injection(S, 1..n)
    <3>1. DOMAIN next = S
      OBVIOUS
    <3> HIDE DEF next
    <3> QED
      BY <2>2, <2>3, <3>1 DEF Injection, IsInjective
  <2>5. IsFiniteSet(1..n) /\ Cardinality(1..n) = n
    BY <1>1, FS_Interval
  <2> HIDE DEF next
  <2>6. next \in Surjection(S, 1..n)
    BY <2>4, <2>5, FS_Injection
  <2>7. \A k \in 1..n : \E x \in S : next[x] = k
    BY <2>6 DEF Surjection
  <2> SUFFICES ASSUME NEW k \in 1..n PROVE \E x \in S : rank[x] = k - 1
    OBVIOUS
  <2>8. PICK x \in S : next[x] = k
    BY <2>7
  <2> HIDE DEF n
  <2>9. rank[x] = k - 1
    BY <1>1, <2>1, <2>8
  <2> QED
    BY <2>9
<1> QED
  BY <1>1, <1>3, <1>4, <1>5

\* A list in order has each element once, and in that order.
LEMMA ListedInOrder ==
  ASSUME NEW S, IsFiniteSet(S), NEW R, Orders(S, R)
  PROVE  LET list == Listed(S, R)
             n == Cardinality(S)
         IN /\ n \in Nat /\ list \in [1..n -> S]
            /\ \A x \in S : \E k \in 1..n : list[k] = x
            /\ \A j, k \in 1..n : j < k => <<list[j], list[k]>> \in R
            /\ \A j, k \in 1..n : list[j] = list[k] => j = k
<1> DEFINE rank == Rank(S, R)
           list == Listed(S, R)
           n == Cardinality(S)
<1>1. /\ n \in Nat /\ \A x \in S : rank[x] \in 0..(n - 1)
      /\ \A x, y \in S : <<x, y>> \in R => rank[x] < rank[y]
      /\ \A k \in 1..n : \E x \in S : rank[x] = k - 1
  BY Ranks
<1>2. list = [k \in 1..n |-> CHOOSE x \in S : rank[x] = k - 1]
  <2>1. \A x \in S : rank[x] = Cardinality({y \in S : <<y, x>> \in R})
    BY DEF Rank
  <2> QED
    BY <2>1 DEF Listed
<1> HIDE DEF rank, list, n
<1>3. ASSUME NEW x \in S, NEW y \in S PROVE rank[x] \in Int /\ (rank[x] = rank[y] => x = y)
  <2>1. x = y \/ <<x, y>> \in R \/ <<y, x>> \in R
    BY DEF Orders
  <2>2. rank[x] \in Int /\ rank[y] \in Int
    BY <1>1
  <2>3. (<<x, y>> \in R => rank[x] < rank[y]) /\ (<<y, x>> \in R => rank[y] < rank[x])
    BY <1>1
  <2> QED
    BY <2>1, <2>2, <2>3
<1>4. \A k \in 1..n : list[k] \in S /\ rank[list[k]] = k - 1
  <2> SUFFICES ASSUME NEW k \in 1..n PROVE list[k] \in S /\ rank[list[k]] = k - 1
    OBVIOUS
  <2>1. \E x \in S : rank[x] = k - 1
    BY <1>1
  <2>2. list[k] = CHOOSE x \in S : rank[x] = k - 1
    BY <1>2
  <2> QED
    BY <2>1, <2>2
<1>5. list \in [1..n -> S]
  BY <1>2, <1>4
<1>6. \A x \in S : \E k \in 1..n : list[k] = x
  <2> SUFFICES ASSUME NEW x \in S PROVE \E k \in 1..n : list[k] = x
    OBVIOUS
  <2>1. rank[x] + 1 \in 1..n /\ (rank[x] + 1) - 1 = rank[x]
    BY <1>1
  <2>2. list[rank[x] + 1] \in S /\ rank[list[rank[x] + 1]] = rank[x]
    BY <1>4, <2>1
  <2> QED
    BY <1>3, <2>1, <2>2
<1>7. \A j, k \in 1..n : j < k => <<list[j], list[k]>> \in R
  <2> SUFFICES ASSUME NEW j \in 1..n, NEW k \in 1..n, j < k PROVE <<list[j], list[k]>> \in R
    OBVIOUS
  <2>1. list[j] \in S /\ list[k] \in S /\ rank[list[j]] = j - 1 /\ rank[list[k]] = k - 1
    BY <1>4
  <2>2. rank[list[j]] < rank[list[k]]
    BY <2>1
  <2>3. list[j] # list[k] /\ <<list[k], list[j]>> \notin R
    BY <1>1, <1>3, <2>1, <2>2
  <2> QED
    BY <2>1, <2>3 DEF Orders
<1>8. \A j, k \in 1..n : list[j] = list[k] => j = k
  <2> SUFFICES ASSUME NEW j \in 1..n, NEW k \in 1..n, list[j] = list[k] PROVE j = k
    OBVIOUS
  <2>1. rank[list[j]] = j - 1 /\ rank[list[k]] = k - 1
    BY <1>4
  <2> QED
    BY <2>1
<1> QED
  BY <1>1, <1>5, <1>6, <1>7, <1>8 DEF list, n

\* Numbers in ascending order.
LEMMA AscendingOrder ==
  ASSUME NEW S, IsFiniteSet(S), S \subseteq Int
  PROVE  LET e == Ascending(S)
             n == Cardinality(S)
         IN /\ n \in Nat /\ e \in [1..n -> S]
            /\ \A i \in S : \E k \in 1..n : e[k] = i
            /\ \A j, k \in 1..n : j < k => e[j] < e[k]
            /\ \A j, k \in 1..n : e[j] = e[k] => j = k
<1> DEFINE R == {p \in S \X S : p[1] < p[2]}
           e == Listed(S, R)
           n == Cardinality(S)
<1>1. \A x, y \in S : <<x, y>> \in R <=> x < y
  OBVIOUS
<1>2. Ascending(S) = e
  BY DEF Ascending
<1> HIDE DEF R
<1>3. Orders(S, R)
  BY <1>1 DEF Orders
<1> HIDE DEF e, n
<1>4. /\ n \in Nat /\ e \in [1..n -> S]
      /\ \A x \in S : \E k \in 1..n : e[k] = x
      /\ \A j, k \in 1..n : j < k => <<e[j], e[k]>> \in R
      /\ \A j, k \in 1..n : e[j] = e[k] => j = k
  BY <1>3, ListedInOrder DEF e, n
<1>5. \A j, k \in 1..n : j < k => e[j] < e[k]
  BY <1>1, <1>4
<1> QED
  BY <1>2, <1>4, <1>5 DEF n

\* The elements of K, each once.
Roll(list, K) ==
  /\ list \in Seq(K)
  /\ \A x \in K : \E i \in DOMAIN list : list[i] = x
  /\ \A i, j \in DOMAIN list : list[i] = list[j] => i = j

\* A roll shows its set, and is as long.
LEMMA RollShows ==
  ASSUME NEW list, NEW K, Roll(list, K)
  PROVE  ToSet(list) = K /\ Len(list) = Cardinality(K)
<1> DEFINE n == Len(list)
<1>1. n \in Nat /\ DOMAIN list = 1..n /\ list \in [1..n -> K]
  BY DEF Roll
<1>2. list \in Bijection(1..n, K)
  <2>1. list \in Injection(1..n, K)
    BY <1>1 DEF Roll, Injection, IsInjective
  <2>2. list \in Surjection(1..n, K)
    BY <1>1 DEF Roll, Surjection
  <2> QED
    BY <2>1, <2>2 DEF Bijection
<1>3. IsFiniteSet(1..n) /\ Cardinality(1..n) = n
  BY <1>1, FS_Interval
<1>4. Cardinality(K) = n
  BY <1>2, <1>3, FS_Bijection DEF ExistsBijection
<1>5. ToSet(list) = K
  BY <1>1 DEF Roll, ToSet
<1> QED
  BY <1>4, <1>5

\* What is listed in an order is one.
LEMMA ListedRoll ==
  ASSUME NEW S, IsFiniteSet(S), NEW R, Orders(S, R)
  PROVE  Roll(Listed(S, R), S)
<1> DEFINE list == Listed(S, R)
           n == Cardinality(S)
<1> HIDE DEF list, n
<1>1. /\ n \in Nat /\ list \in [1..n -> S]
      /\ \A x \in S : \E k \in 1..n : list[k] = x
      /\ \A j, k \in 1..n : list[j] = list[k] => j = k
  BY ListedInOrder DEF list, n
<1>2. DOMAIN list = 1..n /\ list \in Seq(S)
  BY <1>1
<1> QED
  BY <1>1, <1>2 DEF Roll, list

\* Put in another order, it stays one.
LEMMA ReorderedRoll ==
  ASSUME NEW list, NEW K, Roll(list, K), NEW R, Orders(DOMAIN list, R)
  PROVE  Roll([k \in DOMAIN list |-> list[Listed(DOMAIN list, R)[k]]], K)
<1> DEFINE D == DOMAIN list
           e == Listed(D, R)
           n == Len(list)
           new == [k \in D |-> list[e[k]]]
<1>1. n \in Nat /\ D = 1..n /\ list \in [D -> K]
  BY DEF Roll
<1>2. IsFiniteSet(D) /\ Cardinality(D) = n
  BY <1>1, FS_Interval
<1>3. \A k \in D : new[k] = list[e[k]]
  OBVIOUS
<1>4. DOMAIN new = D
  OBVIOUS
<1>5. new \in Seq(K) /\ e \in [D -> D]
  <2> HIDE DEF e, D, n
  <2>1. e \in [1..n -> D]
    BY <1>2, ListedInOrder DEF e, D
  <2>2. new \in [1..n -> K]
    BY <1>1, <2>1
  <2> HIDE DEF new
  <2> QED
    BY <1>1, <2>1, <2>2
<1> HIDE DEF e, D, n, new
<1>6. /\ \A x \in D : \E k \in D : e[k] = x
      /\ \A j, k \in D : e[j] = e[k] => j = k
  <2>1. Orders(D, R)
    BY DEF D
  <2>2. /\ \A x \in D : \E k \in 1..Cardinality(D) : e[k] = x
        /\ \A j, k \in 1..Cardinality(D) : e[j] = e[k] => j = k
    BY <1>2, <2>1, ListedInOrder DEF e
  <2> QED
    BY <1>1, <1>2, <2>2
<1>7. \A x \in K : \E i \in D : list[i] = x
  BY DEF Roll, D
<1>8. \A i, j \in D : list[i] = list[j] => i = j
  BY DEF Roll, D
<1>9. \A x \in K : \E k \in D : new[k] = x
  <2> SUFFICES ASSUME NEW x \in K PROVE \E k \in D : new[k] = x
    OBVIOUS
  <2>1. PICK i \in D : list[i] = x
    BY <1>7
  <2>2. PICK k \in D : e[k] = i
    BY <1>6
  <2> QED
    BY <1>3, <2>1, <2>2
<1>10. \A j, k \in D : new[j] = new[k] => j = k
  BY <1>3, <1>5, <1>6, <1>8
<1> QED
  BY <1>4, <1>5, <1>9, <1>10 DEF Roll, new, e, D

\* Kept in part, one of what is kept.
LEMMA ThoseRoll ==
  ASSUME NEW list, NEW K, Roll(list, K), NEW T
  PROVE  Roll(Those(list, T), K \cap T)
<1> DEFINE S == {i \in DOMAIN list : list[i] \in T}
           n == Cardinality(S)
           e == Ascending(S)
           some == Picked(list, S)
<1>1. IsFiniteSet(S) /\ S \subseteq Int /\ S \subseteq DOMAIN list
  <2>1. Len(list) \in Nat /\ DOMAIN list = 1..Len(list)
    BY DEF Roll
  <2>2. IsFiniteSet(DOMAIN list) /\ DOMAIN list \subseteq Int
    BY <2>1, FS_Interval
  <2> QED
    BY <2>2, FS_Subset
<1>2. Those(list, T) = some
  BY DEF Those
<1>3. \A i \in DOMAIN list : i \in S <=> list[i] \in T
  OBVIOUS
<1>4. DOMAIN some = 1..n /\ \A k \in 1..n : some[k] = list[e[k]]
  BY DEF Picked
<1> HIDE DEF S, n, some, e
<1>5. /\ n \in Nat /\ e \in [1..n -> S]
      /\ \A i \in S : \E k \in 1..n : e[k] = i
      /\ \A j, k \in 1..n : e[j] = e[k] => j = k
  BY <1>1, AscendingOrder DEF n, e
<1>6. \A i \in DOMAIN list : list[i] \in K
  BY DEF Roll
<1>7. \A k \in 1..n : some[k] \in K \cap T
  BY <1>1, <1>3, <1>4, <1>5, <1>6
<1>8. some \in Seq(K \cap T)
  <2>1. some = [k \in 1..n |-> list[e[k]]]
    BY <1>4 DEF some, Picked, n, e
  <2>2. some \in [1..n -> K \cap T]
    BY <1>7, <2>1
  <2> QED
    BY <1>5, <2>2
<1>9. \A x \in K \cap T : \E k \in 1..n : some[k] = x
  <2> SUFFICES ASSUME NEW x \in K \cap T PROVE \E k \in 1..n : some[k] = x
    OBVIOUS
  <2>1. PICK i \in DOMAIN list : list[i] = x
    BY DEF Roll
  <2>2. PICK k \in 1..n : e[k] = i
    BY <1>3, <1>5, <2>1
  <2> QED
    BY <1>4, <1>5, <2>1, <2>2
<1>10. \A j, k \in 1..n : some[j] = some[k] => j = k
  <2> SUFFICES ASSUME NEW j \in 1..n, NEW k \in 1..n, some[j] = some[k] PROVE j = k
    OBVIOUS
  <2>1. list[e[j]] = list[e[k]] /\ e[j] \in DOMAIN list /\ e[k] \in DOMAIN list
    BY <1>1, <1>4, <1>5
  <2>2. e[j] = e[k]
    BY <2>1 DEF Roll
  <2> QED
    BY <1>5, <2>2
<1> QED
  BY <1>2, <1>4, <1>8, <1>9, <1>10 DEF Roll

\* Two that share nothing make one of both.
LEMMA JoinedRolls ==
  ASSUME NEW a, NEW A, Roll(a, A), NEW b, NEW B, Roll(b, B), A \cap B = {}
  PROVE  /\ Roll(a \o b, A \union B)
         /\ \A i \in DOMAIN (a \o b) : (i <= Len(a) => (a \o b)[i] \in A) /\ (i > Len(a) => (a \o b)[i] \in B)
<1> DEFINE c == a \o b
           m == Len(a)
           n == Len(b)
<1>1. /\ a \in Seq(A \union B) /\ b \in Seq(A \union B)
      /\ m \in Nat /\ n \in Nat /\ DOMAIN a = 1..m /\ DOMAIN b = 1..n
      /\ (\A i \in 1..m : a[i] \in A) /\ \A i \in 1..n : b[i] \in B
  BY DEF Roll
<1>2. /\ c \in Seq(A \union B) /\ DOMAIN c = 1..(m + n)
      /\ \A i \in 1..(m + n) : c[i] = IF i <= m THEN a[i] ELSE b[i - m]
  BY <1>1
<1> HIDE DEF c, m, n
<1>3. \A i \in 1..(m + n) : /\ i <= m => c[i] \in A /\ c[i] = a[i] /\ i \in 1..m
                            /\ i > m => c[i] \in B /\ c[i] = b[i - m] /\ i - m \in 1..n
  BY <1>1, <1>2
<1>4. \A x \in A \union B : \E i \in 1..(m + n) : c[i] = x
  <2> SUFFICES ASSUME NEW x \in A \union B PROVE \E i \in 1..(m + n) : c[i] = x
    OBVIOUS
  <2>1. CASE x \in A
    <3>1. PICK i \in 1..m : a[i] = x
      BY <1>1, <2>1 DEF Roll
    <3> QED
      BY <1>1, <1>2, <3>1
  <2>2. CASE x \in B
    <3>1. PICK i \in 1..n : b[i] = x
      BY <1>1, <2>2 DEF Roll
    <3>2. i + m \in 1..(m + n) /\ ~ (i + m <= m) /\ (i + m) - m = i
      BY <1>1
    <3> QED
      BY <1>2, <3>1, <3>2
  <2> QED
    BY <2>1, <2>2
<1>5. \A i, j \in 1..(m + n) : c[i] = c[j] => i = j
  <2> SUFFICES ASSUME NEW i \in 1..(m + n), NEW j \in 1..(m + n), c[i] = c[j] PROVE i = j
    OBVIOUS
  <2>1. (i <= m <=> j <= m) /\ i \in Int /\ j \in Int
    BY <1>1, <1>3
  <2>2. CASE i <= m
    <3>1. a[i] = a[j] /\ i \in DOMAIN a /\ j \in DOMAIN a
      BY <1>1, <1>3, <2>1, <2>2
    <3> QED
      BY <3>1 DEF Roll
  <2>3. CASE i > m
    <3>1. b[i - m] = b[j - m] /\ i - m \in DOMAIN b /\ j - m \in DOMAIN b
      BY <1>1, <1>3, <2>1, <2>3
    <3>2. i - m = j - m
      BY <3>1 DEF Roll
    <3> QED
      BY <1>1, <2>1, <3>2
  <2> QED
    BY <1>1, <2>1, <2>2, <2>3
<1> QED
  BY <1>2, <1>3, <1>4, <1>5 DEF Roll, c, m

\* What is kept of a list comes in the order there was.
LEMMA ThoseInOrder ==
  ASSUME NEW list, NEW n \in Nat, DOMAIN list = 1..n, NEW T
  PROVE  \A j, k \in DOMAIN Those(list, T) : j < k =>
           \E h, i \in DOMAIN list : h < i /\ Those(list, T)[j] = list[h] /\ Those(list, T)[k] = list[i]
<1> DEFINE S == {i \in DOMAIN list : list[i] \in T}
           e == Ascending(S)
           m == Cardinality(S)
           some == Those(list, T)
<1>1. IsFiniteSet(S) /\ S \subseteq Int /\ S \subseteq DOMAIN list
  BY FS_Interval, FS_Subset
<1>2. DOMAIN some = 1..m /\ \A k \in 1..m : some[k] = list[e[k]]
  BY DEF Those, Picked
<1> HIDE DEF S, m, some, e
<1>3. e \in [1..m -> S] /\ \A j, k \in 1..m : j < k => e[j] < e[k]
  BY <1>1, AscendingOrder DEF m, e
<1>4. \A j, k \in 1..m : j < k => e[j] \in DOMAIN list /\ e[k] \in DOMAIN list /\ e[j] < e[k]
  BY <1>1, <1>3
<1> QED
  BY <1>2, <1>4 DEF some

\* A sum is the same by other names.
LEMMA SumRenamed ==
  ASSUME NEW f, NEW h, NEW S, IsFiniteSet(S), \A x \in S : f[x] \in Int,
         NEW T, IsFiniteSet(T), NEW g, \A x \in S : g[x] \in T /\ f[x] = h[g[x]],
         \A x, y \in S : g[x] = g[y] => x = y, \A z \in T : \E x \in S : g[x] = z
  PROVE  SumOf(f, S) = SumOf(h, T)
<1>1. \A z \in T : h[z] = SumOf(f, Group(S, g, z))
  <2> SUFFICES ASSUME NEW z \in T PROVE h[z] = SumOf(f, Group(S, g, z))
    OBVIOUS
  <2>1. PICK x \in S : g[x] = z
    OBVIOUS
  <2>2. Group(S, g, z) = {x}
    BY <2>1 DEF Group
  <2>3. SumOf(f, {x}) = f[x] + SumOf(f, {x} \ {x})
    <3>1. IsFiniteSet({x}) /\ x \in {x} /\ \A y \in {x} : f[y] \in Int
      BY FS_Singleton
    <3> DEFINE V == {x}
    <3> HIDE DEF V
    <3>2. SumOf(f, V) = f[x] + SumOf(f, V \ {x})
      BY <3>1, SumRemove DEF V
    <3> QED
      BY <3>2 DEF V
  <2>4. {x} \ {x} = {} /\ f[x] \in Int
    OBVIOUS
  <2>5. SumOf(f, {x}) = f[x] + 0
    BY <2>3, <2>4, SumEmpty
  <2> QED
    BY <2>1, <2>2, <2>4, <2>5
<1> QED
  BY <1>1, SumGroups

=============================================================================
