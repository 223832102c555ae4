------------------------------ MODULE SumLemmas ------------------------------
(***************************************************************************)
(* Facts about sums over finite sets, as MapThenSumSet of the community    *)
(* modules defines them, and induction up to a bound.  Every induction     *)
(* below is a least counterexample: a set of sets without a smallest       *)
(* member is empty.                                                        *)
(***************************************************************************)
EXTENDS Integers, FiniteSetsExt, FiniteSetTheorems, TLAPS

(* The larger of two natural numbers.                                      *)
LEMMA LargerOf ==
  ASSUME NEW a \in Nat, NEW b \in Nat
  PROVE  Max({a, b}) \in Nat /\ Max({a, b}) >= a /\ Max({a, b}) >= b
<1>1. \E x \in {a, b} : \A y \in {a, b} : x >= y
  OBVIOUS
<1>. QED
  BY <1>1 DEF Max

(* A non-empty set of subsets of a finite set has a smallest member.       *)
LEMMA SmallestSubset ==
  ASSUME NEW S, IsFiniteSet(S), NEW Bad, Bad \subseteq SUBSET S, Bad # {}
  PROVE  \E T \in Bad : \A U \in Bad : U \subseteq T => U = T
<1>. DEFINE R == StrictSubsetOrdering(S)
<1>1. IsWellFoundedOn(R, SUBSET S)
  BY FS_StrictSubsetOrderingWellFounded, FS_FiniteSubsetsOfFinite
<1>. HIDE DEF R
<1>2. \E T \in Bad : \A U \in Bad : ~(<<U, T>> \in R)
  BY <1>1, WFMin
<1>3. PICK T \in Bad : \A U \in Bad : ~(<<U, T>> \in R)
  BY <1>2
<1>4. ASSUME NEW U \in Bad, U \subseteq T PROVE U = T
  BY <1>3, <1>4 DEF R, StrictSubsetOrdering
<1>. QED
  BY <1>3, <1>4

(* Induction up to a bound, over a set.                                    *)
LEMMA UpTo ==
  ASSUME NEW N \in Nat, NEW P, 0 \in P, \A n \in 1 .. N : n - 1 \in P => n \in P
  PROVE  0 .. N \subseteq P
<1>. DEFINE Bad == {0 .. n : n \in (0 .. N) \ P}
<1>1. SUFFICES ASSUME Bad # {} PROVE FALSE
  OBVIOUS
<1>2. PICK T \in Bad : \A U \in Bad : U \subseteq T => U = T
  <2>1. IsFiniteSet(0 .. N)
    BY FS_Interval
  <2>2. Bad \subseteq SUBSET (0 .. N)
    OBVIOUS
  <2>3. PICK S, B : S = 0 .. N /\ B = Bad
    OBVIOUS
  <2>4. IsFiniteSet(S) /\ B \subseteq SUBSET S /\ B # {}
    BY <1>1, <2>1, <2>2, <2>3, Zenon
  <2>5. \E T \in B : \A U \in B : U \subseteq T => U = T
    BY <2>4, SmallestSubset
  <2>. QED
    BY <2>3, <2>5, Zenon
<1>3. PICK m \in (0 .. N) \ P : T = 0 .. m
  OBVIOUS
<1>4. m \in 1 .. N /\ m - 1 \in (0 .. N) \ P
  OBVIOUS
<1>5. 0 .. m - 1 \in Bad /\ 0 .. m - 1 \subseteq T
  BY <1>3, <1>4
<1>6. 0 .. m - 1 = 0 .. m
  BY <1>2, <1>3, <1>5
<1>7. m \in 0 .. m /\ m \notin 0 .. m - 1
  BY <1>4
<1>. QED
  BY <1>6, <1>7

-----------------------------------------------------------------------------
(* The recursion behind a sum has a solution, and one only. *)

SumOf(f, S) == MapThenSumSet(LAMBDA x : f[x], S)

Picked(s) == CHOOSE x \in s : TRUE

IsFold(f, S, iter) ==
  iter = [s \in SUBSET S |-> IF s = {} THEN 0
                             ELSE f[Picked(s)] + iter[s \ {Picked(s)}]]

(* The element a fold takes first is one of the set.                       *)
LEMMA PickedIn == \A s : s # {} => Picked(s) \in s
BY DEF Picked

(* Two folds over parts of one finite set agree on what they share.        *)
LEMMA FoldUnique ==
  ASSUME NEW f, NEW S, IsFiniteSet(S), NEW A, A \subseteq S, NEW B, B \subseteq S,
         NEW g, NEW h, IsFold(f, A, g), IsFold(f, B, h)
  PROVE  \A U \in SUBSET (A \cap B) : g[U] = h[U]
<1>. DEFINE Bad == {U \in SUBSET (A \cap B) : g[U] # h[U]}
<1>. SUFFICES ASSUME Bad # {} PROVE FALSE
  OBVIOUS
<1>1. PICK T \in Bad : \A U \in Bad : U \subseteq T => U = T
  <2>1. Bad \subseteq SUBSET S
    OBVIOUS
  <2>. HIDE DEF Bad
  <2>. QED
    BY <2>1, SmallestSubset
<1>2. T \in SUBSET A /\ T \in SUBSET B /\ g[T] # h[T]
  OBVIOUS
<1>3. T # {}
  BY <1>2 DEF IsFold
<1>. DEFINE V == T \ {Picked(T)}
<1>4. V \in SUBSET (A \cap B) /\ V \subseteq T /\ V # T
  BY <1>2, <1>3, PickedIn
<1>5. g[V] = h[V]
  BY <1>1, <1>4
<1>6. g[T] = f[Picked(T)] + g[V] /\ h[T] = f[Picked(T)] + h[V]
  BY <1>2, <1>3 DEF IsFold
<1>. QED
  BY <1>2, <1>5, <1>6

(* A fold of a set and the fold of one of its subsets agree on the subset. *)
LEMMA FoldAgree ==
  ASSUME NEW f, NEW S, IsFiniteSet(S), NEW q, q \subseteq S, NEW v, v \subseteq q,
         NEW g, NEW h, IsFold(f, q, g), IsFold(f, v, h)
  PROVE  g[v] = h[v]
<1>1. \A U \in SUBSET (q \cap v) : g[U] = h[U]
  <2>1. v \subseteq S
    OBVIOUS
  <2>. QED
    BY <2>1, FoldUnique
<1>. QED
  BY <1>1

(* The fold of the community modules is defined for every finite set.      *)
LEMMA FoldExists ==
  ASSUME NEW f, NEW S, IsFiniteSet(S)
  PROVE  \E g : IsFold(f, S, g)
<1>. DEFINE Bad == {T \in SUBSET S : ~ \E g : IsFold(f, T, g)}
<1>1. SUFFICES ASSUME Bad # {} PROVE FALSE
  OBVIOUS
<1>2. PICK T \in Bad : \A U \in Bad : U \subseteq T => U = T
  <2>1. Bad \subseteq SUBSET S
    OBVIOUS
  <2>. HIDE DEF Bad
  <2>. QED
    BY <1>1, <2>1, SmallestSubset
<1>3. T \in SUBSET S /\ ~ \E g : IsFold(f, T, g)
  OBVIOUS
<1>. DEFINE F(s) == CHOOSE g : IsFold(f, s, g)
<1>4. ASSUME NEW s \in SUBSET T, s # T PROVE IsFold(f, s, F(s))
  <2>1. s \in SUBSET S /\ s \notin Bad
    BY <1>2, <1>3, <1>4
  <2>2. \E g : IsFold(f, s, g)
    BY <2>1
  <2>. QED
    BY <2>2
<1>. HIDE DEF F, Bad
<1>. DEFINE V(s) == s \ {Picked(s)}
            G == [s \in SUBSET T |-> IF s = {} THEN 0 ELSE f[Picked(s)] + F(V(s))[V(s)]]
<1>5. ASSUME NEW s \in SUBSET T, s # {} PROVE G[V(s)] = F(V(s))[V(s)]
  <2>1. V(s) \in SUBSET T /\ V(s) # T /\ V(s) \in SUBSET V(s)
    BY <1>5, PickedIn
  <2>2. IsFold(f, V(s), F(V(s)))
    BY <1>4, <2>1
  <2>3. CASE V(s) = {}
    <3>1. F(V(s))[V(s)] = 0
      BY <2>2, <2>3 DEF IsFold
    <3>. QED
      BY <2>1, <2>3, <3>1
  <2>4. CASE V(s) # {}
    <3>. DEFINE r == V(s)
    <3>1. V(r) \in SUBSET T /\ V(r) # T /\ V(r) \in SUBSET r /\ V(r) \subseteq r /\ r \subseteq S
          /\ r \in SUBSET T /\ r # {}
      BY <1>3, <2>1, <2>4, PickedIn
    <3>2. IsFold(f, V(r), F(V(r)))
      BY <1>4, <3>1
    <3>3. F(r)[V(r)] = F(V(r))[V(r)]
      <4>1. r \in SUBSET S /\ V(r) \in SUBSET S /\ IsFold(f, r, F(r))
        BY <1>3, <2>1, <2>2, <3>1
      <4>. HIDE DEF r, V, G
      <4>. QED
        BY <3>1, <3>2, <4>1, FoldAgree
    <3>4. F(r)[r] = f[Picked(r)] + F(r)[V(r)]
      BY <2>1, <2>2, <3>1 DEF IsFold
    <3>5. G[r] = f[Picked(r)] + F(V(r))[V(r)]
      BY <3>1
    <3>. QED
      BY <3>3, <3>4, <3>5
  <2>. QED
    BY <2>3, <2>4
<1>6. IsFold(f, T, G)
  <2>1. ASSUME NEW s \in SUBSET T
        PROVE  G[s] = IF s = {} THEN 0 ELSE f[Picked(s)] + G[V(s)]
    BY <1>5
  <2>2. G = [s \in SUBSET T |-> G[s]]
    OBVIOUS
  <2>3. G = [s \in SUBSET T |-> IF s = {} THEN 0 ELSE f[Picked(s)] + G[V(s)]]
    <3>. HIDE DEF G
    <3>. QED
      BY <2>1, <2>2
  <2>. QED
    BY <2>3 DEF IsFold
<1>. QED
  BY <1>3, <1>6

(* A sum is a value of that fold.                                          *)
LEMMA SumIsFold ==
  ASSUME NEW f, NEW S, IsFiniteSet(S)
  PROVE  \E g : IsFold(f, S, g) /\ SumOf(f, S) = g[S]
<1>1. \E g : IsFold(f, S, g)
  BY FoldExists
<1>. DEFINE iter == CHOOSE g : IsFold(f, S, g)
<1>2. IsFold(f, S, iter)
  BY <1>1
<1>3. SumOf(f, S) = iter[S]
  BY DEF SumOf, MapThenSumSet, MapThenFoldSet, IsFold, Picked
<1>. QED
  BY <1>2, <1>3

(* The empty sum.                                                          *)
LEMMA SumEmpty == \A f : SumOf(f, {}) = 0
<1>. SUFFICES ASSUME NEW f PROVE SumOf(f, {}) = 0
  OBVIOUS
<1>1. IsFiniteSet({})
  BY FS_EmptySet
<1>2. PICK g : IsFold(f, {}, g) /\ SumOf(f, {}) = g[{}]
  BY <1>1, SumIsFold
<1>. QED
  BY <1>2 DEF IsFold

(* A sum with the element taken first split off.                           *)
LEMMA SumStep ==
  ASSUME NEW f, NEW S, IsFiniteSet(S), S # {}
  PROVE  SumOf(f, S) = f[Picked(S)] + SumOf(f, S \ {Picked(S)})
<1>. DEFINE V == S \ {Picked(S)}
<1>1. IsFiniteSet(V)
  BY FS_Subset
<1>2. PICK g : IsFold(f, S, g) /\ SumOf(f, S) = g[S]
  BY SumIsFold
<1>3. PICK h : IsFold(f, V, h) /\ SumOf(f, V) = h[V]
  BY <1>1, SumIsFold
<1>4. \A U \in SUBSET (S \cap V) : g[U] = h[U]
  <2>1. V \subseteq S /\ S \subseteq S
    OBVIOUS
  <2>. HIDE DEF V
  <2>. QED
    BY <1>2, <1>3, <2>1, FoldUnique
<1>5. g[V] = h[V]
  BY <1>4
<1>6. g[S] = f[Picked(S)] + g[V]
  BY <1>2 DEF IsFold
<1>. QED
  BY <1>2, <1>3, <1>5, <1>6

(* A sum of integers is an integer, of natural numbers a natural number.   *)
LEMMA SumType ==
  ASSUME NEW f, NEW S, IsFiniteSet(S), NEW K, K = Int \/ K = Nat, \A x \in S : f[x] \in K
  PROVE  SumOf(f, S) \in K
<1>. DEFINE Bad == {T \in SUBSET S : SumOf(f, T) \notin K}
<1>1. SUFFICES ASSUME Bad # {} PROVE FALSE
  OBVIOUS
<1>2. PICK T \in Bad : \A U \in Bad : U \subseteq T => U = T
  <2>1. Bad \subseteq SUBSET S
    OBVIOUS
  <2>. HIDE DEF Bad
  <2>. QED
    BY <1>1, <2>1, SmallestSubset
<1>3. T \in SUBSET S /\ SumOf(f, T) \notin K /\ IsFiniteSet(T)
  BY FS_Subset
<1>4. T # {}
  BY <1>3, SumEmpty
<1>. DEFINE V == T \ {Picked(T)}
<1>5. V \in SUBSET S /\ V \subseteq T /\ V # T /\ Picked(T) \in S
  BY <1>3, <1>4, PickedIn
<1>6. SumOf(f, V) \in K
  BY <1>2, <1>5
<1>7. SumOf(f, T) = f[Picked(T)] + SumOf(f, V)
  BY <1>3, <1>4, SumStep
<1>8. f[Picked(T)] \in K
  BY <1>5
<1>. QED
  BY <1>3, <1>6, <1>7, <1>8

(* Any element may be taken out of a sum first.                            *)
LEMMA SumRemove ==
  ASSUME NEW f, NEW S, IsFiniteSet(S), \A x \in S : f[x] \in Int, NEW e \in S
  PROVE  SumOf(f, S) = f[e] + SumOf(f, S \ {e})
<1>. DEFINE Good(T) == \A x \in T : SumOf(f, T) = f[x] + SumOf(f, T \ {x})
            Bad == {T \in SUBSET S : ~Good(T)}
<1>1. SUFFICES ASSUME Bad # {} PROVE FALSE
  OBVIOUS
<1>2. PICK T \in Bad : \A U \in Bad : U \subseteq T => U = T
  <2>1. Bad \subseteq SUBSET S
    OBVIOUS
  <2>. HIDE DEF Bad
  <2>. QED
    BY <1>1, <2>1, SmallestSubset
<1>3. T \in SUBSET S /\ IsFiniteSet(T)
  BY FS_Subset
<1>4. PICK x \in T : SumOf(f, T) # f[x] + SumOf(f, T \ {x})
  OBVIOUS
<1>. DEFINE p == Picked(T)
<1>5. p \in T /\ SumOf(f, T) = f[p] + SumOf(f, T \ {p})
  BY <1>3, <1>4, PickedIn, SumStep
<1>6. p # x
  BY <1>4, <1>5
<1>. HIDE DEF p
<1>7. Good(T \ {p}) /\ Good(T \ {x})
  BY <1>2, <1>3, <1>4, <1>5
<1>. DEFINE V == T \ {p, x}
<1>8. (T \ {p}) \ {x} = V /\ (T \ {x}) \ {p} = V
  OBVIOUS
<1>9. /\ SumOf(f, T \ {p}) = f[x] + SumOf(f, V)
      /\ SumOf(f, T \ {x}) = f[p] + SumOf(f, V)
  BY <1>4, <1>5, <1>6, <1>7, <1>8
<1>10. SumOf(f, V) \in Int
  <2>1. V \in SUBSET S /\ IsFiniteSet(V)
    BY <1>3, FS_Subset
  <2>. HIDE DEF V
  <2>. QED
    BY <2>1, SumType
<1>11. f[x] \in Int /\ f[p] \in Int
  BY <1>3, <1>4, <1>5
<1>. QED
  BY <1>4, <1>5, <1>9, <1>10, <1>11

(* Two summands that agree on the set have the same sum.                   *)
LEMMA SumAgree ==
  ASSUME NEW f, NEW g, NEW S, IsFiniteSet(S), \A x \in S : f[x] = g[x]
  PROVE  SumOf(f, S) = SumOf(g, S)
<1>. DEFINE Bad == {T \in SUBSET S : SumOf(f, T) # SumOf(g, T)}
<1>1. SUFFICES ASSUME Bad # {} PROVE FALSE
  OBVIOUS
<1>2. PICK T \in Bad : \A U \in Bad : U \subseteq T => U = T
  <2>1. Bad \subseteq SUBSET S
    OBVIOUS
  <2>. HIDE DEF Bad
  <2>. QED
    BY <1>1, <2>1, SmallestSubset
<1>3. T \in SUBSET S /\ SumOf(f, T) # SumOf(g, T) /\ IsFiniteSet(T)
  BY FS_Subset
<1>4. T # {}
  BY <1>3, SumEmpty
<1>. DEFINE V == T \ {Picked(T)}
<1>5. V \in SUBSET S /\ V \subseteq T /\ V # T /\ Picked(T) \in S
  BY <1>3, <1>4, PickedIn
<1>6. SumOf(f, V) = SumOf(g, V)
  BY <1>2, <1>5
<1>7. /\ SumOf(f, T) = f[Picked(T)] + SumOf(f, V)
      /\ SumOf(g, T) = g[Picked(T)] + SumOf(g, V)
  BY <1>3, <1>4, SumStep
<1>. QED
  BY <1>3, <1>5, <1>6, <1>7

(* The sum over two disjoint sets.                                         *)
LEMMA SumUnion ==
  ASSUME NEW f, NEW A, NEW B, IsFiniteSet(A), IsFiniteSet(B), A \cap B = {},
         \A x \in A \cup B : f[x] \in Int
  PROVE  SumOf(f, A \cup B) = SumOf(f, A) + SumOf(f, B)
<1>. DEFINE Bad == {T \in SUBSET A : SumOf(f, T \cup B) # SumOf(f, T) + SumOf(f, B)}
<1>1. SUFFICES ASSUME Bad # {} PROVE FALSE
  OBVIOUS
<1>2. PICK T \in Bad : \A U \in Bad : U \subseteq T => U = T
  <2>1. Bad \subseteq SUBSET A
    OBVIOUS
  <2>. HIDE DEF Bad
  <2>. QED
    BY <1>1, <2>1, SmallestSubset
<1>3. /\ T \in SUBSET A /\ SumOf(f, T \cup B) # SumOf(f, T) + SumOf(f, B)
      /\ IsFiniteSet(T) /\ IsFiniteSet(T \cup B)
  BY FS_Subset, FS_Union
<1>s. SumOf(f, B) \in Int
  BY SumType
<1>4. T # {}
  <2>1. T = {} => T \cup B = B
    OBVIOUS
  <2>. QED
    BY <1>3, <1>s, <2>1, SumEmpty
<1>5. PICK x \in T : TRUE
  BY <1>4
<1>. DEFINE V == T \ {x}
<1>6. /\ V \in SUBSET A /\ V \subseteq T /\ V # T /\ x \notin B /\ f[x] \in Int
      /\ (T \cup B) \ {x} = V \cup B
  BY <1>3, <1>5
<1>7. SumOf(f, V \cup B) = SumOf(f, V) + SumOf(f, B)
  BY <1>2, <1>6
<1>8. SumOf(f, T) = f[x] + SumOf(f, V)
  BY <1>3, <1>5, SumRemove
<1>9. SumOf(f, T \cup B) = f[x] + SumOf(f, V \cup B)
  BY <1>3, <1>5, <1>6, SumRemove
<1>10. SumOf(f, V) \in Int
  <2>1. IsFiniteSet(V) /\ \A y \in V : f[y] \in Int
    BY <1>3, FS_Subset
  <2>. HIDE DEF V
  <2>. QED
    BY <2>1, SumType
<1>. QED
  BY <1>3, <1>s, <1>6, <1>7, <1>8, <1>9, <1>10

(* A smaller set has a sum no greater.                                     *)
LEMMA SumMonotone ==
  ASSUME NEW f, NEW S, IsFiniteSet(S), NEW T, T \subseteq S, \A x \in S : f[x] \in Nat
  PROVE  SumOf(f, T) <= SumOf(f, S) /\ SumOf(f, T) \in Nat /\ SumOf(f, S) \in Nat
<1>1. /\ IsFiniteSet(T) /\ IsFiniteSet(S \ T)
      /\ T \cap (S \ T) = {} /\ T \cup (S \ T) = S
  BY FS_Subset
<1>2. SumOf(f, T) \in Nat /\ SumOf(f, S \ T) \in Nat
  BY <1>1, SumType
<1>3. SumOf(f, T \cup (S \ T)) = SumOf(f, T) + SumOf(f, S \ T)
  BY <1>1, SumUnion
<1>4. SumOf(f, S) = SumOf(f, T) + SumOf(f, S \ T)
  BY <1>1, <1>3, Zenon
<1>. QED
  BY <1>2, <1>4

(* Elements that count for nothing may be left out.                        *)
LEMMA SumIgnoresZeros ==
  ASSUME NEW f, NEW S, IsFiniteSet(S), NEW T, T \subseteq S,
         \A x \in S : f[x] \in Int, \A x \in S \ T : f[x] = 0
  PROVE  SumOf(f, T) = SumOf(f, S)
<1>. DEFINE Bad == {U \in SUBSET (S \ T) : SumOf(f, U) # 0}
<1>1. IsFiniteSet(T) /\ IsFiniteSet(S \ T)
  BY FS_Subset
<1>2. Bad = {}
  <2>1. SUFFICES ASSUME Bad # {} PROVE FALSE
    OBVIOUS
  <2>2. PICK U \in Bad : \A V \in Bad : V \subseteq U => V = U
    <3>1. Bad \subseteq SUBSET (S \ T)
      OBVIOUS
    <3>. HIDE DEF Bad
    <3>. QED
      BY <1>1, <2>1, <3>1, SmallestSubset
  <2>3. U \in SUBSET (S \ T) /\ SumOf(f, U) # 0 /\ IsFiniteSet(U)
    BY <1>1, FS_Subset
  <2>4. PICK x \in U : TRUE
    BY <2>3, SumEmpty
  <2>5. SumOf(f, U) = f[x] + SumOf(f, U \ {x})
    BY <2>3, <2>4, SumRemove
  <2>6. SumOf(f, U \ {x}) = 0
    BY <2>2, <2>3, <2>4
  <2>. QED
    BY <2>3, <2>4, <2>5, <2>6
<1>3. SumOf(f, S \ T) = 0
  BY <1>2
<1>4. T \cap (S \ T) = {} /\ T \cup (S \ T) = S
  OBVIOUS
<1>5. SumOf(f, T \cup (S \ T)) = SumOf(f, T) + SumOf(f, S \ T)
  BY <1>1, <1>4, SumUnion
<1>6. SumOf(f, T) \in Int
  BY <1>1, SumType
<1>7. SumOf(f, S) = SumOf(f, T) + SumOf(f, S \ T)
  BY <1>4, <1>5, Zenon
<1>. QED
  BY <1>3, <1>6, <1>7

(* One summand changes by a.                                               *)
LEMMA SumUpdate ==
  ASSUME NEW f, NEW g, NEW S, IsFiniteSet(S), NEW e \in S, NEW a \in Int,
         \A x \in S : f[x] \in Int, g[e] = f[e] + a, \A x \in S \ {e} : g[x] = f[x]
  PROVE  SumOf(g, S) = SumOf(f, S) + a
<1>1. IsFiniteSet(S \ {e}) /\ \A x \in S : g[x] \in Int
  BY FS_Subset
<1>2. SumOf(f, S) = f[e] + SumOf(f, S \ {e}) /\ SumOf(g, S) = g[e] + SumOf(g, S \ {e})
  BY <1>1, SumRemove
<1>3. SumOf(g, S \ {e}) = SumOf(f, S \ {e})
  BY <1>1, SumAgree
<1>4. SumOf(f, S \ {e}) \in Int
  BY <1>1, SumType
<1>. QED
  BY <1>2, <1>3, <1>4

(* Summed by keys, in groups: g[k] is the sum of the elements of S whose    *)
(* key is k.                                                               *)
WithKey(S, key, k) == {x \in S : key[x] = k}

(* A sum is the sum of its groups, by any key.                             *)
LEMMA SumByKey ==
  ASSUME NEW f, NEW S, IsFiniteSet(S), \A x \in S : f[x] \in Int,
         NEW K, IsFiniteSet(K), NEW key, \A x \in S : key[x] \in K,
         NEW g, \A k \in K : g[k] = SumOf(f, WithKey(S, key, k))
  PROVE  SumOf(f, S) = SumOf(g, K)
<1>. DEFINE Of(L) == {x \in S : key[x] \in L}
            Bad == {L \in SUBSET K : SumOf(f, Of(L)) # SumOf(g, L)}
<1>1. Bad = {}
  <2>1. SUFFICES ASSUME Bad # {} PROVE FALSE
    OBVIOUS
  <2>2. PICK L \in Bad : \A M \in Bad : M \subseteq L => M = L
    <3>1. Bad \subseteq SUBSET K
      OBVIOUS
    <3>. HIDE DEF Bad
    <3>. QED
      BY <2>1, <3>1, SmallestSubset
  <2>3. L \in SUBSET K /\ SumOf(f, Of(L)) # SumOf(g, L) /\ IsFiniteSet(L)
    BY FS_Subset
  <2>4. L # {}
    <3>1. Of({}) = {}
      OBVIOUS
    <3>. QED
      BY <2>3, <3>1, SumEmpty
  <2>5. PICK k \in L : TRUE
    BY <2>4
  <2>. DEFINE M == L \ {k}
              Group == WithKey(S, key, k)
  <2>6. SumOf(f, Of(M)) = SumOf(g, M)
    BY <2>2, <2>3, <2>5
  <2>7. /\ IsFiniteSet(Of(M)) /\ IsFiniteSet(Group)
        /\ Of(M) \cap Group = {} /\ Of(L) = Of(M) \cup Group
        /\ \A x \in Of(M) \cup Group : f[x] \in Int
    <3>1. Of(M) \in SUBSET S /\ Group \in SUBSET S
      BY DEF WithKey
    <3>2. IsFiniteSet(Of(M)) /\ IsFiniteSet(Group)
      BY <3>1, FS_Subset
    <3>. QED
      BY <2>5, <3>2 DEF WithKey
  <2>8. SumOf(f, Of(L)) = SumOf(f, Of(M)) + SumOf(f, Group)
    <3>1. PICK rest : rest = Of(M)
      OBVIOUS
    <3>2. PICK group : group = Group
      OBVIOUS
    <3>3. SumOf(f, rest \cup group) = SumOf(f, rest) + SumOf(f, group)
      BY <2>7, <3>1, <3>2, SumUnion
    <3>4. Of(L) = rest \cup group
      BY <2>7, <3>1, <3>2
    <3>. QED
      BY <3>1, <3>2, <3>3, <3>4, Zenon
  <2>9. \A j \in K : g[j] \in Int
    <3>1. SUFFICES ASSUME NEW j \in K PROVE g[j] \in Int
      OBVIOUS
    <3>2. WithKey(S, key, j) \in SUBSET S
      BY DEF WithKey
    <3>3. IsFiniteSet(WithKey(S, key, j)) /\ \A x \in WithKey(S, key, j) : f[x] \in Int
      BY <3>2, FS_Subset
    <3>4. SumOf(f, WithKey(S, key, j)) \in Int
      BY <3>3, SumType
    <3>. QED
      BY <3>4
  <2>10. SumOf(g, L) = g[k] + SumOf(g, M)
    BY <2>3, <2>5, <2>9, SumRemove
  <2>11. SumOf(g, M) \in Int /\ g[k] \in Int /\ g[k] = SumOf(f, Group)
    <3>1. IsFiniteSet(M) /\ \A j \in M : g[j] \in Int
      BY <2>3, <2>9, FS_Subset
    <3>2. SumOf(g, M) \in Int
      <4>. HIDE DEF M
      <4>. QED
        BY <3>1, SumType
    <3>. QED
      BY <2>3, <2>5, <2>9, <3>2
  <2>. QED
    BY <2>3, <2>6, <2>8, <2>10, <2>11
<1>2. Of(K) = S
  OBVIOUS
<1>3. SumOf(f, Of(K)) = SumOf(g, K)
  <2>1. K \in SUBSET K
    OBVIOUS
  <2>. QED
    BY <1>1, <2>1
<1>. QED
  BY <1>2, <1>3

(* Each a hundred times a figure less a share of c.                        *)
IsLess(h, f, g, c, S) ==
  \A x \in S : f[x] \in Int /\ g[x] \in Int /\ h[x] = 100 * f[x] - g[x] * c

(* The sum of differences is the difference of the sums.                   *)
LEMMA SumDifference ==
  ASSUME NEW f, NEW g, NEW h, NEW c \in Int, NEW S, IsFiniteSet(S), IsLess(h, f, g, c, S)
  PROVE  SumOf(h, S) = 100 * SumOf(f, S) - SumOf(g, S) * c
<1>. \A x \in S : f[x] \in Int /\ g[x] \in Int /\ h[x] = 100 * f[x] - g[x] * c
  BY DEF IsLess
<1>. DEFINE Bad == {T \in SUBSET S : SumOf(h, T) # 100 * SumOf(f, T) - SumOf(g, T) * c}
<1>1. SUFFICES ASSUME Bad # {} PROVE FALSE
  OBVIOUS
<1>2. PICK T \in Bad : \A U \in Bad : U \subseteq T => U = T
  <2>1. Bad \subseteq SUBSET S
    OBVIOUS
  <2>. HIDE DEF Bad
  <2>. QED
    BY <1>1, <2>1, SmallestSubset
<1>3. T \in SUBSET S /\ SumOf(h, T) # 100 * SumOf(f, T) - SumOf(g, T) * c /\ IsFiniteSet(T)
  BY FS_Subset
<1>4. T # {}
  <2>1. 100 * 0 - 0 * c = 0
    OBVIOUS
  <2>. QED
    BY <1>3, <2>1, SumEmpty
<1>. DEFINE V == T \ {Picked(T)}
<1>5. V \in SUBSET S /\ V \subseteq T /\ V # T /\ Picked(T) \in S /\ IsFiniteSet(V)
  BY <1>3, <1>4, PickedIn, FS_Subset
<1>6. SumOf(h, V) = 100 * SumOf(f, V) - SumOf(g, V) * c
  BY <1>2, <1>5
<1>7. /\ SumOf(f, T) = f[Picked(T)] + SumOf(f, V)
      /\ SumOf(g, T) = g[Picked(T)] + SumOf(g, V)
      /\ SumOf(h, T) = h[Picked(T)] + SumOf(h, V)
  BY <1>3, <1>4, SumStep
<1>8. PICK a \in Int, b \in Int : a = f[Picked(T)] /\ b = g[Picked(T)]
  BY <1>5
<1>9. PICK A \in Int, B \in Int : A = SumOf(f, V) /\ B = SumOf(g, V)
  <2>. HIDE DEF V
  <2>. QED
    BY <1>5, SumType
<1>10. h[Picked(T)] = 100 * a - b * c
  BY <1>5, <1>8
<1>11. (b + B) * c = b * c + B * c
  OBVIOUS
<1>. QED
  BY <1>3, <1>6, <1>7, <1>8, <1>9, <1>10, <1>11

(* Summands within bounds have a sum within the sum of the bounds.         *)
LEMMA SumBounded ==
  ASSUME NEW f, NEW g, NEW S, IsFiniteSet(S),
         \A x \in S : f[x] \in Int /\ g[x] \in Nat /\ -(100 * g[x]) <= f[x] /\ f[x] <= 100 * g[x]
  PROVE  -(100 * SumOf(g, S)) <= SumOf(f, S) /\ SumOf(f, S) <= 100 * SumOf(g, S)
<1>. DEFINE Within(T) == -(100 * SumOf(g, T)) <= SumOf(f, T) /\ SumOf(f, T) <= 100 * SumOf(g, T)
            Bad == {T \in SUBSET S : ~Within(T)}
<1>1. SUFFICES ASSUME Bad # {} PROVE FALSE
  OBVIOUS
<1>2. PICK T \in Bad : \A U \in Bad : U \subseteq T => U = T
  <2>1. Bad \subseteq SUBSET S
    OBVIOUS
  <2>. HIDE DEF Bad
  <2>. QED
    BY <1>1, <2>1, SmallestSubset
<1>3. T \in SUBSET S /\ ~Within(T) /\ IsFiniteSet(T)
  BY FS_Subset
<1>4. T # {}
  BY <1>3, SumEmpty
<1>. DEFINE V == T \ {Picked(T)}
<1>5. V \in SUBSET S /\ V \subseteq T /\ V # T /\ Picked(T) \in S /\ IsFiniteSet(V)
  BY <1>3, <1>4, PickedIn, FS_Subset
<1>6. Within(V)
  BY <1>2, <1>5
<1>7. /\ SumOf(f, T) = f[Picked(T)] + SumOf(f, V)
      /\ SumOf(g, T) = g[Picked(T)] + SumOf(g, V)
  BY <1>3, <1>4, SumStep
<1>8. PICK a \in Int, b \in Nat : /\ a = f[Picked(T)] /\ b = g[Picked(T)]
                                  /\ -(100 * b) <= a /\ a <= 100 * b
  BY <1>5
<1>9. PICK A \in Int, B \in Nat : A = SumOf(f, V) /\ B = SumOf(g, V)
  <2>. HIDE DEF V
  <2>. QED
    BY <1>5, SumType
<1>. QED
  BY <1>3, <1>6, <1>7, <1>8, <1>9
=============================================================================
