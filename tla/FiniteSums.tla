----------------------------- MODULE FiniteSums ------------------------------
(***************************************************************************)
(* The sum of a function over its finite domain, as the models write it    *)
(* with a fold, and what the proofs need to know of such sums: they do not *)
(* depend on the order of the summands, a summand can be taken out or      *)
(* changed, zeros do not count, and larger summands make a larger sum.     *)
(***************************************************************************)
EXTENDS Integers, FiniteSets, Folds, FiniteSetTheorems, WellFoundedInduction, TLAPS

SumOf(f) ==
    MapThenFoldSet(LAMBDA x, y : x + y, 0, LAMBDA x : f[x],
                   LAMBDA s : CHOOSE x \in s : TRUE, DOMAIN f)

\* The function over which the fold is defined: what the sets of a family sum to.
Pick(s) == CHOOSE x \in s : TRUE
Sums(S, f, F) ==
    F = [s \in S |-> IF s = {} THEN 0 ELSE f[Pick(s)] + F[s \ {Pick(s)}]]

SumsOf(f, F) == Sums(SUBSET DOMAIN f, f, F)
Summands(f) == IsFiniteSet(DOMAIN f) /\ \A x \in DOMAIN f : f[x] \in Int

LEMMA LeastNumber ==
    ASSUME NEW T \in SUBSET Nat, T # {}
    PROVE  \E n \in T : \A m \in T : n <= m
  <1> DEFINE R == {ss \in Nat \X Nat : ss[1] < ss[2]}
  <1>1. IsWellFoundedOn(R, Nat)
    BY NatLessThanWellFounded DEF OpToRel
  <1> HIDE DEF R
  <1>2. PICK n \in T : \A m \in T : ~ (<<m, n>> \in R)
    BY <1>1, WFMin
  <1>3. \A m \in T : ~ (m < n)
    BY <1>2 DEF R
  <1>q. QED BY <1>3

\* Of the subsets of a finite set that have a property, one is smallest.
LEMMA SmallestSet ==
    ASSUME NEW D, IsFiniteSet(D), NEW W \in SUBSET (SUBSET D), W # {}
    PROVE  \E s \in W : \A t \in W : Cardinality(s) <= Cardinality(t)
  <1> DEFINE T == {Cardinality(s) : s \in W}
  <1>1. \A s \in W : Cardinality(s) \in Nat
    BY FS_Subset, FS_CardinalityType
  <1>2. T \in SUBSET Nat /\ T # {}
    BY <1>1
  <1>3. PICK n \in T : \A m \in T : n <= m
    BY <1>2, LeastNumber
  <1>q. QED BY <1>3

\* Without the element it picks, or any other, a set is smaller.
LEMMA Smaller ==
    ASSUME NEW D, IsFiniteSet(D), NEW s \in SUBSET D, NEW x \in s
    PROVE  /\ Cardinality(s) \in Nat /\ s \ {x} \in SUBSET D
           /\ Cardinality(s \ {x}) = Cardinality(s) - 1
           /\ Pick(s) \in s
  <1>1. IsFiniteSet(s)
    BY FS_Subset
  <1>q. QED BY <1>1, FS_RemoveElement, FS_CardinalityType DEF Pick

\* The fold is well defined: there is a function that satisfies its recursion.
LEMMA SumsExist ==
    ASSUME NEW f, IsFiniteSet(DOMAIN f)
    PROVE  \E F : Sums(SUBSET DOMAIN f, f, F)
  <1> DEFINE D == DOMAIN f
             Up(n) == {s \in SUBSET D : Cardinality(s) <= n}
             T == {n \in Nat : ~ \E F : Sums(Up(n), f, F)}
  <1>1. ASSUME T # {} PROVE FALSE
    <2>1. PICK n \in T : \A m \in T : n <= m
      BY <1>1, LeastNumber
    <2>2. CASE n = 0
      <3>1. \A s \in Up(0) : s = {}
        <4> SUFFICES ASSUME NEW s \in SUBSET D, Cardinality(s) <= 0 PROVE s = {}
          OBVIOUS
        <4>1. ASSUME NEW x \in s PROVE FALSE
          <5>1. Cardinality(s \ {x}) = Cardinality(s) - 1 /\ Cardinality(s) \in Nat
            BY Smaller
          <5>2. Cardinality(s \ {x}) \in Nat
            BY FS_Subset, FS_CardinalityType
          <5>q. QED BY <5>1, <5>2
        <4>q. QED BY <4>1
      <3> DEFINE F == [s \in Up(0) |-> 0]
      <3>2. Sums(Up(0), f, F)
        BY <3>1 DEF Sums
      <3>q. QED BY <2>1, <2>2, <3>2
    <2>3. CASE n # 0
      <3>1. n - 1 \in Nat /\ n - 1 \notin T
        <4>1. n \in Nat
          OBVIOUS
        <4> HIDE DEF T
        <4>q. QED BY <2>1, <2>3, <4>1
      <3>2. PICK G : Sums(Up(n - 1), f, G)
        BY <3>1
      <3> DEFINE F == [s \in Up(n) |-> IF s = {} THEN 0 ELSE f[Pick(s)] + G[s \ {Pick(s)}]]
      <3>3. Up(n - 1) \subseteq Up(n)
        <4> SUFFICES ASSUME NEW s \in SUBSET D, Cardinality(s) <= n - 1
                     PROVE  Cardinality(s) <= n
          OBVIOUS
        <4>1. Cardinality(s) \in Nat
          BY FS_Subset, FS_CardinalityType
        <4>q. QED BY <3>1, <4>1
      <3>4. \A t \in Up(n - 1) : F[t] = G[t]
        BY <3>2, <3>3 DEF Sums
      <3>5. \A s \in Up(n) : s # {} => s \ {Pick(s)} \in Up(n - 1)
        <4> SUFFICES ASSUME NEW s \in SUBSET D, Cardinality(s) <= n, s # {}
                     PROVE  s \ {Pick(s)} \in Up(n - 1)
          OBVIOUS
        <4>1. Pick(s) \in s
          BY DEF Pick
        <4>2. Cardinality(s \ {Pick(s)}) = Cardinality(s) - 1 /\ Cardinality(s) \in Nat
              /\ s \ {Pick(s)} \in SUBSET D
          BY <4>1, Smaller
        <4>q. QED BY <3>1, <4>2
      <3>6. Sums(Up(n), f, F)
        BY <3>4, <3>5 DEF Sums
      <3>q. QED BY <2>1, <3>6
    <2>q. QED BY <2>2, <2>3
  <1>2. PICK F : Sums(Up(Cardinality(D)), f, F)
    BY <1>1, FS_CardinalityType
  <1>3. Up(Cardinality(D)) = SUBSET D
    BY FS_Subset
  <1>q. QED BY <1>2, <1>3

LEMMA SumIsRecursive ==
    ASSUME NEW f, IsFiniteSet(DOMAIN f)
    PROVE  \E F : SumsOf(f, F) /\ SumOf(f) = F[DOMAIN f]
  <1> DEFINE F == CHOOSE F : F = [s \in SUBSET DOMAIN f |->
                      IF s = {} THEN 0 ELSE f[Pick(s)] + F[s \ {Pick(s)}]]
  <1>1. SumsOf(f, F)
    BY SumsExist DEF SumsOf, Sums
  <1>2. SumOf(f) = F[DOMAIN f]
    BY DEF SumOf, MapThenFoldSet, Pick
  <1>q. QED BY <1>1, <1>2

LEMMA SumsType ==
    ASSUME NEW f, IsFiniteSet(DOMAIN f), NEW S \in {Int, Nat}, \A x \in DOMAIN f : f[x] \in S,
           NEW F, Sums(SUBSET DOMAIN f, f, F)
    PROVE  \A s \in SUBSET DOMAIN f : F[s] \in S
  <1> DEFINE D == DOMAIN f
             W == {s \in SUBSET D : F[s] \notin S}
  <1> SUFFICES ASSUME W # {} PROVE FALSE
    OBVIOUS
  <1>1. PICK s \in W : \A t \in W : Cardinality(s) <= Cardinality(t)
    BY SmallestSet
  <1>2. F[s] = IF s = {} THEN 0 ELSE f[Pick(s)] + F[s \ {Pick(s)}]
    BY DEF Sums
  <1>3. s # {} /\ Pick(s) \in s
    BY <1>2 DEF Pick
  <1>4. s \ {Pick(s)} \notin W /\ s \ {Pick(s)} \in SUBSET D
    BY <1>1, <1>3, Smaller
  <1>q. QED BY <1>2, <1>3, <1>4

\* The order in which the elements are picked does not matter.
LEMMA AnyOrder ==
    ASSUME NEW f, IsFiniteSet(DOMAIN f), \A x \in DOMAIN f : f[x] \in Int,
           NEW F, SumsOf(f, F)
    PROVE  \A s \in SUBSET DOMAIN f : \A x \in s : F[s] = f[x] + F[s \ {x}]
  <1>a. IsFiniteSet(DOMAIN f) /\ (\A y \in DOMAIN f : f[y] \in Int) /\ Sums(SUBSET DOMAIN f, f, F)
    BY DEF Summands, SumsOf
  <1>b. \A t \in SUBSET DOMAIN f : F[t] \in Int
    BY <1>a, SumsType
  <1> DEFINE D == DOMAIN f
             W == {s \in SUBSET D : \E x \in s : F[s] # f[x] + F[s \ {x}]}
  <1> SUFFICES ASSUME W # {} PROVE FALSE
    OBVIOUS
  <1>1. PICK s \in W : \A t \in W : Cardinality(s) <= Cardinality(t)
    BY SmallestSet
  <1>2. PICK x \in s : F[s] # f[x] + F[s \ {x}]
    OBVIOUS
  <1> DEFINE c == Pick(s)
  <1>3. F[s] = f[c] + F[s \ {c}] /\ c \in s
    BY DEF SumsOf, Sums, Pick
  <1> HIDE DEF c
  <1>4. ASSUME NEW y \in s PROVE s \ {y} \in SUBSET D /\ s \ {y} \notin W
    <2>1. /\ Cardinality(s) \in Nat /\ s \ {y} \in SUBSET D
          /\ Cardinality(s \ {y}) = Cardinality(s) - 1
      BY Smaller
    <2> HIDE DEF W
    <2>q. QED BY <1>1, <2>1
  <1>5. x # c
    BY <1>2, <1>3
  <1>6. F[s \ {c}] = f[x] + F[(s \ {c}) \ {x}]
    BY <1>3, <1>4, <1>5
  <1>7. F[s \ {x}] = f[c] + F[(s \ {x}) \ {c}]
    BY <1>3, <1>4, <1>5
  <1> DEFINE r == (s \ {x}) \ {c}
  <1>8. (s \ {c}) \ {x} = r /\ r \in SUBSET D
    OBVIOUS
  <1>9. F[r] \in Int /\ f[x] \in Int /\ f[c] \in Int
    BY <1>3, <1>8, <1>b
  <1>10. F[s \ {c}] = f[x] + F[r] /\ F[s \ {x}] = f[c] + F[r]
    BY <1>6, <1>7, <1>8
  <1> HIDE DEF r, W
  <1>q. QED BY <1>2, <1>3, <1>9, <1>10

\* What is summed up elsewhere does not matter either.
LEMMA SumsAgree ==
    ASSUME NEW f, IsFiniteSet(DOMAIN f), NEW F, SumsOf(f, F),
           NEW g, DOMAIN g \subseteq DOMAIN f, \A x \in DOMAIN g : g[x] = f[x],
           NEW G, SumsOf(g, G)
    PROVE  \A s \in SUBSET DOMAIN g : F[s] = G[s]
  <1> DEFINE D == DOMAIN g
             W == {s \in SUBSET D : F[s] # G[s]}
  <1> SUFFICES ASSUME W # {} PROVE FALSE
    OBVIOUS
  <1>a. IsFiniteSet(D)
    BY FS_Subset
  <1>1. PICK s \in W : \A t \in W : Cardinality(s) <= Cardinality(t)
    BY <1>a, SmallestSet
  <1>2. /\ F[s] = IF s = {} THEN 0 ELSE f[Pick(s)] + F[s \ {Pick(s)}]
        /\ G[s] = IF s = {} THEN 0 ELSE g[Pick(s)] + G[s \ {Pick(s)}]
    BY DEF SumsOf, Sums
  <1>3. s # {} /\ Pick(s) \in s /\ Pick(s) \in D
    BY <1>2 DEF Pick
  <1>4. s \ {Pick(s)} \notin W /\ s \ {Pick(s)} \in SUBSET D
    BY <1>a, <1>1, <1>3, Smaller
  <1>q. QED BY <1>2, <1>3, <1>4

LEMMA SumType == ASSUME NEW f, Summands(f) PROVE SumOf(f) \in Int
  <1>1. PICK F : SumsOf(f, F) /\ SumOf(f) = F[DOMAIN f]
    BY SumIsRecursive DEF Summands
  <1>2. \A s \in SUBSET DOMAIN f : F[s] \in Int
    BY <1>1, SumsType DEF SumsOf, Summands
  <1>q. QED BY <1>1, <1>2

LEMMA SumNatural ==
    ASSUME NEW f, IsFiniteSet(DOMAIN f), \A x \in DOMAIN f : f[x] \in Nat
    PROVE  SumOf(f) \in Nat
  <1>1. PICK F : SumsOf(f, F) /\ SumOf(f) = F[DOMAIN f]
    BY SumIsRecursive
  <1>2. \A s \in SUBSET DOMAIN f : F[s] \in Nat
    BY <1>1, SumsType DEF SumsOf
  <1>q. QED BY <1>1, <1>2

LEMMA SumWithin ==
    ASSUME NEW f, Summands(f),
           NEW g, DOMAIN g \subseteq DOMAIN f, \A x \in DOMAIN g : g[x] = f[x]
    PROVE  \E F : /\ SumsOf(f, F) /\ SumOf(f) = F[DOMAIN f]
                  /\ SumOf(g) = F[DOMAIN g]
  <1>1. IsFiniteSet(DOMAIN f) /\ IsFiniteSet(DOMAIN g)
    BY FS_Subset DEF Summands
  <1>2. PICK F : SumsOf(f, F) /\ SumOf(f) = F[DOMAIN f]
    BY <1>1, SumIsRecursive
  <1>3. PICK G : SumsOf(g, G) /\ SumOf(g) = G[DOMAIN g]
    BY <1>1, SumIsRecursive
  <1>4. \A s \in SUBSET DOMAIN g : F[s] = G[s]
    BY <1>1, <1>2, <1>3, SumsAgree
  <1>q. QED BY <1>2, <1>3, <1>4

LEMMA SumAdds ==
    ASSUME NEW f, Summands(f), NEW x \in DOMAIN f,
           NEW g, DOMAIN g = DOMAIN f \ {x}, \A y \in DOMAIN g : g[y] = f[y]
    PROVE  SumOf(f) = f[x] + SumOf(g)
  <1>1. PICK F : /\ SumsOf(f, F) /\ SumOf(f) = F[DOMAIN f]
                 /\ SumOf(g) = F[DOMAIN g]
    BY SumWithin
  <1>2. F[DOMAIN f] = f[x] + F[DOMAIN f \ {x}]
    BY <1>1, AnyOrder DEF Summands
  <1>q. QED BY <1>1, <1>2

LEMMA SumEmpty == ASSUME NEW f, DOMAIN f = {} PROVE SumOf(f) = 0
  <1>1. PICK F : SumsOf(f, F) /\ SumOf(f) = F[DOMAIN f]
    BY SumIsRecursive, FS_EmptySet
  <1>q. QED BY <1>1 DEF SumsOf, Sums

\* One summand changes.
LEMMA SumUpdate ==
    ASSUME NEW f, Summands(f), NEW x \in DOMAIN f,
           NEW g, DOMAIN g = DOMAIN f, g[x] \in Int,
           \A y \in DOMAIN f \ {x} : g[y] = f[y]
    PROVE  SumOf(g) = SumOf(f) + g[x] - f[x]
  <1> DEFINE h == [y \in DOMAIN f \ {x} |-> f[y]]
  <1>1. SumOf(f) = f[x] + SumOf(h)
    BY SumAdds
  <1>2. Summands(g) /\ x \in DOMAIN g
    BY DEF Summands
  <1>3. DOMAIN h = DOMAIN g \ {x} /\ \A y \in DOMAIN h : h[y] = g[y]
    OBVIOUS
  <1>4. SumOf(g) = g[x] + SumOf(h)
    BY <1>2, <1>3, SumAdds
  <1>5. Summands(h)
    BY FS_Subset DEF Summands
  <1>6. SumOf(h) \in Int
    BY <1>5, SumType
  <1>7. f[x] \in Int
    BY DEF Summands
  <1> HIDE DEF h
  <1>q. QED BY <1>1, <1>4, <1>6, <1>7

\* The first of the sets over which two sums differ, or are in the wrong order.
LEMMA SumAtMost ==
    ASSUME NEW f, Summands(f), NEW g, DOMAIN g = DOMAIN f, Summands(g),
           \A x \in DOMAIN f : f[x] <= g[x]
    PROVE  SumOf(f) <= SumOf(g)
  <1> DEFINE D == DOMAIN f
  <1>1. PICK F : SumsOf(f, F) /\ SumOf(f) = F[D]
    BY SumIsRecursive DEF Summands
  <1>2. PICK G : SumsOf(g, G) /\ SumOf(g) = G[D]
    BY SumIsRecursive DEF Summands
  <1> DEFINE W == {s \in SUBSET D : ~(F[s] <= G[s])}
  <1>3. ASSUME W # {} PROVE FALSE
    <2>0. IsFiniteSet(D)
      BY DEF Summands
    <2>1. PICK s \in W : \A t \in W : Cardinality(s) <= Cardinality(t)
      BY <1>3, <2>0, SmallestSet
    <2>2. /\ F[s] = IF s = {} THEN 0 ELSE f[Pick(s)] + F[s \ {Pick(s)}]
          /\ G[s] = IF s = {} THEN 0 ELSE g[Pick(s)] + G[s \ {Pick(s)}]
      BY <1>1, <1>2 DEF SumsOf, Sums
    <2>3. s # {} /\ Pick(s) \in s /\ Pick(s) \in D
      BY <2>2 DEF Pick
    <2>4. s \ {Pick(s)} \notin W /\ s \ {Pick(s)} \in SUBSET D
      BY <2>0, <2>1, <2>3, Smaller
    <2>5. \A t \in SUBSET D : F[t] \in Int /\ G[t] \in Int
      BY <1>1, <1>2, SumsType DEF SumsOf, Summands
    <2>6. f[Pick(s)] \in Int /\ g[Pick(s)] \in Int /\ f[Pick(s)] <= g[Pick(s)]
      BY <2>3 DEF Summands
    <2>q. QED BY <2>2, <2>3, <2>4, <2>5, <2>6
  <1>q. QED BY <1>1, <1>2, <1>3

\* Zeros do not count.
LEMMA SumSkipsZeros ==
    ASSUME NEW f, Summands(f), NEW g, DOMAIN g \subseteq DOMAIN f,
           \A x \in DOMAIN f : IF x \in DOMAIN g THEN f[x] = g[x] ELSE f[x] = 0
    PROVE  SumOf(g) = SumOf(f)
  <1> DEFINE D == DOMAIN f  E == DOMAIN g
  <1>1. PICK F : /\ SumsOf(f, F) /\ SumOf(f) = F[D]
                 /\ SumOf(g) = F[E]
    BY SumWithin
  <1> DEFINE W == {s \in SUBSET D : F[s] # F[s \cap E]}
  <1>2. ASSUME W # {} PROVE FALSE
    <2>0. IsFiniteSet(D) /\ \A x \in D : f[x] \in Int
      BY DEF Summands
    <2>1. PICK s \in W : \A t \in W : Cardinality(s) <= Cardinality(t)
      BY <1>2, <2>0, SmallestSet
    <2>2. PICK x \in s : x \notin E
      OBVIOUS
    <2>3. F[s] = f[x] + F[s \ {x}]
      BY <1>1, <2>0, <2>2, AnyOrder
    <2>4. f[x] = 0
      BY <2>2
    <2>5. s \ {x} \notin W /\ s \ {x} \in SUBSET D
      <3>1. /\ Cardinality(s) \in Nat /\ s \ {x} \in SUBSET D
            /\ Cardinality(s \ {x}) = Cardinality(s) - 1
        BY <2>0, Smaller
      <3> HIDE DEF W
      <3>q. QED BY <2>1, <3>1
    <2>6. (s \ {x}) \cap E = s \cap E
      BY <2>2
    <2>7. F[s \ {x}] \in Int
      BY <1>1, <2>0, <2>5, SumsType DEF SumsOf
    <2>8. F[s \ {x}] = F[s \cap E]
      BY <2>5, <2>6
    <2>q. QED BY <2>1, <2>3, <2>4, <2>7, <2>8
  <1>3. D \cap E = E
    OBVIOUS
  <1>q. QED BY <1>1, <1>2, <1>3

\* The sum of two functions.
LEMMA SumOfSums ==
    ASSUME NEW f, Summands(f), NEW g, DOMAIN g = DOMAIN f, Summands(g),
           NEW h, DOMAIN h = DOMAIN f, \A x \in DOMAIN f : h[x] = f[x] + g[x]
    PROVE  SumOf(h) = SumOf(f) + SumOf(g)
  <1> DEFINE D == DOMAIN f
  <1>0. IsFiniteSet(D) /\ (\A x \in D : f[x] \in Int) /\ (\A x \in D : g[x] \in Int)
    BY DEF Summands
  <1>1. PICK F : SumsOf(f, F) /\ SumOf(f) = F[D]
    BY SumIsRecursive DEF Summands
  <1>2. PICK G : SumsOf(g, G) /\ SumOf(g) = G[D]
    BY SumIsRecursive DEF Summands
  <1>3. PICK H : SumsOf(h, H) /\ SumOf(h) = H[D]
    BY <1>0, SumIsRecursive
  <1> DEFINE W == {s \in SUBSET D : H[s] # F[s] + G[s]}
  <1>4. ASSUME W # {} PROVE FALSE
    <2>1. PICK s \in W : \A t \in W : Cardinality(s) <= Cardinality(t)
      BY <1>0, <1>4, SmallestSet
    <2>2. /\ F[s] = IF s = {} THEN 0 ELSE f[Pick(s)] + F[s \ {Pick(s)}]
          /\ G[s] = IF s = {} THEN 0 ELSE g[Pick(s)] + G[s \ {Pick(s)}]
          /\ H[s] = IF s = {} THEN 0 ELSE h[Pick(s)] + H[s \ {Pick(s)}]
      BY <1>1, <1>2, <1>3 DEF SumsOf, Sums
    <2>3. s # {} /\ Pick(s) \in s /\ Pick(s) \in D
      BY <2>2 DEF Pick
    <2>4. s \ {Pick(s)} \notin W /\ s \ {Pick(s)} \in SUBSET D
      BY <1>0, <2>1, <2>3, Smaller
    <2>5. \A t \in SUBSET D : F[t] \in Int /\ G[t] \in Int
      BY <1>0, <1>1, <1>2, SumsType DEF SumsOf
    <2>6. H[s \ {Pick(s)}] = F[s \ {Pick(s)}] + G[s \ {Pick(s)}]
      BY <2>4
    <2>q. QED BY <1>0, <2>2, <2>3, <2>4, <2>5, <2>6
  <1>q. QED BY <1>1, <1>2, <1>3, <1>4

LEMMA SumOfZeros ==
    ASSUME NEW f, Summands(f), \A x \in DOMAIN f : f[x] = 0
    PROVE  SumOf(f) = 0
  <1> DEFINE e == [x \in {} |-> 0]
  <1>1. DOMAIN e = {}
    OBVIOUS
  <1> HIDE DEF e
  <1>2. SumOf(e) = 0
    BY <1>1, SumEmpty
  <1>3. SumOf(e) = SumOf(f)
    BY <1>1, SumSkipsZeros
  <1>q. QED BY <1>2, <1>3

LEMMA SumOfOne ==
    ASSUME NEW f, Summands(f), NEW x \in DOMAIN f, \A y \in DOMAIN f \ {x} : f[y] = 0
    PROVE  SumOf(f) = f[x]
  <1> DEFINE g == [y \in DOMAIN f \ {x} |-> f[y]]
  <1>1. IsFiniteSet(DOMAIN f \ {x})
    BY FS_Subset DEF Summands
  <1>2. /\ DOMAIN g = DOMAIN f \ {x} /\ \A y \in DOMAIN g : g[y] = f[y] /\ g[y] = 0
        /\ Summands(g) /\ f[x] \in Int
    BY <1>1 DEF Summands
  <1> HIDE DEF g
  <1>3. SumOf(f) = f[x] + SumOf(g)
    BY <1>2, SumAdds
  <1>4. SumOf(g) = 0
    BY <1>2, SumOfZeros
  <1>q. QED BY <1>2, <1>3, <1>4

\* A sum falls into the sums over two parts of its domain.
LEMMA SumOfParts ==
    ASSUME NEW f, Summands(f), NEW A, NEW B, A \cup B = DOMAIN f, A \cap B = {},
           NEW g, DOMAIN g = A, \A x \in A : g[x] = f[x],
           NEW h, DOMAIN h = B, \A x \in B : h[x] = f[x]
    PROVE  SumOf(f) = SumOf(g) + SumOf(h)
  <1> DEFINE D == DOMAIN f
             a == [x \in D |-> IF x \in A THEN f[x] ELSE 0]
             b == [x \in D |-> IF x \in B THEN f[x] ELSE 0]
  <1>1. Summands(a) /\ Summands(b)
    BY DEF Summands
  <1>2. \A x \in D : f[x] = a[x] + b[x]
    BY DEF Summands
  <1>3. SumOf(f) = SumOf(a) + SumOf(b)
    BY <1>1, <1>2, SumOfSums
  <1>4. \A x \in DOMAIN a : IF x \in DOMAIN g THEN a[x] = g[x] ELSE a[x] = 0
    OBVIOUS
  <1>5. \A x \in DOMAIN b : IF x \in DOMAIN h THEN b[x] = h[x] ELSE b[x] = 0
    OBVIOUS
  <1>6. DOMAIN g \subseteq DOMAIN a /\ DOMAIN h \subseteq DOMAIN b
    OBVIOUS
  <1> HIDE DEF a, b
  <1>7. SumOf(g) = SumOf(a) /\ SumOf(h) = SumOf(b)
    BY <1>1, <1>4, <1>5, <1>6, SumSkipsZeros
  <1>q. QED BY <1>3, <1>7

\* The sums over the classes of a finite set make up the sum over the set, if
\* what belongs to no class does not count.
LEMMA SumByClass ==
    ASSUME NEW f, IsFiniteSet(DOMAIN f), \A x \in DOMAIN f : f[x] \in Nat,
           NEW C, IsFiniteSet(C), NEW class, \A x \in DOMAIN f : class[x] \notin C => f[x] = 0
    PROVE  SumOf([c \in C |-> SumOf([x \in DOMAIN f |-> IF class[x] = c THEN f[x] ELSE 0])])
               = SumOf(f)
  <1> DEFINE D == DOMAIN f
             Part(s, c) == [x \in s |-> IF class[x] = c THEN f[x] ELSE 0]
             All(s) == [c \in C |-> SumOf(Part(s, c))]
             Whole(s) == [x \in s |-> f[x]]
             W == {s \in SUBSET D : SumOf(All(s)) # SumOf(Whole(s))}
  <1>1. ASSUME NEW s \in SUBSET D
        PROVE  /\ IsFiniteSet(s) /\ Summands(Whole(s)) /\ SumOf(Whole(s)) \in Int
               /\ \A c : Summands(Part(s, c)) /\ SumOf(Part(s, c)) \in Int
               /\ Summands(All(s)) /\ SumOf(All(s)) \in Int
    <2>1. IsFiniteSet(s)
      BY FS_Subset
    <2>2. Summands(Whole(s))
      BY <2>1 DEF Summands
    <2>3. \A c : Summands(Part(s, c))
      BY <2>1 DEF Summands
    <2> HIDE DEF Part
    <2>4. \A c : SumOf(Part(s, c)) \in Int
      BY <2>3, SumType
    <2>5. Summands(All(s))
      BY <2>4 DEF Summands
    <2> HIDE DEF Whole, All
    <2>q. QED BY <2>1, <2>2, <2>3, <2>4, <2>5, SumType
  <1>2. ASSUME W # {} PROVE FALSE
    <2>1. PICK s \in W : \A t \in W : Cardinality(s) <= Cardinality(t)
      BY <1>2, SmallestSet
    <2>2. s # {}
      <3>1. ASSUME s = {} PROVE FALSE
        <4>1. SumOf(Whole(s)) = 0
          BY <3>1, SumEmpty
        <4>2. \A c : SumOf(Part(s, c)) = 0
          BY <3>1, SumEmpty
        <4>3. \A c \in DOMAIN All(s) : All(s)[c] = 0
          BY <4>2
        <4>4. SumOf(All(s)) = 0
          BY <1>1, <4>3, SumOfZeros
        <4>q. QED BY <4>1, <4>4
      <3>q. QED BY <3>1
    <2>3. PICK x \in s : TRUE
      BY <2>2
    <2> DEFINE t == s \ {x}
    <2>4. t \in SUBSET D /\ t \notin W /\ x \in D /\ x \notin t /\ s \in SUBSET D
      <3>1. /\ Cardinality(s) \in Nat /\ t \in SUBSET D
            /\ Cardinality(t) = Cardinality(s) - 1
        BY Smaller
      <3> HIDE DEF W
      <3>2. t \notin W
        BY <2>1, <3>1
      <3> USE DEF W
      <3>q. QED BY <3>1, <3>2
    <2>5. SumOf(All(t)) = SumOf(Whole(t))
      BY <2>4
    <2>6. SumOf(Whole(s)) = f[x] + SumOf(Whole(t))
      <3>1. /\ DOMAIN Whole(t) = DOMAIN Whole(s) \ {x} /\ x \in DOMAIN Whole(s)
            /\ \A y \in DOMAIN Whole(t) : Whole(t)[y] = Whole(s)[y]
            /\ Whole(s)[x] = f[x]
        OBVIOUS
      <3>2. Summands(Whole(s))
        BY <1>1, <2>4
      <3> HIDE DEF Whole, t
      <3>3. SumOf(Whole(s)) = Whole(s)[x] + SumOf(Whole(t))
        BY <3>1, <3>2, SumAdds
      <3>q. QED BY <3>1, <3>3
    <2>7. \A c : SumOf(Part(s, c)) = (IF class[x] = c THEN f[x] ELSE 0) + SumOf(Part(t, c))
      <3> TAKE c
      <3>1. /\ DOMAIN Part(t, c) = DOMAIN Part(s, c) \ {x} /\ x \in DOMAIN Part(s, c)
            /\ \A y \in DOMAIN Part(t, c) : Part(t, c)[y] = Part(s, c)[y]
            /\ Part(s, c)[x] = IF class[x] = c THEN f[x] ELSE 0
        OBVIOUS
      <3>2. Summands(Part(s, c))
        BY <1>1, <2>4
      <3>3. PICK p, q : p = Part(s, c) /\ q = Part(t, c)
        OBVIOUS
      <3> HIDE DEF Part, t
      <3>4. SumOf(p) = p[x] + SumOf(q)
        BY <3>1, <3>2, <3>3, SumAdds, SMTT(30)
      <3>q. QED BY <3>1, <3>3, <3>4
    <2>8. \A c : SumOf(Part(t, c)) \in Int /\ SumOf(Part(s, c)) \in Int
      BY <1>1, <2>4
    <2>9. f[x] \in Nat
      BY <2>4
    <2>10. SumOf(All(s)) = f[x] + SumOf(All(t))
      <3>1. DOMAIN All(s) = C /\ DOMAIN All(t) = C /\ Summands(All(t)) /\ Summands(All(s))
            /\ SumOf(All(t)) \in Int
        BY <1>1, <2>4
      <3>2. \A c \in C : All(s)[c] = SumOf(Part(s, c)) /\ All(t)[c] = SumOf(Part(t, c))
        OBVIOUS
      <3> HIDE DEF All, Part, Whole, t, W
      <3>3. \A c \in C : c # class[x] => All(s)[c] = All(t)[c]
        BY <2>7, <2>8, <3>2
      <3>4. CASE class[x] \in C
        <4>1. All(s)[class[x]] = f[x] + All(t)[class[x]]
          BY <2>7, <3>2, <3>4
        <4>2. All(s)[class[x]] \in Int /\ All(t)[class[x]] \in Int
          BY <2>8, <3>2, <3>4
        <4>3. SumOf(All(s)) = SumOf(All(t)) + All(s)[class[x]] - All(t)[class[x]]
          BY <3>1, <3>3, <3>4, <4>2, SumUpdate
        <4>q. QED BY <2>9, <3>1, <4>1, <4>2, <4>3
      <3>5. CASE class[x] \notin C
        <4>1. f[x] = 0
          BY <2>4, <3>5
        <4>2. \A c \in DOMAIN All(t) : IF c \in DOMAIN All(s) THEN All(t)[c] = All(s)[c]
                                       ELSE All(t)[c] = 0
          BY <3>1, <3>3, <3>5
        <4>3. SumOf(All(s)) = SumOf(All(t))
          BY <3>1, <4>2, SumSkipsZeros
        <4>q. QED BY <3>1, <4>1, <4>3
      <3>q. QED BY <3>4, <3>5
    <2>q. QED BY <2>1, <2>5, <2>6, <2>10
  <1>3. SumOf(All(D)) = SumOf(Whole(D))
    BY <1>2
  <1>4. SumOf(Whole(D)) = SumOf(f)
    <2>1. /\ DOMAIN Whole(D) = DOMAIN f
          /\ \A x \in DOMAIN f :
                 IF x \in DOMAIN Whole(D) THEN f[x] = Whole(D)[x] ELSE f[x] = 0
      OBVIOUS
    <2>2. Summands(f)
      BY DEF Summands
    <2> HIDE DEF Whole
    <2>q. QED BY <2>1, <2>2, SumSkipsZeros
  <1>q. QED BY <1>3, <1>4

\* A set with a name for each element of a finite set.
LEMMA NamesFinite ==
    ASSUME NEW D, IsFiniteSet(D), NEW name
    PROVE  IsFiniteSet({name[x] : x \in D})
  <1> DEFINE T == {name[x] : x \in D}
             f == [x \in D |-> name[x]]
  <1>1. f \in [D -> T] /\ \A t \in T : \E x \in D : f[x] = t
    OBVIOUS
  <1> HIDE DEF f, T
  <1>2. f \in Surjection(D, T)
    BY <1>1 DEF Surjection
  <1>q. QED BY <1>2, FS_Surjection DEF T

\* Summands may be renamed.
LEMMA SumRenamed ==
    ASSUME NEW f, IsFiniteSet(DOMAIN f), \A x \in DOMAIN f : f[x] \in Nat,
           NEW name, \A x, y \in DOMAIN f : name[x] = name[y] => x = y,
           NEW g, DOMAIN g = {name[x] : x \in DOMAIN f}, \A x \in DOMAIN f : g[name[x]] = f[x]
    PROVE  SumOf(g) = SumOf(f)
  <1> DEFINE D == DOMAIN f
             C == {name[x] : x \in D}
             Part(c) == [x \in D |-> IF name[x] = c THEN f[x] ELSE 0]
             h == [c \in C |-> SumOf(Part(c))]
  <1>1. IsFiniteSet(C)
    BY NamesFinite
  <1>2. SumOf(h) = SumOf(f)
    BY <1>1, SumByClass
  <1>3. \A x \in D : h[name[x]] = f[x]
    <2> TAKE x \in D
    <2>1. PICK p : p = Part(name[x])
      OBVIOUS
    <2>2. Summands(p)
      BY <2>1 DEF Summands
    <2>3. x \in DOMAIN p /\ p[x] = f[x] /\ \A y \in DOMAIN p \ {x} : p[y] = 0
      BY <2>1
    <2>4. SumOf(p) = f[x]
      BY <2>2, <2>3, SumOfOne
    <2>q. QED BY <2>1, <2>4
  <1>4. DOMAIN h = C /\ DOMAIN g = C /\ \A c \in C : h[c] = g[c] /\ g[c] \in Int
    BY <1>3
  <1> HIDE DEF h, C
  <1>5. Summands(h) /\ \A c \in DOMAIN h : IF c \in DOMAIN g THEN h[c] = g[c] ELSE h[c] = 0
    BY <1>1, <1>4 DEF Summands
  <1>6. SumOf(g) = SumOf(h)
    BY <1>4, <1>5, SumSkipsZeros
  <1>q. QED BY <1>2, <1>6
==============================================================================
