---------------------------- MODULE SumTheorems ----------------------------
(***************************************************************************)
(* Sums of a function over a finite set: what the proofs about ledgers,    *)
(* vaults and leaves need of SumFunctionOnSet.  The operator is recursive, *)
(* so each fact is an induction over the finite set, done as the search    *)
(* for a smallest subset that refutes it.                                  *)
(***************************************************************************)
EXTENDS Integers, FiniteSetTheorems, TLAPS

\* A set of natural numbers that is not empty has a smallest element.
LEMMA SmallestExists ==
  ASSUME NEW S \in SUBSET Nat, S # {}
  PROVE  \E x \in S : \A y \in S : x <= y
<1> DEFINE R == {ss \in Nat \X Nat : ss[1] < ss[2]}
<1>1. OpToRel(<, Nat) = R
  BY Zenon DEF OpToRel
<1>2. IsWellFoundedOn(R, Nat)
  BY <1>1, NatLessThanWellFounded
<1> HIDE DEF R
<1>3. PICK x \in S : \A y \in S : ~(<<y, x>> \in R)
  BY <1>2, WFMin
<1>4. ASSUME NEW y \in S PROVE x <= y
  <2>1. SUFFICES ASSUME y < x PROVE <<y, x>> \in R
    BY <1>3
  <2>2. <<y, x>> \in Nat \X Nat /\ <<y, x>>[1] < <<y, x>>[2]
    BY <2>1
  <2> QED BY <2>2 DEF R
<1> QED BY <1>4

\* Among the subsets of a finite set that have a property, one is smallest.
LEMMA SmallestSubset ==
  ASSUME NEW S, IsFiniteSet(S), NEW B \in SUBSET SUBSET S, B # {}
  PROVE  \E T \in B : \A U \in SUBSET T : U # T => U \notin B
<1> DEFINE R == StrictSubsetOrdering(S)
<1>1. IsWellFoundedOn(R, SUBSET S)
  BY FS_StrictSubsetOrderingWellFounded, FS_FiniteSubsetsOfFinite, Zenon
<1>2. PICK T \in B : \A U \in B : ~(<<U, T>> \in R)
  <2> HIDE DEF R
  <2> QED BY <1>1, WFMin, Zenon
<1>3. ASSUME NEW U \in SUBSET T, U # T PROVE U \notin B
  <2>1. U \in B => <<U, T>> \in R
    BY <1>3 DEF StrictSubsetOrdering
  <2> QED BY <1>2, <2>1
<1> QED BY <1>2, <1>3

-----------------------------------------------------------------------------
(* The recursive definition                                                *)

\* The element the definition takes out of a set first.
Pick(T) == CHOOSE x \in T : TRUE

\* g is the sum of f over every subset of T, by that recursion.
Unfolds(f, T, g) ==
  g = [s \in SUBSET T |-> IF s = {} THEN 0 ELSE f[Pick(s)] + g[s \ {Pick(s)}]]

\* What the library defines a sum to be.
LEMMA SumDef ==
  ASSUME NEW f, NEW T
  PROVE  SumFunctionOnSet(f, T) = (CHOOSE g : Unfolds(f, T, g))[T]
BY DEF SumFunctionOnSet, FoldFunctionOnSet, MapThenFoldSet, Unfolds, Pick

\* Two functions that unfold the sum agree wherever both are defined.
LEMMA UnfoldsAgree ==
  ASSUME NEW f, NEW S, NEW T, IsFiniteSet(S),
         NEW g, Unfolds(f, S, g), NEW h, Unfolds(f, T, h)
  PROVE  \A U \in SUBSET (S \cap T) : g[U] = h[U]
<1> DEFINE B == {U \in SUBSET S : U \subseteq T /\ g[U] # h[U]}
<1>1. SUFFICES ASSUME B # {} PROVE FALSE
  OBVIOUS
<1>2. PICK U \in B : \A V \in SUBSET U : V # U => V \notin B
  <2> B \in SUBSET SUBSET S
    OBVIOUS
  <2> HIDE DEF B
  <2> QED BY <1>1, SmallestSubset
<1>3. /\ g[U] = IF U = {} THEN 0 ELSE f[Pick(U)] + g[U \ {Pick(U)}]
      /\ h[U] = IF U = {} THEN 0 ELSE f[Pick(U)] + h[U \ {Pick(U)}]
  BY <1>2 DEF Unfolds
<1>4. CASE U = {}
  BY <1>2, <1>3, <1>4
<1>5. CASE U # {}
  <2>1. Pick(U) \in U
    BY <1>5 DEF Pick
  <2>2. g[U \ {Pick(U)}] = h[U \ {Pick(U)}]
    BY <1>2, <2>1
  <2> QED BY <1>2, <1>3, <1>5, <2>2
<1> QED BY <1>4, <1>5

\* The recursive definition of a sum over a finite set defines something.
LEMMA UnfoldingExists ==
  ASSUME NEW f, NEW S, IsFiniteSet(S)
  PROVE  \A T \in SUBSET S : \E g : Unfolds(f, T, g)
<1> DEFINE B == {T \in SUBSET S : ~\E g : Unfolds(f, T, g)}
<1>1. SUFFICES ASSUME B # {} PROVE FALSE
  OBVIOUS
<1>2. PICK T \in B : \A U \in SUBSET T : U # T => U \notin B
  <2> B \in SUBSET SUBSET S
    OBVIOUS
  <2> HIDE DEF B
  <2> QED BY <1>1, SmallestSubset
<1> DEFINE F(U) == CHOOSE g : Unfolds(f, U, g)
           G == [s \in SUBSET T |-> IF s = {} THEN 0
                   ELSE f[Pick(s)] + F(s \ {Pick(s)})[s \ {Pick(s)}]]
<1>3. \A U \in SUBSET T : U # T => Unfolds(f, U, F(U))
  BY <1>2
<1>4. ASSUME NEW s \in SUBSET T, s # {}
      PROVE  F(s \ {Pick(s)})[s \ {Pick(s)}] = G[s \ {Pick(s)}]
  <2> DEFINE u == s \ {Pick(s)}
             v == u \ {Pick(u)}
  <2>1. Pick(s) \in s
    BY <1>4 DEF Pick
  <2>2. u \in SUBSET T /\ u # T
    BY <2>1
  <2>3. Unfolds(f, u, F(u))
    BY <1>3, <2>2
  <2>4. F(u)[u] = IF u = {} THEN 0 ELSE f[Pick(u)] + F(u)[v]
    <3> HIDE DEF F
    <3> QED BY <2>3 DEF Unfolds
  <2>5. G[u] = IF u = {} THEN 0 ELSE f[Pick(u)] + F(v)[v]
    BY <2>2
  <2>6. CASE u = {}
    BY <2>4, <2>5, <2>6
  <2>7. CASE u # {}
    <3>1. Pick(u) \in u
      BY <2>7 DEF Pick
    <3>2. v \in SUBSET T /\ v # T
      BY <2>2, <3>1
    <3>3. Unfolds(f, v, F(v))
      BY <1>3, <3>2
    <3>4. IsFiniteSet(u)
      BY <2>2, FS_Subset
    <3>5. F(u)[v] = F(v)[v]
      <4> HIDE DEF F, u
      <4>1. v \in SUBSET (u \cap v)
        OBVIOUS
      <4> HIDE DEF v
      <4> QED BY <2>3, <3>3, <3>4, <4>1, UnfoldsAgree
    <3> QED BY <2>4, <2>5, <3>5
  <2> QED BY <2>6, <2>7
<1>5. Unfolds(f, T, G)
  <2> DEFINE Term(s) == f[Pick(s)] + F(s \ {Pick(s)})[s \ {Pick(s)}]
  <2>1. G = [s \in SUBSET T |-> IF s = {} THEN 0 ELSE Term(s)]
    OBVIOUS
  <2>2. \A s \in SUBSET T : s # {} => Term(s) = f[Pick(s)] + G[s \ {Pick(s)}]
    BY <1>4
  <2> HIDE DEF Term, G
  <2> QED BY <2>1, <2>2 DEF Unfolds
<1> QED BY <1>2, <1>5

\* One step of the recursion.
LEMMA SumUnfolds ==
  ASSUME NEW f, NEW T, IsFiniteSet(T)
  PROVE  SumFunctionOnSet(f, T) =
           IF T = {} THEN 0
           ELSE f[Pick(T)] + SumFunctionOnSet(f, T \ {Pick(T)})
<1> DEFINE F(U) == CHOOSE g : Unfolds(f, U, g)
<1> DEFINE u == T \ {Pick(T)}
<1>1. Unfolds(f, T, F(T)) /\ Unfolds(f, u, F(u))
  BY UnfoldingExists
<1>2. F(T)[T] = IF T = {} THEN 0 ELSE f[Pick(T)] + F(T)[u]
  <2> HIDE DEF F
  <2> QED BY <1>1 DEF Unfolds
<1>3. F(T)[u] = F(u)[u]
  <2> u \in SUBSET (T \cap u)
    OBVIOUS
  <2> HIDE DEF F, u
  <2> QED BY <1>1, UnfoldsAgree
<1>4. SumFunctionOnSet(f, T) = F(T)[T] /\ SumFunctionOnSet(f, u) = F(u)[u]
  BY SumDef
<1> QED BY <1>2, <1>3, <1>4

-----------------------------------------------------------------------------

(* What holds of sums of integers                                          *)

\* A sum of integers is an integer.
LEMMA SumIsInt ==
  ASSUME NEW f, NEW S, IsFiniteSet(S), \A x \in S : f[x] \in Int
  PROVE  SumFunctionOnSet(f, S) \in Int
<1> DEFINE B == {T \in SUBSET S : SumFunctionOnSet(f, T) \notin Int}
<1>1. SUFFICES ASSUME B # {} PROVE FALSE
  OBVIOUS
<1>2. PICK T \in B : \A U \in SUBSET T : U # T => U \notin B
  <2> B \in SUBSET SUBSET S
    OBVIOUS
  <2> HIDE DEF B
  <2> QED BY <1>1, SmallestSubset
<1>3. IsFiniteSet(T)
  BY FS_Subset
<1>4. T # {}
  BY <1>2, <1>3, SumUnfolds
<1>5. Pick(T) \in T
  BY <1>4 DEF Pick
<1>6. SumFunctionOnSet(f, T \ {Pick(T)}) \in Int
  BY <1>2, <1>5
<1> QED BY <1>2, <1>3, <1>4, <1>5, <1>6, SumUnfolds

\* Any term can be taken out of a sum first.
LEMMA SumWithout ==
  ASSUME NEW f, NEW S, IsFiniteSet(S), \A x \in S : f[x] \in Int,
         NEW x \in S
  PROVE  SumFunctionOnSet(f, S) = f[x] + SumFunctionOnSet(f, S \ {x})
<1> DEFINE Sum(T) == SumFunctionOnSet(f, T)
           B == {T \in SUBSET S :
                   \E y \in T : Sum(T) # f[y] + Sum(T \ {y})}
<1>1. SUFFICES ASSUME B # {} PROVE FALSE
  OBVIOUS
<1>2. PICK T \in B : \A U \in SUBSET T : U # T => U \notin B
  <2> B \in SUBSET SUBSET S
    OBVIOUS
  <2> HIDE DEF B
  <2> QED BY <1>1, SmallestSubset
<1>3. PICK y \in T : Sum(T) # f[y] + Sum(T \ {y})
  BY <1>2
<1> DEFINE z == Pick(T)
<1>4. z \in T
  BY <1>3 DEF Pick
<1>5. Sum(T) = f[z] + Sum(T \ {z})
  BY <1>3, FS_Subset, SumUnfolds
<1>6. y # z
  BY <1>3, <1>5
<1> DEFINE W == T \ {y, z}
<1>7. Sum(T \ {z}) = f[y] + Sum(W)
  <2>1. T \ {z} \notin B
    BY <1>2, <1>4
  <2>2. (T \ {z}) \ {y} = W
    OBVIOUS
  <2> QED BY <2>1, <2>2, <1>6
<1>8. Sum(T \ {y}) = f[z] + Sum(W)
  <2>1. T \ {y} \notin B
    BY <1>2
  <2>2. (T \ {y}) \ {z} = W
    OBVIOUS
  <2> QED BY <2>1, <2>2, <1>4, <1>6
<1>9. Sum(W) \in Int /\ f[y] \in Int /\ f[z] \in Int
  <2>1. IsFiniteSet(W)
    BY FS_Subset
  <2> QED BY <2>1, <1>4, SumIsInt
<1> HIDE DEF B, Sum, W, z
<1> QED BY <1>3, <1>5, <1>7, <1>8, <1>9

\* A sum over nothing is nothing.
LEMMA SumOfNone == ASSUME NEW f PROVE SumFunctionOnSet(f, {}) = 0
BY FS_EmptySet, SumUnfolds

\* Larger terms, larger sum.
LEMMA SumMonotone ==
  ASSUME NEW S, IsFiniteSet(S), NEW f, NEW g,
         \A x \in S : f[x] \in Int /\ g[x] \in Int /\ f[x] <= g[x]
  PROVE  SumFunctionOnSet(f, S) <= SumFunctionOnSet(g, S)
<1> DEFINE B == {T \in SUBSET S : ~(SumFunctionOnSet(f, T) <= SumFunctionOnSet(g, T))}
<1>1. SUFFICES ASSUME B # {} PROVE FALSE
  OBVIOUS
<1>2. PICK T \in B : \A U \in SUBSET T : U # T => U \notin B
  <2> B \in SUBSET SUBSET S
    OBVIOUS
  <2> HIDE DEF B
  <2> QED BY <1>1, SmallestSubset
<1>3. IsFiniteSet(T)
  BY FS_Subset
<1>4. T # {}
  <2>1. SUFFICES ASSUME T = {}
                 PROVE  SumFunctionOnSet(f, T) <= SumFunctionOnSet(g, T)
    BY <1>2
  <2>2. SumFunctionOnSet(f, T) = 0 /\ SumFunctionOnSet(g, T) = 0
    BY <2>1, SumOfNone
  <2> QED BY <2>2
<1>5. PICK x \in T : TRUE
  BY <1>4
<1> DEFINE W == T \ {x}
<1>6. W \in SUBSET T /\ W # T /\ IsFiniteSet(W)
  BY <1>3, <1>5, FS_Subset
<1>7. SumFunctionOnSet(f, W) <= SumFunctionOnSet(g, W)
  BY <1>2, <1>6
<1>8. /\ SumFunctionOnSet(f, T) = f[x] + SumFunctionOnSet(f, W)
      /\ SumFunctionOnSet(g, T) = g[x] + SumFunctionOnSet(g, W)
  BY <1>3, SumWithout
<1>9. SumFunctionOnSet(f, W) \in Int /\ SumFunctionOnSet(g, W) \in Int
  BY <1>6, SumIsInt
<1> HIDE DEF W
<1> QED BY <1>2, <1>7, <1>8, <1>9

\* The sum depends on the terms in the set only.
LEMMA SumAgrees ==
  ASSUME NEW S, IsFiniteSet(S), NEW f, NEW g,
         \A x \in S : f[x] \in Int /\ f[x] = g[x]
  PROVE  SumFunctionOnSet(f, S) = SumFunctionOnSet(g, S)
<1>1. /\ SumFunctionOnSet(f, S) <= SumFunctionOnSet(g, S)
      /\ SumFunctionOnSet(g, S) <= SumFunctionOnSet(f, S)
  BY SumMonotone
<1>2. SumFunctionOnSet(f, S) \in Int /\ SumFunctionOnSet(g, S) \in Int
  BY SumIsInt
<1> QED BY <1>1, <1>2

\* Nothing adds up to nothing.
LEMMA SumOfZeros ==
  ASSUME NEW S, IsFiniteSet(S), NEW f, \A x \in S : f[x] = 0
  PROVE  SumFunctionOnSet(f, S) = 0
<1> DEFINE B == {T \in SUBSET S : ~(SumFunctionOnSet(f, T) = 0)}
<1>1. SUFFICES ASSUME B # {} PROVE FALSE
  OBVIOUS
<1>2. PICK T \in B : \A U \in SUBSET T : U # T => U \notin B
  <2> B \in SUBSET SUBSET S
    OBVIOUS
  <2> HIDE DEF B
  <2> QED BY <1>1, SmallestSubset
<1>3. IsFiniteSet(T)
  BY FS_Subset
<1>4. T # {}
  <2>1. \A k : SumFunctionOnSet(k, {}) = 0
    BY SumOfNone
  <2> QED BY <1>2, <2>1
<1>5. PICK x \in T : TRUE
  BY <1>4
<1> DEFINE W == T \ {x}
<1>6. W \in SUBSET T /\ W # T /\ IsFiniteSet(W)
  BY <1>3, <1>5, FS_Subset
<1>7. SumFunctionOnSet(f, W) = 0
  BY <1>2, <1>6
<1>8. SumFunctionOnSet(f, T) = f[x] + SumFunctionOnSet(f, W)
  BY <1>3, SumWithout
<1> HIDE DEF W
<1> QED BY <1>2, <1>7, <1>8

\* A sum of natural numbers is one.
LEMMA SumIsNat ==
  ASSUME NEW S, IsFiniteSet(S), NEW f, \A x \in S : f[x] \in Nat
  PROVE  SumFunctionOnSet(f, S) \in Nat
<1> DEFINE z == [x \in S |-> 0]
<1>1. SumFunctionOnSet(z, S) = 0
  BY SumOfZeros
<1>2. SumFunctionOnSet(z, S) <= SumFunctionOnSet(f, S)
  BY SumMonotone
<1>3. SumFunctionOnSet(f, S) \in Int
  BY SumIsInt
<1> QED BY <1>1, <1>2, <1>3

\* A sum changes by what its one changed term changes by.
LEMMA SumChanges ==
  ASSUME NEW S, IsFiniteSet(S), NEW f, NEW g, NEW x \in S,
         \A y \in S : f[y] \in Int /\ g[y] \in Int,
         \A y \in S \ {x} : f[y] = g[y]
  PROVE  SumFunctionOnSet(g, S) = SumFunctionOnSet(f, S) - f[x] + g[x]
<1> DEFINE W == S \ {x}
<1>1. IsFiniteSet(W)
  BY FS_Subset
<1>2. SumFunctionOnSet(f, W) = SumFunctionOnSet(g, W)
  BY <1>1, SumAgrees
<1>3. /\ SumFunctionOnSet(f, S) = f[x] + SumFunctionOnSet(f, W)
      /\ SumFunctionOnSet(g, S) = g[x] + SumFunctionOnSet(g, W)
  BY SumWithout
<1>4. SumFunctionOnSet(f, W) \in Int
  BY <1>1, SumIsInt
<1> HIDE DEF W
<1> QED BY <1>2, <1>3, <1>4

\* If no term but that of x rises, and that by d, so does the sum.
LEMMA SumRises ==
  ASSUME NEW S, IsFiniteSet(S), NEW f, NEW g, NEW x \in S, NEW d \in Int,
         \A y \in S : f[y] \in Int /\ g[y] \in Int,
         \A y \in S \ {x} : g[y] <= f[y],
         g[x] <= f[x] + d
  PROVE  SumFunctionOnSet(g, S) <= SumFunctionOnSet(f, S) + d
<1> DEFINE h == [y \in S |-> IF y = x THEN f[y] + d ELSE f[y]]
<1>1. /\ \A y \in S : h[y] \in Int /\ g[y] <= h[y]
      /\ \A y \in S \ {x} : f[y] = h[y]
      /\ h[x] = f[x] + d
  OBVIOUS
<1> HIDE DEF h
<1>2. SumFunctionOnSet(g, S) <= SumFunctionOnSet(h, S)
  BY <1>1, SumMonotone
<1>3. SumFunctionOnSet(h, S) = SumFunctionOnSet(f, S) - f[x] + h[x]
  BY <1>1, SumChanges
<1>4. /\ SumFunctionOnSet(f, S) \in Int /\ SumFunctionOnSet(g, S) \in Int
      /\ f[x] \in Int
  BY SumIsInt
<1> QED BY <1>1, <1>2, <1>3, <1>4

\* A sum over two disjoint sets is the sum of the two sums.
LEMMA SumOfUnion ==
  ASSUME NEW S, IsFiniteSet(S), NEW R, IsFiniteSet(R), R \cap S = {},
         NEW f, \A x \in R \cup S : f[x] \in Int
  PROVE  SumFunctionOnSet(f, R \cup S)
           = SumFunctionOnSet(f, R) + SumFunctionOnSet(f, S)
<1> DEFINE Sum(T) == SumFunctionOnSet(f, T)
<1> DEFINE B == {T \in SUBSET S : ~(Sum(R \cup T) = Sum(R) + Sum(T))}
<1>1. SUFFICES ASSUME B # {} PROVE FALSE
  OBVIOUS
<1>2. PICK T \in B : \A U \in SUBSET T : U # T => U \notin B
  <2> B \in SUBSET SUBSET S
    OBVIOUS
  <2> HIDE DEF B
  <2> QED BY <1>1, SmallestSubset
<1>3. IsFiniteSet(T)
  BY FS_Subset
<1>4. T # {}
  <2>1. CASE T = {}
    <3>1. Sum(T) = 0 /\ Sum(R \cup T) = Sum(R) /\ Sum(R) \in Int
      BY <2>1, SumOfNone, SumIsInt
    <3> HIDE DEF Sum
    <3> QED BY <1>2, <3>1
  <2> QED BY <2>1
<1>5. PICK x \in T : TRUE
  BY <1>4
<1> DEFINE W == T \ {x}
<1>6. W \in SUBSET T /\ W # T /\ IsFiniteSet(W)
  BY <1>3, <1>5, FS_Subset
<1>7. Sum(R \cup W) = Sum(R) + Sum(W)
  BY <1>2, <1>6
<1>8. Sum(T) = f[x] + Sum(W)
  BY <1>3, SumWithout
<1>9. Sum(R \cup T) = f[x] + Sum(R \cup W)
  <2>1. IsFiniteSet(R \cup T)
    BY <1>3, FS_Union
  <2>2. (R \cup T) \ {x} = R \cup W
    OBVIOUS
  <2>3. Sum(R \cup T) = f[x] + Sum((R \cup T) \ {x})
    BY <2>1, SumWithout
  <2> QED BY <2>2, <2>3
<1>10. Sum(W) \in Int /\ Sum(R) \in Int /\ f[x] \in Int
  BY <1>6, SumIsInt
<1> HIDE DEF W, Sum
<1> QED BY <1>2, <1>7, <1>8, <1>9, <1>10

\* Fewer terms, smaller sum.
LEMMA SumOfSubset ==
  ASSUME NEW S, IsFiniteSet(S), NEW R \in SUBSET S,
         NEW f, \A x \in S : f[x] \in Nat
  PROVE  SumFunctionOnSet(f, R) <= SumFunctionOnSet(f, S)
<1> DEFINE W == S \ R
<1>1. IsFiniteSet(R) /\ IsFiniteSet(W) /\ R \cup W = S /\ R \cap W = {}
  BY FS_Subset
<1>2. SumFunctionOnSet(f, R \cup W)
        = SumFunctionOnSet(f, R) + SumFunctionOnSet(f, W)
  BY <1>1, SumOfUnion
<1>3. SumFunctionOnSet(f, R) \in Nat /\ SumFunctionOnSet(f, W) \in Nat
  BY <1>1, SumIsNat
<1>4. SumFunctionOnSet(f, R \cup W) = SumFunctionOnSet(f, S)
  BY <1>1
<1> HIDE DEF W
<1> QED BY <1>2, <1>3, <1>4

\* Sums add up term by term.
LEMMA SumOfSums ==
  ASSUME NEW S, IsFiniteSet(S), NEW f, NEW g, NEW h,
         \A x \in S : f[x] \in Int /\ g[x] \in Int /\ h[x] = f[x] + g[x]
  PROVE  SumFunctionOnSet(h, S)
           = SumFunctionOnSet(f, S) + SumFunctionOnSet(g, S)
<1> DEFINE Sum(k, T) == SumFunctionOnSet(k, T)
<1> DEFINE B == {T \in SUBSET S : ~(Sum(h, T) = Sum(f, T) + Sum(g, T))}
<1>1. SUFFICES ASSUME B # {} PROVE FALSE
  OBVIOUS
<1>2. PICK T \in B : \A U \in SUBSET T : U # T => U \notin B
  <2> B \in SUBSET SUBSET S
    OBVIOUS
  <2> HIDE DEF B
  <2> QED BY <1>1, SmallestSubset
<1>3. IsFiniteSet(T)
  BY FS_Subset
<1>4. T # {}
  <2>1. \A k : SumFunctionOnSet(k, {}) = 0
    BY SumOfNone
  <2> QED BY <1>2, <2>1
<1>5. PICK x \in T : TRUE
  BY <1>4
<1> DEFINE W == T \ {x}
<1>6. W \in SUBSET T /\ W # T /\ IsFiniteSet(W)
  BY <1>3, <1>5, FS_Subset
<1>7. Sum(h, W) = Sum(f, W) + Sum(g, W)
  BY <1>2, <1>6
<1>8. /\ Sum(h, T) = h[x] + Sum(h, W) /\ Sum(f, T) = f[x] + Sum(f, W)
      /\ Sum(g, T) = g[x] + Sum(g, W)
  BY <1>3, SumWithout
<1>9. Sum(f, W) \in Int /\ Sum(g, W) \in Int
  BY <1>6, SumIsInt
<1> HIDE DEF W, Sum
<1> QED BY <1>2, <1>7, <1>8, <1>9

\* A common factor can be taken out.
LEMMA SumOfProducts ==
  ASSUME NEW S, IsFiniteSet(S), NEW f, NEW g, NEW c \in Int,
         \A x \in S : f[x] \in Int /\ g[x] = f[x] * c
  PROVE  SumFunctionOnSet(g, S) = SumFunctionOnSet(f, S) * c
<1> DEFINE Sum(k, T) == SumFunctionOnSet(k, T)
<1> DEFINE B == {T \in SUBSET S : ~(Sum(g, T) = Sum(f, T) * c)}
<1>1. SUFFICES ASSUME B # {} PROVE FALSE
  OBVIOUS
<1>2. PICK T \in B : \A U \in SUBSET T : U # T => U \notin B
  <2> B \in SUBSET SUBSET S
    OBVIOUS
  <2> HIDE DEF B
  <2> QED BY <1>1, SmallestSubset
<1>3. IsFiniteSet(T)
  BY FS_Subset
<1>4. T # {}
  <2>1. SUFFICES ASSUME T = {} PROVE Sum(g, T) = Sum(f, T) * c
    BY <1>2
  <2>2. Sum(f, T) = 0 /\ Sum(g, T) = 0
    BY <2>1, SumOfNone
  <2> HIDE DEF Sum
  <2> QED BY <2>2
<1>5. PICK x \in T : TRUE
  BY <1>4
<1> DEFINE W == T \ {x}
<1>6. W \in SUBSET T /\ W # T /\ IsFiniteSet(W)
  BY <1>3, <1>5, FS_Subset
<1>7. Sum(g, W) = Sum(f, W) * c
  BY <1>2, <1>6
<1>8. Sum(g, T) = g[x] + Sum(g, W) /\ Sum(f, T) = f[x] + Sum(f, W)
  BY <1>3, SumWithout
<1>9. Sum(f, W) \in Int /\ f[x] \in Int
  BY <1>6, SumIsInt
<1> HIDE DEF W, Sum
<1> QED BY <1>2, <1>7, <1>8, <1>9

\* A sum does not depend on the names of its terms: h renames the elements of
\* S, no two alike.
LEMMA SumRenamed ==
  ASSUME NEW S, IsFiniteSet(S), NEW f, NEW g, NEW h,
         \A x \in S : f[x] \in Int /\ g[h[x]] = f[x],
         \A x, y \in S : h[x] = h[y] => x = y
  PROVE  SumFunctionOnSet(g, {h[x] : x \in S}) = SumFunctionOnSet(f, S)
<1> DEFINE Image(T) == {h[x] : x \in T}
           B == {T \in SUBSET S : ~(SumFunctionOnSet(g, Image(T))
                                      = SumFunctionOnSet(f, T))}
<1>1. SUFFICES ASSUME B # {} PROVE FALSE
  OBVIOUS
<1>2. PICK T \in B : \A U \in SUBSET T : U # T => U \notin B
  <2> B \in SUBSET SUBSET S
    OBVIOUS
  <2> HIDE DEF B
  <2> QED BY <1>1, SmallestSubset
<1>3. IsFiniteSet(T) /\ IsFiniteSet(Image(T))
  <2>1. IsFiniteSet(T)
    BY FS_Subset
  <2> DEFINE hT == [y \in T |-> h[y]]
  <2>2. hT \in [T -> Image(T)] /\ \A z \in Image(T) : \E y \in T : hT[y] = z
    OBVIOUS
  <2> HIDE DEF B, hT, Image
  <2>3. hT \in Surjection(T, Image(T))
    BY <2>2 DEF Surjection
  <2> QED BY <2>1, <2>3, FS_Surjection
<1>4. T # {}
  <2>1. SUFFICES ASSUME T = {}
                 PROVE  SumFunctionOnSet(g, Image(T)) = SumFunctionOnSet(f, T)
    BY <1>2
  <2>2. Image(T) = {}
    BY <2>1
  <2>3. SumFunctionOnSet(g, {}) = 0 /\ SumFunctionOnSet(f, {}) = 0
    BY SumOfNone
  <2> QED BY <2>1, <2>2, <2>3
<1>5. PICK x \in T : TRUE
  BY <1>4
<1> DEFINE W == T \ {x}
<1>6. W \in SUBSET T /\ W # T
  BY <1>5
<1>7. SumFunctionOnSet(g, Image(W)) = SumFunctionOnSet(f, W)
  BY <1>2, <1>6
<1>8. Image(W) = Image(T) \ {h[x]}
  OBVIOUS
<1>9. SumFunctionOnSet(f, T) = f[x] + SumFunctionOnSet(f, W)
  BY <1>3, SumWithout
<1>10. SumFunctionOnSet(g, Image(T))
         = g[h[x]] + SumFunctionOnSet(g, Image(T) \ {h[x]})
  <2>1. h[x] \in Image(T) /\ \A y \in Image(T) : g[y] \in Int
    OBVIOUS
  <2> HIDE DEF Image
  <2> QED BY <1>3, <2>1, SumWithout
<1> QED BY <1>2, <1>7, <1>8, <1>9, <1>10

\* A sum of zeros and ones counts its ones.
LEMMA SumCounts ==
  ASSUME NEW S, IsFiniteSet(S), NEW f, NEW R \in SUBSET S,
         \A x \in S : f[x] = IF x \in R THEN 1 ELSE 0
  PROVE  SumFunctionOnSet(f, S) = Cardinality(R)
<1> DEFINE B == {T \in SUBSET S :
                   ~(SumFunctionOnSet(f, T) = Cardinality(R \cap T))}
<1>1. SUFFICES ASSUME B # {} PROVE FALSE
  <2>1. R \cap S = R
    OBVIOUS
  <2> QED BY <1>1, <2>1
<1>2. PICK T \in B : \A U \in SUBSET T : U # T => U \notin B
  <2> B \in SUBSET SUBSET S
    OBVIOUS
  <2> HIDE DEF B
  <2> QED BY <1>1, SmallestSubset
<1>3. /\ IsFiniteSet(T) /\ IsFiniteSet(R \cap T)
      /\ \A x \in T : f[x] \in Int
  <2>1. T \in SUBSET S /\ R \cap T \in SUBSET S
    OBVIOUS
  <2> QED BY <2>1, FS_Subset
<1>4. T # {}
  <2>1. SUFFICES ASSUME T = {}
                 PROVE  SumFunctionOnSet(f, T) = Cardinality(R \cap T)
    BY <1>2
  <2>2. R \cap T = {}
    BY <2>1
  <2> QED BY <2>1, <2>2, SumOfNone, FS_EmptySet
<1>5. PICK x \in T : TRUE
  BY <1>4
<1> DEFINE W == T \ {x}
<1>6. SumFunctionOnSet(f, W) = Cardinality(R \cap W)
  <2>1. W \in SUBSET T /\ W # T
    BY <1>5
  <2> QED BY <1>2, <2>1
<1>7. SumFunctionOnSet(f, T) = f[x] + SumFunctionOnSet(f, W)
  BY <1>3, <1>5, SumWithout
<1>8. R \cap W = (R \cap T) \ {x}
  OBVIOUS
<1>9. /\ Cardinality((R \cap T) \ {x})
           = IF x \in R \cap T THEN Cardinality(R \cap T) - 1
                               ELSE Cardinality(R \cap T)
      /\ Cardinality(R \cap T) \in Nat
  BY <1>3, FS_RemoveElement, FS_CardinalityType
<1>10. f[x] = IF x \in R \cap T THEN 1 ELSE 0
  BY <1>5
<1>11. SumFunctionOnSet(f, W) = Cardinality((R \cap T) \ {x})
  BY <1>6, <1>8
<1> HIDE DEF W
<1>12. SumFunctionOnSet(f, T) = Cardinality(R \cap T)
  <2> DEFINE whole == Cardinality(R \cap T)
             rest  == Cardinality((R \cap T) \ {x})
             mine  == x \in R \cap T
  <2>1. /\ rest = IF mine THEN whole - 1 ELSE whole
        /\ whole \in Nat /\ f[x] = IF mine THEN 1 ELSE 0
        /\ SumFunctionOnSet(f, T) = f[x] + rest
    BY <1>7, <1>9, <1>10, <1>11
  <2> HIDE DEF whole, rest, mine
  <2>2. SumFunctionOnSet(f, T) = whole
    BY <2>1
  <2> QED BY <2>2 DEF whole
<1> QED BY <1>2, <1>12

\* The classes of a classification have together no more members than the
\* whole.
Class(R, class, x) == {r \in R : class[r] = x}

LEMMA SumOfClasses ==
  ASSUME NEW S, IsFiniteSet(S), NEW R, IsFiniteSet(R), NEW class, NEW f,
         \A x \in S : f[x] = Cardinality(Class(R, class, x))
  PROVE  SumFunctionOnSet(f, S) <= Cardinality(R)
<1> DEFINE Within(T) == {r \in R : class[r] \in T}
           B == {T \in SUBSET S :
                   ~(SumFunctionOnSet(f, T) = Cardinality(Within(T)))}
<1>1. SUFFICES ASSUME B # {} PROVE FALSE
  <2>1. SumFunctionOnSet(f, S) = Cardinality(Within(S))
    BY <1>1
  <2>2. Within(S) \in SUBSET R
    OBVIOUS
  <2> HIDE DEF Within
  <2>3. Cardinality(Within(S)) <= Cardinality(R)
    BY <2>2, FS_Subset
  <2> QED BY <2>1, <2>3
<1>2. PICK T \in B : \A U \in SUBSET T : U # T => U \notin B
  <2> B \in SUBSET SUBSET S
    OBVIOUS
  <2> HIDE DEF B
  <2> QED BY <1>1, SmallestSubset
<1>3. \A U : IsFiniteSet(Within(U)) /\ Cardinality(Within(U)) \in Nat
  <2>1. \A U : Within(U) \in SUBSET R
    OBVIOUS
  <2> HIDE DEF Within
  <2> QED BY <2>1, FS_Subset, FS_CardinalityType
<1>4. T # {}
  <2>1. SUFFICES ASSUME T = {}
                 PROVE  SumFunctionOnSet(f, T) = Cardinality(Within(T))
    BY <1>2
  <2>2. Within(T) = {}
    BY <2>1
  <2> QED BY <2>1, <2>2, SumOfNone, FS_EmptySet
<1>5. PICK x \in T : TRUE
  BY <1>4
<1> DEFINE W == T \ {x}
<1>6. SumFunctionOnSet(f, W) = Cardinality(Within(W))
  <2>1. W \in SUBSET T /\ W # T
    BY <1>5
  <2> QED BY <1>2, <2>1
<1>7. f[x] = Cardinality(Within({x}))
  <2>1. Within({x}) = Class(R, class, x) /\ x \in S
    BY <1>2, <1>5 DEF Class
  <2> QED BY <2>1
<1>8. SumFunctionOnSet(f, T) = f[x] + SumFunctionOnSet(f, W)
  <2>1. IsFiniteSet(T)
    BY <1>2, FS_Subset
  <2>2. \A y \in T : f[y] \in Int
    <3> SUFFICES ASSUME NEW y \in T PROVE f[y] \in Int
      OBVIOUS
    <3>1. Within({y}) = Class(R, class, y) /\ y \in S
      BY <1>2 DEF Class
    <3>2. f[y] = Cardinality(Within({y}))
      BY <3>1
    <3> HIDE DEF Within
    <3> QED BY <1>3, <3>2
  <2> QED BY <1>5, <2>1, <2>2, SumWithout
<1>9. Within(T) = Within(W) \cup Within({x}) /\ Within(W) \cap Within({x}) = {}
  BY <1>5
<1> HIDE DEF Within
<1>10. Cardinality(Within(T)) = Cardinality(Within(W)) + Cardinality(Within({x}))
  <2>1. Cardinality(Within(W) \cup Within({x}))
          = Cardinality(Within(W)) + Cardinality(Within({x}))
              - Cardinality(Within(W) \cap Within({x}))
    BY <1>3, FS_Union
  <2>2. Cardinality(Within(W) \cap Within({x})) = 0
    BY <1>9, FS_EmptySet
  <2>3. Cardinality(Within(T)) = Cardinality(Within(W) \cup Within({x}))
    BY <1>9
  <2> DEFINE a == Cardinality(Within(W))
             b == Cardinality(Within({x}))
  <2>4. a \in Nat /\ b \in Nat
    BY <1>3
  <2>5. Cardinality(Within(T)) = a + b - 0
    BY <2>1, <2>2, <2>3
  <2> HIDE DEF a, b
  <2>6. Cardinality(Within(T)) = a + b
    BY <2>4, <2>5
  <2> QED BY <2>6 DEF a, b
<1>11. SumFunctionOnSet(f, T) = Cardinality(Within(T))
  BY <1>3, <1>6, <1>7, <1>8, <1>10
<1> QED BY <1>2, <1>11
=============================================================================
