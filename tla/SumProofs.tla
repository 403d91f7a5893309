----------------------------- MODULE SumProofs -----------------------------
(***************************************************************************)
(* Induction over numbers, finite sets and ranks, the recursion theorem,   *)
(* and what SumFunctionOnSet computes: the sums of coins and of voting     *)
(* power that the modules are about.                                       *)
(*                                                                         *)
(* The induction theorems of the library take an operator, which no prover *)
(* here instantiates.  A well-founded relation has minimal elements, which *)
(* is a fact about sets, and from it follows induction for a given set of  *)
(* numbers or family of sets.                                              *)
(***************************************************************************)
EXTENDS Integers, FiniteSets, Functions, FiniteSetTheorems, NaturalsInduction, TLAPS

(* A non-empty set of numbers has a least element.                         *)
LEMMA Least ==
    ASSUME NEW S \in SUBSET Nat, S # {}
    PROVE  \E x \in S : \A y \in S : x <= y
<1>1. PICK x \in S : \A y \in S : ~(<<y, x>> \in OpToRel(<, Nat))
  BY Zenon, WFMin, NatLessThanWellFounded
<1>2. ASSUME NEW y \in S, y < x
      PROVE  FALSE
  <2>1. <<y, x>> \in Nat \X Nat /\ <<y, x>>[1] = y /\ <<y, x>>[2] = x
    OBVIOUS
  <2>2. <<y, x>> \in OpToRel(<, Nat)
    BY <1>2, <2>1 DEF OpToRel
  <2> QED
    BY Zenon, <1>1, <2>2
<1> QED
  BY <1>2

(* Induction: a set of numbers that holds 0 and with each number the next  *)
(* holds them all.                                                         *)
LEMMA Induct ==
    ASSUME NEW T \in SUBSET Nat, 0 \in T, \A n \in T : n + 1 \in T
    PROVE  T = Nat
<1> SUFFICES ASSUME Nat \ T # {} PROVE FALSE
  BY Zenon
<1>1. Nat \ T \in SUBSET Nat
  OBVIOUS
<1>2. PICK x \in Nat \ T : \A y \in Nat \ T : x <= y
  BY Zenon, <1>1, Least
<1>3. x - 1 \in Nat /\ x - 1 < x /\ (x - 1) + 1 = x
  BY <1>2
<1>4. x - 1 \in T
  BY <1>2, <1>3
<1> QED
  BY <1>2, <1>3, <1>4

(* Induction over the subsets of a finite set: a family that holds a       *)
(* subset when it holds every smaller one within it holds the whole set.   *)
LEMMA FiniteInduct ==
    ASSUME NEW S, IsFiniteSet(S), NEW G \in SUBSET SUBSET S,
           \A s \in SUBSET S : (\A t \in SUBSET s : t # s => t \in G) => s \in G
    PROVE  S \in G
<1> SUFFICES ASSUME S \notin G PROVE FALSE
  OBVIOUS
<1> DEFINE bad == {Cardinality(s) : s \in (SUBSET S) \ G}
<1>1. \A s \in SUBSET S : IsFiniteSet(s) /\ Cardinality(s) \in Nat
  BY FS_Subset, FS_CardinalityType
<1>2. bad \in SUBSET Nat /\ bad # {}
  BY <1>1
<1>3. PICK n \in bad : \A m \in bad : n <= m
  <2> HIDE DEF bad
  <2> QED
    BY <1>2, Least
<1>4. PICK s \in (SUBSET S) \ G : n = Cardinality(s)
  OBVIOUS
<1>5. ASSUME NEW t \in SUBSET s, t # s PROVE t \in G
  <2>1. /\ Cardinality(t) \in Nat /\ Cardinality(s) \in Nat /\ Cardinality(t) <= Cardinality(s)
        /\ Cardinality(t) # Cardinality(s)
    BY <1>1, <1>5, FS_Subset
  <2>2. t \notin G => Cardinality(t) \in bad
    OBVIOUS
  <2> HIDE DEF bad
  <2> QED
    BY <1>3, <1>4, <2>1, <2>2
<1> QED
  BY <1>4, <1>5

(* Recursion: where step gives the value at d from the values at points of *)
(* lower rank, there is a function that satisfies the recursion.           *)
Depends(step, rank, D, R) ==
    \A d \in D : \A f, g \in [D -> R] :
        (\A e \in D : rank[e] < rank[d] => f[e] = g[e]) => step[<<d, f>>] = step[<<d, g>>]

(* f satisfies the recursion below rank n.                                 *)
Follows(f, step, rank, D, n) == \A d \in D : rank[d] < n => f[d] = step[<<d, f>>]

(* One that satisfies it below n extends to n.                             *)
LEMMA FollowExtends ==
    ASSUME NEW D, NEW R, NEW rank \in [D -> Nat], NEW step \in [D \X [D -> R] -> R],
           Depends(step, rank, D, R), NEW n \in Nat, NEW f \in [D -> R], Follows(f, step, rank, D, n)
    PROVE  \E g \in [D -> R] : Follows(g, step, rank, D, n + 1)
<1> DEFINE g == [d \in D |-> step[<<d, f>>]]
<1>1. \A d \in D : <<d, f>> \in D \X [D -> R]
  OBVIOUS
<1>2. g \in [D -> R]
  BY <1>1
<1>3. ASSUME NEW d \in D, rank[d] < n + 1 PROVE g[d] = step[<<d, g>>]
  <2>1. ASSUME NEW e \in D, rank[e] < rank[d] PROVE f[e] = g[e]
    <3>1. rank[e] < n
      BY <1>3, <2>1
    <3> QED
      BY <3>1 DEF Follows
  <2> HIDE DEF g
  <2>2. step[<<d, f>>] = step[<<d, g>>]
    BY Zenon, <1>2, <2>1 DEF Depends
  <2> QED
    BY <2>2 DEF g
<1> HIDE DEF g
<1> QED
  BY <1>2, <1>3 DEF Follows

(* For every n there is one that satisfies it below n.                     *)
LEMMA FollowsExist ==
    ASSUME NEW D, NEW R, R # {}, NEW rank \in [D -> Nat], NEW step \in [D \X [D -> R] -> R],
           Depends(step, rank, D, R)
    PROVE  \A n \in Nat : \E f \in [D -> R] : Follows(f, step, rank, D, n)
<1> DEFINE T == {n \in Nat : \E f \in [D -> R] : Follows(f, step, rank, D, n)}
<1>1. 0 \in T
  <2>1. PICK r \in R : TRUE
    OBVIOUS
  <2>2. [d \in D |-> r] \in [D -> R]
    OBVIOUS
  <2>3. Follows([d \in D |-> r], step, rank, D, 0)
    BY DEF Follows
  <2> QED
    BY Zenon, <2>2, <2>3
<1>2. \A n \in T : n + 1 \in T
  <2> SUFFICES ASSUME NEW n \in T PROVE n + 1 \in T
    BY Zenon
  <2>1. PICK f \in [D -> R] : Follows(f, step, rank, D, n)
    BY Zenon
  <2>2. \E g \in [D -> R] : Follows(g, step, rank, D, n + 1)
    BY Zenon, <2>1, FollowExtends
  <2> QED
    BY <2>2
<1>3. T = Nat
  <2>1. T \in SUBSET Nat
    BY Zenon
  <2> HIDE DEF T
  <2> QED
    BY Zenon, <1>1, <1>2, <2>1, Induct
<1> QED
  BY Zenon, <1>3

(* Two that satisfy it below m and n agree below both.                     *)
Agree(step, rank, D, R) ==
    \A m, n \in Nat : \A f, g \in [D -> R] :
        Follows(f, step, rank, D, m) /\ Follows(g, step, rank, D, n)
            => \A d \in D : rank[d] < m /\ rank[d] < n => f[d] = g[d]

(* They do, by induction on the rank.                                      *)
LEMMA FollowsAgree ==
    ASSUME NEW D, NEW R, NEW rank \in [D -> Nat], NEW step \in [D \X [D -> R] -> R],
           Depends(step, rank, D, R)
    PROVE  Agree(step, rank, D, R)
<1> SUFFICES ASSUME NEW m \in Nat, NEW n \in Nat, NEW f \in [D -> R], NEW g \in [D -> R],
                    Follows(f, step, rank, D, m), Follows(g, step, rank, D, n)
             PROVE  \A d \in D : rank[d] < m /\ rank[d] < n => f[d] = g[d]
  BY Zenon DEF Agree
<1> DEFINE T == {k \in Nat : \A d \in D : rank[d] < k /\ rank[d] < m /\ rank[d] < n => f[d] = g[d]}
<1>1. 0 \in T
  OBVIOUS
<1>2. \A k \in T : k + 1 \in T
  <2> SUFFICES ASSUME NEW k \in T, NEW d \in D, rank[d] < k + 1, rank[d] < m, rank[d] < n
               PROVE  f[d] = g[d]
    OBVIOUS
  <2>1. \A e \in D : rank[e] < rank[d] => f[e] = g[e]
    OBVIOUS
  <2>2. step[<<d, f>>] = step[<<d, g>>]
    BY Zenon, <2>1 DEF Depends
  <2> QED
    BY Zenon, <2>2 DEF Follows
<1>3. T = Nat
  <2>1. T \in SUBSET Nat
    BY Zenon
  <2> HIDE DEF T
  <2> QED
    BY Zenon, <1>1, <1>2, <2>1, Induct
<1>4. ASSUME NEW d \in D, rank[d] < m, rank[d] < n PROVE f[d] = g[d]
  <2>1. m \in T
    BY Zenon, <1>3
  <2> QED
    BY Zenon, <1>4, <2>1
<1> QED
  BY Zenon, <1>4

(* A function satisfies the recursion everywhere.                          *)
HasSolution(step, D, R) == \E f \in [D -> R] : \A d \in D : f[d] = step[<<d, f>>]

(* The recursion theorem: the value at d is the one of a function that     *)
(* satisfies the recursion up to the rank of d.                            *)
LEMMA Recursion ==
    ASSUME NEW D, NEW R, R # {}, NEW rank \in [D -> Nat], NEW step \in [D \X [D -> R] -> R],
           Depends(step, rank, D, R)
    PROVE  HasSolution(step, D, R)
<1> DEFINE Good(n) == CHOOSE f \in [D -> R] : Follows(f, step, rank, D, n)
           h == [d \in D |-> Good(rank[d] + 1)[d]]
<1>1. \A n \in Nat : Good(n) \in [D -> R] /\ Follows(Good(n), step, rank, D, n)
  BY Zenon, FollowsExist
<1>2. Agree(step, rank, D, R)
  BY Zenon, FollowsAgree
<1> HIDE DEF Good
<1>3. \A d \in D : rank[d] + 1 \in Nat
  OBVIOUS
<1>4. h \in [D -> R]
  BY <1>1, <1>3
<1>5. ASSUME NEW d \in D PROVE h[d] = step[<<d, h>>]
  <2> DEFINE g == Good(rank[d] + 1)
  <2>1. g \in [D -> R] /\ Follows(g, step, rank, D, rank[d] + 1)
    BY Zenon, <1>1, <1>3
  <2>2. g[d] = step[<<d, g>>]
    <3>1. rank[d] < rank[d] + 1
      OBVIOUS
    <3> HIDE DEF g
    <3> QED
      BY Zenon, <2>1, <3>1 DEF Follows
  <2>3. ASSUME NEW e \in D, rank[e] < rank[d] PROVE g[e] = h[e]
    <3>1. Good(rank[e] + 1) \in [D -> R] /\ Follows(Good(rank[e] + 1), step, rank, D, rank[e] + 1)
      BY Zenon, <1>1, <1>3
    <3>2. rank[e] < rank[d] + 1 /\ rank[e] < rank[e] + 1
      BY <2>3
    <3>3. h[e] = Good(rank[e] + 1)[e]
      BY Zenon
    <3> DEFINE k == Good(rank[e] + 1)
    <3>4. k \in [D -> R] /\ Follows(k, step, rank, D, rank[e] + 1)
      BY Zenon, <3>1
    <3> HIDE DEF g, h, k
    <3>5. \A x \in D : rank[x] < rank[d] + 1 /\ rank[x] < rank[e] + 1 => g[x] = k[x]
      <4> DEFINE m == rank[d] + 1
                 n == rank[e] + 1
      <4>1. m \in Nat /\ n \in Nat
        BY Zenon, <1>3
      <4>2. Follows(g, step, rank, D, m) /\ Follows(k, step, rank, D, n)
        BY Zenon, <2>1, <3>4
      <4> HIDE DEF m, n
      <4>3. \A x \in D : rank[x] < m /\ rank[x] < n => g[x] = k[x]
        BY Zenon, <1>2, <2>1, <3>4, <4>1, <4>2 DEF Agree
      <4> QED
        BY <4>3 DEF m, n
    <3> QED
      BY Zenon, <3>2, <3>3, <3>5 DEF k
  <2>4. step[<<d, g>>] = step[<<d, h>>]
    <3> HIDE DEF g, h
    <3> QED
      BY Zenon, <1>4, <2>1, <2>3 DEF Depends
  <2> QED
    BY Zenon, <2>2, <2>4
<1> HIDE DEF h
<1> QED
  BY Zenon, <1>4, <1>5 DEF HasSolution

(* T holds a point when it holds all of lower rank.                        *)
Inductive(T, rank, D) == \A d \in D : (\A e \in D : rank[e] < rank[d] => e \in T) => d \in T

(* Induction on a rank: such a set holds all points.                       *)
LEMMA RankInduct ==
    ASSUME NEW D, NEW rank \in [D -> Nat], NEW T \in SUBSET D, Inductive(T, rank, D)
    PROVE  T = D
<1> SUFFICES ASSUME D \ T # {} PROVE FALSE
  BY Zenon
<1> DEFINE bad == {rank[d] : d \in D \ T}
<1>1. bad \in SUBSET Nat /\ bad # {}
  OBVIOUS
<1>2. PICK n \in bad : \A m \in bad : n <= m
  <2> HIDE DEF bad
  <2> QED
    BY Zenon, <1>1, Least
<1>3. PICK d \in D \ T : n = rank[d]
  BY Zenon
<1>4. \A e \in D : rank[e] < rank[d] => e \in T
  BY <1>2, <1>3
<1> QED
  BY Zenon, <1>3, <1>4 DEF Inductive

(* The element a fold takes next.                                          *)
Pick(s) == CHOOSE x \in s : TRUE

(* g maps the sets of D to the sum of f over them, by the recursion of     *)
(* MapThenFoldSet.                                                         *)
IsSum(g, f, D) ==
    g = [s \in D |-> IF s = {} THEN 0 ELSE f[Pick(s)] + g[s \ {Pick(s)}]]

(* A sum is the value of a function that satisfies the recursion.          *)
LEMMA SumDef ==
    ASSUME NEW f, NEW S
    PROVE  SumFunctionOnSet(f, S) = (CHOOSE g : IsSum(g, f, SUBSET S))[S]
BY DEF SumFunctionOnSet, FoldFunctionOnSet, MapThenFoldSet, IsSum, Pick

(* A set without the element the fold takes has one element less.          *)
LEMMA Smaller ==
    ASSUME NEW s, s # {}, IsFiniteSet(s)
    PROVE  /\ Pick(s) \in s /\ IsFiniteSet(s \ {Pick(s)})
           /\ Cardinality(s \ {Pick(s)}) = Cardinality(s) - 1
           /\ Cardinality(s) \in Nat \ {0} /\ Cardinality(s \ {Pick(s)}) \in Nat
<1>1. Pick(s) \in s
  BY DEF Pick
<1>2. IsFiniteSet(s \ {Pick(s)}) /\ Cardinality(s \ {Pick(s)}) = Cardinality(s) - 1
  BY <1>1, FS_RemoveElement
<1>3. Cardinality(s) \in Nat /\ Cardinality(s \ {Pick(s)}) \in Nat
  BY <1>2, FS_CardinalityType
<1> QED
  BY <1>1, <1>2, <1>3

(* There is a function that satisfies the recursion: one for the subsets   *)
(* of up to n elements extends to those of n + 1.                          *)
LEMMA SumExists ==
    ASSUME NEW S, IsFiniteSet(S), NEW f
    PROVE  \E g : IsSum(g, f, SUBSET S)
<1> DEFINE D(n) == {s \in SUBSET S : Cardinality(s) <= n}
           T == {n \in Nat : \E g : IsSum(g, f, D(n))}
<1>0. \A s \in SUBSET S : IsFiniteSet(s) /\ Cardinality(s) \in Nat /\ Cardinality(s) <= Cardinality(S)
  BY FS_Subset, FS_CardinalityType
<1>1. 0 \in T
  <2>1. D(0) = {{}}
    <3>1. \A s \in SUBSET S : Cardinality(s) <= 0 => s = {}
      BY <1>0, FS_EmptySet
    <3> QED
      BY <3>1, FS_EmptySet
  <2>2. IsSum([s \in D(0) |-> 0], f, D(0))
    BY <2>1 DEF IsSum
  <2> QED
    BY Zenon, <2>2
<1>2. ASSUME NEW n \in T PROVE n + 1 \in T
  <2>1. PICK g : IsSum(g, f, D(n))
    OBVIOUS
  <2> DEFINE h == [s \in D(n + 1) |-> IF s = {} THEN 0 ELSE f[Pick(s)] + g[s \ {Pick(s)}]]
  <2>2. \A s \in D(n) : s \in D(n + 1) /\ h[s] = g[s]
    <3> SUFFICES ASSUME NEW s \in D(n) PROVE s \in D(n + 1) /\ h[s] = g[s]
      BY Zenon
    <3>1. s \in D(n + 1)
      BY <1>0
    <3>2. g[s] = IF s = {} THEN 0 ELSE f[Pick(s)] + g[s \ {Pick(s)}]
      <4> HIDE DEF D
      <4> QED
        BY Zenon, <2>1 DEF IsSum
    <3> HIDE DEF D
    <3> QED
      BY <3>1, <3>2
  <2>3. \A s \in D(n + 1) : s # {} => s \ {Pick(s)} \in D(n)
    <3> SUFFICES ASSUME NEW s \in D(n + 1), s # {} PROVE s \ {Pick(s)} \in D(n)
      OBVIOUS
    <3>1. Cardinality(s \ {Pick(s)}) = Cardinality(s) - 1 /\ Cardinality(s) \in Nat
      BY <1>0, Smaller
    <3> QED
      BY <3>1
  <2>4. IsSum(h, f, D(n + 1))
    <3>1. \A s \in D(n + 1) : h[s] = IF s = {} THEN 0 ELSE f[Pick(s)] + h[s \ {Pick(s)}]
      <4> HIDE DEF D
      <4> QED
        BY Zenon, <2>2, <2>3
    <3> HIDE DEF D
    <3> QED
      BY Zenon, <3>1 DEF IsSum
  <2>5. \E x : IsSum(x, f, D(n + 1))
    <3> HIDE DEF h, D
    <3> QED
      BY <2>4
  <2> HIDE DEF D
  <2> QED
    BY <2>5
<1>3. T = Nat
  <2> HIDE DEF T
  <2>1. T \in SUBSET Nat
    BY DEF T
  <2> QED
    BY <1>1, <1>2, <2>1, Induct
<1>4. D(Cardinality(S)) = SUBSET S
  BY <1>0
<1>5. Cardinality(S) \in T
  <2> HIDE DEF T
  <2> QED
    BY <1>0, <1>3
<1> QED
  BY <1>4, <1>5

(* All functions that satisfy the recursion agree.                         *)
LEMMA SumUnique ==
    ASSUME NEW S, IsFiniteSet(S), NEW f, NEW g, NEW h, IsSum(g, f, SUBSET S), IsSum(h, f, SUBSET S)
    PROVE  g[S] = h[S]
<1> DEFINE G == {s \in SUBSET S : g[s] = h[s]}
<1>1. \A s \in SUBSET S : /\ g[s] = IF s = {} THEN 0 ELSE f[Pick(s)] + g[s \ {Pick(s)}]
                          /\ h[s] = IF s = {} THEN 0 ELSE f[Pick(s)] + h[s \ {Pick(s)}]
  BY Zenon DEF IsSum
<1>2. ASSUME NEW s \in SUBSET S, \A t \in SUBSET s : t # s => t \in G PROVE s \in G
  <2>1. s # {} => s \ {Pick(s)} \in SUBSET s /\ s \ {Pick(s)} # s
    BY DEF Pick
  <2> QED
    BY Zenon, <1>1, <1>2, <2>1
<1>3. S \in G
  <2>1. G \in SUBSET SUBSET S
    OBVIOUS
  <2> HIDE DEF G
  <2> QED
    BY <1>2, <2>1, FiniteInduct
<1> QED
  BY <1>3

(* The sum over the empty set is 0, and over another one the term of the   *)
(* chosen element more than over the rest.                                 *)
LEMMA SumStep ==
    ASSUME NEW S, IsFiniteSet(S), NEW f
    PROVE  SumFunctionOnSet(f, S)
             = IF S = {} THEN 0 ELSE f[Pick(S)] + SumFunctionOnSet(f, S \ {Pick(S)})
<1> DEFINE g == CHOOSE x : IsSum(x, f, SUBSET S)
           R == S \ {Pick(S)}
           h == CHOOSE x : IsSum(x, f, SUBSET R)
<1>1. IsSum(g, f, SUBSET S)
  BY Zenon, SumExists
<1>2. IsFiniteSet(R)
  BY FS_Subset
<1>3. IsSum(h, f, SUBSET R)
  BY Zenon, <1>2, SumExists
<1>4. SumFunctionOnSet(f, S) = g[S] /\ SumFunctionOnSet(f, R) = h[R]
  BY Zenon, SumDef
<1> HIDE DEF g, h
<1>5. g[R] = h[R]
  <2> DEFINE k == [s \in SUBSET R |-> g[s]]
  <2>1. \A s \in SUBSET R : g[s] = IF s = {} THEN 0 ELSE f[Pick(s)] + g[s \ {Pick(s)}]
    BY Zenon, <1>1 DEF IsSum
  <2>2. IsSum(k, f, SUBSET R)
    <3>1. \A s \in SUBSET R : k[s] = IF s = {} THEN 0 ELSE f[Pick(s)] + k[s \ {Pick(s)}]
      <4>1. \A s \in SUBSET R : s \ {Pick(s)} \in SUBSET R
        OBVIOUS
      <4> HIDE DEF R
      <4> QED
        BY Zenon, <2>1, <4>1
    <3> QED
      BY Zenon, <3>1 DEF IsSum
  <2>3. k[R] = h[R]
    <3> HIDE DEF k, R
    <3> QED
      BY <1>2, <1>3, <2>2, SumUnique
  <2> QED
    BY <2>3
<1>6. g[S] = IF S = {} THEN 0 ELSE f[Pick(S)] + g[R]
  BY Zenon, <1>1 DEF IsSum
<1> QED
  BY <1>4, <1>5, <1>6

(* The sum of integers is an integer, and any element's term can be taken  *)
(* out of it.                                                              *)
LEMMA SumAny ==
    ASSUME NEW S, IsFiniteSet(S), NEW f, \A x \in S : f[x] \in Int
    PROVE  /\ SumFunctionOnSet(f, S) \in Int
           /\ \A x \in S : SumFunctionOnSet(f, S) = f[x] + SumFunctionOnSet(f, S \ {x})
<1> DEFINE Sum(s) == SumFunctionOnSet(f, s)
           Good(s) == Sum(s) \in Int /\ \A x \in s : Sum(s) = f[x] + Sum(s \ {x})
           G == {s \in SUBSET S : Good(s)}
<1>1. \A s \in SUBSET S : Sum(s) = IF s = {} THEN 0 ELSE f[Pick(s)] + Sum(s \ {Pick(s)})
  BY Zenon, FS_Subset, SumStep
<1> HIDE DEF Sum
<1>2. ASSUME NEW s \in SUBSET S, \A t \in SUBSET s : t # s => t \in G PROVE s \in G
  <2>1. CASE s = {}
    <3>1. Sum(s) = 0
      BY Zenon, <1>1, <2>1
    <3>2. Good(s)
      BY <2>1, <3>1
    <3> QED
      BY <3>2
  <2>2. CASE s # {}
    <3> DEFINE c == Pick(s)
    <3>1. c \in s /\ f[c] \in Int /\ Sum(s) = f[c] + Sum(s \ {c})
      BY Zenon, <1>1, <2>2 DEF Pick
    <3> HIDE DEF c
    <3>2. \A x, y \in s : Good(s \ {x}) /\ Good((s \ {x}) \ {y})
      <4> HIDE DEF Good
      <4> QED
        BY <1>2
    <3>3. Sum(s) \in Int
      BY <3>1, <3>2
    <3>4. ASSUME NEW x \in s, x # c PROVE Sum(s) = f[x] + Sum(s \ {x})
      <4>1. Sum(s \ {c}) = f[x] + Sum((s \ {c}) \ {x})
        BY Zenon, <3>1, <3>2, <3>4
      <4>2. Sum(s \ {x}) = f[c] + Sum((s \ {x}) \ {c})
        BY <3>1, <3>2, <3>4
      <4>3. (s \ {c}) \ {x} = (s \ {x}) \ {c}
        OBVIOUS
      <4>4. Sum((s \ {c}) \ {x}) = Sum((s \ {x}) \ {c})
        BY <4>3
      <4>5. Sum((s \ {x}) \ {c}) \in Int /\ f[x] \in Int
        BY <3>1, <3>2
      <4> QED
        BY <3>1, <4>1, <4>2, <4>4, <4>5
    <3>5. Good(s)
      BY Zenon, <3>1, <3>3, <3>4
    <3> QED
      BY <3>5
  <2> QED
    BY <2>1, <2>2
<1>3. S \in G
  <2>1. G \in SUBSET SUBSET S
    OBVIOUS
  <2> HIDE DEF G
  <2> QED
    BY <1>2, <2>1, FiniteInduct
<1> QED
  BY <1>3 DEF Sum

(* The sum depends on the terms only.                                      *)
LEMMA SumSame ==
    ASSUME NEW S, IsFiniteSet(S), NEW f, NEW g, \A x \in S : f[x] = g[x]
    PROVE  SumFunctionOnSet(f, S) = SumFunctionOnSet(g, S)
<1> DEFINE G == {s \in SUBSET S : SumFunctionOnSet(f, s) = SumFunctionOnSet(g, s)}
<1>1. ASSUME NEW s \in SUBSET S, \A t \in SUBSET s : t # s => t \in G PROVE s \in G
  <2> DEFINE R == s \ {Pick(s)}
  <2>1. /\ SumFunctionOnSet(f, s) = IF s = {} THEN 0 ELSE f[Pick(s)] + SumFunctionOnSet(f, R)
        /\ SumFunctionOnSet(g, s) = IF s = {} THEN 0 ELSE g[Pick(s)] + SumFunctionOnSet(g, R)
    BY Zenon, FS_Subset, SumStep
  <2>2. s # {} => Pick(s) \in s /\ R \in SUBSET s /\ R # s
    BY DEF Pick
  <2>3. s # {} => SumFunctionOnSet(f, R) = SumFunctionOnSet(g, R) /\ f[Pick(s)] = g[Pick(s)]
    BY <1>1, <2>2
  <2> QED
    BY <2>1, <2>3
<1>2. S \in G
  <2>1. G \in SUBSET SUBSET S
    OBVIOUS
  <2> HIDE DEF G
  <2> QED
    BY <1>1, <2>1, FiniteInduct
<1> QED
  BY <1>2

(* A change of one term changes the sum by as much.                        *)
LEMMA SumChange ==
    ASSUME NEW S, IsFiniteSet(S), NEW f, \A y \in S : f[y] \in Int,
           NEW g, NEW x \in S, g[x] \in Int, \A y \in S \ {x} : g[y] = f[y]
    PROVE  SumFunctionOnSet(g, S) = SumFunctionOnSet(f, S) - f[x] + g[x]
<1> DEFINE R == S \ {x}
<1>1. IsFiniteSet(R)
  BY FS_Subset
<1>2. SumFunctionOnSet(f, R) \in Int
  BY <1>1, SumAny
<1>3. SumFunctionOnSet(g, R) = SumFunctionOnSet(f, R)
  BY <1>1, SumSame
<1>4. SumFunctionOnSet(f, S) = f[x] + SumFunctionOnSet(f, R)
  BY Zenon, SumAny
<1>5. \A y \in S : g[y] \in Int
  OBVIOUS
<1>6. SumFunctionOnSet(g, S) = g[x] + SumFunctionOnSet(g, R)
  BY <1>5, SumAny
<1> HIDE DEF R
<1> QED
  BY <1>2, <1>3, <1>4, <1>6

(* The sum over two disjoint sets is the sum of the sums.                  *)
LEMMA SumUnion ==
    ASSUME NEW A, IsFiniteSet(A), NEW B, IsFiniteSet(B), A \cap B = {},
           NEW f, \A x \in A \cup B : f[x] \in Int
    PROVE  SumFunctionOnSet(f, A \cup B) = SumFunctionOnSet(f, A) + SumFunctionOnSet(f, B)
<1> DEFINE Sum(s) == SumFunctionOnSet(f, s)
           G == {s \in SUBSET A : Sum(s \cup B) = Sum(s) + Sum(B)}
<1>0. \A s \in SUBSET A : /\ IsFiniteSet(s) /\ IsFiniteSet(s \cup B)
                          /\ Sum(s) \in Int /\ Sum(s \cup B) \in Int /\ Sum(B) \in Int
  <2>1. \A s \in SUBSET A : IsFiniteSet(s) /\ IsFiniteSet(s \cup B)
    BY Zenon, FS_Subset, FS_Union
  <2> QED
    BY <2>1, SumAny
<1>1. ASSUME NEW s \in SUBSET A, \A t \in SUBSET s : t # s => t \in G PROVE s \in G
  <2>1. CASE s = {}
    <3>1. Sum(s) = 0 /\ s \cup B = B
      BY Zenon, <2>1, FS_EmptySet, SumStep
    <3>2. Sum(s \cup B) = Sum(B)
      BY <3>1
    <3> HIDE DEF Sum
    <3> QED
      BY <1>0, <3>1, <3>2
  <2>2. CASE s # {}
    <3> DEFINE c == Pick(s)
               R == s \ {c}
    <3>1. c \in s /\ R \in SUBSET s /\ R # s /\ f[c] \in Int /\ (s \cup B) \ {c} = R \cup B
      BY <2>2 DEF Pick
    <3>2. Sum(s) = f[c] + Sum(R) /\ Sum(s \cup B) = f[c] + Sum((s \cup B) \ {c})
      BY Zenon, <1>0, <3>1, SumAny
    <3>3. Sum((s \cup B) \ {c}) = Sum(R \cup B)
      BY <3>1
    <3> HIDE DEF Sum, R, c
    <3>4. Sum(R \cup B) = Sum(R) + Sum(B)
      BY <1>1, <3>1
    <3>5. Sum(R) \in Int /\ Sum(B) \in Int
      BY Zenon, <1>0, <3>1
    <3>6. Sum(s \cup B) = Sum(s) + Sum(B)
      BY <3>1, <3>2, <3>3, <3>4, <3>5
    <3> QED
      BY <3>6
  <2> QED
    BY <2>1, <2>2
<1>2. A \in G
  <2>1. G \in SUBSET SUBSET A
    OBVIOUS
  <2> HIDE DEF G
  <2> QED
    BY <1>1, <2>1, FiniteInduct
<1> QED
  BY <1>2

(* A sum of natural numbers is one.                                        *)
LEMMA SumNat ==
    ASSUME NEW S, IsFiniteSet(S), NEW f, \A x \in S : f[x] \in Nat
    PROVE  SumFunctionOnSet(f, S) \in Nat
<1> DEFINE G == {s \in SUBSET S : SumFunctionOnSet(f, s) \in Nat}
<1>1. ASSUME NEW s \in SUBSET S, \A t \in SUBSET s : t # s => t \in G PROVE s \in G
  <2> DEFINE R == s \ {Pick(s)}
  <2>1. SumFunctionOnSet(f, s) = IF s = {} THEN 0 ELSE f[Pick(s)] + SumFunctionOnSet(f, R)
    BY Zenon, FS_Subset, SumStep
  <2>2. s # {} => Pick(s) \in s /\ R \in SUBSET s /\ R # s
    BY DEF Pick
  <2>3. s # {} => SumFunctionOnSet(f, R) \in Nat /\ f[Pick(s)] \in Nat
    BY <1>1, <2>2
  <2> HIDE DEF R
  <2> QED
    BY <2>1, <2>3
<1>2. S \in G
  <2>1. G \in SUBSET SUBSET S
    OBVIOUS
  <2> HIDE DEF G
  <2> QED
    BY <1>1, <2>1, FiniteInduct
<1> QED
  BY <1>2

(* A sum of zeros is zero.                                                 *)
LEMMA SumZero ==
    ASSUME NEW S, IsFiniteSet(S), NEW f, \A x \in S : f[x] = 0
    PROVE  SumFunctionOnSet(f, S) = 0
<1> DEFINE G == {s \in SUBSET S : SumFunctionOnSet(f, s) = 0}
<1>1. ASSUME NEW s \in SUBSET S, \A t \in SUBSET s : t # s => t \in G PROVE s \in G
  <2> DEFINE R == s \ {Pick(s)}
  <2>1. SumFunctionOnSet(f, s) = IF s = {} THEN 0 ELSE f[Pick(s)] + SumFunctionOnSet(f, R)
    BY Zenon, FS_Subset, SumStep
  <2>2. s # {} => Pick(s) \in s /\ R \in SUBSET s /\ R # s
    BY DEF Pick
  <2>3. s # {} => SumFunctionOnSet(f, R) = 0 /\ f[Pick(s)] = 0
    BY <1>1, <2>2
  <2> HIDE DEF R
  <2> QED
    BY <2>1, <2>3
<1>2. S \in G
  <2>1. G \in SUBSET SUBSET S
    OBVIOUS
  <2> HIDE DEF G
  <2> QED
    BY <1>1, <2>1, FiniteInduct
<1> QED
  BY <1>2
=============================================================================
