-------------------------- MODULE SimilarityProofs --------------------------
(***************************************************************************)
(* Proofs about Similarity, for any nodes, any vectors and any threshold.  *)
(*                                                                         *)
(* The first part is about CosineSimilarity: the fold that Dot is has a    *)
(* value, an integer, and one that is not negative where nothing that is   *)
(* added is; the largest size that Quotient chooses is there. The library  *)
(* has induction over an operator only, so the inductions are made here    *)
(* with the least set that is a counterexample (LeastSet).                 *)
(*                                                                         *)
(* The second part is about ClusterResponses. IInv is inductive: the types,*)
(* ClustersPartition, and Grouped, by which a group is in one cluster or   *)
(* not touched yet.                                                        *)
(***************************************************************************)
EXTENDS Similarity, FiniteSetTheorems, WellFoundedInduction, TLAPS

LEMMA LeastSet ==
  ASSUME NEW D, IsFiniteSet(D), NEW T, T \subseteq SUBSET D, T # {}
  PROVE  \E s \in T : \A u \in T : ~ (u \subseteq s /\ u # s)
  <1>1. IsWellFoundedOn(StrictSubsetOrdering(D), SUBSET D)
    BY FS_StrictSubsetOrderingWellFounded, FS_FiniteSubsetsOfFinite
  <1>2. PICK s \in T : \A u \in T : ~ (<<u, s>> \in StrictSubsetOrdering(D))
    BY <1>1, WFMin
  <1>3. \A u \in T : u \subseteq s /\ u # s => <<u, s>> \in StrictSubsetOrdering(D)
    BY DEF StrictSubsetOrdering
  <1>4. \A u \in T : ~ (u \subseteq s /\ u # s)
    BY <1>2, <1>3
  <1> QED
    BY <1>4

-----------------------------------------------------------------------------
(* Sums: FoldFunction with +, by its definition in Folds.                    *)

SumOf(f) == FoldFunction(+, 0, f)

Some(s) == CHOOSE x \in s : TRUE

\* it has the partial sums of f over the sets in U.
Sums(f, it, U) ==
  \A s \in U : it[s] = IF s = {} THEN 0 ELSE f[Some(s)] + it[s \ {Some(s)}]

LEMMA SomeLemma ==
  ASSUME NEW D, IsFiniteSet(D), NEW s \in SUBSET D, s # {}
  PROVE  /\ Some(s) \in s /\ s \ {Some(s)} \in SUBSET D
         /\ s \ {Some(s)} \subseteq s /\ s \ {Some(s)} # s
         /\ IsFiniteSet(s) /\ Cardinality(s) \in Nat
         /\ Cardinality(s \ {Some(s)}) = Cardinality(s) - 1
         /\ Cardinality(s \ {Some(s)}) \in Nat
  <1>1. Some(s) \in s
    BY DEF Some
  <1>2. IsFiniteSet(s) /\ IsFiniteSet(s \ {Some(s)})
    BY FS_Subset
  <1>3. Cardinality(s) \in Nat /\ Cardinality(s \ {Some(s)}) \in Nat
    BY <1>2, FS_CardinalityType
  <1>4. Cardinality(s \ {Some(s)}) = Cardinality(s) - 1
    BY <1>1, <1>2, FS_RemoveElement
  <1> QED
    BY <1>1, <1>2, <1>3, <1>4

\* The partial sums of f over sets of at most k elements.
Small(D, k) == {s \in SUBSET D : Cardinality(s) <= k}

LEMMA SumsExist ==
  ASSUME NEW D, IsFiniteSet(D), NEW f \in [D -> Int]
  PROVE  \E it \in [SUBSET D -> Int] : Sums(f, it, SUBSET D)
  <1> DEFINE P(s) == \E it \in [Small(D, Cardinality(s)) -> Int] :
                       Sums(f, it, Small(D, Cardinality(s)))
             Bad  == {s \in SUBSET D : ~ P(s)}
  <1>0. \A s \in SUBSET D : IsFiniteSet(s) /\ Cardinality(s) \in Nat
    BY FS_Subset, FS_CardinalityType
  <1>1. ASSUME NEW s \in Bad,
               \A u \in Bad : ~ (u \subseteq s /\ u # s)
        PROVE  FALSE
    <2>1. CASE s = {}
      <3>1. Small(D, Cardinality(s)) = {{}}
        BY <1>0, <2>1, FS_EmptySet DEF Small
      <3>2. PICK it : it = [u \in {{}} |-> 0]
        OBVIOUS
      <3>3. it \in [{{}} -> Int] /\ Sums(f, it, {{}})
        BY <3>2 DEF Sums
      <3>4. P(s)
        BY <3>1, <3>3
      <3> QED
        BY <1>1, <3>4
    <2>2. CASE s # {}
      <3>0. s \in SUBSET D
        OBVIOUS
      <3>1. PICK r : r = s \ {Some(s)}
        OBVIOUS
      <3>2. PICK k \in Nat : k = Cardinality(r)
        BY <2>2, <3>0, <3>1, SomeLemma
      <3>3. Cardinality(s) = k + 1
        BY <1>0, <2>2, <3>0, <3>1, <3>2, SomeLemma
      <3>4. PICK it \in [Small(D, k) -> Int] : Sums(f, it, Small(D, k))
        <4>1. P(r)
          BY <1>1, <2>2, <3>0, <3>1, SomeLemma
        <4> QED
          BY <3>2, <4>1
      <3>5. PICK it2 :
              it2 = [u \in Small(D, k + 1) |->
                       IF u = {} THEN 0 ELSE f[Some(u)] + it[u \ {Some(u)}]]
        OBVIOUS
      <3>6. ASSUME NEW u \in Small(D, k + 1), u # {}
            PROVE  /\ u \ {Some(u)} \in Small(D, k)
                   /\ f[Some(u)] \in Int /\ it[u \ {Some(u)}] \in Int
        <4>1. u \in SUBSET D /\ Cardinality(u) <= k + 1
          BY DEF Small
        <4>2. u \ {Some(u)} \in Small(D, k)
          BY <3>6, <4>1, SomeLemma DEF Small
        <4>3. Some(u) \in D
          BY <3>6, <4>1, SomeLemma
        <4> QED
          BY <4>2, <4>3
      <3>7. it2 \in [Small(D, k + 1) -> Int]
        <4>1. \A u \in Small(D, k + 1) :
                (IF u = {} THEN 0 ELSE f[Some(u)] + it[u \ {Some(u)}]) \in Int
          <5> SUFFICES ASSUME NEW u \in Small(D, k + 1)
                       PROVE  (IF u = {} THEN 0
                               ELSE f[Some(u)] + it[u \ {Some(u)}]) \in Int
            OBVIOUS
          <5>1. CASE u = {}
            BY <5>1
          <5>2. CASE u # {}
            <6>1. f[Some(u)] \in Int /\ it[u \ {Some(u)}] \in Int
              BY <3>6, <5>2
            <6>2. f[Some(u)] + it[u \ {Some(u)}] \in Int
              BY <6>1
            <6> QED
              BY <5>2, <6>2
          <5> QED
            BY <5>1, <5>2
        <4> QED
          BY <3>5, <4>1
      <3>8. \A u \in Small(D, k) : u \in Small(D, k + 1) /\ it2[u] = it[u]
        <4> SUFFICES ASSUME NEW u \in Small(D, k)
                     PROVE  u \in Small(D, k + 1) /\ it2[u] = it[u]
          OBVIOUS
        <4>1. u \in Small(D, k + 1)
          BY <1>0 DEF Small
        <4> QED
          BY <3>4, <3>5, <4>1 DEF Sums
      <3>9. Sums(f, it2, Small(D, k + 1))
        BY <3>5, <3>6, <3>8 DEF Sums
      <3>10. P(s)
        BY <3>3, <3>7, <3>9
      <3> QED
        BY <1>1, <3>10
    <2> QED
      BY <2>1, <2>2
  <1>2. Bad = {}
    <2> HIDE DEF Bad
    <2>1. Bad \subseteq SUBSET D
      BY DEF Bad
    <2> QED
      BY <1>1, <2>1, LeastSet
  <1>3. P(D)
    BY <1>2
  <1>4. Small(D, Cardinality(D)) = SUBSET D
    BY FS_Subset DEF Small
  <1> QED
    BY <1>3, <1>4

LEMMA SumsType ==
  ASSUME NEW D, IsFiniteSet(D), NEW f \in [D -> Int],
         NEW it, Sums(f, it, SUBSET D)
  PROVE  /\ it[D] \in Int
         /\ (\A x \in D : f[x] >= 0) => it[D] >= 0
  <1> DEFINE Good(s) == it[s] \in Int /\ ((\A x \in D : f[x] >= 0) => it[s] >= 0)
             Bad  == {s \in SUBSET D : ~ Good(s)}
  <1>1. ASSUME NEW s \in Bad,
               \A u \in Bad : ~ (u \subseteq s /\ u # s)
        PROVE  FALSE
    <2>0. s \in SUBSET D
      OBVIOUS
    <2>1. s # {}
      BY DEF Sums
    <2>2. it[s] = f[Some(s)] + it[s \ {Some(s)}]
      BY <2>0, <2>1 DEF Sums
    <2>3. Good(s \ {Some(s)})
      BY <1>1, <2>0, <2>1, SomeLemma
    <2>4. Some(s) \in D
      BY <2>0, <2>1, SomeLemma
    <2>5. Good(s)
      BY <2>2, <2>3, <2>4
    <2> QED
      BY <1>1, <2>5
  <1>2. Bad = {}
    <2> HIDE DEF Bad
    <2>1. Bad \subseteq SUBSET D
      BY DEF Bad
    <2> QED
      BY <1>1, <2>1, LeastSet
  <1> QED
    BY <1>2

LEMMA SumIs ==
  ASSUME NEW D, IsFiniteSet(D), NEW f \in [D -> Int]
  PROVE  \E it : Sums(f, it, SUBSET D) /\ SumOf(f) = it[D]
  <1> DEFINE Equation(it) ==
        it = [s \in SUBSET DOMAIN f |->
                IF s = {} THEN 0
                ELSE f[CHOOSE x \in s : TRUE] + it[s \ {CHOOSE x \in s : TRUE}]]
  <1>1. \E it : Equation(it)
    <2>1. PICK it \in [SUBSET D -> Int] : Sums(f, it, SUBSET D)
      BY SumsExist
    <2>2. Equation(it)
      BY <2>1 DEF Sums, Some
    <2> QED
      BY <2>2
  <1>2. PICK it : Equation(it) /\ SumOf(f) = it[DOMAIN f]
    BY <1>1 DEF SumOf, FoldFunction, FoldFunctionOnSet, MapThenFoldSet
  <1>3. Sums(f, it, SUBSET D) /\ DOMAIN f = D
    BY <1>2 DEF Sums, Some
  <1> QED
    BY <1>2, <1>3

LEMMA SumLemma ==
  ASSUME NEW D, IsFiniteSet(D), NEW f \in [D -> Int]
  PROVE  /\ SumOf(f) \in Int
         /\ (\A x \in D : f[x] >= 0) => SumOf(f) >= 0
  <1>1. PICK it : Sums(f, it, SUBSET D) /\ SumOf(f) = it[D]
    BY SumIs
  <1> QED
    BY <1>1, SumsType

LEMMA RootLemma ==
  ASSUME NEW t \in Int, NEW w \in Nat, t * t <= w * w
  PROVE  t <= w
  <1> SUFFICES ASSUME t > w PROVE FALSE
    OBVIOUS
  <1>1. w * w <= w * t /\ w * t < t * t
    <2>1. \A i, j, k \in Nat : i <= j => k * i <= k * j
      OBVIOUS
    <2>2. \A i, j, k \in Nat : i < j /\ k > 0 => i * k < j * k
      OBVIOUS
    <2>3. t \in Nat /\ t > 0
      OBVIOUS
    <2> QED
      BY <2>1, <2>2, <2>3
  <1> QED
    BY <1>1

\* One more component, in the inequality of Cauchy and Schwarz.
LEMMA CauchyStep ==
  ASSUME NEW d \in Int, NEW m \in Nat, NEW n \in Nat, d * d <= m * n,
         NEW x \in Int, NEW y \in Int
  PROVE  (x * y + d) * (x * y + d) <= (x * x + m) * (y * y + n)
  <1>1. PICK u, v : u = m * (y * y) /\ v = n * (x * x)
    OBVIOUS
  <1>2. u \in Nat /\ v \in Nat
    <2>1. \A k \in Int : k * k \in Nat
      OBVIOUS
    <2>2. \A k, l \in Nat : k * l \in Nat
      OBVIOUS
    <2> QED
      BY <1>1, <2>1, <2>2
  <1>3. PICK q \in Nat : q = (x * y) * (x * y)
    <2>1. \A k \in Int : k * k \in Nat
      OBVIOUS
    <2> QED
      BY <2>1
  <1>4. u * v = (m * n) * q
    BY <1>1, <1>3
  <1>5. (d * d) * q <= (m * n) * q
    <2>1. \A i, j \in Int, k \in Nat : i <= j => i * k <= j * k
      OBVIOUS
    <2>2. d * d \in Int /\ m * n \in Int
      OBVIOUS
    <2> QED
      BY <1>3, <2>1, <2>2
  <1>6. 4 * (u * v) <= (u + v) * (u + v)
    <2>1. (u - v) * (u - v) >= 0
      <3>1. \A k \in Int : k * k >= 0
        OBVIOUS
      <3>2. u - v \in Int
        BY <1>2
      <3> QED
        BY <3>1, <3>2
    <2>2. (u + v) * (u + v) = (u - v) * (u - v) + 4 * (u * v)
      BY <1>2
    <2>3. (u - v) * (u - v) \in Int /\ u * v \in Int
      BY <1>2
    <2> QED
      BY <2>1, <2>2, <2>3
  <1>7. PICK t \in Int : t = 2 * (d * (x * y))
    OBVIOUS
  <1>8. t * t = 4 * ((d * d) * q)
    BY <1>3, <1>7
  <1>9. t * t <= (u + v) * (u + v)
    <2>1. (d * d) * q \in Int /\ (m * n) * q \in Int /\ (u + v) * (u + v) \in Int
      BY <1>2, <1>3
    <2> QED
      BY <1>4, <1>5, <1>6, <1>8, <2>1
  <1>10. t <= u + v
    BY <1>2, <1>9, RootLemma
  <1>11. (x * y + d) * (x * y + d) = q + t + d * d
    BY <1>3, <1>7
  <1>12. (x * x + m) * (y * y + n) = q + (u + v) + m * n
    BY <1>1, <1>3
  <1>13. d * d \in Int /\ m * n \in Int
    OBVIOUS
  <1> QED
    BY <1>2, <1>3, <1>10, <1>11, <1>12, <1>13

\* f has the products of the components of a and b.
Products(f, a, b, D) == \A x \in D : f[x] = a[x] * b[x]

LEMMA SumsCauchy ==
  ASSUME NEW D, IsFiniteSet(D), NEW a \in [D -> Int], NEW b \in [D -> Int],
         NEW f \in [D -> Int], NEW g \in [D -> Int], NEW h \in [D -> Int],
         Products(f, a, b, D), Products(g, a, a, D), Products(h, b, b, D),
         NEW fs, Sums(f, fs, SUBSET D), NEW gs, Sums(g, gs, SUBSET D),
         NEW hs, Sums(h, hs, SUBSET D)
  PROVE  fs[D] * fs[D] <= gs[D] * hs[D]
  <1> DEFINE Good(s) == /\ fs[s] \in Int /\ gs[s] \in Nat /\ hs[s] \in Nat
                        /\ fs[s] * fs[s] <= gs[s] * hs[s]
             Bad  == {s \in SUBSET D : ~ Good(s)}
  <1>1. ASSUME NEW s \in Bad,
               \A u \in Bad : ~ (u \subseteq s /\ u # s)
        PROVE  FALSE
    <2>0. s \in SUBSET D
      OBVIOUS
    <2>1. s # {}
      <3>1. fs[{}] = 0 /\ gs[{}] = 0 /\ hs[{}] = 0
        BY DEF Sums
      <3>2. Good({})
        BY <3>1
      <3> QED
        BY <3>2
    <2>2. PICK u, i : u = s \ {Some(s)} /\ i = Some(s)
      OBVIOUS
    <2>3. u \in SUBSET D /\ i \in D /\ Good(u)
      <3>1. u \in SUBSET D /\ i \in D /\ u \subseteq s /\ u # s
        BY <2>0, <2>1, <2>2, SomeLemma
      <3>2. u \notin Bad
        <4> HIDE DEF Bad
        <4> QED
          BY <1>1, <3>1
      <3> QED
        BY <3>1, <3>2
    <2>4. PICK x \in Int, y \in Int : x = a[i] /\ y = b[i]
      BY <2>3
    <2>5. /\ fs[s] = x * y + fs[u]
          /\ gs[s] = x * x + gs[u]
          /\ hs[s] = y * y + hs[u]
      BY <2>0, <2>1, <2>2, <2>3, <2>4 DEF Sums, Products
    <2>6. fs[u] \in Int /\ gs[u] \in Nat /\ hs[u] \in Nat
      BY <2>3
    <2>7. fs[s] * fs[s] <= gs[s] * hs[s]
      BY <2>3, <2>5, <2>6, CauchyStep
    <2>8. fs[s] \in Int /\ gs[s] \in Nat /\ hs[s] \in Nat
      <3>1. \A k \in Int : k * k \in Nat
        OBVIOUS
      <3>2. x * x \in Nat /\ y * y \in Nat /\ x * y \in Int
        BY <3>1
      <3> QED
        BY <2>5, <2>6, <3>2
    <2>9. Good(s)
      BY <2>7, <2>8
    <2> QED
      BY <1>1, <2>9
  <1>2. Bad = {}
    <2> HIDE DEF Bad
    <2>1. Bad \subseteq SUBSET D
      BY DEF Bad
    <2> QED
      BY <1>1, <2>1, LeastSet
  <1> QED
    BY <1>2

-----------------------------------------------------------------------------
(* CosineSimilarity. *)

Least(f, x, S) == \A y \in S : ~ (f[y] \subseteq f[x] /\ f[y] # f[x])

LEMMA LeastOf ==
  ASSUME NEW S, IsFiniteSet(S), S # {}, NEW f, f \in [S -> SUBSET S]
  PROVE  \E x \in S : Least(f, x, S)
  <1>1. PICK tops : tops = {f[x] : x \in S}
    OBVIOUS
  <1>2. tops \subseteq SUBSET S /\ tops # {}
    BY <1>1
  <1>3. PICK s \in tops : \A u \in tops : ~ (u \subseteq s /\ u # s)
    BY <1>2, LeastSet
  <1>4. PICK x \in S : s = f[x]
    BY <1>1
  <1>5. Least(f, x, S)
    BY <1>1, <1>3, <1>4 DEF Least
  <1> QED
    BY <1>5

LEMMA MaxLemma ==
  ASSUME NEW S, S \subseteq 0..100, S # {}
  PROVE  Max(S) \in S /\ \A y \in S : y <= Max(S)
  <1>1. IsFiniteSet(S)
    <2>1. IsFiniteSet(0..100)
      <3>1. 0 \in Int /\ 100 \in Int
        OBVIOUS
      <3> QED
        BY <3>1, FS_Interval, Zenon
    <2> QED
      BY <2>1, FS_Subset
  <1>2. PICK above : above = [x \in S |-> {y \in S : y > x}]
    OBVIOUS
  <1>3. above \in [S -> SUBSET S]
    BY <1>2
  <1>4. PICK x \in S : Least(above, x, S)
    BY <1>1, <1>3, LeastOf
  <1>5. \A y \in S : y <= x
    <2> SUFFICES ASSUME NEW y \in S, y > x PROVE FALSE
      OBVIOUS
    <2>1. above[y] \subseteq above[x]
      <3>1. \A z \in S : z \in Int /\ (z > y => z > x)
        OBVIOUS
      <3> QED
        BY <1>2, <3>1
    <2>2. y \in above[x] /\ y \notin above[y]
      BY <1>2
    <2> QED
      BY <1>4, <2>1, <2>2 DEF Least
  <1>6. \E m \in S : \A y \in S : m >= y
    BY <1>5
  <1> QED
    BY <1>6 DEF Max

LEMMA DotLemma ==
  ASSUME NEW a \in Vectors, NEW b \in Vectors, Len(a) = Len(b)
  PROVE  Dot(a, b) \in Int /\ Dot(a, b) = Dot(b, a)
  <1>1. a \in Seq(Int) /\ b \in Seq(Int)
    BY SimilarityAssumption
  <1>2. DOMAIN a = 1..Len(a) /\ DOMAIN b = DOMAIN a /\ Len(a) \in Nat
    BY <1>1
  <1>3. IsFiniteSet(DOMAIN a)
    BY <1>2, FS_Interval
  <1>4. [i \in DOMAIN a |-> a[i] * b[i]] \in [DOMAIN a -> Int]
    BY <1>1, <1>2
  <1>5. Dot(a, b) \in Int
    BY <1>3, <1>4, SumLemma DEF Dot, SumOf
  <1>6. [i \in DOMAIN a |-> a[i] * b[i]] = [i \in DOMAIN b |-> b[i] * a[i]]
    BY <1>1, <1>2
  <1> QED
    BY <1>5, <1>6 DEF Dot

LEMMA NormLemma ==
  ASSUME NEW a \in Vectors
  PROVE  Norm(a) \in Nat
  <1>1. a \in Seq(Int)
    BY SimilarityAssumption
  <1>2. DOMAIN a = 1..Len(a) /\ Len(a) \in Nat
    BY <1>1
  <1>3. IsFiniteSet(DOMAIN a)
    BY <1>2, FS_Interval
  <1>4. PICK f : f = [i \in DOMAIN a |-> a[i] * a[i]]
    OBVIOUS
  <1>5. f \in [DOMAIN a -> Int] /\ \A i \in DOMAIN a : f[i] >= 0
    <2>1. \A k \in Int : k * k \in Int /\ k * k >= 0
      OBVIOUS
    <2>2. \A i \in DOMAIN a : a[i] \in Int
      BY <1>1
    <2> QED
      BY <1>4, <2>1, <2>2
  <1>6. SumOf(f) \in Int /\ SumOf(f) >= 0
    BY <1>3, <1>5, SumLemma
  <1>7. Norm(a) = SumOf(f)
    BY <1>4 DEF Norm, Dot, SumOf
  <1> QED
    BY <1>6, <1>7

\* The inequality of Cauchy and Schwarz, for vectors of one length.
LEMMA CauchySchwarz ==
  ASSUME NEW a \in Vectors, NEW b \in Vectors, Len(a) = Len(b)
  PROVE  Dot(a, b) * Dot(a, b) <= Norm(a) * Norm(b)
  <1>1. a \in Seq(Int) /\ b \in Seq(Int)
    BY SimilarityAssumption
  <1>2. DOMAIN a = 1..Len(a) /\ DOMAIN b = DOMAIN a /\ Len(a) \in Nat
    BY <1>1
  <1>3. PICK D : D = DOMAIN a
    OBVIOUS
  <1>4. IsFiniteSet(D)
    BY <1>2, <1>3, FS_Interval
  <1>5. a \in [D -> Int] /\ b \in [D -> Int]
    BY <1>1, <1>2, <1>3
  <1>6. PICK f, g, h : /\ f = [i \in D |-> a[i] * b[i]]
                       /\ g = [i \in D |-> a[i] * a[i]]
                       /\ h = [i \in D |-> b[i] * b[i]]
    OBVIOUS
  <1>7. f \in [D -> Int] /\ g \in [D -> Int] /\ h \in [D -> Int]
    BY <1>5, <1>6
  <1>8. Dot(a, b) = SumOf(f) /\ Norm(a) = SumOf(g) /\ Norm(b) = SumOf(h)
    BY <1>2, <1>3, <1>6 DEF Dot, Norm, SumOf
  <1>9. PICK fs : Sums(f, fs, SUBSET D) /\ SumOf(f) = fs[D]
    BY <1>4, <1>7, SumIs
  <1>10. PICK gs : Sums(g, gs, SUBSET D) /\ SumOf(g) = gs[D]
    BY <1>4, <1>7, SumIs
  <1>11. PICK hs : Sums(h, hs, SUBSET D) /\ SumOf(h) = hs[D]
    BY <1>4, <1>7, SumIs
  <1>12. Products(f, a, b, D) /\ Products(g, a, a, D) /\ Products(h, b, b, D)
    BY <1>6 DEF Products
  <1>13. fs[D] * fs[D] <= gs[D] * hs[D]
    BY <1>4, <1>5, <1>7, <1>9, <1>10, <1>11, <1>12, SumsCauchy, ZenonT(60)
  <1> QED
    BY <1>8, <1>9, <1>10, <1>11, <1>13

\* semantic.go:59-80: a cosine is never above 1, so that Quotient, which looks
\* for its hundredths up to 100, leaves none out.
THEOREM CosinesAreAtMostOne ==
  ASSUME NEW a \in Vectors, NEW b \in Vectors, Len(a) = Len(b),
         Norm(a) # 0, Norm(b) # 0,
         NEW s \in Nat, s * s * (Norm(a) * Norm(b)) <= 10000 * Dot(a, b) * Dot(a, b)
  PROVE  s <= 100
  <1>1. PICK square \in Nat : square = Norm(a) * Norm(b)
    BY NormLemma
  <1>2. square > 0
    <2>1. PICK m \in Nat, n \in Nat : m = Norm(a) /\ n = Norm(b)
      BY NormLemma
    <2>2. m > 0 /\ n > 0
      BY <2>1
    <2>3. m * n > 0
      BY <2>2
    <2> QED
      BY <1>1, <2>1, <2>3
  <1>3. PICK c \in Int : c = Dot(a, b) * Dot(a, b)
    BY DotLemma
  <1>4. 10000 * Dot(a, b) * Dot(a, b) = 10000 * c
    BY <1>3, DotLemma
  <1>5. c <= square
    BY <1>1, <1>3, CauchySchwarz
  <1>6. s * s * square <= 10000 * square
    <2>1. s * s * square \in Int
      OBVIOUS
    <2> QED
      BY <1>1, <1>4, <1>5, <2>1
  <1>7. s * s <= 100 * 100
    <2>1. \A i, j \in Nat : i > j => i * square > j * square
      BY <1>2
    <2>2. s * s \in Nat
      OBVIOUS
    <2> QED
      BY <1>6, <2>1, <2>2
  <1> QED
    BY <1>7, RootLemma

LEMMA QuotientLemma ==
  ASSUME NEW dot \in Int, NEW square \in Nat
  PROVE  /\ Quotient(dot, square) \in -100..100
         /\ dot >= 0 /\ square = dot * dot => Quotient(dot, square) = 100
  <1> DEFINE Sizes == {s \in 0..100 : s * s * square <= 10000 * dot * dot}
  <1>1. 0 \in Sizes
    <2>1. 0 * 0 * square = 0 /\ 10000 * dot * dot >= 0
      OBVIOUS
    <2> QED
      BY <2>1
  <1>2. square = dot * dot => 100 \in Sizes
    <2>1. 100 * 100 * (dot * dot) = 10000 * dot * dot
      OBVIOUS
    <2> QED
      BY <2>1
  <1>3. Sizes \subseteq 0..100
    OBVIOUS
  <1>4. Quotient(dot, square) = IF dot < 0 THEN - Max(Sizes) ELSE Max(Sizes)
    BY DEF Quotient
  <1> HIDE DEF Sizes
  <1>5. Max(Sizes) \in 0..100 /\ \A s \in Sizes : s <= Max(Sizes)
    BY <1>1, <1>3, MaxLemma
  <1>6. square = dot * dot => Max(Sizes) = 100
    BY <1>2, <1>5
  <1> QED
    BY <1>4, <1>5, <1>6

LEMMA CosineLemma ==
  ASSUME NEW a \in Vectors, NEW b \in Vectors
  PROVE  /\ CosineSimilarity(a, b) = CosineSimilarity(b, a)
         /\ CosineSimilarity(a, b) \in -100..100
         /\ Norm(a) = 0 => CosineSimilarity(a, b) = 0
         /\ a = b /\ Norm(a) # 0 => CosineSimilarity(a, b) = 100
  <1>1. Norm(a) \in Nat /\ Norm(b) \in Nat
    BY NormLemma
  <1>2. CASE Len(a) # Len(b) \/ Norm(a) = 0 \/ Norm(b) = 0
    BY <1>2 DEF CosineSimilarity
  <1>3. CASE Len(a) = Len(b) /\ Norm(a) # 0 /\ Norm(b) # 0
    <2>1. Dot(a, b) \in Int /\ Dot(a, b) = Dot(b, a)
      BY <1>3, DotLemma
    <2>2. /\ Norm(a) * Norm(b) \in Nat
          /\ Norm(a) * Norm(b) = Norm(b) * Norm(a)
      BY <1>1
    <2>3. /\ CosineSimilarity(a, b) = Quotient(Dot(a, b), Norm(a) * Norm(b))
          /\ CosineSimilarity(b, a) = Quotient(Dot(b, a), Norm(b) * Norm(a))
      BY <1>3 DEF CosineSimilarity
    <2>4. a = b => Dot(a, b) = Norm(a) /\ Norm(a) * Norm(b) = Norm(a) * Norm(a)
      BY DEF Norm
    <2>5. CosineSimilarity(a, b) \in -100..100
      BY <2>1, <2>2, <2>3, QuotientLemma
    <2>6. a = b => CosineSimilarity(a, b) = 100
      BY <1>1, <2>1, <2>2, <2>3, <2>4, QuotientLemma
    <2> QED
      BY <1>3, <2>1, <2>2, <2>3, <2>5, <2>6
  <1> QED
    BY <1>2, <1>3

-----------------------------------------------------------------------------
(* ClusterResponses. *)

Cluster == [representative : responses, members : SUBSET responses]

\* The clusters wait for the embeddings, and the sort for the last response.
Phases ==
  /\ phase \in {"embedding", "failed"} => clusters = <<>>
  /\ phase \in {"sorting", "done"} => left = {}

\* No response that is left is similar to a representative.
Apart ==
  \A i \in DOMAIN clusters : \A r \in left : ~ Similar(clusters[i].representative, r)

\* While there are clusters a group is one of them or has not been touched.
Grouped ==
  phase \in {"clustering", "sorting", "done"} =>
    \A S \in SUBSET responses :
      S # {} /\ Group(S) =>
        S \subseteq left \/ \E i \in DOMAIN clusters : clusters[i].members = S

\* What the proofs need of the order: no cluster is larger than one before it.
Sorted ==
  phase = "done" =>
    \A i, j \in DOMAIN clusters : i < j => ~ Size(clusters[j]) > Size(clusters[i])

IInv == TypeOK /\ ClustersPartition /\ Phases /\ Apart /\ Grouped /\ Sorted

LEMMA ScoreLemma ==
  ASSUME embedding \in [DOMAIN embedding -> Vectors],
         NEW r \in DOMAIN embedding, NEW s \in DOMAIN embedding
  PROVE  /\ Similarity(r, s) = CosineSimilarity(embedding[r], embedding[s])
         /\ Similarity(r, s) = Similarity(s, r)
         /\ Similar(r, s) <=> Similar(s, r)
  <1>1. embedding[r] \in Vectors /\ embedding[s] \in Vectors
    OBVIOUS
  <1>2. /\ Similarity(r, s) = CosineSimilarity(embedding[r], embedding[s])
        /\ Similarity(s, r) = CosineSimilarity(embedding[s], embedding[r])
    <2>1. \A a, b \in Vectors : Score[a, b] = CosineSimilarity(a, b)
      BY DEF Score
    <2> QED
      BY <1>1, <2>1 DEF Similarity
  <1> QED
    BY <1>1, <1>2, CosineLemma DEF Similar

LEMMA ClustersLemma ==
  ASSUME TypeOK
  PROVE  /\ DOMAIN clusters = 1..Len(clusters) /\ Len(clusters) \in Nat
         /\ \A i \in DOMAIN clusters :
              /\ clusters[i] \in Cluster
              /\ clusters[i].representative \in responses
              /\ clusters[i].members \subseteq responses
         /\ Range(clusters) = {clusters[i] : i \in DOMAIN clusters}
  <1>1. clusters \in Seq(Cluster)
    BY DEF TypeOK, Cluster
  <1>2. /\ DOMAIN clusters = 1..Len(clusters) /\ Len(clusters) \in Nat
        /\ \A i \in DOMAIN clusters : clusters[i] \in Cluster
    BY <1>1
  <1>3. Range(clusters) = {clusters[i] : i \in DOMAIN clusters}
    BY DEF Range
  <1> QED
    BY <1>2, <1>3 DEF Cluster

LEMMA EmbeddingStep ==
  ASSUME IInv, NEW r \in responses, GetEmbedding(r)
  PROVE  IInv'
  <1>1. /\ clusters = <<>> /\ UNCHANGED <<responses, left, clusters>>
        /\ phase = "embedding" /\ phase' \in {"embedding", "clustering", "failed"}
    BY DEF GetEmbedding, IInv, Phases
  <1>2. left = responses /\ DOMAIN clusters = {}
    BY <1>1 DEF IInv, ClustersPartition, Range
  <1>3. /\ embedding' \in [DOMAIN embedding' -> Vectors]
        /\ DOMAIN embedding' \subseteq responses
        /\ phase' = "clustering" => DOMAIN embedding' = responses
    <2>1. CASE UNCHANGED embedding /\ phase' = "failed"
      BY <2>1 DEF IInv, TypeOK
    <2>2. CASE \E v \in Vectors :
                 /\ embedding' = [s \in DOMAIN embedding \cup {r} |->
                                    IF s = r THEN v ELSE embedding[s]]
                 /\ phase' = IF Embedded(DOMAIN embedding') THEN "clustering"
                             ELSE phase
      <3>1. PICK v \in Vectors :
              embedding' = [s \in DOMAIN embedding \cup {r} |->
                              IF s = r THEN v ELSE embedding[s]]
        BY <2>2
      <3>2. DOMAIN embedding' = DOMAIN embedding \cup {r}
        BY <3>1
      <3>3. \A s \in DOMAIN embedding : embedding[s] \in Vectors
        BY DEF IInv, TypeOK
      <3>4. embedding' \in [DOMAIN embedding \cup {r} -> Vectors]
        BY <3>1, <3>3
      <3>5. phase' = "clustering" => DOMAIN embedding' = responses
        BY <1>1, <2>2 DEF Embedded
      <3>6. DOMAIN embedding \subseteq responses
        BY DEF IInv, TypeOK
      <3> QED
        BY <3>2, <3>4, <3>5, <3>6
    <2> QED
      BY <2>1, <2>2 DEF GetEmbedding
  <1>4. TypeOK'
    BY <1>1, <1>3 DEF IInv, TypeOK
  <1>5. ClustersPartition'
    BY <1>1, <1>2 DEF ClustersPartition, Range
  <1>6. Phases' /\ Apart' /\ Grouped' /\ Sorted'
    BY <1>1, <1>2 DEF Phases, Apart, Grouped, Sorted
  <1> QED
    BY <1>4, <1>5, <1>6 DEF IInv

LEMMA StartStep ==
  ASSUME IInv, NEW r \in left, StartCluster(r)
  PROVE  IInv'
  <1> DEFINE n == Len(clusters)
  <1>1. /\ UNCHANGED <<responses, embedding>> /\ phase = "clustering"
        /\ left' = left \ Members(r)
        /\ phase' = IF left' = {} THEN "sorting" ELSE "clustering"
        /\ DOMAIN embedding = responses /\ left \subseteq responses
        /\ r \in responses
    BY DEF StartCluster, IInv, TypeOK
  <1>2. PICK k : k = [representative |-> r, members |-> Members(r)]
    OBVIOUS
  <1>3. /\ r \in Members(r) /\ Members(r) \subseteq left
        /\ \A s \in left : s \in Members(r) <=> s = r \/ Similar(r, s)
    BY DEF Members
  <1>4. k \in Cluster /\ k.representative = r /\ k.members = Members(r)
    BY <1>1, <1>2, <1>3 DEF Cluster
  <1>5. /\ clusters \in Seq(Cluster) /\ n \in Nat /\ DOMAIN clusters = 1..n
        /\ clusters' \in Seq(Cluster) /\ DOMAIN clusters' = 1..n + 1
        /\ clusters'[n + 1] = k
        /\ \A i \in DOMAIN clusters : clusters'[i] = clusters[i]
    <2>1. clusters' = Append(clusters, k)
      BY <1>2 DEF StartCluster
    <2>2. clusters \in Seq(Cluster)
      BY DEF IInv, TypeOK, Cluster
    <2> QED
      BY <1>4, <2>1, <2>2
  <1>6. \A i \in DOMAIN clusters' : i \in DOMAIN clusters \/ i = n + 1
    BY <1>5
  <1>7. DOMAIN clusters \subseteq DOMAIN clusters' /\ n + 1 \in DOMAIN clusters'
        /\ n + 1 \notin DOMAIN clusters
    BY <1>5
  <1> HIDE DEF n
  <1>8. \A a, b \in responses : Similar(a, b) <=> Similar(b, a)
    BY <1>1, ScoreLemma DEF IInv, TypeOK
  <1>9. \A a, b : Similar(a, b)' <=> Similar(a, b)
    BY <1>1 DEF Similar, Similarity
  <1>10. TypeOK'
    <2>1. Cluster' = Cluster
      BY <1>1 DEF Cluster
    <2>2. left' \subseteq responses' /\ phase' \in {"clustering", "sorting"}
      BY <1>1
    <2> QED
      BY <1>1, <1>5, <2>1, <2>2 DEF IInv, TypeOK, Cluster
  <1>11. \A i \in DOMAIN clusters : /\ clusters[i].members \cap left = {}
                                    /\ clusters[i].representative \in responses
                                    /\ ~ Similar(clusters[i].representative, r)
    BY ClustersLemma DEF IInv, ClustersPartition, Range, Apart
  <1>12. ClustersPartition'
    <2>1. left' = responses' \ UNION {c.members : c \in Range(clusters')}
      <3>1. left = responses \ UNION {c.members : c \in Range(clusters)}
        BY DEF IInv, ClustersPartition
      <3>2. Range(clusters') = Range(clusters) \cup {k}
        BY <1>5, <1>6, <1>7 DEF Range
      <3>3. \A s : s \in UNION {c.members : c \in Range(clusters')}
                     <=> \/ s \in UNION {c.members : c \in Range(clusters)}
                         \/ s \in Members(r)
        BY <1>4, <3>2
      <3>4. \A s : s \in left' <=>
              s \in responses /\ s \notin UNION {c.members : c \in Range(clusters')}
        BY <1>1, <3>1, <3>3
      <3> QED
        BY <1>1, <3>4
    <2>2. \A i \in DOMAIN clusters' :
            /\ clusters'[i].representative \in clusters'[i].members
            /\ \A s \in clusters'[i].members \ {clusters'[i].representative} :
                 Similar(clusters'[i].representative, s)
      <3> SUFFICES ASSUME NEW i \in DOMAIN clusters'
                   PROVE  /\ clusters'[i].representative \in clusters'[i].members
                          /\ \A s \in clusters'[i].members \ {clusters'[i].representative} :
                               Similar(clusters'[i].representative, s)
        OBVIOUS
      <3>1. CASE i \in DOMAIN clusters
        BY <1>5, <3>1 DEF IInv, ClustersPartition
      <3>2. CASE i = n + 1
        BY <1>3, <1>4, <1>5, <3>2
      <3> QED
        BY <1>6, <3>1, <3>2
    <2>3. \A i, j \in DOMAIN clusters' : i # j =>
            /\ clusters'[i].members \cap clusters'[j].members = {}
            /\ ~ Similar(clusters'[i].representative, clusters'[j].representative)
      <3> SUFFICES ASSUME NEW i \in DOMAIN clusters', NEW j \in DOMAIN clusters', i # j
                   PROVE  /\ clusters'[i].members \cap clusters'[j].members = {}
                          /\ ~ Similar(clusters'[i].representative,
                                       clusters'[j].representative)
        OBVIOUS
      <3>1. CASE i \in DOMAIN clusters /\ j \in DOMAIN clusters
        BY <1>5, <3>1 DEF IInv, ClustersPartition
      <3>2. CASE i \in DOMAIN clusters /\ j = n + 1
        BY <1>3, <1>4, <1>5, <1>11, <3>2
      <3>3. CASE i = n + 1 /\ j \in DOMAIN clusters
        BY <1>1, <1>3, <1>4, <1>5, <1>8, <1>11, <3>3
      <3> QED
        BY <1>6, <3>1, <3>2, <3>3
    <2> QED
      BY <1>1, <2>1, <2>2, <2>3 DEF ClustersPartition, Similar, Similarity
  <1>13. Phases' /\ Sorted'
    BY <1>1 DEF Phases, Sorted
  <1>14. Apart'
    <2> SUFFICES ASSUME NEW i \in DOMAIN clusters', NEW s \in left'
                 PROVE  ~ Similar(clusters'[i].representative, s)
      BY <1>9 DEF Apart
    <2>1. s \in left /\ s \notin Members(r)
      BY <1>1
    <2>2. CASE i \in DOMAIN clusters
      BY <1>5, <2>1, <2>2 DEF IInv, Apart
    <2>3. CASE i = n + 1
      BY <1>3, <1>4, <1>5, <2>1, <2>3
    <2> QED
      BY <1>6, <2>2, <2>3
  <1>15. Grouped'
    <2> SUFFICES ASSUME NEW S \in SUBSET responses, S # {}, Group(S)
                 PROVE  \/ S \subseteq left'
                        \/ \E i \in DOMAIN clusters' : clusters'[i].members = S
      BY <1>1, <1>9 DEF Grouped, Group
    <2>1. CASE S \subseteq left /\ r \in S
      <3>1. \A s \in left : s \in Members(r) <=> s \in S
        BY <1>1, <1>3, <2>1 DEF Group
      <3>2. Members(r) = S
        BY <1>3, <2>1, <3>1
      <3> QED
        BY <1>4, <1>5, <1>7, <3>2
    <2>2. CASE S \subseteq left /\ r \notin S
      <3>1. \A s \in S : ~ Similar(r, s)
        BY <1>1, <1>8, <2>2 DEF Group
      <3>2. S \cap Members(r) = {}
        BY <1>3, <2>2, <3>1
      <3> QED
        BY <1>1, <2>2, <3>2
    <2>3. CASE \E i \in DOMAIN clusters : clusters[i].members = S
      BY <1>5, <1>7, <2>3
    <2> QED
      BY <1>1, <2>1, <2>2, <2>3 DEF IInv, Grouped
  <1> QED
    BY <1>10, <1>12, <1>13, <1>14, <1>15 DEF IInv

LEMMA SortStep ==
  ASSUME IInv, SortClusters
  PROVE  IInv'
  <1>1. /\ UNCHANGED <<responses, embedding, left>>
        /\ phase = "sorting" /\ phase' = "done" /\ left = {}
        /\ \A i, j \in DOMAIN clusters' : i < j => ~ Ahead(clusters'[j], clusters'[i])
    BY DEF SortClusters, IInv, Phases
  <1>2. PICK S : S = Range(clusters)
    OBVIOUS
  <1>3. S \subseteq Cluster /\ IsFiniteSet(S)
    <2>1. /\ DOMAIN clusters = 1..Len(clusters) /\ Len(clusters) \in Nat
          /\ S = {clusters[i] : i \in DOMAIN clusters}
          /\ \A i \in DOMAIN clusters : clusters[i] \in Cluster
      BY <1>2, ClustersLemma DEF IInv
    <2>2. IsFiniteSet(DOMAIN clusters)
      BY <2>1, FS_Interval
    <2>3. clusters \in [DOMAIN clusters -> S]
      <3>1. clusters \in Seq(Cluster)
        BY DEF IInv, TypeOK, Cluster
      <3>2. clusters = [i \in DOMAIN clusters |-> clusters[i]]
        BY <2>1, <3>1
      <3> QED
        BY <2>1, <3>2
    <2>4. clusters \in Surjection(DOMAIN clusters, S)
      BY <2>1, <2>3 DEF Surjection
    <2>5. IsFiniteSet(S)
      BY <2>2, <2>4, FS_Surjection
    <2> QED
      BY <2>1, <2>5
  <1>4. PICK n \in Nat : n = Cardinality(S)
    BY <1>3, FS_CardinalityType
  <1>5. /\ clusters' \in [1..n -> S]
        /\ \A i, j \in 1..n : i # j => clusters'[i] # clusters'[j]
    BY <1>2, <1>4 DEF SortClusters, SetToSeqs
  <1>6. \A c \in S : \E i \in 1..n : clusters'[i] = c
    <2>1. clusters' \in Injection(1..n, S)
      BY <1>5 DEF Injection, IsInjective
    <2>2. Cardinality(1..n) = n
      BY FS_Interval
    <2>3. clusters' \in Surjection(1..n, S)
      BY <1>3, <1>4, <2>1, <2>2, FS_Injection
    <2> QED
      BY <2>3 DEF Surjection
  <1>7. DOMAIN clusters' = 1..n /\ Range(clusters') = S /\ clusters' \in Seq(Cluster)
    <2>1. Range(clusters') = S
      BY <1>5, <1>6 DEF Range
    <2>2. clusters' \in Seq(S)
      BY <1>5
    <2>3. clusters' \in Seq(Cluster)
      BY <1>3, <2>2
    <2> QED
      BY <1>5, <2>1, <2>3
  <1>8. \A i \in 1..n : \E k \in DOMAIN clusters : clusters'[i] = clusters[k]
    BY <1>2, <1>5 DEF Range
  <1>9. TypeOK'
    <2>1. Cluster' = Cluster
      BY <1>1 DEF Cluster
    <2> QED
      BY <1>1, <1>7, <2>1 DEF IInv, TypeOK, Cluster
  <1>10. ClustersPartition'
    <2>1. left' = responses' \ UNION {c.members : c \in Range(clusters')}
      BY <1>1, <1>2, <1>7 DEF IInv, ClustersPartition
    <2>2. \A i \in DOMAIN clusters' :
            /\ clusters'[i].representative \in clusters'[i].members
            /\ \A s \in clusters'[i].members \ {clusters'[i].representative} :
                 Similar(clusters'[i].representative, s)
      BY <1>7, <1>8 DEF IInv, ClustersPartition
    <2>3. \A i, j \in DOMAIN clusters' : i # j =>
            /\ clusters'[i].members \cap clusters'[j].members = {}
            /\ ~ Similar(clusters'[i].representative, clusters'[j].representative)
      <3> SUFFICES ASSUME NEW i \in 1..n, NEW j \in 1..n, i # j
                   PROVE  /\ clusters'[i].members \cap clusters'[j].members = {}
                          /\ ~ Similar(clusters'[i].representative,
                                       clusters'[j].representative)
        BY <1>7
      <3>1. PICK k \in DOMAIN clusters : clusters'[i] = clusters[k]
        BY <1>8
      <3>2. PICK l \in DOMAIN clusters : clusters'[j] = clusters[l]
        BY <1>8
      <3>3. k # l
        BY <1>5, <3>1, <3>2
      <3> QED
        BY <3>1, <3>2, <3>3 DEF IInv, ClustersPartition
    <2> QED
      BY <1>1, <2>1, <2>2, <2>3 DEF ClustersPartition, Similar, Similarity
  <1>11. Phases' /\ Apart'
    BY <1>1 DEF Phases, Apart
  <1>12. Grouped'
    <2> SUFFICES ASSUME NEW T \in SUBSET responses, T # {}, Group(T)
                 PROVE  \E i \in DOMAIN clusters' : clusters'[i].members = T
      BY <1>1 DEF Grouped, Group, Similar, Similarity
    <2>1. PICK k \in DOMAIN clusters : clusters[k].members = T
      BY <1>1 DEF IInv, Grouped
    <2>2. clusters[k] \in S
      BY <1>2 DEF Range
    <2> QED
      BY <1>6, <1>7, <2>1, <2>2
  <1>13. Sorted'
    BY <1>1 DEF Sorted, Ahead, Size
  <1> QED
    BY <1>9, <1>10, <1>11, <1>12, <1>13 DEF IInv

LEMMA InitSafe ==
  ASSUME Init
  PROVE  IInv
  <1>1. /\ embedding = [r \in {} |-> <<>>] /\ left = responses /\ clusters = <<>>
        /\ phase = IF responses = {} THEN "failed" ELSE "embedding"
        /\ responses \subseteq Nodes
    BY DEF Init
  <1>2. DOMAIN embedding = {} /\ embedding \in [{} -> Vectors]
    BY <1>1
  <1>3. clusters \in Seq(Cluster) /\ DOMAIN clusters = {} /\ Range(clusters) = {}
    BY <1>1 DEF Range
  <1>4. TypeOK
    BY <1>1, <1>2, <1>3 DEF TypeOK, Cluster
  <1>5. ClustersPartition
    BY <1>1, <1>3 DEF ClustersPartition
  <1>6. Phases /\ Apart /\ Grouped /\ Sorted
    BY <1>1, <1>3 DEF Phases, Apart, Grouped, Sorted
  <1> QED
    BY <1>4, <1>5, <1>6 DEF IInv

LEMMA StepSafe ==
  ASSUME IInv, [Next]_vars
  PROVE  IInv'
  <1>1. CASE UNCHANGED vars
    <2>1. Cluster' = Cluster
      BY <1>1 DEF vars, Cluster
    <2>2. /\ TypeOK' /\ ClustersPartition'
      BY <1>1 DEF IInv, TypeOK, ClustersPartition, Similar, Similarity, vars
    <2>3. Phases' /\ Apart' /\ Grouped' /\ Sorted'
      BY <1>1 DEF IInv, Phases, Apart, Grouped, Sorted, Group, Size, Similar,
                  Similarity, vars
    <2> QED
      BY <2>2, <2>3 DEF IInv
  <1> QED
    BY <1>1, EmbeddingStep, StartStep, SortStep DEF Next

\* semantic.go:91-157: what ClusterResponses keeps from one step to the next.
THEOREM Invariance == Spec => []IInv
  BY InitSafe, StepSafe, PTL DEF Spec

\* The types of the variables.
THEOREM TypeCorrect == Spec => []TypeOK
  <1>1. IInv => TypeOK
    BY DEF IInv
  <1> QED
    BY <1>1, Invariance, PTL

\* semantic.go:59-80: scores are those of a cosine, whatever the vectors.
THEOREM ScoresAreOfCosines == Spec => []ScoresAreCosines
  <1>1. TypeOK => ScoresAreCosines
    <2> SUFFICES ASSUME TypeOK, NEW r \in DOMAIN embedding, NEW s \in DOMAIN embedding
                 PROVE  /\ Similarity(r, s) = Similarity(s, r)
                        /\ Similarity(r, s) \in -100..100
                        /\ Norm(embedding[r]) = 0 => Similarity(r, s) = 0
                        /\ embedding[r] = embedding[s] /\ Norm(embedding[r]) # 0
                             => Similarity(r, s) = 100
      BY DEF ScoresAreCosines
    <2>1. embedding \in [DOMAIN embedding -> Vectors]
      BY DEF TypeOK
    <2>2. embedding[r] \in Vectors /\ embedding[s] \in Vectors
      BY <2>1
    <2>3. /\ Similarity(r, s) = CosineSimilarity(embedding[r], embedding[s])
          /\ Similarity(r, s) = Similarity(s, r)
      BY <2>1, ScoreLemma
    <2> QED
      BY <2>2, <2>3, CosineLemma
  <1> QED
    BY <1>1, TypeCorrect, PTL

\* semantic.go:113-157: the clusters are a partition of the responses, whatever
\* the order in which the responses come.
THEOREM ClustersArePartition == Spec => []ClustersPartition
  <1>1. IInv => ClustersPartition
    BY DEF IInv
  <1> QED
    BY <1>1, Invariance, PTL

LEMMA GroupsLemma == IInv => GroupsAreClusters
  <1> SUFFICES ASSUME IInv, phase \in {"sorting", "done"},
                      NEW S \in SUBSET responses, S # {}, Group(S)
               PROVE  \E c \in Range(clusters) : c.members = S
    BY DEF GroupsAreClusters
  <1>1. left = {}
    BY DEF IInv, Phases
  <1>2. PICK i \in DOMAIN clusters : clusters[i].members = S
    BY <1>1 DEF IInv, Grouped
  <1> QED
    BY <1>2 DEF Range

\* semantic.go:116-138: the clusters of groups do not depend on the order.
THEOREM GroupsAreFound == Spec => []GroupsAreClusters
  BY GroupsLemma, Invariance, PTL

\* semantic.go:160-179: more than half of the responses, if they are similar to
\* each other and to no other, have the response that is selected.
THEOREM MajoritiesAreSelected == Spec => []MajorityIsSelected
  <1>1. IInv => MajorityIsSelected
    <2> SUFFICES ASSUME IInv, phase = "done", NEW S \in SUBSET responses,
                        2 * Cardinality(S) > Cardinality(responses), Group(S)
                 PROVE  Selected \in S
      BY DEF MajorityIsSelected
    <2>1. IsFiniteSet(responses) /\ responses \subseteq Nodes
      BY SimilarityAssumption, FS_Subset DEF IInv, TypeOK
    <2>2. \A T \in SUBSET responses : IsFiniteSet(T) /\ Cardinality(T) \in Nat
      BY <2>1, FS_Subset, FS_CardinalityType
    <2>3. S # {}
      BY <2>1, <2>2, FS_EmptySet
    <2>4. PICK i \in DOMAIN clusters : clusters[i].members = S
      BY <2>3 DEF IInv, Grouped, Phases
    <2>5. /\ DOMAIN clusters = 1..Len(clusters) /\ Len(clusters) \in Nat
          /\ \A k \in DOMAIN clusters : clusters[k].members \subseteq responses
      BY ClustersLemma DEF IInv
    <2>6. 1 \in DOMAIN clusters /\ i \in Nat /\ 1 <= i
      BY <2>5
    <2>7. i = 1
      <3> SUFFICES ASSUME i # 1 PROVE FALSE
        OBVIOUS
      <3>1. ~ Size(clusters[i]) > Size(clusters[1])
        BY <2>6 DEF IInv, Sorted
      <3>2. PICK T \in SUBSET responses : T = clusters[1].members
        BY <2>5, <2>6
      <3>3. Cardinality(T) >= Cardinality(S)
        BY <2>2, <2>4, <3>1, <3>2 DEF Size
      <3>4. Cardinality(S) + Cardinality(T) > Cardinality(responses)
        BY <2>1, <2>2, <3>3
      <3>5. S \cap T # {}
        BY <2>1, <3>4, FS_MajoritiesIntersect
      <3> QED
        BY <2>4, <2>6, <3>2, <3>5 DEF IInv, ClustersPartition
    <2>8. clusters # <<>> /\ clusters[1].representative \in clusters[1].members
      BY <2>5, <2>6 DEF IInv, ClustersPartition
    <2> QED
      BY <2>4, <2>7, <2>8 DEF Selected
  <1> QED
    BY <1>1, Invariance, PTL
=============================================================================
