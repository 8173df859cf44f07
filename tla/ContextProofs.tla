---------------------------- MODULE ContextProofs ----------------------------
(***************************************************************************)
(* Proofs about ChatContext: what a prompt is made of, for any window, any *)
(* number of calls and sessions and every interleaving that ChatService    *)
(* allows.                                                                 *)
(*                                                                         *)
(* The context builder filters and slices a listing; the lemmas on sets in *)
(* order say which elements are where in the result.  ChatServiceProofs    *)
(* says that the history it works on is the dialogue before the question,  *)
(* and that a reply's question stands right before it.                     *)
(***************************************************************************)
EXTENDS ChatContext, ChatServiceProofs

-----------------------------------------------------------------------------
(* Sets in order.                                                          *)

\* rank orders the elements of S, no two of them alike.
Ranks(rank, S) == /\ \A x \in S : rank[x] \in Int
                  /\ \A x, y \in S : rank[x] = rank[y] => x = y

\* The elements of S that rank below and above x.
Below(S, rank, x) == {y \in S : rank[y] < rank[x]}
Above(S, rank, x) == {y \in S : rank[y] > rank[x]}

\* f lists the elements of S, each once, by increasing rank.
InOrderOf(f, S, rank) ==
    /\ f \in [1 .. Cardinality(S) -> S]
    /\ \A i, j \in 1 .. Cardinality(S) : i < j => rank[f[i]] < rank[f[j]]

\* A finite set can be put in order, by any rank that tells its elements
\* apart.
LEMMA OrderExists ==
    ASSUME NEW S, IsFiniteSet(S), NEW rank, Ranks(rank, S)
    PROVE  \E f : InOrderOf(f, S, rank)
<1> USE DEF Ranks
<1> DEFINE Bad == {T \in SUBSET S : ~ \E f : InOrderOf(f, T, rank)}
<1> SUFFICES ASSUME Bad # {} PROVE FALSE
  OBVIOUS
<1>1. PICK T \in Bad : \A U \in Bad : ~(<<U, T>> \in StrictSubsetOrdering(S))
  <2>1. IsWellFoundedOn(StrictSubsetOrdering(S), SUBSET S)
    BY FS_StrictSubsetOrderingWellFounded, FS_FiniteSubsetsOfFinite
  <2>2. Bad \subseteq SUBSET S /\ Bad # {}
    OBVIOUS
  <2> HIDE DEF Bad
  <2> QED
    BY <2>1, <2>2, WFMin
<1>2. /\ T \in SUBSET S
      /\ \A f : ~InOrderOf(f, T, rank)
  BY <1>1
<1>3. IsFiniteSet(T) /\ Cardinality(T) \in Nat
  BY <1>2, FS_Subset, FS_CardinalityType
<1>4. T # {}
  <2> SUFFICES ASSUME T = {} PROVE FALSE
    OBVIOUS
  <2>1. Cardinality(T) = 0 /\ 1 .. 0 = {}
    BY FS_EmptySet
  <2>2. InOrderOf([i \in {} |-> i], T, rank)
    BY <2>1 DEF InOrderOf
  <2> QED
    BY <1>2, <2>2
<1>5. PICK t \in T : \A x \in T : rank[x] <= rank[t]
  <2> DEFINE r == [x \in T |-> rank[x]]
  <2>1. r \in [T -> Int]
    BY <1>2
  <2>2. \E t \in T : \A x \in T : r[x] <= r[t]
    <3> HIDE DEF r
    <3> QED
      BY <1>3, <1>4, <2>1, GreatestRank
  <2> QED
    BY <2>2
<1> DEFINE U == T \ {t}
           n == Cardinality(U)
<1>6. n \in Nat /\ Cardinality(T) = n + 1
  <2>1. IsFiniteSet(U) /\ n = Cardinality(T) - 1
    BY <1>3, FS_RemoveElement
  <2>2. n \in Nat
    BY <2>1, FS_CardinalityType
  <2> HIDE DEF n
  <2> QED
    BY <1>3, <2>1, <2>2
<1>7. PICK f : InOrderOf(f, U, rank)
  <2>1. U \in SUBSET S /\ <<U, T>> \in StrictSubsetOrdering(S)
    BY <1>2 DEF StrictSubsetOrdering
  <2> QED
    BY <1>1, <2>1
<1> DEFINE g == [i \in 1 .. n + 1 |-> IF i = n + 1 THEN t ELSE f[i]]
<1>8. /\ f \in [1 .. n -> U]
      /\ \A i, j \in 1 .. n : i < j => rank[f[i]] < rank[f[j]]
  BY <1>7 DEF InOrderOf
<1>9. g \in [1 .. n + 1 -> T]
  <2> HIDE DEF n
  <2>1. \A i \in 1 .. n + 1 : i # n + 1 => i \in 1 .. n
    BY <1>6
  <2>2. \A i \in 1 .. n : f[i] \in T
    BY <1>8
  <2> QED
    BY <2>1, <2>2
<1>10. ASSUME NEW i \in 1 .. n + 1, NEW j \in 1 .. n + 1, i < j
       PROVE  rank[g[i]] < rank[g[j]]
  <2> HIDE DEF n
  <2>1. i \in 1 .. n /\ g[i] = f[i] /\ f[i] \in U
    BY <1>6, <1>8, <1>10
  <2>2. CASE j = n + 1
    <3>1. g[j] = t /\ rank[f[i]] \in Int /\ rank[t] \in Int
      BY <1>2, <2>1, <2>2
    <3>2. rank[f[i]] <= rank[t] /\ rank[f[i]] # rank[t]
      BY <1>2, <1>5, <2>1
    <3> QED
      BY <2>1, <3>1, <3>2
  <2>3. CASE j # n + 1
    <3>1. j \in 1 .. n /\ g[j] = f[j]
      BY <1>6, <2>3
    <3> QED
      BY <1>8, <1>10, <2>1, <3>1
  <2> QED
    BY <2>2, <2>3
<1>11. InOrderOf(g, T, rank)
  <2> HIDE DEF g, n, U
  <2> QED
    BY <1>6, <1>9, <1>10 DEF InOrderOf
<1> QED
  BY <1>2, <1>11

\* InOrder puts a set in order.
LEMMA InOrderOrders ==
    ASSUME NEW S, IsFiniteSet(S), NEW rank, Ranks(rank, S)
    PROVE  InOrderOf(InOrder(S, rank), S, rank)
<1> DEFINE N == 1 .. Cardinality(S)
<1>1. PICK f : InOrderOf(f, S, rank)
  BY OrderExists
<1>2. f \in [N -> S] /\ \A i, j \in DOMAIN f : i < j => rank[f[i]] < rank[f[j]]
  BY <1>1 DEF InOrderOf
<1>3. /\ InOrder(S, rank) \in [N -> S]
      /\ \A i, j \in DOMAIN InOrder(S, rank) :
            i < j => rank[InOrder(S, rank)[i]] < rank[InOrder(S, rank)[j]]
  BY <1>2 DEF InOrder
<1> QED
  BY <1>3 DEF InOrderOf

\* A listing in order misses nothing, repeats nothing, and its positions
\* compare as the ranks do.
LEMMA OrderIsExact ==
    ASSUME NEW S, IsFiniteSet(S), NEW rank, Ranks(rank, S),
           NEW f, InOrderOf(f, S, rank)
    PROVE  /\ Cardinality(S) \in Nat
           /\ f \in [1 .. Cardinality(S) -> S]
           /\ \A i \in 1 .. Cardinality(S) : rank[f[i]] \in Int
           /\ \A x \in S : \E i \in 1 .. Cardinality(S) : f[i] = x
           /\ \A i, j \in 1 .. Cardinality(S) :
                 /\ i < j <=> rank[f[i]] < rank[f[j]]
                 /\ i = j <=> f[i] = f[j]
<1> DEFINE n == Cardinality(S)
<1>1. n \in Nat /\ IsFiniteSet(1 .. n) /\ Cardinality(1 .. n) = n
  BY FS_CardinalityType, FS_Interval
<1>2. /\ f \in [1 .. n -> S]
      /\ \A i, j \in 1 .. n : i < j => rank[f[i]] < rank[f[j]]
      /\ \A i \in 1 .. n : rank[f[i]] \in Int
  BY DEF InOrderOf, Ranks
<1> HIDE DEF n
<1>3. \A i, j \in 1 .. n : /\ i < j <=> rank[f[i]] < rank[f[j]]
                           /\ i = j <=> f[i] = f[j]
  <2> SUFFICES ASSUME NEW i \in 1 .. n, NEW j \in 1 .. n
               PROVE  /\ i < j <=> rank[f[i]] < rank[f[j]]
                      /\ i = j <=> f[i] = f[j]
    OBVIOUS
  <2>1. i \in Int /\ j \in Int /\ (i < j \/ i = j \/ j < i)
    BY <1>1
  <2>2. /\ i < j => rank[f[i]] < rank[f[j]]
        /\ j < i => rank[f[j]] < rank[f[i]]
        /\ rank[f[i]] \in Int /\ rank[f[j]] \in Int
    BY <1>2
  <2> QED
    BY <2>1, <2>2
<1>4. f \in Injection(1 .. n, S)
  BY <1>2, <1>3 DEF Injection, IsInjective
<1>5. f \in Surjection(1 .. n, S)
  BY <1>1, <1>4, FS_Injection DEF n
<1>6. \A x \in S : \E i \in 1 .. n : f[i] = x
  BY <1>5 DEF Surjection
<1> QED
  BY <1>1, <1>2, <1>3, <1>6 DEF n

\* The elements listed between two positions are as many as the positions.
LEMMA Stretch ==
    ASSUME NEW S, IsFiniteSet(S), NEW rank, Ranks(rank, S),
           NEW f, InOrderOf(f, S, rank),
           NEW a \in Int, NEW b \in Int, a .. b \subseteq 1 .. Cardinality(S),
           NEW T \in SUBSET S,
           \A i \in 1 .. Cardinality(S) : f[i] \in T <=> i \in a .. b
    PROVE  Cardinality(T) = IF a > b THEN 0 ELSE b - a + 1
<1> DEFINE n == Cardinality(S)
<1>1. /\ f \in [1 .. n -> S]
      /\ \A i, j \in 1 .. n : i = j <=> f[i] = f[j]
      /\ \A x \in S : \E i \in 1 .. n : f[i] = x
  BY OrderIsExact
<1>2. a .. b \subseteq 1 .. n /\ \A i \in 1 .. n : f[i] \in T <=> i \in a .. b
  OBVIOUS
<1> HIDE DEF n
<1> DEFINE g == [i \in a .. b |-> f[i]]
<1>3. g \in Bijection(a .. b, T)
  <2>1. g \in [a .. b -> T]
    BY <1>2
  <2>2. \A i, j \in a .. b : g[i] = g[j] => i = j
    BY <1>1, <1>2
  <2>3. \A x \in T : \E i \in a .. b : g[i] = x
    BY <1>1, <1>2
  <2> HIDE DEF g
  <2> QED
    BY <2>1, <2>2, <2>3 DEF Bijection, Injection, Surjection, IsInjective
<1>4. ExistsBijection(a .. b, T)
  BY <1>3 DEF ExistsBijection
<1>5. /\ IsFiniteSet(a .. b)
      /\ Cardinality(a .. b) = IF a > b THEN 0 ELSE b - a + 1
  BY FS_Interval
<1> QED
  BY <1>4, <1>5, FS_Bijection

\* An element's position tells how many stand before and after it.
LEMMA Positions ==
    ASSUME NEW S, IsFiniteSet(S), NEW rank, Ranks(rank, S),
           NEW f, InOrderOf(f, S, rank), NEW i \in 1 .. Cardinality(S)
    PROVE  /\ Cardinality(Below(S, rank, f[i])) = i - 1
           /\ Cardinality(Above(S, rank, f[i])) = Cardinality(S) - i
<1> DEFINE n == Cardinality(S)
           Before == Below(S, rank, f[i])
           After == Above(S, rank, f[i])
<1>1. /\ n \in Nat /\ i \in Int /\ 1 <= i /\ i <= n
      /\ f \in [1 .. n -> S]
      /\ \A j, k \in 1 .. n : j < k <=> rank[f[j]] < rank[f[k]]
      /\ \A j \in 1 .. n : rank[f[j]] \in Int
  <2>1. /\ n \in Nat
        /\ f \in [1 .. n -> S]
        /\ \A j, k \in 1 .. n : j < k <=> rank[f[j]] < rank[f[k]]
        /\ \A j \in 1 .. n : rank[f[j]] \in Int
    BY OrderIsExact
  <2>2. i \in 1 .. n
    OBVIOUS
  <2> HIDE DEF n
  <2> QED
    BY <2>1, <2>2
<1>2. Cardinality(Before) = IF 1 > i - 1 THEN 0 ELSE (i - 1) - 1 + 1
  <2>1. 1 .. i - 1 \subseteq 1 .. n /\ i - 1 \in Int /\ 1 \in Int
    <3> HIDE DEF n
    <3> QED
      BY <1>1
  <2>2. \A j \in 1 .. n : f[j] \in Before <=> j \in 1 .. i - 1
    <3> HIDE DEF n
    <3> QED
      BY <1>1 DEF Below
  <2>3. Before \in SUBSET S
    BY DEF Below
  <2> HIDE DEF Before
  <2> QED
    BY <2>1, <2>2, <2>3, Stretch
<1>3. Cardinality(After) = IF i + 1 > n THEN 0 ELSE n - (i + 1) + 1
  <2>1. i + 1 .. n \subseteq 1 .. n /\ i + 1 \in Int /\ n \in Int
    <3> HIDE DEF n
    <3> QED
      BY <1>1
  <2>2. ASSUME NEW j \in 1 .. n PROVE f[j] \in After <=> j \in i + 1 .. n
    <3> HIDE DEF n
    <3>1. /\ i < j <=> rank[f[i]] < rank[f[j]]
          /\ rank[f[i]] \in Int /\ rank[f[j]] \in Int /\ f[j] \in S
          /\ j \in Int /\ j <= n
      BY <1>1
    <3> QED
      BY <1>1, <3>1 DEF Above
  <2>3. After \in SUBSET S
    BY DEF Above
  <2> HIDE DEF After
  <2> QED
    BY <2>1, <2>2, <2>3, Stretch
<1> HIDE DEF n, Before, After
<1>4. Cardinality(Before) = i - 1 /\ Cardinality(After) = n - i
  BY <1>1, <1>2, <1>3
<1> QED
  BY <1>4 DEF n, Before, After

-----------------------------------------------------------------------------
(* The context builder.                                                    *)

\* Filtering a listing lists what passes the filter.
LEMMA UsableInOrder ==
    ASSUME NEW S, IsFiniteSet(S), NEW rank, Ranks(rank, S),
           NEW f, InOrderOf(f, S, rank)
    PROVE  InOrderOf(UsableTurns(f), {m \in S : Usable(m)}, rank)
<1> DEFINE n == Cardinality(S)
           U == {m \in S : Usable(m)}
           at == {i \in DOMAIN f : Usable(f[i])}
           kept == InOrder(at, [i \in at |-> i])
           k == Cardinality(at)
<1>1. /\ n \in Nat
      /\ f \in [1 .. n -> S]
      /\ \A i, j \in 1 .. n : i < j <=> rank[f[i]] < rank[f[j]]
      /\ \A i, j \in 1 .. n : i = j <=> f[i] = f[j]
      /\ \A x \in S : \E i \in 1 .. n : f[i] = x
  BY OrderIsExact
<1> HIDE DEF n
<1>2. at = {i \in 1 .. n : Usable(f[i])} /\ at \in SUBSET (1 .. n)
  BY <1>1
<1>3. IsFiniteSet(at)
  BY <1>1, <1>2, FS_Interval, FS_Subset
<1>4. InOrderOf(kept, at, [i \in at |-> i])
  <2>1. Ranks([i \in at |-> i], at)
    BY <1>1, <1>2 DEF Ranks
  <2> HIDE DEF at
  <2> QED
    BY <1>3, <2>1, InOrderOrders
<1>5. Cardinality(U) = k
  <2> DEFINE g == [i \in at |-> f[i]]
  <2>1. g \in Bijection(at, U)
    <3>1. g \in [at -> U]
      BY <1>1, <1>2
    <3>2. \A i, j \in at : g[i] = g[j] => i = j
      BY <1>1, <1>2
    <3>3. \A x \in U : \E i \in at : g[i] = x
      BY <1>1, <1>2
    <3> HIDE DEF g, at, U
    <3> QED
      BY <3>1, <3>2, <3>3 DEF Bijection, Injection, Surjection, IsInjective
  <2>2. ExistsBijection(at, U)
    BY <2>1 DEF ExistsBijection
  <2> HIDE DEF at, U
  <2> QED
    BY <1>3, <2>2, FS_Bijection
<1>6. /\ kept \in [1 .. k -> at]
      /\ \A i, j \in 1 .. k : i < j => kept[i] < kept[j]
  <2> HIDE DEF at, kept
  <2>1. /\ kept \in [1 .. k -> at]
        /\ \A i, j \in 1 .. k : i < j =>
              [a \in at |-> a][kept[i]] < [a \in at |-> a][kept[j]]
    BY <1>4 DEF InOrderOf
  <2> QED
    BY <2>1
<1>7. UsableTurns(f) = [i \in DOMAIN kept |-> f[kept[i]]]
  BY DEF UsableTurns
<1>8. UsableTurns(f) = [i \in 1 .. k |-> f[kept[i]]]
  BY <1>6, <1>7
<1>9. \A a \in at : a \in 1 .. n /\ f[a] \in U
  BY <1>1, <1>2
<1> HIDE DEF at, kept, k, U
<1>10. [i \in 1 .. k |-> f[kept[i]]] \in [1 .. k -> U]
  BY <1>6, <1>9
<1>11. \A i, j \in 1 .. k : i < j => rank[f[kept[i]]] < rank[f[kept[j]]]
  <2> SUFFICES ASSUME NEW i \in 1 .. k, NEW j \in 1 .. k, i < j
               PROVE  rank[f[kept[i]]] < rank[f[kept[j]]]
    OBVIOUS
  <2>1. PICK a \in at, b \in at : a = kept[i] /\ b = kept[j] /\ a < b
    BY <1>6
  <2>2. a \in 1 .. n /\ b \in 1 .. n
    BY <1>9
  <2>3. rank[f[a]] < rank[f[b]]
    BY <1>1, <2>1, <2>2
  <2> QED
    BY <2>1, <2>3
<1>12. InOrderOf(UsableTurns(f), U, rank)
  BY <1>5, <1>8, <1>10, <1>11 DEF InOrderOf
<1> QED
  BY <1>12 DEF U

\* The elements of S that fewer than ContextMaxMessages others follow.
Newest(S, rank) ==
    {m \in S : Cardinality(Above(S, rank, m)) < ContextMaxMessages}

\* Slicing a listing lists its newest elements.
LEMMA NewestInOrder ==
    ASSUME NEW S, IsFiniteSet(S), NEW rank, Ranks(rank, S),
           NEW f, InOrderOf(f, S, rank)
    PROVE  /\ InOrderOf(Recent(f), Newest(S, rank), rank)
           /\ Cardinality(Newest(S, rank)) =
                 IF Cardinality(S) <= ContextMaxMessages
                 THEN Cardinality(S) ELSE ContextMaxMessages
<1> DEFINE n == Cardinality(S)
           K == ContextMaxMessages
           W == Newest(S, rank)
<1>1. /\ n \in Nat /\ K \in Nat \ {0}
      /\ f \in [1 .. n -> S] /\ f \in Seq(S) /\ Len(f) = n
      /\ \A i, j \in 1 .. n : i < j => rank[f[i]] < rank[f[j]]
      /\ \A x \in S : \E i \in 1 .. n : f[i] = x
  <2>1. /\ n \in Nat
        /\ f \in [1 .. n -> S]
        /\ \A i, j \in 1 .. n : i < j => rank[f[i]] < rank[f[j]]
        /\ \A x \in S : \E i \in 1 .. n : f[i] = x
    BY OrderIsExact
  <2> HIDE DEF n
  <2> QED
    BY <2>1, WindowAssumption
<1>2. \A i \in 1 .. n : f[i] \in W <=> n - i < K
  <2> SUFFICES ASSUME NEW i \in 1 .. n PROVE f[i] \in W <=> n - i < K
    OBVIOUS
  <2>1. Cardinality(Above(S, rank, f[i])) = n - i
    BY Positions
  <2>2. f[i] \in S
    BY <1>1
  <2> QED
    BY <2>1, <2>2 DEF Newest
<1>3. W \in SUBSET S
  BY DEF Newest
<1> HIDE DEF n, K, W
<1>4. CASE n <= K
  <2>1. W = S
    BY <1>1, <1>2, <1>3, <1>4
  <2>2. Recent(f) = f
    BY <1>1, <1>4 DEF Recent, K
  <2> QED
    BY <1>4, <2>1, <2>2 DEF n, K, W
<1>5. CASE n > K
  <2>1. /\ n + 1 - K \in Int /\ n \in Int
        /\ n + 1 - K .. n \subseteq 1 .. n
        /\ \A i \in 1 .. n : f[i] \in W <=> i \in n + 1 - K .. n
        /\ ~(n + 1 - K > n) /\ n - (n + 1 - K) + 1 = K
    BY <1>1, <1>2, <1>5
  <2>2. Cardinality(W) = K
    <3>1. Cardinality(W)
            = IF n + 1 - K > n THEN 0 ELSE n - (n + 1 - K) + 1
      <4>1. n + 1 - K .. n \subseteq 1 .. Cardinality(S)
        BY <2>1 DEF n
      <4>2. \A i \in 1 .. Cardinality(S) : f[i] \in W <=> i \in n + 1 - K .. n
        BY <2>1 DEF n
      <4> QED
        BY <1>3, <2>1, <4>1, <4>2, Stretch
    <3> QED
      BY <2>1, <3>1
  <2>3. Recent(f) = SubSeq(f, n + 1 - K, n)
    BY <1>1, <1>5 DEF Recent, K
  <2>4. Recent(f) = [j \in 1 .. K |-> f[n - K + j]]
    <3>1. SubSeq(f, n + 1 - K, n)
             = [j \in 1 .. n - (n + 1 - K) + 1 |-> f[(n + 1 - K) + j - 1]]
      BY <1>1, <2>1
    <3>2. \A j \in 1 .. K : (n + 1 - K) + j - 1 = n - K + j
      BY <1>1
    <3> QED
      BY <2>1, <2>3, <3>1, <3>2
  <2>5. \A j \in 1 .. K : n - K + j \in 1 .. n /\ f[n - K + j] \in W
    BY <1>1, <1>5, <2>1
  <2>6. \A i, j \in 1 .. K :
            i < j => rank[f[n - K + i]] < rank[f[n - K + j]]
    BY <1>1, <2>5
  <2>7. InOrderOf(Recent(f), W, rank)
    BY <2>2, <2>4, <2>5, <2>6 DEF InOrderOf
  <2> QED
    BY <1>1, <1>5, <2>2, <2>7 DEF n, K, W
<1> QED
  BY <1>1, <1>4, <1>5

\* The parts of a prompt.
LEMMA PromptParts ==
    ASSUME NEW V, NEW pinned \in Seq(V), NEW past,
           Kept(past) \in Seq(V), NEW question \in V,
           NEW c, c = Build(pinned, past, question)
    PROVE  /\ Len(c) = Len(pinned) + Len(Kept(past)) + 1
           /\ c[Len(c)] = question
           /\ pinned # <<>> => Head(c) = pinned[1]
           /\ SubSeq(c, Len(pinned) + 1, Len(c) - 1) = Kept(past)
<1> DEFINE kept == Kept(past)
<1>1. c = pinned \o kept \o <<question>> /\ kept \in Seq(V)
  BY DEF Build
<1> HIDE DEF kept
<1>2. /\ c \in Seq(V) /\ Len(c) = Len(pinned) + Len(kept) + 1
      /\ Len(pinned) \in Nat /\ Len(kept) \in Nat
  BY <1>1
<1>3. c[Len(c)] = question
  BY <1>1, <1>2
<1>4. pinned # <<>> => Head(c) = pinned[1]
  BY <1>1, <1>2
<1>5. SubSeq(c, Len(pinned) + 1, Len(c) - 1) = kept
  <2>1. \A j \in 1 .. Len(kept) : c[Len(pinned) + j] = kept[j]
    BY <1>1, <1>2
  <2>2. SubSeq(c, Len(pinned) + 1, Len(c) - 1)
          = [j \in 1 .. Len(kept) |-> c[Len(pinned) + j]]
    <3> DEFINE a == Len(pinned) + 1
               b == Len(c) - 1
    <3>1. /\ a \in Int /\ b \in Int /\ b - a + 1 = Len(kept)
          /\ \A j \in 1 .. Len(kept) : a + j - 1 = Len(pinned) + j
      BY <1>2
    <3>2. SubSeq(c, a, b) = [j \in 1 .. b - a + 1 |-> c[a + j - 1]]
      BY <1>2
    <3> HIDE DEF a, b
    <3>3. SubSeq(c, a, b) = [j \in 1 .. Len(kept) |-> c[Len(pinned) + j]]
      BY <3>1, <3>2
    <3> QED
      BY <3>3 DEF a, b
  <2> QED
    <3>1. kept = [j \in 1 .. Len(kept) |-> kept[j]]
      BY <1>1
    <3> QED
      BY <2>1, <2>2, <3>1
<1> QED
  BY <1>2, <1>3, <1>4, <1>5 DEF kept

-----------------------------------------------------------------------------
(* Prompts.                                                                *)

\* Whoever waits for a reply has its history in order: the usable turns of
\* what it read are the past of its question.
LEMMA HistoryIsPast ==
    ASSUME TypeOK, IInv, HistoryBelowLimit, NEW r \in Request, Prompting(r),
           NEW rank, rank = [m \in history[r] |-> m.seq]
    PROVE  /\ IsFiniteSet(history[r])
           /\ Ranks(rank, history[r])
           /\ {m \in history[r] : Usable(m)} = Past(r)
           /\ \A m \in history[r] : rank[m] = m.seq
<1>1. Asked(r)
  BY DEF Prompting, IInv, Origins, Awaiting
<1>2. history[r] = {m \in Dialogue(sid[r], loaded[r].generation) :
                       m.seq < seq[r]}
  BY <1>1 DEF IInv, HistoryIsDialogue
<1>3. \A m \in messages : m.seq \in Nat /\ m.role \in {"user", "assistant"}
  BY DEF TypeOK, Message
<1>4. {m \in history[r] : Usable(m)} = Past(r)
  BY <1>2, <1>3 DEF Past, Usable, Dialogue
<1>5. \A m \in history[r] : rank[m] = m.seq /\ rank[m] \in Int
  BY <1>2, <1>3 DEF Dialogue
<1>6. \A m, n \in history[r] : rank[m] = rank[n] => m = n
  BY <1>2, <1>5 DEF Dialogue, IInv, LogIsASequence, UniqueSeq
<1> QED
  BY <1>1, <1>4, <1>5, <1>6 DEF HistoryBelowLimit, Ranks

\* The first n of the turns as the provider gets them.
AsPrompts(turns, n) == [i \in 1 .. n |-> AsPrompt(turns[i])]

\* What stands between the system message and the question.
LEMMA PromptOfCall ==
    ASSUME TypeOK, IInv, HistoryBelowLimit, NEW r \in Request, Prompting(r)
    PROVE  \E rank, turns :
              /\ Ranks(rank, Past(r)) /\ IsFiniteSet(Past(r))
              /\ \A m \in Past(r) : rank[m] = m.seq
              /\ Window(r) = Newest(Past(r), rank)
              /\ InOrderOf(turns, Window(r), rank)
              /\ Cardinality(Window(r)) =
                    IF Cardinality(Past(r)) <= ContextMaxMessages
                    THEN Cardinality(Past(r)) ELSE ContextMaxMessages
              /\ Kept(Listed(history[r])) = AsPrompts(turns, Cardinality(Window(r)))
<1> DEFINE H == history[r]
           rank == [m \in H |-> m.seq]
           turns == Recent(UsableTurns(Listed(H)))
           P == Past(r)
           W == Window(r)
<1>1. /\ IsFiniteSet(H) /\ Ranks(rank, H)
      /\ {m \in H : Usable(m)} = P /\ \A m \in H : rank[m] = m.seq
  BY HistoryIsPast
<1>2. P \in SUBSET H
  BY <1>1
<1>3. IsFiniteSet(P) /\ Ranks(rank, P) /\ \A m \in P : rank[m] = m.seq
  <2> HIDE DEF P, H, rank
  <2> QED
    BY <1>1, <1>2, FS_Subset DEF Ranks
<1>4. InOrderOf(Listed(H), H, rank)
  <2>1. Listed(H) = InOrder(H, rank)
    BY DEF Listed
  <2> HIDE DEF H, rank
  <2> QED
    BY <1>1, <2>1, InOrderOrders
<1>5. InOrderOf(UsableTurns(Listed(H)), P, rank)
  <2> HIDE DEF H, rank, P
  <2> QED
    BY <1>1, <1>4, UsableInOrder
<1>6. /\ InOrderOf(turns, Newest(P, rank), rank)
      /\ Cardinality(Newest(P, rank)) =
            IF Cardinality(P) <= ContextMaxMessages
            THEN Cardinality(P) ELSE ContextMaxMessages
  <2> HIDE DEF H, rank, P
  <2> QED
    BY <1>3, <1>5, NewestInOrder
<1>7. W = Newest(P, rank)
  <2>1. \A m \in P : Above(P, rank, m) = {n \in P : n.seq > m.seq}
    <3> HIDE DEF P, rank
    <3> QED
      BY <1>3 DEF Above
  <2>2. W = {m \in P : Cardinality({n \in P : n.seq > m.seq})
                          < ContextMaxMessages}
    BY DEF Window
  <2> HIDE DEF P, rank, W
  <2> QED
    BY <2>1, <2>2 DEF Newest
<1>8. Kept(Listed(H)) = [i \in DOMAIN turns |-> AsPrompt(turns[i])]
  BY DEF Kept
<1>9. DOMAIN turns = 1 .. Cardinality(W)
  <2> HIDE DEF turns, W, P, rank
  <2> QED
    BY <1>6, <1>7 DEF InOrderOf
<1> HIDE DEF H, rank, turns, P, W
<1>10. Kept(Listed(H)) = AsPrompts(turns, Cardinality(W))
  BY <1>8, <1>9 DEF AsPrompts
<1>11. \E ra, tu :
          /\ Ranks(ra, P) /\ IsFiniteSet(P)
          /\ \A m \in P : ra[m] = m.seq
          /\ W = Newest(P, ra)
          /\ InOrderOf(tu, W, ra)
          /\ Cardinality(W) = IF Cardinality(P) <= ContextMaxMessages
                              THEN Cardinality(P) ELSE ContextMaxMessages
          /\ Kept(Listed(H)) = AsPrompts(tu, Cardinality(W))
  BY <1>3, <1>6, <1>7, <1>10
<1> QED
  BY <1>11 DEF H, P, W

\* The parts of a call's prompt.
LEMMA PartsOfPrompt ==
    ASSUME NEW r \in Request, NEW n \in Nat, NEW turns,
           Kept(Listed(history[r])) = AsPrompts(turns, n)
    PROVE  /\ Len(Context(r)) = Len(Pinned(sid[r])) + n + 1
           /\ Len(Context(r)) \in Nat
           /\ sid[r] \in Prompted => Head(Context(r)) = SystemMessage(sid[r])
           /\ Context(r)[Len(Context(r))] = [role |-> "user", of |-> r]
           /\ Middle(r) = AsPrompts(turns, n)
           /\ Len(Middle(r)) = n
<1> DEFINE past == Listed(history[r])
           question == [role |-> "user", of |-> r]
           pinned == Pinned(sid[r])
           kept == AsPrompts(turns, n)
           V == {AsPrompt(turns[i]) : i \in 1 .. n}
                \cup {question, SystemMessage(sid[r])}
<1>1. /\ pinned \in Seq(V) /\ question \in V
      /\ sid[r] \in Prompted => pinned # <<>> /\ pinned[1] = SystemMessage(sid[r])
  <2> SystemMessage(sid[r]) \in V /\ question \in V
    OBVIOUS
  <2> HIDE DEF V, question
  <2> QED
    BY DEF Pinned
<1>2. kept \in Seq(V) /\ Len(kept) = n
  <2>1. \A i \in 1 .. n : AsPrompt(turns[i]) \in V
    OBVIOUS
  <2> HIDE DEF V
  <2> QED
    BY <2>1 DEF AsPrompts
<1>3. Kept(past) = kept
  OBVIOUS
<1>4. Context(r) = Build(pinned, past, question)
  BY DEF Context
<1>5. Middle(r) = SubSeq(Context(r), Len(pinned) + 1, Len(Context(r)) - 1)
  BY DEF Middle
<1> HIDE DEF past, question, pinned, kept, V
<1>6. /\ Len(Context(r)) = Len(pinned) + n + 1
      /\ Context(r)[Len(Context(r))] = question
      /\ pinned # <<>> => Head(Context(r)) = pinned[1]
      /\ Middle(r) = kept
  <2> DEFINE c == Context(r)
  <2>1. Kept(past) \in Seq(V)
    BY <1>2, <1>3
  <2>2. /\ Len(c) = Len(pinned) + Len(Kept(past)) + 1
        /\ c[Len(c)] = question
        /\ pinned # <<>> => Head(c) = pinned[1]
        /\ SubSeq(c, Len(pinned) + 1, Len(c) - 1) = Kept(past)
    <3> HIDE DEF c
    <3> QED
      BY <1>1, <1>4, <2>1, PromptParts DEF c
  <2> QED
    BY <1>2, <1>3, <1>5, <2>2
<1>7. Len(pinned) \in Nat
  BY <1>1
<1>8. Len(Context(r)) \in Nat
  BY <1>6, <1>7
<1> QED
  BY <1>1, <1>2, <1>6, <1>8 DEF question, pinned, kept

\* Every prompt is the system message, the newest usable turns of the
\* generation, each once and in order, and the question.
THEOREM ContextStaysWindow == Spec => []ContextIsWindow
<1>1. ASSUME TypeOK, IInv, HistoryBelowLimit, NEW r \in Request, Prompting(r)
      PROVE  /\ Len(Context(r)) = Len(Pinned(sid[r])) + Cardinality(Window(r)) + 1
             /\ sid[r] \in Prompted => Head(Context(r)) = SystemMessage(sid[r])
             /\ Last(Context(r)) = [role |-> "user", of |-> r]
             /\ \A m \in Window(r) :
                   Middle(r)[1 + Cardinality({n \in Window(r) : n.seq < m.seq})]
                   = AsPrompt(m)
  <2> DEFINE W == Window(r)
             n == Cardinality(W)
  <2>1. PICK rank, turns :
          /\ Ranks(rank, Past(r)) /\ IsFiniteSet(Past(r))
          /\ \A m \in Past(r) : rank[m] = m.seq
          /\ W = Newest(Past(r), rank)
          /\ InOrderOf(turns, W, rank)
          /\ Kept(Listed(history[r])) = AsPrompts(turns, n)
    BY <1>1, PromptOfCall
  <2>2. W \in SUBSET Past(r)
    BY DEF Window
  <2>3. /\ IsFiniteSet(W) /\ Ranks(rank, W)
        /\ \A m \in W : rank[m] = m.seq
    BY <2>1, <2>2, FS_Subset DEF Ranks
  <2> HIDE DEF W
  <2>4. n \in Nat
    BY <2>3, FS_CardinalityType
  <2>5. /\ Len(Context(r)) = Len(Pinned(sid[r])) + n + 1
        /\ sid[r] \in Prompted => Head(Context(r)) = SystemMessage(sid[r])
        /\ Context(r)[Len(Context(r))] = [role |-> "user", of |-> r]
        /\ Middle(r) = AsPrompts(turns, n)
    <3> HIDE DEF n
    <3> QED
      BY <2>1, <2>4, PartsOfPrompt
  <2>6. ASSUME NEW m \in W
        PROVE  Middle(r)[1 + Cardinality({x \in W : x.seq < m.seq})] = AsPrompt(m)
    <3>1. PICK i \in 1 .. n : turns[i] = m
      BY <2>1, <2>3, OrderIsExact
    <3>2. Cardinality(Below(W, rank, m)) = i - 1
      BY <2>1, <2>3, <3>1, Positions
    <3>3. Below(W, rank, m) = {x \in W : x.seq < m.seq}
      BY <2>3 DEF Below
    <3>4. 1 + (i - 1) = i
      OBVIOUS
    <3> QED
      BY <2>5, <3>1, <3>2, <3>3, <3>4 DEF AsPrompts
  <2>7. Last(Context(r)) = [role |-> "user", of |-> r]
    BY <2>5 DEF Last
  <2> QED
    BY <2>5, <2>6, <2>7 DEF W
<1>2. TypeOK /\ IInv /\ HistoryBelowLimit => ContextIsWindow
  BY <1>1 DEF ContextIsWindow
<1> QED
  BY <1>2, TypeCorrect, Invariance, HistoryInvariance, PTL

\* In a prompt a reply directly follows its question, unless it is the oldest
\* turn of a full window.
THEOREM PromptsKeepPairs == Spec => []RepliesKeepTheirQuestion
<1>1. ASSUME TypeOK, IInv, HistoryBelowLimit, NEW r \in Request, Prompting(r),
             NEW i \in DOMAIN Middle(r), Middle(r)[i].role = "assistant"
      PROVE  \/ i > 1 /\ Middle(r)[i - 1] = [role |-> "user",
                                            of |-> Middle(r)[i].of]
             \/ i = 1 /\ Len(Middle(r)) = ContextMaxMessages
  <2> DEFINE P == Past(r)
             W == Window(r)
             n == Cardinality(W)
             K == ContextMaxMessages
  <2>1. PICK rank, turns :
          /\ Ranks(rank, P) /\ IsFiniteSet(P)
          /\ \A m \in P : rank[m] = m.seq
          /\ W = Newest(P, rank)
          /\ InOrderOf(turns, W, rank)
          /\ n = IF Cardinality(P) <= K THEN Cardinality(P) ELSE K
          /\ Kept(Listed(history[r])) = AsPrompts(turns, n)
    BY <1>1, PromptOfCall
  <2>2. \A m \in W : m \in P /\ Cardinality(Above(P, rank, m)) < K
    BY <2>1 DEF Newest
  <2>3. \A m \in P \ W : ~(Cardinality(Above(P, rank, m)) < K)
    BY <2>1 DEF Newest
  <2>4. /\ \A m \in P : m \in messages /\ rank[m] = m.seq /\ m.seq \in Nat
        /\ \A m, x \in P : m.seq = x.seq => m = x
    BY <1>1, <2>1 DEF Past, Dialogue, TypeOK, Message, Ranks
  <2>5. /\ IsFiniteSet(W) /\ Ranks(rank, W)
    <3>1. W \in SUBSET P
      BY <2>2
    <3> HIDE DEF W, P
    <3> QED
      BY <2>1, <3>1, FS_Subset DEF Ranks
  <2>6. \A m \in P : /\ IsFiniteSet(Above(P, rank, m))
                     /\ Cardinality(Above(P, rank, m)) \in Nat
                     /\ Cardinality(Above(P, rank, m)) <= Cardinality(P)
    BY <2>1, FS_Subset, FS_CardinalityType DEF Above
  <2>7. ASSUME NEW m \in P, m.role = "assistant"
        PROVE  \E q \in P : /\ q.seq + 1 = m.seq
                            /\ AsPrompt(q) = [role |-> "user", of |-> m.of]
    <3> DEFINE q == UserMessage(m.of)
    <3>1. /\ m \in messages /\ m.session = sid[r]
          /\ m.generation = loaded[r].generation /\ m.seq < seq[r]
          /\ m.seq \in Nat /\ m.of \in Request
      BY <1>1, <2>7 DEF Past, Dialogue, TypeOK, Message
    <3>2. q \in messages
      BY <1>1, <3>1 DEF IInv, Origins, Asked
    <3>3. /\ q.session = m.session /\ q.generation = m.generation
          /\ q.seq + 1 = m.seq /\ q.status = "complete"
          /\ q.role = "user" /\ q.of = m.of
      BY <1>1, <2>7, <3>1 DEF IInv, Origins, UserMessage
    <3>4. q.seq \in Nat
      BY <1>1, <3>2 DEF TypeOK, Message
    <3> HIDE DEF q
    <3>5. q.seq < seq[r]
      BY <1>1, <3>1, <3>3, <3>4 DEF TypeOK
    <3>6. q \in P
      BY <3>1, <3>2, <3>3, <3>5 DEF Past, Dialogue
    <3> QED
      BY <3>3, <3>6 DEF AsPrompt
  <2> HIDE DEF P, W
  <2>8. n \in Nat /\ K \in Nat \ {0} /\ Cardinality(P) \in Nat
    BY <2>1, <2>5, FS_CardinalityType, WindowAssumption
  <2>9. /\ Middle(r) = [j \in 1 .. n |-> AsPrompt(turns[j])]
        /\ Len(Middle(r)) = n
    <3> HIDE DEF n
    <3>1. Middle(r) = AsPrompts(turns, n) /\ Len(Middle(r)) = n
      BY <2>1, <2>8, PartsOfPrompt
    <3> QED
      BY <3>1 DEF AsPrompts
  <2>10. /\ turns \in [1 .. n -> W]
         /\ \A j, k \in 1 .. n : j < k <=> rank[turns[j]] < rank[turns[k]]
         /\ \A m \in W : \E j \in 1 .. n : turns[j] = m
    BY <2>1, <2>5, OrderIsExact
  <2> HIDE DEF n, K
  <2>11. PICK m \in W : m = turns[i] /\ Middle(r)[i] = AsPrompt(m)
    BY <2>9, <2>10
  <2>12. i \in 1 .. n /\ m \in P /\ m.role = "assistant" /\ Middle(r)[i].of = m.of
    BY <1>1, <2>2, <2>9, <2>11 DEF AsPrompt
  <2>13. PICK q \in P : /\ q.seq + 1 = m.seq
                        /\ AsPrompt(q) = [role |-> "user", of |-> m.of]
    BY <2>7, <2>12
  <2>14. CASE q \in W
    <3>1. PICK j \in 1 .. n : turns[j] = q
      BY <2>10, <2>14
    <3>2. j < i
      BY <2>4, <2>8, <2>10, <2>11, <2>12, <2>13, <3>1
    <3>3. ASSUME j + 1 < i PROVE FALSE
      <4>1. j + 1 \in 1 .. n /\ j < j + 1
        BY <2>8, <2>12, <3>3
      <4>2. PICK x \in W : x = turns[j + 1]
        BY <2>10, <4>1
      <4>3. rank[q] < rank[x] /\ rank[x] < rank[m]
        BY <2>10, <2>11, <2>12, <3>1, <3>3, <4>1, <4>2
      <4> QED
        BY <2>2, <2>4, <2>12, <2>13, <4>3
    <3>4. j = i - 1 /\ i > 1
      BY <2>8, <2>12, <3>2, <3>3
    <3> QED
      BY <2>9, <2>12, <2>13, <3>1, <3>4
  <2>15. CASE q \notin W
    <3>1. Above(P, rank, q) = Above(P, rank, m) \cup {m}
      BY <2>4, <2>12, <2>13 DEF Above
    <3>2. ~(Cardinality(Above(P, rank, q)) < K)
      BY <2>3, <2>15
    <3>3. n = K
      BY <2>1, <2>6, <2>8, <3>2
    <3>4. ASSUME i # 1 PROVE FALSE
      <4>1. 1 \in 1 .. n /\ 1 < i
        BY <2>8, <2>12, <3>4
      <4>2. PICK x \in W : x = turns[1]
        BY <2>10, <4>1
      <4>3. rank[x] < rank[m] /\ x \in P /\ x # q
        BY <2>2, <2>10, <2>11, <2>12, <2>15, <4>1, <4>2
      <4>4. x.seq < q.seq
        BY <2>4, <2>12, <2>13, <4>3
      <4>5. Above(P, rank, q) \in SUBSET Above(P, rank, x)
        BY <2>4, <2>13, <4>3, <4>4 DEF Above
      <4>6. Cardinality(Above(P, rank, q)) <= Cardinality(Above(P, rank, x))
        BY <2>6, <4>3, <4>5, FS_Subset
      <4>7. Cardinality(Above(P, rank, x)) < K
        BY <2>2
      <4> QED
        BY <2>6, <2>8, <2>13, <3>2, <4>3, <4>6, <4>7
    <3> QED
      BY <2>9, <3>3, <3>4 DEF K
  <2> QED
    BY <2>14, <2>15
<1>2. TypeOK /\ IInv /\ HistoryBelowLimit => RepliesKeepTheirQuestion
  BY <1>1 DEF RepliesKeepTheirQuestion
<1> QED
  BY <1>2, TypeCorrect, Invariance, HistoryInvariance, PTL
=============================================================================
