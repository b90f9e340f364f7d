--------------------------- MODULE VerdictProofs ---------------------------
(***************************************************************************)
(* Proofs about a pass and its verdict, for any pods, onsets, correlations *)
(* and memory: why each edge is there and that a pair of pods has one;     *)
(* that the frontier loops of the ranking end, and with what; and that the *)
(* root the verdict names explains a symptom.                              *)
(***************************************************************************)
EXTENDS Verdict, FiniteSetTheorems, SequenceTheorems, WellFoundedInduction, TLAPS

-----------------------------------------------------------------------------
(* Counting.                                                               *)

\* The least-number principle, from which the rest is by induction.
LEMMA LeastNumber ==
    ASSUME NEW T \in SUBSET Nat, T # {}
    PROVE  \E m \in T : \A k \in T : m <= k
<1>1. \E m \in T : \A k \in T : ~(<<k, m>> \in OpToRel(<, Nat))
  BY WFMin, NatLessThanWellFounded
<1>2. \E m \in T : \A k \in T : ~(k < m)
  BY <1>1, Zenon DEF OpToRel
<1> QED BY <1>2

\* What holds at 0 and goes from each number to the next holds up to n.
LEMMA UpTo ==
    ASSUME NEW n \in Nat, NEW G, 0 \in G,
           \A k \in 1 .. n : k - 1 \in G => k \in G
    PROVE  \A k \in 0 .. n : k \in G
<1> DEFINE T == {k \in 0 .. n : k \notin G}
<1> SUFFICES ASSUME T # {} PROVE FALSE
  OBVIOUS
<1>1. PICK m \in T : \A k \in T : m <= k
  <2>1. T \in SUBSET Nat
    OBVIOUS
  <2> HIDE DEF T
  <2> QED BY <2>1, LeastNumber
<1>2. m \in 1 .. n /\ m - 1 \in 0 .. n /\ m - 1 < m
  BY <1>1
<1>3. m - 1 \in G
  BY <1>1, <1>2
<1> QED BY <1>1, <1>2, <1>3

\* f is what a loop goes through in n times round: step is taken each time.
IsRun(f, n, St, start, step) ==
    /\ f \in [0 .. n -> St]
    /\ f[0] = start
    /\ \A k \in 1 .. n : f[k] = step[f[k - 1]]

\* A step from states to states can be taken n times.
LEMMA Repeats ==
    ASSUME NEW n \in Nat, NEW St, NEW start \in St, NEW step \in [St -> St]
    PROVE  \E f : IsRun(f, n, St, start, step)
<1> DEFINE G == {m \in 0 .. n : \E f : IsRun(f, m, St, start, step)}
<1>1. 0 \in G
  <2>1. IsRun([k \in 0 .. 0 |-> start], 0, St, start, step)
    BY DEF IsRun
  <2> QED BY <2>1
<1>2. ASSUME NEW m \in 1 .. n, m - 1 \in G PROVE m \in G
  <2>1. PICK f : IsRun(f, m - 1, St, start, step)
    BY <1>2
  <2> DEFINE h == [k \in 0 .. m |-> IF k = m THEN step[f[m - 1]] ELSE f[k]]
  <2>2. h \in [0 .. m -> St] /\ h[0] = start
    BY <2>1 DEF IsRun
  <2>3. ASSUME NEW k \in 1 .. m
        PROVE  h[k] = step[h[k - 1]]
    <3>1. k - 1 \in 0 .. m /\ h[k - 1] = f[k - 1]
      OBVIOUS
    <3>2. k # m => k \in 1 .. m - 1 /\ h[k] = f[k]
      OBVIOUS
    <3> QED BY <2>1, <3>1, <3>2 DEF IsRun
  <2>4. IsRun(h, m, St, start, step)
    <3> HIDE DEF h
    <3> QED BY <2>2, <2>3 DEF IsRun
  <2> HIDE DEF h
  <2> QED BY <2>4
<1>3. \A k \in 0 .. n : k \in G
  <2> HIDE DEF G
  <2> QED BY <1>1, <1>2, UpTo
<1> QED BY <1>3

\* Where _forward_impact's loop is after n times round.
ForwardAfter(g, root, n) == Iterate(LAMBDA st : Improve(g, st), Untouched(g, root), n)

\* The loop goes through states of St if its step stays in them.
LEMMA ForwardRun ==
    ASSUME NEW g, NEW root, NEW n \in Nat, NEW St, Untouched(g, root) \in St,
           \A st \in St : Improve(g, st) \in St
    PROVE  \E f : /\ IsRun(f, n, St, Untouched(g, root), [st \in St |-> Improve(g, st)])
                  /\ f[n] = ForwardAfter(g, root, n)
<1> DEFINE step == [st \in St |-> Improve(g, st)]
           start == Untouched(g, root)
           Def(f) == f = [k \in 0 .. n |-> IF k = 0 THEN start ELSE Improve(g, f[k - 1])]
           run == CHOOSE f : Def(f)
<1>1. ForwardAfter(g, root, n) = run[n]
  BY DEF ForwardAfter, Iterate
<1>2. \E f : Def(f)
  <2>1. step \in [St -> St]
    OBVIOUS
  <2>2. PICK f : IsRun(f, n, St, start, step)
    <3> HIDE DEF step
    <3> QED BY <2>1, Repeats
  <2>3. ASSUME NEW k \in 0 .. n
        PROVE  f[k] = IF k = 0 THEN start ELSE Improve(g, f[k - 1])
    <3>1. CASE k = 0
      BY <2>2, <3>1 DEF IsRun
    <3>2. CASE k # 0
      <4>1. k - 1 \in 0 .. n /\ k \in 1 .. n
        BY <3>2
      <4>2. f[k - 1] \in St /\ f[k] = step[f[k - 1]]
        <5> HIDE DEF step
        <5> QED BY <2>2, <4>1 DEF IsRun
      <4> QED BY <3>2, <4>2
    <3> QED BY <3>1, <3>2
  <2>4. f = [k \in 0 .. n |-> f[k]]
    BY <2>2 DEF IsRun
  <2> HIDE DEF start
  <2> QED BY <2>3, <2>4
<1>3. Def(run)
  <2> HIDE DEF Def
  <2> QED BY <1>2
<1>4. run[0] = start /\ \A k \in 1 .. n : run[k] = Improve(g, run[k - 1])
  <2> HIDE DEF run, start
  <2> QED BY <1>3
<1>5. \A k \in 0 .. n : run[k] \in St
  <2> DEFINE G == {k \in 0 .. n : run[k] \in St}
  <2> HIDE DEF run
  <2>1. 0 \in G /\ \A k \in 1 .. n : k - 1 \in G => k \in G
    BY <1>4
  <2> HIDE DEF G
  <2>2. \A k \in 0 .. n : k \in G
    BY <2>1, UpTo
  <2> QED BY <2>2 DEF G
<1>6. IsRun(run, n, St, start, step)
  <2> HIDE DEF run
  <2>1. run \in [0 .. n -> St]
    BY <1>3, <1>5
  <2>2. \A k \in 1 .. n : run[k] = step[run[k - 1]]
    BY <1>4, <1>5
  <2> HIDE DEF step, start, Def
  <2> QED BY <1>4, <2>1, <2>2 DEF IsRun
<1> HIDE DEF run
<1> QED BY <1>1, <1>6

\* The elements with smaller keys.
Below(S, key, k) == {y \in S : key[y] < k}

\* key numbers the elements of S.
IsKey(S, key, n) ==
    key \in [S -> 1 .. n] /\ \A x, y \in S : key[x] = key[y] => x = y

\* What has keys up to n is finite.
LEMMA KeyedFinite ==
    ASSUME NEW n \in Nat, NEW S, NEW key, IsKey(S, key, n)
    PROVE  /\ IsFiniteSet(S) /\ Cardinality(S) \in Nat
           /\ \A k : IsFiniteSet(Below(S, key, k)) /\ Cardinality(Below(S, key, k)) \in Nat
<1>1. IsFiniteSet(1 .. n)
  BY FS_Interval
<1>2. key \in Injection(S, 1 .. n)
  BY DEF IsKey, Injection, IsInjective
<1>3. IsFiniteSet(S)
  BY <1>1, <1>2, FS_Injection
<1>4. \A k : Below(S, key, k) \in SUBSET S
  BY DEF Below
<1>5. \A k : IsFiniteSet(Below(S, key, k))
  BY <1>3, <1>4, FS_Subset
<1> QED BY <1>3, <1>5, FS_CardinalityType

\* Every place up to the number of the elements is taken by one of them.
LEMMA PlaceTaken ==
    ASSUME NEW n \in Nat, NEW S, NEW key, IsKey(S, key, n), NEW i \in 1 .. Cardinality(S)
    PROVE  \E x \in S : Cardinality(Below(S, key, key[x])) = i - 1
<1>1. /\ IsFiniteSet(S) /\ Cardinality(S) \in Nat
      /\ \A k : IsFiniteSet(Below(S, key, k)) /\ Cardinality(Below(S, key, k)) \in Nat
  BY KeyedFinite
<1>0. \A y \in S : key[y] \in Nat /\ 1 <= key[y] /\ key[y] < n + 1 /\ ~(key[y] < 1)
  BY DEF IsKey
<1> DEFINE T == {k \in 1 .. n + 1 : Cardinality(Below(S, key, k)) >= i}
<1>2. n + 1 \in T
  <2>1. Below(S, key, n + 1) = S
    BY <1>0 DEF Below
  <2> QED BY <1>1, <2>1
<1>3. PICK m \in T : \A k \in T : m <= k
  <2>1. T \in SUBSET Nat /\ T # {}
    BY <1>2
  <2> HIDE DEF T
  <2> QED BY <2>1, LeastNumber
<1>4. m # 1
  <2>1. Below(S, key, 1) = {}
    BY <1>0 DEF Below
  <2>2. Cardinality(Below(S, key, 1)) = 0
    BY <2>1, FS_EmptySet
  <2> QED BY <1>1, <1>3, <2>2
<1> DEFINE p == m - 1
<1>5. p \in 1 .. n /\ p + 1 = m
  BY <1>3, <1>4
<1>6. Cardinality(Below(S, key, p)) < i
  <2>1. p \notin T
    BY <1>3, <1>5
  <2> QED BY <1>1, <1>5, <2>1
<1>7. Cardinality(Below(S, key, m)) >= i
  BY <1>3
<1>8. \A y \in S : key[y] < m <=> key[y] < p \/ key[y] = p
  BY <1>0, <1>5
<1>9. ~(p < p)
  BY <1>5
<1> HIDE DEF p
<1>10. PICK x \in S : key[x] = p
  <2> SUFFICES ASSUME \A y \in S : key[y] # p PROVE FALSE
    OBVIOUS
  <2>1. Below(S, key, m) = Below(S, key, p)
    BY <1>8 DEF Below
  <2> QED BY <1>1, <1>6, <1>7, <2>1
<1>11. Below(S, key, m) = Below(S, key, p) \cup {x} /\ x \notin Below(S, key, p)
  BY <1>8, <1>9, <1>10 DEF Below, IsKey
<1>12. Cardinality(Below(S, key, m)) = Cardinality(Below(S, key, p)) + 1
  BY <1>1, <1>11, FS_AddElement
<1> QED BY <1>1, <1>6, <1>7, <1>10, <1>12

\* o lists the elements of S, each once.
Lists(o, S) ==
    /\ Cardinality(S) \in Nat /\ o \in [1 .. Cardinality(S) -> S]
    /\ \A i, j \in 1 .. Cardinality(S) : o[i] = o[j] => i = j
    /\ \A x \in S : \E i \in 1 .. Cardinality(S) : o[i] = x

\* The elements of a set in the order of their keys.
ByKey(S, key) ==
    [i \in 1 .. Cardinality(S) |->
        CHOOSE x \in S : Cardinality({y \in S : key[y] < key[x]}) = i - 1]

\* They are listed, each once.
LEMMA ListsByKey ==
    ASSUME NEW n \in Nat, NEW S, NEW key, IsKey(S, key, n)
    PROVE  Lists(ByKey(S, key), S)
<1> DEFINE c == Cardinality(S)
           At(i) == CHOOSE x \in S : Cardinality({y \in S : key[y] < key[x]}) = i - 1
           o == [i \in 1 .. c |-> At(i)]
<1>1. IsFiniteSet(S) /\ c \in Nat
  BY KeyedFinite
<1>2. ASSUME NEW i \in 1 .. c
      PROVE  At(i) \in S /\ Cardinality(Below(S, key, key[At(i)])) = i - 1
  <2>1. \E x \in S : Cardinality({y \in S : key[y] < key[x]}) = i - 1
    BY PlaceTaken DEF Below
  <2>2. At(i) \in S /\ Cardinality({y \in S : key[y] < key[At(i)]}) = i - 1
    BY <2>1
  <2> QED BY <2>2 DEF Below
<1> HIDE DEF At, c
<1>3. o \in [1 .. c -> S] /\ \A i \in 1 .. c : o[i] = At(i)
  BY <1>2
<1>4. \A i, j \in 1 .. c : o[i] = o[j] => i = j
  <2> SUFFICES ASSUME NEW i \in 1 .. c, NEW j \in 1 .. c, At(i) = At(j) PROVE i = j
    BY <1>3
  <2>1. i - 1 = j - 1
    BY <1>2
  <2> QED BY <1>1, <2>1
<1> HIDE DEF o
<1>5. \A x \in S : \E i \in 1 .. c : o[i] = x
  <2>1. o \in Injection(1 .. c, S)
    BY <1>3, <1>4 DEF Injection, IsInjective
  <2>2. IsFiniteSet(1 .. c) /\ Cardinality(1 .. c) = c
    BY <1>1, FS_Interval
  <2>3. o \in Surjection(1 .. c, S)
    BY <1>1, <2>1, <2>2, FS_Injection DEF c
  <2> QED BY <2>3 DEF Surjection
<1>6. Lists(o, S)
  BY <1>1, <1>3, <1>4, <1>5 DEF Lists, c
<1> QED BY <1>6 DEF ByKey, o, At, c

\* The places of a sequence in their order.
LEMMA ListsPlaces ==
    ASSUME NEW n \in Nat, NEW K \in SUBSET (1 .. n)
    PROVE  Lists(InOrder(K, LAMBDA i, j : i < j), K)
<1> DEFINE key == [k \in K |-> k]
<1>1. IsKey(K, key, n)
  BY DEF IsKey
<1>2. \A x \in K : {y \in K : key[y] < key[x]} = {y \in K : y < x}
  OBVIOUS
<1> DEFINE Placed(i) == CHOOSE x \in K : Cardinality({y \in K : y < x}) = i - 1
           Keyed(i) == CHOOSE x \in K : Cardinality({y \in K : key[y] < key[x]}) = i - 1
<1>3. InOrder(K, LAMBDA i, j : i < j) = ByKey(K, key)
  <2>1. InOrder(K, LAMBDA i, j : i < j) = [i \in 1 .. Cardinality(K) |-> Placed(i)]
    BY DEF InOrder
  <2>2. ByKey(K, key) = [i \in 1 .. Cardinality(K) |-> Keyed(i)]
    BY DEF ByKey
  <2>3. \A i : Placed(i) = Keyed(i)
    <3> HIDE DEF key
    <3> QED BY <1>2, Zenon
  <2> HIDE DEF key, Placed, Keyed
  <2> QED BY <2>1, <2>2, <2>3, Zenon
<1> HIDE DEF key
<1> QED BY <1>1, <1>3, ListsByKey

\* Min of a set of naturals.
LEMMA Least ==
    ASSUME NEW T \in SUBSET Nat, T # {}
    PROVE  Min(T) \in T /\ \A t \in T : Min(T) <= t
<1>1. \E m \in T : \A k \in T : m <= k
  BY LeastNumber
<1> QED BY <1>1 DEF Min

\* Max of a bounded one.
LEMMA Greatest ==
    ASSUME NEW N \in Nat, NEW T \in SUBSET (0 .. N), T # {}
    PROVE  Max(T) \in T /\ \A t \in T : t <= Max(T)
<1> DEFINE U == {k \in 0 .. N : N - k \in T}
<1>1. U \in SUBSET Nat /\ U # {}
  <2>1. PICK t \in T : TRUE
    OBVIOUS
  <2>2. t \in 0 .. N /\ N - t \in 0 .. N /\ N - (N - t) = t
    OBVIOUS
  <2>3. N - t \in U
    BY <2>2
  <2> QED BY <2>3
<1>2. PICK m \in U : \A k \in U : m <= k
  <2> HIDE DEF U
  <2> QED BY <1>1, LeastNumber
<1>3. N - m \in T
  BY <1>2
<1>4. \A t \in T : N - m >= t
  <2> SUFFICES ASSUME NEW t \in T PROVE N - m >= t
    OBVIOUS
  <2>1. t \in 0 .. N /\ N - t \in 0 .. N /\ N - (N - t) = t
    OBVIOUS
  <2>2. N - t \in U
    BY <2>1
  <2>3. m <= N - t
    BY <1>2, <2>2
  <2> QED BY <1>2, <2>1, <2>3
<1>5. Max(T) \in T /\ \A t \in T : Max(T) >= t
  BY <1>3, <1>4 DEF Max
<1> QED BY <1>5

\* The values of a function on a finite set.
LEMMA ImageFinite ==
    ASSUME NEW S, IsFiniteSet(S), NEW f
    PROVE  IsFiniteSet({f[x] : x \in S}) /\ Cardinality({f[x] : x \in S}) <= Cardinality(S)
<1> DEFINE h == [x \in S |-> f[x]]
           T == {f[x] : x \in S}
<1>1. h \in Surjection(S, T)
  BY DEF Surjection
<1> HIDE DEF h, T
<1>2. IsFiniteSet(T) /\ Cardinality(T) <= Cardinality(S)
  BY <1>1, FS_Surjection
<1> QED BY <1>2 DEF T

-----------------------------------------------------------------------------
(* Walks in a graph.                                                       *)

\* A list of arcs, one per ordered pair of nodes, with correlations for weights.
IsGraph(g) ==
    /\ \E P : g \in Seq([src : P, dst : P, r : 0 .. 4])
    /\ \A i, j \in DOMAIN g : SameArc(g[i], g[j]) => i = j

\* The numbers Whole and Cut stand for.
LEMMA Exact == Whole = 102400000 /\ Cut = 15360000
  BY SMT DEF Whole, Cut

\* The same, without the digits.
LEMMA Positive == Whole \in Nat /\ Cut \in Nat /\ 0 < Cut /\ Cut < Whole
  BY Exact, SMT

\* A hop loses three tenths at least.
LEMMA HopDecays ==
    ASSUME NEW r \in 0 .. 4, NEW w \in Nat
    PROVE  Hop(w, r) \in Nat /\ 10 * Hop(w, r) <= 7 * w
<1>1. (w \div 4) \in Nat /\ 4 * (w \div 4) <= w
  OBVIOUS
<1> DEFINE q == w \div 4
<1>2. q * r \in Nat /\ q * r <= w
  <2> HIDE DEF q
  <2> QED BY <1>1 DEF q
<1> DEFINE p == q * r
<1>3. (p \div 10) \in Nat /\ 10 * (p \div 10) <= p
  <2> HIDE DEF p
  <2> QED BY <1>2 DEF p
<1>4. Hop(w, r) = (p \div 10) * 7
  BY DEF Hop
<1> HIDE DEF p
<1> QED BY <1>2, <1>3, <1>4 DEF p

\* More weight arrives where more leaves.
LEMMA HopGrows ==
    ASSUME NEW r \in 0 .. 4, NEW w \in Nat, NEW v \in Nat, v <= w
    PROVE  Hop(v, r) <= Hop(w, r)
<1> DEFINE p == v \div 4
           q == w \div 4
<1>1. p \in Nat /\ q \in Nat /\ p <= q
  OBVIOUS
<1> HIDE DEF p, q
<1>2. p * r \in Nat /\ q * r \in Nat /\ p * r <= q * r
  BY <1>1
<1> DEFINE a == p * r
           b == q * r
<1>3. (a \div 10) <= (b \div 10) /\ (a \div 10) \in Nat /\ (b \div 10) \in Nat
  <2>1. a \in Nat /\ b \in Nat /\ a <= b
    BY <1>2
  <2> HIDE DEF a, b
  <2> QED BY <2>1
<1>4. Hop(v, r) = (a \div 10) * 7 /\ Hop(w, r) = (b \div 10) * 7
  BY DEF Hop, p, q
<1> HIDE DEF a, b
<1> QED BY <1>3, <1>4

\* A node and a weight: where a walk leads, or an entry of the frontier.
Pairs(g) == [n : Nodes(g), w : Nat]

\* An arc's ends are nodes, and its weight is a correlation.
LEMMA ArcEnds ==
    ASSUME NEW g, IsGraph(g)
    PROVE  /\ Len(g) \in Nat /\ DOMAIN g = 1 .. Len(g)
           /\ \A i \in DOMAIN g : /\ g[i] \in Arcs(g) /\ g[i].r \in 0 .. 4
                                  /\ g[i].src \in Nodes(g) /\ g[i].dst \in Nodes(g)
           /\ \A a \in Arcs(g) : /\ a.r \in 0 .. 4 /\ a.src \in Nodes(g) /\ a.dst \in Nodes(g)
                                 /\ \E i \in DOMAIN g : g[i] = a
<1>1. PICK P : g \in Seq([src : P, dst : P, r : 0 .. 4])
  BY DEF IsGraph
<1>2. /\ Len(g) \in Nat /\ DOMAIN g = 1 .. Len(g)
      /\ \A i \in DOMAIN g : g[i] \in [src : P, dst : P, r : 0 .. 4]
  <2> DEFINE A == [src : P, dst : P, r : 0 .. 4]
  <2>1. g \in Seq(A)
    BY <1>1
  <2> HIDE DEF A
  <2>2. Len(g) \in Nat /\ DOMAIN g = 1 .. Len(g) /\ \A i \in DOMAIN g : g[i] \in A
    BY <2>1
  <2> QED BY <2>2 DEF A
<1>3. Arcs(g) = {g[i] : i \in DOMAIN g}
  BY DEF Arcs, ToSet
<1>4. \A a \in Arcs(g) : a.src \in Nodes(g) /\ a.dst \in Nodes(g)
  BY DEF Nodes
<1> QED BY <1>2, <1>3, <1>4

\* A graph has finitely many nodes.
LEMMA NodesFinite ==
    ASSUME NEW g, IsGraph(g)
    PROVE  IsFiniteSet(Nodes(g)) /\ Cardinality(Nodes(g)) \in Nat
<1> DEFINE from == [i \in DOMAIN g |-> g[i].src]
           to == [i \in DOMAIN g |-> g[i].dst]
<1>1. IsFiniteSet(DOMAIN g)
  BY ArcEnds, FS_Interval
<1>2. Arcs(g) = {g[i] : i \in DOMAIN g}
  BY DEF Arcs, ToSet
<1>3. Nodes(g) = {from[i] : i \in DOMAIN g} \cup {to[i] : i \in DOMAIN g}
  BY <1>2 DEF Nodes
<1> HIDE DEF from, to
<1>4. IsFiniteSet({from[i] : i \in DOMAIN g}) /\ IsFiniteSet({to[i] : i \in DOMAIN g})
  BY <1>1, ImageFinite
<1> QED BY <1>3, <1>4, FS_Union, FS_CardinalityType

\* A longer walk is a walk one arc on.
LEMMA LongerIs ==
    ASSUME NEW g, NEW S, NEW y
    PROVE  y \in Longer(g, S) <=>
              \/ y \in S
              \/ \E x \in S, a \in Arcs(g) :
                    /\ a.src = x.n /\ Hop(x.w, a.r) >= Cut
                    /\ y = [n |-> a.dst, w |-> Hop(x.w, a.r)]
<1> DEFINE ext == {[n |-> xa[2].dst, w |-> Hop(xa[1].w, xa[2].r)] :
                      xa \in {p \in S \X Arcs(g) : p[2].src = p[1].n}}
<1>1. Longer(g, S) = S \cup {x \in ext : x.w >= Cut}
  BY DEF Longer
<1>2. y \in ext <=> \E x \in S, a \in Arcs(g) : a.src = x.n /\ y = [n |-> a.dst, w |-> Hop(x.w, a.r)]
  <2>1. ASSUME y \in ext
        PROVE  \E x \in S, a \in Arcs(g) : a.src = x.n /\ y = [n |-> a.dst, w |-> Hop(x.w, a.r)]
    <3>1. PICK p \in S \X Arcs(g) : p[2].src = p[1].n /\ y = [n |-> p[2].dst, w |-> Hop(p[1].w, p[2].r)]
      BY <2>1
    <3>2. p[1] \in S /\ p[2] \in Arcs(g)
      OBVIOUS
    <3> QED BY <3>1, <3>2
  <2>2. ASSUME NEW x \in S, NEW a \in Arcs(g), a.src = x.n, y = [n |-> a.dst, w |-> Hop(x.w, a.r)]
        PROVE  y \in ext
    <3>1. <<x, a>> \in {p \in S \X Arcs(g) : p[2].src = p[1].n}
      BY <2>2
    <3>2. y = [n |-> <<x, a>>[2].dst, w |-> Hop(<<x, a>>[1].w, <<x, a>>[2].r)]
      BY <2>2
    <3> QED BY <3>1, <3>2
  <2> QED BY <2>1, <2>2
<1> HIDE DEF ext
<1> QED BY <1>1, <1>2

\* With each arc the longest walks lose three tenths of their weight.
LEMMA LongerFades ==
    ASSUME NEW g, IsGraph(g), NEW R, NEW S \in SUBSET Pairs(g), NEW b \in Nat, NEW c \in Nat,
           7 * b <= 10 * c + 9, Longer(g, R) \subseteq S, \A x \in S : x \in R \/ x.w <= b
    PROVE  /\ Longer(g, S) \in SUBSET Pairs(g)
           /\ \A y \in Longer(g, S) : y \in S \/ y.w <= c
<1> SUFFICES ASSUME NEW y \in Longer(g, S), y \notin S
             PROVE  y \in Pairs(g) /\ y.w <= c
  OBVIOUS
<1>1. PICK x \in S, a \in Arcs(g) : /\ a.src = x.n /\ Hop(x.w, a.r) >= Cut
                                   /\ y = [n |-> a.dst, w |-> Hop(x.w, a.r)]
  BY LongerIs
<1>2. a.r \in 0 .. 4 /\ a.dst \in Nodes(g) /\ x.w \in Nat
  BY ArcEnds DEF Pairs
<1>3. Hop(x.w, a.r) \in Nat /\ 10 * Hop(x.w, a.r) <= 7 * x.w
  BY <1>2, HopDecays
<1>4. x \notin R
  BY <1>1, LongerIs
<1>5. x.w <= b
  BY <1>4
<1>6. y \in Pairs(g)
  BY <1>1, <1>2, <1>3 DEF Pairs
<1>7. Hop(x.w, a.r) <= c
  <2> DEFINE h == Hop(x.w, a.r)
             v == x.w
  <2>1. h \in Nat /\ v \in Nat /\ 10 * h <= 7 * v /\ v <= b
    BY <1>2, <1>3, <1>5
  <2> HIDE DEF h, v
  <2> QED BY <2>1 DEF h
<1> QED BY <1>1, <1>6, <1>7

\* Five arcs are enough: a sixth would fall below Cut.
LEMMA WalksClosed ==
    ASSUME NEW g, IsGraph(g), NEW root \in Nodes(g)
    PROVE  /\ Walks(g, root) \in SUBSET Pairs(g)
           /\ Start(root) \in Walks(g, root)
           /\ Longer(g, Walks(g, root)) \subseteq Walks(g, root)
<1> DEFINE S0 == {Start(root)}
           S1 == Longer(g, S0)
           S2 == Longer(g, S1)
           S3 == Longer(g, S2)
           S4 == Longer(g, S3)
           S5 == Longer(g, S4)
           S6 == Longer(g, S5)
           b0 == Whole
           b1 == 71680000
           b2 == 50176000
           b3 == 35123200
           b4 == 24586240
           b5 == 17210368
           b6 == 12047257
<1>1. Walks(g, root) = S5
  BY DEF Walks
<1>2. \A S : S \subseteq Longer(g, S)
  BY LongerIs
<1>3. Longer(g, {}) = {}
  BY LongerIs
<1>0. /\ b0 \in Nat /\ b1 \in Nat /\ b2 \in Nat /\ b3 \in Nat /\ b4 \in Nat /\ b5 \in Nat
      /\ b6 \in Nat /\ Cut \in Nat /\ b6 < Cut
      /\ 7 * b0 <= 10 * b1 + 9 /\ 7 * b1 <= 10 * b2 + 9 /\ 7 * b2 <= 10 * b3 + 9
      /\ 7 * b3 <= 10 * b4 + 9 /\ 7 * b4 <= 10 * b5 + 9 /\ 7 * b5 <= 10 * b6 + 9
  BY Exact, SMT
<1> HIDE DEF b0, b1, b2, b3, b4, b5, b6
<1>4. S0 \in SUBSET Pairs(g) /\ Start(root) \in S0 /\ \A x \in S0 : x.w <= b0
  BY <1>0 DEF Start, Pairs, b0
<1> HIDE DEF S0
<1>5. S1 \in SUBSET Pairs(g) /\ \A x \in S1 : x \in S0 \/ x.w <= b1
  BY <1>0, <1>3, <1>4, LongerFades
<1>6. S2 \in SUBSET Pairs(g) /\ \A x \in S2 : x \in S1 \/ x.w <= b2
  BY <1>0, <1>5, LongerFades
<1>7. S3 \in SUBSET Pairs(g) /\ \A x \in S3 : x \in S2 \/ x.w <= b3
  BY <1>0, <1>6, LongerFades
<1>8. S4 \in SUBSET Pairs(g) /\ \A x \in S4 : x \in S3 \/ x.w <= b4
  BY <1>0, <1>7, LongerFades
<1>9. S5 \in SUBSET Pairs(g) /\ \A x \in S5 : x \in S4 \/ x.w <= b5
  BY <1>0, <1>8, LongerFades
<1>10. S6 \in SUBSET Pairs(g) /\ \A x \in S6 : x \in S5 \/ x.w <= b6
  BY <1>0, <1>9, LongerFades
<1>11. ASSUME NEW y \in S6 PROVE y \in S5
  <2>1. y \in S5 \/ y.w >= Cut
    <3> HIDE DEF S5
    <3> QED BY LongerIs
  <2> QED BY <1>0, <1>10, <2>1 DEF Pairs
<1>12. Start(root) \in S5
  BY <1>2, <1>4
<1> QED BY <1>1, <1>9, <1>11, <1>12

\* Nothing else is a walk: a set that has the start and is closed has them all.
LEMMA WalksLeast ==
    ASSUME NEW g, NEW root, NEW D, Start(root) \in D, Longer(g, D) \subseteq D
    PROVE  Walks(g, root) \subseteq D
<1>1. ASSUME NEW S, S \subseteq D PROVE Longer(g, S) \subseteq D
  <2> SUFFICES ASSUME NEW y \in Longer(g, S) PROVE y \in Longer(g, D)
    OBVIOUS
  <2> QED BY <1>1, LongerIs
<1> DEFINE S0 == {Start(root)}
           S1 == Longer(g, S0)
           S2 == Longer(g, S1)
           S3 == Longer(g, S2)
           S4 == Longer(g, S3)
<1>2. Walks(g, root) = Longer(g, S4)
  BY DEF Walks
<1>3. S0 \subseteq D
  OBVIOUS
<1> HIDE DEF S0
<1>4. S1 \subseteq D
  BY <1>1, <1>3
<1> HIDE DEF S1
<1>5. S2 \subseteq D
  BY <1>1, <1>4
<1> HIDE DEF S2
<1>6. S3 \subseteq D
  BY <1>1, <1>5
<1> HIDE DEF S3
<1>7. S4 \subseteq D
  BY <1>1, <1>6
<1> HIDE DEF S4
<1> QED BY <1>1, <1>2, <1>7

\* A walk other than the empty one is weaker than the start, and above Cut.
LEMMA WalkWeights ==
    ASSUME NEW g, IsGraph(g), NEW root \in Nodes(g), NEW x \in Walks(g, root)
    PROVE  /\ x.n \in Nodes(g) /\ x.w \in Nat /\ x.w >= Cut /\ x.w <= Whole
           /\ x = [n |-> x.n, w |-> x.w]
           /\ x = Start(root) \/ x.w < Whole
<1> DEFINE D == {y \in Pairs(g) : /\ y.w >= Cut /\ y.w <= Whole
                                  /\ y = Start(root) \/ y.w < Whole}
<1>1. Start(root) \in D
  BY Positive DEF Start, Pairs
<1>2. ASSUME NEW y \in Longer(g, D) PROVE y \in D
  <2>1. CASE y \in D
    BY <2>1
  <2>2. CASE y \notin D
    <3> HIDE DEF D
    <3>1. PICK z \in D, a \in Arcs(g) : /\ a.src = z.n /\ Hop(z.w, a.r) >= Cut
                                       /\ y = [n |-> a.dst, w |-> Hop(z.w, a.r)]
      BY <1>2, <2>2, LongerIs
    <3>2. a.r \in 0 .. 4 /\ a.dst \in Nodes(g) /\ z.w \in Nat /\ z.w <= Whole
      BY ArcEnds DEF Pairs, D
    <3>3. Hop(z.w, a.r) \in Nat /\ 10 * Hop(z.w, a.r) <= 7 * z.w
      BY <3>2, HopDecays
    <3>4. Hop(z.w, a.r) < Whole
      <4> DEFINE h == Hop(z.w, a.r)
                 v == z.w
      <4>1. h \in Nat /\ v \in Nat /\ 10 * h <= 7 * v /\ v <= Whole
        BY <3>2, <3>3, Positive
      <4> HIDE DEF h, v
      <4> QED BY <4>1, Positive DEF h
    <3> QED BY <3>1, <3>2, <3>3, <3>4, Positive DEF D, Pairs
  <2> QED BY <2>1, <2>2
<1>3. x \in D
  <2> HIDE DEF D
  <2> QED BY <1>1, <1>2, WalksLeast
<1> QED BY <1>3 DEF Pairs

\* There are finitely many walks to tell apart.
LEMMA WalksFinite ==
    ASSUME NEW g, IsGraph(g), NEW root \in Nodes(g)
    PROVE  IsFiniteSet(Walks(g, root)) /\ Cardinality(Walks(g, root)) \in Nat
<1> DEFINE C == Nodes(g) \X (0 .. Whole)
           pair == [p \in C |-> [n |-> p[1], w |-> p[2]]]
<1>1. IsFiniteSet(C)
  <2>1. IsFiniteSet(0 .. Whole)
    BY Positive, FS_Interval
  <2> QED BY <2>1, NodesFinite, FS_Product
<1>2. ASSUME NEW x \in Walks(g, root) PROVE x \in {pair[p] : p \in C}
  <2>1. x.n \in Nodes(g) /\ x.w \in 0 .. Whole /\ x = [n |-> x.n, w |-> x.w]
    BY WalkWeights, Positive
  <2>2. <<x.n, x.w>> \in C
    BY <2>1
  <2>3. pair[<<x.n, x.w>>] = x
    BY <2>1, <2>2
  <2> QED BY <2>2, <2>3
<1> HIDE DEF C, pair
<1>3. IsFiniteSet({pair[p] : p \in C})
  BY <1>1, ImageFinite
<1> QED BY <1>2, <1>3, FS_Subset, FS_CardinalityType

-----------------------------------------------------------------------------
(* One round of a frontier loop.                                           *)

\* What the loops keep: the impacts found and the frontier.
LoopState(g) == [impact : [Nodes(g) -> Nat], frontier : Seq(Pairs(g))]

\* Where the arc at place i leads from the head of the frontier.
Target(g, st, i) == [n |-> g[i].dst, w |-> Hop(Head(st.frontier).w, g[i].r)]

\* x is in the frontier.
Waits(x, st) == \E k \in 1 .. Len(st.frontier) : st.frontier[k] = x

\* The arcs taken lead to different nodes.
LEMMA TargetsDiffer ==
    ASSUME NEW g, IsGraph(g), NEW st, NEW taken \in SUBSET Reaching(g, st),
           NEW i \in taken, NEW j \in taken, g[i].dst = g[j].dst
    PROVE  i = j
<1>1. i \in DOMAIN g /\ j \in DOMAIN g /\ g[i].src = g[j].src
  BY DEF Reaching
<1> QED BY <1>1 DEF IsGraph, SameArc

\* The head and its targets are entries of the frontier.
LEMMA TargetIsPair ==
    ASSUME NEW g, IsGraph(g), NEW st \in LoopState(g), st.frontier # <<>>,
           NEW i \in DOMAIN g
    PROVE  /\ Target(g, st, i) \in Pairs(g)
           /\ Head(st.frontier) \in Pairs(g)
<1>1. st.frontier \in Seq(Pairs(g))
  BY DEF LoopState
<1>2. Head(st.frontier) \in Pairs(g)
  BY <1>1
<1>3. g[i].r \in 0 .. 4 /\ g[i].dst \in Nodes(g)
  BY ArcEnds
<1>4. Head(st.frontier).w \in Nat
  BY <1>2 DEF Pairs
<1> QED BY <1>2, <1>3, <1>4, HopDecays DEF Target, Pairs

\* What Follow does to the impacts.
LEMMA FollowImpact ==
    ASSUME NEW g, IsGraph(g), NEW st \in LoopState(g), st.frontier # <<>>,
           NEW taken \in SUBSET Reaching(g, st)
    PROVE  /\ Follow(g, st, taken).impact \in [Nodes(g) -> Nat]
           /\ \A i \in taken : Follow(g, st, taken).impact[g[i].dst] = Target(g, st, i).w
           /\ \A n \in Nodes(g) : (\A i \in taken : g[i].dst # n) =>
                 Follow(g, st, taken).impact[n] = st.impact[n]
<1> DEFINE new == [n \in Nodes(g) |->
                      IF \E i \in taken : g[i].dst = n
                      THEN Target(g, st, CHOOSE i \in taken : g[i].dst = n).w
                      ELSE st.impact[n]]
<1>1. Follow(g, st, taken).impact = new
  BY DEF Follow, Target
<1>2. taken \subseteq DOMAIN g
  BY DEF Reaching
<1>3. ASSUME NEW i \in taken PROVE new[g[i].dst] = Target(g, st, i).w /\ Target(g, st, i).w \in Nat
  <2>1. g[i].dst \in Nodes(g)
    BY <1>2, ArcEnds
  <2>2. (CHOOSE j \in taken : g[j].dst = g[i].dst) = i
    BY TargetsDiffer
  <2>3. Target(g, st, i).w \in Nat
    BY <1>2, TargetIsPair DEF Pairs
  <2> QED BY <2>1, <2>2, <2>3
<1>4. ASSUME NEW n \in Nodes(g), \A i \in taken : g[i].dst # n
      PROVE  new[n] = st.impact[n] /\ st.impact[n] \in Nat
  BY <1>4 DEF LoopState
<1>5. ASSUME NEW n \in Nodes(g) PROVE new[n] \in Nat
  BY <1>3, <1>4
<1>6. new \in [Nodes(g) -> Nat]
  <2>1. new = [n \in Nodes(g) |-> new[n]]
    OBVIOUS
  <2> HIDE DEF new
  <2> QED BY <1>5, <2>1
<1> HIDE DEF new
<1> QED BY <1>1, <1>3, <1>4, <1>6

\* What Follow does to the frontier.
LEMMA FollowFrontier ==
    ASSUME NEW g, IsGraph(g), NEW st \in LoopState(g), st.frontier # <<>>,
           NEW taken \in SUBSET Reaching(g, st)
    PROVE  LET f == Follow(g, st, taken)
           IN  /\ f.frontier \in Seq(Pairs(g))
               /\ Cardinality(taken) \in Nat
               /\ Len(f.frontier) = Len(st.frontier) - 1 + Cardinality(taken)
               /\ \A x : Waits(x, f) =>
                     Waits(x, st) \/ \E i \in taken : x = Target(g, st, i)
               /\ \A i \in taken : Waits(Target(g, st, i), f)
               /\ \A x : Waits(x, st) => x = Head(st.frontier) \/ Waits(x, f)
<1> DEFINE f == Follow(g, st, taken)
           c == Cardinality(taken)
           order == InOrder(taken, LAMBDA i, j : i < j)
           more == [k \in DOMAIN order |-> Target(g, st, order[k])]
           q == st.frontier
<1>1. f.frontier = Tail(q) \o more
  BY DEF Follow, Target
<1>2. taken \subseteq DOMAIN g /\ taken \in SUBSET (1 .. Len(g)) /\ Len(g) \in Nat
  BY ArcEnds DEF Reaching
<1>3. Lists(order, taken)
  <2> HIDE DEF order
  <2> QED BY <1>2, ListsPlaces DEF order
<1> HIDE DEF order, f
<1>4. /\ c \in Nat /\ order \in [1 .. c -> taken]
      /\ \A i \in taken : \E k \in 1 .. c : order[k] = i
  BY <1>3 DEF Lists
<1> HIDE DEF c
<1>5. more \in [1 .. c -> Pairs(g)] /\ \A k \in 1 .. c : more[k] = Target(g, st, order[k])
  BY <1>2, <1>4, TargetIsPair
<1> HIDE DEF more
<1>6. more \in Seq(Pairs(g)) /\ Len(more) = c
  BY <1>4, <1>5
<1>7. q \in Seq(Pairs(g)) /\ q # <<>> /\ Len(q) \in Nat /\ Len(q) >= 1
  BY DEF LoopState
<1> HIDE DEF q
<1>8. /\ Tail(q) \in Seq(Pairs(g)) /\ Len(Tail(q)) = Len(q) - 1
      /\ \A k \in 1 .. Len(q) - 1 : Tail(q)[k] = q[k + 1]
      /\ Head(q) = q[1]
  BY <1>7
<1> DEFINE t == Tail(q)
<1>9. /\ f.frontier \in Seq(Pairs(g)) /\ Len(f.frontier) = Len(q) - 1 + c
      /\ \A k \in 1 .. Len(q) - 1 : f.frontier[k] = q[k + 1]
      /\ \A k \in 1 .. c : f.frontier[Len(q) - 1 + k] = more[k]
  <2>1. /\ t \in Seq(Pairs(g)) /\ Len(t) = Len(q) - 1
        /\ \A k \in 1 .. Len(q) - 1 : t[k] = q[k + 1]
    BY <1>8
  <2> HIDE DEF t
  <2>2. f.frontier = t \o more
    BY <1>1 DEF t
  <2>3. /\ f.frontier \in Seq(Pairs(g)) /\ Len(f.frontier) = Len(t) + Len(more)
        /\ \A k \in 1 .. Len(t) + Len(more) :
              f.frontier[k] = IF k <= Len(t) THEN t[k] ELSE more[k - Len(t)]
    BY <1>6, <2>1, <2>2, ConcatProperties
  <2>4. Len(f.frontier) = Len(q) - 1 + c
    BY <1>6, <2>1, <2>3
  <2>5. ASSUME NEW k \in 1 .. Len(q) - 1 PROVE f.frontier[k] = q[k + 1]
    <3>1. k \in 1 .. Len(f.frontier) /\ k <= Len(t)
      BY <1>4, <1>7, <2>1, <2>4
    <3> QED BY <2>1, <2>3, <3>1
  <2>6. ASSUME NEW k \in 1 .. c PROVE f.frontier[Len(q) - 1 + k] = more[k]
    <3> DEFINE j == Len(q) - 1 + k
    <3>1. j \in 1 .. Len(f.frontier) /\ ~(j <= Len(t)) /\ j - Len(t) = k
      BY <1>4, <1>7, <2>1, <2>4
    <3> HIDE DEF j
    <3>2. f.frontier[j] = more[j - Len(t)]
      BY <2>3, <3>1
    <3> QED BY <3>1, <3>2 DEF j
  <2> QED BY <2>3, <2>4, <2>5, <2>6
<1>10. ASSUME NEW x, Waits(x, f) PROVE Waits(x, st) \/ \E i \in taken : x = Target(g, st, i)
  <2>1. PICK k \in 1 .. Len(f.frontier) : f.frontier[k] = x
    BY <1>10 DEF Waits
  <2>2. CASE k <= Len(q) - 1
    <3>1. x = q[k + 1] /\ k + 1 \in 1 .. Len(q)
      BY <1>7, <1>9, <2>1, <2>2
    <3> QED BY <3>1 DEF Waits, q
  <2>3. CASE k > Len(q) - 1
    <3>1. k - (Len(q) - 1) \in 1 .. c /\ Len(q) - 1 + (k - (Len(q) - 1)) = k
      BY <1>4, <1>7, <1>9, <2>1, <2>3
    <3>2. x = more[k - (Len(q) - 1)]
      BY <1>9, <2>1, <3>1
    <3> QED BY <1>4, <1>5, <3>1, <3>2
  <2> QED BY <1>7, <2>2, <2>3
<1>11. ASSUME NEW i \in taken PROVE Waits(Target(g, st, i), f)
  <2>1. PICK k \in 1 .. c : order[k] = i
    BY <1>4
  <2>2. Len(q) - 1 + k \in 1 .. Len(f.frontier) /\ f.frontier[Len(q) - 1 + k] = Target(g, st, i)
    BY <1>4, <1>5, <1>7, <1>9, <2>1
  <2> QED BY <2>2 DEF Waits
<1>12. ASSUME NEW x, Waits(x, st) PROVE x = Head(q) \/ Waits(x, f)
  <2>1. PICK k \in 1 .. Len(q) : q[k] = x
    BY <1>12 DEF Waits, q
  <2>2. CASE k = 1
    BY <1>8, <2>1, <2>2
  <2>3. CASE k # 1
    <3>1. k - 1 \in 1 .. Len(q) - 1 /\ (k - 1) + 1 = k
      BY <1>7, <2>1, <2>3
    <3>2. f.frontier[k - 1] = x /\ k - 1 \in 1 .. Len(f.frontier)
      BY <1>4, <1>7, <1>9, <2>1, <3>1
    <3> QED BY <3>2 DEF Waits
  <2> QED BY <2>2, <2>3
<1> QED BY <1>4, <1>9, <1>10, <1>11, <1>12 DEF f, c, q

-----------------------------------------------------------------------------
(* The loop of _forward_impact.                                            *)

\* No arc out of x leads to more than what is known.
Relaxed(g, st, x) ==
    \A a \in Arcs(g) :
        a.src = x.n => Hop(x.w, a.r) < Cut \/ Hop(x.w, a.r) <= st.impact[a.dst]

\* What the loop knows of: the start, and the impacts found.
Known(g, root, st) ==
    {Start(root)} \cup {[n |-> m, w |-> st.impact[m]] : m \in {n \in Nodes(g) : st.impact[n] > 0}}

\* The invariant of the loop: all it has are walks, and what it knows of waits
\* in the frontier unless its arcs lead to nothing better.
ForwardStates(g, root) ==
    {st \in LoopState(g) :
        /\ \A k \in 1 .. Len(st.frontier) : st.frontier[k] \in Walks(g, root)
        /\ Known(g, root, st) \subseteq Walks(g, root)
        /\ \A n \in Nodes(g) : st.impact[n] < Whole
        /\ \A x \in Known(g, root, st) : Waits(x, st) \/ Relaxed(g, st, x)}

\* The walk one arc on from the head of the frontier.
LEMMA TargetIsWalk ==
    ASSUME NEW g, IsGraph(g), NEW root \in Nodes(g), NEW st \in LoopState(g),
           st.frontier # <<>>, \A k \in 1 .. Len(st.frontier) : st.frontier[k] \in Walks(g, root),
           NEW i \in Reaching(g, st)
    PROVE  /\ Target(g, st, i) \in Walks(g, root)
           /\ Target(g, st, i).w < Whole /\ Target(g, st, i).w >= Cut
           /\ Target(g, st, i) # Start(root)
<1> DEFINE head == Head(st.frontier)
           x == Target(g, st, i)
<1>1. st.frontier \in Seq(Pairs(g))
  BY DEF LoopState
<1>2. head = st.frontier[1] /\ 1 \in 1 .. Len(st.frontier)
  BY <1>1
<1>3. head \in Walks(g, root)
  BY <1>2
<1>4. i \in DOMAIN g /\ g[i].src = head.n /\ Hop(head.w, g[i].r) >= Cut
  BY DEF Reaching
<1>5. g[i] \in Arcs(g) /\ g[i].r \in 0 .. 4
  BY <1>4, ArcEnds
<1>6. x = [n |-> g[i].dst, w |-> Hop(head.w, g[i].r)]
  BY DEF Target
<1> HIDE DEF head, x
<1>7. x \in Longer(g, Walks(g, root))
  BY <1>3, <1>4, <1>5, <1>6, LongerIs
<1>8. x \in Walks(g, root)
  BY <1>7, WalksClosed
<1>9. head.w \in Nat /\ head.w <= Whole
  BY <1>3, WalkWeights
<1>10. Hop(head.w, g[i].r) \in Nat /\ 10 * Hop(head.w, g[i].r) <= 7 * head.w
  BY <1>5, <1>9, HopDecays
<1>11. x.w < Whole /\ x.w >= Cut
  <2> DEFINE h == Hop(head.w, g[i].r)
             v == head.w
  <2>1. h \in Nat /\ v \in Nat /\ 10 * h <= 7 * v /\ v <= Whole /\ x.w = h /\ h >= Cut
    BY <1>4, <1>6, <1>9, <1>10
  <2> HIDE DEF h, v
  <2> QED BY <2>1, Positive
<1>12. x # Start(root)
  BY <1>11, Positive DEF Start
<1> QED BY <1>8, <1>11, <1>12 DEF x

\* The loop begins so.
LEMMA ForwardStarts ==
    ASSUME NEW g, IsGraph(g), NEW root \in Nodes(g)
    PROVE  Untouched(g, root) \in ForwardStates(g, root)
<1> DEFINE st == Untouched(g, root)
<1>1. st.impact = [n \in Nodes(g) |-> 0] /\ st.frontier = <<Start(root)>>
      /\ st = [impact |-> st.impact, frontier |-> st.frontier]
  BY DEF Untouched
<1>2. Start(root) \in Pairs(g)
  BY Positive DEF Start, Pairs
<1> HIDE DEF st
<1>3. st.impact \in [Nodes(g) -> Nat] /\ st.frontier \in Seq(Pairs(g))
  BY <1>1, <1>2
<1>4. st \in LoopState(g)
  BY <1>1, <1>3 DEF LoopState
<1>5. Len(st.frontier) = 1 /\ st.frontier[1] = Start(root)
  BY <1>1
<1>6. Known(g, root, st) = {Start(root)}
  BY <1>1 DEF Known
<1>7. Waits(Start(root), st)
  BY <1>5 DEF Waits
<1>8. \A n \in Nodes(g) : st.impact[n] < Whole
  BY <1>1, Positive
<1>9. Start(root) \in Walks(g, root)
  BY WalksClosed
<1>10. st \in ForwardStates(g, root)
  BY <1>4, <1>5, <1>6, <1>7, <1>8, <1>9 DEF ForwardStates
<1> QED BY <1>10 DEF st

\* And stays so.
LEMMA ForwardStays ==
    ASSUME NEW g, IsGraph(g), NEW root \in Nodes(g), NEW st \in ForwardStates(g, root)
    PROVE  Improve(g, st) \in ForwardStates(g, root)
<1>1. CASE st.frontier = <<>>
  BY <1>1 DEF Improve
<1>2. CASE st.frontier # <<>>
  <2> DEFINE taken == Improving(g, st)
             f == Follow(g, st, taken)
             head == Head(st.frontier)
             W == Walks(g, root)
  <2>1. Improve(g, st) = f
    BY <1>2 DEF Improve
  <2>2. /\ st \in LoopState(g) /\ \A k \in 1 .. Len(st.frontier) : st.frontier[k] \in W
        /\ Known(g, root, st) \subseteq W
        /\ \A n \in Nodes(g) : st.impact[n] < Whole
        /\ \A x \in Known(g, root, st) : Waits(x, st) \/ Relaxed(g, st, x)
    BY DEF ForwardStates
  <2>3. /\ taken \in SUBSET Reaching(g, st)
        /\ \A i \in Reaching(g, st) : i \in taken \/ ~(Target(g, st, i).w > st.impact[g[i].dst])
        /\ \A i \in taken : Target(g, st, i).w > st.impact[g[i].dst] /\ i \in DOMAIN g
    BY DEF Improving, Target, Reaching
  <2>4. f = [impact |-> f.impact, frontier |-> f.frontier]
    BY DEF Follow
  <2> HIDE DEF taken, f, W
  <2>5. /\ f.impact \in [Nodes(g) -> Nat]
        /\ \A i \in taken : f.impact[g[i].dst] = Target(g, st, i).w
        /\ \A n \in Nodes(g) : (\A i \in taken : g[i].dst # n) => f.impact[n] = st.impact[n]
    BY <1>2, <2>2, <2>3, FollowImpact DEF f
  <2>6. /\ f.frontier \in Seq(Pairs(g))
        /\ \A x : Waits(x, f) => Waits(x, st) \/ \E i \in taken : x = Target(g, st, i)
        /\ \A i \in taken : Waits(Target(g, st, i), f)
        /\ \A x : Waits(x, st) => x = head \/ Waits(x, f)
    BY <1>2, <2>2, <2>3, FollowFrontier DEF f
  <2>7. f \in LoopState(g)
    BY <2>4, <2>5, <2>6 DEF LoopState
  <2>8. ASSUME NEW i \in taken
        PROVE  /\ Target(g, st, i) \in W /\ Target(g, st, i).w < Whole
               /\ Target(g, st, i).n = g[i].dst
               /\ Target(g, st, i) = [n |-> g[i].dst, w |-> Target(g, st, i).w]
    <3>1. Target(g, st, i) \in W /\ Target(g, st, i).w < Whole
      BY <1>2, <2>2, <2>3, TargetIsWalk DEF W
    <3> QED BY <3>1 DEF Target
  <2>9. ASSUME NEW n \in Nodes(g)
        PROVE  /\ st.impact[n] \in Nat /\ f.impact[n] \in Nat
               /\ st.impact[n] <= f.impact[n]
    <3>1. st.impact[n] \in Nat /\ f.impact[n] \in Nat
      BY <2>2, <2>5 DEF LoopState
    <3>2. CASE \E i \in taken : g[i].dst = n
      BY <2>3, <2>5, <3>1, <3>2
    <3>3. CASE \A i \in taken : g[i].dst # n
      BY <2>5, <3>1, <3>3
    <3> QED BY <3>1, <3>2, <3>3
  <2>10. \A k \in 1 .. Len(f.frontier) : f.frontier[k] \in W
    <3> SUFFICES ASSUME NEW k \in 1 .. Len(f.frontier) PROVE f.frontier[k] \in W
      OBVIOUS
    <3>1. Waits(f.frontier[k], f)
      BY DEF Waits
    <3>2. Waits(f.frontier[k], st) \/ \E i \in taken : f.frontier[k] = Target(g, st, i)
      BY <2>6, <3>1
    <3> QED BY <2>2, <2>8, <3>2 DEF Waits
  <2>11. \A n \in Nodes(g) : f.impact[n] < Whole
    <3> SUFFICES ASSUME NEW n \in Nodes(g) PROVE f.impact[n] < Whole
      OBVIOUS
    <3>1. CASE \E i \in taken : g[i].dst = n
      BY <2>5, <2>8, <3>1
    <3>2. CASE \A i \in taken : g[i].dst # n
      BY <2>2, <2>5, <3>2
    <3> QED BY <3>1, <3>2
  <2>12. ASSUME NEW x \in Known(g, root, f)
         PROVE  x \in Known(g, root, st) \/ \E i \in taken : x = Target(g, st, i)
    <3>1. CASE x = Start(root)
      BY <3>1 DEF Known
    <3>2. ASSUME NEW n \in Nodes(g), f.impact[n] > 0, x = [n |-> n, w |-> f.impact[n]]
          PROVE  x \in Known(g, root, st) \/ \E i \in taken : x = Target(g, st, i)
      <4>1. CASE \E i \in taken : g[i].dst = n
        BY <2>5, <2>8, <3>2, <4>1
      <4>2. CASE \A i \in taken : g[i].dst # n
        <5>1. f.impact[n] = st.impact[n]
          BY <2>5, <4>2
        <5> QED BY <3>2, <5>1 DEF Known
      <4> QED BY <4>1, <4>2
    <3> QED BY <2>12, <3>1, <3>2 DEF Known
  <2>13. Known(g, root, f) \subseteq W
    BY <2>2, <2>8, <2>12
  <2>14. ASSUME NEW x, Relaxed(g, st, x), x \in Pairs(g) PROVE Relaxed(g, f, x)
    <3> SUFFICES ASSUME NEW a \in Arcs(g), a.src = x.n, ~(Hop(x.w, a.r) < Cut)
                 PROVE  Hop(x.w, a.r) <= f.impact[a.dst]
      BY DEF Relaxed
    <3>1. Hop(x.w, a.r) <= st.impact[a.dst]
      BY <2>14 DEF Relaxed
    <3>2. a.dst \in Nodes(g) /\ Hop(x.w, a.r) \in Nat
      BY <2>14, ArcEnds, HopDecays DEF Pairs
    <3> QED BY <2>9, <3>1, <3>2
  <2>15. Relaxed(g, f, head)
    <3> SUFFICES ASSUME NEW a \in Arcs(g), a.src = head.n, ~(Hop(head.w, a.r) < Cut)
                 PROVE  Hop(head.w, a.r) <= f.impact[a.dst]
      BY DEF Relaxed
    <3>1. PICK i \in DOMAIN g : g[i] = a
      BY ArcEnds
    <3>2. head \in Pairs(g) /\ a.r \in 0 .. 4 /\ a.dst \in Nodes(g)
      BY <1>2, <2>2, <3>1, ArcEnds, TargetIsPair
    <3>3. Hop(head.w, a.r) \in Nat
      BY <3>2, HopDecays DEF Pairs
    <3>4. i \in Reaching(g, st) /\ Target(g, st, i).w = Hop(head.w, a.r)
      BY <3>1, <3>3, Positive DEF Reaching, Target
    <3>5. CASE i \in taken
      BY <2>5, <2>9, <3>1, <3>2, <3>3, <3>4, <3>5
    <3>6. CASE i \notin taken
      BY <2>3, <2>9, <3>1, <3>2, <3>3, <3>4, <3>6
    <3> QED BY <3>5, <3>6
  <2>16. \A x \in Known(g, root, f) : Waits(x, f) \/ Relaxed(g, f, x)
    <3> SUFFICES ASSUME NEW x \in Known(g, root, f), ~Waits(x, f) PROVE Relaxed(g, f, x)
      OBVIOUS
    <3>1. x \in Known(g, root, st)
      BY <2>6, <2>12
    <3>2. x \in Pairs(g)
      BY <2>2, <3>1, WalksClosed DEF W
    <3>3. CASE Waits(x, st)
      BY <2>6, <2>15, <3>3
    <3>4. CASE Relaxed(g, st, x)
      BY <2>14, <3>2, <3>4
    <3> QED BY <2>2, <3>1, <3>3, <3>4
  <2>17. f \in ForwardStates(g, root)
    BY <2>7, <2>10, <2>11, <2>13, <2>16 DEF ForwardStates, W
  <2> QED BY <2>1, <2>17
<1> QED BY <1>1, <1>2

\* With nothing left in the frontier the impacts are those of the best walks.
LEMMA ForwardEndsBest ==
    ASSUME NEW g, IsGraph(g), NEW root \in Nodes(g), NEW st \in ForwardStates(g, root),
           st.frontier = <<>>
    PROVE  st = [impact |-> BestWalk(g, root), frontier |-> <<>>]
<1> DEFINE W == Walks(g, root)
           D == {x \in Pairs(g) : x = Start(root) \/ x.w <= st.impact[x.n]}
<1>1. /\ st \in LoopState(g) /\ Known(g, root, st) \subseteq W
      /\ \A n \in Nodes(g) : st.impact[n] < Whole
      /\ \A x \in Known(g, root, st) : Waits(x, st) \/ Relaxed(g, st, x)
  BY DEF ForwardStates
<1>2. \A x \in Known(g, root, st) : Relaxed(g, st, x)
  <2>1. Len(st.frontier) = 0
    OBVIOUS
  <2> QED BY <1>1, <2>1 DEF Waits
<1>3. \A n \in Nodes(g) : st.impact[n] \in Nat
  BY <1>1 DEF LoopState
<1>4. W \subseteq D
  <2>1. Start(root) \in D
    BY Positive DEF Start, Pairs
  <2>2. ASSUME NEW y \in Longer(g, D), y \notin D PROVE FALSE
    <3> HIDE DEF D
    <3>1. PICK x \in D, a \in Arcs(g) : /\ a.src = x.n /\ Hop(x.w, a.r) >= Cut
                                       /\ y = [n |-> a.dst, w |-> Hop(x.w, a.r)]
      BY <2>2, LongerIs
    <3>2. a.r \in 0 .. 4 /\ a.dst \in Nodes(g) /\ x.n \in Nodes(g) /\ x.w \in Nat
      BY ArcEnds DEF D, Pairs
    <3>3. Hop(x.w, a.r) \in Nat
      BY <3>2, HopDecays
    <3>4. Hop(x.w, a.r) <= st.impact[a.dst]
      <4>1. CASE x = Start(root)
        <5>1. Relaxed(g, st, x)
          BY <1>2, <4>1 DEF Known
        <5> QED BY <3>1, <3>3, <5>1, Positive DEF Relaxed
      <4>2. CASE x.w <= st.impact[x.n]
        <5> DEFINE z == [n |-> x.n, w |-> st.impact[x.n]]
        <5>1. z.n = x.n /\ z.w = st.impact[x.n] /\ z.w \in Nat /\ x.w <= z.w
          BY <1>3, <3>2, <4>2
        <5>2. Hop(z.w, a.r) \in Nat /\ 10 * Hop(z.w, a.r) <= 7 * z.w
          BY <3>2, <5>1, HopDecays
        <5>3. Hop(x.w, a.r) <= Hop(z.w, a.r)
          BY <3>2, <5>1, HopGrows
        <5>4. Hop(z.w, a.r) >= Cut
          BY <3>1, <3>3, <5>2, <5>3, Positive
        <5>5. z.w > 0
          BY <5>1, <5>2, <5>4, Positive
        <5>6. Relaxed(g, st, z)
          BY <1>2, <3>2, <5>1, <5>5 DEF Known
        <5>7. Hop(z.w, a.r) <= st.impact[a.dst]
          BY <3>1, <5>1, <5>2, <5>4, <5>6, Positive DEF Relaxed
        <5> QED BY <1>3, <3>2, <3>3, <5>2, <5>3, <5>7
      <4> QED BY <4>1, <4>2 DEF D
    <3> QED BY <2>2, <3>1, <3>2, <3>3, <3>4 DEF D, Pairs
  <2> HIDE DEF D
  <2> QED BY <2>1, <2>2, WalksLeast
<1>5. ASSUME NEW n \in Nodes(g)
      PROVE  st.impact[n] = Max({0} \cup {x.w : x \in {y \in W \ {Start(root)} : y.n = n}})
  <2> DEFINE T == {0} \cup {x.w : x \in {y \in W \ {Start(root)} : y.n = n}}
  <2>1. st.impact[n] \in T
    <3>1. CASE st.impact[n] = 0
      BY <3>1
    <3>2. CASE st.impact[n] # 0
      <4> DEFINE z == [n |-> n, w |-> st.impact[n]]
      <4>1. st.impact[n] > 0
        BY <1>3, <3>2
      <4>2. z \in W
        BY <1>1, <4>1 DEF Known
      <4>3. z # Start(root)
        BY <1>1, <1>3, Positive DEF Start
      <4>4. z.n = n /\ z.w = st.impact[n]
        OBVIOUS
      <4> HIDE DEF z, W
      <4> QED BY <4>2, <4>3, <4>4
    <3> QED BY <3>1, <3>2
  <2>2. \A t \in T : t \in Nat /\ st.impact[n] >= t
    <3>1. ASSUME NEW y \in W \ {Start(root)}, y.n = n PROVE y.w \in Nat /\ st.impact[n] >= y.w
      BY <1>3, <1>4, <3>1 DEF Pairs
    <3> HIDE DEF W
    <3> QED BY <1>3, <3>1
  <2> HIDE DEF T
  <2>3. \A t \in T : (\A u \in T : t >= u) => t = st.impact[n]
    BY <1>3, <2>1, <2>2
  <2>4. Max(T) = st.impact[n]
    BY <2>1, <2>2, <2>3 DEF Max
  <2> QED BY <2>4 DEF T
<1>6. st.impact = BestWalk(g, root)
  <2>1. st.impact = [n \in Nodes(g) |-> st.impact[n]]
    BY <1>1 DEF LoopState
  <2> QED BY <1>5, <2>1 DEF BestWalk
<1>7. st = [impact |-> st.impact, frontier |-> st.frontier]
  BY <1>1 DEF LoopState
<1> QED BY <1>6, <1>7

-----------------------------------------------------------------------------
(* The loop of _forward_impact ends.                                       *)

\* After k rounds a walk was followed in each, or nothing waits: as many walks
\* as were popped and wait are known, and no better way to their ends is missed.
Counted(g, root, k, st) ==
    \/ st.frontier = <<>>
    \/ \E P \in SUBSET Walks(g, root) :
          /\ Cardinality(P) = k + Len(st.frontier)
          /\ \A x \in P : x = Start(root) \/ x.w <= st.impact[x.n]

\* A round counts one walk more: what improves on the impacts is new.
LEMMA ForwardCounts ==
    ASSUME NEW g, IsGraph(g), NEW root \in Nodes(g), NEW st \in ForwardStates(g, root),
           NEW k \in Nat, Counted(g, root, k, st)
    PROVE  Counted(g, root, k + 1, Improve(g, st))
<1>1. CASE st.frontier = <<>>
  BY <1>1 DEF Improve, Counted
<1>2. CASE st.frontier # <<>>
  <2> DEFINE taken == Improving(g, st)
             f == Follow(g, st, taken)
             W == Walks(g, root)
             to == [i \in taken |-> Target(g, st, i)]
             Q == {to[i] : i \in taken}
  <2>1. Improve(g, st) = f
    BY <1>2 DEF Improve
  <2>2. st \in LoopState(g) /\ \A j \in 1 .. Len(st.frontier) : st.frontier[j] \in W
    BY DEF ForwardStates
  <2>3. /\ taken \in SUBSET Reaching(g, st)
        /\ \A i \in taken : Target(g, st, i).w > st.impact[g[i].dst] /\ i \in DOMAIN g
    BY DEF Improving, Target, Reaching
  <2>4. PICK P \in SUBSET W : /\ Cardinality(P) = k + Len(st.frontier)
                              /\ \A x \in P : x = Start(root) \/ x.w <= st.impact[x.n]
    BY <1>2 DEF Counted
  <2> HIDE DEF taken, f, W
  <2>5. /\ f.impact \in [Nodes(g) -> Nat]
        /\ \A i \in taken : f.impact[g[i].dst] = Target(g, st, i).w
        /\ \A n \in Nodes(g) : (\A i \in taken : g[i].dst # n) => f.impact[n] = st.impact[n]
    BY <1>2, <2>2, <2>3, FollowImpact DEF f
  <2>6. /\ Cardinality(taken) \in Nat
        /\ Len(f.frontier) = Len(st.frontier) - 1 + Cardinality(taken)
    BY <1>2, <2>2, <2>3, FollowFrontier DEF f
  <2>7. Len(st.frontier) \in Nat
    BY <2>2 DEF LoopState
  <2>8. ASSUME NEW i \in taken
        PROVE  /\ to[i] \in W /\ to[i] # Start(root) /\ to[i].n = g[i].dst
               /\ to[i].w = Target(g, st, i).w
               /\ to[i].w > st.impact[g[i].dst] /\ to[i].w \in Nat
               /\ st.impact[g[i].dst] \in Nat
    <3>1. Target(g, st, i) \in W /\ Target(g, st, i) # Start(root)
      BY <1>2, <2>2, <2>3, TargetIsWalk DEF W
    <3>2. Target(g, st, i).w \in Nat
      BY <1>2, <2>2, <2>3, TargetIsPair DEF Pairs
    <3>3. g[i].dst \in Nodes(g)
      BY <2>3, ArcEnds
    <3>4. st.impact[g[i].dst] \in Nat
      BY <2>2, <3>3 DEF LoopState
    <3>5. Target(g, st, i).n = g[i].dst
      BY DEF Target
    <3> QED BY <2>3, <3>1, <3>2, <3>4, <3>5
  <2>9. \A i, j \in taken : to[i] = to[j] => i = j
    BY <2>3, <2>8, TargetsDiffer
  <2> HIDE DEF to
  <2>10. Q \in SUBSET W /\ P \cap Q = {}
    BY <2>4, <2>8
  <2>11. IsFiniteSet(taken)
    <3>1. taken \in SUBSET (1 .. Len(g)) /\ Len(g) \in Nat
      BY <2>3, ArcEnds
    <3>2. IsFiniteSet(1 .. Len(g))
      BY <3>1, FS_Interval
    <3> QED BY <3>1, <3>2, FS_Subset
  <2>12. IsFiniteSet(Q) /\ Cardinality(Q) = Cardinality(taken)
    <3>1. to \in [taken -> Q]
      BY DEF to
    <3>2. to \in Surjection(taken, Q) /\ to \in Injection(taken, Q)
      BY <2>9, <3>1 DEF Injection, Surjection, IsInjective
    <3> HIDE DEF Q
    <3> QED BY <2>11, <3>2, FS_Surjection
  <2>13. IsFiniteSet(P) /\ Cardinality(P \cup Q) = Cardinality(P) + Cardinality(Q)
    <3>1. IsFiniteSet(P)
      BY WalksFinite, FS_Subset DEF W
    <3>2. Cardinality(P) \in Nat /\ Cardinality(Q) \in Nat /\ Cardinality(P \cap Q) = 0
      BY <2>10, <2>12, <3>1, FS_CardinalityType, FS_EmptySet
    <3> QED BY <2>12, <3>1, <3>2, FS_Union
  <2>14. Cardinality(P \cup Q) = (k + 1) + Len(f.frontier)
    BY <2>4, <2>6, <2>7, <2>12, <2>13
  <2>15. ASSUME NEW x \in P \cup Q PROVE x = Start(root) \/ x.w <= f.impact[x.n]
    <3>1. CASE x \in Q
      <4>1. PICK i \in taken : x = to[i]
        BY <3>1
      <4> QED BY <2>5, <2>8, <4>1
    <3>2. CASE x \in P /\ x # Start(root)
      <4>1. x.w <= st.impact[x.n] /\ x.n \in Nodes(g) /\ x.w \in Nat
        BY <2>4, <3>2, WalkWeights DEF W
      <4>2. st.impact[x.n] \in Nat
        BY <2>2, <4>1 DEF LoopState
      <4>3. CASE \E i \in taken : g[i].dst = x.n
        BY <2>5, <2>8, <4>1, <4>2, <4>3
      <4>4. CASE \A i \in taken : g[i].dst # x.n
        BY <2>5, <4>1, <4>4
      <4> QED BY <4>3, <4>4
    <3> QED BY <3>1, <3>2
  <2> HIDE DEF Q
  <2>16. P \cup Q \in SUBSET W
    BY <2>10
  <2>17. Counted(g, root, k + 1, f)
    BY <2>14, <2>15, <2>16 DEF Counted, W
  <2> QED BY <2>1, <2>17
<1> QED BY <1>1, <1>2

\* _forward_impact ends and finds the best walks, whatever the graph.
LEMMA ForwardIsBest ==
    ASSUME NEW g, IsGraph(g), NEW root \in Nodes(g)
    PROVE  ForwardImpact(g, root) = [impact |-> BestWalk(g, root), frontier |-> <<>>]
<1> DEFINE W == Walks(g, root)
           n == Cardinality(W)
           St == ForwardStates(g, root)
           step == [st \in St |-> Improve(g, st)]
<1>1. IsFiniteSet(W) /\ n \in Nat
  BY WalksFinite
<1>2. Untouched(g, root) \in St /\ \A st \in St : Improve(g, st) \in St
  BY ForwardStarts, ForwardStays
<1>3. ForwardImpact(g, root) = ForwardAfter(g, root, n)
  BY DEF ForwardImpact, ForwardAfter
<1> HIDE DEF n, St
<1>4. PICK f : /\ IsRun(f, n, St, Untouched(g, root), step)
               /\ f[n] = ForwardAfter(g, root, n)
  BY <1>1, <1>2, ForwardRun
<1>5. /\ \A k \in 0 .. n : f[k] \in St
      /\ f[0] = Untouched(g, root)
      /\ \A k \in 1 .. n : k - 1 \in 0 .. n /\ k - 1 \in Nat /\ (k - 1) + 1 = k
      /\ \A k \in 1 .. n : f[k] = step[f[k - 1]]
  BY <1>1, <1>4 DEF IsRun
<1>6. \A k \in 1 .. n : f[k] = Improve(g, f[k - 1])
  BY <1>5
<1> DEFINE H == {k \in 0 .. n : Counted(g, root, k, f[k])}
<1>7. 0 \in H
  <2>1. f[0].frontier = <<Start(root)>> /\ Len(f[0].frontier) = 1
    BY <1>5 DEF Untouched
  <2>2. {Start(root)} \in SUBSET W
    BY WalksClosed
  <2>3. Cardinality({Start(root)}) = 1
    BY FS_Singleton
  <2>4. Counted(g, root, 0, f[0])
    BY <2>1, <2>2, <2>3 DEF Counted
  <2> QED BY <1>1, <2>4
<1>8. ASSUME NEW k \in 1 .. n, k - 1 \in H PROVE k \in H
  <2>1. Counted(g, root, k - 1, f[k - 1]) /\ f[k - 1] \in St /\ k - 1 \in Nat /\ (k - 1) + 1 = k
    BY <1>5, <1>8
  <2>2. Counted(g, root, (k - 1) + 1, Improve(g, f[k - 1]))
    BY <2>1, ForwardCounts DEF St
  <2>3. Counted(g, root, k, f[k])
    BY <1>6, <2>1, <2>2
  <2> QED BY <1>1, <2>3
<1>9. n \in H
  <2> HIDE DEF H
  <2>1. \A k \in 0 .. n : k \in H
    BY <1>1, <1>7, <1>8, UpTo
  <2> QED BY <1>1, <2>1
<1>10. f[n] \in St /\ Counted(g, root, n, f[n])
  BY <1>1, <1>5, <1>9
<1>11. f[n].frontier = <<>>
  <2> SUFFICES ASSUME f[n].frontier # <<>> PROVE FALSE
    OBVIOUS
  <2>1. PICK P \in SUBSET W : Cardinality(P) = n + Len(f[n].frontier)
    BY <1>10 DEF Counted
  <2>2. Cardinality(P) <= n
    BY <1>1, FS_Subset DEF n
  <2>3. f[n].frontier \in Seq(Pairs(g))
    BY <1>10 DEF St, ForwardStates, LoopState
  <2>4. Len(f[n].frontier) \in Nat /\ Len(f[n].frontier) >= 1
    BY <2>3
  <2> QED BY <1>1, <2>1, <2>2, <2>4
<1> QED BY <1>3, <1>4, <1>10, <1>11, ForwardEndsBest DEF St

-----------------------------------------------------------------------------
(* The loop of blast_radius.                                               *)

\* Where blast_radius's loop is after n times round.
BlastAfter(g, root, n) == Iterate(LAMBDA st : Visit(g, root, st), Untouched(g, root), n)

\* The loop goes through states of St if its step stays in them.
LEMMA BlastRun ==
    ASSUME NEW g, NEW root, NEW n \in Nat, NEW St, Untouched(g, root) \in St,
           \A st \in St : Visit(g, root, st) \in St
    PROVE  \E f : /\ IsRun(f, n, St, Untouched(g, root), [st \in St |-> Visit(g, root, st)])
                  /\ f[n] = BlastAfter(g, root, n)
<1> DEFINE step == [st \in St |-> Visit(g, root, st)]
           start == Untouched(g, root)
           Def(f) == f = [k \in 0 .. n |-> IF k = 0 THEN start ELSE Visit(g, root, f[k - 1])]
           run == CHOOSE f : Def(f)
<1>1. BlastAfter(g, root, n) = run[n]
  BY DEF BlastAfter, Iterate
<1>2. \E f : Def(f)
  <2>1. step \in [St -> St]
    OBVIOUS
  <2>2. PICK f : IsRun(f, n, St, start, step)
    <3> HIDE DEF step
    <3> QED BY <2>1, Repeats
  <2>3. ASSUME NEW k \in 0 .. n
        PROVE  f[k] = IF k = 0 THEN start ELSE Visit(g, root, f[k - 1])
    <3>1. CASE k = 0
      BY <2>2, <3>1 DEF IsRun
    <3>2. CASE k # 0
      <4>1. k - 1 \in 0 .. n /\ k \in 1 .. n
        BY <3>2
      <4>2. f[k - 1] \in St /\ f[k] = step[f[k - 1]]
        <5> HIDE DEF step
        <5> QED BY <2>2, <4>1 DEF IsRun
      <4> QED BY <3>2, <4>2
    <3> QED BY <3>1, <3>2
  <2>4. f = [k \in 0 .. n |-> f[k]]
    BY <2>2 DEF IsRun
  <2> HIDE DEF start
  <2> QED BY <2>3, <2>4
<1>3. Def(run)
  <2> HIDE DEF Def
  <2> QED BY <1>2
<1>4. run[0] = start /\ \A k \in 1 .. n : run[k] = Visit(g, root, run[k - 1])
  <2> HIDE DEF run, start
  <2> QED BY <1>3
<1>5. \A k \in 0 .. n : run[k] \in St
  <2> DEFINE G == {k \in 0 .. n : run[k] \in St}
  <2> HIDE DEF run
  <2>1. 0 \in G /\ \A k \in 1 .. n : k - 1 \in G => k \in G
    BY <1>4
  <2> HIDE DEF G
  <2>2. \A k \in 0 .. n : k \in G
    BY <2>1, UpTo
  <2> QED BY <2>2 DEF G
<1>6. IsRun(run, n, St, start, step)
  <2> HIDE DEF run
  <2>1. run \in [0 .. n -> St]
    BY <1>3, <1>5
  <2>2. \A k \in 1 .. n : run[k] = step[run[k - 1]]
    BY <1>4, <1>5
  <2> HIDE DEF step, start, Def
  <2> QED BY <1>4, <2>1, <2>2 DEF IsRun
<1> HIDE DEF run
<1> QED BY <1>1, <1>6

\* The invariant of the loop: all it has are walks, and the root is no victim.
BlastStates(g, root) ==
    {st \in LoopState(g) :
        /\ \A k \in 1 .. Len(st.frontier) : st.frontier[k] \in Walks(g, root)
        /\ Known(g, root, st) \subseteq Walks(g, root)
        /\ \A n \in Nodes(g) : st.impact[n] < Whole
        /\ st.impact[root] = 0}

\* A node was seen in each of k rounds, or nothing waits.
Seen(g, root, k, st) ==
    \/ st.frontier = <<>>
    \/ \E P \in SUBSET Nodes(g) :
          /\ Cardinality(P) = k + Len(st.frontier)
          /\ \A n \in P : n = root \/ st.impact[n] > 0

\* The loop begins so.
LEMMA BlastStarts ==
    ASSUME NEW g, IsGraph(g), NEW root \in Nodes(g)
    PROVE  Untouched(g, root) \in BlastStates(g, root)
<1>1. Untouched(g, root) \in ForwardStates(g, root)
  BY ForwardStarts
<1>2. Untouched(g, root).impact[root] = 0
  BY DEF Untouched
<1> QED BY <1>1, <1>2 DEF ForwardStates, BlastStates

\* It stays so, and a round sees one node more.
LEMMA BlastStays ==
    ASSUME NEW g, IsGraph(g), NEW root \in Nodes(g), NEW st \in BlastStates(g, root)
    PROVE  /\ Visit(g, root, st) \in BlastStates(g, root)
           /\ \A k \in Nat : Seen(g, root, k, st) => Seen(g, root, k + 1, Visit(g, root, st))
<1>1. CASE st.frontier = <<>>
  BY <1>1 DEF Visit, Seen
<1>2. CASE st.frontier # <<>>
  <2> DEFINE taken == Unseen(g, root, st)
             f == Follow(g, st, taken)
             W == Walks(g, root)
             to == [i \in taken |-> g[i].dst]
             Q == {to[i] : i \in taken}
  <2>1. Visit(g, root, st) = f
    BY <1>2 DEF Visit
  <2>2. /\ st \in LoopState(g) /\ \A k \in 1 .. Len(st.frontier) : st.frontier[k] \in W
        /\ Known(g, root, st) \subseteq W
        /\ \A n \in Nodes(g) : st.impact[n] < Whole
        /\ st.impact[root] = 0
    BY DEF BlastStates
  <2>3. /\ taken \in SUBSET Reaching(g, st)
        /\ \A i \in taken : g[i].dst # root /\ st.impact[g[i].dst] = 0 /\ i \in DOMAIN g
    BY DEF Unseen, Reaching
  <2>4. f = [impact |-> f.impact, frontier |-> f.frontier]
    BY DEF Follow
  <2> HIDE DEF taken, f, W
  <2>5. /\ f.impact \in [Nodes(g) -> Nat]
        /\ \A i \in taken : f.impact[g[i].dst] = Target(g, st, i).w
        /\ \A n \in Nodes(g) : (\A i \in taken : g[i].dst # n) => f.impact[n] = st.impact[n]
    BY <1>2, <2>2, <2>3, FollowImpact DEF f
  <2>6. /\ f.frontier \in Seq(Pairs(g)) /\ Cardinality(taken) \in Nat
        /\ Len(f.frontier) = Len(st.frontier) - 1 + Cardinality(taken)
        /\ \A x : Waits(x, f) => Waits(x, st) \/ \E i \in taken : x = Target(g, st, i)
    BY <1>2, <2>2, <2>3, FollowFrontier DEF f
  <2>7. ASSUME NEW i \in taken
        PROVE  /\ Target(g, st, i) \in W /\ Target(g, st, i).w < Whole
               /\ Target(g, st, i).w \in Nat /\ Target(g, st, i).w > 0
               /\ g[i].dst \in Nodes(g)
               /\ Target(g, st, i) = [n |-> g[i].dst, w |-> Target(g, st, i).w]
    <3>1. Target(g, st, i) \in W /\ Target(g, st, i).w < Whole /\ Target(g, st, i).w >= Cut
      BY <1>2, <2>2, <2>3, TargetIsWalk DEF W
    <3>2. Target(g, st, i).w \in Nat
      BY <1>2, <2>2, <2>3, TargetIsPair DEF Pairs
    <3>3. Target(g, st, i).w > 0
      BY <3>1, <3>2, Positive
    <3>4. g[i].dst \in Nodes(g)
      BY <2>3, ArcEnds
    <3> QED BY <3>1, <3>2, <3>3, <3>4 DEF Target
  <2>8. f \in LoopState(g)
    BY <2>4, <2>5, <2>6 DEF LoopState
  <2>9. \A k \in 1 .. Len(f.frontier) : f.frontier[k] \in W
    <3> SUFFICES ASSUME NEW k \in 1 .. Len(f.frontier) PROVE f.frontier[k] \in W
      OBVIOUS
    <3>1. Waits(f.frontier[k], st) \/ \E i \in taken : f.frontier[k] = Target(g, st, i)
      BY <2>6 DEF Waits
    <3> QED BY <2>2, <2>7, <3>1 DEF Waits
  <2>10. ASSUME NEW n \in Nodes(g)
         PROVE  f.impact[n] < Whole /\ (f.impact[n] > 0 => [n |-> n, w |-> f.impact[n]] \in W)
    <3>1. CASE \E i \in taken : g[i].dst = n
      BY <2>5, <2>7, <3>1
    <3>2. CASE \A i \in taken : g[i].dst # n
      <4>1. f.impact[n] = st.impact[n]
        BY <2>5, <3>2
      <4> QED BY <2>2, <4>1 DEF Known
    <3> QED BY <3>1, <3>2
  <2>11. Known(g, root, f) \subseteq W
    <3>1. Start(root) \in W
      BY WalksClosed DEF W
    <3> QED BY <2>10, <3>1 DEF Known
  <2>12. f.impact[root] = 0
    BY <2>2, <2>3, <2>5
  <2>13. f \in BlastStates(g, root)
    BY <2>8, <2>9, <2>10, <2>11, <2>12 DEF BlastStates, W
  <2>14. ASSUME NEW k \in Nat, Seen(g, root, k, st) PROVE Seen(g, root, k + 1, f)
    <3>1. PICK P \in SUBSET Nodes(g) : /\ Cardinality(P) = k + Len(st.frontier)
                                       /\ \A n \in P : n = root \/ st.impact[n] > 0
      BY <1>2, <2>14 DEF Seen
    <3>2. Len(st.frontier) \in Nat
      BY <2>2 DEF LoopState
    <3>3. \A i, j \in taken : to[i] = to[j] => i = j
      BY <2>3, TargetsDiffer
    <3>4. Q \in SUBSET Nodes(g) /\ P \cap Q = {}
      BY <2>3, <2>7, <3>1
    <3>5. IsFiniteSet(taken)
      <4>1. taken \in SUBSET (1 .. Len(g)) /\ Len(g) \in Nat
        BY <2>3, ArcEnds
      <4>2. IsFiniteSet(1 .. Len(g))
        BY <4>1, FS_Interval
      <4> QED BY <4>1, <4>2, FS_Subset
    <3>6. \A n \in Q : f.impact[n] > 0
      BY <2>5, <2>7
    <3>7. IsFiniteSet(Q) /\ Cardinality(Q) = Cardinality(taken)
      <4>1. to \in [taken -> Q]
        OBVIOUS
      <4> HIDE DEF to
      <4>2. to \in Surjection(taken, Q) /\ to \in Injection(taken, Q)
        BY <3>3, <4>1 DEF Injection, Surjection, IsInjective
      <4> HIDE DEF Q
      <4> QED BY <3>5, <4>2, FS_Surjection
    <3> HIDE DEF Q
    <3>8. Cardinality(P \cup Q) = Cardinality(P) + Cardinality(Q)
      <4>1. IsFiniteSet(P)
        BY NodesFinite, FS_Subset
      <4>2. Cardinality(P) \in Nat /\ Cardinality(Q) \in Nat /\ Cardinality(P \cap Q) = 0
        BY <3>4, <3>7, <4>1, FS_CardinalityType, FS_EmptySet
      <4>3. Cardinality(P \cup Q) = Cardinality(P) + Cardinality(Q) - Cardinality(P \cap Q)
        BY <3>7, <4>1, FS_Union
      <4> QED BY <4>2, <4>3
    <3>9. Cardinality(P \cup Q) = (k + 1) + Len(f.frontier)
      BY <2>6, <3>1, <3>2, <3>7, <3>8
    <3>10. ASSUME NEW n \in P, n # root PROVE f.impact[n] > 0
      <4>1. st.impact[n] > 0 /\ n \in Nodes(g)
        BY <3>1, <3>10
      <4>2. \A i \in taken : g[i].dst # n
        BY <2>3, <4>1
      <4> QED BY <2>5, <4>1, <4>2
    <3>11. P \cup Q \in SUBSET Nodes(g) /\ \A n \in P \cup Q : n = root \/ f.impact[n] > 0
      BY <3>4, <3>6, <3>10
    <3> QED BY <3>9, <3>11 DEF Seen
  <2> QED BY <2>1, <2>13, <2>14
<1> QED BY <1>1, <1>2

\* blast_radius ends, and predicts nothing stronger than the best walk.
LEMMA BlastIsWithin ==
    ASSUME NEW g, IsGraph(g), NEW root \in Nodes(g)
    PROVE  /\ BlastRadius(g, root).frontier = <<>>
           /\ BlastRadius(g, root).impact[root] = 0
           /\ \A n \in Nodes(g) : BlastRadius(g, root).impact[n] <= BestWalk(g, root)[n]
<1> DEFINE n == Cardinality(Nodes(g))
           St == BlastStates(g, root)
           step == [st \in St |-> Visit(g, root, st)]
<1>1. IsFiniteSet(Nodes(g)) /\ n \in Nat
  BY NodesFinite
<1>2. Untouched(g, root) \in St /\ \A st \in St : Visit(g, root, st) \in St
  BY BlastStarts, BlastStays
<1>3. BlastRadius(g, root) = BlastAfter(g, root, n)
  BY DEF BlastRadius, BlastAfter
<1> HIDE DEF n, St
<1>4. PICK f : /\ IsRun(f, n, St, Untouched(g, root), step)
               /\ f[n] = BlastAfter(g, root, n)
  BY <1>1, <1>2, BlastRun
<1>5. /\ \A k \in 0 .. n : f[k] \in St
      /\ f[0] = Untouched(g, root)
      /\ \A k \in 1 .. n : k - 1 \in 0 .. n /\ k - 1 \in Nat /\ (k - 1) + 1 = k
      /\ \A k \in 1 .. n : f[k] = step[f[k - 1]]
  BY <1>1, <1>4 DEF IsRun
<1>6. \A k \in 1 .. n : f[k] = Visit(g, root, f[k - 1])
  BY <1>5
<1> DEFINE H == {k \in 0 .. n : Seen(g, root, k, f[k])}
<1>7. 0 \in H
  <2>1. f[0].frontier = <<Start(root)>> /\ Len(f[0].frontier) = 1
    BY <1>5 DEF Untouched
  <2>2. Cardinality({root}) = 1
    BY FS_Singleton
  <2>3. Seen(g, root, 0, f[0])
    BY <2>1, <2>2 DEF Seen
  <2> QED BY <1>1, <2>3
<1>8. ASSUME NEW k \in 1 .. n, k - 1 \in H PROVE k \in H
  <2>1. Seen(g, root, k - 1, f[k - 1]) /\ f[k - 1] \in St /\ k - 1 \in Nat /\ (k - 1) + 1 = k
    BY <1>5, <1>8
  <2>2. Seen(g, root, (k - 1) + 1, Visit(g, root, f[k - 1]))
    BY <2>1, BlastStays DEF St
  <2>3. Seen(g, root, k, f[k])
    BY <1>6, <2>1, <2>2
  <2> QED BY <1>1, <2>3
<1>9. n \in H
  <2> HIDE DEF H
  <2>1. \A k \in 0 .. n : k \in H
    BY <1>1, <1>7, <1>8, UpTo
  <2> QED BY <1>1, <2>1
<1>10. f[n] \in St /\ Seen(g, root, n, f[n])
  BY <1>1, <1>5, <1>9
<1>11. /\ f[n] \in LoopState(g) /\ Known(g, root, f[n]) \subseteq Walks(g, root)
       /\ \A m \in Nodes(g) : f[n].impact[m] < Whole
       /\ f[n].impact[root] = 0
  BY <1>10 DEF St, BlastStates
<1>12. f[n].frontier = <<>>
  <2> SUFFICES ASSUME f[n].frontier # <<>> PROVE FALSE
    OBVIOUS
  <2>1. PICK P \in SUBSET Nodes(g) : Cardinality(P) = n + Len(f[n].frontier)
    BY <1>10 DEF Seen
  <2>2. Cardinality(P) <= n
    BY <1>1, FS_Subset DEF n
  <2>3. f[n].frontier \in Seq(Pairs(g))
    BY <1>11 DEF LoopState
  <2>4. Len(f[n].frontier) \in Nat /\ Len(f[n].frontier) >= 1
    BY <2>3
  <2> QED BY <1>1, <2>1, <2>2, <2>4
<1>13. ASSUME NEW m \in Nodes(g) PROVE f[n].impact[m] <= BestWalk(g, root)[m]
  <2> DEFINE T == {0} \cup {x.w : x \in {y \in Walks(g, root) \ {Start(root)} : y.n = m}}
             z == [n |-> m, w |-> f[n].impact[m]]
  <2>1. BestWalk(g, root)[m] = Max(T)
    BY DEF BestWalk
  <2>2. T \in SUBSET (0 .. Whole) /\ T # {}
    <3>1. \A y \in Walks(g, root) : y.w \in 0 .. Whole
      BY WalkWeights, Positive
    <3> QED BY <3>1, Positive
  <2>3. f[n].impact[m] \in Nat /\ f[n].impact[m] < Whole
    BY <1>11 DEF LoopState
  <2>4. f[n].impact[m] \in T
    <3>1. CASE f[n].impact[m] = 0
      BY <3>1
    <3>2. CASE f[n].impact[m] > 0
      <4>1. z \in Walks(g, root)
        BY <1>11, <3>2 DEF Known
      <4>2. z # Start(root) /\ z.n = m /\ z.w = f[n].impact[m]
        BY <2>3, Positive DEF Start
      <4> HIDE DEF z
      <4> QED BY <4>1, <4>2
    <3> QED BY <2>3, <3>1, <3>2
  <2> HIDE DEF T
  <2>5. \A t \in T : t <= Max(T)
    BY <2>2, Positive, Greatest
  <2> QED BY <2>1, <2>4, <2>5
<1> QED BY <1>3, <1>4, <1>11, <1>12, <1>13

-----------------------------------------------------------------------------
(* Sums.                                                                   *)

\* The sum of a function's values, as Score takes it.
Total(f, S) == MapThenSumSet(LAMBDA x : f[x], S)

\* What MapThenSumSet takes out of s next.
Drawn(s) == CHOOSE x \in s : TRUE

\* h sums f over the subsets of S in D.
SumsUp(h, f, D) ==
    h = [s \in D |-> IF s = {} THEN 0 ELSE f[Drawn(s)] + h[s \ {Drawn(s)}]]

\* A subset without one of its elements.
LEMMA Fewer ==
    ASSUME NEW S, IsFiniteSet(S), NEW s \in SUBSET S, s # {}
    PROVE  /\ Drawn(s) \in s /\ s \ {Drawn(s)} \in SUBSET S
           /\ Cardinality(s) \in Nat /\ Cardinality(s) # 0
           /\ Cardinality(s \ {Drawn(s)}) = Cardinality(s) - 1
<1>1. Drawn(s) \in s
  BY DEF Drawn
<1>2. IsFiniteSet(s) /\ Cardinality(s) \in Nat
  BY FS_Subset, FS_CardinalityType
<1>3. Cardinality(s) # 0
  BY <1>2, FS_EmptySet
<1>4. Cardinality(s \ {Drawn(s)}) = Cardinality(s) - 1
  BY <1>1, <1>2, FS_RemoveElement
<1> QED BY <1>1, <1>2, <1>3, <1>4

\* The sum over a finite set can be taken.
LEMMA SumExists ==
    ASSUME NEW S, IsFiniteSet(S), NEW f
    PROVE  \E h : SumsUp(h, f, SUBSET S)
<1> DEFINE n == Cardinality(S)
           Upto(k) == {s \in SUBSET S : Cardinality(s) <= k}
           G == {k \in 0 .. n : \E h : SumsUp(h, f, Upto(k))}
<1>1. n \in Nat
  BY FS_CardinalityType
<1>2. \A s \in SUBSET S : IsFiniteSet(s) /\ Cardinality(s) \in Nat /\ Cardinality(s) <= n
  BY FS_Subset, FS_CardinalityType
<1> HIDE DEF n
<1>3. 0 \in G
  <2>1. \A s \in Upto(0) : s = {}
    <3>1. \A s \in Upto(0) : Cardinality(s) = 0
      BY <1>2
    <3> QED BY <1>2, <3>1, FS_EmptySet
  <2> DEFINE h == [s \in Upto(0) |-> 0]
  <2>2. SumsUp(h, f, Upto(0))
    <3> HIDE DEF Upto
    <3> QED BY <2>1 DEF SumsUp
  <2> HIDE DEF h, Upto
  <2> QED BY <1>1, <2>2
<1>4. ASSUME NEW k \in 1 .. n, k - 1 \in G PROVE k \in G
  <2>1. PICK h : SumsUp(h, f, Upto(k - 1))
    BY <1>4
  <2> DEFINE Value(s) == IF s = {} THEN 0 ELSE f[Drawn(s)] + h[s \ {Drawn(s)}]
             j == [s \in Upto(k) |-> Value(s)]
  <2>2. ASSUME NEW s \in Upto(k), s # {} PROVE s \ {Drawn(s)} \in Upto(k - 1)
    BY <1>1, <1>2, <2>2, Fewer
  <2>3. ASSUME NEW s \in Upto(k - 1) PROVE s \in Upto(k)
    BY <1>1, <1>2
  <2> HIDE DEF Upto
  <2>4. ASSUME NEW s \in Upto(k - 1) PROVE h[s] = Value(s)
    BY <2>1 DEF SumsUp
  <2>5. ASSUME NEW s \in Upto(k), s # {} PROVE j[s \ {Drawn(s)}] = h[s \ {Drawn(s)}]
    BY <2>2, <2>3, <2>4, <2>5
  <2>6. ASSUME NEW s \in Upto(k)
        PROVE  Value(s) = IF s = {} THEN 0 ELSE f[Drawn(s)] + j[s \ {Drawn(s)}]
    <3> HIDE DEF j
    <3> QED BY <2>5
  <2>7. SumsUp(j, f, Upto(k))
    <3>1. j = [s \in Upto(k) |-> Value(s)]
      OBVIOUS
    <3> HIDE DEF j, Value
    <3> QED BY <2>6, <3>1 DEF SumsUp
  <2> HIDE DEF j
  <2> QED BY <2>7
<1>5. n \in G
  <2> HIDE DEF G
  <2>1. \A k \in 0 .. n : k \in G
    BY <1>1, <1>3, <1>4, UpTo
  <2> QED BY <1>1, <2>1
<1>6. Upto(n) = SUBSET S
  BY <1>2
<1> HIDE DEF Upto
<1> QED BY <1>5, <1>6

\* A sum of naturals is one, and positive only if something in it is.
LEMMA TotalPositive ==
    ASSUME NEW S, IsFiniteSet(S), NEW f, \A x \in S : f[x] \in Nat
    PROVE  /\ Total(f, S) \in Nat
           /\ Total(f, S) > 0 => \E x \in S : f[x] > 0
<1> DEFINE h == CHOOSE h : h = [s \in SUBSET S |-> IF s = {} THEN 0 ELSE f[Drawn(s)] + h[s \ {Drawn(s)}]]
           n == Cardinality(S)
           Fine(v) == v \in Nat /\ (v > 0 => \E x \in S : f[x] > 0)
           G == {k \in 0 .. n : \A s \in SUBSET S : Cardinality(s) = k => Fine(h[s])}
<1>1. Total(f, S) = h[S]
  BY DEF Total, MapThenSumSet, MapThenFoldSet, Drawn
<1>2. SumsUp(h, f, SUBSET S)
  <2>1. h = CHOOSE j : SumsUp(j, f, SUBSET S)
    BY DEF SumsUp
  <2> HIDE DEF h
  <2> QED BY <2>1, SumExists
<1> HIDE DEF h
<1>3. n \in Nat
  BY FS_CardinalityType
<1>4. \A s \in SUBSET S : IsFiniteSet(s) /\ Cardinality(s) \in Nat /\ Cardinality(s) <= n
  BY FS_Subset, FS_CardinalityType
<1>5. \A s \in SUBSET S : h[s] = IF s = {} THEN 0 ELSE f[Drawn(s)] + h[s \ {Drawn(s)}]
  BY <1>2 DEF SumsUp
<1>6. 0 \in G
  <2> SUFFICES ASSUME NEW s \in SUBSET S, Cardinality(s) = 0 PROVE Fine(h[s])
    BY <1>3
  <2>1. s = {}
    BY <1>4, FS_EmptySet
  <2>2. h[s] = 0
    BY <1>5, <2>1
  <2> QED BY <2>2
<1>7. ASSUME NEW k \in 1 .. n, k - 1 \in G PROVE k \in G
  <2> SUFFICES ASSUME NEW s \in SUBSET S, Cardinality(s) = k PROVE Fine(h[s])
    BY <1>3
  <2>1. s # {}
    <3>1. k # 0
      BY <1>3
    <3> QED BY <3>1, FS_EmptySet
  <2>2. /\ Drawn(s) \in S /\ s \ {Drawn(s)} \in SUBSET S
        /\ Cardinality(s \ {Drawn(s)}) = k - 1
    BY <2>1, Fewer
  <2>3. Fine(h[s \ {Drawn(s)}])
    BY <1>7, <2>2
  <2>4. h[s] = f[Drawn(s)] + h[s \ {Drawn(s)}] /\ f[Drawn(s)] \in Nat
    BY <1>5, <2>1, <2>2
  <2> QED BY <2>2, <2>3, <2>4
<1>8. n \in G
  <2> HIDE DEF G
  <2>1. \A k \in 0 .. n : k \in G
    BY <1>3, <1>6, <1>7, UpTo
  <2> QED BY <1>3, <2>1
<1>9. Fine(h[S])
  BY <1>8
<1> QED BY <1>1, <1>9

\* A finite set of numbers is bounded, and has a greatest.
LEMMA Bounded ==
    ASSUME NEW T \in SUBSET Nat, IsFiniteSet(T)
    PROVE  \E N \in Nat : T \in SUBSET (0 .. N)
<1> DEFINE n == Cardinality(T)
           Bound(s) == \E N \in Nat : \A t \in s : t <= N
           G == {k \in 0 .. n : \A s \in SUBSET T : Cardinality(s) = k => Bound(s)}
<1>1. n \in Nat
  BY FS_CardinalityType
<1>2. 0 \in G
  <2> SUFFICES ASSUME NEW s \in SUBSET T, Cardinality(s) = 0 PROVE Bound(s)
    BY <1>1
  <2>1. s = {}
    BY FS_Subset, FS_EmptySet
  <2> QED BY <2>1
<1>3. ASSUME NEW k \in 1 .. n, k - 1 \in G PROVE k \in G
  <2> SUFFICES ASSUME NEW s \in SUBSET T, Cardinality(s) = k PROVE Bound(s)
    BY <1>1
  <2>1. s # {}
    <3>1. k # 0
      BY <1>1
    <3> QED BY <3>1, FS_EmptySet
  <2> DEFINE u == Drawn(s)
             rest == s \ {u}
  <2>2. u \in s /\ u \in Nat /\ rest \in SUBSET T /\ Cardinality(rest) = k - 1
    BY <2>1, Fewer
  <2>3. PICK N \in Nat : \A t \in rest : t <= N
    BY <1>3, <2>2
  <2> HIDE DEF u
  <2>4. N + u \in Nat /\ \A t \in s : t <= N + u
    BY <2>2, <2>3
  <2> QED BY <2>4
<1>4. n \in G
  <2> HIDE DEF G
  <2>1. \A k \in 0 .. n : k \in G
    BY <1>1, <1>2, <1>3, UpTo
  <2> QED BY <1>1, <2>1
<1>5. PICK N \in Nat : \A t \in T : t <= N
  BY <1>4
<1> QED BY <1>5

-----------------------------------------------------------------------------
(* The ranking.                                                            *)

\* The best walk to a node is a walk there is.
LEMMA BestWalkIs ==
    ASSUME NEW g, IsGraph(g), NEW root \in Nodes(g), NEW n \in Nodes(g)
    PROVE  /\ BestWalk(g, root)[n] \in Nat
           /\ BestWalk(g, root)[n] > 0 => \E x \in Walks(g, root) \ {Start(root)} : x.n = n
<1> DEFINE T == {0} \cup {x.w : x \in {y \in Walks(g, root) \ {Start(root)} : y.n = n}}
<1>1. BestWalk(g, root)[n] = Max(T)
  BY DEF BestWalk
<1>2. T \in SUBSET (0 .. Whole) /\ T # {}
  <2>1. \A y \in Walks(g, root) : y.w \in 0 .. Whole
    BY WalkWeights, Positive
  <2> QED BY <2>1, Positive
<1>3. Max(T) \in T
  <2> HIDE DEF T
  <2> QED BY <1>2, Positive, Greatest
<1>4. Max(T) \in Nat
  <2> HIDE DEF T
  <2>1. Max(T) \in 0 .. Whole
    BY <1>2, <1>3, Zenon
  <2> QED BY <2>1, Positive
<1>5. ASSUME Max(T) > 0 PROVE \E x \in Walks(g, root) \ {Start(root)} : x.n = n
  <2>1. PICK t \in T : t = Max(T) /\ t # 0
    BY <1>3, <1>4, <1>5
  <2> QED BY <2>1
<1> QED BY <1>1, <1>4, <1>5

\* A walk leads downstream.
LEMMA WalkDownstream ==
    ASSUME NEW g, IsGraph(g), NEW root \in Nodes(g), NEW x \in Walks(g, root)
    PROVE  x.n \in Downstream(g, root)
<1> SUFFICES ASSUME NEW S \in SUBSET Nodes(g), root \in S,
                    \A a \in Arcs(g) : a.src \in S => a.dst \in S
             PROVE  x.n \in S
  BY WalkWeights DEF Downstream
<1> DEFINE D == {y \in Pairs(g) : y.n \in S}
<1>1. Start(root) \in D
  BY Positive DEF Start, Pairs
<1>2. ASSUME NEW y \in Longer(g, D) PROVE y \in D
  <2> SUFFICES ASSUME y \notin D PROVE FALSE
    OBVIOUS
  <2> HIDE DEF D
  <2>1. PICK z \in D, a \in Arcs(g) : /\ a.src = z.n
                                     /\ y = [n |-> a.dst, w |-> Hop(z.w, a.r)]
    BY <1>2, LongerIs
  <2>2. a.r \in 0 .. 4 /\ a.dst \in Nodes(g) /\ z.w \in Nat /\ z.n \in S
    BY ArcEnds DEF D, Pairs
  <2>3. Hop(z.w, a.r) \in Nat
    BY <2>2, HopDecays
  <2> QED BY <2>1, <2>2, <2>3 DEF D, Pairs
<1>3. x \in D
  <2> HIDE DEF D
  <2> QED BY <1>1, <1>2, WalksLeast
<1> QED BY <1>3

\* A walk that is not empty leaves the root along an arc.
LEMMA WalkLeaves ==
    ASSUME NEW g, NEW root, NEW x \in Walks(g, root) \ {Start(root)}
    PROVE  \E a \in Arcs(g) : a.src = root
<1> SUFFICES ASSUME \A a \in Arcs(g) : a.src # root PROVE FALSE
  OBVIOUS
<1> DEFINE D == {Start(root)}
<1>1. ASSUME NEW y \in Longer(g, D) PROVE y \in D
  <2>1. y \in D \/ \E z \in D, a \in Arcs(g) : a.src = z.n
    BY <1>1, LongerIs
  <2>2. \A z \in D : z.n = root
    BY DEF Start
  <2> QED BY <2>1, <2>2
<1>2. x \in D
  <2>1. Start(root) \in D
    OBVIOUS
  <2> HIDE DEF D
  <2> QED BY <1>1, <2>1, WalksLeast
<1> QED BY <1>2

\* Who scores explains a seed: it has an impact on one, or is one without a
\* cause of its own.
LEMMA ScoreExplains ==
    ASSUME NEW g, IsGraph(g), NEW seeds, NEW n \in Nodes(g)
    PROVE  /\ Score(g, seeds, n) \in Nat
           /\ Score(g, seeds, n) > 0 =>
                 /\ SeedSet(g, seeds) \cap Downstream(g, n) # {}
                 /\ \E a \in Arcs(g) : a.src = n
<1> DEFINE S == SeedSet(g, seeds)
           f == ForwardImpact(g, n).impact
           itself == IF n \in S /\ Sourceless(g, n) THEN Whole ELSE 0
<1>1. f = BestWalk(g, n)
  BY ForwardIsBest
<1>2. S \in SUBSET Nodes(g) /\ IsFiniteSet(S)
  <2>1. S \in SUBSET Nodes(g)
    BY DEF SeedSet
  <2> HIDE DEF S
  <2> QED BY <2>1, NodesFinite, FS_Subset
<1>3. Score(g, seeds, n) = (Total(f, S) + itself) * (IF Sourceless(g, n) THEN 2 ELSE 1)
  BY DEF Score, Total
<1> HIDE DEF S, f
<1>4. \A s \in S : f[s] \in Nat
  BY <1>1, <1>2, BestWalkIs
<1>5. Total(f, S) \in Nat /\ (Total(f, S) > 0 => \E s \in S : f[s] > 0)
  BY <1>2, <1>4, TotalPositive
<1>6. itself \in Nat
  BY Positive
<1>7. ASSUME Score(g, seeds, n) > 0 PROVE Total(f, S) > 0 \/ itself > 0
  <2> DEFINE t == Total(f, S) + itself
  <2>1. t \in Nat /\ t * (IF Sourceless(g, n) THEN 2 ELSE 1) > 0
    <3> HIDE DEF itself
    <3> QED BY <1>3, <1>5, <1>6, <1>7
  <2>2. t > 0
    <3> HIDE DEF t
    <3> QED BY <2>1
  <2> HIDE DEF itself
  <2> QED BY <1>5, <1>6, <2>2
<1>8. Start(n) \in Walks(g, n)
  BY WalksClosed
<1>9. n \in Downstream(g, n)
  BY <1>8, WalkDownstream DEF Start
<1>10. ASSUME Total(f, S) > 0
       PROVE  S \cap Downstream(g, n) # {} /\ \E a \in Arcs(g) : a.src = n
  <2>1. PICK s \in S : f[s] > 0
    BY <1>5, <1>10
  <2>2. PICK x \in Walks(g, n) \ {Start(n)} : x.n = s
    BY <1>1, <1>2, <2>1, BestWalkIs
  <2>3. s \in Downstream(g, n)
    BY <2>2, WalkDownstream
  <2>4. \E a \in Arcs(g) : a.src = n
    BY <2>2, WalkLeaves
  <2> QED BY <2>1, <2>3, <2>4
<1>11. ASSUME itself > 0
       PROVE  S \cap Downstream(g, n) # {} /\ \E a \in Arcs(g) : a.src = n
  <2>1. n \in S /\ Sourceless(g, n)
    BY <1>11
  <2>2. \E a \in Arcs(g) : a.src = n
    BY <2>1 DEF Nodes, Sourceless
  <2> QED BY <1>9, <2>1, <2>2
<1>12. Score(g, seeds, n) \in Nat
  <2> DEFINE t == Total(f, S) + itself
  <2>1. t \in Nat
    <3> HIDE DEF itself
    <3> QED BY <1>5, <1>6
  <2> HIDE DEF t
  <2> QED BY <1>3, <2>1 DEF t
<1> HIDE DEF itself
<1> QED BY <1>7, <1>10, <1>11, <1>12 DEF S

\* Every node has its place in the order of insertion.
LEMMA PlaceIs ==
    ASSUME NEW g, IsGraph(g), NEW n \in Nodes(g)
    PROVE  Place(g, n) \in Nat
<1> DEFINE T == {2 * i : i \in {j \in DOMAIN g : g[j].src = n}}
                \cup {2 * i + 1 : i \in {j \in DOMAIN g : g[j].dst = n}}
<1>1. T \in SUBSET Nat
  BY ArcEnds
<1>2. PICK i \in DOMAIN g : g[i].src = n \/ g[i].dst = n
  <2>1. PICK a \in Arcs(g) : a.src = n \/ a.dst = n
    BY DEF Nodes
  <2> QED BY <2>1, ArcEnds
<1>3. 2 * i \in T \/ 2 * i + 1 \in T
  BY <1>2
<1>4. Place(g, n) = Min(T)
  BY DEF Place
<1> HIDE DEF T
<1> QED BY <1>1, <1>3, <1>4, Least

\* The ranking is headed by a node that scores.
LEMMA RankedFirst ==
    ASSUME NEW g, IsGraph(g), NEW seeds, NEW since, \A n \in Nodes(g) : since[n] \in Nat,
           Ranked(g, seeds, since) # <<>>
    PROVE  Ranked(g, seeds, since)[1].pod \in Nodes(g)
           /\ Score(g, seeds, Ranked(g, seeds, since)[1].pod) > 0
<1> DEFINE scored == {[pod |-> n, score |-> Score(g, seeds, n)] : n \in Nodes(g)}
           C == {x \in scored : x.score > 0}
           Bef(x, y) ==
            \/ x.score > y.score
            \/ x.score = y.score /\ since[x.pod] < since[y.pod]
            \/ /\ x.score = y.score /\ since[x.pod] = since[y.pod]
               /\ Place(g, x.pod) < Place(g, y.pod)
           r == Ranked(g, seeds, since)
<1>1. r = [i \in 1 .. Cardinality(C) |->
              CHOOSE x \in C : Cardinality({y \in C : Bef(y, x)}) = i - 1]
  BY DEF Ranked, InOrder
<1>2. \A x \in C : /\ x.pod \in Nodes(g) /\ x.score = Score(g, seeds, x.pod) /\ x.score > 0
                   /\ x.score \in Nat /\ since[x.pod] \in Nat /\ Place(g, x.pod) \in Nat
  BY ScoreExplains, PlaceIs
<1>3. IsFiniteSet(C) /\ Cardinality(C) \in Nat
  <2> DEFINE f == [n \in Nodes(g) |-> [pod |-> n, score |-> Score(g, seeds, n)]]
  <2>1. scored = {f[n] : n \in Nodes(g)}
    OBVIOUS
  <2>2. IsFiniteSet({f[n] : n \in Nodes(g)})
    <3> HIDE DEF f
    <3> QED BY NodesFinite, ImageFinite
  <2>3. C \in SUBSET scored
    OBVIOUS
  <2> HIDE DEF C, scored, f
  <2> QED BY <2>1, <2>2, <2>3, FS_Subset, FS_CardinalityType
<1> HIDE DEF C, r
<1>4. 1 \in 1 .. Cardinality(C) /\ C # {}
  <2>1. Cardinality(C) # 0
    <3> SUFFICES ASSUME Cardinality(C) = 0 PROVE FALSE
      OBVIOUS
    <3>1. r = << >>
      BY <1>1
    <3> QED BY <3>1 DEF r
  <2>2. C # {}
    BY <2>1, FS_EmptySet
  <2> QED BY <1>3, <2>1, <2>2
<1>5. PICK x \in C : \A y \in C : ~Bef(y, x)
  <2> DEFINE T1 == {y.score : y \in C}
  <2>1. PICK N \in Nat : T1 \in SUBSET (0 .. N)
    <3>1. T1 \in SUBSET Nat
      BY <1>2
    <3>2. IsFiniteSet(T1)
      <4> DEFINE f == [y \in C |-> y.score]
      <4>1. T1 = {f[y] : y \in C}
        OBVIOUS
      <4> HIDE DEF f, T1
      <4> QED BY <1>3, <4>1, ImageFinite
    <3> HIDE DEF T1
    <3> QED BY <3>1, <3>2, Bounded
  <2>2. Max(T1) \in T1 /\ \A t \in T1 : t <= Max(T1)
    <3>1. T1 # {}
      BY <1>4
    <3> HIDE DEF T1
    <3> QED BY <2>1, <3>1, Greatest
  <2>3. PICK u \in C : \A y \in C : y.score <= u.score
    BY <2>2
  <2> DEFINE T2 == {since[y.pod] : y \in {z \in C : z.score = u.score}}
  <2>4. PICK v \in C : v.score = u.score
                       /\ \A y \in C : y.score = u.score => since[v.pod] <= since[y.pod]
    <3>1. T2 \in SUBSET Nat /\ since[u.pod] \in T2
      BY <1>2
    <3>2. PICK m \in T2 : \A k \in T2 : m <= k
      <4> HIDE DEF T2
      <4> QED BY <3>1, LeastNumber
    <3> QED BY <3>2
  <2> DEFINE T3 == {Place(g, y.pod) : y \in {z \in C : /\ z.score = u.score
                                                       /\ since[z.pod] = since[v.pod]}}
  <2>5. PICK w \in C : /\ w.score = u.score /\ since[w.pod] = since[v.pod]
                       /\ \A y \in C : y.score = u.score /\ since[y.pod] = since[v.pod]
                                          => Place(g, w.pod) <= Place(g, y.pod)
    <3>1. T3 \in SUBSET Nat /\ Place(g, v.pod) \in T3
      BY <1>2, <2>4
    <3>2. PICK m \in T3 : \A k \in T3 : m <= k
      <4> HIDE DEF T3
      <4> QED BY <3>1, LeastNumber
    <3> QED BY <3>2
  <2>6. ASSUME NEW y \in C PROVE ~Bef(y, w)
    <3>1. y.score <= w.score
      BY <2>3, <2>5
    <3>2. y.score = w.score => since[w.pod] <= since[y.pod]
      BY <2>4, <2>5
    <3>3. y.score = w.score /\ since[y.pod] = since[w.pod]
             => Place(g, w.pod) <= Place(g, y.pod)
      BY <2>5
    <3> QED BY <1>2, <3>1, <3>2, <3>3
  <2> HIDE DEF Bef
  <2> QED BY <2>6
<1> HIDE DEF Bef
<1>6. Cardinality({y \in C : Bef(y, x)}) = 0
  <2>1. {y \in C : Bef(y, x)} = {}
    BY <1>5
  <2> QED BY <2>1, FS_EmptySet
<1>7. r[1] \in C
  <2>1. r[1] = CHOOSE z \in C : Cardinality({y \in C : Bef(y, z)}) = 1 - 1
    BY <1>1, <1>4
  <2>2. Cardinality({y \in C : Bef(y, x)}) = 1 - 1
    BY <1>6
  <2> QED BY <2>1, <2>2
<1> QED BY <1>2, <1>7 DEF r

-----------------------------------------------------------------------------
(* The graph of a list of edges.                                           *)

\* Edges between pods of P, whose strength is a correlation.
IsEdges(es, P) ==
    /\ Len(es) \in Nat /\ DOMAIN es = 1 .. Len(es)
    /\ \A i \in DOMAIN es : es[i].src \in P /\ es[i].dst \in P /\ es[i].r \in 0 .. 4

\* build_graph: a pair has one arc, and each arc is some edge's.
LEMMA BuildGraphIs ==
    ASSUME NEW P, NEW es, IsEdges(es, P)
    PROVE  /\ IsGraph(BuildGraph(es)) /\ Nodes(BuildGraph(es)) \subseteq P
           /\ \A a \in Arcs(BuildGraph(es)) : \E i \in DOMAIN es : es[i].src = a.src
<1> DEFINE K == {i \in DOMAIN es : \A j \in 1 .. i - 1 : ~SameArc(es[j], es[i])}
           first == InOrder(K, LAMBDA i, j : i < j)
           Same(e) == {j \in DOMAIN es : SameArc(es[j], e)}
           Arc(e) == [src |-> e.src, dst |-> e.dst, r |-> es[Max(Same(e))].r]
           g == BuildGraph(es)
           A == [src : P, dst : P, r : 0 .. 4]
<1>1. g = [k \in DOMAIN first |-> Arc(es[first[k]])]
  BY DEF BuildGraph
<1>2. /\ Len(es) \in Nat /\ DOMAIN es = 1 .. Len(es)
      /\ \A i \in DOMAIN es : es[i].src \in P /\ es[i].dst \in P /\ es[i].r \in 0 .. 4
  BY DEF IsEdges
<1>3. K \in SUBSET (1 .. Len(es)) /\ \A i, j \in K : SameArc(es[i], es[j]) => i = j
  <2>1. K \in SUBSET (1 .. Len(es))
    BY <1>2
  <2>2. \A i, j \in K : i < j => ~SameArc(es[i], es[j])
    BY <1>2
  <2> HIDE DEF K
  <2> QED BY <1>2, <2>1, <2>2 DEF SameArc
<1> HIDE DEF K
<1>4. Lists(first, K)
  BY <1>2, <1>3, ListsPlaces
<1> HIDE DEF first
<1> DEFINE c == Cardinality(K)
<1>5. /\ c \in Nat /\ first \in [1 .. c -> K]
      /\ \A i, j \in 1 .. c : first[i] = first[j] => i = j
  BY <1>4 DEF Lists
<1> HIDE DEF c
<1>6. ASSUME NEW i \in DOMAIN es PROVE Arc(es[i]) \in A
  <2>1. Same(es[i]) \in SUBSET (0 .. Len(es)) /\ Same(es[i]) # {}
    BY <1>2 DEF SameArc
  <2> HIDE DEF Same
  <2>2. Max(Same(es[i])) \in Same(es[i])
    BY <1>2, <2>1, Greatest
  <2>3. Max(Same(es[i])) \in DOMAIN es
    BY <2>2 DEF Same
  <2> QED BY <1>2, <2>3
<1>7. ASSUME NEW k \in 1 .. c
      PROVE  /\ first[k] \in K /\ first[k] \in DOMAIN es
             /\ g[k] = Arc(es[first[k]]) /\ g[k] \in A
             /\ g[k].src = es[first[k]].src /\ g[k].dst = es[first[k]].dst
  <2>1. first[k] \in K /\ first[k] \in DOMAIN es /\ DOMAIN first = 1 .. c
    BY <1>2, <1>3, <1>5
  <2>2. g[k] = Arc(es[first[k]])
    <3> HIDE DEF g, Arc
    <3> QED BY <1>1, <2>1
  <2>3. Arc(es[first[k]]) \in A
    BY <1>6, <2>1
  <2>4. Arc(es[first[k]]).src = es[first[k]].src /\ Arc(es[first[k]]).dst = es[first[k]].dst
    OBVIOUS
  <2> HIDE DEF g, Arc, A
  <2> QED BY <2>1, <2>2, <2>3, <2>4
<1>8. g \in [1 .. c -> A]
  <2>1. DOMAIN first = 1 .. c
    BY <1>5
  <2>2. g = [k \in 1 .. c |-> Arc(es[first[k]])]
    <3> HIDE DEF g, Arc
    <3> QED BY <1>1, <2>1
  <2> HIDE DEF g, Arc, A
  <2>3. \A k \in 1 .. c : Arc(es[first[k]]) \in A
    BY <1>7
  <2> QED BY <2>2, <2>3
<1> HIDE DEF g, Arc
<1>9. g \in Seq(A) /\ DOMAIN g = 1 .. c
  <2> HIDE DEF A
  <2> QED BY <1>5, <1>8
<1>10. \A i, j \in DOMAIN g : SameArc(g[i], g[j]) => i = j
  <2> SUFFICES ASSUME NEW i \in 1 .. c, NEW j \in 1 .. c, SameArc(g[i], g[j]) PROVE i = j
    BY <1>9
  <2>1. SameArc(es[first[i]], es[first[j]])
    BY <1>7 DEF SameArc
  <2> QED BY <1>3, <1>5, <1>7, <2>1
<1>11. IsGraph(g)
  BY <1>9, <1>10 DEF IsGraph
<1>12. ASSUME NEW a \in Arcs(g)
       PROVE  a.src \in P /\ a.dst \in P /\ \E i \in DOMAIN es : es[i].src = a.src
  <2>1. PICK k \in 1 .. c : a = g[k]
    BY <1>9 DEF Arcs, ToSet
  <2> QED BY <1>2, <1>7, <2>1
<1>13. Nodes(g) \subseteq P
  BY <1>12 DEF Nodes
<1> QED BY <1>11, <1>12, <1>13 DEF g

-----------------------------------------------------------------------------
(* The invariant of the edges.                                             *)

\* One edge of a kind per pair: the loop over pairs visits each once, and of
\* two pods at most one writes more than the other.
OncePerKind ==
    \A e, f \in edges : e.write = f.write /\ PairOf(e) = PairOf(f) => e = f

\* One edge per pair, once chosen.
OncePerPair == \A e, f \in edges : PairOf(e) = PairOf(f) => e = f

\* EdgesWitnessed and what the choice between two edges of a pair rests on.
EdgeInv ==
    /\ signal \in {"io", "cpu"}
    /\ phase \in {"detect", "correlate"} => edges = {}
    /\ \A e \in edges : e.write \in BOOLEAN
    /\ phase = "attribute" => \A e \in edges : e.write = FALSE
    /\ EdgesWitnessed
    /\ OncePerKind
    /\ phase \in {"render", "merge", "done"} => OncePerPair

-----------------------------------------------------------------------------
(* The remembered edges that are shown.                                    *)

\* Edges as they are rendered.
EdgeSet == [src : Pods, dst : Pods, r : 0 .. 4, write : BOOLEAN]

\* What is shown of the memory's list is in the list, and not live.
LEMMA ShownNotLive ==
    ASSUME NEW list \in HeldLists
    PROVE  /\ Shown(list) \in Seq(EdgeSet)
           /\ \A h \in ToSet(Shown(list)) : \A e \in edges : PairOf(e) # PairOf(h)
<1> DEFINE K == {k \in DOMAIN list : \A x \in edges : PairOf(x) # PairOf(list[k])}
           kept == InOrder(K, LAMBDA j, k : j < k)
           shown == Shown(list)
           c == Cardinality(K)
<1>1. shown = [i \in DOMAIN kept |-> list[kept[i]]]
  BY DEF Shown
<1>2. Len(list) \in Nat /\ DOMAIN list = 1 .. Len(list) /\ \A k \in DOMAIN list : list[k] \in EdgeSet
  <2> DEFINE E == [src : Pods, dst : Pods, r : 0 .. 4, write : {FALSE}]
  <2>1. list \in Seq(E)
    BY VerdictAssumption
  <2>2. \A e \in E : e \in EdgeSet
    BY DEF EdgeSet
  <2> HIDE DEF E
  <2> QED BY <2>1, <2>2
<1>3. K \in SUBSET (1 .. Len(list))
  BY <1>2
<1>4. Lists(kept, K)
  <2> HIDE DEF K
  <2> QED BY <1>2, <1>3, ListsPlaces
<1> HIDE DEF kept, shown
<1>5. c \in Nat /\ kept \in [1 .. c -> K] /\ DOMAIN kept = 1 .. c
  <2> HIDE DEF K
  <2> QED BY <1>4 DEF Lists
<1> HIDE DEF c
<1>6. ASSUME NEW i \in 1 .. c
      PROVE  /\ shown[i] \in EdgeSet /\ \A e \in edges : PairOf(e) # PairOf(shown[i])
             /\ shown[i] = list[kept[i]]
  <2>1. shown[i] = list[kept[i]] /\ kept[i] \in K
    <3> HIDE DEF K
    <3> QED BY <1>1, <1>5
  <2> QED BY <1>2, <2>1
<1> HIDE DEF K
<1>7. shown \in [1 .. c -> EdgeSet]
  BY <1>1, <1>5, <1>6
<1>8. shown \in Seq(EdgeSet) /\ DOMAIN shown = 1 .. c
  BY <1>5, <1>7
<1>9. ASSUME NEW h \in ToSet(shown), NEW e \in edges PROVE PairOf(e) # PairOf(h)
  <2>1. PICK i \in 1 .. c : h = shown[i]
    BY <1>8 DEF ToSet
  <2> QED BY <1>6, <2>1
<1> QED BY <1>8, <1>9 DEF shown

-----------------------------------------------------------------------------
(* The edges of one pair.                                                  *)

\* A pod has one place in the order of names.
LEMMA RankOfPod ==
    ASSUME NEW p \in Pods
    PROVE  Rank(p) \in Nat /\ Order[Rank(p)] = p
<1>1. DOMAIN Order \subseteq Nat
  <2>1. Order \in Seq(Pods)
    BY VerdictAssumption
  <2> QED BY <2>1
<1>2. \E i \in DOMAIN Order : Order[i] = p
  BY DEF Pods
<1>3. Rank(p) \in DOMAIN Order /\ Order[Rank(p)] = p
  BY <1>2 DEF Rank
<1> QED BY <1>1, <1>3

\* What admits an edge of the class io is the disk; sharing the node couples a
\* writer of the class cpu only, and stalling together nothing.
LEMMA CouplingKinds ==
    ASSUME signal \in {"io", "cpu"}, NEW p, NEW q
    PROVE  /\ Couples(p, q) => signal = "io" /\ {p, q} \subseteq Disk
           /\ CouplesSource(p, q) => signal = "cpu" \/ {p, q} \subseteq Disk
<1>1. CASE signal = "io"
  BY <1>1 DEF Couples, CouplesSource, Kinds
<1>2. CASE signal = "cpu"
  BY <1>2 DEF Couples, CouplesSource, Kinds
<1> QED BY <1>1, <1>2

\* best_directed yields one edge of the pair or none.
LEMMA PsiEdge ==
    ASSUME NEW a, NEW b, NEW lags, NEW e \in PsiEdges(a, b, lags)
    PROVE  /\ PairOf(e) = {a, b} /\ e.write = FALSE
           /\ Couples(e.src, e.dst)
           /\ {e.src, e.dst} \subseteq Active => onset[e.src] <= onset[e.dst] + Tolerance
           /\ \A f \in PsiEdges(a, b, lags) : f = e
<1> DEFINE way == BestDirected(lags)
           x == IF way = "fwd" THEN Edge(a, b, lags.fwd.r, FALSE)
                               ELSE Edge(b, a, lags.rev.r, FALSE)
<1>1. PsiEdges(a, b, lags) = IF AcceptEdge(x.src, x.dst, lags[way]) THEN {x} ELSE {}
  BY DEF PsiEdges
<1>2. PairOf(x) = {a, b} /\ x.write = FALSE
  <2>1. CASE way = "fwd"
    BY <2>1 DEF PairOf, Edge
  <2>2. CASE way # "fwd"
    BY <2>2 DEF PairOf, Edge
  <2> QED BY <2>1, <2>2
<1> HIDE DEF x, way
<1>3. e = x /\ AcceptEdge(x.src, x.dst, lags[way])
  BY <1>1
<1>4. /\ Couples(x.src, x.dst)
      /\ {x.src, x.dst} \subseteq Active => onset[x.src] <= onset[x.dst] + Tolerance
  BY <1>3 DEF AcceptEdge, InTime
<1> QED BY <1>1, <1>2, <1>3, <1>4

-----------------------------------------------------------------------------
(* The steps of the pass.                                                  *)

\* No edge before the first pass.
LEMMA InitEdgeInv == Init => EdgeInv
  BY DEF Init, EdgeInv, EdgesWitnessed, OncePerKind, OncePerPair

\* Every edge of the pair loop passed the gate, and a pair is visited once.
LEMMA CorrelateStep == EdgeInv /\ Correlate => EdgeInv'
<1> SUFFICES ASSUME EdgeInv, Correlate PROVE EdgeInv'
  OBVIOUS
<1>1. /\ phase' = "attribute" /\ signal' = signal /\ onset' = onset
      /\ signal \in {"io", "cpu"}
  BY DEF Correlate, EdgeInv
<1>2. Active' = Active
  BY <1>1 DEF Active
<1>3. PICK lags \in [PsiPairs -> Lags] :
         edges' = UNION {PsiEdges(pair[1], pair[2], lags[pair]) : pair \in DOMAIN lags}
  BY DEF Correlate
<1>4. ASSUME NEW e \in edges'
      PROVE  \E pair \in PsiPairs : e \in PsiEdges(pair[1], pair[2], lags[pair])
  BY <1>3
<1>5. ASSUME NEW pair \in PsiPairs, NEW e \in PsiEdges(pair[1], pair[2], lags[pair])
      PROVE  /\ pair[1] \in Pods /\ pair[2] \in Pods /\ pair = <<pair[1], pair[2]>>
             /\ Rank(pair[1]) < Rank(pair[2]) /\ Active # {}
             /\ PairOf(e) = {pair[1], pair[2]} /\ e.write = FALSE
             /\ Couples(e.src, e.dst)
             /\ {e.src, e.dst} \subseteq Active =>
                   onset[e.src] <= onset[e.dst] + Tolerance
             /\ \A f \in PsiEdges(pair[1], pair[2], lags[pair]) : f = e
  <2>1. /\ pair[1] \in Pods /\ pair[2] \in Pods /\ pair = <<pair[1], pair[2]>>
        /\ Rank(pair[1]) < Rank(pair[2]) /\ Active # {}
    BY <1>5 DEF PsiPairs
  <2> QED BY <1>5, <2>1, PsiEdge
<1>6. ASSUME NEW p \in PsiPairs, NEW q \in PsiPairs,
             NEW e \in PsiEdges(p[1], p[2], lags[p]),
             NEW f \in PsiEdges(q[1], q[2], lags[q]), PairOf(e) = PairOf(f)
      PROVE  e = f
  <2>1. /\ p[1] \in Pods /\ p[2] \in Pods /\ p = <<p[1], p[2]>>
        /\ q[1] \in Pods /\ q[2] \in Pods /\ q = <<q[1], q[2]>>
        /\ Rank(p[1]) < Rank(p[2]) /\ Rank(q[1]) < Rank(q[2])
        /\ {p[1], p[2]} = {q[1], q[2]}
    BY <1>5, <1>6
  <2>2. ~(p[1] = q[2] /\ p[2] = q[1])
    <3>1. Rank(p[1]) \in Nat /\ Rank(p[2]) \in Nat
      BY <2>1, RankOfPod
    <3> QED BY <2>1, <3>1
  <2>3. p = q
    BY <2>1, <2>2
  <2> QED BY <1>5, <1>6, <2>3
<1>7. \A e \in edges' : e.write = FALSE
  BY <1>4, <1>5
<1>8. OncePerKind'
  BY <1>4, <1>6 DEF OncePerKind, PairOf
<1>9. EdgesWitnessed'
  <2> SUFFICES ASSUME NEW e \in edges'
               PROVE  /\ Active # {} /\ e.src # e.dst
                      /\ PairOf(e) \subseteq Disk \/ signal = "cpu"
                      /\ signal = "cpu" => e.write
                      /\ e.write => e.src \in Writers /\ e.dst \in Active
                      /\ ~e.write /\ PairOf(e) \subseteq Active =>
                            onset[e.src] <= onset[e.dst] + Tolerance
    BY <1>1, <1>2 DEF EdgesWitnessed, PairOf
  <2>1. PICK pair \in PsiPairs : e \in PsiEdges(pair[1], pair[2], lags[pair])
    BY <1>4
  <2>2. /\ pair[1] \in Pods /\ pair[2] \in Pods
        /\ Rank(pair[1]) < Rank(pair[2]) /\ Active # {}
        /\ PairOf(e) = {pair[1], pair[2]} /\ e.write = FALSE
        /\ Couples(e.src, e.dst)
        /\ {e.src, e.dst} \subseteq Active => onset[e.src] <= onset[e.dst] + Tolerance
    BY <1>5, <2>1
  <2>3. signal = "io" /\ {e.src, e.dst} \subseteq Disk
    BY <1>1, <2>2, CouplingKinds
  <2>4. e.src # e.dst
    <3>1. Rank(pair[1]) \in Nat /\ pair[1] # pair[2]
      BY <2>2, RankOfPod
    <3> QED BY <2>2, <3>1 DEF PairOf
  <2> QED BY <2>2, <2>3, <2>4 DEF PairOf
<1> QED BY <1>1, <1>7, <1>8, <1>9 DEF EdgeInv

\* A source edge has a writer and a victim, and the other way round would
\* need the victim to write more.
LEMMA AttributeStep ==
    ASSUME EdgeInv, NEW began, NEW act \in Activity, Attribute(began, act)
    PROVE  EdgeInv'
<1>1. /\ phase = "attribute" /\ phase' = "choose" /\ signal' = signal /\ onset' = onset
      /\ signal \in {"io", "cpu"}
  BY DEF Attribute, EdgeInv
<1>2. Active' = Active
  BY <1>1 DEF Active
<1>3. PICK peak \in [Suspects(began, act) -> Pushes] :
         edges' = edges \cup
             {Edge(pair[1], pair[2], peak[pair].r, TRUE) :
                 pair \in {s \in DOMAIN peak : WriterEdge(s[1], s[2], peak[s], began[s[1]])}}
  BY DEF Attribute
<1>4. ASSUME NEW e \in edges', e \notin edges
      PROVE  \E pair \in Suspects(began, act) :
                e = Edge(pair[1], pair[2], peak[pair].r, TRUE)
  BY <1>3, <1>4
<1>5. ASSUME NEW pair \in Suspects(began, act),
             NEW e, e = Edge(pair[1], pair[2], peak[pair].r, TRUE)
      PROVE  /\ pair = <<pair[1], pair[2]>>
             /\ e.src = pair[1] /\ e.dst = pair[2] /\ e.write = TRUE
             /\ PairOf(e) = {pair[1], pair[2]}
             /\ e.src \in Writers /\ e.dst \in Active /\ e.src # e.dst
             /\ CouplesSource(e.src, e.dst)
             /\ act[pair[1]] > act[pair[2]]
             /\ act[pair[1]] \in 0 .. 1 /\ act[pair[2]] \in 0 .. 1
  <2>1. /\ pair[1] \in Writers /\ pair[2] \in Active /\ pair = <<pair[1], pair[2]>>
        /\ pair[1] # pair[2] /\ CouplesSource(pair[1], pair[2])
        /\ act[pair[1]] > act[pair[2]]
    BY <1>5 DEF Suspects
  <2>2. pair[1] \in Pods /\ pair[2] \in Pods
    BY <2>1, VerdictAssumption DEF Active
  <2>3. act[pair[1]] \in 0 .. 1 /\ act[pair[2]] \in 0 .. 1
    BY <2>2 DEF Activity
  <2>4. e.src = pair[1] /\ e.dst = pair[2] /\ e.write = TRUE
    BY <1>5 DEF Edge
  <2> QED BY <2>1, <2>3, <2>4 DEF PairOf
<1>6. ASSUME NEW p \in Suspects(began, act), NEW q \in Suspects(began, act),
             NEW e, e = Edge(p[1], p[2], peak[p].r, TRUE),
             NEW f, f = Edge(q[1], q[2], peak[q].r, TRUE),
             PairOf(e) = PairOf(f)
      PROVE  e = f
  <2>1. /\ p = <<p[1], p[2]>> /\ q = <<q[1], q[2]>> /\ {p[1], p[2]} = {q[1], q[2]}
        /\ act[p[1]] > act[p[2]] /\ act[q[1]] > act[q[2]]
        /\ act[p[1]] \in 0 .. 1 /\ act[p[2]] \in 0 .. 1
    <3>1. /\ p = <<p[1], p[2]>> /\ PairOf(e) = {p[1], p[2]} /\ act[p[1]] > act[p[2]]
          /\ act[p[1]] \in 0 .. 1 /\ act[p[2]] \in 0 .. 1
      BY <1>5, <1>6
    <3>2. q = <<q[1], q[2]>> /\ PairOf(f) = {q[1], q[2]} /\ act[q[1]] > act[q[2]]
      BY <1>5, <1>6
    <3> QED BY <1>6, <3>1, <3>2
  <2>2. ~(p[1] = q[2] /\ p[2] = q[1])
    BY <2>1
  <2>3. p = q
    BY <2>1, <2>2
  <2> QED BY <1>6, <2>3
<1>7. \A e \in edges : e.write = FALSE
  BY <1>1 DEF EdgeInv
<1>8. \A e \in edges' : e \notin edges => e.write = TRUE
  BY <1>4, <1>5
<1>9. OncePerKind'
  <2> SUFFICES ASSUME NEW e \in edges', NEW f \in edges',
                      e.write = f.write, PairOf(e) = PairOf(f)
               PROVE  e = f
    BY DEF OncePerKind, PairOf
  <2>1. CASE e \in edges /\ f \in edges
    BY <2>1 DEF EdgeInv, OncePerKind
  <2>2. CASE e \notin edges /\ f \notin edges
    BY <1>4, <1>6, <2>2
  <2>3. CASE (e \in edges) # (f \in edges)
    BY <1>7, <1>8, <2>3
  <2> QED BY <2>1, <2>2, <2>3
<1>10. EdgesWitnessed'
  <2> SUFFICES ASSUME NEW e \in edges'
               PROVE  /\ Active # {} /\ e.src # e.dst
                      /\ PairOf(e) \subseteq Disk \/ signal = "cpu"
                      /\ signal = "cpu" => e.write
                      /\ e.write => e.src \in Writers /\ e.dst \in Active
                      /\ ~e.write /\ PairOf(e) \subseteq Active =>
                            onset[e.src] <= onset[e.dst] + Tolerance
    BY <1>1, <1>2 DEF EdgesWitnessed, PairOf
  <2>1. CASE e \in edges
    BY <2>1 DEF EdgeInv, EdgesWitnessed
  <2>2. CASE e \notin edges
    <3>1. PICK pair \in Suspects(began, act) :
             e = Edge(pair[1], pair[2], peak[pair].r, TRUE)
      BY <1>4, <2>2
    <3>2. /\ e.write = TRUE /\ e.src \in Writers /\ e.dst \in Active /\ e.src # e.dst
          /\ CouplesSource(e.src, e.dst)
      BY <1>5, <3>1
    <3>3. signal = "cpu" \/ {e.src, e.dst} \subseteq Disk
      BY <1>1, <3>2, CouplingKinds
    <3> QED BY <3>2, <3>3 DEF PairOf
  <2> QED BY <2>1, <2>2
<1> QED BY <1>1, <1>7, <1>8, <1>9, <1>10 DEF EdgeInv

\* Between two edges of a pair the strengths never decide: a source edge has
\* no rival of its own kind.
LEMMA ChooseKeeps ==
    ASSUME EdgeInv, Choose
    PROVE  /\ edges' \subseteq edges
           /\ \A e \in edges : e.write => e \in edges'
           /\ OncePerPair'
<1>1. edges' = {e \in edges :
                    ~\E f \in edges \ {e} : PairOf(f) = PairOf(e) /\ Preferred(f, e)}
  BY DEF Choose
<1>2. \A e, f \in edges : e.write = f.write /\ PairOf(e) = PairOf(f) => e = f
  BY DEF EdgeInv, OncePerKind
<1>3. \A e \in edges : e.write \in BOOLEAN
  BY DEF EdgeInv
<1>4. ASSUME NEW e \in edges, e.write PROVE e \in edges'
  <2> SUFFICES ASSUME NEW f \in edges \ {e}, PairOf(f) = PairOf(e), Preferred(f, e)
               PROVE  FALSE
    BY <1>1
  <2>1. f.write = e.write
    BY <1>3, <1>4 DEF Preferred
  <2> QED BY <1>2, <2>1
<1>5. ASSUME NEW e \in edges', NEW f \in edges', PairOf(e) = PairOf(f)
      PROVE  e = f
  <2> SUFFICES ASSUME e # f PROVE FALSE
    OBVIOUS
  <2>1. e \in edges \ {f} /\ f \in edges \ {e} /\ e.write # f.write
    BY <1>1, <1>2, <1>5
  <2>2. (e.write /\ ~f.write) \/ (f.write /\ ~e.write)
    BY <1>3, <2>1
  <2>3. Preferred(e, f) \/ Preferred(f, e)
    BY <2>2 DEF Preferred
  <2> QED BY <1>1, <1>5, <2>1, <2>3
<1> QED BY <1>1, <1>4, <1>5 DEF OncePerPair, PairOf

\* The edges that are left keep their witness.
LEMMA ChooseStep == EdgeInv /\ Choose => EdgeInv'
<1> SUFFICES ASSUME EdgeInv, Choose PROVE EdgeInv'
  OBVIOUS
<1>1. phase' = "render" /\ signal' = signal /\ onset' = onset
  BY DEF Choose
<1>2. edges' \subseteq edges /\ OncePerPair'
  BY ChooseKeeps
<1>3. EdgesWitnessed' /\ OncePerKind'
  BY <1>1, <1>2 DEF EdgeInv, EdgesWitnessed, OncePerKind, Active, PairOf
<1> QED BY <1>1, <1>2, <1>3 DEF EdgeInv

\* The other steps keep the edges or begin without any.
LEMMA NextEdgeInv == EdgeInv /\ [Next]_vars => EdgeInv'
<1> SUFFICES ASSUME EdgeInv, [Next]_vars PROVE EdgeInv'
  OBVIOUS
<1>1. ASSUME signal' \in {"io", "cpu"}, edges' = {} PROVE EdgeInv'
  BY <1>1 DEF EdgeInv, EdgesWitnessed, OncePerKind, OncePerPair
<1>2. ASSUME UNCHANGED <<signal, onset, edges>>,
             \/ phase' = phase
             \/ phase \in {"render", "merge"} /\ phase' \in {"merge", "done"}
      PROVE  EdgeInv'
  BY <1>2 DEF EdgeInv, EdgesWitnessed, OncePerKind, OncePerPair, Active, PairOf
<1>3. ASSUME NEW raw, NEW deviating, NEW pressed, Detect(raw, deviating, pressed)
      PROVE  EdgeInv'
  BY <1>1, <1>3 DEF Detect, EdgeInv
<1>4. ASSUME NEW list, Render(list) PROVE EdgeInv'
  BY <1>2, <1>4 DEF Render
<1>5. CASE Merge
  BY <1>2, <1>5 DEF Merge
<1>6. CASE Again
  BY <1>1, <1>6 DEF Again
<1>7. CASE UNCHANGED vars
  BY <1>2, <1>7 DEF vars
<1> QED
  BY <1>3, <1>4, <1>5, <1>6, <1>7, CorrelateStep, AttributeStep, ChooseStep DEF Next

-----------------------------------------------------------------------------
(* The onsets of the findings.                                             *)

\* What cusum_onsets returns for a pod.
Onsets == [at : Nat, z : Nat]

\* float("inf") is later than every sample and a number here.
LEMMA NeverIs == Never \in Nat
  BY SMT DEF Never

\* The pods are finitely many.
LEMMA PodsFinite == IsFiniteSet(Pods)
<1>1. Order \in Seq(Pods)
  BY VerdictAssumption
<1>2. IsFiniteSet(DOMAIN Order)
  <2>1. DOMAIN Order = 1 .. Len(Order) /\ Len(Order) \in Nat
    BY <1>1
  <2> QED BY <2>1, FS_Interval
<1> QED BY <1>2, ImageFinite DEF Pods

\* A list that is not empty has a strongest onset.
LEMMA StrongestIs ==
    ASSUME NEW ons \in Seq(Onsets), ons # <<>>
    PROVE  Strongest(ons) \in Onsets
<1> DEFINE T == {ons[i].z : i \in DOMAIN ons}
           m == Max(T)
           I == {i \in 1 .. Len(ons) : ons[i].z = m}
<1>1. /\ Len(ons) \in Nat /\ DOMAIN ons = 1 .. Len(ons) /\ Len(ons) # 0
      /\ \A i \in 1 .. Len(ons) : ons[i] \in Onsets
  OBVIOUS
<1>2. T \in SUBSET Nat /\ T # {}
  BY <1>1 DEF Onsets
<1>3. IsFiniteSet(T)
  <2> DEFINE f == [i \in DOMAIN ons |-> ons[i].z]
  <2>1. T = {f[i] : i \in DOMAIN ons}
    OBVIOUS
  <2>2. IsFiniteSet(DOMAIN ons)
    BY <1>1, FS_Interval
  <2> HIDE DEF f, T
  <2> QED BY <2>1, <2>2, ImageFinite
<1>4. m \in T
  <2> HIDE DEF T
  <2>1. PICK N \in Nat : T \in SUBSET (0 .. N)
    BY <1>2, <1>3, Bounded
  <2> QED BY <1>2, <2>1, Greatest
<1> HIDE DEF m
<1>5. I # {} /\ I \in SUBSET Nat
  BY <1>1, <1>4
<1>6. Strongest(ons) = ons[Min(I)]
  <2>1. Strongest(ons) = ons[SelectInSeq(ons, LAMBDA o : o.z = m)]
    BY DEF Strongest, m
  <2>2. SelectInSeq(ons, LAMBDA o : o.z = m) = IF I # {} THEN Min(I) ELSE 0
    BY DEF SelectInSeq
  <2> HIDE DEF I
  <2> QED BY <1>5, <2>1, <2>2
<1>7. Min(I) \in I
  <2> HIDE DEF I
  <2> QED BY <1>5, Least
<1> QED BY <1>1, <1>6, <1>7

\* It also has one nearest to a time.
LEMMA NearestIs ==
    ASSUME NEW ons \in Seq(Onsets), ons # <<>>, NEW centre \in Nat
    PROVE  NearestTo(centre, ons) \in Onsets
<1> DEFINE T == {Distance(ons[i].at, centre) : i \in DOMAIN ons}
           m == Min(T)
           I == {i \in 1 .. Len(ons) : Distance(ons[i].at, centre) = m}
<1>1. /\ Len(ons) \in Nat /\ DOMAIN ons = 1 .. Len(ons) /\ Len(ons) # 0
      /\ \A i \in 1 .. Len(ons) : ons[i] \in Onsets
  OBVIOUS
<1>2. T \in SUBSET Nat /\ T # {}
  <2>1. \A i \in DOMAIN ons : ons[i].at \in Nat
    BY <1>1 DEF Onsets
  <2>2. \A i \in DOMAIN ons : Distance(ons[i].at, centre) \in Nat
    BY <2>1 DEF Distance
  <2>3. 1 \in DOMAIN ons
    BY <1>1
  <2> QED BY <2>2, <2>3
<1>3. m \in T
  <2> HIDE DEF T
  <2> QED BY <1>2, Least
<1> HIDE DEF m
<1>4. I # {} /\ I \in SUBSET Nat
  BY <1>1, <1>3
<1>5. NearestTo(centre, ons) = ons[Min(I)]
  <2>1. NearestTo(centre, ons) = ons[SelectInSeq(ons, LAMBDA o : Distance(o.at, centre) = m)]
    BY DEF NearestTo, m
  <2>2. SelectInSeq(ons, LAMBDA o : Distance(o.at, centre) = m)
           = IF I # {} THEN Min(I) ELSE 0
    BY DEF SelectInSeq
  <2> HIDE DEF I
  <2> QED BY <1>4, <2>1, <2>2
<1>6. Min(I) \in I
  <2> HIDE DEF I
  <2> QED BY <1>4, Least
<1> QED BY <1>1, <1>5, <1>6

\* The disturbance has a time when there are findings.
LEMMA CentreIs ==
    ASSUME NEW raw, NEW found \in SUBSET Pods, found # {},
           \A p \in found : raw[p] \in Seq(Onsets) /\ raw[p] # <<>>
    PROVE  Centre(raw, found) \in Nat
<1> DEFINE coupled == {p \in found : \E q \in found \ {p} : Couples(p, q)}
           pool == IF coupled = {} THEN found ELSE coupled
           T == {Strongest(raw[p]).z : p \in pool}
           z == Max(T)
           Fits(p) == /\ Strongest(raw[p]).z = z
                      /\ \A q \in pool : Strongest(raw[q]).z = z => Rank(p) <= Rank(q)
           first == CHOOSE p \in pool : Fits(p)
<1>1. Centre(raw, found) = Strongest(raw[first]).at
  BY DEF Centre
<1>2. pool \in SUBSET found /\ pool # {}
  OBVIOUS
<1> HIDE DEF pool
<1>3. \A p \in pool : Strongest(raw[p]) \in Onsets
  BY <1>2, StrongestIs
<1>4. T \in SUBSET Nat /\ T # {}
  BY <1>2, <1>3 DEF Onsets
<1>5. IsFiniteSet(T)
  <2> DEFINE f == [p \in pool |-> Strongest(raw[p]).z]
  <2>1. T = {f[p] : p \in pool}
    OBVIOUS
  <2>2. IsFiniteSet(pool)
    <3>1. pool \in SUBSET Pods
      BY <1>2
    <3> QED BY <3>1, PodsFinite, FS_Subset
  <2> HIDE DEF f, T
  <2> QED BY <2>1, <2>2, ImageFinite
<1>6. z \in T
  <2> HIDE DEF T
  <2>1. PICK N \in Nat : T \in SUBSET (0 .. N)
    BY <1>4, <1>5, Bounded
  <2> QED BY <1>4, <2>1, Greatest
<1> HIDE DEF z
<1>7. \E p \in pool : Fits(p)
  <2> DEFINE R == {Rank(p) : p \in {q \in pool : Strongest(raw[q]).z = z}}
  <2>1. R \in SUBSET Nat /\ R # {}
    <3>1. \A q \in pool : Rank(q) \in Nat
      BY <1>2, RankOfPod
    <3> QED BY <1>6, <3>1
  <2>2. PICK k \in R : \A l \in R : k <= l
    <3> HIDE DEF R
    <3> QED BY <2>1, LeastNumber
  <2>3. PICK p \in pool : Strongest(raw[p]).z = z /\ Rank(p) = k
    BY <2>2
  <2> QED BY <2>2, <2>3
<1>8. first \in pool
  <2> HIDE DEF Fits
  <2> QED BY <1>7
<1> HIDE DEF first
<1> QED BY <1>1, <1>3, <1>8 DEF Onsets

\* What Detect sets the onsets to.
LEMMA DetectOnsets ==
    ASSUME NEW raw \in [Pods -> OnsetLists], NEW found \in SUBSET Pods,
           \A p \in found : raw[p] # <<>>
    PROVE  [p \in Pods |-> IF p \in found THEN NearestTo(Centre(raw, found), raw[p]).at
                                          ELSE Never] \in [Pods -> Nat]
<1>1. \A p \in found : raw[p] \in Seq(Onsets)
  BY VerdictAssumption DEF Onsets
<1>2. ASSUME NEW p \in found PROVE NearestTo(Centre(raw, found), raw[p]).at \in Nat
  <2>1. Centre(raw, found) \in Nat
    BY <1>1, CentreIs
  <2>2. NearestTo(Centre(raw, found), raw[p]) \in Onsets
    BY <1>1, <2>1, NearestIs
  <2> QED BY <2>2 DEF Onsets
<1> QED BY <1>2, NeverIs

-----------------------------------------------------------------------------
(* What a pass keeps.                                                      *)

\* What the verdict is made from, and that it is made.
PassInv ==
    /\ edges \subseteq EdgeSet
    /\ held \in Seq(EdgeSet)
    /\ other \in Elsewhere
    /\ onset \in [Pods -> Nat]
    /\ phase = "done" => verdict = Merged

\* An edge of the pair loop is one of two pods.
LEMMA PsiEdgeTyped ==
    ASSUME NEW a \in Pods, NEW b \in Pods, NEW lags \in Lags, NEW e \in PsiEdges(a, b, lags)
    PROVE  e \in EdgeSet
<1> DEFINE way == BestDirected(lags)
           x == IF way = "fwd" THEN Edge(a, b, lags.fwd.r, FALSE)
                               ELSE Edge(b, a, lags.rev.r, FALSE)
<1>1. PsiEdges(a, b, lags) = IF AcceptEdge(x.src, x.dst, lags[way]) THEN {x} ELSE {}
  BY DEF PsiEdges
<1>2. e = x /\ lags[way].r >= RPeak
  <2> HIDE DEF x, way
  <2> QED BY <1>1 DEF AcceptEdge
<1>3. way = "fwd" \/ way = "rev"
  BY DEF BestDirected
<1>4. lags.fwd.r \in -4 .. 4 /\ lags.rev.r \in -4 .. 4
  BY VerdictAssumption
<1>5. CASE way = "fwd"
  <2>1. e = Edge(a, b, lags.fwd.r, FALSE) /\ lags.fwd.r >= RPeak
    BY <1>2, <1>5
  <2>2. lags.fwd.r \in 0 .. 4
    BY <1>4, <2>1 DEF RPeak
  <2> QED BY <2>1, <2>2 DEF Edge, EdgeSet
<1>6. CASE way = "rev"
  <2>1. e = Edge(b, a, lags.rev.r, FALSE) /\ lags.rev.r >= RPeak
    BY <1>2, <1>6
  <2>2. lags.rev.r \in 0 .. 4
    BY <1>4, <2>1 DEF RPeak
  <2> QED BY <2>1, <2>2 DEF Edge, EdgeSet
<1> QED BY <1>3, <1>5, <1>6

\* The merge depends on the two graphs and on nothing else.
LEMMA MergedSame ==
    ASSUME UNCHANGED <<signal, other, onset, edges, held>>
    PROVE  Merged' = Merged
<1>1. Rendered' = Rendered
  BY DEF Rendered
<1>2. PerSignal' = PerSignal
  BY <1>1 DEF PerSignal
<1>3. MergedEdges' = MergedEdges /\ Findings' = Findings /\ MergedOnset' = MergedOnset
  BY <1>2 DEF MergedEdges, Findings, MergedOnset, Found
<1>4. ASSUME NEW root PROVE ActiveClass(root)' = ActiveClass(root)
  BY <1>2 DEF ActiveClass
<1>5. ASSUME NEW g, NEW seeds PROVE VerdictOf(g, seeds)' = VerdictOf(g, seeds)
  BY <1>3, <1>4 DEF VerdictOf
<1> QED BY <1>3, <1>5 DEF Merged

\* It holds at the start.
LEMMA InitPassInv == Init => PassInv
  BY NeverIs DEF Init, PassInv

\* The pair loop and the source loop add edges between pods.
LEMMA PassEdges ==
    ASSUME PassInv,
           Correlate \/ \E began \in Began, act \in Activity : Attribute(began, act)
    PROVE  edges' \subseteq EdgeSet
<1>1. CASE Correlate
  <2>1. PICK lags \in [PsiPairs -> Lags] :
         edges' = UNION {PsiEdges(pair[1], pair[2], lags[pair]) : pair \in DOMAIN lags}
    BY <1>1 DEF Correlate
  <2> SUFFICES ASSUME NEW e \in edges' PROVE e \in EdgeSet
    OBVIOUS
  <2>2. PICK pair \in PsiPairs : e \in PsiEdges(pair[1], pair[2], lags[pair])
    BY <2>1
  <2>3. pair[1] \in Pods /\ pair[2] \in Pods /\ lags[pair] \in Lags
    BY <2>1, <2>2 DEF PsiPairs
  <2> QED BY <2>2, <2>3, PsiEdgeTyped
<1>2. ASSUME NEW began, NEW act, Attribute(began, act) PROVE edges' \subseteq EdgeSet
  <2>1. PICK peak \in [Suspects(began, act) -> Pushes] :
         edges' = edges \cup
             {Edge(pair[1], pair[2], peak[pair].r, TRUE) :
                 pair \in {s \in DOMAIN peak : WriterEdge(s[1], s[2], peak[s], began[s[1]])}}
    BY <1>2 DEF Attribute
  <2> SUFFICES ASSUME NEW e \in edges', e \notin edges PROVE e \in EdgeSet
    BY DEF PassInv
  <2>2. PICK pair \in Suspects(began, act) :
           /\ e = Edge(pair[1], pair[2], peak[pair].r, TRUE)
           /\ WriterEdge(pair[1], pair[2], peak[pair], began[pair[1]])
    BY <2>1
  <2>3. pair[1] \in Pods /\ pair[2] \in Pods
    BY <2>2, VerdictAssumption DEF Suspects, Active
  <2>4. peak[pair].r \in -4 .. 4 /\ peak[pair].r >= RSrc
    BY <2>1, <2>2, VerdictAssumption DEF WriterEdge
  <2>5. peak[pair].r \in 0 .. 4
    BY <2>4 DEF RSrc
  <2> QED BY <2>2, <2>3, <2>5 DEF Edge, EdgeSet
<1> QED BY <1>1, <1>2

\* And every step keeps it.
LEMMA NextPassInv == PassInv /\ [Next]_vars => PassInv'
<1> SUFFICES ASSUME PassInv, [Next]_vars PROVE PassInv'
  OBVIOUS
<1>1. /\ edges \subseteq EdgeSet /\ held \in Seq(EdgeSet) /\ other \in Elsewhere
      /\ onset \in [Pods -> Nat] /\ (phase = "done" => verdict = Merged)
  BY DEF PassInv
<1>2. EdgeSet' = EdgeSet
  BY DEF EdgeSet
<1>3. ASSUME NEW raw \in [Pods -> OnsetLists], NEW deviating \in SUBSET Pods, NEW pressed,
             Detect(raw, deviating, pressed)
      PROVE  PassInv'
  <2> DEFINE found == {p \in deviating : raw[p] # <<>>}
             new == [p \in Pods |-> IF p \in found THEN NearestTo(Centre(raw, found), raw[p]).at
                                                   ELSE Never]
  <2>1. /\ onset' = new /\ phase' = "correlate"
        /\ edges' = edges /\ held' = held /\ other' = other
    BY <1>3 DEF Detect
  <2>2. found \in SUBSET Pods /\ \A p \in found : raw[p] # <<>>
    OBVIOUS
  <2>3. new \in [Pods -> Nat]
    <3> HIDE DEF found
    <3> QED BY <2>2, DetectOnsets
  <2> HIDE DEF new
  <2> QED BY <1>1, <1>2, <2>1, <2>3 DEF PassInv
<1>4. CASE Correlate \/ \E began \in Began, act \in Activity : Attribute(began, act)
  <2>1. edges' \subseteq EdgeSet
    BY <1>4, PassEdges
  <2>2. /\ phase' # "done" /\ held' = held /\ other' = other /\ onset' = onset
    BY <1>4 DEF Correlate, Attribute
  <2> QED BY <1>1, <1>2, <2>1, <2>2 DEF PassInv
<1>5. CASE Choose
  <2>1. /\ edges' \subseteq edges /\ phase' # "done"
        /\ held' = held /\ other' = other /\ onset' = onset
    BY <1>5 DEF Choose
  <2> QED BY <1>1, <1>2, <2>1 DEF PassInv
<1>6. ASSUME NEW list \in HeldLists, Render(list) PROVE PassInv'
  <2>1. /\ edges' = edges /\ phase' # "done" /\ held' = Shown(list)
        /\ other' = other /\ onset' = onset
    BY <1>6 DEF Render
  <2>2. Shown(list) \in Seq(EdgeSet)
    BY ShownNotLive
  <2> QED BY <1>1, <1>2, <2>1, <2>2 DEF PassInv
<1>7. CASE Merge
  <2>1. /\ UNCHANGED <<signal, other, onset, edges, held>> /\ verdict' = Merged
    BY <1>7 DEF Merge
  <2>2. Merged' = Merged
    BY <2>1, MergedSame
  <2> QED BY <1>1, <1>2, <2>1, <2>2 DEF PassInv
<1>8. CASE Again
  <2>1. /\ edges' = {} /\ held' = <<>> /\ phase' # "done" /\ other' \in Elsewhere
        /\ onset' = [p \in Pods |-> Never]
    BY <1>8 DEF Again
  <2> QED BY <2>1, NeverIs DEF PassInv
<1>9. CASE UNCHANGED vars
  <2>1. UNCHANGED <<signal, other, onset, edges, held, verdict, phase>>
    BY <1>9 DEF vars
  <2>2. Merged' = Merged
    BY <2>1, MergedSame
  <2> QED BY <1>1, <1>2, <2>1, <2>2 DEF PassInv
<1> QED BY <1>3, <1>4, <1>5, <1>6, <1>7, <1>8, <1>9 DEF Next

-----------------------------------------------------------------------------
(* The merged graph.                                                       *)

\* Two digits in base n compare like the pairs of them.
LEMMA TwoDigits ==
    ASSUME NEW n \in Nat, NEW a \in 1 .. n, NEW b \in 1 .. n, NEW c \in 1 .. n, NEW d \in 1 .. n
    PROVE  /\ (a - 1) * n + b \in 1 .. n * n
           /\ a < c => (a - 1) * n + b < (c - 1) * n + d
<1>1. ASSUME NEW x \in Nat, NEW y \in Nat, x <= y PROVE x * n <= y * n
  BY <1>1
<1>2. (a - 1) \in Nat /\ (c - 1) \in Nat /\ (a - 1) + 1 = a /\ a \in Nat /\ c \in Nat
  OBVIOUS
<1>3. (a - 1) * n \in Nat /\ (c - 1) * n \in Nat /\ a * n \in Nat /\ n * n \in Nat
  BY <1>2
<1>4. a * n = (a - 1) * n + n
  BY <1>2
<1>5. a * n <= n * n
  BY <1>1, <1>2
<1>6. a < c => a * n <= (c - 1) * n
  BY <1>1, <1>2
<1> DEFINE p == (a - 1) * n
           q == (c - 1) * n
           s == a * n
           t == n * n
<1>7. /\ p \in Nat /\ q \in Nat /\ s \in Nat /\ t \in Nat /\ s = p + n /\ s <= t
      /\ (a < c => s <= q)
  BY <1>3, <1>4, <1>5, <1>6
<1> HIDE DEF p, q, s, t
<1>8. p + b \in 1 .. t /\ (a < c => p + b < q + d)
  BY <1>7
<1> QED BY <1>8 DEF p, q, t

\* Edges sorted by name are those edges, if a pair has one.
LEMMA SortedEdges ==
    ASSUME NEW S \in SUBSET EdgeSet, \A e, f \in S : PairOf(e) = PairOf(f) => e = f
    PROVE  InOrder(S, ByName) \in Seq(EdgeSet)
<1> DEFINE n == Len(Order)
           key == [e \in S |-> (Rank(e.src) - 1) * n + Rank(e.dst)]
           o == InOrder(S, ByName)
<1>1. n \in Nat /\ DOMAIN Order = 1 .. n
  <2>1. Order \in Seq(Pods)
    BY VerdictAssumption
  <2> QED BY <2>1
<1>2. \A p \in Pods : Rank(p) \in 1 .. n /\ Order[Rank(p)] = p
  <2> SUFFICES ASSUME NEW p \in Pods PROVE Rank(p) \in 1 .. n /\ Order[Rank(p)] = p
    OBVIOUS
  <2>1. \E i \in DOMAIN Order : Order[i] = p
    BY DEF Pods
  <2> QED BY <1>1, <2>1 DEF Rank
<1> HIDE DEF n
<1>3. ASSUME NEW e \in S
      PROVE  /\ Rank(e.src) \in 1 .. n /\ Rank(e.dst) \in 1 .. n
             /\ e.src \in Pods /\ e.dst \in Pods
             /\ key[e] = (Rank(e.src) - 1) * n + Rank(e.dst)
             /\ key[e] \in 1 .. n * n
  <2>1. e.src \in Pods /\ e.dst \in Pods
    BY DEF EdgeSet
  <2>2. Rank(e.src) \in 1 .. n /\ Rank(e.dst) \in 1 .. n
    BY <1>2, <2>1
  <2>3. (Rank(e.src) - 1) * n + Rank(e.dst) \in 1 .. n * n
    BY <1>1, <2>2, TwoDigits
  <2> QED BY <2>1, <2>2, <2>3
<1>4. \A e, f \in S : e.src = f.src /\ e.dst = f.dst => e = f
  BY DEF PairOf
<1>5. \A e, f \in S : Rank(e.src) = Rank(f.src) => e.src = f.src
  BY <1>2, <1>3
<1>6. \A e, f \in S : Rank(e.dst) = Rank(f.dst) => e.dst = f.dst
  BY <1>2, <1>3
<1>7. ASSUME NEW e \in S, NEW f \in S, Rank(e.src) < Rank(f.src)
      PROVE  key[e] < key[f]
  <2>1. (Rank(e.src) - 1) * n + Rank(e.dst) < (Rank(f.src) - 1) * n + Rank(f.dst)
    BY <1>1, <1>3, <1>7, TwoDigits
  <2> QED BY <1>3, <2>1
<1>8. ASSUME NEW e \in S, NEW f \in S, e.src = f.src
      PROVE  /\ key[e] < key[f] <=> Rank(e.dst) < Rank(f.dst)
             /\ key[e] = key[f] => e = f
  <2> DEFINE m == (Rank(e.src) - 1) * n
  <2>1. m \in Int
    BY <1>1, <1>3
  <2>2. key[e] = m + Rank(e.dst) /\ key[f] = m + Rank(f.dst)
    BY <1>3, <1>8
  <2> HIDE DEF m, key
  <2>3. /\ key[e] < key[f] <=> Rank(e.dst) < Rank(f.dst)
        /\ key[e] = key[f] => Rank(e.dst) = Rank(f.dst)
    BY <1>3, <2>1, <2>2
  <2> QED BY <1>4, <1>6, <1>8, <2>3
<1>9. ASSUME NEW e \in S, NEW f \in S PROVE ByName(e, f) <=> key[e] < key[f]
  <2> HIDE DEF key
  <2>1. Rank(e.src) \in Nat /\ Rank(f.src) \in Nat /\ key[e] \in Nat /\ key[f] \in Nat
    BY <1>1, <1>3
  <2>2. CASE Rank(e.src) < Rank(f.src)
    BY <1>7, <2>2 DEF ByName
  <2>3. CASE Rank(f.src) < Rank(e.src)
    <3>1. key[f] < key[e]
      BY <1>7, <2>3
    <3>2. ~(Rank(e.src) < Rank(f.src)) /\ e.src # f.src /\ ~(key[e] < key[f])
      BY <2>1, <2>3, <3>1
    <3> QED BY <3>2 DEF ByName
  <2>4. CASE e.src = f.src
    <3>1. ~(Rank(e.src) < Rank(f.src))
      BY <2>1, <2>4
    <3> QED BY <1>8, <2>4, <3>1 DEF ByName
  <2> QED BY <1>5, <2>1, <2>2, <2>3, <2>4
<1>10. IsKey(S, key, n * n) /\ n * n \in Nat
  <2>1. n * n \in Nat
    BY <1>1
  <2>2. key \in [S -> 1 .. n * n]
    <3>1. key = [e \in S |-> key[e]]
      OBVIOUS
    <3> HIDE DEF key
    <3> QED BY <1>3, <3>1
  <2>3. ASSUME NEW e \in S, NEW f \in S, key[e] = key[f] PROVE e = f
    <3> HIDE DEF key
    <3>1. Rank(e.src) \in Nat /\ Rank(f.src) \in Nat /\ key[e] \in Nat /\ ~(key[e] < key[f])
          /\ ~(key[f] < key[e])
      BY <1>1, <1>3, <2>3
    <3>2. e.src = f.src
      BY <1>5, <1>7, <3>1
    <3> QED BY <1>8, <2>3, <3>2
  <2> HIDE DEF key
  <2> QED BY <2>1, <2>2, <2>3 DEF IsKey
<1> HIDE DEF key
<1> DEFINE Named(i) == CHOOSE x \in S : Cardinality({y \in S : ByName(y, x)}) = i - 1
           Keyed(i) == CHOOSE x \in S : Cardinality({y \in S : key[y] < key[x]}) = i - 1
<1>11. o = ByKey(S, key)
  <2>1. o = [i \in 1 .. Cardinality(S) |-> Named(i)]
    BY DEF InOrder
  <2>2. \A x \in S : {y \in S : ByName(y, x)} = {y \in S : key[y] < key[x]}
    BY <1>9
  <2>3. \A i : Named(i) = Keyed(i)
    BY <2>2, Zenon
  <2>4. ByKey(S, key) = [i \in 1 .. Cardinality(S) |-> Keyed(i)]
    BY DEF ByKey
  <2> HIDE DEF o, Named, Keyed
  <2> QED BY <2>1, <2>3, <2>4
<1>12. Lists(o, S)
  <2>1. Lists(ByKey(S, key), S)
    BY <1>10, ListsByKey
  <2> QED BY <1>11, <2>1
<1> HIDE DEF o
<1>13. Cardinality(S) \in Nat /\ o \in [1 .. Cardinality(S) -> EdgeSet]
  BY <1>12 DEF Lists
<1> QED BY <1>13 DEF o

\* The merged list is made of the edges of both classes, and every pod has an
\* onset in it.
LEMMA MergedIs ==
    ASSUME PassInv, OncePerPair
    PROVE  /\ IsEdges(MergedEdges, Pods)
           /\ \A i \in DOMAIN MergedEdges :
                 \/ \E j \in DOMAIN PerSignal[1].edges : PerSignal[1].edges[j] = MergedEdges[i]
                 \/ \E j \in DOMAIN PerSignal[2].edges : PerSignal[2].edges[j] = MergedEdges[i]
           /\ \A p \in Pods : MergedOnset[p] \in Nat
<1> DEFINE s == PerSignal[1].edges
           t == PerSignal[2].edges
           m == MergedEdges
<1>1. edges \subseteq EdgeSet /\ held \in Seq(EdgeSet) /\ onset \in [Pods -> Nat]
  BY DEF PassInv
<1>2. other.edges \in Seq(EdgeSet) /\ other.onset \in [Pods -> Nat]
  <2>1. other \in [edges : Seq(EdgeSet), onset : [Pods -> Nat]]
    BY VerdictAssumption DEF PassInv, EdgeSet
  <2> QED BY <2>1
<1>3. InOrder(edges, ByName) \in Seq(EdgeSet)
  BY <1>1, SortedEdges DEF OncePerPair
<1>4. Rendered.edges \in Seq(EdgeSet) /\ Rendered.onset \in [Pods -> Nat]
  <2> DEFINE o == InOrder(edges, ByName)
  <2>1. Rendered.edges = o \o held /\ Rendered.onset = onset
    BY DEF Rendered
  <2> HIDE DEF o
  <2>2. o \in Seq(EdgeSet)
    BY <1>3 DEF o
  <2> QED BY <1>1, <2>1, <2>2
<1>5. PerSignal = <<Rendered, other>> \/ PerSignal = <<other, Rendered>>
  BY DEF PerSignal
<1>6. /\ s \in Seq(EdgeSet) /\ t \in Seq(EdgeSet)
      /\ PerSignal[1].onset \in [Pods -> Nat] /\ PerSignal[2].onset \in [Pods -> Nat]
  BY <1>2, <1>4, <1>5
<1>7. m = s \o t
  BY DEF MergedEdges
<1>8. \A p \in Pods : MergedOnset[p] \in Nat
  BY <1>6 DEF MergedOnset
<1> HIDE DEF s, t, m
<1>9. /\ m \in Seq(EdgeSet) /\ Len(m) = Len(s) + Len(t)
      /\ \A i \in 1 .. Len(s) + Len(t) : m[i] = IF i <= Len(s) THEN s[i] ELSE t[i - Len(s)]
  BY <1>6, <1>7, ConcatProperties
<1>10. /\ Len(m) \in Nat /\ DOMAIN m = 1 .. Len(m) /\ \A i \in DOMAIN m : m[i] \in EdgeSet
       /\ Len(s) \in Nat /\ Len(t) \in Nat
       /\ DOMAIN s = 1 .. Len(s) /\ DOMAIN t = 1 .. Len(t)
  BY <1>6, <1>9
<1>11. IsEdges(m, Pods)
  BY <1>10 DEF IsEdges, EdgeSet
<1>12. ASSUME NEW i \in DOMAIN m
       PROVE  (\E j \in DOMAIN s : s[j] = m[i]) \/ (\E j \in DOMAIN t : t[j] = m[i])
  <2>1. i \in 1 .. Len(s) + Len(t)
    BY <1>9, <1>10
  <2>2. CASE i <= Len(s)
    <3>1. i \in DOMAIN s /\ s[i] = m[i]
      BY <1>9, <1>10, <2>1, <2>2
    <3> QED BY <3>1
  <2>3. CASE ~(i <= Len(s))
    <3>1. i - Len(s) \in DOMAIN t /\ t[i - Len(s)] = m[i]
      BY <1>9, <1>10, <2>1, <2>3
    <3> QED BY <3>1
  <2> QED BY <2>2, <2>3
<1> QED BY <1>8, <1>11, <1>12 DEF s, t, m

\* The graph the verdict is about.
LEMMA MergedGraphIs ==
    ASSUME PassInv, OncePerPair
    PROVE  /\ IsGraph(MergedGraph) /\ Nodes(MergedGraph) \subseteq Pods
           /\ \A a \in Arcs(MergedGraph) : ActiveClass(a.src) # "none"
<1>1. /\ IsGraph(MergedGraph) /\ Nodes(MergedGraph) \subseteq Pods
      /\ \A a \in Arcs(MergedGraph) : \E i \in DOMAIN MergedEdges : MergedEdges[i].src = a.src
  BY MergedIs, BuildGraphIs DEF MergedGraph
<1>2. ASSUME NEW a \in Arcs(MergedGraph) PROVE ActiveClass(a.src) # "none"
  <2>1. PICK i \in DOMAIN MergedEdges : MergedEdges[i].src = a.src
    BY <1>1
  <2>2. \/ \E j \in DOMAIN PerSignal[1].edges : PerSignal[1].edges[j].src = a.src
        \/ \E j \in DOMAIN PerSignal[2].edges : PerSignal[2].edges[j].src = a.src
    BY <2>1, MergedIs
  <2> QED BY <2>2 DEF ActiveClass
<1> QED BY <1>1, <1>2

\* What a verdict with a root consists of.
LEMMA VerdictIs ==
    ASSUME PassInv, OncePerPair, phase = "done", verdict.root # NoPod
    PROVE  /\ verdict.root \in Nodes(MergedGraph)
           /\ verdict.active # "none"
           /\ Downstream(MergedGraph, verdict.root) \cap Findings # {}
           /\ verdict.blast =
                 {[pod |-> n, impact |-> BlastRadius(MergedGraph, verdict.root).impact[n]] :
                     n \in {m \in Nodes(MergedGraph) :
                               BlastRadius(MergedGraph, verdict.root).impact[m] > 0}}
<1> DEFINE g == MergedGraph
           seeds == Findings \cap Nodes(g)
           ranking == Ranked(g, seeds, MergedOnset)
           root == ranking[1].pod
           impact == BlastRadius(g, root).impact
           blast == {[pod |-> n, impact |-> impact[n]] : n \in {m \in Nodes(g) : impact[m] > 0}}
<1>1. verdict = IF seeds # {} THEN VerdictOf(g, seeds) ELSE NoVerdict
  BY DEF PassInv, Merged, MergedGraph
<1>2. NoVerdict.root = NoPod
  BY DEF NoVerdict
<1>3. seeds # {} /\ verdict = VerdictOf(g, seeds)
  <2> HIDE DEF seeds
  <2> QED BY <1>1, <1>2
<1>4. VerdictOf(g, seeds) = IF ranking = <<>> THEN NoVerdict
                            ELSE [root |-> root, blast |-> blast, active |-> ActiveClass(root)]
  BY DEF VerdictOf
<1>5. ranking # <<>> /\ verdict = [root |-> root, blast |-> blast, active |-> ActiveClass(root)]
  <2> HIDE DEF ranking, root, blast, seeds
  <2> QED BY <1>2, <1>3, <1>4
<1>6. verdict.root = root /\ verdict.blast = blast /\ verdict.active = ActiveClass(root)
  <2> HIDE DEF ranking, root, blast, seeds
  <2> QED BY <1>5
<1>7. /\ IsGraph(g) /\ Nodes(g) \subseteq Pods
      /\ \A a \in Arcs(g) : ActiveClass(a.src) # "none"
  BY MergedGraphIs
<1>8. \A n \in Nodes(g) : MergedOnset[n] \in Nat
  BY <1>7, MergedIs
<1>9. root \in Nodes(g) /\ Score(g, seeds, root) > 0
  <2> HIDE DEF g, seeds
  <2> QED BY <1>5, <1>7, <1>8, RankedFirst
<1>10. /\ SeedSet(g, seeds) \cap Downstream(g, root) # {}
       /\ \E a \in Arcs(g) : a.src = root
  <2> HIDE DEF g, seeds, root
  <2> QED BY <1>7, <1>9, ScoreExplains
<1>11. SeedSet(g, seeds) \subseteq Findings
  BY <1>3 DEF SeedSet
<1> HIDE DEF g, seeds, ranking, root
<1>12. ActiveClass(root) # "none" /\ Downstream(g, root) \cap Findings # {}
  BY <1>7, <1>10, <1>11
<1> QED BY <1>6, <1>9, <1>12 DEF g

-----------------------------------------------------------------------------
(* The theorems.                                                           *)

\* The invariant of a pass: every edge has its witness, a pair has at most one
\* edge of each kind, and one edge after the choice (pipeline.py:116-200).
THEOREM EdgeInvariant == Spec => []EdgeInv
<1> QED BY InitEdgeInv, NextEdgeInv, PTL DEF Spec

\* No edge without a physical reason, whatever the vectors say: two pods that
\* only stall together are never linked, and sharing the node admits a writer
\* that pushes a victim and nothing else (gate.py:73-92, pipeline.py:150-192).
THEOREM EveryEdgeWitnessed == Spec => []EdgesWitnessed
<1>1. EdgeInv => EdgesWitnessed
  BY DEF EdgeInv
<1> QED BY <1>1, EdgeInvariant, PTL

\* No accepted source edge gives way to a correlation of two victims, however
\* strong; a rendered pair has one direction; and memory adds nothing to a pair
\* that is live (pipeline.py:193-200, state.py:443).
THEOREM WriterAlwaysDecides == Spec => WriterDecides
<1> DEFINE Decided ==
      /\ phase = "choose" /\ phase' = "render" =>
            {e \in edges : e.write} \subseteq edges'
      /\ phase' = "merge" =>
            /\ \A e, f \in edges' : PairOf(e) = PairOf(f) => e = f
            /\ \A e \in edges' : \A h \in ToSet(held') : PairOf(e) # PairOf(h)
<1>1. EdgeInv /\ [Next]_vars => [Decided]_vars
  <2> SUFFICES ASSUME EdgeInv, Next PROVE Decided
    OBVIOUS
  <2>1. ASSUME phase' # "merge", phase # "choose" \/ phase' # "render" PROVE Decided
    BY <2>1
  <2>2. CASE Choose
    <3>1. phase' = "render" /\ \A e \in edges : e.write => e \in edges'
      BY <2>2, ChooseKeeps DEF Choose
    <3> QED BY <3>1
  <2>3. ASSUME NEW list \in HeldLists, Render(list) PROVE Decided
    <3>1. phase = "render" /\ phase' = "merge" /\ edges' = edges /\ held' = Shown(list)
      BY <2>3 DEF Render
    <3>2. \A e, f \in edges : PairOf(e) = PairOf(f) => e = f
      BY <3>1 DEF EdgeInv, OncePerPair
    <3>3. \A e \in edges : \A h \in ToSet(Shown(list)) : PairOf(e) # PairOf(h)
      BY <2>3, ShownNotLive
    <3> QED BY <3>1, <3>2, <3>3
  <2>4. ASSUME NEW raw, NEW deviating, NEW pressed, Detect(raw, deviating, pressed)
        PROVE  Decided
    BY <2>1, <2>4 DEF Detect
  <2>5. ASSUME NEW began, NEW act, Attribute(began, act) PROVE Decided
    BY <2>1, <2>5 DEF Attribute
  <2>6. CASE Correlate \/ Merge \/ Again
    BY <2>1, <2>6 DEF Correlate, Merge, Again
  <2> HIDE DEF Decided
  <2> QED BY <2>2, <2>3, <2>4, <2>5, <2>6 DEF Next
<1> QED BY <1>1, EdgeInvariant, PTL DEF Spec, WriterDecides

\* What a pass keeps: edges between pods, their strengths, an onset for every
\* pod, and at the end the verdict of the merge (merge.py:26-80).
THEOREM PassInvariant == Spec => []PassInv
<1> QED BY InitPassInv, NextPassInv, PTL DEF Spec

\* _forward_impact ends on every merged graph, cycles and parallel ways
\* included, and with the impacts of the best walks (ranking.py:24-37).
THEOREM ImpactAlwaysBest == Spec => []ImpactIsBest
<1>1. EdgeInv /\ PassInv => ImpactIsBest
  <2> SUFFICES ASSUME EdgeInv, PassInv, phase = "done", NEW n \in Nodes(MergedGraph)
               PROVE  ForwardImpact(MergedGraph, n)
                         = [impact |-> BestWalk(MergedGraph, n), frontier |-> <<>>]
    BY DEF ImpactIsBest
  <2>1. OncePerPair
    BY DEF EdgeInv
  <2>2. IsGraph(MergedGraph)
    BY <2>1, MergedGraphIs
  <2> QED BY <2>2, ForwardIsBest
<1> QED BY <1>1, EdgeInvariant, PassInvariant, PTL

\* blast_radius ends too, never predicts the root as its own victim, and no
\* victim more than the best way to it carries (ranking.py:73-90).
THEOREM BlastAlwaysWithin == Spec => []BlastWithinImpact
<1>1. EdgeInv /\ PassInv => BlastWithinImpact
  <2> SUFFICES ASSUME EdgeInv, PassInv, phase = "done", verdict.root # NoPod
               PROVE  /\ BlastRadius(MergedGraph, verdict.root).frontier = <<>>
                      /\ \A b \in verdict.blast :
                            /\ b.pod # verdict.root
                            /\ b.impact <= BestWalk(MergedGraph, verdict.root)[b.pod]
    BY DEF BlastWithinImpact
  <2> DEFINE g == MergedGraph
             root == verdict.root
             impact == BlastRadius(g, root).impact
  <2>1. OncePerPair
    BY DEF EdgeInv
  <2>2. /\ root \in Nodes(g)
        /\ verdict.blast = {[pod |-> n, impact |-> impact[n]] :
                               n \in {m \in Nodes(g) : impact[m] > 0}}
    BY <2>1, VerdictIs
  <2>3. IsGraph(g)
    BY <2>1, MergedGraphIs
  <2> HIDE DEF g, root
  <2>4. /\ BlastRadius(g, root).frontier = <<>> /\ impact[root] = 0
        /\ \A n \in Nodes(g) : impact[n] <= BestWalk(g, root)[n]
    BY <2>2, <2>3, BlastIsWithin
  <2> HIDE DEF impact
  <2>5. ASSUME NEW b \in verdict.blast PROVE b.pod # root /\ b.impact <= BestWalk(g, root)[b.pod]
    <3>1. PICK n \in Nodes(g) : impact[n] > 0 /\ b = [pod |-> n, impact |-> impact[n]]
      BY <2>2
    <3>2. b.pod = n /\ b.impact = impact[n]
      BY <3>1
    <3>3. n # root
      BY <2>4, <3>1
    <3> QED BY <2>4, <3>2, <3>3
  <2> QED BY <2>4, <2>5 DEF g, root
<1> QED BY <1>1, EdgeInvariant, PassInvariant, PTL

\* Whom the verdict blames explains a symptom there is, and the class whose case
\* is shown has an edge leaving it (merge.py:39-53, 62-68, ranking.py:40-70).
THEOREM RootAlwaysExplains == Spec => []RootExplains
<1>1. EdgeInv /\ PassInv => RootExplains
  <2> SUFFICES ASSUME EdgeInv, PassInv, phase = "done", verdict.root # NoPod
               PROVE  /\ Downstream(MergedGraph, verdict.root) \cap Findings # {}
                      /\ verdict.active # "none"
    BY DEF RootExplains
  <2>1. OncePerPair
    BY DEF EdgeInv
  <2> QED BY <2>1, VerdictIs
<1> QED BY <1>1, EdgeInvariant, PassInvariant, PTL

=============================================================================
