------------------------------ MODULE Ranking ------------------------------
(***************************************************************************)
(* Root-cause ranking and blast radius (correlation/engine/ranking.py) as  *)
(* operators on a list of edges [src, dst, r], r in quarters.              *)
(*                                                                         *)
(* Impacts are exact: Whole stands for 1.0 and is divisible by the         *)
(* denominator of every product of hops that reaches Cut.                  *)
(***************************************************************************)
EXTENDS Integers, Sequences, FiniteSets, SequencesExt

Whole == 40 * 40 * 40 * 40 * 40
Cut == 3 * (Whole \div 20)
Never == 1000000    \* float("inf"): the onset of a pod without one

\* w * weight * DECAY
Hop(w, r) == (((w \div 4) * r) \div 10) * 7

\* The elements of S in a strict total order (SetToSortSeq, without trying the
\* permutations of S).
InOrder(S, Before(_, _)) ==
    [i \in 1 .. Cardinality(S) |->
        CHOOSE x \in S : Cardinality({y \in S : Before(y, x)}) = i - 1]

\* One arc per ordered pair, in the order of insertion; a later edge of the
\* same pair overwrites the weight (nx.DiGraph.add_edge).
SameArc(e, f) == e.src = f.src /\ e.dst = f.dst
BuildGraph(es) ==
    LET first == InOrder({i \in DOMAIN es : \A j \in 1 .. i - 1 : ~SameArc(es[j], es[i])},
                         LAMBDA i, j : i < j)
        Latest(e) == es[Max({j \in DOMAIN es : SameArc(es[j], e)})]
        Arc(e) == [src |-> e.src, dst |-> e.dst, r |-> Latest(e).r]
    IN  [k \in DOMAIN first |-> Arc(es[first[k]])]

Arcs(g) == ToSet(g)
Nodes(g) == {a.src : a \in Arcs(g)} \cup {a.dst : a \in Arcs(g)}
Sourceless(g, n) == \A a \in Arcs(g) : a.dst # n
Place(g, n) == Min({2 * i : i \in {j \in DOMAIN g : g[j].src = n}}
              \cup {2 * i + 1 : i \in {j \in DOMAIN g : g[j].dst = n}})

-----------------------------------------------------------------------------
(* What the frontier loops are meant to compute.                           *)

Start(root) == [n |-> root, w |-> Whole]

\* S, and its walks one arc longer that stay above Cut.
Longer(g, S) ==
    S \cup {x \in {[n |-> xa[2].dst, w |-> Hop(xa[1].w, xa[2].r)] :
                       xa \in {p \in S \X Arcs(g) : p[2].src = p[1].n}} :
               x.w >= Cut}
\* Where the walks from root lead, and with what weight: 0.7^6 is below Cut.
Walks(g, root) ==
    Longer(g, Longer(g, Longer(g, Longer(g, Longer(g, {Start(root)})))))
BestWalk(g, root) ==
    LET walks == Walks(g, root) \ {Start(root)}
    IN  [n \in Nodes(g) |-> Max({0} \cup {x.w : x \in {y \in walks : y.n = n}})]

\* The nodes a walk from root leads to, and root.
Downstream(g, root) ==
    {n \in Nodes(g) :
        \A S \in SUBSET Nodes(g) :
            root \in S /\ (\A a \in Arcs(g) : a.src \in S => a.dst \in S) => n \in S}

-----------------------------------------------------------------------------
(* The frontier loops.                                                     *)

Untouched(g, root) ==
    [impact |-> [n \in Nodes(g) |-> 0], frontier |-> <<Start(root)>>]

\* The arcs out of the head of the frontier whose targets stay above Cut, by
\* their places in g.
Reaching(g, st) ==
    LET head == Head(st.frontier)
    IN  {i \in DOMAIN g : g[i].src = head.n /\ Hop(head.w, g[i].r) >= Cut}

\* The head is popped and its arcs taken are followed in their order; no two of
\* them have the same target.
Follow(g, st, taken) ==
    LET order == InOrder(taken, LAMBDA i, j : i < j)
        To(i) == [n |-> g[i].dst, w |-> Hop(Head(st.frontier).w, g[i].r)]
    IN  [impact |-> [n \in Nodes(g) |->
                        IF \E i \in taken : g[i].dst = n
                        THEN To(CHOOSE i \in taken : g[i].dst = n).w
                        ELSE st.impact[n]],
         frontier |-> Tail(st.frontier) \o [k \in DOMAIN order |-> To(order[k])]]

\* while frontier: at most n times round.
Iterate(Step(_), start, n) ==
    LET after[k \in 0 .. n] == IF k = 0 THEN start ELSE Step(after[k - 1])
    IN  after[n]

\* Mutant: the first path to a node counts, not the best.
ImprovingFirst(g, st) == {i \in Reaching(g, st) : st.impact[g[i].dst] = 0}
Improving(g, st) ==
    {i \in Reaching(g, st) : Hop(Head(st.frontier).w, g[i].r) > st.impact[g[i].dst]}
Improve(g, st) ==
    IF st.frontier = <<>> THEN st ELSE Follow(g, st, Improving(g, st))
\* No walk is followed twice: the loop has ended when as many are popped as
\* there are.
ForwardImpact(g, root) ==
    Iterate(LAMBDA st : Improve(g, st), Untouched(g, root), Cardinality(Walks(g, root)))

\* Mutant: seen starts empty.
UnseenAnyone(g, root, st) == {i \in Reaching(g, st) : st.impact[g[i].dst] = 0}
\* nxt is not in seen yet: neither the root nor in the result.
Unseen(g, root, st) ==
    {i \in Reaching(g, st) : g[i].dst # root /\ st.impact[g[i].dst] = 0}
Visit(g, root, st) ==
    IF st.frontier = <<>> THEN st ELSE Follow(g, st, Unseen(g, root, st))
\* Each node is seen once.
BlastRadius(g, root) ==
    Iterate(LAMBDA st : Visit(g, root, st), Untouched(g, root), Cardinality(Nodes(g)))

-----------------------------------------------------------------------------
(* The ranking.                                                            *)

\* Seeds that are on the graph, or else every node.
SeedSet(g, seeds) ==
    IF seeds \cap Nodes(g) = {} THEN Nodes(g) ELSE seeds \cap Nodes(g)

\* Scores times two, so that UPSTREAM_PENALTY stays whole.
Score(g, seeds, n) ==
    LET impact == ForwardImpact(g, n).impact
        explained == MapThenSumSet(LAMBDA s : impact[s], SeedSet(g, seeds))
        itself == IF n \in SeedSet(g, seeds) /\ Sourceless(g, n) THEN Whole ELSE 0
    IN  (explained + itself) * (IF Sourceless(g, n) THEN 2 ELSE 1)

\* The candidates in the order they are served: score, onset, node order.
Ranked(g, seeds, onset) ==
    LET scored == {[pod |-> n, score |-> Score(g, seeds, n)] : n \in Nodes(g)}
        Before(x, y) ==
            \/ x.score > y.score
            \/ x.score = y.score /\ onset[x.pod] < onset[y.pod]
            \/ /\ x.score = y.score /\ onset[x.pod] = onset[y.pod]
               /\ Place(g, x.pod) < Place(g, y.pod)
    IN  InOrder({x \in scored : x.score > 0}, Before)

=============================================================================
