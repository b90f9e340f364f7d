------------------------------ MODULE Verdict ------------------------------
(***************************************************************************)
(* From vectors to a verdict: one run_pass of one resource class           *)
(* (engine/pipeline.py, gate.py, lagcorr.py, service._witness_for), what   *)
(* the edge memory adds to it (state._render) and the merge with the other *)
(* class (merge.py).                                                       *)
(*                                                                         *)
(* A vector is what the detectors and the correlation say of it: its       *)
(* onsets, whether its tail leaves the pod's band, and per pair the peak   *)
(* of each direction's lag profile.  Times are samples, r is in quarters.  *)
(***************************************************************************)
EXTENDS Ranking

CONSTANTS
    Order,      \* the pods with vectors, in the order of their names
    Disk,       \* those of STORAGE workloads
    Writers,    \* those with a vector of the source signal
    OnsetLists, \* what cusum_onsets may return: [at, z] in order of time
    Lags,       \* pair |-> [fwd, rev], each the peak [r, lag, supported]
    Pushes,     \* the peaks of a write -> stall profile
    Elsewhere,  \* what the other class may have rendered: [edges, onset]
    HeldLists,  \* what the edge memory may add
    HotSets,    \* the pods that may stall at the same time
    NoPod

Pods == {Order[i] : i \in DOMAIN Order}
Rank(p) == CHOOSE i \in DOMAIN Order : Order[i] = p

ASSUME VerdictAssumption ==
    /\ Order \in Seq(Pods)
    /\ \A i, j \in DOMAIN Order : Order[i] = Order[j] => i = j
    /\ Disk \subseteq Pods /\ Writers \subseteq Pods /\ Writers # {}
    /\ HotSets \subseteq SUBSET Pods
    /\ OnsetLists \subseteq Seq([at : Nat, z : Nat])
    \* A correlation is at most 1 in size; what is rendered is not negative.
    /\ \A l \in Lags : l.fwd.r \in -4 .. 4 /\ l.rev.r \in -4 .. 4
    /\ \A p \in Pushes : p.r \in -4 .. 4
    /\ HeldLists \subseteq Seq([src : Pods, dst : Pods, r : 0 .. 4, write : {FALSE}])
    /\ Elsewhere \subseteq [edges : Seq([src : Pods, dst : Pods, r : 0 .. 4, write : BOOLEAN]),
                           onset : [Pods -> Nat]]
    /\ NoPod \notin Pods

RPeak == 3      \* the least quarters above R_PEAK = 0.6
RSrc == 2       \* R_SRC = 0.5
Tolerance == 2  \* TEMPORAL_TOL_S

VARIABLES
    signal,     \* the class of this pass: "io" or "cpu"
    other,      \* the other class' rendered graph
    phase,
    hot,        \* the pods in psi_copressure
    onset,      \* onset_s: Never for a pod that is not a finding
    edges,      \* accepted so far: [src, dst, r, write]
    held,       \* rendered from memory
    verdict     \* [root, blast, active] of the merged graph

vars == <<signal, other, phase, hot, onset, edges, held, verdict>>

Active == {p \in Pods : onset[p] # Never}
NoVerdict == [root |-> NoPod, blast |-> {}, active |-> "none"]

-----------------------------------------------------------------------------
(* The physical witness.                                                   *)

\* _witness_for: one disk domain, one node; hot pods stall together.
Kinds(p, q) ==
    (IF {p, q} \subseteq hot THEN {"psi"} ELSE {})
    \cup (IF signal = "io" THEN IF {p, q} \subseteq Disk THEN {"pvc"} ELSE {}
                           ELSE {"node"})

\* Mutant: co-pressure admits an edge.
CouplesOnPressure(p, q) == Kinds(p, q) \cap {"ebpf", "pvc", "psi"} # {}
Couples(p, q) == Kinds(p, q) \cap {"ebpf", "pvc"} # {}
CouplesSource(p, q) == Kinds(p, q) \cap {"ebpf", "pvc", "node"} # {}

-----------------------------------------------------------------------------
(* Detection.                                                              *)

Strongest(ons) ==
    LET z == Max({ons[i].z : i \in DOMAIN ons})
    IN  ons[SelectInSeq(ons, LAMBDA o : o.z = z)]
Distance(a, b) == IF a >= b THEN a - b ELSE b - a
NearestTo(centre, ons) ==
    LET d == Min({Distance(ons[i].at, centre) : i \in DOMAIN ons})
    IN  ons[SelectInSeq(ons, LAMBDA o : Distance(o.at, centre) = d)]

\* The strongest onset among pods coupled to another anomalous pod, if any.
Centre(raw, found) ==
    LET coupled == {p \in found : \E q \in found \ {p} : Couples(p, q)}
        pool == IF coupled = {} THEN found ELSE coupled
        z == Max({Strongest(raw[p]).z : p \in pool})
        first == CHOOSE p \in pool :
                    /\ Strongest(raw[p]).z = z
                    /\ \A q \in pool : Strongest(raw[q]).z = z => Rank(p) <= Rank(q)
    IN  Strongest(raw[first]).at

-----------------------------------------------------------------------------
(* The gate.                                                               *)

Abs(r) == IF r >= 0 THEN r ELSE -r

\* Forward wins ties.
BestDirected(lags) ==
    IF Abs(lags.rev.r) > Abs(lags.fwd.r) THEN "rev" ELSE "fwd"

\* Only checkable when both onsets exist.
InTime(src, dst, lag) ==
    {src, dst} \subseteq Active =>
        /\ onset[src] <= onset[dst] + Tolerance
        /\ lag > 0 => onset[dst] - onset[src] <= 4 * lag + Tolerance

AcceptEdge(src, dst, peak) ==
    /\ peak.r >= RPeak /\ peak.supported
    /\ Couples(src, dst)
    /\ InTime(src, dst, peak.lag)

Edge(src, dst, r, write) == [src |-> src, dst |-> dst, r |-> r, write |-> write]
PairOf(e) == {e.src, e.dst}

\* best_directed and accept_edge of one pair, a before b.
PsiEdges(a, b, lags) ==
    LET way == BestDirected(lags)
        e == IF way = "fwd" THEN Edge(a, b, lags.fwd.r, FALSE)
                            ELSE Edge(b, a, lags.rev.r, FALSE)
    IN  IF AcceptEdge(e.src, e.dst, lags[way]) THEN {e} ELSE {}

WriterEdge(w, v, peak, began) ==
    /\ peak.r >= RSrc /\ peak.supported
    /\ began <= onset[v] + Tolerance

-----------------------------------------------------------------------------
(* The steps of the pass.                                                  *)

Init ==
    /\ signal \in {"io", "cpu"}
    /\ other \in Elsewhere
    /\ phase = "detect" /\ hot = {}
    /\ onset = [p \in Pods |-> Never]
    /\ edges = {} /\ held = <<>>
    /\ verdict = NoVerdict

\* A pod is a finding if it has an onset and its tail deviates from its band;
\* its onset is the one nearest to the disturbance.
Detect(raw, deviating, pressed) ==
    /\ phase = "detect"
    /\ hot' = pressed
    /\ LET found == {p \in deviating : raw[p] # <<>>}
       IN  onset' = [p \in Pods |->
                        IF p \in found
                        THEN NearestTo(Centre(raw, found), raw[p]).at
                        ELSE Never]
    /\ phase' = "correlate"
    /\ UNCHANGED <<signal, other, edges, held, verdict>>

PsiPairs ==
    {pair \in Pods \X Pods : /\ Rank(pair[1]) < Rank(pair[2])
                             /\ Couples(pair[1], pair[2])
                             /\ Active # {}}

Correlate ==
    /\ phase = "correlate"
    /\ \E lags \in [PsiPairs -> Lags] :
           edges' = UNION {PsiEdges(pair[1], pair[2], lags[pair]) :
                               pair \in DOMAIN lags}
    /\ phase' = "attribute"
    /\ UNCHANGED <<signal, other, hot, onset, held, verdict>>

\* The pairs of the source loop that get as far as _writer_edge.
Suspects(began, act) ==
    {pair \in Writers \X Active :
        /\ pair[1] # pair[2]
        /\ began[pair[1]] # Never
        /\ CouplesSource(pair[1], pair[2])
        /\ act[pair[1]] > act[pair[2]]}

\* write_act.get(v, 0.0) of a pod without a write vector.
Activity == {act \in [Pods -> 0 .. 1] : \A p \in Pods \ Writers : act[p] = 0}

Attribute(began, act) ==
    /\ phase = "attribute"
    /\ \E peak \in [Suspects(began, act) -> Pushes] :
           edges' = edges \cup
               {Edge(pair[1], pair[2], peak[pair].r, TRUE) :
                   pair \in {s \in DOMAIN peak :
                                WriterEdge(s[1], s[2], peak[s], began[s[1]])}}
    /\ phase' = "choose"
    /\ UNCHANGED <<signal, other, hot, onset, held, verdict>>

\* Mutant: the stronger correlation wins.
PreferredByStrength(e, f) == e.r > f.r
Preferred(e, f) == \/ e.write /\ ~f.write
                   \/ e.write = f.write /\ e.r > f.r

\* One edge per unordered pair.
Choose ==
    /\ phase = "choose"
    /\ edges' = {e \in edges :
                    ~\E f \in edges \ {e} : PairOf(f) = PairOf(e) /\ Preferred(f, e)}
    /\ phase' = "render"
    /\ hot' = {}
    /\ UNCHANGED <<signal, other, onset, held, verdict>>

\* The remembered edges between pairs that are not live, in their order.
Shown(list) ==
    LET kept == InOrder({k \in DOMAIN list : \A e \in edges : PairOf(e) # PairOf(list[k])},
                        LAMBDA j, k : j < k)
    IN  [i \in DOMAIN kept |-> list[kept[i]]]

\* _render
Render(list) ==
    /\ phase = "render"
    /\ held' = Shown(list)
    /\ phase' = "merge"
    /\ UNCHANGED <<signal, other, hot, onset, edges, verdict>>

-----------------------------------------------------------------------------
(* The merge.                                                              *)

\* sorted by (src, dst)
ByName(e, f) == \/ Rank(e.src) < Rank(f.src)
                \/ e.src = f.src /\ Rank(e.dst) < Rank(f.dst)
Rendered == [edges |-> InOrder(edges, ByName) \o held, onset |-> onset]

\* The two rendered graphs in the order of SIGNALS.
PerSignal == IF signal = "io" THEN <<Rendered, other>> ELSE <<other, Rendered>>
MergedEdges == PerSignal[1].edges \o PerSignal[2].edges
Found(g) == {p \in Pods : g.onset[p] # Never}
Findings == Found(PerSignal[1]) \cup Found(PerSignal[2])

\* {f["pod"]: f["onset_s"] for f in findings}: the later class wins.
MergedOnset ==
    [p \in Pods |-> IF p \in Found(PerSignal[2]) THEN PerSignal[2].onset[p]
                                                 ELSE PerSignal[1].onset[p]]

ActiveClass(root) ==
    IF \E i \in DOMAIN PerSignal[1].edges : PerSignal[1].edges[i].src = root
    THEN "io"
    ELSE IF \E i \in DOMAIN PerSignal[2].edges : PerSignal[2].edges[i].src = root
    THEN "cpu" ELSE "none"

VerdictOf(g, seeds) ==
    LET ranking == Ranked(g, seeds, MergedOnset)
    IN  IF ranking = <<>> THEN NoVerdict
        ELSE LET root == ranking[1].pod
                 impact == BlastRadius(g, root).impact
             IN  [root |-> root,
                  blast |-> {[pod |-> n, impact |-> impact[n]] :
                                n \in {m \in Nodes(g) : impact[m] > 0}},
                  active |-> ActiveClass(root)]

\* Mutant: the guard state._render has, without merge.py's.
MergedSeededByAnything ==
    LET g == BuildGraph(MergedEdges)
    IN  IF g # <<>> /\ Findings # {} THEN VerdictOf(g, Findings) ELSE NoVerdict

Merged ==
    LET g == BuildGraph(MergedEdges)
        seeds == Findings \cap Nodes(g)
    IN  IF seeds # {} THEN VerdictOf(g, seeds) ELSE NoVerdict

Merge ==
    /\ phase = "merge"
    /\ verdict' = Merged
    /\ phase' = "done"
    /\ UNCHANGED <<signal, other, hot, onset, edges, held>>

\* The loop comes round to the next class.
Again ==
    /\ phase = "done"
    /\ phase' = "detect"
    /\ signal' \in {"io", "cpu"} /\ other' \in Elsewhere
    /\ onset' = [p \in Pods |-> Never]
    /\ edges' = {} /\ held' = <<>> /\ verdict' = NoVerdict
    /\ UNCHANGED hot

Times == UNION {{l[i].at : i \in DOMAIN l} : l \in OnsetLists}
Began == {b \in [Pods -> Times \cup {Never}] : \A p \in Pods \ Writers : b[p] = Never}

Next ==
    \/ \E raw \in [Pods -> OnsetLists], deviating \in SUBSET Pods, pressed \in HotSets :
           Detect(raw, deviating, pressed)
    \/ Correlate
    \/ \E began \in Began, act \in Activity : Attribute(began, act)
    \/ Choose
    \/ \E list \in HeldLists : Render(list)
    \/ Merge
    \/ Again

Spec == Init /\ [][Next]_vars

-----------------------------------------------------------------------------
(* Properties.                                                             *)

\* No edge without a physical reason: in an undisturbed class there is none;
\* two pods that only stall together are never linked; sharing the node alone
\* admits a writer that pushes a victim with findings, and nothing else; and a
\* cause does not begin after its effect (gate.py:73-92, pipeline.py:150-192).
EdgesWitnessed ==
    \A e \in edges :
        /\ Active # {}
        /\ e.src # e.dst
        /\ PairOf(e) \subseteq Disk \/ signal = "cpu"
        /\ signal = "cpu" => e.write
        /\ e.write => e.src \in Writers /\ e.dst \in Active
        /\ ~e.write /\ PairOf(e) \subseteq Active => onset[e.src] <= onset[e.dst] + Tolerance

\* A pair has one direction, and the writer's evidence decides it: no accepted
\* source edge gives way to a correlation of two victims, however strong, nor
\* to what memory holds for the pair (pipeline.py:193-200, state.py:443).
WriterDecides ==
    [][/\ phase = "choose" /\ phase' = "render" =>
              {e \in edges : e.write} \subseteq edges'
       /\ phase' = "merge" =>
              /\ \A e, f \in edges' : PairOf(e) = PairOf(f) => e = f
              /\ \A e \in edges' : \A h \in ToSet(held') : PairOf(e) # PairOf(h)]_vars

MergedGraph == BuildGraph(MergedEdges)

\* Whom the verdict blames explains a symptom there is: a pod with findings is
\* downstream of the root in the merged graph (or is the root itself), and the
\* class whose case is shown has an edge leaving it.  A finding off the graph
\* does not make the backbone guilty (merge.py:39-53, 62-68).
RootExplains ==
    phase = "done" /\ verdict.root # NoPod =>
        /\ Downstream(MergedGraph, verdict.root) \cap Findings # {}
        /\ verdict.active # "none"

\* The frontier loop of _forward_impact ends, having followed no walk twice, and
\* its impacts are those of the best walks, in a graph with cycles and parallel
\* ways (ranking.py:26-37).
ImpactIsBest ==
    phase = "done" =>
        LET g == MergedGraph
        IN  \A n \in Nodes(g) :
                ForwardImpact(g, n) = [impact |-> BestWalk(g, n), frontier |-> <<>>]

\* The loop of blast_radius ends too; the predicted victims are pods the root has
\* an impact on, never the root, and no prediction is stronger than the best way
\* to the victim (ranking.py:73-90).
BlastWithinImpact ==
    phase = "done" /\ verdict.root # NoPod =>
        LET g == MergedGraph
            best == BestWalk(g, verdict.root)
        IN  /\ BlastRadius(g, verdict.root).frontier = <<>>
            /\ \A b \in verdict.blast :
                   b.pod # verdict.root /\ b.impact <= best[b.pod]

=============================================================================
