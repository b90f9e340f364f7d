----------------------------- MODULE EdgeMemory -----------------------------
(***************************************************************************)
(* The persistent edge memory of the L3 engine: the edge_memory table of   *)
(* correlation/engine/state.py and the statements GraphMemory.observe runs *)
(* on it, one pass at a time.                                              *)
(*                                                                         *)
(* A row is keyed by a directed pair of WORKLOADS; a pass sees PODS, and   *)
(* two pods may belong to one workload (a CronJob pod and the S2 job's pod *)
(* of log-archiver, or two generations during a rollout).  edges is what   *)
(* the open SQLite connection reads, disk what the last commit made        *)
(* durable.  A confidence is a whole number of 1/Scale units; what becomes  *)
(* of a product that is none is up to Rounded.                             *)
(***************************************************************************)
EXTENDS Integers, FiniteSets

CONSTANTS
    Pods,       \* pods the aggregator may report
    Workloads,  \* their workloads
    WorkloadOf, \* [Pods -> Workloads]: stable_workload
    Backbone,   \* shared-disk workload pairs, each in sorted order
    Scale,      \* confidence 1.0
    Alpha, Decay, Show, Hide, Prior, FloorFrac, \* MemoryConfig, times Scale
    Rounded,    \* [0 .. Scale * Scale -> Levels]: how products are rounded
    NoRow,      \* a pair without a row
    Legacy,     \* rows an older schema version may have left behind
    MaxHits,    \* bound: a row with this many hits is confirmed no more
    MaxFaults   \* bound on exceptions and crashes

Pairs == Workloads \X Workloads
Levels == 0 .. Scale
Labels == {"steady", "confirming", "active", "decaying", "hidden"}

\* The columns of a row that the other columns' computation depends on.
Row == [conf : Levels, base : Levels, visible : BOOLEAN, state : Labels,
        hits : Nat]

\* A confidence that the visible flag agrees with.
Latched(r) == /\ r.visible => r.conf >= Hide
              /\ r.conf >= Show => r.visible

\* What a row says about its flag.
Labelled(r) == /\ r.state = "active" => r.visible
               /\ r.state = "decaying" => r.visible
               /\ r.state \in {"confirming", "hidden"} => ~r.visible

\* A row of schema v2: the same update rule without a learned floor.
LegacyRow == {r \in Row : r.base = 0 /\ Latched(r) /\ Labelled(r)}

ASSUME ShapeAssumption ==
    /\ WorkloadOf \in [Pods -> Workloads]
    /\ Backbone \subseteq Pairs
    /\ NoRow \notin Row
    /\ Legacy \subseteq LegacyRow
    /\ MaxHits \in Nat
    /\ MaxFaults \in Nat

ASSUME TuningAssumption ==
    /\ Scale \in Nat \ {0}
    /\ {Alpha, Decay, Show, Hide, Prior, FloorFrac} \subseteq Levels
    /\ Hide <= Show
    /\ Prior < Show
    /\ Prior <= Alpha

\* What any rounding to a grid does, that of IEEE doubles included: it keeps the
\* order and leaves a product that is on the grid as it is.
ASSUME RoundingAssumption ==
    /\ Rounded \in [0 .. Scale * Scale -> Levels]
    /\ \A m, n \in 0 .. Scale * Scale : m <= n => Rounded[m] <= Rounded[n]
    /\ \A c \in Levels : Rounded[Scale * c] = c

VARIABLES
    edges,      \* [Pairs -> Row \cup {NoRow}]: the table as the connection sees it
    disk,       \* the table as of the last commit
    phase,      \* where the service loop is in observe
    present,    \* the pods of this pass: the keys of vectors
    live,       \* the directed pod edges run_pass accepted
    toSeed,     \* backbone pairs _seed_structural still has to visit
    toConfirm,  \* live edges _confirm_edge still has to visit
    toDecay,    \* rows _decay_absent_edges still has to visit
    faults      \* exceptions and crashes so far

vars == <<edges, disk, phase, present, live, toSeed, toConfirm, toDecay, faults>>
pass == <<present, live>>

-----------------------------------------------------------------------------
(* Confidence arithmetic.                                                  *)

\* Mutant: growth that does not slow down towards 1.
GrownUnbounded(c) == c + Alpha

Portion(part, c) == Rounded[part * c]
Grown(c) == c + Portion(Alpha, Scale - c)
Faded(c) == Portion(Scale - Decay, c)
FloorOf(c) == Portion(FloorFrac, c)
Higher(a, b) == IF a >= b THEN a ELSE b

-----------------------------------------------------------------------------
(* What one statement makes of one row.                                    *)

\* Mutants: no retrofit for a row that exists; a label, a threshold and a floor
\* that confirming gets wrong; a flag that decay forgets to look at; a row that
\* decays only while it is shown.
SeededRowNewOnly(r) ==
    IF r = NoRow
    THEN [conf |-> Prior, base |-> Prior, visible |-> FALSE,
          state |-> "steady", hits |-> 0]
    ELSE r

ConfirmedRowWith(r, threshold, isActive(_), floor(_, _)) ==
    LET old == IF r = NoRow
               THEN [conf |-> 0, base |-> 0, visible |-> FALSE, hits |-> 0]
               ELSE r
        c   == IF r = NoRow THEN Alpha ELSE Grown(old.conf)
        lit == old.visible \/ c >= threshold
    IN  [conf |-> c, base |-> floor(old.base, FloorOf(c)), visible |-> lit,
         state |-> IF isActive(lit) THEN "active" ELSE "confirming",
         hits |-> old.hits + 1]
ConfirmedRowAlwaysActive(r) == ConfirmedRowWith(r, Show, LAMBDA lit : TRUE, Higher)
ConfirmedRowShownEarly(r) == ConfirmedRowWith(r, Hide, LAMBDA lit : lit, Higher)
ConfirmedRowFloorReset(r) ==
    ConfirmedRowWith(r, Show, LAMBDA lit : lit, LAMBDA old, new : new)

DecayedRowLatched(r) ==
    LET c == Higher(r.base, Faded(r.conf))
    IN  [r EXCEPT !.conf = c,
                  !.state = IF c <= r.base /\ r.base > 0 THEN "steady"
                            ELSE IF r.visible THEN "decaying" ELSE "hidden"]
DecayedRowShownOnly(r) ==
    LET c   == IF r.visible THEN Higher(r.base, Faded(r.conf)) ELSE r.conf
        lit == r.visible /\ c >= Hide
    IN  [r EXCEPT !.conf = c, !.visible = lit,
                  !.state = IF c <= r.base /\ r.base > 0 THEN "steady"
                            ELSE IF lit THEN "decaying" ELSE "hidden"]

SeededRow(r) ==
    IF r = NoRow
    THEN [conf |-> Prior, base |-> Prior, visible |-> FALSE,
          state |-> "steady", hits |-> 0]
    ELSE [r EXCEPT !.base = Higher(@, Prior)]

ConfirmedRow(r) ==
    LET old == IF r = NoRow
               THEN [conf |-> 0, base |-> 0, visible |-> FALSE, hits |-> 0]
               ELSE r
        c   == IF r = NoRow THEN Alpha ELSE Grown(old.conf)
        lit == old.visible \/ c >= Show
    IN  [conf |-> c, base |-> Higher(old.base, FloorOf(c)), visible |-> lit,
         state |-> IF lit THEN "active" ELSE "confirming",
         hits |-> old.hits + 1]

DecayedRow(r) ==
    LET c   == Higher(r.base, Faded(r.conf))
        lit == r.visible /\ c >= Hide
    IN  [r EXCEPT !.conf = c, !.visible = lit,
                  !.state = IF c <= r.base /\ r.base > 0 THEN "steady"
                            ELSE IF lit THEN "decaying" ELSE "hidden"]

-----------------------------------------------------------------------------
(* What a pass works on.                                                   *)

KeyOf(e) == <<WorkloadOf[e[1]], WorkloadOf[e[2]]>>
PodsPresent == {WorkloadOf[p] : p \in present}
EndpointsPresent(k) == k[1] \in PodsPresent /\ k[2] \in PodsPresent
Seen == {KeyOf(e) : e \in live}
Known(k) == edges[k] # NoRow

\* run_pass keeps one directed edge per unordered pair of pods of the pass.
LiveEdgeSets(ps) ==
    {es \in SUBSET (ps \X ps) :
        \A e \in es : e[1] # e[2] /\ <<e[2], e[1]>> \notin es}

BelowHitBound(es) ==
    \A e \in es : Known(KeyOf(e)) => edges[KeyOf(e)].hits < MaxHits

Quiet == /\ present' = {} /\ live' = {}
         /\ toSeed' = {} /\ toConfirm' = {} /\ toDecay' = {}

\* The pairs some pass may have had an edge for.
Couplable == {KeyOf(e) : e \in {d \in Pods \X Pods : d[1] # d[2]}}

Init ==
    /\ edges \in [Pairs -> Legacy \cup {NoRow}]
    /\ \A k \in Pairs \ Couplable : edges[k] = NoRow
    /\ disk = edges
    /\ phase = "idle"
    /\ present = {} /\ live = {}
    /\ toSeed = {} /\ toConfirm = {} /\ toDecay = {}
    /\ faults = 0

\* The loop hands a pass to observe, whose first step, update_baselines,
\* commits: whatever an aborted pass left on the connection becomes durable.
Begin(ps, es) ==
    /\ phase = "idle"
    /\ ps # {}
    /\ BelowHitBound(es)
    /\ disk' = edges
    /\ phase' = "update"
    /\ present' = ps
    /\ live' = es
    /\ toSeed' = {k \in Backbone : \A i \in {1, 2} :
                                       \E p \in ps : WorkloadOf[p] = k[i]}
    /\ toConfirm' = es
    /\ UNCHANGED <<edges, toDecay, faults>>

Seed(k) ==
    /\ phase = "update"
    /\ k \in toSeed
    /\ edges' = [edges EXCEPT ![k] = SeededRow(@)]
    /\ toSeed' = toSeed \ {k}
    /\ UNCHANGED <<disk, phase, pass, toConfirm, toDecay, faults>>

Confirm(e) ==
    /\ phase = "update"
    /\ toSeed = {}
    /\ e \in toConfirm
    /\ edges' = [edges EXCEPT ![KeyOf(e)] = ConfirmedRow(@)]
    /\ toConfirm' = toConfirm \ {e}
    /\ UNCHANGED <<disk, phase, pass, toSeed, toDecay, faults>>

\* Mutant: missing samples count as absence.
AbsentRowsEverywhere == {k \in Pairs : Known(k) /\ k \notin Seen}

\* The rows _decay_absent_edges fetches and does not skip.
AbsentRows == {k \in Pairs : Known(k) /\ k \notin Seen /\ EndpointsPresent(k)}

SelectAbsent ==
    /\ phase = "update"
    /\ toSeed = {} /\ toConfirm = {}
    /\ phase' = "decay"
    /\ toDecay' = AbsentRows
    /\ UNCHANGED <<edges, disk, pass, toSeed, toConfirm, faults>>

DecayAbsent(k) ==
    /\ phase = "decay"
    /\ k \in toDecay
    /\ edges' = [edges EXCEPT ![k] = DecayedRow(@)]
    /\ toDecay' = toDecay \ {k}
    /\ UNCHANGED <<disk, phase, pass, toSeed, toConfirm, faults>>

Commit ==
    /\ phase = "decay"
    /\ toDecay = {}
    /\ disk' = edges
    /\ phase' = "render"
    /\ UNCHANGED <<edges, pass, toSeed, toConfirm, toDecay, faults>>

\* _render reads the table; the loop publishes the result and sleeps.
Render ==
    /\ phase = "render"
    /\ phase' = "idle"
    /\ Quiet
    /\ UNCHANGED <<edges, disk, faults>>

\* An exception inside observe: the loop swallows it and nothing rolls back.
Fail ==
    /\ phase # "idle"
    /\ faults < MaxFaults
    /\ faults' = faults + 1
    /\ phase' = "idle"
    /\ Quiet
    /\ UNCHANGED <<edges, disk>>

\* The process dies (or SQLite rolls the transaction back by itself).
Crash ==
    /\ faults < MaxFaults
    /\ faults' = faults + 1
    /\ edges' = disk
    /\ phase' = "idle"
    /\ Quiet
    /\ UNCHANGED disk

Work == \/ \E k \in toSeed : Seed(k)
        \/ \E e \in toConfirm : Confirm(e)
        \/ SelectAbsent
        \/ \E k \in toDecay : DecayAbsent(k)
        \/ Commit
        \/ Render

NextPass == \E ps \in SUBSET Pods : \E es \in LiveEdgeSets(ps) : Begin(ps, es)

Next == \/ NextPass
        \/ Work
        \/ Fail
        \/ Crash

Spec == Init /\ [][Next]_vars

\* The loop never stops: a pass that began is worked off, the next one begins.
Fairness == WF_vars(NextPass) /\ WF_vars(Work)
FairSpec == Spec /\ Fairness

-----------------------------------------------------------------------------
(* What /graph shows after a pass.                                         *)

Ends(k) == {k[1], k[2]}

\* Rows _render may add to the live edges: shown or floored, both workloads
\* running, the pair not live already.  (Of two directions it takes the stronger.)
Holdable(k) == /\ Known(k)
               /\ edges[k].visible \/ edges[k].base > 0
               /\ EndpointsPresent(k)
               /\ Ends(k) \notin {Ends(j) : j \in Seen}

-----------------------------------------------------------------------------
(* Properties.                                                             *)

\* Both images of the table hold well-formed rows and a pass works only on
\* pairs and pods of this deployment.
TypeOK ==
    /\ edges \in [Pairs -> Row \cup {NoRow}]
    /\ disk \in [Pairs -> Row \cup {NoRow}]
    /\ phase \in {"idle", "update", "decay", "render"}
    /\ present \in SUBSET Pods
    /\ live \in SUBSET (Pods \X Pods)
    /\ toSeed \in SUBSET Pairs
    /\ toConfirm \in SUBSET live
    /\ toDecay \in SUBSET Pairs
    /\ faults \in Nat

\* The visible flag never disagrees with the confidence: a shown row is at or
\* above Hide and a row at or above Show is shown, in every image of the table,
\* whatever mixture of seeding, confirming, decay, exceptions and crashes made
\* it (state.py:354, 389: each handler re-evaluates the flag on its own).
Hysteresis ==
    \A t \in {edges, disk} : \A k \in Pairs : t[k] # NoRow => Latched(t[k])

\* The state label the dashboard gets agrees with the flag it is served with,
\* although confirming and decay compute the two separately (367, 390-391).
LabelsAgree ==
    \A t \in {edges, disk} : \A k \in Pairs : t[k] # NoRow => Labelled(t[k])

\* When a pass is committed, every witnessed disk pair that runs has its
\* topology floor, and no running pair is believed less than its floor, even
\* if an older schema left it without one (298-326, 385-388).
BackboneUpheld ==
    phase = "render" =>
        \A k \in Pairs : EndpointsPresent(k) =>
            /\ k \in Backbone => Known(k) /\ edges[k].base >= Prior
            /\ Known(k) => edges[k].conf >= edges[k].base

\* Nothing the engine has committed about a pair is ever forgotten: rows stay,
\* and neither a row's learned floor nor its number of hits goes down, whatever
\* fails and whenever the process dies.
FloorNeverForgotten ==
    [][\A k \in Pairs : disk[k] # NoRow =>
            /\ disk'[k] # NoRow
            /\ disk'[k].base >= disk[k].base
            /\ disk'[k].hits >= disk[k].hits]_vars

\* What a committed pass takes away (DESIGN_stateful_engine section 1.2): an
\* accepted edge loses nothing, a missing one with both ends running fades by
\* one step at most, and a pair without data keeps its row as it was.
FadesGently ==
    [][phase = "decay" /\ phase' = "render" =>
        \A k \in Pairs : disk[k] # NoRow =>
            /\ k \in Seen => disk'[k].conf >= disk[k].conf
            /\ disk'[k].conf >= Faded(disk[k].conf)
            /\ ~EndpointsPresent(k) => disk'[k] = disk[k]]_vars

Belief(r) == IF r = NoRow THEN 0 ELSE r.conf

\* What a pair is believed once its topology prior is in place.
PriorBelief(k) ==
    IF disk[k] = NoRow /\ k \in Backbone THEN Prior ELSE Belief(disk[k])

\* What a committed pass adds: one step of the update rule at most, "edge
\* accepted this pass: conf <- conf + alpha (1 - conf)" (the design document's
\* section 1.2, of the pair of workloads).
ConfirmedOncePerPass ==
    [][phase = "decay" /\ phase' = "render" =>
        \A k \in Pairs : Belief(disk'[k]) <= Grown(PriorBelief(k))]_vars

\* At its floor, or so low that the product with the decay rounds to itself.
Settled(k) == Known(k) => \/ edges[k].conf <= edges[k].base
                          \/ Faded(edges[k].conf) = edges[k].conf

\* A pair that is no longer accepted, and whose workloads keep running, goes on
\* fading until it is at its learned floor and stays there, shown or not and
\* whatever passes fail in between; only rounding may keep it above (387).
SettlesAtFloor ==
    \A k \in Pairs :
        <>[](k \notin Seen) /\ []<>(phase = "decay" /\ EndpointsPresent(k))
            => <>[]Settled(k)

\* A coupling without a floor leaves the graph after the contention: it is not
\* held for good.
VanishesWhenQuiet ==
    \A k \in Pairs :
        <>[](k \notin Seen) /\ []<>(phase = "decay" /\ EndpointsPresent(k))
            => <>[](Holdable(k) => edges[k].base > 0)

\* The abstract promise: the committed rows behave as a latch per pair.
Promise == INSTANCE BeliefLatch
    WITH level <- [k \in Pairs |-> Belief(disk[k])],
         floor <- [k \in Pairs |-> IF disk[k] = NoRow THEN 0 ELSE disk[k].base],
         lit   <- [k \in Pairs |-> disk[k] # NoRow /\ disk[k].visible]

PromiseKept == Promise!Spec

=============================================================================
