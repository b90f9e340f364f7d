# Formal models of the causal AIOps engine

TLA+ modules for the SiliconKnights edge AIOps system: what its stateful parts
do, checked with TLC on small instances and, for the core, proved with TLAPS
for every value of the constants. Paths are relative to the repository's `src/`.

## 1. The system

    factory workloads --PSI, usage--> Prometheus --> L2 aggregator (Go)
         ^                                             | /window, /events
         | S1 flush, S2 job, S5 leak                   v
    L4 API (FastAPI, thread pool) <---- /graph ---- L3 engine (Python)
         |  narrator + local model                     | one SQLite memory
         v                                             v per resource class
    dashboard, soak recorder                     edges, cases, baselines

| Component | State it keeps | Operations | What is hard | What makes it correct |
|---|---|---|---|---|
| Edge memory, `correlation/engine/state.py` | table `edge_memory`: confidence, learned floor, visible flag, label, hits per directed pair of workloads | seed the disk backbone, confirm, decay, commit, render | one pass is many statements on a connection that nothing rolls back after an exception; several pods share a workload; rows of older schemas | flag, label and confidence agree; floors are never lost; absence costs one step, missing data nothing |
| Case library, same file | `cases`, `case_observations` | fingerprint, nearest case, fold, variant, novel, log | order of rows decides ties; a chain of variants; half-committed promotions | families have founders; cases do not multiply; the archive is permanent |
| Baselines, same file | `baselines`: median, MAD, count per workload | update, threshold | storms while it matures; several pods per workload | a storm is not learned |
| Engine service, `correlation/service.py` | one memory per resource class, `_graph`, `_lock` | fetch, observe each class, merge, publish, report an error, serve | loop against single-threaded server; failure of one class; restart | what is served is committed, whole and of one window; the verdict catches up |
| Pass, gate, ranking, merge (`correlation/engine/`) | none | pure functions of vectors and witnesses | several storms in one window; seeds off the graph; two walks of one graph | no edge without a physical witness; the writer's evidence decides; the root explains a symptom |
| Detectors, forecast (`correlation/engine/`) | none | EWMA, CUSUM, least squares | numeric | - |
| Aggregator, `aggregator/main.go` | ring per series, 256 recent events | poll, `/window`, `/events`, post to L3 | RWMutex held while encoding to a client; series never deleted; old events | rings bounded and in time order |
| Narrator, `api/main.py` | `_NARR_CACHE` | narrative | pool threads share the cache; the model takes 30 s | every thread gets a sentence about the verdict it fetched |
| Scenario console, `api/main.py` | none (Kubernetes objects) | trigger, reset of S1, S2, S5 | fixed job name, asynchronous deletion, two users | a success means the scenario runs |
| cooling-monitor | FLUSH flag file | POST /flush, touch, heartbeat, fio | flag between two threads and a shell | a trigger leads to a storm |
| safety-interlock, critical-control-relay | last beat, tripped | beat, tick, state | check-then-act in two goroutines, MQTT reconnects | lost heartbeat trips, a beat re-arms |
| telemetry-ingest | bounded queue | enqueue or drop, batch, commit | database outage with a batch in hand | rows committed at most once |
| alert-dispatcher, notify-gateway | none | poll, send with 3 attempts | a timeout is not a failure to deliver | at least one attempt per alert |
| Other workloads, dashboard, soak recorder, deployment, tools | files, Kubernetes objects | | | |

The parts interact by polling: the engine polls the aggregator every 10 s, the
API polls the engine per request, the dashboard polls the API every 5 s. Nothing
is pushed except the aggregator's optional POST of events, for which the engine
has no handler. The only durable state is SQLite; the only shared mutable state
inside a process is `_graph` (under `_lock`), `_NARR_CACHE` (unprotected), the
aggregator's ring and events (RWMutexes), the FLUSH file, and the interlock's
two atomics.

`PROJECT.json` lists every component with its status, and under `hazards` what
can go wrong in this code that a test would hardly reach, each at its line.

## 2. Modules

| Module | Models | Lines |
|---|---|---|
| `EdgeMemory` | the edge table and every statement `observe` runs on it | state.py 32-36, 59-73, 101-222, 250-281, 298-398, 428-464 |
| `BeliefLatch` | abstract: what the edge memory promises per pair | - |
| `CaseLibrary` | promotion of verdicts into cases and families | state.py 51-56, 127-155, 478-611 |
| `Narrator` | GET /api/narrative in a thread pool | api/main.py 315-410 |
| `EngineService` | the loop, its error path, the server, restarts | service.py 74-106, 178-246 |
| `Ranking` | root-cause ranking and blast radius, as operators | ranking.py |
| `Verdict` | one pass from onsets to the merged verdict, over `Ranking` | pipeline.py, gate.py, lagcorr.py 45-60, merge.py, service.py 153-204, state.py 435-466 |
| `Aggregator` | poller, rings, events, RWMutexes, and the engine's `build_inputs` as their reader | aggregator/main.go 34-48, 181-314, service.py 108-150 |
| `Scenarios` | scenario console, the S2 Job, cooling-monitor's flag | api/main.py 62-110, 544-584, cooling-monitor/main.py, scenarios/S1/reset.sh |
| `FactoryBus` | relay, interlock and ingest over the MQTT broker | safety-interlock, critical-control-relay, telemetry-ingest |
| `EdgeMemoryProofs`, `CaseLibraryProofs`, `EngineServiceProofs`, `NarratorProofs`, `VerdictProofs`, `AggregatorProofs`, `ScenariosProofs`, `FactoryBusProofs` | proofs about the module of that name | - |
| `MC...` | instances for TLC | - |

How they fit together: `Aggregator` produces what a pass reads (its `vectors`);
`Verdict` turns vectors and held edges into edges, findings and a root;
`EdgeMemory` and `CaseLibrary` are what `observe` does with them; `EngineService`
is the loop around a pass and says which pass is served; `Narrator` reads what is
served. `Scenarios` and `FactoryBus` are the factory the engine watches. The
composition is by interface: what one module leaves open as an input (the live
edges of a pass, the rendered graph of the other class, the window of a poll) is
what another one constrains.

### EdgeMemory

`edges` is the table as the open connection reads it, `disk` the table of the
last commit. A pass goes through `phase`: `Begin` (the loop calls `observe`;
`update_baselines` commits first, which is why an aborted pass's leftovers
become durable here), one `Seed` per backbone pair, one `Confirm` per accepted
pod edge, `SelectAbsent` (the SELECT of the decay), one `DecayAbsent` per row,
`Commit`, `Render`. The order within each of these loops is that of a Python set,
a list or a table without ORDER BY, so it is left open. `Fail` is an exception anywhere in `observe`: the loop swallows
it and the transaction stays open. `Crash` goes back to `disk`.

Confidences are whole multiples of 1/`Scale`; how a product that is none is rounded is
a parameter, `Rounded`, of which only `RoundingAssumption` is assumed: it keeps the order
and leaves products on the grid as they are, as the IEEE doubles of the code do. The
instance rounds to nearest even. A confidence so low that its product with the decay
rounds to itself stays where it is, in the code as in the model: with a floor of 0 a
belief ends at the least such number and not at 0, which `Settled` allows. The code
treats values within 1e-9 of the floor as at the floor.
`r`, `lag_s`, `evidence` and time stamps are data no property depends on.
`LiveEdgeSets` allows any set of directed pod edges with one direction per pair,
which is all that `run_pass` guarantees (pipeline.py:193-200, and 151-167 when
it has no source vectors). `Backbone` holds the disk pairs in the sorted order
in which `_seed_structural` inserts them.

`PromiseKept` is the refinement: under the mapping at the end of the module every
behaviour of `EdgeMemory` is one of `BeliefLatch`, a Schmitt trigger per pair whose
floor only rises, moved by commits.

### CaseLibrary

A case's identity is its fingerprint (`stressors`, `victims`, `motif`,
`witness`), of which the code's id is a SHA-1; the model takes distinct
fingerprints to have distinct ids. `cases` is a sequence because `SELECT * FROM
cases` decides ties by row order. Similarity is computed in integers
(hundredths of a `Unit`; 60 makes every Jaccard quotient of the instance exact).
`Fold`, `Branch` and `Open` are recurrence, variant and novel; `Log` writes the
observation; `last` is a history variable. Lead times are averaged data.

### Narrator

Each line of the handler that touches the cache is a step of a thread. A text
stands for the graph it describes, so serving the wrong sentence is visible as
serving the wrong graph. `Publish` is external: the engine's `/graph` may change to any
graph at any time, `Broken` being what a failed pass publishes. So is `Outage`: while the
model server is up every call of it is answered, during an outage any or none. A cache
entry is the text with its `source`, which is what a later poll of the same verdict is
told.

### EngineService

A window is the number of the aggregator poll it was read after, and what a
memory knows is the last window it committed; this is enough to state that what
is served is durable, whole and current. `Publish` and `Report` take the lock
and give it back in one step, `Lock` .. `Drain` hold it for as long as the
client reads. `Raise` is an exception anywhere in the `try`, before or after a
commit; the classes in `poisoned`, any of the `Corruptible` ones, raise in every
pass (a corrupt database, say). Clients connect, wait in the backlog, ask, read or
leave, at any time, or connect and never say anything; `shown` remembers the newest window of each class any of them
was sent.

### Verdict and Ranking

A vector is what the detectors and the lag profiles say of it: onsets with a
strength, whether its tail leaves the learned band, and per pair the peak of both
directions. Correlations are quarters, times are samples of 5 s. The steps are the
paragraphs of `run_pass`: `Detect` (findings, and for each the onset nearest to the
event centre), `Correlate` (victim pairs, through `accept_edge`), `Attribute` (the
writer's edges), `Choose` (one edge per pair); then `Render` adds what the memory
holds for pairs that are not live, and `Merge` unites the class with the rendered
graph of the other one, ranks and picks the class whose case is shown.

`Ranking` computes impacts exactly: `Whole` is divisible by every denominator that
a product of hops can have before it falls below `CUT` (five hops). `Walks` are the
ways from a node that stay above the cut, by where they lead and with what weight;
`BestWalk`, the best of them, is the reference. A round of a `while frontier` loop pops
the head and follows its arcs (`Improve`, `Visit`); once the frontier is empty a round
does nothing. `_forward_impact` is given as many rounds as there are walks, and
`blast_radius` as many as there are nodes: the properties say that the frontier is empty
by then, so these bounds cut nothing off.

What the code does beside this and the model leaves out, because the served root and
blast radius do not depend on it: `run_pass` ranks its own edges with breach pods as seeds, which
only chooses the root of a promoted case; `_render` ranks again, with all findings as
seeds, and `merge_graphs` discards that ranking. In the model a workload has one pod
(live pairs are matched by workload in `_render`); eBPF edges do not occur, as
`_witness_for` never fills them.

### Aggregator

A sample or event is its age in polls, up to `Horizon`. The poller queries one signal
after the other (`Query`: the answer has any number of rows, up to `Rows` of the signal,
for each running pod, and none if the query fails), adds each row under the write lock
(`CallLock`, `Add`), and after the pack emits the breaches one by one (`CallLock`,
`Emit`). `Rows` is 1 for a query that sums by pod; the pack's `cpu_throttle`, `net_rx`,
`net_tx` and `restarts` do not, and all rows of a pod end up in one series. Handlers hold
the read lock while they encode (`Get` .. `Finish`, `HangUp`); once the writer has called
`Lock` Go's RWMutex keeps new readers out (`WriterWaits`), and its `Unlock` lets those in
that queued (`Admit`). The engine is a reader that fetches `/window`, then `/events`, and
makes vectors of the `Wanted` series with enough samples that are not stale and that
cover enough points of the grid ending at the newest sample, by sample-and-hold
(`Usable`).

### Scenarios

A call on S2 is a sequence of requests to Kubernetes, each of which may fail before or
after it took effect (`Fail`); a deleted Job goes at once or stays until it is
collected, possibly for ever. `settled` is the last S2 call if it succeeded and met no
other one; `owed` says that an S1 trigger was acknowledged and no storm began since.
cooling-monitor's main thread sees the flag, removes it, and runs fio in separate steps; a reset
script between the first two makes `os.remove` raise, which ends the process.
The console's own reset of S1 does not touch the flag and has no action.

### FactoryBus

The interlock's callback and ticker are two goroutines on two atomics; each load and
store is a step. `silence` is the time since the last stored beat in seconds. Both MQTT
clients subscribe once after connecting, with clean sessions: a broker restart
empties `subs` and only a restart of the client's pod subscribes again. The ingest's
writer takes a batch, writes and commits, counts; a database failure hits before or after the
commit and forgets the batch. A reading is a delivery: gateway and ingest use QoS 1, so a
reading sent twice is two deliveries and two rows, which neither the code nor
`ReadingsOnce` excludes; the property is about what the ingest makes of what it is handed.

## 3. Runs

| Run | Instance | Shows |
|---|---|---|
| `EdgeMemory` | 2 pods, 2 workloads, 1 backbone pair, legacy rows, twentieths, 3 hits per row, 2 faults, fair | `Hysteresis`, `LabelsAgree`, `BackboneUpheld`, `FloorNeverForgotten`; `FadesGently`: one pass takes one decay step at most from a pair, nothing without data; `SettlesAtFloor`, `VanishesWhenQuiet`; the refinement `PromiseKept` |
| `EdgeMemoryOnePass` | two pods of one workload | violated: one pass, two update steps |
| `CaseLibrary` | 7 verdicts of the storage quartet, 0 to 2 migrated cases, 4 promoted passes, 1 fault | families, separation, accounting, permanence |
| `CaseLibraryRecurrence` | no faults | violated: an incident that lasts recurs |
| `Narrator` | 2 threads, 7 graphs of 3 signatures and 3 rootless ones, outages, fair | `RepliesMatch`, `CacheBounded`; `OutageEnds`: with the model back for good, the template leaves the replies for good |
| `NarratorRace` | same | violated: KeyError in a thread |
| `NarratorSteady` | same | violated: an engine failure is narrated as steady |
| `EngineService` | 2 classes, the second perhaps raising in every pass, 2 clients, 2 polls, 1 fault, fair | `ServedIsDurable`, `WholePass`, `CatchesUp`, `NobodyWaitsForever`, `EarlierSignalsLearn` |
| `Verdict` | 3 disk pods and vision-qc, 2 writers, 4 onset lists, 3 lag profiles per pair, 2 peaks per writer, 3 other graphs, 2 held lists | `EdgesWitnessed`, `WriterDecides`, `RootExplains`, `ImpactIsBest`, `BlastWithinImpact` |
| `Aggregator` | a signal with 2 rows for its pod and one with a rule whose pod leaves, rings of 2, 1 event, engine and a viewer, fair | `RingInOrder`, `EventsBacked`, `LocksPassOn`, `GonePodsDrop` |
| `Scenarios` | 2 users, 4 calls, resets or crashes, 2 polls for the old Job, fair | `AloneTakesEffect`, `CallsReturn`, `ArmedStormComes` |
| `FactoryBus` | limit 2 s, queue and batch of 2, 4 readings, 3 faults, fair | `ReadingsOnce`, `SilenceTrips`, `BeatsRearm` |

Bounds. `MaxHits` stops a row from being confirmed for ever; a row needs two
confirmations to be shown (0.4, 0.64), so 3 covers growth, showing, fading
and a second growth. `MaxFaults` 2 lets an aborted pass meet a crash. Twentieths
keep the configured values (0.4, 0.1, 0.6, 0.25, 0.2, 0.4) exact. Four promoted passes, on an empty library or after two migrated cases, are
enough for a founder, a variant, a variant of the variant, a fold and a novel
case to meet; quiet passes are not counted. Two threads are
enough for the cache: each step concerns one signature and the clear affects all.
Two polls give an older and a newer window, which is what the loop, the error
path and a restart can confuse; one class that learns and one that raises are what
its error path can tell apart. In `Verdict` the onset lists contain an early and a late
storm and a pod that has both; the peaks contain a stronger reverse direction, an
anticorrelation, a spike without support, and a tie; the held lists and the other
class's graphs close cycles and give a second way to a pod; the other class has a
finding off the graph, a backbone without findings, or a source edge with its victim.
The ages of `Aggregator` end past what `Slack` and the grid can tell apart, which leaves
what is older than both alike. A ring of 2 makes every append but the first two one at the
limit; the two rows of a poll fill it, so what `RingInOrder` says of a third sample of a
poll rests there on the signal with one row, and on the proof for any capacity and number of
rows. One of the two signals has a rule. The grid of one point leaves `Usable` to the age
of the last sample, which is what drops a pod.
Four calls let two users overlap, a third call follow, and a crash or reset meet an S1
trigger. A limit of 2 s with a separate step per load and store lets
the ticker and the callback overlap in every order; three faults are a broker restart, a
relay that dies and returns, or an ingest that fails twice around a restart.

Findings. The four violated runs are disagreements between the repository's own
words and what the code does; `PROJECT.json` quotes the lines. The narrator's
`KeyError` is a defect (it needs two polls of the same verdict and a third of a
new one within microseconds; `_NARR_CACHE.get` avoids it). The others are
divergences a reader of the design document should know of. That of
`CaseLibraryRecurrence` is asserted by a test of the repository
(correlation/tests/test_state.py:203-205), so it is the design document that is behind.

Deadlock is checked in every run but `Scenarios`, whose users stop after `MaxCalls`:
no part of the system ever stops by itself.

What the runs showed besides, no document saying otherwise:

- A client of the engine that connects and sends nothing holds up everybody behind it, the
  readiness probe included, as the server has one thread and no timeout. `NobodyWaitsForever`
  has it as its premise that no connection stays silent for ever; `CatchesUp` needs no
  such premise, because the lock is not taken before the request is there.
- The aggregator's ring is sized as 180 samples, 15 minutes of one sample per poll
  (aggregator/main.go:276). For `cpu_throttle`, `net_rx`, `net_tx` and `restarts`
  (aggregator/queries.yaml:6,9,10,17), which are not summed by pod, a pod may have several
  rows and its ring then goes back less far. The engine reads none of these signals.
- After a broker restart the interlock stays in SAFE_MODE with a live relay, and
  telemetry-ingest stays deaf, until their pods restart: neither subscribes on
  connect. `SilenceTrips` shows the interlock's failure is on the safe side;
  `BeatsRearm` has the subscription as its premise.
- The interlock may trip on a silence that is over (a beat between the ticker's load
  and its store); the next beat, a second later, re-arms it.
- A trigger of S2 whose old Job outlives the polls fails with 409; two triggers, or a
  trigger and a reset, that overlap may both report success with one of them undone,
  which is why `AloneTakesEffect` is about calls that met no other one.
- Storms asked for while one runs are merged into one; a reset script that comes
  between the check and the removal of the flag kills cooling-monitor.
- `blast_radius` keeps the first way to a victim and `_forward_impact` the best, so a
  predicted impact may be lower than the one the ranking used (never higher:
  `BlastWithinImpact`).
- The case shown is that of the class of the first edge that leaves the root in the order of
  SIGNALS, held edges included: with a root in two classes it is the earlier one's.
- The case library's root comes from `run_pass`'s own ranking, seeded with pods of
  old events; the served root does not.

## 4. Fairness

- `EdgeMemory`: `WF(NextPass)` and `WF(Work)`. The loop thread runs for ever and
  catches every exception (service.py:180-218); nothing inside `observe` blocks.
  The liveness properties assume that the pair's workloads keep running, since
  without data the code deliberately holds a belief.
- `EngineService`: `WF` of the loop's steps, the server's accept and the
  handler's lock; `SF` of `Publish` and `Report`, because the lock may be taken
  and released between two attempts: the server releases it with every reply and
  then blocks in accept and in reading the request. `WF(WriteEnds(c))` says that
  the write of a reply under `_lock` ends: the reply fits the socket's buffers, or
  the client reads it or disconnects. Nothing is assumed of a client that is to
  send its request (the API gives up after 8 s, api/main.py:51, the readiness probe after 1 s,
  anybody else may stay connected and silent): where that matters, in
  `NobodyWaitsForever`, it is a premise of the property.
- `Narrator`: `WF` of a thread that has a request; the call to the model has a deadline
  (30 s, api/main.py:238), an external event decides how it ends. Nobody has to poll.
- `Aggregator`: `WF` of the poller (Prometheus answers or refuses), `WF` that a
  response is written out or given up, and `SF` that the engine's two fetches succeed
  now and then. The last two are assumptions: `http.ListenAndServe` sets no write
  timeout, and the engine's fetch (timeout 10 s) may fail for ever.
- `Scenarios`: `WF` of each handler's own steps and of cooling-monitor's main thread
  with its restart by Kubernetes; nothing is assumed of requests succeeding or of
  a deleted Job being collected.
- `FactoryBus`: `WF` of time, of a living relay's beats, of callbacks, ticker and
  writer thread.

## 5. Proofs

All proofs are checked by TLAPS without unproved steps; the assumptions are the named
`ASSUME`s of the modules, which TLC evaluates in every run. The strengthenings were
also checked with TLC on the runs' instances. Each theorem holds for
every value of the constants: any deployment, tuning, queue, cache or ring size, any
number of pods, clients, threads, readings and faults.

- `EdgeMemoryProofs`: `TypeCorrect`, `HysteresisHolds`, `LabelsHold`, `FloorKept`,
  `BackboneHolds`, `FadingIsGentle` and the refinement `PromiseRefined`.
  Assumptions: `ShapeAssumption` (the workload map is a function, legacy rows obey
  the older rule), `TuningAssumption` (hide <= show, prior < show, prior <=
  alpha) and `RoundingAssumption` (rounding keeps the order and is exact on the grid). `Hysteresis` is not inductive: decay lifts a confidence to its floor
  without looking at the show threshold, so a floor at or above it would leave a
  bright row dark. The strengthening `GoodRow` says a floor is at or below the
  confidence or is a freshly seeded prior, which is below show. `FloorKept` needs
  that `edges` follows `disk` row by row. The lemmas on confidences (`PortionBound`: a
  portion is at most the whole, however products are rounded; `Curves`) carry the rest.
  The other three are about one pass, so their invariant (`FullInv`) says how far the
  pass has come: `Bookkeeping` (what is still to seed, confirm and decay, and that a
  row which is to decay was not confirmed), `Floors` (a row the pass has been at is at
  or above its floor) and `Drift` (a row the pass has not been at is as committed; one
  it has confirmed is not dimmer than its committed image; every row is lit as the
  latch from its committed image demands). The refinement maps a pair to its committed
  row: `Begin` and `Commit` are the abstract steps, in which `Drift` gives the latch,
  and every other step is a stutter. It holds with several pods per workload too.
- `CaseLibraryProofs`: `TypeCorrect`, `FamiliesHaveRoots`, `CasesStayApart`,
  `ArchiveKept`, `FamiliesStayLinked`, `ObservationsCounted`. Assumptions: thresholds
  with `TauFamily <= TauMerge <= 100` and finite fingerprints. The invariant adds that
  the open table extends the committed one in place; `CasesApart` rests on the lemma
  that an identical fingerprint is at the maximum of `Sim`, hence always merged.
  `FamiliesLinked` has to be shown of both images of the table, since a crash goes back
  to the committed one. `ObservationsAccounted` is not inductive while a promotion is
  half done: `Balanced` adds the one observation that is pending between the counter
  and the log.
- `EngineServiceProofs`: `ServedStaysDurable`, `TypeCorrect`, `VerdictsAreWhole`, for
  any list of signals and any clients. `ServedIsDurable` alone is not inductive: `Observe` overwrites a
  memory by the window of the pass, which goes forward only because no memory
  is ahead of the window once it is fetched (`Ordered`). `WholePass` is about what was
  published; what makes it so is `PassSoFar`, the classes rendered so far being a prefix
  of the list, each from the window of this pass or without telemetry in it.
- `NarratorProofs`: `TypeCorrect`, `RepliesMatched`, `CacheStaysBounded`, for any
  threads, graphs and outages. The invariant says that a
  draft in a thread's hand describes the graph the thread fetched and that an entry of the cache is
  filed under the signature of the graph it describes. The bound is a counting argument:
  clear and store are two steps, so every thread may store an entry after the clear of
  another; the entries and the threads about to store one are together never more than
  the threads (`StoresPaid`).
- `VerdictProofs`: `EveryEdgeWitnessed`, `WriterAlwaysDecides`, `ImpactAlwaysBest`,
  `BlastAlwaysWithin` and `RootAlwaysExplains`, for any pods, onsets, lag profiles, held
  edges and rendered graph of the other class. `VerdictAssumption` says that pods are
  listed once, that onsets have a time and a strength, that a correlation is between -1
  and 1 and that what is rendered is an edge of two pods with a strength from 0 to 1.
  The invariant `EdgeInv` adds that a pair has at most one edge of each kind: a
  correlation edge because the pair loop visits a pair in the order of names once, a
  source edge because of two pods one writes more. So strengths never decide between two
  edges of a pair, the kind does. `PassInv` types what the merge reads and says that the
  verdict is that of the merge.
  The frontier loops are proved totally correct. `ForwardStates` is the invariant of
  `_forward_impact`: everything it knows is a walk, and either waits in the frontier or
  its arcs lead to nothing better than what is known. With an empty frontier the impacts
  then dominate all walks (`ForwardEndsBest`; a sixth hop falls below the cut, `WalksClosed`).
  It ends because every round uses up a walk: what improves an impact is a walk never
  counted before (`ForwardCounts`), and there are finitely many. `BlastStays` does the
  same for `blast_radius` with nodes. `RootAlwaysExplains` follows the score back: a
  positive sum has a positive summand (`TotalPositive`), which is the weight of a walk to
  a seed, and the ranking is headed by someone who scores because the order has a first
  element (`RankedFirst`: greatest score, then least onset, then first place).
  Sorting and selecting are counting arguments over keys (`PlaceTaken`, `ListsByKey`).
  Inductions over rounds and cardinalities are done with `UpTo`, a lemma about sets of
  numbers that rests on the library's well-foundedness of the naturals; the loops'
  iterates, sums and runs are shown to exist before they are unfolded (`Repeats`,
  `ForwardRun`, `BlastRun`, `SumExists`).
- `AggregatorProofs`: `RingsInOrder` and `EventsHaveSamples`, for any pack that names a
  signal once, any number of rows per pod, any capacities and any readers. `RingInOrder`
  bounds the samples one poll leaves in a series by the rows of its query, which needs to
  know how far the poll is (`NotYet`): a series still to be asked for has no sample of it,
  one that is being added only the rows that are no longer to do, since a signal is queried
  once per poll. `EventsBacked` needs the same of the
  events that are found and not emitted yet, and `RingInOrder` itself: when the sample of
  an event is dropped, the oldest one left is younger.
- `ScenariosProofs`: `AloneHasEffect`, for any users, calls and polls. The invariant adds
  that a settled call means nobody is at work, that a call which is alone so far has the
  Job to itself, and that only a trigger goes on after its DELETE.
- `FactoryBusProofs`: `ReadingsStoredOnce`, for any queue, batch and number of faults. The
  rows, the batch in hand and the queue are three ascending sequences, each before the
  next and none beyond the last reading fired; a batch that is committed and not counted
  yet is already among the rows, which is why it is not before them.

Only model-checked: the liveness properties (`SettlesAtFloor`, `VanishesWhenQuiet`,
`OutageEnds`, `CatchesUp`, `NobodyWaitsForever`, `EarlierSignalsLearn`, `LocksPassOn`, `GonePodsDrop`,
`CallsReturn`, `ArmedStormComes`, `SilenceTrips`, `BeatsRearm`), as fairness and ENABLED
are out of the prover's reach. Every invariant and every action property of the passing
runs is proved.

## 6. Not modelled, and the plan

Not modelled for good: the numeric arithmetic of detectors, correlation and
forecast (real-valued vectors); formatting, the API's read endpoints, dashboard, soak
reports, Helm charts; workloads that only generate load; alert-dispatcher's three
attempts, which leave no state anywhere. SHA-1 collisions are excluded.
`FadesGently` and the refinement are model-checked with one pod per workload and proved
for any number; with two the belief may grow by two steps in a pass, which is the finding
of `EdgeMemoryOnePass` and no concern of theirs.

Next, in this order:

1. `Baseline`: the counter that matures a workload's baseline and the storm guard
   (state.py:620-662), with two pods of one workload, in integers.
2. `GraphMemory`: `EdgeMemory` and `CaseLibrary` in one transaction; two engines
   over one database during a rollout, with SQLite's locks.
