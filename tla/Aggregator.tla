----------------------------- MODULE Aggregator -----------------------------
(***************************************************************************)
(* The L2 aggregator (aggregator/main.go): the poller that fills a ring per*)
(* series and a list of recent events, the handlers that encode them under *)
(* two RWMutexes, and the engine as their reader (service.build_inputs).   *)
(*                                                                         *)
(* A sample or an event is its age in polls, which stops at Horizon: what  *)
(* matters is the order of samples and the distance to the newest one.     *)
(* A query answers with rows; one that does not sum by pod may have several*)
(* for one pod, and each of them becomes a sample of the same series.      *)
(***************************************************************************)
EXTENDS Integers, Sequences, SequencesExt

CONSTANTS
    Signals,    \* p.order, the signals in the order they are queried
    Pods,
    Reports,    \* [signal -> pods it can be measured for]
    Rows,       \* [signal -> most rows its query has for one pod]
    MaxRows,    \* bound on Rows
    Leaving,    \* the pods that may be deleted
    Ruled,      \* the signals with a threshold (thresholdFor)
    Wanted,     \* the signals the engine makes vectors of
    Engine,     \* the engine, one of the
    Readers,    \* clients of /window and /events
    CapN,       \* ring capacity per series
    CapEvents,  \* capacity of recent
    MinCover,   \* samples and grid points a series needs to become a vector
    GridN,      \* polls the engine's time grid spans
    Slack,      \* polls a vector may be behind the newest sample
    Horizon     \* bound on ages

Series == {s \in ToSet(Signals) \X Pods : s[2] \in Reports[s[1]]}

\* The pack names a signal once (queries.yaml).  Horizon lies beyond what the
\* engine tells apart while something is measured.
ASSUME AggregatorAssumption ==
    /\ Signals \in Seq(ToSet(Signals))
    /\ \A i, j \in DOMAIN Signals : Signals[i] = Signals[j] => i = j
    /\ Reports \in [ToSet(Signals) -> SUBSET Pods]
    /\ Leaving \subseteq Pods
    /\ MaxRows \in Nat /\ Rows \in [ToSet(Signals) -> 1 .. MaxRows]
    /\ Ruled \subseteq ToSet(Signals)
    /\ Wanted \subseteq ToSet(Signals)
    /\ Engine \in Readers
    /\ {CapN, CapEvents, MinCover, GridN} \subseteq Nat \ {0}
    /\ Slack \in Nat /\ Horizon \in Nat /\ Horizon > Slack + 1
    /\ Horizon > GridN + 1

VARIABLES
    running,    \* the pods there are
    ring,       \* [Series -> Seq(age)], oldest first
    recent,     \* Seq([of, age]), oldest first
    poll,       \* the poller: [at, sig, todo, found], todo the rows to add
    at,         \* [Readers -> where its request is]
    usable,     \* the series of the window the engine fetched that make vectors
    vectors     \* the series of the engine's last pass

vars == <<running, ring, recent, poll, at, usable, vectors>>

Older(a) == IF a < Horizon THEN a + 1 ELSE a
Aged(s) == [i \in DOMAIN s |-> Older(s[i])]
AgedEvents(s) == [i \in DOMAIN s |-> [s[i] EXCEPT !.age = Older(@)]]
LastN(s, n) == IF Len(s) > n THEN SubSeq(s, Len(s) - n + 1, Len(s)) ELSE s

NoRows == [s \in Series |-> 0]
Resting == [at |-> "sleep", sig |-> 1, todo |-> NoRows, found |-> <<>>]
Holding(place) == {r \in Readers : at[r] = place}

Init ==
    /\ running = Pods
    /\ ring = [s \in Series |-> <<>>]
    /\ recent = <<>>
    /\ poll = Resting
    /\ at = [r \in Readers |-> "away"]
    /\ usable = {}
    /\ vectors = {}

\* A pod is deleted: its name does not come back.
Gone(p) ==
    /\ p \in running
    /\ running' = running \ {p}
    /\ UNCHANGED <<ring, recent, poll, at, usable, vectors>>

-----------------------------------------------------------------------------
(* The poller.                                                             *)

Tick ==
    /\ poll.at = "sleep"
    /\ poll' = [poll EXCEPT !.at = "query"]
    /\ ring' = [s \in Series |-> Aged(ring[s])]
    /\ recent' = AgedEvents(recent)
    /\ UNCHANGED <<running, at, usable, vectors>>

\* What a query answers: so many rows for each pod that runs and is measured.
Answer(rows) ==
    \A p \in Pods : rows[p] > 0 => /\ p \in running \cap Reports[Signals[poll.sig]]
                                  /\ rows[p] <= Rows[Signals[poll.sig]]
Todo(rows) ==
    [s \in Series |-> IF s[1] = Signals[poll.sig] THEN rows[s[2]] ELSE 0]

\* Mutant: a query that failed half way is retried in the same poll.
QueryRetrying(rows) ==
    /\ poll.at = "query"
    /\ poll.sig <= Len(Signals)
    /\ Answer(rows)
    /\ poll' \in {[poll EXCEPT !.sig = sig,
                               !.at = IF Todo(rows) = NoRows THEN "query" ELSE "add",
                               !.todo = Todo(rows)] : sig \in {poll.sig, poll.sig + 1}}
    /\ UNCHANGED <<running, ring, recent, at, usable, vectors>>

\* promQuery: an error skips the signal; a row whose value is not a number is
\* left out.
Query(rows) ==
    /\ poll.at = "query"
    /\ poll.sig <= Len(Signals)
    /\ Answer(rows)
    /\ poll' = [poll EXCEPT !.sig = @ + 1,
                            !.at = IF Todo(rows) = NoRows THEN "query" ELSE "add",
                            !.todo = Todo(rows)]
    /\ UNCHANGED <<running, ring, recent, at, usable, vectors>>

\* The poller has something to write and calls Lock().
CallLock ==
    /\ poll.at \in {"add", "emit"}
    /\ poll' = [poll EXCEPT !.at = IF poll.at = "add" THEN "adding" ELSE "emitting"]
    /\ UNCHANGED <<running, ring, recent, at, usable, vectors>>

\* Mutant: no Unlock.
AdmitNobody(from, to) == UNCHANGED at
\* ring.mu.Unlock lets the readers in that queued behind the writer.
Admit(from, to) ==
    at' = [r \in Readers |-> IF at[r] = from THEN to ELSE at[r]]

\* Mutant: the oldest samples are the ones that stay.
KeptOldest(s) == SubSeq(s, 1, IF Len(s) > CapN THEN CapN ELSE Len(s))
Kept(s) == LastN(s, CapN)

\* ring.Add under the write lock; a breach is noted after it.
Add(s, breach) ==
    /\ poll.at = "adding"
    /\ poll.todo[s] > 0
    /\ breach => s[1] \in Ruled
    /\ Holding("/window") = {}
    /\ ring' = [ring EXCEPT ![s] = Kept(Append(@, 0))]
    /\ Admit("for /window", "/window")
    /\ LET todo == [poll.todo EXCEPT ![s] = @ - 1]
       IN  poll' = [poll EXCEPT !.todo = todo,
                                !.at = IF todo = NoRows THEN "query" ELSE "add",
                                !.found = IF breach
                                          THEN Append(@, [of |-> s, age |-> 0])
                                          ELSE @]
    /\ UNCHANGED <<running, recent, usable, vectors>>

EndOfPack ==
    /\ poll.at = "query"
    /\ poll.sig > Len(Signals)
    /\ poll' = IF poll.found = <<>> THEN Resting ELSE [poll EXCEPT !.at = "emit"]
    /\ UNCHANGED <<running, ring, recent, at, usable, vectors>>

\* recent = append(recent, ev) under emu, capped.
Emit ==
    /\ poll.at = "emitting"
    /\ Holding("/events") = {}
    /\ recent' = LastN(Append(recent, Head(poll.found)), CapEvents)
    /\ Admit("for /events", "/events")
    /\ poll' = IF Len(poll.found) = 1 THEN Resting
                                      ELSE [poll EXCEPT !.at = "emit",
                                                        !.found = Tail(@)]
    /\ UNCHANGED <<running, ring, usable, vectors>>

-----------------------------------------------------------------------------
(* The handlers and the engine.                                            *)

\* A Lock that has been called keeps new readers out while it waits for those
\* that are in.
WriterWaits(path) == poll.at = IF path = "/window" THEN "adding" ELSE "emitting"

RLock(r, path) ==
    at' = [at EXCEPT ![r] = IF WriterWaits(path)
                            THEN IF path = "/window" THEN "for /window" ELSE "for /events"
                            ELSE path]

Get(r, path) ==
    /\ at[r] = "away"
    /\ r = Engine => path = "/window"
    /\ RLock(r, path)
    /\ UNCHANGED <<running, ring, recent, poll, usable, vectors>>

\* Mutant: every pod with enough samples is a vector.
UsableAnyAge(w) == {s \in Series : s[1] \in Wanted /\ Len(w[s]) >= MinCover}
\* build_inputs: series with enough samples, whose last one is not stale and
\* which cover enough of the grid that ends at the newest sample.  A grid point
\* holds the last sample up to it (or else the first one there is), unless that
\* is more than a poll away.
Usable(w) ==
    LET covered == {s \in Series : s[1] \in Wanted /\ Len(w[s]) >= MinCover}
        newest == Min({Last(w[s]) : s \in covered})
        UpTo(s, g) == {a \in ToSet(w[s]) : a >= newest + g}
        Held(s, g) == IF UpTo(s, g) # {} THEN Min(UpTo(s, g)) ELSE Head(w[s])
        Points(s) == {g \in 0 .. GridN - 1 : Held(s, g) - (newest + g) \in -1 .. 1}
    IN  {s \in covered : /\ Last(w[s]) <= newest + Slack
                         /\ Cardinality(Points(s)) >= MinCover}

\* The body is on the wire and the read lock released; the engine goes on to
\* /events, and from there to its pass.
Finish(r) ==
    /\ at[r] \in {"/window", "/events"}
    /\ IF r = Engine /\ at[r] = "/window"
       THEN usable' = Usable(ring) /\ RLock(r, "/events") /\ UNCHANGED vectors
       ELSE /\ at' = [at EXCEPT ![r] = "away"]
            /\ IF r = Engine THEN vectors' = usable /\ usable' = {}
                             ELSE UNCHANGED <<usable, vectors>>
    /\ UNCHANGED <<running, ring, recent, poll>>

\* A client goes away while its response is written; an engine's pass fails.
HangUp(r) ==
    /\ at[r] \in {"/window", "/events"}
    /\ at' = [at EXCEPT ![r] = "away"]
    /\ usable' = IF r = Engine THEN {} ELSE usable
    /\ UNCHANGED <<running, ring, recent, poll, vectors>>

PollerStep ==
    \/ Tick
    \/ \E rows \in [Pods -> 0 .. MaxRows] : Query(rows)
    \/ CallLock
    \/ \E s \in Series, breach \in BOOLEAN : Add(s, breach)
    \/ EndOfPack
    \/ Emit

Next ==
    \/ \E p \in Leaving : Gone(p)
    \/ PollerStep
    \/ \E r \in Readers : \/ \E path \in {"/window", "/events"} : Get(r, path)
                          \/ Finish(r)
                          \/ HangUp(r)

Spec == Init /\ [][Next]_vars

\* The poller runs (Prometheus answers), every response is written out or given
\* up, the engine's loop goes on and now and then a fetch of it succeeds.
Fairness ==
    /\ WF_vars(PollerStep)
    /\ \A r \in Readers : WF_vars(Finish(r) \/ HangUp(r))
    /\ WF_vars(Get(Engine, "/window"))
    /\ SF_vars(at[Engine] = "/window" /\ Finish(Engine))
    /\ SF_vars(at[Engine] = "/events" /\ Finish(Engine))
FairSpec == Spec /\ Fairness

-----------------------------------------------------------------------------
(* Properties.                                                             *)

\* What a reader is shown of a series is in the order of time, within the
\* capacity, and no poll has left more in it than its query has rows for the pod:
\* no row is there twice (main.go:40-48, 200-209, 234-248).
RingInOrder ==
    \A s \in Series :
        /\ Len(ring[s]) <= CapN
        /\ \A i \in 1 .. Len(ring[s]) - 1 : ring[s][i] >= ring[s][i + 1]
        /\ \A i \in 1 .. Len(ring[s]) - Rows[s[1]] :
               ring[s][i] > ring[s][i + Rows[s[1]]] \/ ring[s][i] = Horizon

\* An event is never ahead of its evidence: once it can be read, the ring has
\* the sample that caused it, or only younger ones (main.go:243-258, 283-290).
EventsBacked ==
    \A i \in DOMAIN recent :
        LET samples == ring[recent[i].of]
        IN  \/ \E k \in DOMAIN samples : samples[k] = recent[i].age
            \/ samples # <<>> /\ Head(samples) < recent[i].age

\* Neither the poller nor a reader waits for ever: a slow response delays the
\* poll, a queued poll holds up new readers, and both get through (main.go:41,
\* 51, 286, 300, 306).
LocksPassOn ==
    /\ poll.at # "sleep" ~> poll.at = "sleep"
    /\ \A r \in Readers : at[r] \in {"for /window", "for /events"} ~> at[r] = "away"

Covered(s) == s[1] \in Wanted /\ Len(ring[s]) >= MinCover /\ Last(ring[s]) <= 1

\* A pod that is gone leaves the engine's vectors although its series stays in
\* the ring for good, as long as something else is measured (service.py:120-146).
GonePodsDrop ==
    \A p \in Leaving :
        <>[](/\ p \notin running
             /\ \E s \in Series : Covered(s)) => <>[](\A s \in vectors : s[2] # p)

=============================================================================
