----------------------------- MODULE FactoryBus -----------------------------
(***************************************************************************)
(* The factory's MQTT bus and its two subscribers: safety-interlock, which *)
(* watches the heartbeat of critical-control-relay (main.go of both), and  *)
(* telemetry-ingest, which moves readings through a bounded queue into     *)
(* TimescaleDB (main.py).                                                  *)
(*                                                                         *)
(* Both clients subscribe once, after their first connect, with a clean    *)
(* session: when the broker has been away, the library reconnects by itself*)
(* and nobody subscribes again.  Silence is counted in seconds up to       *)
(* Limit + 1.                                                              *)
(*                                                                         *)
(* A reading is the number of its delivery.  Both sides use QoS 1, at least*)
(* once: a message the gateway or the broker sends again is one more       *)
(* delivery, which on_msg cannot tell from a new one.                      *)
(***************************************************************************)
EXTENDS Naturals, Sequences

CONSTANTS
    Limit,        \* seconds of silence the interlock tolerates (3)
    QueueCap,     \* maxsize of Q
    BatchMax,     \* rows per INSERT
    MaxReadings,  \* bound on the deliveries
    MaxFaults     \* bound on everything that breaks or comes back

ASSUME BusAssumption ==
    /\ {QueueCap, BatchMax} \subseteq Nat \ {0}
    /\ {Limit, MaxReadings, MaxFaults} \subseteq Nat

VARIABLES
    subs,       \* the clients the broker delivers to
    alive,      \* the relay beats
    inbox,      \* a heartbeat is on its way to the interlock
    silence,    \* now - last
    tripped,
    beat,       \* the interlock's message callback: "idle" or "stored"
    ticker,     \* its ticker: "idle", "due", "stale" or "trip"
    fired,      \* deliveries so far, lost ones included
    queue,      \* Q
    writer,     \* the writer thread: "connect", "get", "write" or "count"
    batch,
    rows,       \* the readings table
    inserted,   \* INSERTED
    faults

interlock == <<alive, inbox, silence, tripped, beat, ticker>>
ingest == <<fired, queue, writer, batch, rows, inserted>>
vars == <<subs, interlock, ingest, faults>>

Init ==
    /\ subs = {"interlock", "ingest"}
    /\ alive = TRUE /\ inbox = FALSE
    /\ silence = 0 /\ tripped = FALSE
    /\ beat = "idle" /\ ticker = "idle"
    /\ fired = 0
    /\ queue = <<>> /\ batch = <<>> /\ rows = <<>>
    /\ writer = "connect"
    /\ inserted = 0
    /\ faults = 0

Fault == faults < MaxFaults /\ faults' = faults + 1

\* The broker restarts: sessions and what was in flight are gone.
BrokerRestart ==
    /\ Fault
    /\ subs' = {}
    /\ inbox' = FALSE
    /\ UNCHANGED <<alive, silence, tripped, beat, ticker, ingest>>

-----------------------------------------------------------------------------
(* critical-control-relay and safety-interlock.                            *)

\* The relay dies or comes back.
RelayTurns ==
    /\ Fault
    /\ alive' = ~alive
    /\ UNCHANGED <<subs, inbox, silence, tripped, beat, ticker, ingest>>

Heartbeat ==
    /\ alive
    /\ "interlock" \in subs
    /\ inbox' = TRUE
    /\ UNCHANGED <<subs, alive, silence, tripped, beat, ticker, ingest, faults>>

\* last.Store: the time of arrival, however long the beat was on its way.
Deliver ==
    /\ inbox /\ beat = "idle"
    /\ inbox' = FALSE
    /\ silence' = 0
    /\ beat' = "stored"
    /\ UNCHANGED <<subs, alive, tripped, ticker, ingest, faults>>

\* Mutant: a trip is for good.
RearmNever ==
    /\ beat = "stored"
    /\ beat' = "idle"
    /\ UNCHANGED <<subs, alive, inbox, silence, tripped, ticker, ingest, faults>>
\* tripped.Store(false).
Rearm ==
    /\ beat = "stored"
    /\ tripped' = FALSE
    /\ beat' = "idle"
    /\ UNCHANGED <<subs, alive, inbox, silence, ticker, ingest, faults>>

\* A second passes; a tick the ticker is too busy for is dropped.
Second ==
    /\ silence' = IF silence > Limit THEN silence ELSE silence + 1
    /\ ticker' = IF ticker = "idle" THEN "due" ELSE ticker
    /\ UNCHANGED <<subs, alive, inbox, tripped, beat, ingest, faults>>

LoadLast ==
    /\ ticker = "due"
    /\ ticker' = IF silence > Limit THEN "stale" ELSE "idle"
    /\ UNCHANGED <<subs, alive, inbox, silence, tripped, beat, ingest, faults>>

LoadTripped ==
    /\ ticker = "stale"
    /\ ticker' = IF tripped THEN "idle" ELSE "trip"
    /\ UNCHANGED <<subs, alive, inbox, silence, tripped, beat, ingest, faults>>

\* Mutant: the first trip ends the goroutine.
TripOnce ==
    /\ ticker = "trip"
    /\ tripped' = TRUE
    /\ ticker' = "ended"
    /\ UNCHANGED <<subs, alive, inbox, silence, beat, ingest, faults>>
Trip ==
    /\ ticker = "trip"
    /\ tripped' = TRUE
    /\ ticker' = "idle"
    /\ UNCHANGED <<subs, alive, inbox, silence, beat, ingest, faults>>

\* The pod restarts, connects and subscribes.
InterlockRestart ==
    /\ Fault
    /\ subs' = subs \cup {"interlock"}
    /\ inbox' = FALSE
    /\ silence' = 0 /\ tripped' = FALSE
    /\ beat' = "idle" /\ ticker' = "idle"
    /\ UNCHANGED <<alive, ingest>>

-----------------------------------------------------------------------------
(* telemetry-ingest.                                                       *)

\* on_msg, once per delivery: put_nowait, a full queue drops the reading.
Reading ==
    /\ fired < MaxReadings
    /\ fired' = fired + 1
    /\ queue' = IF "ingest" \in subs /\ Len(queue) < QueueCap
                THEN Append(queue, fired + 1) ELSE queue
    /\ UNCHANGED <<subs, interlock, writer, batch, rows, inserted, faults>>

Connect ==
    /\ writer = "connect"
    /\ writer' = "get"
    /\ UNCHANGED <<subs, interlock, fired, queue, batch, rows, inserted, faults>>

\* Q.get, then what comes without waiting, for a second at most.
Take(n) ==
    /\ writer = "get"
    /\ n <= Len(queue)
    /\ batch' = SubSeq(queue, 1, n)
    /\ queue' = SubSeq(queue, n + 1, Len(queue))
    /\ writer' = "write"
    /\ UNCHANGED <<subs, interlock, fired, rows, inserted, faults>>

\* executemany and commit.
Write ==
    /\ writer = "write"
    /\ rows' = rows \o batch
    /\ writer' = "count"
    /\ UNCHANGED <<subs, interlock, fired, queue, batch, inserted, faults>>

Count ==
    /\ writer = "count"
    /\ inserted' = inserted + Len(batch)
    /\ batch' = <<>>
    /\ writer' = "get"
    /\ UNCHANGED <<subs, interlock, fired, queue, rows, faults>>

\* Mutant: the batch goes back to the queue for another try.
WriteFailsRetrying ==
    /\ writer = "write"
    /\ Fault
    /\ rows' \in {rows, rows \o batch}
    /\ queue' = batch \o queue
    /\ batch' = <<>>
    /\ writer' = "connect"
    /\ UNCHANGED <<subs, interlock, fired, inserted>>
\* The database fails, before the commit or after it: the batch is forgotten and
\* the writer connects anew.
WriteFails ==
    /\ writer = "write"
    /\ Fault
    /\ rows' \in {rows, rows \o batch}
    /\ batch' = <<>>
    /\ writer' = "connect"
    /\ UNCHANGED <<subs, interlock, fired, queue, inserted>>

\* The pod restarts: what was in memory is gone.
IngestRestart ==
    /\ Fault
    /\ subs' = subs \cup {"ingest"}
    /\ queue' = <<>> /\ batch' = <<>>
    /\ writer' = "connect"
    /\ inserted' = 0
    /\ UNCHANGED <<interlock, fired, rows>>

-----------------------------------------------------------------------------

Callback == Deliver \/ Rearm
Ticking == LoadLast \/ LoadTripped \/ Trip
Writing == Connect \/ (\E n \in 1 .. BatchMax : Take(n)) \/ Write \/ Count

Next ==
    \/ BrokerRestart \/ RelayTurns \/ Heartbeat
    \/ Callback \/ Second \/ Ticking \/ InterlockRestart
    \/ Reading \/ Writing \/ WriteFails \/ IngestRestart

Spec == Init /\ [][Next]_vars

\* Time goes on, a relay that lives beats, goroutines and threads run.
Fairness ==
    /\ WF_vars(Second) /\ WF_vars(Heartbeat)
    /\ WF_vars(Callback) /\ WF_vars(Ticking) /\ WF_vars(Writing)
FairSpec == Spec /\ Fairness

-----------------------------------------------------------------------------
(* Properties.                                                             *)

Written == IF writer = "write" THEN rows \o batch ELSE rows

\* A delivery is stored at most once and in the order of arrival, whatever the
\* database does with a commit whose answer is lost, and the counter on the
\* dashboard counts only rows that are there (main.py:14-16, 24-37).  A message
\* that QoS 1 delivers twice is stored twice (plc-gateway main.go:34).
ReadingsOnce ==
    LET all == Written \o queue
    IN  /\ \A i \in 1 .. Len(all) - 1 : all[i] < all[i + 1]
        /\ Len(queue) <= QueueCap
        /\ inserted <= Len(rows)

\* Fail-safe: when no beat arrives any more, because the relay is dead or
\* because the broker has forgotten the subscription, the interlock ends in
\* SAFE_MODE, although a callback that was held up may re-arm it late
\* (safety-interlock main.go:25-36).
SilenceTrips ==
    <>[](~alive \/ "interlock" \notin subs) => <>[]tripped

\* And beats that arrive get it out again, although the ticker may trip it on a
\* silence that is already over.
BeatsRearm ==
    <>[](alive /\ "interlock" \in subs) => []<>(~tripped)

=============================================================================
