---------------------------- MODULE EngineService ----------------------------
(***************************************************************************)
(* The L3 process (correlation/service.py): the loop thread that fetches a *)
(* window, lets one GraphMemory per resource class observe it and          *)
(* publishes the merged graph, and the single-threaded HTTP server that    *)
(* serves it, with _lock between them.  The memories are durable, the      *)
(* published graph is not.                                                 *)
(*                                                                         *)
(* A window is the number of the aggregator's poll it was read after; what *)
(* a memory makes of it is the subject of EdgeMemory and CaseLibrary.      *)
(***************************************************************************)
EXTENDS Integers, Sequences

CONSTANTS
    Order,      \* SIGNALS, in the order the loop visits them
    Clients,    \* who asks for /graph or /healthz
    NoClient,
    Corruptible, \* signals whose database may be corrupt
    MaxPolls,   \* bound on the aggregator's polls
    MaxFaults   \* bound on exceptions and restarts

Signals == {Order[i] : i \in DOMAIN Order}

ASSUME ServiceAssumption ==
    /\ Order \in Seq(Signals)
    /\ \A i, j \in DOMAIN Order : Order[i] = Order[j] => i = j
    /\ NoClient \notin Clients
    /\ Corruptible \subseteq Signals
    /\ MaxPolls \in Nat /\ MaxFaults \in Nat

VARIABLES
    poisoned,   \* signals whose pass raises every time, never changed
    polls,      \* per poll of the aggregator, the signals with vectors after it
    memory,     \* [Signals -> window]: the last one the database has committed
    step,       \* where the loop is
    window,     \* the window of this pass
    next,       \* the loop's index in SIGNALS
    rendered,   \* [Signals -> window], 0 for a signal that is not in the dict
    graph,      \* _graph: [status, of]
    lock,       \* _lock: "free" or "server" (the loop never keeps it)
    backlog,    \* connections the server has not accepted, in order
    serving,    \* the connection it handles
    at,         \* [Clients -> where the client's request is]
    shown,      \* [Signals -> the newest window of it any client was sent]
    faults

vars == <<poisoned, polls, memory, step, window, next, rendered, graph, lock,
          backlog, serving, at, shown, faults>>
loopVars == <<memory, step, window, next, rendered>>
serverVars == <<lock, backlog, serving, at, shown>>

Windows == 0 .. MaxPolls
Nothing == [s \in Signals |-> 0]
Boot == [status |-> "boot", of |-> Nothing]
Error == [status |-> "error", of |-> Nothing]
Live(w) == IF w = 0 THEN {} ELSE polls[w]
Now == Len(polls)
Newer(v, w) == IF v < w THEN w ELSE v

Init ==
    /\ poisoned \in SUBSET Corruptible
    /\ polls = <<>>
    /\ memory = Nothing
    /\ step = "window" /\ window = 0 /\ next = 1
    /\ rendered = Nothing
    /\ graph = Boot
    /\ lock = "free" /\ backlog = <<>> /\ serving = NoClient
    /\ at = [c \in Clients |-> "away"]
    /\ shown = Nothing
    /\ faults = 0

\* The aggregator's next poll; any signal may lose its telemetry.
Poll(live) ==
    /\ Now < MaxPolls
    /\ polls' = Append(polls, live)
    /\ UNCHANGED <<poisoned, loopVars, graph, serverVars, faults>>

-----------------------------------------------------------------------------
(* The loop.                                                               *)

FetchWindow ==
    /\ step = "window"
    /\ window' = Now
    /\ step' = "events"
    /\ UNCHANGED <<poisoned, polls, memory, next, rendered, graph, serverVars, faults>>

\* Mutant: rendered = {} before the while loop, not in it.
FetchEventsKeeping ==
    /\ step = "events"
    /\ step' = "observe"
    /\ next' = 1
    /\ UNCHANGED <<poisoned, polls, memory, window, rendered, graph, serverVars, faults>>

FetchEvents ==
    /\ step = "events"
    /\ step' = "observe"
    /\ next' = 1
    /\ rendered' = Nothing
    /\ UNCHANGED <<poisoned, polls, memory, window, graph, serverVars, faults>>

Visiting == step = "observe" /\ next <= Len(Order)
At(s) == Visiting /\ Order[next] = s

\* No vectors: continue.
Skip(s) ==
    /\ At(s)
    /\ s \notin Live(window)
    /\ next' = next + 1
    /\ UNCHANGED <<poisoned, polls, memory, step, window, rendered, graph, serverVars, faults>>

\* Mutant: the rendered graph is returned before the commit.
ObserveUncommitted(s) ==
    /\ At(s)
    /\ s \in Live(window) \ poisoned
    /\ rendered' = [rendered EXCEPT ![s] = window]
    /\ next' = next + 1
    /\ memory' \in {memory, [memory EXCEPT ![s] = window]}
    /\ UNCHANGED <<poisoned, polls, step, window, graph, serverVars, faults>>

\* run_pass and observe, which commits before it renders.
Observe(s) ==
    /\ At(s)
    /\ s \in Live(window) \ poisoned
    /\ memory' = [memory EXCEPT ![s] = window]
    /\ rendered' = [rendered EXCEPT ![s] = window]
    /\ next' = next + 1
    /\ UNCHANGED <<poisoned, polls, step, window, graph, serverVars, faults>>

\* A pass over a poisoned signal raises.
Poison(s) ==
    /\ At(s)
    /\ s \in Live(window) \cap poisoned
    /\ step' = "report"
    /\ UNCHANGED <<poisoned, polls, memory, window, next, rendered, graph, serverVars, faults>>

\* Anything in the try block raises: a fetch, a pass before or after its
\* commit, the merge or the forecast.
Raise ==
    /\ step \in {"window", "events", "observe"}
    /\ faults < MaxFaults
    /\ faults' = faults + 1
    /\ step' = "report"
    /\ \/ UNCHANGED memory
       \/ \E s \in Live(window) \ poisoned :
              At(s) /\ memory' = [memory EXCEPT ![s] = window]
    /\ UNCHANGED <<poisoned, polls, window, next, rendered, graph, serverVars>>

\* with _lock: _graph = merged; then the loop sleeps and starts over.
Publish ==
    /\ step = "observe" /\ ~Visiting
    /\ lock = "free"
    /\ graph' = [status |-> "ok", of |-> rendered]
    /\ step' = "window"
    /\ UNCHANGED <<poisoned, polls, memory, window, next, rendered, serverVars, faults>>

\* Mutant: the exception leaves the while loop.
ReportAndStop ==
    /\ step = "report"
    /\ lock = "free"
    /\ graph' = Error
    /\ step' = "stopped"
    /\ UNCHANGED <<poisoned, polls, memory, window, next, rendered, serverVars, faults>>

Report ==
    /\ step = "report"
    /\ lock = "free"
    /\ graph' = Error
    /\ step' = "window"
    /\ UNCHANGED <<poisoned, polls, memory, window, next, rendered, serverVars, faults>>

-----------------------------------------------------------------------------
(* The server: one connection at a time, from accept to close.             *)

Move(c, place) == at' = [at EXCEPT ![c] = place]

Connect(c) ==
    /\ at[c] = "away"
    /\ Move(c, "queued")
    /\ backlog' = Append(backlog, c)
    /\ UNCHANGED <<poisoned, polls, loopVars, graph, lock, serving, shown, faults>>

Accept ==
    /\ serving = NoClient
    /\ backlog # <<>>
    /\ serving' = Head(backlog)
    /\ backlog' = Tail(backlog)
    /\ Move(Head(backlog), "reading")
    /\ UNCHANGED <<poisoned, polls, loopVars, graph, lock, shown, faults>>

\* The request line arrives.  Anything but /graph is answered without _lock.
Ask(c, path) ==
    /\ at[c] = "reading"
    /\ IF path = "/graph"
       THEN Move(c, "locking") /\ UNCHANGED serving
       ELSE Move(c, "away") /\ serving' = NoClient
    /\ UNCHANGED <<poisoned, polls, loopVars, graph, lock, backlog, shown, faults>>

\* with _lock: the graph is serialised and the handler starts to write.
Lock(c) ==
    /\ at[c] = "locking"
    /\ lock = "free"
    /\ lock' = "server"
    /\ shown' = [s \in Signals |-> Newer(shown[s], graph.of[s])]
    /\ Move(c, "writing")
    /\ UNCHANGED <<poisoned, polls, loopVars, graph, backlog, serving, faults>>

\* Mutant: HTTP/1.1, the connection is kept for the client's next request.
DrainKeepAlive(c) ==
    /\ at[c] = "writing"
    /\ lock' = "free"
    /\ Move(c, "reading")
    /\ UNCHANGED <<poisoned, polls, loopVars, graph, backlog, serving, shown, faults>>

\* The client has taken the whole body: the write returns and, this being
\* HTTP/1.0, the connection is closed.
Drain(c) ==
    /\ at[c] = "writing"
    /\ lock' = "free"
    /\ serving' = NoClient
    /\ Move(c, "away")
    /\ UNCHANGED <<poisoned, polls, loopVars, graph, backlog, shown, faults>>

\* The connection of a client that still waits is no longer there to accept.
Withdraw(c) ==
    IF at[c] = "queued"
    THEN \E i \in DOMAIN backlog :
            /\ backlog[i] = c
            /\ backlog' = SubSeq(backlog, 1, i - 1)
                            \o SubSeq(backlog, i + 1, Len(backlog))
    ELSE UNCHANGED backlog

\* Mutant: acquire and release around the write instead of with.
HangUpHoldingLock(c) ==
    /\ at[c] \in {"queued", "reading", "writing"}
    /\ Withdraw(c)
    /\ serving' = IF serving = c THEN NoClient ELSE serving
    /\ Move(c, "away")
    /\ UNCHANGED <<poisoned, polls, loopVars, graph, lock, shown, faults>>

\* The client times out or goes away.  The server sees the end of the request
\* or a broken pipe, which socketserver reports and survives.
HangUp(c) ==
    /\ at[c] \in {"queued", "reading", "writing"}
    /\ Withdraw(c)
    /\ serving' = IF serving = c THEN NoClient ELSE serving
    /\ lock' = IF at[c] = "writing" THEN "free" ELSE lock
    /\ Move(c, "away")
    /\ UNCHANGED <<poisoned, polls, loopVars, graph, shown, faults>>

\* The pod restarts: connections are reset, bootstrap_graph is served.
Restart ==
    /\ faults < MaxFaults
    /\ faults' = faults + 1
    /\ step' = "window" /\ window' = 0 /\ next' = 1
    /\ rendered' = Nothing
    /\ graph' = Boot
    /\ lock' = "free" /\ backlog' = <<>> /\ serving' = NoClient
    /\ at' = [c \in Clients |-> "away"]
    /\ UNCHANGED <<poisoned, polls, memory, shown>>

Pass == \/ FetchWindow
        \/ FetchEvents
        \/ \E s \in Signals : Skip(s) \/ Observe(s) \/ Poison(s)

\* A client's connection, from connect to close.
Connection(c) == \/ Connect(c)
                 \/ \E path \in {"/graph", "/healthz"} : Ask(c, path)
                 \/ Lock(c)
                 \/ Drain(c)
                 \/ HangUp(c)

\* The write to a client comes to an end, one way or the other.
WriteEnds(c) == Drain(c) \/ (at[c] = "writing" /\ HangUp(c))

Next ==
    \/ \E live \in SUBSET Signals : Poll(live)
    \/ Pass
    \/ Raise
    \/ Publish
    \/ Report
    \/ Accept
    \/ \E c \in Clients : Connection(c)
    \/ Restart

Spec == Init /\ [][Next]_vars

\* Both threads run.  The loop gets a lock that is free again and again: the
\* server gives the interpreter away between two connections.  A reply fits the
\* socket's buffers, so the write under _lock ends.  Nothing makes a client that
\* is being served send its request: the server sets no deadline (221-243).
Fairness ==
    /\ WF_vars(Pass)
    /\ SF_vars(Publish) /\ SF_vars(Report)
    /\ WF_vars(Accept)
    /\ \A c \in Clients : WF_vars(Lock(c)) /\ WF_vars(WriteEnds(c))

FairSpec == Spec /\ Fairness

-----------------------------------------------------------------------------
(* Properties.                                                             *)

Graphs == [status : {"boot", "ok", "error"}, of : [Signals -> Windows]]

\* Every variable has its type; the connection being handled is the one that
\* holds the lock, which is never left behind by one that is gone (226-227).
TypeOK ==
    /\ poisoned \subseteq Corruptible
    /\ polls \in Seq(SUBSET Signals) /\ Now <= MaxPolls
    /\ memory \in [Signals -> Windows]
    /\ step \in {"window", "events", "observe", "report"}
    /\ window \in 0 .. Now
    /\ next \in 1 .. Len(Order) + 1
    /\ rendered \in [Signals -> Windows]
    /\ graph \in Graphs
    /\ lock \in {"free", "server"}
    /\ backlog \in Seq(Clients)
    /\ serving \in Clients \cup {NoClient}
    /\ at \in [Clients -> {"away", "queued", "reading", "locking", "writing"}]
    /\ shown \in [Signals -> Windows]
    /\ faults \in 0 .. MaxFaults
    /\ lock = "server" <=> \E c \in Clients : at[c] = "writing"
    /\ \A c \in Clients : at[c] \in {"reading", "locking", "writing"} <=> serving = c

\* Nobody was ever shown a belief the engine can lose in a restart: whatever a
\* client was sent was committed by then and still is (service.py:200, 214 and
\* the commit before the render in state.py:275-277).
ServedIsDurable ==
    \A s \in Signals :
        /\ graph.of[s] <= memory[s]
        /\ shown[s] <= memory[s]

\* A verdict is one pass over one window: it covers every resource class that
\* window had vectors for, shows none of an earlier pass, and a class whose
\* pass raised is not silently missing (185, 187-189, 201, 215-217).
WholePass ==
    graph.status = "ok" =>
        \E w \in 0 .. Now : \A s \in Signals :
            graph.of[s] = IF s \in Live(w) THEN w ELSE 0

\* Once the world settles, an exception, a restart or a client that connects and
\* never says anything does not keep the verdict away: /graph ends up showing the
\* last window (if no signal of it raises for ever).
CatchesUp ==
    <>[](Live(Now) \cap poisoned = {} =>
            /\ graph.status = "ok"
            /\ \A s \in Signals : graph.of[s] = IF s \in Live(Now) THEN Now ELSE 0)

\* If no connection stays silent for ever, the one server thread gets to everyone
\* who waits: a client that asks again and again does not crowd out the others,
\* and neither does the loop, whether its passes succeed or not (226-227, 243).
\* The premise is needed: the server has no timeout, one silent connection holds
\* up all the others (221-243).
NobodyWaitsForever ==
    (\A d \in Clients : []<>(at[d] # "reading"))
        => \A c \in Clients : at[c] # "away" ~> at[c] = "away"

\* A signal whose pass always raises does not keep the ones before it in SIGNALS
\* from learning (the ones behind it are never reached: service.py:181-215).
EarlierSignalsLearn ==
    \A i \in DOMAIN Order :
        (\A j \in 1 .. i : Order[j] \notin poisoned)
            => <>[](Order[i] \in Live(Now) => memory[Order[i]] = Now)

=============================================================================
