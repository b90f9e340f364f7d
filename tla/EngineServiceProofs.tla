------------------------ MODULE EngineServiceProofs ------------------------
(***************************************************************************)
(* What every client of /graph can rely on, for any list of signals, any   *)
(* clients and any number of polls, exceptions and restarts.               *)
(*                                                                         *)
(* ServedIsDurable is not inductive: Observe replaces memory[s] by the     *)
(* window of the pass, which is no step back only because the window was   *)
(* fetched after every window the memories already hold.                   *)
(***************************************************************************)
EXTENDS EngineService, TLAPS

Graph == [status : {"boot", "ok", "error"}, of : [Signals -> Nat]]

\* The part of the state ServedIsDurable is about.
Shape ==
    /\ polls \in Seq(SUBSET Signals)
    /\ memory \in [Signals -> Nat]
    /\ window \in Nat
    /\ rendered \in [Signals -> Nat]
    /\ graph \in Graph
    /\ shown \in [Signals -> Nat]

\* Nothing is committed, rendered or shown that is not older than it should be.
Ordered ==
    /\ window <= Now
    /\ \A s \in Signals :
        /\ memory[s] <= Now
        /\ step \in {"events", "observe"} => memory[s] <= window
        /\ rendered[s] <= memory[s]

IInv == Shape /\ Ordered /\ ServedIsDurable

\* Nothing is served that is not committed: nothing is served.
LEMMA InitIInv == Init => IInv
BY ServiceAssumption
   DEF Init, IInv, Shape, Ordered, ServedIsDurable, Graph, Nothing, Boot, Now

\* Steps that leave the memories and everything rendered or shown as they are.
LEMMA IdleSteps ==
    ASSUME IInv,
           UNCHANGED <<polls, memory, window, rendered, graph, shown>>,
           step' \in {"events", "observe"} => step \in {"events", "observe"}
    PROVE  IInv'
BY DEF IInv, Shape, Ordered, ServedIsDurable, Graph, Now

\* A poll makes a newer window available and touches nothing else.
LEMMA PollStep ==
    ASSUME IInv, NEW live \in SUBSET Signals, Poll(live)
    PROVE  IInv'
<1>1. polls' \in Seq(SUBSET Signals) /\ Now' = Now + 1 /\ Now \in Nat
  BY DEF IInv, Shape, Poll, Now
<1> QED BY <1>1 DEF IInv, Shape, Ordered, ServedIsDurable, Graph, Poll, loopVars, serverVars

\* The loop takes the newest window there is.
LEMMA FetchWindowStep ==
    ASSUME IInv, FetchWindow
    PROVE  IInv'
<1>1. Now \in Nat /\ Now' = Now
  BY DEF IInv, Shape, FetchWindow, Now
<1> QED BY <1>1 DEF IInv, Shape, Ordered, ServedIsDurable, Graph, FetchWindow, serverVars

\* The pass begins: nothing is rendered yet.
LEMMA FetchEventsStep ==
    ASSUME IInv, FetchEvents
    PROVE  IInv'
BY DEF IInv, Shape, Ordered, ServedIsDurable, Graph, FetchEvents, serverVars, Nothing, Now

\* A memory goes forward to the window of the pass, whatever else happens.
LEMMA CommitKeeps ==
    ASSUME IInv, NEW s \in Signals, At(s),
           memory' = [memory EXCEPT ![s] = window],
           UNCHANGED <<polls, window, graph, shown>>,
           rendered' \in {rendered, [rendered EXCEPT ![s] = window]}
    PROVE  IInv'
<1>1. step = "observe"
  BY DEF At, Visiting
<1>2. window \in Nat /\ window <= Now /\ Now \in Nat /\ Now' = Now
  BY DEF IInv, Shape, Ordered, Now
<1>3. \A t \in Signals : /\ memory'[t] = IF t = s THEN window ELSE memory[t]
                         /\ memory[t] <= window /\ memory[t] \in Nat
                         /\ memory[t] <= memory'[t]
  BY <1>1, <1>2 DEF IInv, Shape, Ordered
<1>4. \A t \in Signals : rendered'[t] \in Nat /\ rendered'[t] <= memory'[t]
  BY <1>2, <1>3 DEF IInv, Shape, Ordered
<1>5. Shape'
  BY <1>2 DEF IInv, Shape
<1>6. Ordered'
  BY <1>2, <1>3, <1>4 DEF Ordered
<1>7. ServedIsDurable'
  BY <1>3 DEF IInv, ServedIsDurable, Shape, Graph
<1> QED BY <1>5, <1>6, <1>7 DEF IInv

\* What is published has been committed by every class it shows.
LEMMA PublishStep ==
    ASSUME IInv, Publish
    PROVE  IInv'
<1>1. graph' = [status |-> "ok", of |-> rendered] /\ graph' \in Graph
  BY DEF IInv, Shape, Publish, Graph
<1> QED BY <1>1 DEF IInv, Shape, Ordered, ServedIsDurable, Publish, serverVars, Now

\* The error graph shows no window.
LEMMA ReportStep ==
    ASSUME IInv, Report
    PROVE  IInv'
<1>1. graph' = Error /\ Error \in Graph /\ \A s \in Signals : Error.of[s] = 0
  BY DEF Report, Error, Nothing, Graph
<1> QED BY <1>1 DEF IInv, Shape, Ordered, ServedIsDurable, Report, serverVars, Now

\* What a client is sent is what is published now.
LEMMA LockStep ==
    ASSUME IInv, NEW c \in Clients, Lock(c)
    PROVE  IInv'
<1>1. \A s \in Signals : /\ shown[s] \in Nat /\ graph.of[s] \in Nat
                         /\ shown'[s] = Newer(shown[s], graph.of[s])
  BY DEF IInv, Shape, Graph, Lock
<1>2. shown' \in [Signals -> Nat] /\ \A s \in Signals : shown'[s] <= memory[s]
  BY <1>1 DEF IInv, ServedIsDurable, Lock, Newer
<1> QED BY <1>2 DEF IInv, Shape, Ordered, ServedIsDurable, Lock, loopVars, Now

\* A restart keeps the memories; the graph it starts with shows no window.
LEMMA RestartStep ==
    ASSUME IInv, Restart
    PROVE  IInv'
<1>1. graph' = Boot /\ Boot \in Graph /\ \A s \in Signals : Boot.of[s] = 0
  BY DEF Restart, Boot, Nothing, Graph
<1>2. Now \in Nat /\ Now' = Now
  BY DEF IInv, Shape, Restart, Now
<1> QED BY <1>1, <1>2 DEF IInv, Shape, Ordered, ServedIsDurable, Restart, Nothing, Graph

\* Every step keeps what was shown behind what is committed.
LEMMA NextIInv == IInv /\ [Next]_vars => IInv'
<1> SUFFICES ASSUME IInv, [Next]_vars PROVE IInv' OBVIOUS
<1>1. CASE \E live \in SUBSET Signals : Poll(live)
  BY <1>1, PollStep
<1>2. CASE Pass
  <2>1. CASE FetchWindow
    BY <2>1, FetchWindowStep
  <2>2. CASE FetchEvents
    BY <2>2, FetchEventsStep
  <2>3. ASSUME NEW s \in Signals, Skip(s) PROVE IInv'
    BY <2>3, IdleSteps DEF Skip, serverVars
  <2>4. ASSUME NEW s \in Signals, Observe(s) PROVE IInv'
    BY <2>4, CommitKeeps DEF Observe, serverVars
  <2>5. ASSUME NEW s \in Signals, Poison(s) PROVE IInv'
    BY <2>5, IdleSteps DEF Poison, serverVars
  <2> QED BY <1>2, <2>1, <2>2, <2>3, <2>4, <2>5 DEF Pass
<1>3. CASE Raise
  <2>1. CASE UNCHANGED memory
    BY <1>3, <2>1, IdleSteps DEF Raise, serverVars
  <2>2. ASSUME NEW s \in Signals, At(s), memory' = [memory EXCEPT ![s] = window]
        PROVE  IInv'
    BY <1>3, <2>2, CommitKeeps DEF Raise, serverVars
  <2>3. Live(window) \subseteq Signals
    BY DEF IInv, Shape, Ordered, Live, Now
  <2> QED BY <1>3, <2>1, <2>2, <2>3 DEF Raise
<1>4. CASE Publish
  BY <1>4, PublishStep
<1>5. CASE Report
  BY <1>5, ReportStep
<1>6. CASE Accept
  BY <1>6, IdleSteps DEF Accept, loopVars
<1>7. ASSUME NEW c \in Clients, Connection(c)
      PROVE  IInv'
  <2>1. CASE Connect(c)
    BY <2>1, IdleSteps DEF Connect, loopVars
  <2>2. CASE Lock(c)
    BY <2>2, LockStep
  <2>3. ASSUME NEW path, Ask(c, path) PROVE IInv'
    BY <2>3, IdleSteps DEF Ask, loopVars
  <2>4. CASE Drain(c)
    BY <2>4, IdleSteps DEF Drain, loopVars
  <2>5. CASE HangUp(c)
    BY <2>5, IdleSteps DEF HangUp, loopVars
  <2> QED BY <1>7, <2>1, <2>2, <2>3, <2>4, <2>5 DEF Connection
<1>8. CASE Restart
  BY <1>8, RestartStep
<1>9. CASE UNCHANGED vars
  BY <1>9, IdleSteps DEF vars
<1> QED BY <1>1, <1>2, <1>3, <1>4, <1>5, <1>6, <1>7, <1>8, <1>9 DEF Next

\* The strengthened invariant holds in every reachable state.
THEOREM Invariant == Spec => []IInv
BY InitIInv, NextIInv, PTL DEF Spec

\* No client is ever shown what a restart of the engine can lose: everything in
\* /graph, and in every reply sent so far, is committed (service.py:200, 214).
THEOREM ServedStaysDurable == Spec => []ServedIsDurable
<1>1. IInv => ServedIsDurable
  BY DEF IInv
<1> QED BY <1>1, Invariant, PTL

-----------------------------------------------------------------------------
(* Type correctness.  TypeOK is inductive as it stands; the proof of each  *)
(* step is split into the loop's part, the graph and the connections.      *)

LoopTypes ==
    /\ poisoned \subseteq Corruptible
    /\ polls \in Seq(SUBSET Signals) /\ Now <= MaxPolls
    /\ memory \in [Signals -> Windows]
    /\ step \in {"window", "events", "observe", "report"}
    /\ window \in 0 .. Now
    /\ next \in 1 .. Len(Order) + 1
    /\ rendered \in [Signals -> Windows]
    /\ graph \in Graphs
    /\ shown \in [Signals -> Windows]
    /\ faults \in 0 .. MaxFaults

ServerTypes ==
    /\ lock \in {"free", "server"}
    /\ backlog \in Seq(Clients)
    /\ serving \in Clients \cup {NoClient}
    /\ at \in [Clients -> {"away", "queued", "reading", "locking", "writing"}]
    /\ lock = "server" <=> \E c \in Clients : at[c] = "writing"
    /\ \A c \in Clients : at[c] \in {"reading", "locking", "writing"} <=> serving = c

\* What the arithmetic of the loop's part rests on.
LEMMA Ranges ==
    ASSUME LoopTypes
    PROVE  /\ Now \in Nat /\ Len(Order) \in Nat
           /\ window \in Windows /\ 0 \in Windows
           /\ Nothing \in [Signals -> Windows]
           /\ Boot \in Graphs /\ Error \in Graphs
<1>1. Now \in Nat /\ Len(Order) \in Nat
  BY ServiceAssumption DEF LoopTypes, Now
<1>2. window \in Windows /\ 0 \in Windows
  BY <1>1, ServiceAssumption DEF LoopTypes, Windows
<1>3. Nothing \in [Signals -> Windows]
  BY <1>2 DEF Nothing
<1> QED BY <1>1, <1>2, <1>3 DEF Boot, Error, Graphs

\* A new poll moves the bound of the windows and nothing else.
LEMMA PollTypes ==
    ASSUME LoopTypes, NEW live \in SUBSET Signals, Poll(live)
    PROVE  LoopTypes'
<1>1. polls' \in Seq(SUBSET Signals) /\ Now' = Now + 1 /\ Now \in Nat
  BY DEF LoopTypes, Poll, Now
<1>2. Now' <= MaxPolls
  BY <1>1, ServiceAssumption DEF Poll
<1> QED BY <1>1, <1>2 DEF LoopTypes, Poll, loopVars, serverVars

\* The loop's steps keep the loop's half.
LEMMA LoopStepTypes ==
    ASSUME LoopTypes, Pass \/ Raise \/ Publish \/ Report \/ Restart
    PROVE  LoopTypes'
<1>1. /\ Now \in Nat /\ Len(Order) \in Nat
      /\ window \in Windows /\ 0 \in Windows
      /\ Nothing \in [Signals -> Windows]
      /\ Boot \in Graphs /\ Error \in Graphs
  BY Ranges
<1>2. Now' = Now
  BY DEF Pass, Raise, Publish, Report, Restart, FetchWindow, FetchEvents, Skip,
         Observe, Poison, Now
<1>3. CASE FetchWindow
  BY <1>1, <1>2, <1>3 DEF FetchWindow, LoopTypes, serverVars
<1>4. CASE FetchEvents
  BY <1>1, <1>2, <1>4 DEF FetchEvents, LoopTypes, serverVars
<1>5. ASSUME NEW s \in Signals, Skip(s) PROVE LoopTypes'
  BY <1>1, <1>2, <1>5 DEF Skip, At, Visiting, LoopTypes, serverVars
<1>6. ASSUME NEW s \in Signals, Observe(s) PROVE LoopTypes'
  BY <1>1, <1>2, <1>6 DEF Observe, At, Visiting, LoopTypes, serverVars
<1>7. ASSUME NEW s \in Signals, Poison(s) PROVE LoopTypes'
  BY <1>1, <1>2, <1>7 DEF Poison, LoopTypes, serverVars
<1>8. CASE Raise
  <2>1. faults' \in 0 .. MaxFaults
    BY <1>8, ServiceAssumption DEF Raise, LoopTypes
  <2>2. memory' \in [Signals -> Windows]
    BY <1>1, <1>8 DEF Raise, LoopTypes
  <2> QED BY <1>2, <1>8, <2>1, <2>2 DEF Raise, LoopTypes, serverVars
<1>9. CASE Publish
  <2>1. graph' \in Graphs
    BY <1>9 DEF Publish, LoopTypes, Graphs
  <2> QED BY <1>2, <1>9, <2>1 DEF Publish, LoopTypes, serverVars
<1>10. CASE Report
  BY <1>1, <1>2, <1>10 DEF Report, LoopTypes, serverVars
<1>11. CASE Restart
  <2>1. faults' \in 0 .. MaxFaults
    BY <1>11, ServiceAssumption DEF Restart, LoopTypes
  <2> QED BY <1>1, <1>2, <1>11, <2>1 DEF Restart, LoopTypes
<1> QED BY <1>3, <1>4, <1>5, <1>6, <1>7, <1>8, <1>9, <1>10, <1>11 DEF Pass

\* A client's step touches the loop's half only through what it is shown.
LEMMA ClientStepTypes ==
    ASSUME LoopTypes, NEW c \in Clients,
           Accept \/ Connection(c)
    PROVE  LoopTypes'
<1>1. CASE Lock(c)
  <2>1. \A s \in Signals : shown[s] \in Windows /\ graph.of[s] \in Windows
    BY DEF LoopTypes, Graphs
  <2>2. shown' \in [Signals -> Windows]
    BY <1>1, <2>1 DEF Lock, Newer
  <2> QED BY <1>1, <2>2 DEF Lock, loopVars, LoopTypes, Now
<1>2. CASE ~Lock(c)
  <2>1. UNCHANGED <<poisoned, polls, loopVars, graph, shown, faults>>
    BY <1>2 DEF Accept, Connection, Connect, Ask, Drain, HangUp
  <2> QED BY <2>1 DEF loopVars, LoopTypes, Now
<1> QED BY <1>1, <1>2

\* The steps of the server and its clients keep the other half: whoever has the
\* server's attention is the only one past the queue, so the lock goes with the
\* connection that wrote.
LEMMA ServerStepTypes ==
    ASSUME ServerTypes, NEW c \in Clients,
           Accept \/ Connection(c)
    PROVE  ServerTypes'
<1> USE ServiceAssumption DEF ServerTypes, Move
<1>1. CASE Accept
  <2>1. Head(backlog) \in Clients /\ Tail(backlog) \in Seq(Clients)
    BY <1>1 DEF Accept
  <2> QED BY <1>1, <2>1 DEF Accept
<1>2. CASE Connect(c)
  <2>1. backlog' \in Seq(Clients)
    BY <1>2 DEF Connect
  <2> QED BY <1>2, <2>1 DEF Connect
<1>3. CASE Lock(c)
  BY <1>3 DEF Lock
<1>4. ASSUME NEW path, Ask(c, path) PROVE ServerTypes'
  <2>1. CASE path = "/graph"
    BY <1>4, <2>1 DEF Ask
  <2>2. CASE path # "/graph"
    BY <1>4, <2>2 DEF Ask
  <2> QED BY <2>1, <2>2
<1>5. CASE Drain(c)
  BY <1>5 DEF Drain
<1>6. CASE HangUp(c)
  <2>1. backlog' \in Seq(Clients)
    <3>1. CASE at[c] = "queued"
      <4>1. PICK i \in DOMAIN backlog :
                backlog' = SubSeq(backlog, 1, i - 1)
                              \o SubSeq(backlog, i + 1, Len(backlog))
        BY <1>6, <3>1 DEF HangUp, Withdraw
      <4>2. /\ SubSeq(backlog, 1, i - 1) \in Seq(Clients)
            /\ SubSeq(backlog, i + 1, Len(backlog)) \in Seq(Clients)
        BY <4>1
      <4> QED BY <4>1, <4>2
    <3>2. CASE at[c] # "queued"
      BY <1>6, <3>2 DEF HangUp, Withdraw
    <3> QED BY <3>1, <3>2
  <2>2. CASE at[c] = "queued"
    BY <1>6, <2>1, <2>2 DEF HangUp
  <2>3. CASE at[c] = "reading"
    BY <1>6, <2>1, <2>3 DEF HangUp
  <2>4. CASE at[c] = "writing"
    BY <1>6, <2>1, <2>4 DEF HangUp
  <2> QED BY <1>6, <2>2, <2>3, <2>4 DEF HangUp
<1> QED BY <1>1, <1>2, <1>3, <1>4, <1>5, <1>6 DEF Connection

\* The loop before its first pass, no client connected.
LEMMA InitTypeOK == Init => TypeOK
<1> SUFFICES ASSUME Init PROVE TypeOK OBVIOUS
<1>1. Now = 0 /\ polls \in Seq(SUBSET Signals) /\ 0 \in Windows
  BY ServiceAssumption DEF Init, Now, Windows
<1>2. Nothing \in [Signals -> Windows] /\ Boot \in Graphs
  BY <1>1 DEF Nothing, Boot, Graphs
<1>3. LoopTypes
  BY <1>1, <1>2, ServiceAssumption DEF Init, LoopTypes
<1>4. ServerTypes
  BY ServiceAssumption DEF Init, ServerTypes
<1> QED BY <1>3, <1>4 DEF TypeOK, LoopTypes, ServerTypes

\* Every step keeps the types of the loop and of the server.
LEMMA NextTypeOK == TypeOK /\ [Next]_vars => TypeOK'
<1> SUFFICES ASSUME LoopTypes, ServerTypes, [Next]_vars
             PROVE  LoopTypes' /\ ServerTypes'
  BY DEF TypeOK, LoopTypes, ServerTypes
<1>1. ASSUME NEW live \in SUBSET Signals, Poll(live)
      PROVE  LoopTypes' /\ ServerTypes'
  BY <1>1, PollTypes DEF Poll, serverVars, ServerTypes
<1>2. CASE Pass \/ Raise \/ Publish \/ Report
  <2>1. UNCHANGED serverVars
    BY <1>2 DEF Pass, Raise, Publish, Report, FetchWindow, FetchEvents, Skip,
                Observe, Poison
  <2> QED BY <1>2, <2>1, LoopStepTypes DEF serverVars, ServerTypes
<1>3. CASE Restart
  <2>1. ServerTypes'
    BY <1>3, ServiceAssumption DEF Restart, ServerTypes
  <2> QED BY <1>3, <2>1, LoopStepTypes
<1>4. CASE Accept
  <2>1. PICK c \in Clients : TRUE
    <3>1. Head(backlog) \in Clients
      BY <1>4 DEF Accept, ServerTypes
    <3> QED BY <3>1
  <2> QED BY <1>4, ClientStepTypes, ServerStepTypes
<1>5. ASSUME NEW c \in Clients, Connection(c)
      PROVE  LoopTypes' /\ ServerTypes'
  BY <1>5, ClientStepTypes, ServerStepTypes
<1>6. CASE UNCHANGED vars
  BY <1>6 DEF vars, LoopTypes, ServerTypes, Now
<1> QED BY <1>1, <1>2, <1>3, <1>4, <1>5, <1>6 DEF Next

\* TypeOK holds in every state: in particular _lock is held exactly while the
\* connection being handled is written to, and never by one that is gone
\* (service.py:226-227).
THEOREM TypeCorrect == Spec => []TypeOK
BY InitTypeOK, NextTypeOK, PTL DEF Spec

-----------------------------------------------------------------------------
(* A verdict is one whole pass.                                            *)

\* In the middle of a pass, rendered holds the window of the pass for the
\* signals visited so far that have vectors in it, and nothing else.
PassSoFar ==
    step = "observe" =>
        \A i \in DOMAIN Order :
            rendered[Order[i]] =
                IF i < next /\ Order[i] \in Live(window) THEN window ELSE 0

WInv == TypeOK /\ PassSoFar /\ WholePass

\* A poll adds a window and leaves the ones before it as they were.
LEMMA PollKeepsWindows ==
    ASSUME TypeOK, NEW live \in SUBSET Signals, Poll(live),
           NEW w \in 0 .. Now
    PROVE  Live(w)' = Live(w) /\ w \in 0 .. Now'
<1>1. Now \in Nat /\ Now' = Now + 1
  BY DEF TypeOK, Poll, Now
<1>2. w # 0 => polls'[w] = polls[w]
  BY <1>1 DEF TypeOK, Poll, Now
<1> QED BY <1>1, <1>2 DEF Live

\* The index of a visited signal is the loop's, because no signal is twice in
\* SIGNALS.
LEMMA VisitStep ==
    ASSUME TypeOK, PassSoFar, NEW s \in Signals, Skip(s) \/ Observe(s)
    PROVE  PassSoFar'
<1>1. /\ step = "observe" /\ next \in DOMAIN Order /\ Order[next] = s
      /\ next' = next + 1 /\ UNCHANGED <<step, window, polls>>
  BY ServiceAssumption DEF TypeOK, Skip, Observe, At, Visiting
<1>2. Live(window)' = Live(window)
  BY <1>1 DEF Live
<1>3. ASSUME NEW i \in DOMAIN Order
      PROVE  rendered'[Order[i]] =
                IF i < next' /\ Order[i] \in Live(window)' THEN window' ELSE 0
  <2>1. Order[i] \in Signals /\ (Order[i] = s <=> i = next)
    BY <1>1, ServiceAssumption DEF Signals
  <2>2. i \in Nat /\ next \in Nat
    BY <1>1, ServiceAssumption
  <2>3. CASE i = next
    <3>1. rendered[s] = 0
      BY <1>1, <2>2, <2>3 DEF PassSoFar
    <3> QED BY <1>1, <1>2, <2>1, <2>3, <3>1 DEF Skip, Observe, TypeOK
  <2>4. CASE i # next
    <3>1. rendered'[Order[i]] = rendered[Order[i]]
      BY <2>1, <2>4 DEF Skip, Observe, TypeOK
    <3>2. i < next' <=> i < next
      BY <1>1, <2>2, <2>4
    <3> QED BY <1>1, <1>2, <3>1, <3>2 DEF PassSoFar
  <2> QED BY <2>3, <2>4
<1> QED BY <1>3 DEF PassSoFar

\* A pass renders the classes in order, each from the window it fetched.
LEMMA NextWInv == WInv /\ [Next]_vars => WInv'
<1> SUFFICES ASSUME WInv, [Next]_vars PROVE PassSoFar' /\ WholePass'
  BY NextTypeOK DEF WInv
<1> USE DEF WInv
<1>1. ASSUME NEW live \in SUBSET Signals, Poll(live)
      PROVE  PassSoFar' /\ WholePass'
  <2>1. \A w \in 0 .. Now : Live(w)' = Live(w) /\ w \in 0 .. Now'
    BY <1>1, PollKeepsWindows
  <2>2. PassSoFar'
    BY <1>1, <2>1 DEF Poll, loopVars, PassSoFar, TypeOK
  <2>3. WholePass'
    BY <1>1, <2>1 DEF Poll, WholePass
  <2> QED BY <2>2, <2>3
<1>2. CASE FetchWindow \/ Report \/ Restart \/ Raise
           \/ \E s \in Signals : Poison(s)
  <2>1. step' # "observe"
    BY <1>2 DEF FetchWindow, Report, Restart, Raise, Poison
  <2>2. CASE Report \/ Restart
    BY <2>1, <2>2 DEF Report, Restart, Error, Boot, PassSoFar, WholePass
  <2>3. CASE ~(Report \/ Restart)
    <3>1. UNCHANGED <<polls, graph>>
      BY <1>2, <2>3 DEF FetchWindow, Raise, Poison
    <3> QED BY <2>1, <3>1 DEF PassSoFar, WholePass, Live, Now
  <2> QED BY <2>2, <2>3
<1>3. CASE FetchEvents
  <2>1. PassSoFar'
    <3>1. \A i \in DOMAIN Order : ~(i < 1) /\ Order[i] \in Signals
      BY ServiceAssumption DEF Signals
    <3> QED BY <1>3, <3>1 DEF FetchEvents, PassSoFar, Nothing
  <2>2. WholePass'
    BY <1>3 DEF FetchEvents, WholePass, Live, Now
  <2> QED BY <2>1, <2>2
<1>4. ASSUME NEW s \in Signals, Skip(s) \/ Observe(s)
      PROVE  PassSoFar' /\ WholePass'
  <2>1. UNCHANGED <<polls, graph>>
    BY <1>4 DEF Skip, Observe
  <2> QED BY <1>4, <2>1, VisitStep DEF WholePass, Live, Now
<1>5. CASE Publish
  <2>1. step' # "observe"
    BY <1>5 DEF Publish
  <2>2. \A i \in DOMAIN Order : i < next
    BY <1>5, ServiceAssumption DEF Publish, Visiting, TypeOK
  <2>3. \A s \in Signals : rendered[s] = IF s \in Live(window) THEN window ELSE 0
    BY <1>5, <2>2 DEF Publish, PassSoFar, Signals
  <2>4. UNCHANGED polls /\ graph'.of = rendered /\ window \in 0 .. Now
    BY <1>5 DEF Publish, TypeOK
  <2>5. \A w : Live(w)' = Live(w)
    BY <2>4 DEF Live
  <2>6. WholePass'
    BY <2>3, <2>4, <2>5 DEF WholePass, Now
  <2> QED BY <2>1, <2>6 DEF PassSoFar
<1>6. CASE UNCHANGED <<polls, loopVars, graph>>
  BY <1>6 DEF loopVars, PassSoFar, WholePass, Live, Now
<1>7. ASSUME NEW c \in Clients, Connection(c)
      PROVE  UNCHANGED <<polls, loopVars, graph>>
  BY <1>7 DEF Connection, Connect, Lock, Ask, Drain, HangUp
<1>8. Accept \/ UNCHANGED vars => UNCHANGED <<polls, loopVars, graph>>
  BY DEF Accept, vars, loopVars
<1> QED BY <1>1, <1>2, <1>3, <1>4, <1>5, <1>6, <1>7, <1>8 DEF Next, Pass

\* WholePass: what /graph shows with status "ok" is one pass over one window,
\* for any list of signals, whatever was polled, raised or restarted meanwhile
\* (service.py:185, 187-189, 201, 215-217).
THEOREM VerdictsAreWhole == Spec => []WholePass
<1>1. Init => PassSoFar /\ WholePass
  BY DEF Init, PassSoFar, WholePass, Boot
<1>2. Init => WInv
  BY <1>1, InitTypeOK DEF WInv
<1>3. WInv => WholePass
  BY DEF WInv
<1> QED BY <1>2, <1>3, NextWInv, PTL DEF Spec

=============================================================================
