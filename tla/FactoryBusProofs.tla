-------------------------- MODULE FactoryBusProofs --------------------------
(***************************************************************************)
(* Proofs about telemetry-ingest: what reaches the readings table, for any *)
(* queue, any batch and any number of readings, failed commits, broker and *)
(* pod restarts.                                                           *)
(***************************************************************************)
EXTENDS FactoryBus, TLAPS

Asc(s) == \A i, j \in 1 .. Len(s) : i < j => s[i] < s[j]
Before(s, t) == \A i \in 1 .. Len(s), j \in 1 .. Len(t) : s[i] < t[j]
UpTo(s, n) == \A i \in 1 .. Len(s) : s[i] <= n

\* ReadingsOnce does not say why a reading that arrives comes after all others:
\* nothing stored, held or queued is later than the last one fired.  And a batch
\* that is committed and not counted yet is already among the rows.
IngestInv ==
    /\ fired \in Nat /\ inserted \in Nat
    /\ rows \in Seq(Nat) /\ batch \in Seq(Nat) /\ queue \in Seq(Nat)
    /\ Asc(rows) /\ Asc(batch) /\ Asc(queue)
    /\ Before(rows, queue) /\ Before(batch, queue)
    /\ writer = "write" => Before(rows, batch)
    /\ UpTo(rows, fired) /\ UpTo(batch, fired) /\ UpTo(queue, fired)
    /\ Len(queue) <= QueueCap
    /\ inserted + (IF writer = "count" THEN Len(batch) ELSE 0) <= Len(rows)

-----------------------------------------------------------------------------
(* Ascending sequences.                                                    *)

\* Two ascending sequences, one before the other, are one.
LEMMA AscConcat ==
    ASSUME NEW s \in Seq(Nat), NEW t \in Seq(Nat), Asc(s), Asc(t), Before(s, t)
    PROVE  s \o t \in Seq(Nat) /\ Asc(s \o t)
<1> DEFINE u == s \o t
<1>1. /\ u \in Seq(Nat) /\ Len(u) = Len(s) + Len(t)
      /\ Len(s) \in Nat /\ Len(t) \in Nat
  OBVIOUS
<1>2. \A i \in 1 .. Len(u) : u[i] = IF i <= Len(s) THEN s[i] ELSE t[i - Len(s)]
  OBVIOUS
<1>3. ASSUME NEW i \in 1 .. Len(u), NEW j \in 1 .. Len(u), i < j
      PROVE  u[i] < u[j]
  <2> HIDE DEF u
  <2>1. CASE j <= Len(s)
    <3>1. i \in 1 .. Len(s) /\ j \in 1 .. Len(s)
      BY <1>1, <1>3, <2>1
    <3>2. u[i] = s[i] /\ u[j] = s[j]
      BY <1>2, <1>3, <2>1, <3>1
    <3> QED BY <1>3, <3>1, <3>2 DEF Asc
  <2>2. CASE i <= Len(s) /\ ~(j <= Len(s))
    <3>1. u[i] = s[i] /\ u[j] = t[j - Len(s)]
      BY <1>2, <2>2
    <3>2. i \in 1 .. Len(s) /\ j - Len(s) \in 1 .. Len(t)
      BY <1>1, <2>2
    <3> QED BY <3>1, <3>2 DEF Before
  <2>3. CASE ~(i <= Len(s))
    <3>1. u[i] = t[i - Len(s)] /\ u[j] = t[j - Len(s)]
      BY <1>1, <1>2, <1>3, <2>3
    <3>2. /\ i - Len(s) \in 1 .. Len(t) /\ j - Len(s) \in 1 .. Len(t)
          /\ i - Len(s) < j - Len(s)
      BY <1>1, <1>3, <2>3
    <3> QED BY <3>1, <3>2 DEF Asc
  <2> QED BY <1>1, <1>3, <2>1, <2>2, <2>3
<1> QED BY <1>1, <1>3 DEF Asc

\* What is before or bounds both parts does so for the whole.
LEMMA ConcatBounds ==
    ASSUME NEW s \in Seq(Nat), NEW t \in Seq(Nat)
    PROVE  /\ \A v \in Seq(Nat) : Before(s, v) /\ Before(t, v) => Before(s \o t, v)
           /\ \A n \in Nat : UpTo(s, n) /\ UpTo(t, n) => UpTo(s \o t, n)
           /\ Len(s \o t) = Len(s) + Len(t)
<1> DEFINE u == s \o t
<1>1. Len(u) = Len(s) + Len(t) /\ Len(s) \in Nat /\ Len(t) \in Nat
  OBVIOUS
<1>2. \A i \in 1 .. Len(u) : \/ i \in 1 .. Len(s) /\ u[i] = s[i]
                             \/ i - Len(s) \in 1 .. Len(t) /\ u[i] = t[i - Len(s)]
  OBVIOUS
<1> HIDE DEF u
<1>3. \A v \in Seq(Nat) : Before(s, v) /\ Before(t, v) => Before(u, v)
  BY <1>2 DEF Before
<1>4. \A n \in Nat : UpTo(s, n) /\ UpTo(t, n) => UpTo(u, n)
  BY <1>2 DEF UpTo
<1> QED BY <1>1, <1>3, <1>4 DEF u

\* The first n elements of an ascending sequence and the others.
LEMMA Split ==
    ASSUME NEW s \in Seq(Nat), Asc(s), NEW n \in Nat, n <= Len(s)
    PROVE  LET a == SubSeq(s, 1, n)
               b == SubSeq(s, n + 1, Len(s))
           IN  /\ a \in Seq(Nat) /\ b \in Seq(Nat)
               /\ Asc(a) /\ Asc(b) /\ Before(a, b)
               /\ Len(b) <= Len(s)
               /\ \A m \in Nat : UpTo(s, m) => UpTo(a, m) /\ UpTo(b, m)
               /\ \A v \in Seq(Nat) : Before(v, s) => Before(v, a) /\ Before(v, b)
<1> DEFINE a == SubSeq(s, 1, n)
           b == SubSeq(s, n + 1, Len(s))
<1>1. /\ a \in Seq(Nat) /\ Len(a) = n
      /\ \A i \in 1 .. Len(a) : i \in 1 .. Len(s) /\ a[i] = s[i]
  OBVIOUS
<1>2. /\ b \in Seq(Nat) /\ Len(b) = Len(s) - n
      /\ \A i \in 1 .. Len(b) : n + i \in 1 .. Len(s) /\ b[i] = s[n + i]
  OBVIOUS
<1> HIDE DEF a, b
<1>3. Asc(a)
  BY <1>1 DEF Asc
<1>4. Asc(b)
  <2> SUFFICES ASSUME NEW i \in 1 .. Len(b), NEW j \in 1 .. Len(b), i < j
               PROVE  b[i] < b[j]
    BY DEF Asc
  <2>1. n + i < n + j
    BY <1>2
  <2> QED BY <1>2, <2>1 DEF Asc
<1>5. Before(a, b)
  <2> SUFFICES ASSUME NEW i \in 1 .. Len(a), NEW j \in 1 .. Len(b)
               PROVE  a[i] < b[j]
    BY DEF Before
  <2>1. i < n + j
    BY <1>1, <1>2
  <2> QED BY <1>1, <1>2, <2>1 DEF Asc
<1>6. \A m \in Nat : UpTo(s, m) => UpTo(a, m) /\ UpTo(b, m)
  BY <1>1, <1>2 DEF UpTo
<1>7. \A v \in Seq(Nat) : Before(v, s) => Before(v, a) /\ Before(v, b)
  BY <1>1, <1>2 DEF Before
<1> QED BY <1>1, <1>2, <1>3, <1>4, <1>5, <1>6, <1>7 DEF a, b

\* A reading later than all others goes to the end.
LEMMA AppendLast ==
    ASSUME NEW s \in Seq(Nat), Asc(s), NEW n \in Nat, UpTo(s, n)
    PROVE  LET a == Append(s, n + 1)
           IN  /\ a \in Seq(Nat) /\ Asc(a) /\ Len(a) = Len(s) + 1
               /\ UpTo(a, n + 1)
               /\ \A v \in Seq(Nat) : Before(v, s) /\ UpTo(v, n) => Before(v, a)
<1> DEFINE a == Append(s, n + 1)
<1>1. /\ a \in Seq(Nat) /\ Len(a) = Len(s) + 1
      /\ \A i \in 1 .. Len(s) : a[i] = s[i] /\ s[i] \in Nat
      /\ a[Len(s) + 1] = n + 1
      /\ Len(s) \in Nat
  OBVIOUS
<1> HIDE DEF a
<1>2. \A i \in 1 .. Len(a) : i \in 1 .. Len(s) \/ i = Len(s) + 1
  BY <1>1
<1>3. \A i \in 1 .. Len(s) : a[i] <= n /\ a[i] \in Nat
  BY <1>1 DEF UpTo
<1>4. Asc(a)
  <2> SUFFICES ASSUME NEW i \in 1 .. Len(a), NEW j \in 1 .. Len(a), i < j
               PROVE  a[i] < a[j]
    BY DEF Asc
  <2>1. i \in 1 .. Len(s)
    BY <1>1, <1>2
  <2>2. CASE j \in 1 .. Len(s)
    BY <1>1, <2>1, <2>2 DEF Asc
  <2>3. CASE j = Len(s) + 1
    BY <1>1, <1>3, <2>1, <2>3
  <2> QED BY <1>2, <2>2, <2>3
<1>5. UpTo(a, n + 1)
  <2> SUFFICES ASSUME NEW i \in 1 .. Len(a) PROVE a[i] <= n + 1
    BY DEF UpTo
  <2>1. CASE i \in 1 .. Len(s)
    BY <1>3, <2>1
  <2>2. CASE i = Len(s) + 1
    BY <1>1, <2>2
  <2> QED BY <1>2, <2>1, <2>2
<1>6. \A v \in Seq(Nat) : Before(v, s) /\ UpTo(v, n) => Before(v, a)
  <2> SUFFICES ASSUME NEW v \in Seq(Nat), Before(v, s), UpTo(v, n),
                      NEW i \in 1 .. Len(v), NEW j \in 1 .. Len(a)
               PROVE  v[i] < a[j]
    BY DEF Before
  <2>1. v[i] <= n /\ v[i] \in Nat
    BY DEF UpTo
  <2>2. CASE j \in 1 .. Len(s)
    BY <1>1, <2>2 DEF Before
  <2>3. CASE j = Len(s) + 1
    BY <1>1, <2>1, <2>3
  <2> QED BY <1>2, <2>2, <2>3
<1> QED BY <1>1, <1>4, <1>5, <1>6 DEF a

\* The empty sequence is ascending, before and after every other.
LEMMA EmptyBounds ==
    /\ <<>> \in Seq(Nat) /\ Len(<<>>) = 0 /\ Asc(<<>>)
    /\ \A n : UpTo(<<>>, n)
    /\ \A v : Before(<<>>, v) /\ Before(v, <<>>)
BY DEF Asc, UpTo, Before

-----------------------------------------------------------------------------
(* The steps of telemetry-ingest.                                          *)

\* A reading joins the queue behind everything that came before it, or is
\* dropped when nobody listens or the queue is full.
LEMMA ReadingStep ==
    ASSUME IngestInv, Reading
    PROVE  IngestInv'
<1> DEFINE joined == Append(queue, fired + 1)
<1>1. /\ joined \in Seq(Nat) /\ Asc(joined) /\ Len(joined) = Len(queue) + 1
      /\ UpTo(joined, fired + 1)
      /\ \A v \in Seq(Nat) : Before(v, queue) /\ UpTo(v, fired) => Before(v, joined)
  BY AppendLast DEF IngestInv
<1> HIDE DEF joined
<1>2. \A v \in Seq(Nat) : UpTo(v, fired) => UpTo(v, fired + 1)
  BY DEF IngestInv, UpTo
<1>3. fired' = fired + 1 /\ UNCHANGED <<writer, batch, rows, inserted>>
  BY DEF Reading
<1>4. UpTo(rows, fired') /\ UpTo(batch, fired') /\ UpTo(queue, fired')
  BY <1>2, <1>3 DEF IngestInv
<1>5. CASE "ingest" \in subs /\ Len(queue) < QueueCap
  <2>1. queue' = joined
    BY <1>5 DEF Reading, joined
  <2>2. Len(joined) <= QueueCap
    BY <1>1, <1>5, BusAssumption DEF IngestInv
  <2>3. Before(rows, joined) /\ Before(batch, joined)
    BY <1>1 DEF IngestInv
  <2> QED BY <1>1, <1>3, <1>4, <2>1, <2>2, <2>3 DEF IngestInv
<1>6. CASE ~("ingest" \in subs /\ Len(queue) < QueueCap)
  <2>1. queue' = queue
    BY <1>6 DEF Reading
  <2> QED BY <1>3, <1>4, <2>1 DEF IngestInv
<1> QED BY <1>5, <1>6

\* The writer takes the oldest readings of the queue.
LEMMA TakeStep ==
    ASSUME IngestInv, NEW n \in 1 .. BatchMax, Take(n)
    PROVE  IngestInv'
<1>1. n \in Nat /\ n <= Len(queue)
  BY BusAssumption DEF Take
<1>2. /\ batch' \in Seq(Nat) /\ queue' \in Seq(Nat)
      /\ Asc(batch') /\ Asc(queue') /\ Before(batch', queue')
      /\ Len(queue') <= Len(queue)
      /\ UpTo(batch', fired) /\ UpTo(queue', fired)
      /\ Before(rows, batch') /\ Before(rows, queue')
  BY <1>1, Split DEF IngestInv, Take
<1>3. Len(queue') <= QueueCap
  BY <1>2, BusAssumption DEF IngestInv
<1>4. inserted <= Len(rows)
  BY DEF IngestInv, Take
<1>5. writer' = "write" /\ UNCHANGED <<fired, rows, inserted>>
  BY DEF Take
<1> QED BY <1>2, <1>3, <1>4, <1>5 DEF IngestInv

\* What a commit adds to the table, whether its answer arrives or not.
LEMMA Committed ==
    ASSUME IngestInv, writer = "write"
    PROVE  /\ rows \o batch \in Seq(Nat) /\ Asc(rows \o batch)
           /\ Before(rows \o batch, queue) /\ UpTo(rows \o batch, fired)
           /\ inserted + Len(batch) <= Len(rows \o batch)
           /\ inserted <= Len(rows \o batch)
<1>1. rows \o batch \in Seq(Nat) /\ Asc(rows \o batch)
  BY AscConcat DEF IngestInv
<1>2. /\ Before(rows \o batch, queue) /\ UpTo(rows \o batch, fired)
      /\ Len(rows \o batch) = Len(rows) + Len(batch)
  BY ConcatBounds DEF IngestInv
<1>3. Len(rows) \in Nat /\ Len(batch) \in Nat /\ inserted \in Nat /\ inserted <= Len(rows)
  BY DEF IngestInv
<1> QED BY <1>1, <1>2, <1>3

\* The batch is committed behind the rows.
LEMMA WriteStep ==
    ASSUME IngestInv, Write
    PROVE  IngestInv'
<1>1. /\ writer = "write" /\ writer' = "count" /\ rows' = rows \o batch
      /\ UNCHANGED <<fired, queue, batch, inserted>>
  BY DEF Write
<1> QED BY <1>1, Committed DEF IngestInv

\* A lost answer leaves the batch in the table or not; it is forgotten.
LEMMA WriteFailsStep ==
    ASSUME IngestInv, WriteFails
    PROVE  IngestInv'
<1>1. /\ writer = "write" /\ writer' = "connect" /\ batch' = <<>>
      /\ UNCHANGED <<fired, queue, inserted>>
  BY DEF WriteFails
<1>2. /\ rows' \in Seq(Nat) /\ Asc(rows') /\ Before(rows', queue)
      /\ UpTo(rows', fired) /\ inserted <= Len(rows')
  <2>1. CASE rows' = rows
    BY <1>1, <2>1 DEF IngestInv
  <2>2. CASE rows' = rows \o batch
    BY <1>1, <2>2, Committed
  <2> QED BY <2>1, <2>2 DEF WriteFails
<1> QED BY <1>1, <1>2, EmptyBounds DEF IngestInv

\* What is counted is in the table.
LEMMA CountStep ==
    ASSUME IngestInv, Count
    PROVE  IngestInv'
<1>1. /\ writer = "count" /\ writer' = "get" /\ batch' = <<>>
      /\ inserted' = inserted + Len(batch) /\ UNCHANGED <<fired, queue, rows>>
  BY DEF Count
<1>2. inserted' \in Nat /\ inserted' <= Len(rows)
  BY <1>1 DEF IngestInv
<1> QED BY <1>1, <1>2, EmptyBounds DEF IngestInv

\* A restart loses the queue and the batch, never a row.
LEMMA IngestRestartStep ==
    ASSUME IngestInv, IngestRestart
    PROVE  IngestInv'
<1>1. /\ writer' = "connect" /\ batch' = <<>> /\ queue' = <<>>
      /\ inserted' = 0 /\ UNCHANGED <<fired, rows>>
  BY DEF IngestRestart
<1>2. Len(rows) \in Nat /\ 0 <= QueueCap
  BY BusAssumption DEF IngestInv
<1> QED BY <1>1, <1>2, EmptyBounds DEF IngestInv

\* Every step of the bus keeps the readings in order.
LEMMA NextIngestInv == IngestInv /\ [Next]_vars => IngestInv'
<1> SUFFICES ASSUME IngestInv, [Next]_vars PROVE IngestInv' OBVIOUS
<1>1. CASE UNCHANGED ingest
  BY <1>1 DEF ingest, IngestInv
<1>2. CASE BrokerRestart \/ RelayTurns \/ Heartbeat \/ Callback \/ Second \/ Ticking
           \/ InterlockRestart \/ UNCHANGED vars
  <2>1. UNCHANGED ingest
    BY <1>2 DEF BrokerRestart, RelayTurns, Heartbeat, Callback, Deliver, Rearm,
                Second, Ticking, LoadLast, LoadTripped, Trip, InterlockRestart, vars
  <2> QED BY <1>1, <2>1
<1>3. CASE Connect
  BY <1>3 DEF Connect, IngestInv
<1> QED
  BY <1>2, <1>3, ReadingStep, TakeStep, WriteStep, CountStep, WriteFailsStep,
     IngestRestartStep DEF Next, Writing

-----------------------------------------------------------------------------

\* ReadingsOnce: whatever the database does with a commit whose answer is lost,
\* and however often broker and pod restart, a delivery is stored at most once
\* and in the order of arrival, the queue keeps to its bound and the counter
\* counts rows that are there (main.py:14-16, 24-37).
THEOREM ReadingsStoredOnce == Spec => []ReadingsOnce
<1>1. Init => IngestInv
  BY EmptyBounds, BusAssumption DEF Init, IngestInv
<1>2. IngestInv => ReadingsOnce
  <2> SUFFICES ASSUME IngestInv PROVE ReadingsOnce OBVIOUS
  <2>1. Written \in Seq(Nat) /\ Asc(Written) /\ Before(Written, queue)
    <3>1. CASE writer = "write"
      BY <3>1, Committed DEF Written
    <3>2. CASE writer # "write"
      BY <3>2 DEF Written, IngestInv
    <3> QED BY <3>1, <3>2
  <2> DEFINE all == Written \o queue
  <2>2. all \in Seq(Nat) /\ Asc(all)
    BY <2>1, AscConcat DEF IngestInv
  <2> HIDE DEF all
  <2>3. \A i \in 1 .. Len(all) - 1 : all[i] < all[i + 1]
    <3> SUFFICES ASSUME NEW i \in 1 .. Len(all) - 1 PROVE all[i] < all[i + 1]
      OBVIOUS
    <3>1. i \in 1 .. Len(all) /\ i + 1 \in 1 .. Len(all) /\ i < i + 1
      BY <2>2
    <3> QED BY <2>2, <3>1 DEF Asc
  <2>4. inserted <= Len(rows)
    BY DEF IngestInv
  <2> QED BY <2>3, <2>4 DEF ReadingsOnce, all, IngestInv
<1> QED BY <1>1, <1>2, NextIngestInv, PTL DEF Spec

=============================================================================
