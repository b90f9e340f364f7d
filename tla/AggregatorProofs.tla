-------------------------- MODULE AggregatorProofs --------------------------
(***************************************************************************)
(* Proofs about the aggregator: what a reader finds in the rings and in the*)
(* list of events, for any pack, any pods, capacities and clients.         *)
(***************************************************************************)
EXTENDS Aggregator, TLAPS

Event == [of : Series, age : 0 .. Horizon]

Places == {"sleep", "query", "add", "adding", "emit", "emitting"}
Poll == [at : Places, sig : Nat \ {0}, todo : [Series -> Nat], found : Seq(Event)]

Shape ==
    /\ ring \in [Series -> Seq(0 .. Horizon)]
    /\ recent \in Seq(Event)
    /\ poll \in Poll

\* The phases of a poll: the rows to be added are of the signal queried last.
PollInv ==
    /\ poll.at = "sleep" => poll = Resting
    /\ poll.at \notin {"add", "adding"} => poll.todo = NoRows
    /\ poll.at \in {"emit", "emitting"} => poll.found # <<>>
    /\ \A s \in Series : poll.todo[s] > 0 =>
           /\ poll.sig - 1 \in DOMAIN Signals
           /\ s[1] = Signals[poll.sig - 1]
           /\ poll.todo[s] <= Rows[s[1]]

\* A series this poll has still to ask for.
Ahead(s) == /\ poll.at \in {"query", "add", "adding"}
            /\ \E k \in DOMAIN Signals : k >= poll.sig /\ s[1] = Signals[k]

\* RingInOrder for one series, with at most n samples of one poll.
Ordered(q, n) ==
    /\ \A i \in 1 .. Len(q) - 1 : q[i] >= q[i + 1]
    /\ \A i \in 1 .. Len(q) - n : q[i] > q[i + n] \/ q[i] = Horizon

\* At most the last n samples are of this poll.
Fresh(q, n) == \A i \in 1 .. Len(q) - n : q[i] >= 1

\* RingInOrder does not say why there is room for another sample: a series that
\* is ahead has none of this poll, and one that is being added only those of its
\* rows that are no longer to do.
NotYet ==
    \A s \in Series :
        /\ Ahead(s) => Fresh(ring[s], 0)
        /\ poll.todo[s] > 0 => Fresh(ring[s], Rows[s[1]] - poll.todo[s])

\* A sample that caused the event, or only younger ones (EventsBacked for one).
Backed(r, e) ==
    \/ \E k \in 1 .. Len(r[e.of]) : r[e.of][k] = e.age
    \/ r[e.of] # <<>> /\ r[e.of][1] < e.age

\* EventsBacked does not cover the events found and not emitted yet.
AllBacked ==
    /\ \A i \in 1 .. Len(recent) : Backed(ring, recent[i])
    /\ \A i \in 1 .. Len(poll.found) : Backed(ring, poll.found[i])

RingInv == Shape /\ PollInv /\ NotYet /\ RingInOrder /\ AllBacked

-----------------------------------------------------------------------------
(* The operators.                                                          *)

\* A series is a pair of a signal and a pod.
LEMMA SeriesPairs ==
    ASSUME NEW s \in Series
    PROVE  s = <<s[1], s[2]>> /\ s[1] \in ToSet(Signals) /\ s[2] \in Pods
  BY DEF Series

\* A query has at least one row for a pod, and at most MaxRows.
LEMMA RowsType ==
    ASSUME NEW s \in Series
    PROVE  Rows[s[1]] \in Nat \ {0}
  BY SeriesPairs, AggregatorAssumption

\* RingInOrder, series by series.
LEMMA OrderedRings ==
    RingInOrder <=> \A s \in Series : Len(ring[s]) <= CapN /\ Ordered(ring[s], Rows[s[1]])
  BY DEF RingInOrder, Ordered

\* The last n elements are those behind the d elements that are dropped.
LEMMA LastNDrops ==
    ASSUME NEW S, NEW s \in Seq(S), NEW n \in Nat \ {0}
    PROVE  /\ LastN(s, n) \in Seq(S)
           /\ Len(LastN(s, n)) <= n
           /\ \E d \in Nat :
                 /\ Len(s) = d + Len(LastN(s, n))
                 /\ Len(s) <= n => d = 0
                 /\ Len(s) > n => d = Len(s) - n
                 /\ \A i \in 1 .. Len(LastN(s, n)) : LastN(s, n)[i] = s[d + i]
<1>1. CASE Len(s) <= n
  BY <1>1 DEF LastN
<1>2. CASE Len(s) > n
  <2> DEFINE t == SubSeq(s, Len(s) - n + 1, Len(s))
  <2>1. LastN(s, n) = t
    BY <1>2 DEF LastN
  <2>2. /\ t \in Seq(S) /\ Len(t) = n
        /\ \A i \in 1 .. n : t[i] = s[Len(s) - n + i]
    BY <1>2
  <2>3. Len(s) - n \in Nat
    BY <1>2
  <2> HIDE DEF t
  <2>4. Len(s) = (Len(s) - n) + Len(t)
    <3>1. Len(t) = n /\ Len(s) \in Nat
      BY <2>2
    <3> QED BY <3>1
  <2>5. \E d \in Nat :
           /\ Len(s) = d + Len(t)
           /\ Len(s) <= n => d = 0
           /\ Len(s) > n => d = Len(s) - n
           /\ \A i \in 1 .. Len(t) : t[i] = s[d + i]
    <3> DEFINE d == Len(s) - n
    <3>1. d \in Nat /\ Len(s) = d + Len(t) /\ ~(Len(s) <= n) /\ d = Len(s) - n
      BY <1>2, <2>3, <2>4
    <3>2. \A i \in 1 .. Len(t) : t[i] = s[d + i]
      BY <2>2
    <3> HIDE DEF d
    <3> QED BY <3>1, <3>2
  <2>6. t \in Seq(S) /\ Len(t) <= n
    BY <2>2
  <2> QED BY <2>1, <2>5, <2>6, Zenon
<1> QED BY <1>1, <1>2

\* Ageing keeps the order and never makes an age smaller.
LEMMA OlderOrder ==
    ASSUME NEW a \in 0 .. Horizon
    PROVE  /\ Older(a) \in 0 .. Horizon /\ Older(a) >= 1
           /\ a = Horizon => Older(a) = Horizon
           /\ \A b \in 0 .. Horizon :
                 /\ a >= b => Older(a) >= Older(b)
                 /\ a > b => Older(a) > Older(b) \/ Older(a) = Horizon
  BY AggregatorAssumption DEF Older

\* A poll ages every sample of a series in its place.
LEMMA AgedFacts ==
    ASSUME NEW s \in Seq(0 .. Horizon)
    PROVE  /\ Aged(s) \in Seq(0 .. Horizon) /\ Len(Aged(s)) = Len(s)
           /\ \A i \in 1 .. Len(s) : Aged(s)[i] = Older(s[i])
<1>1. ASSUME NEW i \in 1 .. Len(s)
      PROVE  Older(s[i]) \in 0 .. Horizon
  <2>1. s[i] \in 0 .. Horizon
    BY AggregatorAssumption
  <2> QED BY <2>1, OlderOrder
<1>2. DOMAIN s = 1 .. Len(s) /\ Len(s) \in Nat
  OBVIOUS
<1>3. Aged(s) = [i \in 1 .. Len(s) |-> Older(s[i])]
  BY <1>2 DEF Aged
<1> QED BY <1>1, <1>2, <1>3

\* A poll ages every event in its place.
LEMMA AgedEventsFacts ==
    ASSUME NEW s \in Seq(Event)
    PROVE  /\ AgedEvents(s) \in Seq(Event) /\ Len(AgedEvents(s)) = Len(s)
           /\ \A i \in 1 .. Len(s) : /\ AgedEvents(s)[i].of = s[i].of
                                     /\ AgedEvents(s)[i].age = Older(s[i].age)
<1>1. \A i \in 1 .. Len(s) : s[i] \in Event
  OBVIOUS
<1>2. \A i \in 1 .. Len(s) : Older(s[i].age) \in 0 .. Horizon
  BY <1>1, OlderOrder DEF Event
<1>3. \A i \in 1 .. Len(s) :
         /\ [s[i] EXCEPT !.age = Older(@)] \in Event
         /\ [s[i] EXCEPT !.age = Older(@)].of = s[i].of
         /\ [s[i] EXCEPT !.age = Older(@)].age = Older(s[i].age)
  BY <1>1, <1>2 DEF Event
<1>4. DOMAIN s = 1 .. Len(s) /\ Len(s) \in Nat
  OBVIOUS
<1>5. AgedEvents(s) = [i \in 1 .. Len(s) |-> [s[i] EXCEPT !.age = Older(@)]]
  BY <1>4 DEF AgedEvents
<1>6. AgedEvents(s) \in Seq(Event) /\ Len(AgedEvents(s)) = Len(s)
  BY <1>3, <1>4, <1>5
<1>7. \A i \in 1 .. Len(s) : AgedEvents(s)[i] = [s[i] EXCEPT !.age = Older(@)]
  BY <1>4, <1>5
<1> QED BY <1>3, <1>6, <1>7

\* What is left of a list of several elements.
LEMMA TailFacts ==
    ASSUME NEW S, NEW s \in Seq(S), s # <<>>, Len(s) # 1
    PROVE  /\ Tail(s) \in Seq(S) /\ Tail(s) # <<>> /\ Len(Tail(s)) = Len(s) - 1
           /\ \A i \in 1 .. Len(s) - 1 : Tail(s)[i] = s[i + 1]
<1>1. Len(s) \in Nat /\ Len(s) # 0
  OBVIOUS
<1>2. Tail(s) \in Seq(S) /\ Len(Tail(s)) = Len(s) - 1
  BY <1>1
<1>3. Len(Tail(s)) # 0
  BY <1>1, <1>2
<1>4. \A i \in 1 .. Len(s) - 1 : Tail(s)[i] = s[i + 1]
  BY <1>1
<1>5. \A t : Len(t) # 0 => t # <<>>
  OBVIOUS
<1>6. Tail(s) # <<>>
  BY <1>3, <1>5
<1> QED BY <1>2, <1>4, <1>6

-----------------------------------------------------------------------------
(* One series: an added sample.                                            *)

\* Add drops at most the oldest sample and puts the new one at the end.
LEMMA KeptAppend ==
    ASSUME NEW n \in Nat \ {0}, NEW c \in 1 .. n,
           NEW q \in Seq(0 .. Horizon), Len(q) <= CapN,
           Ordered(q, n), Fresh(q, n - c)
    PROVE  LET t == Kept(Append(q, 0))
           IN  /\ t \in Seq(0 .. Horizon) /\ Len(t) <= CapN
               /\ Ordered(t, n) /\ Fresh(t, n - (c - 1))
               /\ t # <<>> /\ t[Len(t)] = 0
               /\ \/ t = Append(q, 0)
                  \/ /\ q # <<>> /\ Len(t) = Len(q)
                     /\ t[1] <= q[1]
                     /\ \A i \in 2 .. Len(q) : t[i - 1] = q[i]
<1> DEFINE u == Append(q, 0)
           t == Kept(u)
<1>1. /\ u \in Seq(0 .. Horizon) /\ Len(u) = Len(q) + 1
      /\ \A i \in 1 .. Len(q) : u[i] = q[i] /\ q[i] \in 0 .. Horizon
      /\ u[Len(q) + 1] = 0
  BY AggregatorAssumption
<1>2. /\ CapN \in Nat \ {0} /\ Horizon \in Nat
      /\ Len(q) \in Nat /\ Len(u) = Len(q) + 1
  BY AggregatorAssumption
<1> HIDE DEF u
<1>3. Ordered(u, n)
  <2>1. ASSUME NEW i \in 1 .. Len(u) - 1
        PROVE  u[i] >= u[i + 1]
    <3>1. CASE i = Len(q)
      BY <1>1, <1>2, <3>1
    <3>2. CASE i # Len(q)
      <4>1. i \in 1 .. Len(q) - 1 /\ i \in 1 .. Len(q) /\ i + 1 \in 1 .. Len(q)
        BY <1>2, <3>2
      <4> QED BY <1>1, <4>1 DEF Ordered
    <3> QED BY <3>1, <3>2
  <2>2. ASSUME NEW i \in 1 .. Len(u) - n
        PROVE  u[i] > u[i + n] \/ u[i] = Horizon
    <3>1. CASE i + n = Len(u)
      <4>1. i \in 1 .. Len(q) - (n - c) /\ i \in 1 .. Len(q)
        BY <1>2, <3>1
      <4>2. u[i] >= 1
        BY <1>1, <4>1 DEF Fresh
      <4> QED BY <1>1, <3>1, <4>2
    <3>2. CASE i + n # Len(u)
      <4>1. i \in 1 .. Len(q) - n /\ i \in 1 .. Len(q) /\ i + n \in 1 .. Len(q)
        BY <1>2, <3>2
      <4> QED BY <1>1, <4>1 DEF Ordered
    <3> QED BY <3>1, <3>2
  <2> QED BY <2>1, <2>2 DEF Ordered
<1>4. PICK d \in Nat :
         /\ Len(u) = d + Len(t)
         /\ Len(u) <= CapN => d = 0
         /\ Len(u) > CapN => d = Len(u) - CapN
         /\ \A i \in 1 .. Len(t) : t[i] = u[d + i]
  <2>1. t = LastN(u, CapN)
    BY DEF Kept
  <2>2. \E d \in Nat :
           /\ Len(u) = d + Len(LastN(u, CapN))
           /\ Len(u) <= CapN => d = 0
           /\ Len(u) > CapN => d = Len(u) - CapN
           /\ \A i \in 1 .. Len(LastN(u, CapN)) : LastN(u, CapN)[i] = u[d + i]
    <3>1. u \in Seq(0 .. Horizon)
      BY <1>1
    <3>2. CapN \in Nat \ {0}
      BY <1>2
    <3> QED BY <3>1, <3>2, LastNDrops, Zenon
  <2> QED BY <2>1, <2>2, Zenon
<1>5. t \in Seq(0 .. Horizon) /\ Len(t) <= CapN /\ Len(t) \in Nat
  BY <1>1, <1>2, LastNDrops DEF Kept
<1> HIDE DEF t
<1>6. d \in {0, 1} /\ Len(t) >= 1
  BY <1>1, <1>2, <1>4, <1>5
<1>7. Ordered(t, n) /\ Fresh(t, n - (c - 1))
  <2>1. ASSUME NEW i \in 1 .. Len(t) - 1
        PROVE  t[i] >= t[i + 1]
    <3>1. d + i \in 1 .. Len(u) - 1 /\ t[i] = u[d + i] /\ t[i + 1] = u[d + i + 1]
      BY <1>4, <1>5, <1>6
    <3> QED BY <1>3, <3>1 DEF Ordered
  <2>2. ASSUME NEW i \in 1 .. Len(t) - n
        PROVE  t[i] > t[i + n] \/ t[i] = Horizon
    <3>1. /\ d + i \in 1 .. Len(u) - n
          /\ t[i] = u[d + i] /\ t[i + n] = u[d + i + n]
      <4>1. Len(u) = d + Len(t) /\ Len(t) \in Nat
        BY <1>4, <1>5
      <4>2. /\ d + i \in 1 .. Len(u) - n /\ d + (i + n) = d + i + n
            /\ i \in 1 .. Len(t) /\ i + n \in 1 .. Len(t)
        BY <4>1
      <4>3. t[i] = u[d + i] /\ t[i + n] = u[d + (i + n)]
        BY <1>4, <4>2
      <4> QED BY <4>2, <4>3
    <3> QED BY <1>3, <3>1 DEF Ordered
  <2>3. ASSUME NEW i \in 1 .. Len(t) - (n - (c - 1))
        PROVE  t[i] >= 1
    <3>1. /\ d + i \in 1 .. Len(q) - (n - c) /\ d + i \in 1 .. Len(q)
          /\ i \in 1 .. Len(t)
      <4>1. Len(u) = d + Len(t) /\ Len(t) \in Nat
        BY <1>4, <1>5
      <4> QED BY <1>2, <4>1
    <3>2. t[i] = u[d + i] /\ u[d + i] = q[d + i]
      BY <1>1, <1>4, <3>1
    <3> QED BY <3>1, <3>2 DEF Fresh
  <2> QED BY <2>1, <2>2, <2>3 DEF Ordered, Fresh
<1>8. t[Len(t)] = 0
  <2>1. t[Len(t)] = u[d + Len(t)]
    BY <1>4, <1>5, <1>6
  <2> QED BY <1>1, <1>4, <2>1
<1>9. CASE d = 0
  <2>1. Len(t) = Len(u) /\ \A i \in 1 .. Len(u) : t[i] = u[i]
    BY <1>4, <1>9
  <2>2. t = u
    BY <1>1, <1>5, <2>1
  <2> QED BY <1>5, <1>6, <1>7, <1>8, <2>2 DEF u, t
<1>10. CASE d = 1
  <2>1. Len(t) = Len(q) /\ q # <<>>
    BY <1>1, <1>4, <1>6, <1>10
  <2>2. \A i \in 2 .. Len(q) : t[i - 1] = q[i]
    <3> TAKE i \in 2 .. Len(q)
    <3>1. i - 1 \in 1 .. Len(t) /\ d + (i - 1) = i /\ i \in 1 .. Len(q)
      BY <1>2, <1>10, <2>1
    <3>2. t[i - 1] = u[d + (i - 1)]
      BY <1>4, <3>1
    <3> QED BY <1>1, <3>1, <3>2
  <2>3. t[1] = u[2] /\ u[1] = q[1] /\ Len(q) >= 1
    BY <1>1, <1>2, <1>4, <1>6, <1>10, <2>1
  <2>4. u[1] >= u[2]
    BY <1>1, <1>2, <1>3, <2>3 DEF Ordered
  <2>5. t[1] <= q[1]
    BY <1>1, <1>5, <1>6, <2>3, <2>4
  <2> QED BY <1>5, <1>6, <1>7, <1>8, <2>1, <2>2, <2>5 DEF u, t
<1> QED BY <1>6, <1>9, <1>10

-----------------------------------------------------------------------------
(* One event: its sample is aged with it, or gives way to younger ones.    *)

\* An event and its sample grow older together; at Horizon they meet.
LEMMA BackedWhenOlder ==
    ASSUME NEW r \in [Series -> Seq(0 .. Horizon)], NEW e \in Event, NEW f \in Event,
           f.of = e.of, f.age = Older(e.age), Backed(r, e)
    PROVE  Backed([s \in Series |-> Aged(r[s])], f)
<1> DEFINE q == r[e.of]
           t == Aged(q)
<1>1. e.of \in Series /\ e.age \in 0 .. Horizon /\ Horizon \in Nat
  BY AggregatorAssumption DEF Event
<1>2. q \in Seq(0 .. Horizon)
  BY <1>1
<1>3. Len(t) = Len(q) /\ \A i \in 1 .. Len(q) : t[i] = Older(q[i])
  BY <1>2, AgedFacts
<1>4. [s \in Series |-> Aged(r[s])][f.of] = t
  BY <1>1
<1>5. \/ \E k \in 1 .. Len(q) : q[k] = e.age
      \/ q # <<>> /\ q[1] < e.age
  BY DEF Backed
<1> HIDE DEF t, q
<1>6. CASE \E k \in 1 .. Len(q) : q[k] = e.age
  <2>1. PICK k \in 1 .. Len(q) : q[k] = e.age
    BY <1>6
  <2>2. k \in 1 .. Len(t) /\ t[k] = f.age
    BY <1>3, <2>1
  <2> QED BY <1>4, <2>2 DEF Backed
<1>7. CASE q # <<>> /\ q[1] < e.age
  <2>1. Len(q) \in Nat \ {0} /\ q[1] \in 0 .. Horizon
    BY <1>1, <1>2, <1>7
  <2>2. 1 \in 1 .. Len(t) /\ t[1] = Older(q[1]) /\ t # <<>>
    BY <1>3, <2>1
  <2>3. t[1] < f.age \/ t[1] = f.age
    BY <1>1, <1>7, <2>1, <2>2 DEF Older
  <2> QED BY <1>4, <2>2, <2>3 DEF Backed
<1> QED BY <1>5, <1>6, <1>7

\* The sample of an event stays, or the oldest one that is left is younger.
LEMMA BackedWhenAdded ==
    ASSUME NEW r \in [Series -> Seq(0 .. Horizon)], NEW e \in Event, NEW s \in Series,
           NEW n \in Nat \ {0}, NEW c \in 1 .. n,
           Len(r[s]) <= CapN, Ordered(r[s], n), Fresh(r[s], n - c),
           Backed(r, e)
    PROVE  Backed([r EXCEPT ![s] = Kept(Append(@, 0))], e)
<1> DEFINE q == r[s]
           t == Kept(Append(q, 0))
           new == [r EXCEPT ![s] = Kept(Append(@, 0))]
<1>1. e.of \in Series /\ e.age \in 0 .. Horizon /\ Horizon \in Nat
  BY AggregatorAssumption DEF Event
<1>2. CASE e.of # s
  <2>1. new[e.of] = r[e.of]
    BY <1>1, <1>2
  <2> QED BY <2>1 DEF Backed
<1>3. CASE e.of = s
  <2>1. new[e.of] = t
    BY <1>3
  <2>2. \/ \E k \in 1 .. Len(q) : q[k] = e.age
        \/ q # <<>> /\ q[1] < e.age
    BY <1>3 DEF Backed
  <2>3. q \in Seq(0 .. Horizon)
    OBVIOUS
  <2>4. /\ t \in Seq(0 .. Horizon) /\ t # <<>>
        /\ \/ t = Append(q, 0)
           \/ /\ q # <<>> /\ Len(t) = Len(q)
              /\ t[1] <= q[1]
              /\ \A i \in 2 .. Len(q) : t[i - 1] = q[i]
    BY <2>3, KeptAppend
  <2> SUFFICES \/ \E k \in 1 .. Len(t) : t[k] = e.age
               \/ t # <<>> /\ t[1] < e.age
    BY <2>1 DEF Backed
  <2> HIDE DEF t, q
  <2>5. CASE t = Append(q, 0)
    <3>1. /\ Len(t) = Len(q) + 1 /\ Len(q) \in Nat
          /\ \A i \in 1 .. Len(q) : t[i] = q[i]
      BY <2>3, <2>5
    <3>2. CASE \E k \in 1 .. Len(q) : q[k] = e.age
      <4>1. PICK k \in 1 .. Len(q) : q[k] = e.age
        BY <3>2
      <4>2. k \in 1 .. Len(t) /\ t[k] = e.age
        BY <3>1, <4>1
      <4> QED BY <4>2
    <3>3. CASE q # <<>> /\ q[1] < e.age
      <4>1. 1 \in 1 .. Len(q)
        BY <2>3, <3>3
      <4> QED BY <2>4, <3>1, <3>3, <4>1
    <3> QED BY <2>2, <3>2, <3>3
  <2>6. CASE /\ q # <<>> /\ Len(t) = Len(q)
             /\ t[1] <= q[1]
             /\ \A i \in 2 .. Len(q) : t[i - 1] = q[i]
    <3>1. Len(q) \in Nat \ {0} /\ q[1] \in 0 .. Horizon /\ t[1] \in 0 .. Horizon
      BY <1>1, <2>3, <2>4, <2>6
    <3>2. CASE \E k \in 1 .. Len(q) : q[k] = e.age
      <4>1. PICK k \in 1 .. Len(q) : q[k] = e.age
        BY <3>2
      <4>2. CASE k = 1
        <5>1. t[1] < e.age \/ t[1] = e.age
          BY <1>1, <2>6, <3>1, <4>1, <4>2
        <5> QED BY <2>4, <2>6, <3>1, <5>1
      <4>3. CASE k # 1
        <5>1. k \in 2 .. Len(q) /\ k - 1 \in 1 .. Len(t)
          BY <2>6, <3>1, <4>3
        <5>2. t[k - 1] = e.age
          BY <2>6, <4>1, <5>1
        <5> QED BY <5>1, <5>2
      <4> QED BY <4>2, <4>3
    <3>3. CASE q # <<>> /\ q[1] < e.age
      <4>1. t[1] < e.age
        BY <1>1, <2>6, <3>1, <3>3
      <4> QED BY <2>4, <4>1
    <3> QED BY <2>2, <3>2, <3>3
  <2> QED BY <2>4, <2>5, <2>6
<1> QED BY <1>2, <1>3

-----------------------------------------------------------------------------
(* The steps of the poller.                                                *)

\* Empty rings, no event, the poller asleep.
LEMMA InitRingInv == Init => RingInv
<1> SUFFICES ASSUME Init PROVE RingInv
  OBVIOUS
<1>1. Horizon \in Nat /\ CapN \in Nat
  BY AggregatorAssumption
<1>2. \A s \in Series : ring[s] = <<>>
  BY DEF Init
<1>3. Shape
  BY <1>1 DEF Init, Shape, Poll, Places, Resting, NoRows
<1>4. PollInv
  BY DEF Init, PollInv, Resting, NoRows
<1>5. NotYet
  BY <1>2, RowsType DEF Init, NotYet, Fresh, Resting, NoRows
<1>6. RingInOrder
  <2>1. \A s \in Series : Len(ring[s]) <= CapN /\ Ordered(ring[s], Rows[s[1]])
    BY <1>1, <1>2, RowsType DEF Ordered
  <2> QED BY <2>1, OrderedRings
<1>7. AllBacked
  BY DEF AllBacked, Init, Resting
<1> QED BY <1>3, <1>4, <1>5, <1>6, <1>7 DEF RingInv

\* A poll begins: every series is due and no sample is new any more.
LEMMA TickStep == RingInv /\ Tick => RingInv'
<1> SUFFICES ASSUME RingInv, Tick PROVE RingInv'
  OBVIOUS
<1> USE DEF RingInv
<1>1. Horizon \in Nat /\ CapN \in Nat
  BY AggregatorAssumption
<1>2. /\ poll = Resting /\ poll' = [poll EXCEPT !.at = "query"]
      /\ ring' = [s \in Series |-> Aged(ring[s])]
      /\ recent' = AgedEvents(recent)
  BY DEF Tick, PollInv
<1>3. poll' = [at |-> "query", sig |-> 1, todo |-> NoRows, found |-> <<>>]
  BY <1>2 DEF Resting
<1>4. ASSUME NEW s \in Series
      PROVE  /\ ring[s] \in Seq(0 .. Horizon) /\ ring'[s] \in Seq(0 .. Horizon)
             /\ Len(ring'[s]) = Len(ring[s])
             /\ \A i \in 1 .. Len(ring[s]) : /\ ring'[s][i] = Older(ring[s][i])
                                             /\ ring[s][i] \in 0 .. Horizon
  <2>1. ring[s] \in Seq(0 .. Horizon) /\ ring'[s] = Aged(ring[s])
    BY <1>2 DEF Shape
  <2> QED BY <1>1, <2>1, AgedFacts
<1>5. /\ recent' \in Seq(Event) /\ Len(recent') = Len(recent)
      /\ \A i \in 1 .. Len(recent) : /\ recent'[i].of = recent[i].of
                                     /\ recent'[i].age = Older(recent[i].age)
  BY <1>2, AgedEventsFacts DEF Shape
<1>6. Shape'
  BY <1>2, <1>3, <1>4, <1>5 DEF Shape, Poll, Places, NoRows
<1>7. PollInv'
  BY <1>3 DEF PollInv, NoRows
<1>8. NotYet'
  <2>1. ASSUME NEW s \in Series, NEW i \in 1 .. Len(ring'[s])
        PROVE  ring'[s][i] >= 1
    <3>1. ring'[s][i] = Older(ring[s][i]) /\ ring[s][i] \in 0 .. Horizon
      BY <1>4
    <3> QED BY <3>1, OlderOrder
  <2>2. \A s \in Series : Fresh(ring'[s], 0) /\ poll'.todo[s] = 0
    BY <1>3, <1>4, <2>1 DEF Fresh, NoRows
  <2> QED BY <2>2 DEF NotYet
<1>9. RingInOrder'
  <2> SUFFICES ASSUME NEW s \in Series
               PROVE  Len(ring'[s]) <= CapN /\ Ordered(ring'[s], Rows[s[1]])
    BY DEF RingInOrder, Ordered
  <2> DEFINE n == Rows[s[1]]
  <2>1. n \in Nat \ {0} /\ Len(ring[s]) \in Nat
    BY <1>4, RowsType
  <2>2. Len(ring[s]) <= CapN /\ Ordered(ring[s], n)
    BY OrderedRings
  <2> HIDE DEF n
  <2>3. ASSUME NEW i \in 1 .. Len(ring'[s]) - 1
        PROVE  ring'[s][i] >= ring'[s][i + 1]
    <3>1. /\ i \in 1 .. Len(ring[s]) /\ i + 1 \in 1 .. Len(ring[s])
          /\ ring[s][i] >= ring[s][i + 1]
      BY <1>4, <2>1, <2>2 DEF Ordered
    <3> QED BY <1>4, <3>1, OlderOrder
  <2>4. ASSUME NEW i \in 1 .. Len(ring'[s]) - n
        PROVE  ring'[s][i] > ring'[s][i + n] \/ ring'[s][i] = Horizon
    <3>1. /\ i \in 1 .. Len(ring[s]) /\ i + n \in 1 .. Len(ring[s])
          /\ ring[s][i] > ring[s][i + n] \/ ring[s][i] = Horizon
      BY <1>4, <2>1, <2>2 DEF Ordered
    <3> QED BY <1>4, <3>1, OlderOrder
  <2> QED BY <1>4, <2>2, <2>3, <2>4 DEF Ordered, n
<1>10. AllBacked'
  <2>1. ASSUME NEW i \in 1 .. Len(recent)
        PROVE  Backed(ring', recent'[i])
    <3>1. recent[i] \in Event /\ recent'[i] \in Event
      BY <1>5 DEF Shape
    <3>2. Backed(ring, recent[i])
      BY DEF AllBacked
    <3>3. recent'[i].of = recent[i].of /\ recent'[i].age = Older(recent[i].age)
      BY <1>5
    <3>4. ring \in [Series -> Seq(0 .. Horizon)]
      BY DEF Shape
    <3> QED BY <1>2, <3>1, <3>2, <3>3, <3>4, BackedWhenOlder
  <2>2. Len(poll'.found) = 0
    BY <1>3
  <2> QED BY <1>5, <2>1, <2>2 DEF AllBacked
<1> QED BY <1>6, <1>7, <1>8, <1>9, <1>10

\* The signal is no longer ahead; its rows are to be added.
LEMMA QueryStep == ASSUME RingInv, NEW rows \in [Pods -> Nat], Query(rows) PROVE RingInv'
<1> USE DEF RingInv
<1> DEFINE sig == Signals[poll.sig]
           todo == Todo(rows)
<1>1. /\ poll.at = "query" /\ poll.sig \in Nat \ {0} /\ poll.sig <= Len(Signals)
      /\ Answer(rows)
      /\ ring' = ring /\ recent' = recent
      /\ poll' = [poll EXCEPT !.sig = @ + 1,
                              !.at = IF todo = NoRows THEN "query" ELSE "add",
                              !.todo = todo]
  BY DEF Query, Shape, Poll
<1>2. /\ Signals \in Seq(ToSet(Signals)) /\ DOMAIN Signals = 1 .. Len(Signals)
      /\ Len(Signals) \in Nat
  BY AggregatorAssumption
<1>3. poll.sig \in DOMAIN Signals
  BY <1>1, <1>2
<1>4. todo \in [Series -> Nat]
  BY SeriesPairs DEF Todo
<1>5. ASSUME NEW s \in Series, todo[s] > 0
      PROVE  s[1] = sig /\ todo[s] <= Rows[s[1]]
  <2>1. todo[s] = IF s[1] = sig THEN rows[s[2]] ELSE 0
    BY DEF Todo
  <2>2. s[1] = sig /\ todo[s] = rows[s[2]]
    BY <1>5, <2>1
  <2> QED BY <1>1, <1>5, <2>2, SeriesPairs DEF Answer
<1> HIDE DEF todo
<1>6. /\ poll'.at = IF todo = NoRows THEN "query" ELSE "add"
      /\ poll'.sig = poll.sig + 1 /\ poll'.todo = todo /\ poll'.found = poll.found
      /\ poll' \in Poll
  <2>1. DOMAIN poll = {"at", "sig", "todo", "found"} /\ poll \in Poll
    BY DEF Shape, Poll
  <2>2. (IF todo = NoRows THEN "query" ELSE "add") \in Places
    BY DEF Places
  <2>3. poll.sig + 1 \in Nat \ {0}
    BY <1>1
  <2> QED BY <1>1, <1>4, <2>1, <2>2, <2>3 DEF Poll
<1>7. Shape'
  BY <1>1, <1>6 DEF Shape
<1>8. PollInv'
  <2>1. poll'.sig - 1 = poll.sig
    BY <1>1, <1>6
  <2> QED BY <1>3, <1>5, <1>6, <2>1 DEF PollInv
<1>9. NotYet'
  <2>1. ASSUME NEW s \in Series, Ahead(s)'
        PROVE  Fresh(ring[s], 0)
    <3>1. PICK k \in DOMAIN Signals : k >= poll.sig + 1 /\ s[1] = Signals[k]
      BY <1>6, <2>1 DEF Ahead
    <3>2. k >= poll.sig
      BY <1>1, <1>2, <3>1
    <3> QED BY <1>1, <3>1, <3>2 DEF Ahead, NotYet
  <2>2. ASSUME NEW s \in Series, todo[s] > 0
        PROVE  Fresh(ring[s], Rows[s[1]] - todo[s])
    <3>1. s[1] = sig /\ todo[s] <= Rows[s[1]] /\ todo[s] \in Nat
      BY <1>4, <1>5, <2>2
    <3>2. poll.sig >= poll.sig
      BY <1>1
    <3>3. Ahead(s)
      BY <1>1, <1>3, <3>1, <3>2 DEF Ahead
    <3>4. Fresh(ring[s], 0)
      BY <3>3 DEF NotYet
    <3>5. Rows[s[1]] - todo[s] \in Nat /\ Len(ring[s]) \in Nat
      BY <3>1, RowsType DEF Shape
    <3> QED BY <3>4, <3>5 DEF Fresh
  <2> QED BY <1>1, <1>6, <2>1, <2>2 DEF NotYet
<1>10. RingInOrder'
  BY <1>1 DEF RingInOrder
<1>11. AllBacked'
  BY <1>1, <1>6 DEF AllBacked
<1> QED BY <1>7, <1>8, <1>9, <1>10, <1>11

\* Calling Lock changes nothing but the place.
LEMMA CallLockStep == RingInv /\ CallLock => RingInv'
<1> SUFFICES ASSUME RingInv, CallLock PROVE RingInv'
  OBVIOUS
<1> USE DEF RingInv
<1>1. /\ poll.at \in {"add", "emit"} /\ ring' = ring /\ recent' = recent
      /\ poll' = [poll EXCEPT !.at = IF poll.at = "add" THEN "adding" ELSE "emitting"]
  BY DEF CallLock
<1>2. /\ poll'.at = IF poll.at = "add" THEN "adding" ELSE "emitting"
      /\ poll'.sig = poll.sig /\ poll'.todo = poll.todo /\ poll'.found = poll.found
      /\ poll' \in Poll
  BY <1>1 DEF Shape, Poll, Places
<1>3. Shape' /\ PollInv'
  BY <1>1, <1>2 DEF Shape, PollInv
<1>4. NotYet'
  BY <1>1, <1>2 DEF NotYet, Ahead
<1>5. RingInOrder' /\ AllBacked'
  BY <1>1, <1>2 DEF RingInOrder, AllBacked
<1> QED BY <1>3, <1>4, <1>5

\* One row of a series becomes a sample; the series is not ahead any more, since
\* a signal is queried once.
LEMMA AddStep ==
    ASSUME RingInv, NEW s \in Series, NEW breach \in BOOLEAN, Add(s, breach)
    PROVE  RingInv'
<1> USE DEF RingInv
<1>1. /\ poll.at = "adding" /\ poll.sig \in Nat \ {0}
      /\ poll.todo \in [Series -> Nat] /\ poll.todo[s] > 0
      /\ ring' = [ring EXCEPT ![s] = Kept(Append(@, 0))] /\ recent' = recent
  BY DEF Add, Shape, Poll
<1>2. Horizon \in Nat /\ CapN \in Nat
  BY AggregatorAssumption
<1> DEFINE e == [of |-> s, age |-> 0]
           todo == [poll.todo EXCEPT ![s] = @ - 1]
           found == IF breach THEN Append(poll.found, e) ELSE poll.found
           n == Rows[s[1]]
           c == poll.todo[s]
           q == ring[s]
           t == Kept(Append(q, 0))
<1>3. e \in Event /\ poll.found \in Seq(Event)
  BY <1>1, <1>2 DEF Event, Shape, Poll
<1>4. /\ found \in Seq(Event)
      /\ todo \in [Series -> Nat]
      /\ todo[s] = c - 1 /\ \A x \in Series : x # s => todo[x] = poll.todo[x]
  <2>1. found \in Seq(Event)
    <3>1. CASE breach
      BY <1>3, <3>1
    <3>2. CASE ~breach
      BY <1>3, <3>2
    <3> QED BY <3>1, <3>2
  <2>2. c - 1 \in Nat
    BY <1>1
  <2> HIDE DEF found
  <2> QED BY <1>1, <2>1, <2>2
<1>5. poll' = [poll EXCEPT !.todo = todo,
                           !.at = IF todo = NoRows THEN "query" ELSE "add",
                           !.found = found]
  BY Zenon DEF Add, todo, found, e
<1> HIDE DEF found, todo
<1>6. /\ poll'.at = IF todo = NoRows THEN "query" ELSE "add"
      /\ poll'.sig = poll.sig /\ poll'.todo = todo /\ poll'.found = found
      /\ poll' \in Poll
  BY <1>4, <1>5 DEF Shape, Poll, Places
<1>7. /\ ring \in [Series -> Seq(0 .. Horizon)] /\ q \in Seq(0 .. Horizon)
      /\ Len(q) <= CapN
      /\ Ordered(q, n)
  BY <1>1, OrderedRings DEF Shape
<1>8. n \in Nat \ {0} /\ c \in 1 .. n /\ Fresh(q, n - c)
  BY <1>1, RowsType DEF PollInv, NotYet
<1>9. /\ t \in Seq(0 .. Horizon) /\ Len(t) <= CapN /\ Ordered(t, n)
      /\ Fresh(t, n - (c - 1))
      /\ t # <<>> /\ t[Len(t)] = 0
  <2> HIDE DEF n, c, q
  <2> QED BY <1>7, <1>8, KeptAppend
<1>10. ring'[s] = t /\ \A x \in Series : x # s => ring'[x] = ring[x]
  BY <1>1, <1>7
<1>11. \A f \in Event : Backed(ring, f) => Backed(ring', f)
  <2> TAKE f \in Event
  <2> HIDE DEF n, c
  <2> QED BY <1>1, <1>7, <1>8, BackedWhenAdded
<1>12. Backed(ring', e)
  <2>1. Len(t) \in 1 .. Len(t)
    BY <1>9
  <2> QED BY <1>9, <1>10, <2>1 DEF Backed
<1> HIDE DEF t, q
<1>13. Shape'
  BY <1>1, <1>6, <1>7, <1>9, <1>10 DEF Shape
<1>14. PollInv'
  <2>1. poll'.at \in {"query", "add"} /\ (todo = NoRows \/ poll'.at = "add")
    BY <1>6
  <2>2. ASSUME NEW x \in Series, todo[x] > 0
        PROVE  poll.todo[x] > 0 /\ todo[x] <= poll.todo[x]
    <3>1. CASE x = s
      BY <1>1, <1>4, <3>1
    <3>2. CASE x # s
      BY <1>1, <1>4, <2>2, <3>2
    <3> QED BY <3>1, <3>2
  <2>3. ASSUME NEW x \in Series, todo[x] > 0
        PROVE  /\ poll.sig - 1 \in DOMAIN Signals
               /\ x[1] = Signals[poll.sig - 1]
               /\ todo[x] <= Rows[x[1]]
    <3>1. poll.todo[x] > 0 /\ todo[x] <= poll.todo[x]
      BY <2>2, <2>3
    <3>2. /\ poll.sig - 1 \in DOMAIN Signals
          /\ x[1] = Signals[poll.sig - 1]
          /\ poll.todo[x] <= Rows[x[1]]
      BY <3>1 DEF PollInv
    <3>3. todo[x] \in Nat /\ poll.todo[x] \in Nat /\ Rows[x[1]] \in Nat
      BY <1>1, <1>4, RowsType
    <3> QED BY <3>1, <3>2, <3>3
  <2> QED BY <1>6, <2>1, <2>3 DEF PollInv
<1>15. NotYet'
  <2> SUFFICES ASSUME NEW x \in Series
               PROVE  /\ Ahead(x)' => Fresh(ring'[x], 0)
                      /\ todo[x] > 0 => Fresh(ring'[x], Rows[x[1]] - todo[x])
    BY <1>6 DEF NotYet
  <2>1. Ahead(x)' => Ahead(x)
    BY <1>1, <1>6 DEF Ahead
  <2>2. CASE x # s
    BY <1>4, <1>10, <2>1, <2>2 DEF NotYet
  <2>3. CASE x = s
    <3>1. ~Ahead(s)
      <4> SUFFICES ASSUME Ahead(s) PROVE FALSE
        OBVIOUS
      <4>1. PICK k \in DOMAIN Signals : k >= poll.sig /\ s[1] = Signals[k]
        BY DEF Ahead
      <4>2. poll.sig - 1 \in DOMAIN Signals /\ s[1] = Signals[poll.sig - 1]
        BY <1>1 DEF PollInv
      <4>3. DOMAIN Signals \subseteq Nat
        <5>1. Signals \in Seq(ToSet(Signals))
          BY AggregatorAssumption
        <5> QED BY <5>1
      <4>4. k = poll.sig - 1 /\ k \in Nat
        BY <4>1, <4>2, <4>3, AggregatorAssumption
      <4> QED BY <1>1, <4>1, <4>4
    <3>2. Fresh(ring'[s], n - todo[s])
      BY <1>4, <1>9, <1>10
    <3> QED BY <2>1, <2>3, <3>1, <3>2
  <2> QED BY <2>2, <2>3
<1>16. RingInOrder'
  <2> SUFFICES ASSUME NEW x \in Series
               PROVE  Len(ring'[x]) <= CapN /\ Ordered(ring'[x], Rows[x[1]])
    BY DEF RingInOrder, Ordered
  <2>1. CASE x = s
    BY <1>9, <1>10, <2>1
  <2>2. CASE x # s
    BY <1>10, <2>2, OrderedRings
  <2> QED BY <2>1, <2>2
<1>17. AllBacked'
  <2>1. \A i \in 1 .. Len(recent) : Backed(ring', recent[i])
    BY <1>11 DEF AllBacked, Shape
  <2>2. \A i \in 1 .. Len(poll.found) : Backed(ring', poll.found[i])
    BY <1>3, <1>11 DEF AllBacked
  <2>3. \A i \in 1 .. Len(found) : Backed(ring', found[i])
    <3>1. CASE breach
      <4>1. /\ Len(found) = Len(poll.found) + 1 /\ found[Len(poll.found) + 1] = e
            /\ \A i \in 1 .. Len(poll.found) : found[i] = poll.found[i]
            /\ Len(poll.found) \in Nat
        BY <1>3, <3>1 DEF found
      <4> HIDE DEF e
      <4> QED BY <1>12, <2>2, <4>1
    <3>2. CASE ~breach
      BY <2>2, <3>2 DEF found
    <3> QED BY <3>1, <3>2
  <2> QED BY <1>1, <1>6, <2>1, <2>3 DEF AllBacked
<1> QED BY <1>13, <1>14, <1>15, <1>16, <1>17

\* Nothing is due after the last signal.
LEMMA EndOfPackStep == RingInv /\ EndOfPack => RingInv'
<1> SUFFICES ASSUME RingInv, EndOfPack PROVE RingInv'
  OBVIOUS
<1> USE DEF RingInv
<1>1. /\ poll.at = "query" /\ poll.todo = NoRows /\ ring' = ring /\ recent' = recent
      /\ poll' = IF poll.found = <<>> THEN Resting ELSE [poll EXCEPT !.at = "emit"]
  BY DEF EndOfPack, PollInv
<1>2. /\ poll' \in Poll
      /\ poll'.at \in {"sleep", "emit"} /\ poll'.todo = NoRows /\ poll'.found = poll.found
      /\ poll'.at = "sleep" => poll' = Resting
      /\ poll'.at = "emit" => poll'.found # <<>>
  <2>1. CASE poll.found = <<>>
    BY <1>1, <2>1 DEF Shape, Poll, Places, Resting, NoRows
  <2>2. CASE poll.found # <<>>
    <3>1. poll' = [poll EXCEPT !.at = "emit"]
      BY <1>1, <2>2
    <3> QED BY <1>1, <2>2, <3>1 DEF Shape, Poll, Places
  <2> QED BY <2>1, <2>2
<1>3. \A s \in Series : poll'.todo[s] = 0
  BY <1>2 DEF NoRows
<1>4. Shape' /\ PollInv'
  BY <1>1, <1>2, <1>3 DEF Shape, PollInv
<1>5. NotYet' /\ RingInOrder' /\ AllBacked'
  BY <1>1, <1>2, <1>3 DEF NotYet, Ahead, RingInOrder, AllBacked
<1> QED BY <1>4, <1>5

\* The first of the found events moves to the recent ones.
LEMMA EmitStep == RingInv /\ Emit => RingInv'
<1> SUFFICES ASSUME RingInv, Emit PROVE RingInv'
  OBVIOUS
<1> USE DEF RingInv
<1> DEFINE e == Head(poll.found)
           longer == Append(recent, e)
<1>1. /\ poll.at = "emitting" /\ poll.todo = NoRows /\ ring' = ring
      /\ recent' = LastN(longer, CapEvents)
      /\ poll' = IF Len(poll.found) = 1
                  THEN Resting
                  ELSE [poll EXCEPT !.at = "emit", !.found = Tail(@)]
      /\ poll.found # <<>> /\ poll.found \in Seq(Event)
  BY DEF Emit, PollInv, Shape, Poll
<1>2. e \in Event /\ e = poll.found[1] /\ 1 \in 1 .. Len(poll.found)
  BY <1>1
<1>3. Backed(ring, e)
  BY <1>2 DEF AllBacked
<1>4. recent \in Seq(Event) /\ CapEvents \in Nat \ {0}
  BY AggregatorAssumption DEF Shape, Poll
<1> HIDE DEF e
<1>5. /\ longer \in Seq(Event)
      /\ \A i \in 1 .. Len(longer) : Backed(ring, longer[i])
  BY <1>2, <1>3, <1>4 DEF AllBacked
<1> HIDE DEF longer
<1>6. /\ recent' \in Seq(Event)
      /\ \E d \in Nat : /\ Len(longer) = d + Len(recent')
                        /\ \A i \in 1 .. Len(recent') : recent'[i] = longer[d + i]
  <2> DEFINE last == LastN(longer, CapEvents)
  <2>1. /\ last \in Seq(Event)
        /\ \E d \in Nat : /\ Len(longer) = d + Len(last)
                          /\ \A i \in 1 .. Len(last) : last[i] = longer[d + i]
    BY <1>4, <1>5, LastNDrops
  <2>2. recent' = last
    BY <1>1
  <2> HIDE DEF last
  <2> QED BY <2>1, <2>2
<1>7. \A i \in 1 .. Len(recent') : Backed(ring, recent'[i])
  <2>1. PICK d \in Nat : /\ Len(longer) = d + Len(recent')
                         /\ \A i \in 1 .. Len(recent') : recent'[i] = longer[d + i]
    BY <1>6
  <2> TAKE i \in 1 .. Len(recent')
  <2>2. d + i \in 1 .. Len(longer) /\ recent'[i] = longer[d + i]
    BY <1>6, <2>1
  <2> QED BY <1>5, <2>2
<1>8. CASE Len(poll.found) = 1
  <2>1. poll' = Resting
    BY <1>1, <1>8
  <2>2. Shape' /\ PollInv'
    <3>1. /\ poll' \in Poll /\ poll'.at = "sleep" /\ poll'.todo = NoRows
          /\ \A s \in Series : NoRows[s] = 0
      BY <2>1 DEF Resting, Poll, Places, NoRows
    <3> QED BY <1>1, <1>6, <2>1, <3>1 DEF Shape, PollInv
  <2>3. NotYet' /\ RingInOrder' /\ AllBacked'
    BY <1>1, <1>7, <2>1 DEF NotYet, Ahead, RingInOrder, AllBacked, Resting
  <2> QED BY <2>2, <2>3
<1>9. CASE Len(poll.found) # 1
  <2>1. /\ Tail(poll.found) \in Seq(Event) /\ Tail(poll.found) # <<>>
        /\ Len(Tail(poll.found)) = Len(poll.found) - 1
        /\ \A i \in 1 .. Len(poll.found) - 1 : Tail(poll.found)[i] = poll.found[i + 1]
    BY <1>1, <1>9, TailFacts
  <2>2. /\ poll'.at = "emit" /\ poll'.todo = NoRows /\ poll'.found = Tail(poll.found)
        /\ poll' \in Poll
    BY <1>1, <1>9, <2>1 DEF Shape, Poll, Places
  <2>3. Shape' /\ PollInv'
    <3>1. \A s \in Series : NoRows[s] = 0
      BY DEF NoRows
    <3>2. poll'.found # <<>>
      BY <2>1, <2>2, Zenon
    <3>3. Shape'
      BY <1>1, <1>6, <2>2 DEF Shape
    <3> QED BY <2>2, <3>1, <3>2, <3>3 DEF PollInv
  <2>4. \A i \in 1 .. Len(poll'.found) : Backed(ring, poll'.found[i])
    <3> TAKE i \in 1 .. Len(poll'.found)
    <3>1. /\ i \in 1 .. Len(poll.found) - 1 /\ i + 1 \in 1 .. Len(poll.found)
          /\ poll'.found[i] = poll.found[i + 1]
      <4>1. Len(poll'.found) = Len(poll.found) - 1
        BY <2>1, <2>2, Zenon
      <4>2. Len(poll.found) \in Nat
        BY <1>1
      <4>3. i \in 1 .. Len(poll.found) - 1 /\ i + 1 \in 1 .. Len(poll.found)
        BY <4>1, <4>2
      <4> QED BY <2>1, <2>2, <4>3
    <3> QED BY <3>1 DEF AllBacked
  <2>5. NotYet' /\ RingInOrder' /\ AllBacked'
    BY <1>1, <1>7, <2>2, <2>4 DEF NotYet, Ahead, RingInOrder, AllBacked
  <2> QED BY <2>3, <2>5
<1> QED BY <1>8, <1>9

-----------------------------------------------------------------------------
(* The theorems.                                                           *)

\* The readers and a pod's end leave the rings, the events and the poll alone.
LEMMA NextRingInv == RingInv /\ [Next]_vars => RingInv'
<1> SUFFICES ASSUME RingInv, [Next]_vars PROVE RingInv'
  OBVIOUS
<1>1. ASSUME UNCHANGED <<ring, recent, poll>> PROVE RingInv'
  BY <1>1 DEF RingInv, Shape, PollInv, NotYet, Ahead, RingInOrder, AllBacked
<1>2. ASSUME NEW p \in Leaving, Gone(p) PROVE RingInv'
  BY <1>1, <1>2 DEF Gone
<1>3. CASE PollerStep
  <2>1. ASSUME NEW rows \in [Pods -> 0 .. MaxRows], Query(rows) PROVE RingInv'
    <3>1. rows \in [Pods -> Nat]
      BY AggregatorAssumption
    <3> QED BY <2>1, <3>1, QueryStep
  <2> QED BY <1>3, <2>1, TickStep, CallLockStep, AddStep, EndOfPackStep, EmitStep
           DEF PollerStep
<1>4. ASSUME NEW r \in Readers, NEW path \in {"/window", "/events"}, Get(r, path)
      PROVE  RingInv'
  BY <1>1, <1>4 DEF Get
<1>5. ASSUME NEW r \in Readers, Finish(r) \/ HangUp(r) PROVE RingInv'
  BY <1>1, <1>5 DEF Finish, HangUp
<1>6. CASE UNCHANGED vars
  BY <1>1, <1>6 DEF vars
<1> QED BY <1>2, <1>3, <1>4, <1>5, <1>6 DEF Next

\* The invariant of a poll: a series that is still to be asked for has no sample
\* of this poll, one that is being added only the rows that are not to do any
\* more, and what was found and not yet emitted has its sample (main.go:234-258,
\* 283-290).
THEOREM PollInvariant == Spec => []RingInv
<1> QED BY InitRingInv, NextRingInv, PTL DEF Spec

\* Whatever the capacity, the clients and the number of rows a query has for one
\* pod, a series is in the order of time and within the capacity, and a poll has
\* left no more samples in it than there are rows (main.go:40-48, 200-209,
\* 234-248).
THEOREM RingsInOrder == Spec => []RingInOrder
<1>1. RingInv => RingInOrder
  BY DEF RingInv
<1> QED BY <1>1, PollInvariant, PTL

\* An event that can be read has its sample in the ring, or only younger ones,
\* also when the ring has dropped the sample since (main.go:243-258, 283-290).
THEOREM EventsHaveSamples == Spec => []EventsBacked
<1>1. RingInv => EventsBacked
  <2> SUFFICES ASSUME RingInv, NEW i \in DOMAIN recent
               PROVE  LET samples == ring[recent[i].of]
                      IN  \/ \E k \in DOMAIN samples : samples[k] = recent[i].age
                          \/ samples # <<>> /\ Head(samples) < recent[i].age
    BY DEF EventsBacked
  <2> DEFINE samples == ring[recent[i].of]
  <2>1. recent \in Seq(Event) /\ i \in 1 .. Len(recent)
    BY DEF RingInv, Shape
  <2>2. recent[i].of \in Series
    <3>1. recent[i] \in Event
      BY <2>1
    <3> QED BY <3>1 DEF Event
  <2>3. samples \in Seq(0 .. Horizon)
    BY <2>2 DEF RingInv, Shape
  <2>4. \/ \E k \in 1 .. Len(samples) : samples[k] = recent[i].age
        \/ samples # <<>> /\ samples[1] < recent[i].age
    BY <2>1 DEF RingInv, AllBacked, Backed
  <2> HIDE DEF samples
  <2>5. /\ DOMAIN samples = 1 .. Len(samples)
        /\ samples # <<>> => Head(samples) = samples[1]
    BY <2>3
  <2>6. \/ \E k \in DOMAIN samples : samples[k] = recent[i].age
        \/ samples # <<>> /\ Head(samples) < recent[i].age
    BY <2>4, <2>5
  <2> QED BY <2>6 DEF samples
<1> QED BY <1>1, PollInvariant, PTL

=============================================================================
