--------------------------- MODULE NarratorProofs ---------------------------
(***************************************************************************)
(* Proofs about the narrative endpoint: the threads' replies and the cache *)
(* they share, for any pool, any graphs and any number of signatures.      *)
(***************************************************************************)
EXTENDS Narrator, FiniteSetTheorems, TLAPS

-----------------------------------------------------------------------------
(* The inductive invariant.                                                *)

Storing == {r \in Requests : pc[r] = "store"}

\* Between Render and Store the thread's text is the graph it fetched.
DraftsHeld ==
    \A r \in Requests : pc[r] \in {"clear", "store"} => draft[r] = seen[r]

\* An entry describes a verdict with the signature it is filed under.
EntriesMatch ==
    \A s \in Sigs : cache[s] # None
        => cache[s].text \in Graphs /\ cache[s].text.root /\ cache[s].text.sig = s

\* An entry survives only next to a thread that is not about to store: every
\* Store is paid for by the Clear of the same thread.
StoresPaid ==
    /\ IsFiniteSet(Cached)
    /\ Cardinality(Cached) + Cardinality(Storing) <= Cardinality(Requests)

IInv == TypeOK /\ DraftsHeld /\ EntriesMatch /\ RepliesMatch /\ StoresPaid

-----------------------------------------------------------------------------
(* Type correctness.                                                       *)

\* The signature of a graph is one of the cache's keys.
LEMMA SigInSigs == ASSUME NEW g \in Graphs PROVE g.sig \in Sigs
BY DEF Sigs

\* A thread that is past the first fetch has a graph with a root, and what any
\* step files in the cache or hands back is a graph or nothing.
LEMMA NextTypeOK == TypeOK /\ [Next]_vars => TypeOK'
<1> SUFFICES ASSUME TypeOK, [Next]_vars
             PROVE  TypeOK'
    OBVIOUS
<1> USE GraphAssumption DEF TypeOK
<1>1. ASSUME NEW g \in Graphs, Publish(g)
      PROVE  TypeOK'
    BY <1>1 DEF Publish
<1>2. ASSUME NEW r \in Requests, Fetch(r)
      PROVE  TypeOK'
    <2>1. CASE published.root
        BY <1>2, <2>1 DEF Fetch, Goto, Steps
    <2>2. CASE ~published.root
        <3>1. (IF published.incipient THEN "forecast" ELSE "steady") \in Sources
            BY DEF Sources
        <3>2. QED
            BY <1>2, <2>2, <3>1 DEF Fetch, Goto, Reply, Steps
    <2>3. QED
        BY <2>1, <2>2
<1>3. ASSUME NEW r \in Requests, Unreachable(r)
      PROVE  TypeOK'
    BY <1>3 DEF Unreachable, Goto, Reply, Steps, Sources
<1>4. ASSUME NEW r \in Requests, Check(r)
      PROVE  TypeOK'
    BY <1>4 DEF Check, Goto, Steps
<1>5. ASSUME NEW r \in Requests, Read(r)
      PROVE  TypeOK'
    <2>1. seen[r].sig \in Sigs
        BY <1>5, SigInSigs DEF Read
    <2>2. CASE cache[seen[r].sig] # None
        <3> DEFINE c == cache[seen[r].sig]
        <3>1. c \in Entries
            BY <2>1, <2>2
        <3>2. c.text \in Graphs \cup {None} /\ c.source \in Sources
            BY <3>1 DEF Entries
        <3>3. Goto(r, "done") /\ Reply(r, c.text, c.source)
            BY <1>5, <2>2 DEF Read
        <3> HIDE DEF c
        <3>4. QED
            BY <1>5, <3>2, <3>3 DEF Read, Goto, Reply, Steps
    <2>3. CASE cache[seen[r].sig] = None
        BY <1>5, <2>3 DEF Read, Goto, Steps
    <2>4. QED
        BY <2>2, <2>3
<1>6. ASSUME NEW r \in Requests, NEW answered \in BOOLEAN, Render(r, answered)
      PROVE  TypeOK'
    <2>1. CASE answered
        BY <1>6, <2>1 DEF Render, Goto, Reply, Steps, Sources
    <2>2. CASE ~answered
        BY <1>6, <2>2 DEF Render, Goto, Reply, Steps, Sources
    <2>3. QED
        BY <2>1, <2>2
<1>7. ASSUME NEW r \in Requests, Clear(r)
      PROVE  TypeOK'
    BY <1>7 DEF Clear, Goto, Steps, EmptyCache
<1>8. ASSUME NEW r \in Requests, Store(r)
      PROVE  TypeOK'
    <2>1. Entry(r) \in Entries
        BY DEF Entry, Entries
    <2>2. QED
        BY <1>8, <2>1 DEF Store, Goto, Steps
<1>9. ASSUME NEW r \in Requests, Return(r)
      PROVE  TypeOK'
    BY <1>9 DEF Return, Goto, Reply, Steps, Sources
<1>10. CASE UNCHANGED vars
    BY <1>10 DEF vars
<1>11. CASE Outage
    BY <1>11 DEF Outage
<1>12. QED
    BY <1>1, <1>2, <1>3, <1>4, <1>5, <1>6, <1>7, <1>8, <1>9, <1>10, <1>11
    DEF Next, Handle

\* TypeOK holds in every state: the threads keep to the steps of the handler,
\* and past the early return for a graph without a root (api/main.py:369-375)
\* each holds a graph with one.
THEOREM TypeCorrect == Spec => []TypeOK
<1>1. Init => TypeOK
    BY GraphAssumption DEF Init, TypeOK, EmptyCache, Steps, Sources
<1>2. QED
    BY <1>1, NextTypeOK, PTL DEF Spec

-----------------------------------------------------------------------------
(* What the threads hold and what the cache holds.                         *)

\* Each step keeps the held drafts, the filed entries and the replies matched
\* to the graph they describe: only Render, Store and Read produce one, each
\* from a match of the step before.
LEMMA NextMatch ==
    ASSUME TypeOK, DraftsHeld, EntriesMatch, RepliesMatch, [Next]_vars
    PROVE  DraftsHeld' /\ EntriesMatch' /\ RepliesMatch'
<1> USE GraphAssumption DEF TypeOK, DraftsHeld, EntriesMatch, RepliesMatch
<1> DEFINE Match == DraftsHeld' /\ EntriesMatch' /\ RepliesMatch'
<1>1. ASSUME NEW g \in Graphs, Publish(g)
      PROVE  Match
    BY <1>1 DEF Publish
<1>2. ASSUME NEW r \in Requests, Fetch(r)
      PROVE  Match
    <2>1. CASE published.root
        BY <1>2, <2>1 DEF Fetch, Goto
    <2>2. CASE ~published.root
        <3>1. (IF published.incipient THEN "forecast" ELSE "steady")
                 \notin {"llm", "fallback"}
            OBVIOUS
        <3>2. QED
            BY <1>2, <2>2, <3>1 DEF Fetch, Goto, Reply
    <2>3. QED
        BY <2>1, <2>2
<1>3. ASSUME NEW r \in Requests, Unreachable(r)
      PROVE  Match
    BY <1>3 DEF Unreachable, Goto, Reply
<1>4. ASSUME NEW r \in Requests, Check(r)
      PROVE  Match
    BY <1>4 DEF Check, Goto
<1>5. ASSUME NEW r \in Requests, Read(r)
      PROVE  Match
    <2>1. seen[r].sig \in Sigs
        BY <1>5, SigInSigs DEF Read
    <2>2. CASE cache[seen[r].sig] # None
        BY <1>5, <2>1, <2>2 DEF Read, Goto, Reply
    <2>3. CASE cache[seen[r].sig] = None
        BY <1>5, <2>3 DEF Read, Goto
    <2>4. QED
        BY <2>2, <2>3
<1>6. ASSUME NEW r \in Requests, NEW answered \in BOOLEAN, Render(r, answered)
      PROVE  Match
    <2>1. CASE answered
        BY <1>6, <2>1 DEF Render, Goto, Reply
    <2>2. CASE ~answered
        BY <1>6, <2>2 DEF Render, Goto, Reply
    <2>3. QED
        BY <2>1, <2>2
<1>7. ASSUME NEW r \in Requests, Clear(r)
      PROVE  Match
    BY <1>7 DEF Clear, Goto, EmptyCache
<1>8. ASSUME NEW r \in Requests, Store(r)
      PROVE  Match
    <2>1. seen[r].sig \in Sigs /\ draft[r] = seen[r] /\ seen[r].root
        BY <1>8, SigInSigs DEF Store
    <2>2. Entry(r).text = seen[r]
        BY <2>1 DEF Entry
    <2>3. seen[r] \in Graphs
        BY <1>8 DEF Store
    <2> HIDE DEF Entry
    <2>4. EntriesMatch'
        BY <1>8, <2>1, <2>2, <2>3 DEF Store
    <2>5. QED
        BY <1>8, <2>4 DEF Store, Goto
<1>9. ASSUME NEW r \in Requests, Return(r)
      PROVE  Match
    BY <1>9 DEF Return, Goto, Reply
<1>10. CASE UNCHANGED vars
    BY <1>10 DEF vars
<1>11. CASE Outage
    BY <1>11 DEF Outage
<1>12. QED
    BY <1>1, <1>2, <1>3, <1>4, <1>5, <1>6, <1>7, <1>8, <1>9, <1>10, <1>11
    DEF Next, Handle

-----------------------------------------------------------------------------
(* The size of the cache.                                                  *)

\* The threads that store are among the pool's, and their number is a natural
\* number.
LEMMA StoringFinite ==
    /\ IsFiniteSet(Storing)
    /\ Cardinality(Storing) \in Nat
    /\ Cardinality(Requests) \in Nat
    /\ Cardinality(Storing) <= Cardinality(Requests)
BY GraphAssumption, FS_Subset, FS_CardinalityType DEF Storing

\* A step other than Clear and Store files nothing and brings no thread to the
\* point of storing.
LEMMA QuietStep ==
    ASSUME TypeOK, StoresPaid, cache' = cache, Storing' \subseteq Storing
    PROVE  StoresPaid'
<1>1. Cached' = Cached
    BY DEF Cached
<1>2. /\ IsFiniteSet(Storing')
      /\ Cardinality(Storing') <= Cardinality(Storing)
    BY StoringFinite, FS_Subset
<1>3. Cardinality(Storing') \in Nat /\ Cardinality(Cached) \in Nat
    BY <1>2, FS_CardinalityType DEF StoresPaid
<1>4. QED
    BY <1>1, <1>2, <1>3, StoringFinite DEF StoresPaid

\* Clear empties the cache, so the thread that may now store has room.
LEMMA ClearPays ==
    ASSUME TypeOK, NEW r \in Requests, Clear(r)
    PROVE  StoresPaid'
<1>1. Cached' = {}
    BY DEF Clear, EmptyCache, Cached
<1>2. IsFiniteSet({}) /\ Cardinality({}) = 0
    BY FS_EmptySet
<1>3. /\ Cardinality(Storing') \in Nat
      /\ Cardinality(Storing') <= Cardinality(Requests)
    <2>1. Storing' \subseteq Requests
        BY DEF Storing
    <2>2. QED
        BY <2>1, GraphAssumption, FS_Subset, FS_CardinalityType
<1>4. QED
    BY <1>1, <1>2, <1>3 DEF StoresPaid

\* Store adds at most one entry and takes its thread from those about to store.
LEMMA StorePaid ==
    ASSUME TypeOK, StoresPaid, NEW r \in Requests, Store(r)
    PROVE  StoresPaid'
<1> DEFINE sig == seen[r].sig
<1>1. Storing' = Storing \ {r} /\ r \in Storing
    BY DEF Store, Goto, TypeOK, Storing
<1>2. /\ Cardinality(Storing') = Cardinality(Storing) - 1
      /\ Cardinality(Storing) \in Nat
    BY <1>1, StoringFinite, FS_RemoveElement
<1>3. Cached' \subseteq Cached \cup {sig}
    BY DEF Store, TypeOK, Cached
<1>4. /\ IsFiniteSet(Cached \cup {sig})
      /\ Cardinality(Cached \cup {sig}) <= Cardinality(Cached) + 1
      /\ Cardinality(Cached) \in Nat
    <2>1. IsFiniteSet(Cached) /\ Cardinality(Cached) \in Nat
        BY FS_CardinalityType DEF StoresPaid
    <2> HIDE DEF sig
    <2>2. CASE sig \in Cached
        <3>1. Cached \cup {sig} = Cached
            BY <2>2
        <3>2. QED
            BY <2>1, <3>1
    <2>3. CASE sig \notin Cached
        BY <2>1, <2>3, FS_AddElement
    <2>4. QED
        BY <2>2, <2>3
<1>5. /\ IsFiniteSet(Cached')
      /\ Cardinality(Cached') <= Cardinality(Cached \cup {sig})
      /\ Cardinality(Cached') \in Nat
      /\ Cardinality(Cached \cup {sig}) \in Nat
    BY <1>3, <1>4, FS_Subset, FS_CardinalityType
<1>6. Cardinality(Requests) \in Nat
    BY StoringFinite
<1>7. QED
    BY <1>2, <1>4, <1>5, <1>6 DEF StoresPaid

\* The cache and the threads about to store together never outnumber the pool.
LEMMA NextPaid == TypeOK /\ StoresPaid /\ [Next]_vars => StoresPaid'
<1> SUFFICES ASSUME TypeOK, StoresPaid, [Next]_vars
             PROVE  StoresPaid'
    OBVIOUS
<1>1. CASE \E r \in Requests : Clear(r)
    BY <1>1, ClearPays
<1>2. CASE \E r \in Requests : Store(r)
    BY <1>2, StorePaid
<1>3. CASE /\ ~ \E r \in Requests : Clear(r)
           /\ ~ \E r \in Requests : Store(r)
    <2>1. cache' = cache
        BY <1>3 DEF Next, Handle, vars, Publish, Outage, Fetch, Unreachable, Check, Read,
                    Render, Return
    <2>2. Storing' \subseteq Storing
        BY <1>3 DEF Next, Handle, vars, Publish, Outage, Fetch, Unreachable, Check, Read,
                    Render, Return, Goto, Storing, TypeOK
    <2>3. QED
        BY <2>1, <2>2, QuietStep
<1>4. QED
    BY <1>1, <1>2, <1>3

-----------------------------------------------------------------------------
(* The theorems.                                                           *)

\* The invariant that the others follow from.
THEOREM Invariant == Spec => []IInv
<1>1. Init => IInv
    <2> SUFFICES ASSUME Init PROVE IInv
        OBVIOUS
    <2>1. TypeOK
        BY GraphAssumption DEF Init, TypeOK, EmptyCache, Steps, Sources
    <2>2. DraftsHeld /\ EntriesMatch /\ RepliesMatch
        BY DEF Init, DraftsHeld, EntriesMatch, RepliesMatch, EmptyCache
    <2>3. Cached = {} /\ Storing = {}
        BY DEF Init, Cached, Storing, EmptyCache
    <2>4. StoresPaid
        BY <2>3, FS_EmptySet, StoringFinite DEF StoresPaid
    <2>5. QED
        BY <2>1, <2>2, <2>4 DEF IInv
<1>2. IInv /\ [Next]_vars => IInv'
    BY NextTypeOK, NextMatch, NextPaid DEF IInv
<1>3. QED
    BY <1>1, <1>2, PTL DEF Spec

\* RepliesMatch: however long the model took and whatever the engine published
\* meanwhile, a thread's text carries the signature of the graph it fetched
\* (api/main.py:376-382, 408-409).
THEOREM RepliesMatched == Spec => []RepliesMatch
BY Invariant, PTL DEF IInv

\* CacheBounded: the interleaved clear and store of 408-409 never leave more
\* entries than the pool has threads.
THEOREM CacheStaysBounded == Spec => []CacheBounded
<1>1. IInv => CacheBounded
    <2> SUFFICES ASSUME IInv PROVE CacheBounded
        OBVIOUS
    <2>1. Cardinality(Cached) \in Nat
        BY FS_CardinalityType DEF IInv, StoresPaid
    <2>2. QED
        BY <2>1, StoringFinite DEF IInv, StoresPaid, CacheBounded
<1>2. QED
    BY <1>1, Invariant, PTL
=============================================================================
