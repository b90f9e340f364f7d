------------------------------ MODULE Narrator ------------------------------
(***************************************************************************)
(* GET /api/narrative of the L4 API (api/main.py): FastAPI runs each       *)
(* request in a thread of its pool; the threads share _NARR_CACHE, which   *)
(* keeps the last sentence the local model wrote.  Each line of the        *)
(* handler that touches the cache is a step of its own.                    *)
(*                                                                         *)
(* A text is the graph it describes.  The engine's /graph is external: it  *)
(* shows any graph of Graphs, and Broken while a pass fails.  The model    *)
(* server is external too: it answers every call while it is up, and any   *)
(* or none of them during an outage.                                       *)
(***************************************************************************)
EXTENDS Integers, FiniteSets

CONSTANTS
    Requests,   \* threads of the pool
    Graphs,     \* what the engine may publish: [root, sig, incipient]
    Broken,     \* the graph of a failed pass: no root, no forecast
    None

Sources == {"none", "steady", "forecast", "llm", "fallback", "error"}

\* What is cached: the text together with who wrote it.
Entries == [text : Graphs \cup {None}, source : Sources]

ASSUME GraphAssumption ==
    /\ IsFiniteSet(Requests)
    /\ Broken \in Graphs /\ None \notin Graphs /\ None \notin Entries
    /\ \A g \in Graphs : g.root \in BOOLEAN /\ g.incipient \in BOOLEAN
    /\ ~Broken.root /\ ~Broken.incipient

Sigs == {g.sig : g \in Graphs}  \* _verdict_signature

VARIABLES
    published,  \* what the engine's /graph shows now
    model,      \* is the model server up?
    cache,      \* _NARR_CACHE: [Sigs -> Entries \cup {None}]
    pc,         \* [Requests -> where the thread is]
    seen,       \* [Requests -> the graph the thread fetched]
    draft,      \* [Requests -> the text the thread will return]
    source      \* [Requests -> the source field of the reply]

vars == <<published, model, cache, pc, seen, draft, source>>

Steps == {"idle", "check", "read", "render", "clear", "store", "done", "failed"}
EmptyCache == [s \in Sigs |-> None]
Cached == {s \in Sigs : cache[s] # None}

Init == /\ published \in Graphs
        /\ model \in BOOLEAN
        /\ cache = EmptyCache
        /\ pc = [r \in Requests |-> "idle"]
        /\ seen = [r \in Requests |-> None]
        /\ draft = [r \in Requests |-> None]
        /\ source = [r \in Requests |-> "none"]

Publish(g) == /\ published' = g
              /\ UNCHANGED <<model, cache, pc, seen, draft, source>>

\* An outage of the model server begins or ends.
Outage == /\ model' = ~model
          /\ UNCHANGED <<published, cache, pc, seen, draft, source>>

Goto(r, step) == pc' = [pc EXCEPT ![r] = step]
Reply(r, text, from) == /\ draft' = [draft EXCEPT ![r] = text]
                        /\ source' = [source EXCEPT ![r] = from]

\* Mutant: the early return for a graph without a root is missing.
FetchUnguarded(r) ==
    /\ pc[r] = "idle"
    /\ seen' = [seen EXCEPT ![r] = published]
    /\ Goto(r, "check")
    /\ UNCHANGED <<published, model, cache, draft, source>>

\* graph(); a verdict without a root is answered at once, by the forecast or
\* by the steady line.
Fetch(r) ==
    /\ pc[r] = "idle"
    /\ seen' = [seen EXCEPT ![r] = published]
    /\ IF published.root
       THEN Goto(r, "check") /\ UNCHANGED <<draft, source>>
       ELSE /\ Goto(r, "done")
            /\ Reply(r, published,
                     IF published.incipient THEN "forecast" ELSE "steady")
    /\ UNCHANGED <<published, model, cache>>

\* The engine cannot be reached: HTTP 503, nothing else happens.
Unreachable(r) ==
    /\ pc[r] = "idle"
    /\ Goto(r, "done")
    /\ Reply(r, None, "error")
    /\ UNCHANGED <<published, model, cache, seen>>

\* if sig in _NARR_CACHE
Check(r) ==
    /\ pc[r] = "check"
    /\ Goto(r, IF cache[seen[r].sig] # None THEN "read" ELSE "render")
    /\ UNCHANGED <<published, model, cache, seen, draft, source>>

\* c = _NARR_CACHE[sig]: a KeyError if the entry is gone by now.
Read(r) ==
    /\ pc[r] = "read"
    /\ IF cache[seen[r].sig] # None
       THEN /\ Goto(r, "done")
            /\ Reply(r, cache[seen[r].sig].text, cache[seen[r].sig].source)
       ELSE Goto(r, "failed") /\ UNCHANGED <<draft, source>>
    /\ UNCHANGED <<published, model, cache, seen>>

\* Mutant: the template is cached as if the model had written it.
RenderCachingFallback(r, answered) ==
    /\ pc[r] = "render"
    /\ model => answered
    /\ Reply(r, seen[r], IF answered THEN "llm" ELSE "fallback")
    /\ Goto(r, "clear")
    /\ UNCHANGED <<published, model, cache, seen>>

\* The model answers, or is unset, slow or unreachable: then the template is
\* returned and nothing is cached.
Render(r, answered) ==
    /\ pc[r] = "render"
    /\ model => answered
    /\ Reply(r, seen[r], IF answered THEN "llm" ELSE "fallback")
    /\ Goto(r, IF answered THEN "clear" ELSE "done")
    /\ UNCHANGED <<published, model, cache, seen>>

\* Mutant: _NARR_CACHE.clear() is missing.
ClearNothing(r) ==
    /\ pc[r] = "clear"
    /\ Goto(r, "store")
    /\ UNCHANGED <<published, model, cache, seen, draft, source>>

\* _NARR_CACHE.clear(), then (Store) _NARR_CACHE[sig] = out.
Clear(r) ==
    /\ pc[r] = "clear"
    /\ cache' = EmptyCache
    /\ Goto(r, "store")
    /\ UNCHANGED <<published, model, seen, draft, source>>

Entry(r) == [text |-> draft[r], source |-> source[r]]

\* Mutant: the entry is filed under the verdict of the moment.
StoreUnderPublished(r) ==
    /\ pc[r] = "store"
    /\ cache' = [cache EXCEPT ![published.sig] = Entry(r)]
    /\ Goto(r, "done")
    /\ UNCHANGED <<published, model, seen, draft, source>>

Store(r) ==
    /\ pc[r] = "store"
    /\ cache' = [cache EXCEPT ![seen[r].sig] = Entry(r)]
    /\ Goto(r, "done")
    /\ UNCHANGED <<published, model, seen, draft, source>>

\* The reply is sent; the dashboard polls again.
Return(r) ==
    /\ pc[r] \in {"done", "failed"}
    /\ Goto(r, "idle")
    /\ seen' = [seen EXCEPT ![r] = None]
    /\ Reply(r, None, "none")
    /\ UNCHANGED <<published, model, cache>>

Handle(r) == \/ Check(r)
             \/ Read(r)
             \/ \E answered \in BOOLEAN : Render(r, answered)
             \/ Clear(r)
             \/ Store(r)
             \/ Return(r)

Next == \/ \E g \in Graphs : Publish(g)
        \/ Outage
        \/ \E r \in Requests : Fetch(r) \/ Unreachable(r) \/ Handle(r)

Spec == Init /\ [][Next]_vars

\* A thread that has a request runs on; the call to the model has a deadline.
\* Nobody has to poll, the engine need not publish.
FairSpec == Spec /\ \A r \in Requests : WF_vars(Handle(r))

-----------------------------------------------------------------------------
(* Properties.                                                             *)

TypeOK ==
    /\ published \in Graphs
    /\ model \in BOOLEAN
    /\ cache \in [Sigs -> Entries \cup {None}]
    /\ pc \in [Requests -> Steps]
    /\ seen \in [Requests -> Graphs \cup {None}]
    /\ draft \in [Requests -> Graphs \cup {None}]
    /\ source \in [Requests -> Sources]
    /\ \A r \in Requests : pc[r] \in {"check", "read", "render", "clear", "store"}
                               => seen[r] \in Graphs /\ seen[r].root

\* A thread is never answered with the sentence of another verdict, however
\* long the model took and whatever the engine published meanwhile: a cached or
\* fresh text describes a graph with the signature of the one that was fetched
\* (api/main.py:376-382, 408-409).
RepliesMatch ==
    \A r \in Requests : pc[r] = "done" /\ source[r] \in {"llm", "fallback"}
        => draft[r].root /\ draft[r].sig = seen[r].sig

\* The cache does not grow with the verdicts it has seen: at most one entry per
\* thread survives, because everyone who stores has cleared (408-409).
CacheBounded == Cardinality(Cached) <= Cardinality(Requests)

\* "While it falls back, keep retrying" (407): once the model answers for good,
\* the template disappears from the replies for good, also for the verdicts of
\* the outage.  A cached entry lasts as long as its verdict and is served with
\* its source (379-381, 408-409), so a template that got in would outlive the
\* outage.
OutageEnds ==
    <>[]model => <>[](\A r \in Requests : source[r] # "fallback")

\* The template is "the always-available fallback" (256): no poll that reached
\* the engine ends in a server error.
AlwaysAnswered == \A r \in Requests : pc[r] # "failed"

\* "Otherwise steady ... the deterministic steady line is the right answer"
\* (371-375): the steady line is a verdict of the engine, not a failed pass.
SteadyIsMeasured ==
    \A r \in Requests : source[r] = "steady" => seen[r] # Broken

=============================================================================
