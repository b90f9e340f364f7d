---------------------------- MODULE CaseLibrary -----------------------------
(***************************************************************************)
(* The case library of the L3 engine: the cases and case_observations      *)
(* tables of correlation/engine/state.py and GraphMemory._promote_case,    *)
(* which folds the verdict of a pass into the nearest known case, records  *)
(* it as a variant of that case's family, or opens a new family.           *)
(*                                                                         *)
(* Pod names are mapped by stable_workload before they reach this module.  *)
(* A case id is the hash of the case's fingerprint: the fingerprint itself *)
(* stands for it.  db is what the open connection reads, disk what the     *)
(* last commit made durable.                                               *)
(***************************************************************************)
EXTENDS Integers, Sequences, FiniteSets

CONSTANTS
    Graphs,     \* results of run_pass: [root, blast, edges]
    None,       \* no root, no witness, no verdict
    Kinds,      \* the physical witness kinds, in alphabetical order
    Unit,       \* a similarity of 1 per cent; every union's size divides it
    TauMerge, TauFamily, \* per cent
    Legacy,     \* fingerprints of cases migrated from before v4
    MaxPasses,  \* bound on passes with a verdict
    MaxFaults   \* bound on exceptions and crashes

-----------------------------------------------------------------------------
(* From the verdict of a pass to a fingerprint.                            *)

\* The ranked root owns an outgoing edge with source evidence.
Sourced(g) == \E e \in g.edges : e.src = g.root /\ "write" \in e.evidence

Victims(g) ==
    LET reached == g.blast \ {g.root}
    IN  IF reached # {} THEN reached ELSE {e.dst : e \in g.edges} \ {g.root}

Promotable(g) == /\ g.root # None /\ g.edges # {}
                 /\ Sourced(g)
                 /\ Victims(g) # {}

Votes(g, kind) == Cardinality({e \in g.edges : kind \in e.evidence})

\* The most frequent physical witness, the alphabetically first of a tie.
DominantWitness(g) ==
    LET wins(i) == /\ Votes(g, Kinds[i]) > 0
                   /\ \A j \in DOMAIN Kinds :
                        /\ Votes(g, Kinds[j]) <= Votes(g, Kinds[i])
                        /\ j < i => Votes(g, Kinds[j]) < Votes(g, Kinds[i])
    IN  IF \E i \in DOMAIN Kinds : wins(i)
        THEN Kinds[CHOOSE i \in DOMAIN Kinds : wins(i)] ELSE None

Fingerprint(g) ==
    [stressors |-> {g.root}, victims |-> Victims(g),
     motif |-> {<<e.src, e.dst>> : e \in g.edges},
     witness |-> DominantWitness(g)]

\* The id a migrated or a promoted case may have.
Ids == Legacy \cup {Fingerprint(g) : g \in {h \in Graphs : Promotable(h)}}

-----------------------------------------------------------------------------
(* Similarity.                                                             *)

Jaccard(a, b) == IF a \cup b = {} THEN Unit
                 ELSE (Unit * Cardinality(a \cap b)) \div Cardinality(a \cup b)

\* Weighted overlap in hundredths of a Unit; a different physical witness is a
\* different type (the signal is the same in all of one database).
Sim(f, c) == IF f.witness # c.witness THEN 0
             ELSE 40 * Jaccard(f.victims, c.victims)
                  + 20 * Jaccard(f.stressors, c.stressors)
                  + 40 * Jaccard(f.motif, c.motif)

Merges(f, c) == Sim(f, c) >= TauMerge * Unit
Relates(f, c) == Sim(f, c) >= TauFamily * Unit

ASSUME LibraryAssumption ==
    /\ Unit \in Nat \ {0}
    /\ TauMerge \in 1 .. 100
    /\ TauFamily \in 1 .. TauMerge
    /\ MaxPasses \in Nat
    /\ MaxFaults \in Nat

\* A pass reports finitely many edges.
ASSUME FiniteAssumption ==
    \A f \in Ids : /\ IsFiniteSet(f.stressors)
                   /\ IsFiniteSet(f.victims)
                   /\ IsFiniteSet(f.motif)

-----------------------------------------------------------------------------
VARIABLES
    cases,      \* rows in the order SELECT * FROM cases returns them
    obs,        \* rows of case_observations, counted per case id
    disk,       \* both tables as of the last commit
    phase,      \* where the pass is
    verdict,    \* the fingerprint being promoted, None if there is none
    target,     \* the case id the observation is logged under
    register,   \* case_register of the pass: what the narrator will say
    last,       \* history: the verdict of the pass before, None if it was quiet
    passes, faults

vars == <<cases, obs, disk, phase, verdict, target, register, last, passes, faults>>

Case == [id : Ids, family : Ids, occurrences : Nat]
Tables == [cases |-> cases, obs |-> obs]
NewCase(f, fam) == [id |-> f, family |-> fam, occurrences |-> 1]
KnownIds(cs) == {cs[i].id : i \in DOMAIN cs}

\* The migration to v4 makes every case the one member of its own family.
Init ==
    /\ cases \in UNION {[1 .. n -> {NewCase(f, f) : f \in Legacy}] :
                            n \in 0 .. Cardinality(Legacy)}
    /\ \A i, j \in DOMAIN cases : i # j => cases[i].id # cases[j].id
    /\ obs = [f \in Ids |-> IF f \in KnownIds(cases) THEN 1 ELSE 0]
    /\ disk = Tables
    /\ phase = "idle"
    /\ verdict = None /\ target = None /\ register = None /\ last = None
    /\ passes = 0 /\ faults = 0

BeginUnguarded(g) ==
    /\ phase = "idle"
    /\ passes < MaxPasses
    /\ passes' = passes + 1
    /\ disk' = Tables
    /\ verdict' = IF Promotable(g) THEN Fingerprint(g) ELSE None
    /\ phase' = "match"
    /\ register' = None
    /\ UNCHANGED <<cases, obs, target, last, faults>>

\* update_baselines commits what an aborted pass left on the connection; the
\* pass then reaches _promote_case with the graph run_pass returned.
Begin(g) ==
    /\ phase = "idle"
    /\ IF Promotable(g) THEN passes < MaxPasses /\ passes' = passes + 1
       ELSE UNCHANGED passes
    /\ disk' = Tables
    /\ verdict' = IF Promotable(g) THEN Fingerprint(g) ELSE None
    /\ phase' = IF Promotable(g) THEN "match" ELSE "commit"
    /\ register' = None
    /\ UNCHANGED <<cases, obs, target, last, faults>>

\* Mutants.  A search that takes any row of the family; a prototype that drifts
\* to the incident folded into it; a fold that forgets to count; a variant
\* filed under its neighbour instead of its neighbour's family; a pass that
\* looks up a verdict no guard let through.
NearestAnyRelated(f, i) == i \in DOMAIN cases /\ Relates(f, cases[i].id)

FoldDrifting(i) ==
    /\ phase = "match"
    /\ NearestAnyRelated(verdict, i) /\ Merges(verdict, cases[i].id)
    /\ cases' = [cases EXCEPT ![i].occurrences = @ + 1, ![i].id = verdict]
    /\ target' = verdict
    /\ register' = "recurrence"
    /\ phase' = "log"
    /\ UNCHANGED <<obs, disk, verdict, last, passes, faults>>

FoldUncounted(i) ==
    /\ phase = "match"
    /\ NearestAnyRelated(verdict, i) /\ Merges(verdict, cases[i].id)
    /\ target' = cases[i].id
    /\ register' = "recurrence"
    /\ phase' = "log"
    /\ UNCHANGED <<cases, obs, disk, verdict, last, passes, faults>>

\* Row i is the first of the rows most like the fingerprint.
Nearest(f, i) ==
    /\ i \in DOMAIN cases
    /\ Sim(f, cases[i].id) > 0
    /\ \A j \in DOMAIN cases :
        /\ Sim(f, cases[j].id) <= Sim(f, cases[i].id)
        /\ j < i => Sim(f, cases[j].id) < Sim(f, cases[i].id)

\* The prototype keeps its shape; only the counter moves.
Fold(i) ==
    /\ phase = "match"
    /\ Nearest(verdict, i)
    /\ Merges(verdict, cases[i].id)
    /\ cases' = [cases EXCEPT ![i].occurrences = @ + 1]
    /\ target' = cases[i].id
    /\ register' = "recurrence"
    /\ phase' = "log"
    /\ UNCHANGED <<obs, disk, verdict, last, passes, faults>>

\* INSERT OR IGNORE: a row whose id is taken is left alone.
Inserted(f, fam) == IF f \in KnownIds(cases) THEN cases
                    ELSE Append(cases, NewCase(f, fam))

Mint(fam, reg) ==
    /\ cases' = Inserted(verdict, fam)
    /\ target' = verdict
    /\ register' = reg
    /\ phase' = "log"
    /\ UNCHANGED <<obs, disk, verdict, last, passes, faults>>

BranchUnderNeighbour(i) ==
    /\ phase = "match"
    /\ Nearest(verdict, i)
    /\ ~Merges(verdict, cases[i].id)
    /\ Relates(verdict, cases[i].id)
    /\ Mint(cases[i].id, "variant")

Branch(i) ==
    /\ phase = "match"
    /\ Nearest(verdict, i)
    /\ ~Merges(verdict, cases[i].id)
    /\ Relates(verdict, cases[i].id)
    /\ Mint(cases[i].family, "variant")

Open ==
    /\ phase = "match"
    /\ \A i \in DOMAIN cases : ~Relates(verdict, cases[i].id)
    /\ Mint(verdict, "novel")

Log ==
    /\ phase = "log"
    /\ obs' = [obs EXCEPT ![target] = @ + 1]
    /\ phase' = "commit"
    /\ UNCHANGED <<cases, disk, verdict, target, register, last, passes, faults>>

Rest == /\ phase' = "idle"
        /\ verdict' = None /\ target' = None
        /\ last' = verdict

Commit ==
    /\ phase = "commit"
    /\ disk' = Tables
    /\ Rest
    /\ UNCHANGED <<cases, obs, register, passes, faults>>

\* An exception inside observe: swallowed by the loop, nothing rolled back.
Fail ==
    /\ phase # "idle"
    /\ faults < MaxFaults
    /\ faults' = faults + 1
    /\ Rest
    /\ register' = None
    /\ UNCHANGED <<cases, obs, disk, passes>>

\* The process dies (or SQLite rolls the transaction back by itself).
Crash ==
    /\ faults < MaxFaults
    /\ faults' = faults + 1
    /\ cases' = disk.cases
    /\ obs' = disk.obs
    /\ Rest
    /\ register' = None
    /\ UNCHANGED <<disk, passes>>

Next == \/ \E g \in Graphs : Begin(g)
        \/ \E i \in DOMAIN cases : Fold(i) \/ Branch(i)
        \/ Open \/ Log \/ Commit
        \/ Fail \/ Crash

Spec == Init /\ [][Next]_vars

-----------------------------------------------------------------------------
(* Properties.                                                             *)

TypeOK ==
    /\ cases \in Seq(Case)
    /\ obs \in [Ids -> Nat]
    /\ disk \in [cases : Seq(Case), obs : [Ids -> Nat]]
    /\ phase \in {"idle", "match", "log", "commit"}
    /\ verdict \in Ids \cup {None}
    /\ target \in Ids \cup {None}
    /\ register \in {None, "recurrence", "variant", "novel"}
    /\ phase \in {"match", "log"} => verdict \in Ids
    /\ phase = "log" => target \in Ids

\* A family is named by a case that founded it: its id is the id of a case in
\* the table that is its own family, however long the chain of variants of
\* variants grew (state.py:536, 562) and whichever passes were lost.
FamilyRooted(cs) ==
    \A i \in DOMAIN cs : \E j \in 1 .. i : /\ cs[j].id = cs[i].family
                                           /\ cs[j].family = cs[j].id
FamiliesRooted == FamilyRooted(cases) /\ FamilyRooted(disk.cases)

\* A case belongs to a family other than its own only because an older case of
\* that family is TauFamily-like it, and it is like no other family more
\* (state.py:523-527, 561-564).
FamiliesLinked ==
    \A i \in DOMAIN cases : cases[i].family # cases[i].id =>
        \E j \in 1 .. i - 1 :
            /\ cases[j].family = cases[i].family
            /\ Relates(cases[i].id, cases[j].id)
            /\ \A m \in 1 .. i - 1 :
                Sim(cases[i].id, cases[m].id) <= Sim(cases[i].id, cases[j].id)

\* The library does not explode: no case is minted that an older one already
\* covers, so an id is never inserted twice and a promotion never hits IGNORE
\* (state.py:519-522, 567).
Apart(cs) ==
    \A i, j \in DOMAIN cs : i # j =>
        /\ cs[i].id # cs[j].id
        /\ {cs[i].id, cs[j].id} \subseteq Legacy \/ ~Merges(cs[i].id, cs[j].id)
CasesApart == Apart(cases) /\ Apart(disk.cases)

\* Every logged observation belongs to a case of the library and was counted
\* in its occurrences; without an exception or a crash nothing else was
\* (state.py:556-559, 577-583).
Occurrences(cs, f) ==
    IF f \in KnownIds(cs)
    THEN cs[CHOOSE i \in DOMAIN cs : cs[i].id = f].occurrences ELSE 0
ObservationsAccounted ==
    \A f \in Ids :
        /\ obs[f] <= Occurrences(cases, f)
        /\ disk.obs[f] <= Occurrences(disk.cases, f)
        /\ faults = 0 /\ phase # "log" => obs[f] = Occurrences(cases, f)

\* The permanent archive is permanent: a committed case keeps its place, its
\* id and its family, and its counter only rises (state.py:199, 553-559).
ArchivePermanent ==
    [][\A i \in DOMAIN disk.cases :
        /\ i \in DOMAIN disk'.cases
        /\ disk'.cases[i].id = disk.cases[i].id
        /\ disk'.cases[i].family = disk.cases[i].family
        /\ disk'.cases[i].occurrences >= disk.cases[i].occurrences]_vars

\* "Incrementing occurrences ... each recurrence. This is the memory the P5
\* narrator cites" (DESIGN_stateful_engine_and_case_library.md:178-180): a case
\* is said to recur when its incident comes back, not while the verdict of the
\* pass before is still the same one.
RecurrenceMeansReturn ==
    [][phase = "match" /\ register' = "recurrence" => last # verdict]_vars

=============================================================================
