--------------------------- MODULE MCCaseLibrary ----------------------------
(* Instances of CaseLibrary for TLC: verdicts of the storage quartet.      *)
EXTENDS CaseLibrary

CONSTANTS cm, dc, la, ts

KindOrder == <<"ebpf", "node", "psi", "pvc">>
Write(a, b) == [src |-> a, dst |-> b, evidence |-> {"write", "pvc"}]
Stall(a, b) == [src |-> a, dst |-> b, evidence |-> {"stat", "pvc", "psi"}]

\* S1: the cooling monitor's flush; with the bridge as a victim of it; with a
\* cascade from victim to victim that moves the motif a little.
Flush == [root |-> cm, blast |-> {ts}, edges |-> {Write(cm, ts)}]
Wide == [root |-> cm, blast |-> {ts, dc}, edges |-> {Write(cm, ts), Write(cm, dc)}]
Cascade == [root |-> cm, blast |-> {ts, dc},
            edges |-> {Write(cm, ts), Write(cm, dc), Stall(dc, ts)}]
All == [root |-> cm, blast |-> {ts, dc, la},
        edges |-> {Write(cm, ts), Write(cm, dc), Write(cm, la)}]
\* S2: the archiver's storm.
Archive == [root |-> la, blast |-> {}, edges |-> {Write(la, ts)}]
\* Victims only, and nothing at all: never promoted.
Victim == [root |-> dc, blast |-> {ts}, edges |-> {Stall(dc, ts)}]
Calm == [root |-> None, blast |-> {}, edges |-> {}]

SomeGraphs == {Flush, Wide, Cascade, All, Archive, Victim, Calm}
\* A founder and what would be its variant, each a family of its own.
OldCases == {Fingerprint(Flush), Fingerprint(Wide)}
NoOldCases == {}
=============================================================================
