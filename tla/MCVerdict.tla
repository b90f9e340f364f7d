----------------------------- MODULE MCVerdict -----------------------------
(* An instance of Verdict for TLC: three pods on the disk, two of them     *)
(* writers, and vision-qc beside them.                                     *)
EXTENDS Verdict

CONSTANTS cool, dcim, tsdb, vision

PodOrder == <<cool, dcim, tsdb, vision>>

At(t, z) == [at |-> t, z |-> z]
\* No onset, an early one, a late one, and two storms in one window.
SomeOnsets == {<<>>, <<At(0, 3)>>, <<At(8, 4)>>, <<At(0, 5), At(8, 3)>>}

Peak(r, lag) == [r |-> r, lag |-> lag, supported |-> TRUE]
Spike == [r |-> 4, lag |-> 0, supported |-> FALSE]
SomeLags == {[fwd |-> Peak(3, 0), rev |-> Peak(3, 0)],
             [fwd |-> Peak(2, 0), rev |-> Peak(4, 1)],
             [fwd |-> Peak(-4, 0), rev |-> Peak(3, 0)]}
SomePushes == {Peak(2, 0), Spike}

Calm == [p \in Pods |-> Never]
Held(p, q, r) == Edge(p, q, r, FALSE)
\* A finding without edges, a backbone without findings, a source edge with its
\* victim.
OtherGraphs ==
    {[edges |-> <<>>, onset |-> [Calm EXCEPT ![vision] = 0]],
     [edges |-> <<Held(dcim, tsdb, 0), Held(tsdb, cool, 4)>>, onset |-> Calm],
     [edges |-> <<Edge(cool, tsdb, 4, TRUE)>>, onset |-> [Calm EXCEPT ![tsdb] = 8]]}

SomeHeld == {<<Held(cool, tsdb, 0)>>,
             <<Held(cool, dcim, 4), Held(dcim, tsdb, 4), Held(tsdb, cool, 3)>>}
StallTogether == {{cool, tsdb, vision}}
=============================================================================
