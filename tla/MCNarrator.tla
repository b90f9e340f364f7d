----------------------------- MODULE MCNarrator -----------------------------
(* Instances of Narrator for TLC.                                          *)
EXTENDS Narrator

\* Two verdicts, one of them with two different sets of numbers behind the same
\* signature; a quiet graph, a forecast and a failed pass.
Verdict(s, n) == [root |-> TRUE, sig |-> s, incipient |-> FALSE, n |-> n]
Rootless(s, warn) == [root |-> FALSE, sig |-> s, incipient |-> warn, n |-> 0]
Error == Rootless("error", FALSE)
SomeGraphs == {Verdict("s1", 0), Verdict("s1", 1), Verdict("s2", 0),
               Verdict("s5", 0), Rootless("quiet", FALSE),
               Rootless("quiet", TRUE), Error}
=============================================================================
