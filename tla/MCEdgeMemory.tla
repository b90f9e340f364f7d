---------------------------- MODULE MCEdgeMemory ----------------------------
(* Instances of EdgeMemory for TLC: confidences in twentieths.             *)
EXTENDS EdgeMemory, TLC

CONSTANTS cron, s2, ts, la, tsdb

\* log-archiver's CronJob pod and the S2 job's pod share a workload.
TwoPodsOf == cron :> la @@ s2 :> la @@ ts :> tsdb
OnePodOf == cron :> la @@ ts :> tsdb
DiskPairs == {<<la, tsdb>>}

\* A weak belief that schema v2 let fade, and one it still shows.
OldRows == {[conf |-> Hide - 1, base |-> 0, visible |-> FALSE, state |-> "hidden",
             hits |-> 1],
            [conf |-> Show, base |-> 0, visible |-> TRUE, state |-> "decaying",
             hits |-> 1]}
NoOldRows == {}

\* To the nearest unit, a tie to the even one (as IEEE doubles are).
Nearest ==
    [n \in 0 .. Scale * Scale |->
        LET q == n \div Scale
            twice == 2 * (n % Scale)
        IN  IF twice > Scale \/ (twice = Scale /\ q % 2 = 1) THEN q + 1 ELSE q]
=============================================================================
