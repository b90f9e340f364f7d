---------------------------- MODULE BeliefLatch -----------------------------
(***************************************************************************)
(* What the edge memory promises the rest of the engine about every pair   *)
(* of workloads: a level of belief, a learned floor that only rises, and a *)
(* light that follows the level with hysteresis - it comes on at Show,     *)
(* stays on down to Hide, and is never left in the wrong position.         *)
(***************************************************************************)
EXTENDS Integers

CONSTANTS Pairs, Scale, Show, Hide

VARIABLES level, floor, lit

Init == /\ level \in [Pairs -> 0 .. Scale]
        /\ floor = [k \in Pairs |-> 0]
        /\ lit \in [Pairs -> BOOLEAN]
        /\ \A k \in Pairs : /\ lit[k] => level[k] >= Hide
                            /\ level[k] >= Show => lit[k]

\* One commit moves any number of pairs at once.
Move == /\ level' \in [Pairs -> 0 .. Scale]
        /\ floor' \in [Pairs -> 0 .. Scale]
        /\ \A k \in Pairs : floor'[k] >= floor[k]
        /\ lit' = [k \in Pairs |-> level'[k] >= IF lit[k] THEN Hide ELSE Show]

Spec == Init /\ [][Move]_<<level, floor, lit>>

=============================================================================
