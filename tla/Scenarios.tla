----------------------------- MODULE Scenarios -----------------------------
(***************************************************************************)
(* The scenario console of the API (api/main.py) and what it drives: the S2*)
(* Job behind the Kubernetes API, vision-qc's leak flag (S5) and the flush *)
(* flag of cooling-monitor (S1, workloads/cooling-monitor/main.py).        *)
(*                                                                         *)
(* A request to Kubernetes is one step; it may fail before or after it took*)
(* effect.  Handlers run in the server's thread pool, one per user here.   *)
(***************************************************************************)
EXTENDS Naturals

CONSTANTS
    Users,      \* who presses the buttons
    MaxCalls,   \* bound on made
    Patience    \* polls for the old Job (20 in the code)

ASSUME ScenariosAssumption == MaxCalls \in Nat /\ Patience \in Nat

VARIABLES
    job,        \* the Job log-archiver-s2: NoJob or [id, going]
    leak,       \* LEAK_ENABLED of vision-qc
    flag,       \* the FLUSH file on the shared volume
    cooler,     \* where cooling-monitor's main thread is
    call,       \* [Users -> the call in progress]
    made,       \* calls, resets and crashes so far; a call's number is its id
    settled,    \* the last S2 call, if it succeeded undisturbed
    owed        \* an S1 trigger was acknowledged and no storm began since

vars == <<job, leak, flag, cooler, call, made, settled, owed>>

NoJob == [id |-> 0, going |-> FALSE]
Idle == [op |-> "none", at |-> "done", id |-> 0, polls |-> 0, alone |-> FALSE]
Unsettled == [op |-> "none", id |-> 0]

OnJob(op) == op \in {"trigger S2", "reset S2"}
Busy(u) == call[u].at # "done"

Init ==
    /\ job = NoJob
    /\ leak = FALSE /\ flag = FALSE /\ owed = FALSE
    /\ cooler = "loop"
    /\ call = [u \in Users |-> Idle]
    /\ made = 0
    /\ settled = Unsettled

-----------------------------------------------------------------------------
(* S2: trigger and reset.                                                  *)

Begin(u, op) ==
    /\ ~Busy(u) /\ made < MaxCalls
    /\ made' = made + 1
    /\ call' = [v \in Users |->
                  IF v = u
                  THEN [op |-> op, at |-> "delete", id |-> made + 1, polls |-> 0,
                        alone |-> \A w \in Users : ~Busy(w)]
                  ELSE [call[v] EXCEPT !.alone = FALSE]]
    /\ settled' = Unsettled
    /\ UNCHANGED <<job, leak, flag, cooler, owed>>

Return(u, ok) ==
    /\ call' = [call EXCEPT ![u] = Idle]
    /\ settled' = IF ok /\ call[u].alone THEN [op |-> call[u].op, id |-> call[u].id]
                                         ELSE settled
Goto(u, place) == call' = [call EXCEPT ![u].at = place] /\ UNCHANGED settled
Elsewhere == UNCHANGED <<leak, flag, cooler, made, owed>>

\* A Job that is deleted goes at once or stays until its finalizers are done.
Deleted == IF job = NoJob THEN {NoJob} ELSE {NoJob, [job EXCEPT !.going = TRUE]}

\* DELETE; a 404 is no error.
Delete(u) ==
    /\ call[u].at = "delete"
    /\ job' \in Deleted
    /\ IF call[u].op = "reset S2" THEN Return(u, TRUE) ELSE Goto(u, "wait")
    /\ Elsewhere

\* Mutant: poll until the Job is gone.
PollsOnForever(n) == job # NoJob
\* The old Job is polled until it is gone, or Patience times.
PollsOn(n) == job # NoJob /\ n < Patience

Wait(u) ==
    /\ call[u].at = "wait"
    /\ IF PollsOn(call[u].polls)
       THEN /\ call' = [call EXCEPT ![u].polls = IF @ < Patience THEN @ + 1 ELSE @]
            /\ UNCHANGED settled
       ELSE Goto(u, "template")
    /\ UNCHANGED job /\ Elsewhere

\* The pod template is read off the CronJob.
Template(u) ==
    /\ call[u].at = "template"
    /\ Goto(u, "create")
    /\ UNCHANGED job /\ Elsewhere

\* Mutant: a Job of that name is as good as ours.
CreateAnyhow(u) ==
    /\ call[u].at = "create"
    /\ job' = IF job = NoJob THEN [id |-> call[u].id, going |-> FALSE] ELSE job
    /\ Return(u, TRUE)
    /\ Elsewhere
\* POST: "fired", or a 409 when the name is taken.
Create(u) ==
    /\ call[u].at = "create"
    /\ \/ job = NoJob /\ job' = [id |-> call[u].id, going |-> FALSE] /\ Return(u, TRUE)
       \/ job # NoJob /\ UNCHANGED job /\ Return(u, FALSE)
    /\ Elsewhere

\* A request fails: refused, or timed out after it took effect.
Fail(u) ==
    /\ Busy(u)
    /\ \/ UNCHANGED job
       \/ call[u].at = "delete" /\ job' \in Deleted
       \/ call[u].at = "create" /\ job = NoJob /\ job' = [id |-> call[u].id, going |-> FALSE]
    /\ Return(u, FALSE)
    /\ Elsewhere

Collect ==
    /\ job.going
    /\ job' = NoJob
    /\ UNCHANGED <<leak, flag, cooler, call, made, settled, owed>>

-----------------------------------------------------------------------------
(* S5 and S1: one request each, no state of the call between.              *)

Leak(u, value) ==
    /\ ~Busy(u) /\ made < MaxCalls
    /\ made' = made + 1
    /\ leak' = value
    /\ UNCHANGED <<job, flag, cooler, call, settled, owed>>

\* POST /flush makes the flag; the answer may be late, then it is a 503.
Flush(u, answered) ==
    /\ ~Busy(u) /\ made < MaxCalls
    /\ cooler # "down"
    /\ made' = made + 1
    /\ flag' = TRUE
    /\ owed' = (owed \/ answered)
    /\ UNCHANGED <<job, leak, cooler, call, settled>>

\* scenarios/S1/reset.sh: rm -f.
ResetS1 ==
    /\ made < MaxCalls
    /\ made' = made + 1
    /\ flag' = FALSE /\ owed' = FALSE
    /\ UNCHANGED <<job, leak, cooler, call, settled>>

Console == <<job, leak, call, made, settled>>

See ==
    /\ cooler = "loop" /\ flag
    /\ cooler' = "found"
    /\ UNCHANGED <<flag, owed>> /\ UNCHANGED Console

\* os.remove: the reset may have been there first, and the process dies.
Remove ==
    /\ cooler = "found"
    /\ cooler' = IF flag THEN "removed" ELSE "down"
    /\ flag' = FALSE
    /\ UNCHANGED owed /\ UNCHANGED Console

Storm ==
    /\ cooler = "removed"
    /\ cooler' = "storm"
    /\ owed' = FALSE
    /\ UNCHANGED flag /\ UNCHANGED Console

\* Mutant: triggers of the meantime go with it.
CalmClearing ==
    /\ cooler = "storm"
    /\ cooler' = "loop"
    /\ flag' = FALSE
    /\ UNCHANGED owed /\ UNCHANGED Console
Calm ==
    /\ cooler = "storm"
    /\ cooler' = "loop"
    /\ UNCHANGED <<flag, owed>> /\ UNCHANGED Console

\* The pod is killed; a trigger whose flag is gone goes with it.
Crash ==
    /\ cooler # "down" /\ made < MaxCalls
    /\ made' = made + 1
    /\ cooler' = "down"
    /\ owed' = (owed /\ flag)
    /\ UNCHANGED <<job, leak, flag, call, settled>>

Restart ==
    /\ cooler = "down"
    /\ cooler' = "loop"
    /\ UNCHANGED <<flag, owed>> /\ UNCHANGED Console

-----------------------------------------------------------------------------

Handler(u) == Delete(u) \/ Wait(u) \/ Template(u) \/ Create(u)
Cooler == See \/ Remove \/ Storm \/ Calm \/ Restart

Next ==
    \/ \E u \in Users : \/ \E op \in {"trigger S2", "reset S2"} : Begin(u, op)
                        \/ Handler(u)
                        \/ Fail(u)
                        \/ \E value \in BOOLEAN : Leak(u, value)
                        \/ \E answered \in BOOLEAN : Flush(u, answered)
    \/ Collect
    \/ ResetS1
    \/ Cooler
    \/ Crash

\* Threads run and fio ends; Kubernetes may keep a deleted Job for ever.
Spec ==
    /\ Init /\ [][Next]_vars
    /\ \A u \in Users : WF_vars(Handler(u))
    /\ WF_vars(Cooler)

-----------------------------------------------------------------------------
(* Properties.                                                             *)

\* A call on S2 that met no other one did what it says, until the next one
\* begins: "fired" and its own Job is there, not the one it was to replace;
\* "reset" and the Job is gone or going (main.py:79-103, 566-575).
AloneTakesEffect ==
    /\ settled.op = "trigger S2" => job = [id |-> settled.id, going |-> FALSE]
    /\ settled.op = "reset S2" => job = NoJob \/ job.going

\* Every call is answered, even if the old Job never goes (main.py:90-97).
CallsReturn == \A u \in Users : Busy(u) ~> ~Busy(u)

\* An acknowledged S1 trigger is followed by a storm, also one that comes while
\* the last storm runs or while the main thread looks at the flag, unless a
\* reset or a crash took it (cooling-monitor main.py:36-38, 72-81).
ArmedStormComes == owed ~> ~owed

=============================================================================
