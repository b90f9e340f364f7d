-------------------------- MODULE ScenariosProofs --------------------------
(***************************************************************************)
(* AloneTakesEffect for any number of users, calls and polls.              *)
(***************************************************************************)
EXTENDS Scenarios, TLAPS

Ops == {"none", "trigger S2", "reset S2"}
Calls == [op : Ops, at : {"done", "delete", "wait", "template", "create"},
          id : Nat, polls : Nat, alone : BOOLEAN]
Jobs == [id : Nat, going : BOOLEAN]

TypeInv ==
    /\ job \in Jobs
    /\ call \in [Users -> Calls]
    /\ made \in Nat
    /\ settled \in [op : Ops, id : Nat]

\* A settled call is the last one: nobody is at work.
SettledIsLast == settled.op # "none" => \A u \in Users : ~Busy(u)

\* A call that is alone so far has the Job to itself.
AloneIsAlone ==
    \A u, v \in Users : call[u].alone /\ u # v => ~Busy(v)

\* A call in progress is a trigger or a reset, which ends with its DELETE.
PastDelete ==
    \A u \in Users : Busy(u) => \/ call[u].op = "trigger S2"
                                \/ call[u].op = "reset S2" /\ call[u].at = "delete"

IInv == TypeInv /\ SettledIsLast /\ AloneIsAlone /\ PastDelete /\ AloneTakesEffect

-----------------------------------------------------------------------------

\* Nobody is at work and nothing is settled at first.
LEMMA InitHolds == Init => IInv
<1> SUFFICES ASSUME Init PROVE IInv
  OBVIOUS
<1>1. TypeInv
  <2>1. Idle \in Calls
    BY DEF Idle, Calls, Ops
  <2>2. QED
    BY <2>1 DEF Init, TypeInv, NoJob, Unsettled, Ops, Jobs
<1>2. \A u \in Users : ~Busy(u)
  BY DEF Init, Busy, Idle
<1>3. QED
  BY <1>1, <1>2 DEF Init, IInv, SettledIsLast, AloneIsAlone, PastDelete,
                    AloneTakesEffect, Unsettled

\* What a deleted Job looks like.
LEMMA DeletedIsGone ==
  ASSUME job \in Jobs, NEW j \in Deleted
  PROVE  j \in Jobs /\ (j = NoJob \/ j.going = TRUE)
<1>1. CASE j = NoJob
  BY <1>1 DEF NoJob, Jobs
<1>2. CASE j = [job EXCEPT !.going = TRUE]
  <2>1. j = [id |-> job.id, going |-> TRUE]
    BY <1>2 DEF Jobs
  <2>2. QED
    BY <2>1 DEF Jobs
<1>3. QED
  BY <1>1, <1>2 DEF Deleted

\* While somebody is at work nothing is settled.
LEMMA BusyUnsettles ==
  ASSUME IInv, NEW u \in Users, Busy(u)
  PROVE  settled.op = "none"
  BY DEF IInv, SettledIsLast

\* The end of a call keeps the invariant if what it answers is true.
LEMMA ReturnKeeps ==
  ASSUME IInv, NEW u \in Users, NEW ok \in BOOLEAN, Busy(u), Return(u, ok),
         job' \in Jobs, UNCHANGED made,
         ok /\ call[u].op = "trigger S2" => job' = [id |-> call[u].id, going |-> FALSE],
         ok /\ call[u].op = "reset S2" => job' = NoJob \/ job'.going
  PROVE  IInv'
<1>1. settled.op = "none"
  BY BusyUnsettles
<1>2. call' = [call EXCEPT ![u] = Idle] /\ Idle \in Calls
  BY DEF Return, Idle, Calls, Ops
<1>3. TypeInv'
  <2>1. call' \in [Users -> Calls]
    BY <1>2 DEF IInv, TypeInv
  <2>2. call[u].op \in Ops /\ call[u].id \in Nat
    BY DEF IInv, TypeInv, Calls
  <2>3. settled' \in [op : Ops, id : Nat]
    BY <2>2 DEF IInv, TypeInv, Return
  <2>4. QED
    BY <2>1, <2>3 DEF IInv, TypeInv
<1>4. \A v \in Users : v # u => call'[v] = call[v]
  BY <1>2 DEF IInv, TypeInv
<1>5. call'[u].at = "done" /\ ~call'[u].alone
  BY <1>2 DEF IInv, TypeInv, Idle
<1>6. SettledIsLast'
  <2>1. CASE ok /\ call[u].alone
    BY <2>1, <1>4, <1>5 DEF IInv, SettledIsLast, AloneIsAlone, Busy
  <2>2. CASE ~(ok /\ call[u].alone)
    BY <2>2, <1>1 DEF SettledIsLast, Return
  <2>3. QED
    BY <2>1, <2>2
<1>7. AloneIsAlone'
  BY <1>4, <1>5 DEF IInv, AloneIsAlone, Busy
<1>8. PastDelete'
  BY <1>4, <1>5 DEF IInv, PastDelete, Busy
<1>9. AloneTakesEffect'
  BY <1>1 DEF Return, AloneTakesEffect
<1>10. QED
  BY <1>3, <1>6, <1>7, <1>8, <1>9 DEF IInv

\* A step within a call: whoever takes it has been at work and goes on.
LEMMA GoesOn ==
  ASSUME IInv, NEW u \in Users, Busy(u), job' \in Jobs, UNCHANGED <<made, settled>>,
         call' \in [Users -> Calls],
         \A v \in Users : v # u => call'[v] = call[v],
         call'[u].op = call[u].op, call'[u].alone = call[u].alone,
         call[u].op = "trigger S2"
  PROVE  IInv'
<1>1. settled.op = "none"
  BY BusyUnsettles
<1>2. TypeInv'
  BY DEF IInv, TypeInv
<1>3. SettledIsLast' /\ AloneTakesEffect'
  BY <1>1 DEF SettledIsLast, AloneTakesEffect
<1>4. AloneIsAlone'
  BY DEF IInv, AloneIsAlone, Busy
<1>5. PastDelete'
  BY DEF IInv, PastDelete, Busy
<1>6. QED
  BY <1>2, <1>3, <1>4, <1>5 DEF IInv

\* Call numbers stay natural.
LEMMA Successor == \A n \in Nat : n + 1 \in Nat
  OBVIOUS

\* A new call unsettles what was and takes aloneness from the others.
LEMMA BeginKeeps ==
  ASSUME IInv, NEW u \in Users, NEW op \in {"trigger S2", "reset S2"}, Begin(u, op)
  PROVE  IInv'
<1>1. TypeInv'
  <2>1. made + 1 \in Nat
    <3>1. made \in Nat
      BY DEF IInv, TypeInv
    <3>2. QED
      BY <3>1, Successor
  <2> DEFINE free == \A w \in Users : ~Busy(w)
             new == [op |-> op, at |-> "delete", id |-> made + 1, polls |-> 0,
                     alone |-> free]
  <2>2. free \in BOOLEAN
    BY Zenon
  <2>3. new \in Calls
    <3> HIDE DEF free
    <3> QED BY <2>1, <2>2 DEF Calls, Ops
  <2>4. \A v \in Users : [call[v] EXCEPT !.alone = FALSE] \in Calls
    BY DEF IInv, TypeInv, Calls
  <2>5. call' = [v \in Users |-> IF v = u THEN new
                                 ELSE [call[v] EXCEPT !.alone = FALSE]]
    BY DEF Begin
  <2>6. call' \in [Users -> Calls]
    <3> HIDE DEF new
    <3> QED BY <2>3, <2>4, <2>5
  <2>7. Unsettled \in [op : Ops, id : Nat]
    BY DEF Unsettled, Ops
  <2>8. QED
    BY <2>1, <2>6, <2>7 DEF Begin, IInv, TypeInv
<1>2. SettledIsLast' /\ AloneTakesEffect'
  BY DEF Begin, SettledIsLast, AloneTakesEffect, Unsettled
<1>3. \A v \in Users : v # u => ~call'[v].alone /\ call'[v].at = call[v].at
                                                /\ call'[v].op = call[v].op
  BY DEF Begin, IInv, TypeInv, Calls
<1>4. /\ call'[u].alone <=> \A w \in Users : ~Busy(w)
      /\ call'[u].at = "delete" /\ call'[u].op = op
  BY DEF Begin
<1>5. AloneIsAlone'
  BY <1>3, <1>4 DEF AloneIsAlone, Busy
<1>6. PastDelete'
  BY <1>3, <1>4 DEF IInv, PastDelete, Busy
<1>7. QED
  BY <1>1, <1>2, <1>5, <1>6 DEF IInv

\* A trigger goes on to its next request.
LEMMA GotoKeeps ==
  ASSUME IInv, NEW u \in Users, NEW place \in {"wait", "template", "create"}, Busy(u),
         Goto(u, place), job' \in Jobs, UNCHANGED made, call[u].op = "trigger S2"
  PROVE  IInv'
<1>1. call' = [call EXCEPT ![u].at = place] /\ UNCHANGED settled
  BY DEF Goto
<1>2. call' \in [Users -> Calls]
  BY <1>1 DEF IInv, TypeInv, Calls
<1>3. /\ \A v \in Users : v # u => call'[v] = call[v]
      /\ call'[u].op = call[u].op
      /\ call'[u].alone = call[u].alone
  BY <1>1 DEF IInv, TypeInv, Calls
<1>4. QED
  BY <1>1, <1>2, <1>3, GoesOn

\* DELETE ends a reset, with the Job gone or going.
LEMMA DeleteKeeps ==
  ASSUME IInv, NEW u \in Users, Delete(u)
  PROVE  IInv'
<1>1. /\ Busy(u) /\ job' \in Jobs /\ UNCHANGED made
      /\ job' = NoJob \/ job'.going
  BY DeletedIsGone DEF Delete, Busy, Elsewhere, IInv, TypeInv
<1>2. CASE call[u].op = "reset S2"
  BY <1>1, <1>2, ReturnKeeps DEF Delete
<1>3. CASE call[u].op = "trigger S2"
  BY <1>1, <1>3, GotoKeeps DEF Delete
<1>4. QED
  BY <1>1, <1>2, <1>3 DEF IInv, PastDelete

\* Polling for the old Job touches only the caller's counter.
LEMMA WaitKeeps ==
  ASSUME IInv, NEW u \in Users, Wait(u)
  PROVE  IInv'
<1>1. /\ Busy(u) /\ job' \in Jobs /\ UNCHANGED made
      /\ call[u].op = "trigger S2"
  BY DEF Wait, Busy, Elsewhere, IInv, TypeInv, PastDelete
<1>2. CASE PollsOn(call[u].polls)
  <2>1. PICK n \in Nat : call' = [call EXCEPT ![u].polls = n]
    BY <1>2 DEF Wait, IInv, TypeInv, Calls
  <2>2. call' \in [Users -> Calls]
    BY <2>1 DEF IInv, TypeInv, Calls
  <2>3. /\ \A v \in Users : v # u => call'[v] = call[v]
        /\ call'[u].op = call[u].op
        /\ call'[u].alone = call[u].alone
    BY <2>1 DEF IInv, TypeInv, Calls
  <2>4. QED
    BY <1>1, <1>2, <2>2, <2>3, GoesOn DEF Wait
<1>3. CASE ~PollsOn(call[u].polls)
  BY <1>1, <1>3, GotoKeeps DEF Wait
<1>4. QED
  BY <1>2, <1>3

\* POST makes the caller's own Job, or is refused.
LEMMA CreateKeeps ==
  ASSUME IInv, NEW u \in Users, Create(u)
  PROVE  IInv'
<1>1. /\ Busy(u) /\ UNCHANGED made
      /\ call[u].op = "trigger S2" /\ call[u].id \in Nat
  BY DEF Create, Busy, Elsewhere, IInv, TypeInv, PastDelete, Calls
<1>2. CASE job' = [id |-> call[u].id, going |-> FALSE] /\ Return(u, TRUE)
  BY <1>1, <1>2, ReturnKeeps DEF Jobs
<1>3. CASE UNCHANGED job /\ Return(u, FALSE)
  BY <1>1, <1>3, ReturnKeeps DEF IInv, TypeInv
<1>4. QED
  BY <1>2, <1>3 DEF Create

\* A failed request settles nothing, whether it took effect or not.
LEMMA FailKeeps ==
  ASSUME IInv, NEW u \in Users, Fail(u)
  PROVE  IInv'
<1>1. call[u].id \in Nat
  BY DEF IInv, TypeInv, Calls
<1>2. job' \in Jobs
  <2>1. CASE UNCHANGED job
    BY <2>1 DEF IInv, TypeInv
  <2>2. CASE job' \in Deleted
    BY <2>2, DeletedIsGone DEF IInv, TypeInv
  <2>3. CASE job' = [id |-> call[u].id, going |-> FALSE]
    BY <1>1, <2>3 DEF Jobs
  <2>4. QED
    BY <2>1, <2>2, <2>3 DEF Fail
<1>3. QED
  BY <1>2, ReturnKeeps DEF Fail, Elsewhere

\* Whatever leaves the Job and the calls alone keeps the invariant.
LEMMA ElsewhereKeeps ==
  ASSUME IInv, UNCHANGED <<job, call, settled>>, made' \in Nat
  PROVE  IInv'
  BY DEF IInv, TypeInv, SettledIsLast, AloneIsAlone, PastDelete, AloneTakesEffect, Busy

\* Only a Job that is going is collected, never one that was fired.
LEMMA CollectKeeps ==
  ASSUME IInv, Collect
  PROVE  IInv'
<1>1. NoJob \in Jobs
  BY DEF NoJob, Jobs
<1>2. settled.op # "trigger S2"
  <2> SUFFICES ASSUME job = [id |-> settled.id, going |-> FALSE] PROVE FALSE
    BY DEF IInv, AloneTakesEffect
  <2>1. job.going = FALSE
    OBVIOUS
  <2>2. QED
    BY <2>1 DEF Collect
<1>3. AloneTakesEffect'
  BY <1>2 DEF AloneTakesEffect, Collect
<1>4. QED
  BY <1>1, <1>3 DEF Collect, IInv, TypeInv, SettledIsLast, AloneIsAlone, PastDelete, Busy

\* Every step keeps the invariant.
LEMMA NextKeeps == IInv /\ [Next]_vars => IInv'
<1> SUFFICES ASSUME IInv, [Next]_vars PROVE IInv'
  OBVIOUS
<1>1. made \in Nat /\ made + 1 \in Nat
  BY DEF IInv, TypeInv
<1>2. ASSUME NEW u \in Users, NEW op \in {"trigger S2", "reset S2"}, Begin(u, op)
      PROVE  IInv'
  BY <1>2, BeginKeeps
<1>3. ASSUME NEW u \in Users, Handler(u)
      PROVE  IInv'
  <2>1. CASE Template(u)
    <3>1. /\ Busy(u) /\ job' \in Jobs /\ UNCHANGED made
          /\ call[u].op = "trigger S2"
      BY <2>1 DEF Template, Busy, Elsewhere, IInv, TypeInv, PastDelete
    <3>2. QED
      BY <2>1, <3>1, GotoKeeps DEF Template
  <2>2. QED
    BY <1>3, <2>1, DeleteKeeps, WaitKeeps, CreateKeeps DEF Handler
<1>4. ASSUME NEW u \in Users, Fail(u)
      PROVE  IInv'
  BY <1>4, FailKeeps
<1>5. ASSUME NEW u \in Users, \/ \E value \in BOOLEAN : Leak(u, value)
                              \/ \E answered \in BOOLEAN : Flush(u, answered)
      PROVE  IInv'
  BY <1>1, <1>5, ElsewhereKeeps DEF Leak, Flush
<1>6. CASE Collect
  BY <1>6, CollectKeeps
<1>7. CASE ResetS1 \/ Crash
  BY <1>1, <1>7, ElsewhereKeeps DEF ResetS1, Crash
<1>8. CASE Cooler
  BY <1>1, <1>8, ElsewhereKeeps DEF Cooler, See, Remove, Storm, Calm, Restart, Console
<1>9. CASE UNCHANGED vars
  BY <1>1, <1>9, ElsewhereKeeps DEF vars
<1>10. QED
  BY <1>2, <1>3, <1>4, <1>5, <1>6, <1>7, <1>8, <1>9 DEF Next

\* However many users, calls and polls: an S2 call that met no other one and
\* reports success did what it says, until the next call begins
\* (api/main.py:80-103, 565-576).
THEOREM AloneHasEffect == Spec => []AloneTakesEffect
<1>1. IInv => AloneTakesEffect
  BY DEF IInv
<1>2. QED
  BY <1>1, InitHolds, NextKeeps, PTL DEF Spec

=============================================================================
