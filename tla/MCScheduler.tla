---------------------------- MODULE MCScheduler ----------------------------
(***************************************************************************)
(* Small plans of the scheduler's clients for TLC.                         *)
(***************************************************************************)
EXTENDS Scheduler

CONSTANTS t1, t2, t3, priorities, delays, clearing, destruction, reactivation

Call(by, nr, op, arg) == [by |-> by, nr |-> nr, op |-> op, arg |-> arg]

\* priorities: three tasks, of which two may preempt; one is cancelled.
\* delays: a task is deactivated and activated, another cancelled meanwhile.
\* clearing: one client pushes, the other clears, and waits for everything.
\* destruction: the scheduler goes with a preempted or delayed task and calls
\* in progress; only the third task ends by itself.
\* reactivation: a waiting task is deactivated, then activated in its turn.
MCCalls == [g \in Plans |->
  CASE g = priorities ->
         {Call(t1, 1, "push", 1), Call(t1, 2, "push", 0), Call(t2, 1, "push", 2),
          Call(t2, 2, "wait", 0), Call(t3, 1, "cancel", 0), Call(t3, 2, "waitAll", None)}
    [] g = delays ->
         {Call(t1, 1, "push", 1), Call(t1, 2, "push", 0), Call(t1, 3, "deactivate", 0),
          Call(t1, 4, "activate", 0), Call(t2, 1, "deactivate", 1), Call(t2, 2, "cancel", 1),
          Call(t3, 1, "wait", 0)}
    [] g = clearing ->
         {Call(t1, 1, "push", 0), Call(t1, 2, "push", 0), Call(t1, 3, "push", 0),
          Call(t2, 1, "clear", None), Call(t2, 2, "waitAll", None), Call(t3, 1, "wait", 1)}
    [] g = destruction ->
         {Call(t1, 1, "push", 0), Call(t1, 2, "push", 1), Call(t1, 3, "push", 0),
          Call(t1, 4, "destroy", None), Call(t2, 1, "deactivate", 1), Call(t3, 1, "wait", 0)}
    [] g = reactivation ->
         {Call(t1, 1, "push", 0), Call(t1, 2, "push", 0), Call(t1, 3, "wait", 0),
          Call(t2, 1, "deactivate", 1), Call(t3, 1, "activate", 1)}]

MCEndless == [g \in Plans |-> IF g = destruction THEN {0, 1} ELSE {}]
=============================================================================
