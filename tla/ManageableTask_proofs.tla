------------------------ MODULE ManageableTask_proofs ------------------------
(***************************************************************************)
(* The safety invariants of ManageableTask hold for any number of          *)
(* requests.  Together they are inductive but for one fact: the work       *)
(* thread holds promises only while it is about to resolve them.           *)
(* And of the tasks of a Scheduler, which sees of each the requests of     *)
(* its one thread (Scheduler): one runs at a time, for every plan.         *)
(***************************************************************************)
EXTENDS ManageableTask, Integers, Sequences, TLAPS

Resolving == {"pause.resolve", "resume.resolve", "stopped.resolve"}

\* The promises are in the thread's hands only while it resolves them.
BatchInHand == batch # {} => wpc \in Resolving

IInv == /\ TypeOK
        /\ BatchInHand
        /\ PromisesMatchState
        /\ PausedFunctionIsHeld
        /\ NoLostWakeUp

\* The invariant holds at the start.
LEMMA InitIInv == Init => IInv
  BY DEF Init, IInv, TypeOK, BatchInHand, PromisesMatchState,
         PausedFunctionIsHeld, NoLostWakeUp, List, States

\* The requests of other threads keep the invariant.
LEMMA RequestKeepsIInv ==
  ASSUME IInv, NEW f \in Futures,
         AsyncPause(f) \/ AsyncResume(f) \/ ResolveOutdated(f)
           \/ AsyncWaitForStopped(f) \/ AsyncStop
  PROVE  IInv'
<1> USE DEF IInv, TypeOK, BatchInHand, PromisesMatchState, PausedFunctionIsHeld,
            NoLostWakeUp, List, States, Resolving, Answer, NotifyOne, Move
<1>1. CASE AsyncPause(f)
  <2>1. CASE state = "Running"
    BY <1>1, <2>1 DEF AsyncPause
  <2>2. CASE state = "Resuming"
    <3>1. /\ state' = "Paused" /\ promise' \in [Futures -> {"new", "pause", "resume", "stop",
                                                    "outdated", "moved", "ready"}]
          /\ UNCHANGED <<wpc, asleep, batch, error>>
      BY <1>1, <2>2 DEF AsyncPause
    <3>2. \A g \in Futures : promise'[g] = IF g = f THEN "ready"
                              ELSE IF promise[g] = "resume" THEN "outdated" ELSE promise[g]
      BY <1>1, <2>2 DEF AsyncPause
    <3>3. promise[f] = "new"
      BY <1>1, <2>2 DEF AsyncPause
    <3>4. batch' = {g \in Futures : promise'[g] = "moved"}
      BY <3>1, <3>2, <3>3
    <3>5. PromisesMatchState'
      BY <2>2, <3>1, <3>2, <3>3
    <3> QED BY <2>2, <3>1, <3>4, <3>5
  <2>3. CASE state \in {"Pausing", "Stopping"}
    BY <1>1, <2>3 DEF AsyncPause
  <2>4. CASE state \in {"Paused", "WaitForStart", "Stopped"}
    BY <1>1, <2>4 DEF AsyncPause
  <2> QED BY <2>1, <2>2, <2>3, <2>4
<1>2. CASE AsyncResume(f)
  <2>1. CASE state \in {"Stopping", "Running", "Stopped"}
    BY <1>2, <2>1 DEF AsyncResume
  <2>2. CASE state = "Pausing"
    <3>1. /\ state' = "Running" /\ promise' \in [Futures -> {"new", "pause", "resume", "stop",
                                                    "outdated", "moved", "ready"}]
          /\ UNCHANGED <<wpc, asleep, batch, error>>
      BY <1>2, <2>2 DEF AsyncResume
    <3>2. \A g \in Futures : promise'[g] = IF g = f THEN "ready"
                              ELSE IF promise[g] = "pause" THEN "outdated" ELSE promise[g]
      BY <1>2, <2>2 DEF AsyncResume
    <3>3. promise[f] = "new"
      BY <1>2, <2>2 DEF AsyncResume
    <3>4. batch' = {g \in Futures : promise'[g] = "moved"}
      BY <3>1, <3>2, <3>3
    <3>5. PromisesMatchState'
      BY <2>2, <3>1, <3>2, <3>3
    <3> QED BY <2>2, <3>1, <3>4, <3>5
  <2>3. CASE state = "Resuming"
    BY <1>2, <2>3 DEF AsyncResume
  <2>4. CASE state = "WaitForStart"
    BY <1>2, <2>4 DEF AsyncResume
  <2>5. CASE state = "Paused"
    BY <1>2, <2>5 DEF AsyncResume
  <2> QED BY <2>1, <2>2, <2>3, <2>4, <2>5
<1>3. CASE ResolveOutdated(f)
  BY <1>3 DEF ResolveOutdated
<1>4. CASE AsyncWaitForStopped(f)
  BY <1>4 DEF AsyncWaitForStopped
<1>5. CASE AsyncStop
  BY <1>5 DEF AsyncStop
<1> QED BY <1>1, <1>2, <1>3, <1>4, <1>5

\* The steps of the work thread keep it.
LEMMA WorkKeepsIInv ==
  ASSUME IInv, WorkStep \/ (\E throws \in BOOLEAN : FunctionReturns(throws))
  PROVE  IInv'
<1> USE DEF IInv, TypeOK, BatchInHand, PromisesMatchState, PausedFunctionIsHeld,
            NoLostWakeUp, List, States, Resolving, Move
<1>1. CASE WaitForStart
  BY <1>1 DEF WaitForStart
<1>2. CASE GoOn
  BY <1>2 DEF GoOn, AtCheckPoint
<1>3. CASE BeginPause
  BY <1>3 DEF BeginPause, AtCheckPoint
<1>4. CASE StopWorking
  BY <1>4 DEF StopWorking, AtCheckPoint
<1>5. CASE Resolves
  <2>1. CASE Resolve("pause.resolve", "paused")
    BY <2>1 DEF Resolve
  <2>2. CASE Resolve("resume.resolve", "resumed")
    BY <2>2 DEF Resolve
  <2>3. CASE Resolve("stopped.resolve", "done")
    BY <2>3 DEF Resolve
  <2> QED BY <1>5, <2>1, <2>2, <2>3 DEF Resolves
<1>6. CASE EndPause
  BY <1>6 DEF EndPause
<1>7. CASE AfterPause
  BY <1>7 DEF AfterPause
<1>8. CASE CallCheckPoint
  BY <1>8 DEF CallCheckPoint
<1>9. CASE Stopped
  BY <1>9 DEF Stopped
<1>10. ASSUME NEW throws \in BOOLEAN, FunctionReturns(throws)
       PROVE  IInv'
  BY <1>10 DEF FunctionReturns
<1> QED BY <1>1, <1>2, <1>3, <1>4, <1>5, <1>6, <1>7, <1>8, <1>9, <1>10 DEF WorkStep

\* IInv is an invariant of the task, whatever is asked of it.
LEMMA Invariance == Spec => []IInv
<1>1. Init => IInv
  BY InitIInv
<1>2. IInv /\ [Next]_vars => IInv'
  <2> SUFFICES ASSUME IInv, [Next]_vars PROVE IInv'
    OBVIOUS
  <2>1. ASSUME NEW f \in Futures,
               AsyncPause(f) \/ AsyncResume(f) \/ ResolveOutdated(f)
                 \/ AsyncWaitForStopped(f)
        PROVE  IInv'
    BY <2>1, RequestKeepsIInv
  <2>2. CASE AsyncStop
    BY <2>2 DEF AsyncStop, NotifyOne, IInv, TypeOK, BatchInHand, PromisesMatchState,
                PausedFunctionIsHeld, NoLostWakeUp, List, States, Resolving
  <2>3. CASE WorkStep \/ \E throws \in BOOLEAN : FunctionReturns(throws)
    BY <2>3, WorkKeepsIInv
  <2>4. CASE UNCHANGED vars
    BY <2>4 DEF vars, IInv, TypeOK, BatchInHand, PromisesMatchState,
                PausedFunctionIsHeld, NoLostWakeUp, List
  <2> QED BY <2>1, <2>2, <2>3, <2>4 DEF Next, Quiescent
<1> QED BY <1>1, <1>2, PTL DEF Spec

\* The variables stay in their ranges and no promise is resolved twice
\* (manageable-task.cpp:255-258, 271-275, 62-67).
THEOREM TypeCorrect == Spec => []TypeOK
<1>1. IInv => TypeOK
  BY DEF IInv
<1> QED BY <1>1, Invariance, PTL

\* A request waits only in a state in which somebody is going to answer it.
THEOREM NoRequestIsForgotten == Spec => []PromisesMatchState
<1>1. IInv => PromisesMatchState
  BY DEF IInv
<1> QED BY <1>1, Invariance, PTL

\* The function of a paused task is held in checkPoint, however requests
\* overtake each other in the unlocked windows.
THEOREM PauseHolds == Spec => []PausedFunctionIsHeld
<1>1. IInv => PausedFunctionIsHeld
  BY DEF IInv
<1> QED BY <1>1, Invariance, PTL

\* The work thread sleeps only while there is nothing for it to do.
THEOREM NoWakeUpIsLost == Spec => []NoLostWakeUp
<1>1. IInv => NoLostWakeUp
  BY DEF IInv
<1> QED BY <1>1, Invariance, PTL
-----------------------------------------------------------------------------
\* The tasks of a scheduler.
CONSTANTS Plans, Calls, Endless, MaxTasks, None

VARIABLES plan, request, queue, pc, current, task, doomed, active, waited, delayed,
          priority, started, promises, waitStop, chain, taskState, waiters

Sched == INSTANCE Scheduler WITH state <- taskState

\* A task in one of these has ended or will, and none of its requests changes that.
Ended == {"Stopping", "Stopped", "deleted"}
Runs  == {"Running", "Pausing", "Resuming"}

AllCalls == UNION {Calls[g] : g \in Plans}
Things == Sched!Tasks \cup {None} \cup {c.arg : c \in AllCalls}
Closures == [kind : {"call", "finished", "clear.next", "answer"}, call : AllCalls \cup {None},
             task : Things]

\* The closure w may be in the queue, or wait for the end of the task t: the end of
\* a task is told to the scheduler when it has come.
Queued(w) ==
  /\ w.kind # "answer" /\ (w.kind = "call" => w.call \in AllCalls)
  /\ w.kind = "finished" => w.task \in Sched!Tasks /\ taskState[w.task] \in Ended
Waiting(w, t) == w.kind # "call" /\ (w.kind = "finished" => w.task = t)

QueueOK == queue \in Seq(Closures) /\ \A i \in DOMAIN queue : Queued(queue[i])
WaitersOK ==
  /\ waiters \in [Sched!Tasks -> Seq(Closures)]
  /\ \A t \in Sched!Tasks : \A i \in DOMAIN waiters[t] : Waiting(waiters[t][i], t)

\* Between two active tasks there is none.
ThreadOK ==
  /\ plan \in Plans /\ current \in AllCalls \cup {None} /\ task \in Things
  /\ pc = "finished" => task \in Sched!Tasks /\ taskState[task] \in Ended
  /\ pc \in {"delete.next", "join.next", "next"} => active = None

OneRunsInv ==
  /\ taskState \in [Sched!Tasks -> Sched!TaskStates]
  /\ QueueOK /\ WaitersOK /\ ThreadOK /\ Sched!OnlyActiveRuns

\* What a step must show that neither takes nor gives closures, and leaves the
\* scheduler's thread at another place, or a task in another state.
LEMMA QuietStep ==
  ASSUME OneRunsInv, plan' = plan, queue' = queue, waiters' = waiters,
         current' \in {current, None}, task' \in Things,
         pc' # "finished",
         pc' \in {"delete.next", "join.next", "next"} => active' = None,
         taskState' \in [Sched!Tasks -> Sched!TaskStates],
         \A t \in Sched!Tasks : taskState[t] \in Ended => taskState'[t] \in Ended,
         \A t \in Sched!Tasks : taskState'[t] \in Runs => t = active'
  PROVE  OneRunsInv'
<1>1. QueueOK' /\ WaitersOK'
  BY DEF OneRunsInv, QueueOK, WaitersOK, Queued, Waiting
<1>2. ThreadOK'
  BY DEF OneRunsInv, ThreadOK
<1>3. Sched!OnlyActiveRuns'
  BY DEF Sched!OnlyActiveRuns, Runs
<1>4. QED
  BY <1>1, <1>2, <1>3 DEF OneRunsInv

\* No request but resume makes a task run, and an end is final.
LEMMA RequestIs ==
  ASSUME NEW t, taskState \in [Sched!Tasks -> Sched!TaskStates],
         Sched!AsyncPause(t) \/ Sched!AsyncResume(t) \/ Sched!AsyncStop(t)
  PROVE  /\ taskState' \in [Sched!Tasks -> Sched!TaskStates]
         /\ \A u \in Sched!Tasks : taskState[u] \in Ended => taskState'[u] \in Ended
         /\ \A u \in Sched!Tasks : taskState'[u] \in Runs =>
                 taskState[u] \in Runs \/ (u = t /\ Sched!AsyncResume(t))
         /\ Sched!AsyncStop(t) /\ t \in Sched!Tasks => taskState'[t] \in Ended
<1>1. CASE Sched!AsyncPause(t)
  BY <1>1 DEF Sched!AsyncPause, Sched!TaskStates, Ended, Runs, Sched!AsyncStop
<1>2. CASE Sched!AsyncResume(t)
  BY <1>2 DEF Sched!AsyncResume, Sched!TaskStates, Ended, Runs, Sched!AsyncStop
<1>3. CASE Sched!AsyncStop(t)
  BY <1>3 DEF Sched!AsyncStop, Sched!TaskStates, Ended, Runs
<1>4. QED
  BY <1>1, <1>2, <1>3

LEMMA InitRuns == Sched!Init => OneRunsInv
<1> SUFFICES ASSUME Sched!Init PROVE OneRunsInv
  OBVIOUS
<1>1. QueueOK /\ WaitersOK /\ ThreadOK
  BY DEF Sched!Init, QueueOK, WaitersOK, ThreadOK, Things
<1>2. Sched!OnlyActiveRuns /\ taskState \in [Sched!Tasks -> Sched!TaskStates]
  BY DEF Sched!Init, Sched!OnlyActiveRuns, Sched!TaskStates
<1>3. QED
  BY <1>1, <1>2 DEF OneRunsInv

\* The steps of the scheduler's thread that neither change the active task nor ask
\* anything of one.
LEMMA StayingStep ==
  ASSUME OneRunsInv,
         \/ Sched!ScheduleLater \/ Sched!Resumed \/ Sched!CancelledStopped
         \/ Sched!NextNone \/ Sched!DeactivateOther \/ Sched!Activate
         \/ Sched!CancelWaited \/ Sched!CancelOther \/ Sched!Wait \/ Sched!WaitAll
         \/ Sched!ClearEnds \/ Sched!FinishedOther \/ Sched!Deleted
  PROVE  OneRunsInv'
<1>1. /\ UNCHANGED <<plan, queue, waiters, taskState>> /\ active' = active
      /\ current' \in {current, None} /\ task' \in {task, None}
      /\ pc' \in {"idle", "schedule", "delete", "next"}
      /\ pc' = "next" => pc = "delete.next"
  BY DEF Sched!ScheduleLater, Sched!Resumed, Sched!CancelledStopped, Sched!NextNone,
         Sched!DeactivateOther, Sched!Activate, Sched!CancelWaited,
     Sched!CancelOther, Sched!Wait, Sched!WaitAll, Sched!ClearEnds, Sched!FinishedOther,
     Sched!Deleted, Sched!Return, Sched!Idle, Sched!Goto, Sched!TakeDelayed,
     Sched!calls, Sched!tasks, Sched!thread, Sched!lists, Sched!data
<1>2. task' \in Things
  BY <1>1 DEF OneRunsInv, ThreadOK, Things
<1>3. \A t \in Sched!Tasks : taskState'[t] \in Runs => t = active'
  BY <1>1 DEF OneRunsInv, Sched!OnlyActiveRuns, Runs
<1>4. /\ taskState' \in [Sched!Tasks -> Sched!TaskStates]
      /\ \A t \in Sched!Tasks : taskState[t] \in Ended => taskState'[t] \in Ended
  BY <1>1 DEF OneRunsInv
<1>5. pc' \in {"delete.next", "join.next", "next"} => active' = None
  BY <1>1 DEF OneRunsInv, ThreadOK
<1>6. pc' # "finished"
  BY <1>1
<1>7. plan' = plan /\ queue' = queue /\ waiters' = waiters /\ current' \in {current, None}
  BY <1>1
<1>8. QED
  BY <1>2, <1>3, <1>4, <1>5, <1>6, <1>7, QuietStep

\* Another task becomes active, or none: the last one does not run any more.
LEMMA ReplacingStep ==
  ASSUME Sched!PlansAreCalls, OneRunsInv,
         Sched!ScheduleFirst \/ Sched!Preempt \/ Sched!Delay \/ Sched!FinishedActive
  PROVE  OneRunsInv'
<1>1. /\ UNCHANGED <<plan, queue, waiters, taskState>>
      /\ current' = current /\ task' = task
      /\ pc' \in {"resume", "next", "delete.next"} /\ (pc' # "resume" => active' = None)
  BY DEF Sched!ScheduleFirst, Sched!Preempt, Sched!Delay, Sched!FinishedActive, Sched!Goto,
         Sched!Resolve, Sched!calls, Sched!tasks, Sched!thread, Sched!lists, Sched!data
<1>2. active \in Sched!Tasks => taskState[active] \notin Runs
  <2>1. CASE Sched!ScheduleFirst
    BY <2>1 DEF Sched!ScheduleFirst, Sched!PlansAreCalls
  <2>2. CASE Sched!Preempt \/ Sched!Delay
    BY <2>2 DEF Sched!Preempt, Sched!Delay, Sched!PauseIsOver, Runs
  <2>3. CASE Sched!FinishedActive
    BY <2>3 DEF Sched!FinishedActive, OneRunsInv, ThreadOK, Ended, Runs
  <2>4. QED
    BY <2>1, <2>2, <2>3
<1>3. \A t \in Sched!Tasks : taskState'[t] \notin Runs
  BY <1>1, <1>2 DEF OneRunsInv, Sched!OnlyActiveRuns, Runs
<1>4. /\ taskState' \in [Sched!Tasks -> Sched!TaskStates]
      /\ \A t \in Sched!Tasks : taskState[t] \in Ended => taskState'[t] \in Ended
  BY <1>1 DEF OneRunsInv
<1>5. task' \in Things
  BY <1>1 DEF OneRunsInv, ThreadOK
<1>6. pc' # "finished" /\ (pc' \in {"delete.next", "join.next", "next"} => active' = None)
  BY <1>1
<1>7. plan' = plan /\ queue' = queue /\ waiters' = waiters /\ current' \in {current, None}
  BY <1>1
<1>8. QED
  BY <1>3, <1>4, <1>5, <1>6, <1>7, QuietStep

\* The active task, or one to be deleted, is asked something; only the active one
\* is told to run.
LEMMA AskingStep ==
  ASSUME Sched!PlansAreCalls, OneRunsInv,
         Sched!SchedulePreempt \/ Sched!StartResume \/ Sched!StopCancelled \/ Sched!NextTask
         \/ Sched!DeactivateActive \/ Sched!DeleteTask
  PROVE  OneRunsInv'
<1>1. /\ UNCHANGED <<plan, queue, waiters>>
      /\ current' \in {current, None} /\ task' \in {task, None}
      /\ pc' \in {"preempt", "resuming", "idle", "stopping", "resume", "delay", "join", "join.next"}
      /\ pc' = "join.next" => pc = "delete.next" /\ active' = active
  BY DEF Sched!SchedulePreempt, Sched!StartResume, Sched!StopCancelled, Sched!NextTask,
         Sched!DeactivateActive, Sched!DeleteTask, Sched!Goto,
     Sched!Return, Sched!Idle, Sched!Resolve, Sched!calls, Sched!tasks, Sched!thread,
     Sched!lists, Sched!data
<1>2. \/ taskState' = taskState
      \/ \E t : Sched!AsyncPause(t) \/ Sched!AsyncStop(t)
      \/ Sched!AsyncResume(active) /\ active' = active
  BY DEF Sched!SchedulePreempt, Sched!StartResume, Sched!StopCancelled, Sched!NextTask,
         Sched!DeactivateActive, Sched!DeleteTask,
     Sched!calls, Sched!tasks, Sched!thread, Sched!lists, Sched!data
<1>3. active' = active \/ active = None
  BY DEF Sched!SchedulePreempt, Sched!StartResume, Sched!StopCancelled, Sched!NextTask,
         Sched!DeactivateActive, Sched!DeleteTask,
     Sched!lists, OneRunsInv, ThreadOK
<1>4. \A t \in Sched!Tasks : taskState[t] \in Runs => t = active /\ active' = active
  BY <1>3 DEF OneRunsInv, Sched!OnlyActiveRuns, Runs, Sched!PlansAreCalls
<1>5. taskState \in [Sched!Tasks -> Sched!TaskStates]
  BY DEF OneRunsInv
<1>6. /\ taskState' \in [Sched!Tasks -> Sched!TaskStates]
      /\ \A t \in Sched!Tasks : taskState[t] \in Ended => taskState'[t] \in Ended
      /\ \A t \in Sched!Tasks : taskState'[t] \in Runs => t = active'
  <2>1. CASE taskState' = taskState
    BY <1>4, <1>5, <2>1
  <2>2. ASSUME NEW t, Sched!AsyncPause(t) \/ Sched!AsyncStop(t), taskState' # taskState PROVE <1>6
    <3>1. \A u \in Sched!Tasks : taskState'[u] \in Runs => taskState[u] \in Runs
      BY <1>5, <2>2 DEF Sched!AsyncPause, Sched!AsyncStop, Sched!TaskStates, Runs
    <3>2. QED
      BY <1>4, <1>5, <2>2, <3>1, RequestIs
  <2>3. CASE Sched!AsyncResume(active) /\ active' = active
    BY <1>4, <1>5, <2>3, RequestIs
  <2>4. QED
    BY <1>2, <2>1, <2>2, <2>3
<1>7. task' \in Things
  BY <1>1 DEF OneRunsInv, ThreadOK, Things
<1>8. pc' # "finished" /\ (pc' \in {"delete.next", "join.next", "next"} => active' = None)
  BY <1>1 DEF OneRunsInv, ThreadOK
<1>9. plan' = plan /\ queue' = queue /\ waiters' = waiters /\ current' \in {current, None}
  BY <1>1
<1>10. QED
  BY <1>6, <1>7, <1>8, <1>9, QuietStep

LEMMA AppendIs ==
  ASSUME NEW S, NEW s \in Seq(S), NEW w \in S
  PROVE  /\ Append(s, w) \in Seq(S)
         /\ \A i \in DOMAIN Append(s, w) : Append(s, w)[i] = w \/ (i \in DOMAIN s /\ Append(s, w)[i] = s[i])
OBVIOUS

LEMMA TailIs ==
  ASSUME NEW S, NEW s \in Seq(S), s # <<>>
  PROVE  /\ Tail(s) \in Seq(S) /\ Head(s) \in S /\ Head(s) = s[1] /\ 1 \in DOMAIN s
         /\ \A i \in DOMAIN Tail(s) : i + 1 \in DOMAIN s /\ Tail(s)[i] = s[i + 1]
OBVIOUS

LEMMA OneIs == ASSUME NEW S, NEW w \in S
               PROVE  <<w>> \in Seq(S) /\ \A i \in DOMAIN <<w>> : <<w>>[i] = w
OBVIOUS

\* What is queued stays good while ends are final.
LEMMA QueueGrows ==
  ASSUME OneRunsInv, \A t \in Sched!Tasks : taskState[t] \in Ended => taskState'[t] \in Ended,
         queue' = queue \/ \E w \in Closures : Queued(w)' /\ queue' = Append(queue, w)
  PROVE  QueueOK'
<1>1. queue \in Seq(Closures) /\ \A i \in DOMAIN queue : Queued(queue[i])
  BY DEF OneRunsInv, QueueOK
<1>2. \A i \in DOMAIN queue : \A w : w = queue[i] => Queued(w)'
  BY <1>1 DEF Queued
<1>3. CASE queue' = queue
  BY <1>1, <1>2, <1>3 DEF QueueOK, Queued
<1>4. ASSUME NEW w \in Closures, Queued(w)', queue' = Append(queue, w) PROVE QueueOK'
  <2>1. PICK r : r = Append(queue, w)
    OBVIOUS
  <2>2. r \in Seq(Closures) /\ \A i \in DOMAIN r : r[i] = w \/ (i \in DOMAIN queue /\ r[i] = queue[i])
    BY <1>1, <1>4, <2>1, AppendIs
  <2>3. \A i \in DOMAIN r : \A v : v = r[i] => Queued(v)'
    BY <1>2, <1>4, <2>2
  <2>4. QED
    BY <1>4, <2>1, <2>2, <2>3 DEF QueueOK, Queued
<1>5. QED
  BY <1>3, <1>4

LEMMA WaitersChange ==
  ASSUME OneRunsInv, NEW t \in Sched!Tasks, NEW r \in Seq(Closures),
         \A i \in DOMAIN r : Waiting(r[i], t),
         waiters' = [waiters EXCEPT ![t] = r]
  PROVE  WaitersOK'
<1>1. waiters \in [Sched!Tasks -> Seq(Closures)]
  BY DEF OneRunsInv, WaitersOK
<1>2. waiters' \in [Sched!Tasks -> Seq(Closures)] /\ waiters'[t] = r
      /\ \A u \in Sched!Tasks \ {t} : waiters'[u] = waiters[u]
  BY <1>1
<1>3. QED
  BY <1>2 DEF OneRunsInv, WaitersOK, Waiting

LEMMA WaitersGrow ==
  ASSUME OneRunsInv,
         \/ waiters' = waiters
         \/ \E t \in Sched!Tasks, w \in Closures :
              w.kind \notin {"finished", "call"} /\ waiters' = [waiters EXCEPT ![t] = Append(@, w)]
  PROVE  WaitersOK'
<1>1. CASE waiters' = waiters
  BY <1>1 DEF OneRunsInv, WaitersOK, Waiting
<1>2. ASSUME NEW t \in Sched!Tasks, NEW w \in Closures, w.kind \notin {"finished", "call"},
             waiters' = [waiters EXCEPT ![t] = Append(@, w)]
      PROVE  WaitersOK'
  <2>1. PICK s \in Seq(Closures) : s = waiters[t]
    BY DEF OneRunsInv, WaitersOK
  <2>2. PICK r : r = Append(s, w)
    OBVIOUS
  <2>3. r \in Seq(Closures) /\ \A i \in DOMAIN r : r[i] = w \/ (i \in DOMAIN s /\ r[i] = s[i])
    BY <1>2, <2>2, AppendIs
  <2>4. \A i \in DOMAIN r : Waiting(r[i], t)
    BY <1>2, <2>1, <2>3 DEF OneRunsInv, WaitersOK, Waiting
  <2>5. waiters' = [waiters EXCEPT ![t] = r]
    BY <1>2, <2>1, <2>2
  <2>6. QED
    BY <2>3, <2>4, <2>5, WaitersChange
<1>3. QED
  BY <1>1, <1>2

\* Whatever happens beside the scheduler's thread.
LEMMA BesideStep ==
  ASSUME OneRunsInv, plan' = plan, current' = current, task' = task, pc' = pc, active' = active,
         QueueOK', WaitersOK', taskState' \in [Sched!Tasks -> Sched!TaskStates],
         \A t \in Sched!Tasks : taskState[t] \in Ended => taskState'[t] \in Ended,
         \A t \in Sched!Tasks : taskState'[t] \in Runs => taskState[t] \in Runs
  PROVE  OneRunsInv'
<1>1. ThreadOK'
  BY DEF OneRunsInv, ThreadOK
<1>2. Sched!OnlyActiveRuns'
  BY DEF OneRunsInv, Sched!OnlyActiveRuns, Runs
<1>3. QED
  BY <1>1, <1>2 DEF OneRunsInv

\* A call is posted.
LEMMA IssueKeeps ==
  ASSUME OneRunsInv, NEW c \in Calls[plan], Sched!Issue(c)
  PROVE  OneRunsInv'
<1>1. /\ plan' = plan /\ current' = current /\ task' = task /\ pc' = pc /\ active' = active
      /\ waiters' = waiters /\ taskState' = taskState /\ queue' = Append(queue, Sched!Closure("call", c, None))
  BY DEF Sched!Issue, Sched!thread, Sched!lists, Sched!tasks
<1>2. Sched!Closure("call", c, None) \in Closures /\ Queued(Sched!Closure("call", c, None))'
  BY DEF Queued, Sched!Closure, Closures, AllCalls, Things, OneRunsInv, ThreadOK
<1>3. QueueOK' /\ WaitersOK'
  BY <1>1, <1>2, QueueGrows, WaitersGrow
<1>4. QED
  BY <1>1, <1>3, BesideStep DEF OneRunsInv

\* The function of a task comes to a check point, leaves it, or returns.
LEMMA TaskChangesKeeps ==
  ASSUME OneRunsInv, NEW t \in Sched!Tasks, Sched!TaskChanges(t)
  PROVE  OneRunsInv'
<1>1. /\ plan' = plan /\ current' = current /\ task' = task /\ pc' = pc /\ active' = active
      /\ waiters' = waiters /\ queue' = queue
  BY DEF Sched!TaskChanges, Sched!calls, Sched!thread, Sched!lists
<1>2. /\ taskState' \in [Sched!Tasks -> Sched!TaskStates]
      /\ \A u \in Sched!Tasks : taskState[u] \in Ended => taskState'[u] \in Ended
      /\ \A u \in Sched!Tasks : taskState'[u] \in Runs => taskState[u] \in Runs
  <2>1. taskState \in [Sched!Tasks -> Sched!TaskStates]
    BY DEF OneRunsInv
  <2>2. QED
    BY <2>1 DEF Sched!TaskChanges, Sched!Pause, Sched!Resume, Sched!Stop, Sched!TaskStates,
                Ended, Runs
<1>3. QueueOK' /\ WaitersOK'
  BY <1>1, <1>2, QueueGrows, WaitersGrow
<1>4. QED
  BY <1>1, <1>2, <1>3, BesideStep

\* The end of a task is told: it has come.
LEMMA TaskNotifiesKeeps ==
  ASSUME OneRunsInv, NEW t \in Sched!Tasks, Sched!TaskNotifies(t)
  PROVE  OneRunsInv'
<1>1. /\ plan' = plan /\ current' = current /\ task' = task /\ pc' = pc /\ active' = active
      /\ taskState' = taskState /\ taskState[t] \in Ended /\ waiters[t] # <<>>
      /\ waiters' = [waiters EXCEPT ![t] = Tail(@)]
  BY DEF Sched!TaskNotifies, Sched!thread, Sched!lists, Ended
<1>2. PICK s \in Seq(Closures) : s = waiters[t]
  BY DEF OneRunsInv, WaitersOK
<1>3. PICK r : r = Tail(s)
  OBVIOUS
<1>4. PICK w : w = Head(s)
  OBVIOUS
<1>5. /\ r \in Seq(Closures) /\ w \in Closures /\ w = s[1] /\ 1 \in DOMAIN s
      /\ \A i \in DOMAIN r : i + 1 \in DOMAIN s /\ r[i] = s[i + 1]
  BY <1>1, <1>2, <1>3, <1>4, TailIs
<1>6. \A i \in DOMAIN s : Waiting(s[i], t)
  BY <1>2 DEF OneRunsInv, WaitersOK
<1>7. WaitersOK'
  <2>1. waiters' = [waiters EXCEPT ![t] = r] /\ \A i \in DOMAIN r : Waiting(r[i], t)
    BY <1>1, <1>2, <1>3, <1>5, <1>6
  <2>2. QED
    BY <1>5, <2>1, WaitersChange
<1>8. QueueOK'
  <2>1. w.kind \in {"answer", "finished", "clear.next", "call"}
    BY <1>5 DEF Closures
  <2>2. (w.kind = "answer" /\ queue' = queue) \/ (w.kind # "answer" /\ queue' = Append(queue, w))
    BY <1>2, <1>4 DEF Sched!TaskNotifies
  <2>3. CASE queue' = queue
    BY <1>1, <2>3, QueueGrows
  <2>4. CASE w.kind # "answer" /\ queue' = Append(queue, w)
    <3>1. Queued(w)'
      BY <1>1, <1>5, <1>6, <2>4 DEF Queued, Waiting
    <3>2. QED
      BY <1>1, <1>5, <2>4, <3>1, QueueGrows
  <2>5. QED
    BY <2>2, <2>3, <2>4
<1>9. QED
  BY <1>1, <1>7, <1>8, BesideStep DEF OneRunsInv

\* The executor runs the next closure.
LEMMA TakeClosureKeeps ==
  ASSUME Sched!PlansAreCalls, OneRunsInv, Sched!TakeClosure
  PROVE  OneRunsInv'
<1>1. PICK h : h = Head(queue)
  OBVIOUS
<1>2. PICK r : r = Tail(queue)
  OBVIOUS
<1>3. /\ queue' = r /\ taskState' = taskState /\ waiters' = waiters /\ plan' = plan /\ active' = active
      /\ current' = h.call
      /\ task' = IF h.kind = "call" THEN h.call.arg ELSE h.task
      /\ pc' = IF h.kind # "call" THEN h.kind ELSE IF h.call.op = "destroy" THEN "clear" ELSE h.call.op
  BY <1>1, <1>2 DEF Sched!TakeClosure, Sched!calls, Sched!lists, Sched!tasks
<1>4. queue # <<>> /\ queue \in Seq(Closures)
  BY DEF Sched!TakeClosure, OneRunsInv, QueueOK
<1>5. /\ r \in Seq(Closures) /\ h \in Closures /\ h = queue[1] /\ 1 \in DOMAIN queue
      /\ \A i \in DOMAIN r : i + 1 \in DOMAIN queue /\ r[i] = queue[i + 1]
  BY <1>1, <1>2, <1>4, TailIs
<1>6. Queued(h) /\ \A i \in DOMAIN r : Queued(r[i])
  BY <1>5 DEF OneRunsInv, QueueOK
<1>7. QueueOK' /\ WaitersOK' /\ Sched!OnlyActiveRuns'
  <2>1. QueueOK'
    BY <1>3, <1>5, <1>6 DEF QueueOK, Queued
  <2>2. WaitersOK'
    BY <1>3, WaitersGrow
  <2>3. QED
    BY <1>3, <2>1, <2>2 DEF OneRunsInv, Sched!OnlyActiveRuns
<1>8. CASE h.kind = "call"
  <2>1. h.call \in AllCalls /\ h.call.op \in Sched!Ops
    BY <1>6, <1>8 DEF Queued, AllCalls, Sched!PlansAreCalls
  <2>2. pc' \in Sched!Ops /\ task' \in Things /\ current' \in AllCalls
    BY <1>3, <1>8, <2>1 DEF Sched!Ops, Things
  <2>3. ThreadOK'
    BY <1>3, <2>2 DEF ThreadOK, Sched!Ops, OneRunsInv
  <2>4. QED
    BY <1>3, <1>7, <2>3 DEF OneRunsInv
<1>9. CASE h.kind # "call"
  <2>1. h.call \in AllCalls \cup {None} /\ h.task \in Things /\ h.kind \in {"finished", "clear.next"}
    BY <1>5, <1>6, <1>9 DEF Closures, Queued
  <2>2. ThreadOK'
    BY <1>3, <1>6, <1>9, <2>1 DEF ThreadOK, Queued, OneRunsInv
  <2>3. QED
    BY <1>3, <1>7, <2>2 DEF OneRunsInv
<1>10. QED
  BY <1>8, <1>9

\* A new task: its end is told as finished.
LEMMA PushKeeps ==
  ASSUME OneRunsInv, Sched!Push
  PROVE  OneRunsInv'
<1>1. PICK t \in Sched!Tasks :
        /\ taskState[t] = "none" /\ taskState' = [taskState EXCEPT ![t] = "WaitForStart"]
        /\ waiters' = [waiters EXCEPT ![t] = <<Sched!Closure("finished", None, t)>>]
        /\ pc' = "schedule" /\ task' = t
        /\ plan' = plan /\ queue' = queue /\ current' = current /\ active' = active
  BY DEF Sched!Push, Sched!calls, Sched!lists
<1>2. /\ taskState' \in [Sched!Tasks -> Sched!TaskStates]
      /\ \A u \in Sched!Tasks : taskState[u] \in Ended => taskState'[u] \in Ended
      /\ \A u \in Sched!Tasks : taskState'[u] \in Runs => taskState[u] \in Runs
  BY <1>1 DEF OneRunsInv, Sched!TaskStates, Ended, Runs
<1>3. WaitersOK'
  <2>1. PICK w : w = Sched!Closure("finished", None, t)
    OBVIOUS
  <2>2. w \in Closures /\ Waiting(w, t)
    BY <2>1 DEF Sched!Closure, Closures, Waiting, Things
  <2>3. PICK r : r = <<w>>
    OBVIOUS
  <2>4. r \in Seq(Closures) /\ \A i \in DOMAIN r : r[i] = w
    BY <2>2, <2>3, OneIs
  <2>5. waiters' = [waiters EXCEPT ![t] = r]
    BY <1>1, <2>1, <2>3
  <2>6. QED
    BY <2>2, <2>4, <2>5, WaitersChange
<1>4. QueueOK'
  BY <1>1, <1>2, QueueGrows
<1>5. ThreadOK' /\ Sched!OnlyActiveRuns'
  BY <1>1, <1>2 DEF OneRunsInv, ThreadOK, Sched!OnlyActiveRuns, Things, Runs
<1>6. QED
  BY <1>2, <1>3, <1>4, <1>5 DEF OneRunsInv

\* The active task is cancelled, or clear stops a task: who asked waits for the end.
LEMMA StoppingStep ==
  ASSUME OneRunsInv, Sched!CancelActive \/ Sched!Clear \/ Sched!ClearTask
  PROVE  OneRunsInv'
<1> DEFINE next == Sched!Closure("clear.next", current, None)
           answer == Sched!Closure("answer", current, task)
<1>1. /\ plan' = plan /\ active' = active /\ pc' \in {"idle", "clear.next"}
      /\ current' \in {current, None} /\ task' \in {task, None}
  BY DEF Sched!CancelActive, Sched!Clear, Sched!ClearTask, Sched!Return, Sched!Idle,
         Sched!Goto, Sched!calls, Sched!lists
<1>2. taskState' = taskState \/ \E t : Sched!AsyncStop(t)
  BY DEF Sched!CancelActive, Sched!Clear, Sched!ClearTask, Sched!tasks
<1>3. \/ queue' = queue
      \/ queue' = Append(queue, next)
  BY DEF Sched!CancelActive, Sched!Clear, Sched!ClearTask, Sched!ThenStopped
<1>4. \/ waiters' = waiters
      \/ \E t : waiters' = [waiters EXCEPT ![t] = Append(@, next)]
      \/ \E t : waiters' = [waiters EXCEPT ![t] = Append(@, answer)]
  BY DEF Sched!CancelActive, Sched!Clear, Sched!ClearTask, Sched!ThenStopped, Sched!tasks
<1>5. next \in Closures /\ answer \in Closures /\ next.kind = "clear.next" /\ answer.kind = "answer"
  BY DEF Sched!Closure, Closures, OneRunsInv, ThreadOK, Things
<1>6. /\ taskState' \in [Sched!Tasks -> Sched!TaskStates]
      /\ \A t \in Sched!Tasks : taskState[t] \in Ended => taskState'[t] \in Ended
      /\ \A t \in Sched!Tasks : taskState'[t] \in Runs => taskState[t] \in Runs
  <2>1. taskState \in [Sched!Tasks -> Sched!TaskStates]
    BY DEF OneRunsInv
  <2>2. QED
    BY <1>2, <2>1 DEF Sched!AsyncStop, Sched!TaskStates, Ended, Runs
<1>7. QueueOK'
  <2>1. PICK w : w = next
    OBVIOUS
  <2>2. w \in Closures /\ Queued(w)' /\ (queue' = queue \/ queue' = Append(queue, w))
    BY <1>3, <1>5, <2>1 DEF Queued
  <2>3. QED
    BY <1>6, <2>2, QueueGrows
<1>8. WaitersOK'
  <2>1. waiters \in [Sched!Tasks -> Seq(Closures)]
    BY DEF OneRunsInv, WaitersOK
  <2>2. ASSUME NEW t, NEW w \in Closures, w.kind \notin {"finished", "call"},
               waiters' = [waiters EXCEPT ![t] = Append(@, w)]
        PROVE  WaitersOK'
    <3>1. CASE t \in Sched!Tasks
      BY <2>2, <3>1, WaitersGrow
    <3>2. CASE t \notin Sched!Tasks
      <4>1. waiters' = waiters
        BY <2>1, <2>2, <3>2
      <4>2. QED
        BY <4>1, WaitersGrow
    <3>3. QED
      BY <3>1, <3>2
  <2>3. QED
    BY <1>4, <1>5, <2>2, WaitersGrow
<1>9. ThreadOK' /\ Sched!OnlyActiveRuns'
  BY <1>1, <1>6 DEF OneRunsInv, ThreadOK, Sched!OnlyActiveRuns, Things, Runs
<1>10. QED
  BY <1>6, <1>7, <1>8, <1>9 DEF OneRunsInv

\* A deleted task is gone, and with the scheduler the last one.
LEMMA JoinKeeps ==
  ASSUME OneRunsInv, Sched!Join
  PROVE  OneRunsInv'
<1>1. PICK t : t = Head(doomed)
  OBVIOUS
<1>2. /\ UNCHANGED <<plan, queue, waiters, current, task, active>>
      /\ taskState' = [taskState EXCEPT ![t] = "deleted"]
      /\ pc' \in {"delete", "delete.next"} /\ (pc' = "delete.next" => pc = "join.next")
  BY <1>1 DEF Sched!Join, Sched!calls, Sched!lists
<1>3. /\ taskState' \in [Sched!Tasks -> Sched!TaskStates]
      /\ \A u \in Sched!Tasks : taskState'[u] = "deleted" \/ taskState'[u] = taskState[u]
  BY <1>2 DEF OneRunsInv, Sched!TaskStates
<1>4. /\ \A u \in Sched!Tasks : taskState[u] \in Ended => taskState'[u] \in Ended
      /\ \A u \in Sched!Tasks : taskState'[u] \in Runs => u = active'
  BY <1>2, <1>3 DEF OneRunsInv, Sched!OnlyActiveRuns, Ended, Runs
<1>5. /\ plan' = plan /\ queue' = queue /\ waiters' = waiters /\ current' \in {current, None}
      /\ task' \in Things /\ pc' # "finished"
      /\ pc' \in {"delete.next", "join.next", "next"} => active' = None
  BY <1>2 DEF OneRunsInv, ThreadOK
<1>6. QED
  BY <1>3, <1>4, <1>5, QuietStep

LEMMA DestroyKeeps ==
  ASSUME OneRunsInv, Sched!Destroy
  PROVE  OneRunsInv'
<1>1. /\ plan' = plan /\ queue' = <<>> /\ waiters' = waiters /\ current' = current /\ task' = task
      /\ active' = None /\ pc' = "gone" /\ (active # None => taskState[active] = "Stopped")
      /\ taskState' = [t \in Sched!Tasks |-> IF t = active THEN "deleted" ELSE taskState[t]]
  BY DEF Sched!Destroy, Sched!ThreadIsOver
<1>2. /\ taskState' \in [Sched!Tasks -> Sched!TaskStates]
      /\ \A t \in Sched!Tasks : taskState'[t] \notin Runs
  BY <1>1 DEF OneRunsInv, Sched!OnlyActiveRuns, Sched!TaskStates, Runs
<1>3. QueueOK' /\ WaitersOK' /\ ThreadOK'
  BY <1>1 DEF OneRunsInv, QueueOK, WaitersOK, Waiting, ThreadOK
<1>4. Sched!OnlyActiveRuns'
  BY <1>2 DEF Sched!OnlyActiveRuns, Runs
<1>5. QED
  BY <1>2, <1>3, <1>4 DEF OneRunsInv

LEMMA RunsKept ==
  ASSUME Sched!PlansAreCalls, OneRunsInv, [Sched!Next]_(Sched!vars)
  PROVE  OneRunsInv'
<1>1. CASE Sched!ThreadStep
  BY <1>1, StayingStep, ReplacingStep, AskingStep, PushKeeps, StoppingStep, JoinKeeps
     DEF Sched!ThreadStep
<1>2. CASE UNCHANGED Sched!vars
  BY <1>2 DEF Sched!vars, Sched!calls, Sched!thread, Sched!lists, Sched!data, Sched!tasks,
              OneRunsInv, QueueOK, WaitersOK, ThreadOK,
     Sched!OnlyActiveRuns, Queued, Waiting
<1>3. QED
  BY <1>1, <1>2, IssueKeeps, TakeClosureKeeps, DestroyKeeps, TaskChangesKeeps,
     TaskNotifiesKeeps
     DEF Sched!Next, Sched!Quiescent

\* One task runs at a time, whatever the clients do and whichever task ends on its
\* own meanwhile: the next one is resumed when the pause of the last one is over
\* (scheduler.cpp:258-276, 321-339).
THEOREM OneTaskRuns ==
  ASSUME Sched!PlansAreCalls
  PROVE  Sched!Spec => []Sched!OnlyActiveRuns
<1>1. Sched!Init => OneRunsInv
  BY InitRuns
<1>2. OneRunsInv /\ [Sched!Next]_(Sched!vars) => OneRunsInv'
  BY RunsKept
<1>3. OneRunsInv => Sched!OnlyActiveRuns
  BY DEF OneRunsInv
<1>4. QED
  BY <1>1, <1>2, <1>3, PTL DEF Sched!Spec
=============================================================================
