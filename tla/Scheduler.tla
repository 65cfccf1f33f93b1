------------------------------ MODULE Scheduler ------------------------------
(***************************************************************************)
(* nhope::Scheduler (lib/async/scheduler.cpp): tasks of which one is       *)
(* active, the others wait for their turn by priority, or are delayed.     *)
(* Every call is a closure of m_ao, the context of the scheduler's own     *)
(* thread; that thread blocks while it pauses, resumes, stops or deletes a *)
(* task, and the tasks' threads run on meanwhile.                          *)
(*                                                                         *)
(* The ManageableTask of each task is reduced to what its only client, the *)
(* scheduler's thread, sees of it: requests never overtake each other, so  *)
(* a request and its answer are a step each (see ManageableTask).          *)
(***************************************************************************)
EXTENDS Integers, Sequences, FiniteSets, SequencesExt

CONSTANTS Plans,   \* what the clients do; for each plan
          Calls,   \* the calls [by, nr, op, arg]: the nr-th of thread by
          Endless, \* the tasks whose functions return only when told to stop
          MaxTasks,\* bound: how many tasks are pushed
          None

Tasks == 0 .. (MaxTasks - 1)    \* TaskId

Ops == {"push", "activate", "deactivate", "cancel", "wait", "waitAll", "clear", "destroy"}

PlansAreCalls ==
  /\ MaxTasks \in Nat /\ None \notin Tasks
  /\ \A g \in Plans :
       None \notin Calls[g] /\ Endless[g] \subseteq Tasks /\ \A c \in Calls[g] : c.op \in Ops
ASSUME PlansAssumption == PlansAreCalls

TaskStates == {"none", "WaitForStart", "Running", "Pausing", "Paused",
               "Resuming", "Stopping", "Stopped", "deleted"}

VARIABLES
  plan,                    \* one of Plans, for good
  request,                 \* each call: "new", "posted" or "ready"
  queue,                   \* closures waiting in m_executor
  pc, current, task,       \* the scheduler's thread: where it is, the call it
                           \* answers when it returns, the task in its hands
  doomed,                  \* tasks it is about to delete
  active, waited, delayed, \* m_activeTask, m_waitedTasks, m_delayedTasks
  priority, started,       \* of each Task; isAlreadyStarted
  promises,                \* the promises [call, task, list] of the tasks
  waitStop,                \* m_waitStopPromises
  chain,                   \* the tasks that the closures of clear refer to
  state,                   \* of each ManageableTask
  waiters                  \* who waits for it to stop, in order

calls == <<plan, request>>
thread == <<pc, current, task, doomed>>
lists == <<active, waited, delayed>>
data == <<priority, started, promises, waitStop, chain>>
tasks == <<state, waiters>>
vars == <<calls, queue, thread, lists, data, tasks>>

Closure(kind, call, t) == [kind |-> kind, call |-> call, task |-> t]

Init ==
  /\ plan \in Plans
  /\ request = [c \in Calls[plan] |-> "new"]
  /\ queue = <<>>
  /\ pc = "idle" /\ current = None /\ task = None /\ doomed = <<>>
  /\ active = None /\ waited = <<>> /\ delayed = <<>>
  /\ priority = [t \in Tasks |-> 0] /\ started = {}
  /\ promises = {} /\ waitStop = {}
  /\ chain = [c \in Calls[plan] |-> <<>>]
  /\ state = [t \in Tasks |-> "none"]
  /\ waiters = [t \in Tasks |-> <<>>]

-----------------------------------------------------------------------------
\* ManageableTask, as seen from the scheduler's thread.
AsyncPause(t) == state' = [state EXCEPT ![t] = IF @ = "Running" THEN "Pausing" ELSE @]
AsyncResume(t) == state' = [state EXCEPT ![t] = CASE @ = "WaitForStart" -> "Running"
                                                  [] @ = "Paused"       -> "Resuming"
                                                  [] OTHER              -> @]
AsyncStop(t) == state' = [state EXCEPT ![t] = IF @ = "Stopped" THEN @ ELSE "Stopping"]

PauseIsOver(t)  == state[t] \in {"WaitForStart", "Paused", "Stopped"}
ResumeIsOver(t) == state[t] # "Resuming"
ThreadIsOver(t) == state[t] = "Stopped" /\ waiters[t] = <<>>

\* The task's function comes to a check point, or leaves it, or returns.
Pause(t) == state[t] = "Pausing" /\ state' = [state EXCEPT ![t] = "Paused"]
Resume(t) == state[t] = "Resuming" /\ state' = [state EXCEPT ![t] = "Running"]
Stop(t) == /\ \/ state[t] = "Stopping"
              \/ state[t] \in {"Running", "Pausing"} /\ t \notin Endless[plan]
           /\ state' = [state EXCEPT ![t] = "Stopped"]

TaskChanges(t) ==
  /\ Pause(t) \/ Resume(t) \/ Stop(t)
  /\ UNCHANGED <<calls, queue, thread, lists, data, waiters>>

\* The stopped task's thread resolves its m_stopPromises: the continuations
\* are closures of m_ao, a cancel is answered.
TaskNotifies(t) ==
  /\ state[t] \in {"Stopped", "deleted"}
  /\ waiters[t] # <<>>
  /\ LET w == Head(waiters[t]) IN
       IF w.kind = "answer"
       THEN request' = [request EXCEPT ![w.call] = "ready"] /\ UNCHANGED queue
       ELSE queue' = Append(queue, w) /\ UNCHANGED request
  /\ waiters' = [waiters EXCEPT ![t] = Tail(@)]
  /\ UNCHANGED <<plan, thread, lists, data, state>>

\* asyncWaitForStopped().then(m_ao, ...): at once if the task is Stopped.
ThenStopped(t, w) ==
  IF state[t] = "Stopped"
  THEN queue' = Append(queue, w) /\ UNCHANGED waiters
  ELSE waiters' = [waiters EXCEPT ![t] = Append(@, w)] /\ UNCHANGED queue

-----------------------------------------------------------------------------
\* A client makes its next call.  None is made after the destructor's.
Issue(c) ==
  /\ request[c] = "new"
  /\ \A d \in Calls[plan] : (d.by = c.by /\ d.nr < c.nr) => request[d] = "ready"
  /\ \A d \in Calls[plan] : d.op = "destroy" => request[d] = "new"
  /\ request' = [request EXCEPT ![c] = "posted"]
  /\ queue' = Append(queue, Closure("call", c, None))
  /\ UNCHANGED <<plan, thread, lists, data, tasks>>

\* m_executor runs the next closure.  ~Scheduler calls clear.
TakeClosure ==
  LET h == Head(queue)
      op == IF h.kind # "call" THEN h.kind
            ELSE IF h.call.op = "destroy" THEN "clear" ELSE h.call.op
  IN /\ pc = "idle"
     /\ queue # <<>>
     /\ queue' = Tail(queue)
     /\ pc' = op
     /\ current' = h.call
     /\ task' = IF h.kind = "call" THEN h.call.arg ELSE h.task
     /\ UNCHANGED <<calls, doomed, lists, data, tasks>>

\* The futures of the promises ps, and of the calls cs, become ready.
Answer(ps, cs) ==
  request' = [c \in Calls[plan] |->
                IF c \in cs \/ \E p \in ps : p.call = c THEN "ready" ELSE request[c]]
Of(t, l) == {p \in promises : p.task = t /\ p.list = l}
Resolve(ps) == Answer(ps, {}) /\ promises' = promises \ ps

\* The call gets the future of a promise of the task.
Keep(l) == promises' = promises \cup {[call |-> current, task |-> task, list |-> l]}

Goto(to) == pc' = to /\ UNCHANGED <<current, task, doomed>>
Idle == pc' = "idle" /\ current' = None /\ task' = None /\ UNCHANGED doomed

\* The closure returns, and its call is answered if nothing else answers it.
Return == Idle /\ Answer({}, {current} \ {None})

-----------------------------------------------------------------------------
\* Mutant: the list is not searched for the place of the task.
AppendTask(q, t) == Append(q, t)

\* queueTask: std::lower_bound, so before those of the same priority, which
\* were there first and are taken, from the back, first.
InsertTask(q, t) ==
  LET i == Cardinality({j \in DOMAIN q : priority[q[j]] < priority[t]})
  IN  SubSeq(q, 1, i) \o <<t>> \o SubSeq(q, i + 1, Len(q))

\* push: create the task; the continuation of its end is "finished".
Push == \E t \in Tasks :
  /\ pc = "push"
  /\ state[t] = "none" /\ \A u \in 0 .. (t - 1) : state[u] # "none"
  /\ priority' = [priority EXCEPT ![t] = current.arg]
  /\ state' = [state EXCEPT ![t] = "WaitForStart"]
  /\ waiters' = [waiters EXCEPT ![t] = <<Closure("finished", None, t)>>]
  /\ pc' = "schedule" /\ task' = t
  /\ UNCHANGED <<calls, queue, current, doomed, lists, started, promises, waitStop, chain>>

\* schedule: the task becomes active, ...
ScheduleFirst ==
  /\ pc = "schedule"
  /\ active = None
  /\ active' = task
  /\ Goto("resume")
  /\ UNCHANGED <<calls, queue, waited, delayed, data, tasks>>

\* ... preempts the active one, which pauses first, ...
SchedulePreempt ==
  /\ pc = "schedule"
  /\ active # None
  /\ priority[active] < priority[task]
  /\ AsyncPause(active)
  /\ Goto("preempt")
  /\ UNCHANGED <<calls, queue, lists, data, waiters>>

\* ... or waits for its turn.
ScheduleLater ==
  /\ pc = "schedule"
  /\ active # None
  /\ ~(priority[active] < priority[task])
  /\ waited' = InsertTask(waited, task)
  /\ Return
  /\ UNCHANGED <<plan, queue, active, delayed, data, tasks>>

\* Mutant: the active task is replaced without waiting for its pause.
PreemptAtOnce ==
  /\ pc = "preempt"
  /\ Resolve(Of(active, "pause"))
  /\ waited' = Append(waited, active)
  /\ active' = task
  /\ Goto("resume")
  /\ UNCHANGED <<plan, queue, delayed, priority, started, waitStop, chain, tasks>>

\* The active task is paused, or has just stopped.
Preempt ==
  /\ pc = "preempt"
  /\ PauseIsOver(active)
  /\ Resolve(Of(active, "pause"))
  /\ waited' = Append(waited, active)
  /\ active' = task
  /\ Goto("resume")
  /\ UNCHANGED <<plan, queue, delayed, priority, started, waitStop, chain, tasks>>

\* Task::resume: resume the active task, ...
StartResume ==
  /\ pc = "resume"
  /\ started' = started \cup {active}
  /\ Of(active, "stop") = {}
  /\ AsyncResume(active)
  /\ Goto("resuming")
  /\ UNCHANGED <<calls, queue, lists, priority, promises, waitStop, chain, waiters>>

Resumed ==
  /\ pc = "resuming"
  /\ ResumeIsOver(active)
  /\ Idle
  /\ Answer(Of(active, "resume"), {current} \ {None})
  /\ promises' = promises \ Of(active, "resume")
  /\ UNCHANGED <<plan, queue, lists, priority, started, waitStop, chain, tasks>>

\* ... or stop it, if it was cancelled.
StopCancelled ==
  /\ pc = "resume"
  /\ started' = started \cup {active}
  /\ Of(active, "stop") # {}
  /\ AsyncStop(active)
  /\ IF state[active] = "Stopped" THEN Return ELSE Goto("stopping") /\ UNCHANGED request
  /\ UNCHANGED <<plan, queue, lists, priority, promises, waitStop, chain, waiters>>

CancelledStopped ==
  /\ pc = "stopping"
  /\ ThreadIsOver(active)
  /\ Return
  /\ UNCHANGED <<plan, queue, lists, data, tasks>>

-----------------------------------------------------------------------------
\* Mutant: the last task that waited is not noticed.
NextForgetsWaitAll ==
  /\ pc = "next"
  /\ waited = <<>>
  /\ Return
  /\ UNCHANGED <<plan, queue, lists, data, tasks>>

\* resumeNextTask: nothing waits any more; waitAll is over unless tasks are
\* delayed ...
NextNone ==
  /\ pc = "next"
  /\ waited = <<>>
  /\ Idle
  /\ IF delayed = <<>> THEN Answer({}, waitStop \cup ({current} \ {None})) /\ waitStop' = {}
                       ELSE Answer({}, {current} \ {None}) /\ UNCHANGED waitStop
  /\ UNCHANGED <<plan, queue, lists, priority, started, promises, chain, tasks>>

\* ... or the last of the list is taken; if it was deactivated while it
\* waited it is paused and delayed, and the next one is looked at.
NextTask ==
  /\ pc = "next"
  /\ waited # <<>>
  /\ LET t == Last(waited) IN
       /\ active' = t
       /\ waited' = Front(waited)
       /\ IF Of(t, "pause") = {} THEN Goto("resume") /\ UNCHANGED state
                                 ELSE Goto("delay") /\ AsyncPause(t)
  /\ UNCHANGED <<calls, queue, delayed, data, waiters>>

\* The active task is paused, or has just stopped: to the delayed ones.
Delay ==
  /\ pc = "delay"
  /\ PauseIsOver(active)
  /\ Resolve(Of(active, "pause"))
  /\ delayed' = Append(delayed, active)
  /\ active' = None
  /\ Goto("next")
  /\ UNCHANGED <<plan, queue, waited, priority, started, waitStop, chain, tasks>>

\* deactivate: the active task, one that waits, or nothing to do.
DeactivateActive ==
  /\ pc = "deactivate"
  /\ task = active
  /\ AsyncPause(task)
  /\ Goto("delay")
  /\ UNCHANGED <<calls, queue, lists, data, waiters>>

DeactivateOther ==
  /\ pc = "deactivate"
  /\ task # active
  /\ IF task \in ToSet(waited) THEN Idle /\ Keep("pause") /\ UNCHANGED request
                               ELSE Return /\ UNCHANGED promises
  /\ UNCHANGED <<plan, queue, lists, priority, started, waitStop, chain, tasks>>

Without(q, t) == SelectSeq(q, LAMBDA u : u # t)

\* A delayed task is scheduled again, its call waits for a promise.
TakeDelayed(l) ==
  /\ delayed' = Without(delayed, task)
  /\ Keep(l)
  /\ pc' = "schedule" /\ current' = None
  /\ UNCHANGED <<task, doomed>>

\* activate: a task that waits, a delayed one, or nothing to do.
Activate ==
  /\ pc = "activate"
  /\ \/ /\ task \in ToSet(waited)
        /\ Idle /\ Keep("resume")
        /\ UNCHANGED <<request, delayed>>
     \/ /\ task \in ToSet(delayed)
        /\ TakeDelayed("resume")
        /\ UNCHANGED request
     \/ /\ task \notin ToSet(waited) \cup ToSet(delayed)
        /\ Return
        /\ UNCHANGED <<promises, delayed>>
  /\ UNCHANGED <<plan, queue, active, waited, priority, started, waitStop, chain, tasks>>

\* Mutant: cancel of the active task does not wait for its end.
CancelActiveAtOnce ==
  /\ pc = "cancel"
  /\ task = active
  /\ AsyncStop(task)
  /\ Return
  /\ UNCHANGED <<plan, queue, lists, data, waiters>>

\* cancel: the active task stops and answers itself, ...
CancelActive ==
  /\ pc = "cancel"
  /\ task = active
  /\ AsyncStop(task)
  /\ IF state[task] = "Stopped"
     THEN Return /\ UNCHANGED waiters
     ELSE /\ Idle
          /\ waiters' = [waiters EXCEPT ![task] = Append(@, Closure("answer", current, task))]
          /\ UNCHANGED request
  /\ UNCHANGED <<plan, queue, lists, data>>

\* ... one that waits is deleted, or stopped when its turn comes, ...
CancelWaited ==
  /\ pc = "cancel"
  /\ task \in ToSet(waited)
  /\ Keep("stop")
  /\ IF task \in started
     THEN Idle /\ UNCHANGED waited
     ELSE /\ waited' = Without(waited, task)
          /\ doomed' = <<task>>
          /\ pc' = "delete" /\ current' = None /\ task' = None
  /\ UNCHANGED <<calls, queue, active, delayed, priority, started, waitStop, chain, tasks>>

\* ... a delayed one is scheduled in order to be stopped.
CancelOther ==
  /\ pc = "cancel"
  /\ task # active /\ task \notin ToSet(waited)
  /\ IF task \in ToSet(delayed) THEN TakeDelayed("stop") /\ UNCHANGED request
                                ELSE Return /\ UNCHANGED <<promises, delayed>>
  /\ UNCHANGED <<plan, queue, active, waited, priority, started, waitStop, chain, tasks>>

\* asyncWait of a task, asyncWaitAll.
Wait ==
  /\ pc = "wait"
  /\ IF task \in {active} \cup ToSet(waited) \cup ToSet(delayed)
     THEN Idle /\ Keep("wait") /\ UNCHANGED request
     ELSE Return /\ UNCHANGED promises
  /\ UNCHANGED <<plan, queue, lists, priority, started, waitStop, chain, tasks>>

WaitAll ==
  /\ pc = "waitAll"
  /\ IF active # None
     THEN Idle /\ waitStop' = waitStop \cup {current} /\ UNCHANGED request
     ELSE Return /\ UNCHANGED waitStop
  /\ UNCHANGED <<plan, queue, lists, priority, started, promises, chain, tasks>>

-----------------------------------------------------------------------------
\* The delayed tasks, from the back, go to those that wait.
AllWaited == FoldRight(LAMBDA t, q : InsertTask(q, t), delayed, waited)

\* Mutant: clear does not look at the delayed tasks.
ClearWaitedOnly ==
  /\ pc = "clear"
  /\ chain' = [chain EXCEPT ![current] = Reverse(waited)]
  /\ LET w == Closure("clear.next", current, None) IN
       IF active = None
       THEN queue' = Append(queue, w) /\ UNCHANGED tasks
       ELSE ThenStopped(active, w) /\ AsyncStop(active)
  /\ Idle
  /\ UNCHANGED <<calls, lists, priority, started, promises, waitStop>>

\* clear: the active task is stopped, then, one after the other, those that
\* wait now; the continuations keep references to them.
Clear ==
  /\ pc = "clear"
  /\ waited' = AllWaited
  /\ delayed' = <<>>
  /\ chain' = [chain EXCEPT ![current] = Reverse(waited')]
  /\ LET w == Closure("clear.next", current, None) IN
       IF active = None
       THEN queue' = Append(queue, w) /\ UNCHANGED tasks
       ELSE ThenStopped(active, w) /\ AsyncStop(active)
  /\ Idle
  /\ UNCHANGED <<calls, active, priority, started, promises, waitStop>>

\* A continuation stops its task; if that is Stopped the next one runs now.
ClearTask ==
  /\ pc = "clear.next"
  /\ chain[current] # <<>>
  /\ LET t == Head(chain[current]) IN
       /\ state[t] # "deleted"
       /\ AsyncStop(t)
       /\ IF state[t] = "Stopped"
          THEN Goto("clear.next") /\ UNCHANGED waiters
          ELSE /\ Idle
               /\ waiters' = [waiters EXCEPT ![t] = Append(@, Closure("clear.next", current, None))]
  /\ chain' = [chain EXCEPT ![current] = Tail(@)]
  /\ UNCHANGED <<calls, queue, lists, priority, started, promises, waitStop>>

\* The last one: m_waitedTasks.clear().
ClearEnds ==
  /\ pc = "clear.next"
  /\ chain[current] = <<>>
  /\ doomed' = waited
  /\ waited' = <<>>
  /\ pc' = "delete" /\ UNCHANGED <<current, task>>
  /\ UNCHANGED <<calls, queue, active, delayed, data, tasks>>

\* A task has stopped: eraseTask, ...
FinishedOther ==
  /\ pc = "finished"
  /\ task # active
  /\ waited' = Without(waited, task)
  /\ delayed' = Without(delayed, task)
  /\ doomed' = IF task \in ToSet(waited) \cup ToSet(delayed) THEN <<task>> ELSE <<>>
  /\ pc' = "delete" /\ current' = None /\ task' = None
  /\ UNCHANGED <<calls, queue, active, data, tasks>>

\* Mutant: the next task is not resumed.
FinishedAlone ==
  /\ pc = "finished"
  /\ task = active
  /\ doomed' = <<active>>
  /\ active' = None
  /\ pc' = "delete"
  /\ UNCHANGED <<calls, queue, current, task, waited, delayed, data, tasks>>

\* ... or, if it was active, it is deleted and the next one resumed.
FinishedActive ==
  /\ pc = "finished"
  /\ task = active
  /\ doomed' = <<active>>
  /\ active' = None
  /\ pc' = "delete.next"
  /\ UNCHANGED <<calls, queue, current, task, waited, delayed, data, tasks>>

\* ~Task: its promises are resolved, the ManageableTask is told to stop ...
DeleteTask ==
  LET t == Head(doomed) IN
  /\ pc \in {"delete", "delete.next"}
  /\ doomed # <<>>
  /\ Resolve({p \in promises : p.task = t})
  /\ AsyncStop(t)
  /\ Goto(IF pc = "delete" THEN "join" ELSE "join.next")
  /\ UNCHANGED <<plan, queue, lists, priority, started, waitStop, chain, waiters>>

\* Mutant: the thread is detached.
Detach ==
  /\ pc \in {"join", "join.next"}
  /\ state' = [state EXCEPT ![Head(doomed)] = "deleted"]
  /\ doomed' = Tail(doomed)
  /\ pc' = IF pc = "join" THEN "delete" ELSE "delete.next"
  /\ UNCHANGED <<calls, queue, current, task, lists, data, waiters>>

\* ... and its thread is joined.
Join ==
  /\ pc \in {"join", "join.next"}
  /\ ThreadIsOver(Head(doomed))
  /\ state' = [state EXCEPT ![Head(doomed)] = "deleted"]
  /\ doomed' = Tail(doomed)
  /\ pc' = IF pc = "join" THEN "delete" ELSE "delete.next"
  /\ UNCHANGED <<calls, queue, current, task, lists, data, waiters>>

Deleted ==
  /\ pc \in {"delete", "delete.next"}
  /\ doomed = <<>>
  /\ IF pc = "delete" THEN Return ELSE Goto("next") /\ UNCHANGED request
  /\ UNCHANGED <<plan, queue, lists, data, tasks>>

\* ~Scheduler goes on when clear has returned: m_ao closes, its closures are
\* dropped, the promises that are left are broken, and a last task that has
\* stopped, but whose closure has not run yet, is deleted when its thread is over.
Destroy ==
  /\ pc = "idle"
  /\ \E c \in Calls[plan] : c.op = "destroy" /\ request[c] = "ready"
  /\ active # None => ThreadIsOver(active)
  /\ active' = None
  /\ state' = [t \in Tasks |-> IF t = active THEN "deleted" ELSE state[t]]
  /\ pc' = "gone"
  /\ queue' = <<>> /\ promises' = {} /\ waitStop' = {}
  /\ Answer(promises, waitStop \cup {h.call : h \in ToSet(queue)})
  /\ UNCHANGED <<plan, current, task, doomed, waited, delayed, priority, started, chain, waiters>>

-----------------------------------------------------------------------------
ThreadStep == \/ Push \/ ScheduleFirst \/ SchedulePreempt \/ ScheduleLater \/ Preempt
              \/ StartResume \/ Resumed \/ StopCancelled \/ CancelledStopped
              \/ NextNone \/ NextTask \/ Delay
              \/ DeactivateActive \/ DeactivateOther \/ Activate
              \/ CancelActive \/ CancelWaited \/ CancelOther \/ Wait \/ WaitAll
              \/ Clear \/ ClearTask \/ ClearEnds
              \/ FinishedOther \/ FinishedActive \/ DeleteTask \/ Join \/ Deleted

\* No thread has anything to do; that no call is left over is CallsReturn.
Quiescent == /\ pc \in {"idle", "gone"} /\ queue = <<>>
             /\ \A t \in Tasks : state[t] \in {"none", "WaitForStart", "Paused", "deleted"}
             /\ UNCHANGED vars

Next == \/ \E c \in Calls[plan] : Issue(c)
        \/ TakeClosure \/ ThreadStep \/ Destroy
        \/ \E t \in Tasks : TaskChanges(t) \/ TaskNotifies(t)
        \/ Quiescent

Spec == Init /\ [][Next]_vars

\* Threads run on; a task's function comes to check points and returns, when
\* it is told to at the latest; the clients make all their calls.
Fairness == /\ WF_vars(\E c \in Calls[plan] : Issue(c))
            /\ WF_vars(TakeClosure) /\ WF_vars(ThreadStep) /\ WF_vars(Destroy)
            /\ \A t \in Tasks : WF_vars(TaskChanges(t)) /\ WF_vars(TaskNotifies(t))
FairSpec == Spec /\ Fairness

-----------------------------------------------------------------------------
\* The variables are in their ranges, and a task is in one place at most: the
\* unique_ptr of each is moved from list to list.
TypeOK ==
  /\ plan \in Plans
  /\ request \in [Calls[plan] -> {"new", "posted", "ready"}]
  /\ active \in Tasks \cup {None}
  /\ state \in [Tasks -> TaskStates]
  /\ waited \in Seq(Tasks) /\ delayed \in Seq(Tasks) /\ doomed \in Seq(Tasks)
  /\ IsInjective(<<active>> \o waited \o delayed \o doomed)
  /\ started \subseteq Tasks
  /\ \A p \in promises : p.list \in {"pause", "resume", "stop", "wait"}

\* Only the active task runs, in the windows in which tasks are replaced too:
\* the next one is resumed when the pause of the last one is over.
OnlyActiveRuns ==
  \A t \in Tasks : state[t] \in {"Running", "Pausing", "Resuming"} => t = active

\* The tasks that wait are sorted, and none of them has a higher priority than
\* the active one, unless that is about to stop.
PriorityIsKept ==
  /\ \A i, j \in DOMAIN waited : i < j => priority[waited[i]] <= priority[waited[j]]
  /\ pc = "idle" /\ active # None /\ state[active] \notin {"Stopping", "Stopped"} =>
       \A t \in ToSet(waited) : priority[t] <= priority[active]

\* assert(m_waitedTasks.empty()) in schedule (scheduler.cpp:263): while no task
\* is active none is left to wait, for nobody would resume it.
NothingWaitsInVain ==
  (pc = "schedule" \/ (pc = "idle" /\ queue = <<>>)) /\ active = None => waited = <<>>

\* The references that the continuations of clear hold (scheduler.cpp:176-181)
\* are used only while their tasks exist.  This is so as long as no task of
\* theirs has stopped by itself in a pause, or is cancelled before it started,
\* while clear goes on: the plans keep to that.
NoDanglingTask ==
  pc = "clear.next" /\ chain[current] # <<>> => state[Head(chain[current])] # "deleted"

\* The asserts of ~Impl: when clear, called by ~Scheduler, has returned no task
\* waits or is delayed, and none runs, in whatever state the clear met them.
DestructorFindsNothing ==
  (\E c \in Calls[plan] : c.op = "destroy" /\ request[c] = "ready") =>
    waited = <<>> /\ delayed = <<>> /\ (active # None => state[active] = "Stopped")

\* The scheduler's lists tell what its tasks are doing: one runs, the others
\* wait in order, are not stranded, and none is used after it was deleted.
ListsMatchTasks ==
  TypeOK /\ OnlyActiveRuns /\ PriorityIsKept /\ NothingWaitsInVain
         /\ NoDanglingTask /\ DestructorFindsNothing

\* A future is ready when what was asked for is done: the task that was waited
\* for or cancelled is over, or will never run; the deactivated one does not
\* run, the activated one was resumed; after waitAll nothing runs or waits.
Over(t) == state'[t] \in {"none", "Stopped", "deleted"} \/ t \notin started'
AnswerIsTrue(c) ==
  CASE c.op \in {"wait", "cancel"} -> Over(c.arg)
    [] c.op = "deactivate" -> state'[c.arg] \notin {"Running", "Pausing", "Resuming"}
    [] c.op = "activate"   -> state'[c.arg] \notin {"WaitForStart", "Paused", "Resuming"}
    [] c.op = "waitAll"    -> active' = None /\ waited' = <<>>
    [] c.op = "clear"      -> waited' = <<>>
    [] OTHER -> TRUE
AnswersAreTrue ==
  [][\A c \in Calls[plan] : request[c] # "ready" /\ request'[c] = "ready" => AnswerIsTrue(c)]_vars

\* Every call returns: tasks that finish while they are being paused, replaced
\* or cancelled strand neither their own callers nor those of waitAll.
CallsReturn == \A c \in UNION {Calls[g] : g \in Plans} :
  (c \in Calls[plan] /\ request[c] = "posted") ~> (c \in Calls[plan] /\ request[c] = "ready")
=============================================================================
