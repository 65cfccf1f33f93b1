---------------------------- MODULE ManageableTask ----------------------------
(***************************************************************************)
(* ManageableTaskImpl (lib/async/manageable-task.cpp): a task function on  *)
(* a thread of its own, which others pause, resume and stop.  A mutex      *)
(* guards the state; the thread sleeps on m_stateChangedCV until it is     *)
(* started or resumed.  Every request is one section under the mutex; the  *)
(* promises it takes out of a list are resolved after the unlock, and the  *)
(* state may have changed again by then.                                   *)
(***************************************************************************)
EXTENDS FiniteSets

CONSTANT Futures        \* one for each request that returns a Future

VARIABLES
  state,                \* m_state
  promise,              \* promise[f]: "new", the list it waits in, "outdated"
                        \* or "moved" out of its list, "ready"
  wpc,                  \* where the work thread is
  asleep,               \* it waits on m_stateChangedCV
  batch,                \* the promises it has moved out of the lists
  error                 \* m_error is set

vars == <<state, promise, wpc, asleep, batch, error>>

States == {"WaitForStart", "Running", "Pausing", "Paused", "Resuming",
           "Stopping", "Stopped"}
List(l) == {f \in Futures : promise[f] = l}   \* m_pausePromises and so on

Init == /\ state = "WaitForStart"
        /\ promise = [f \in Futures |-> "new"]
        /\ wpc = "start" /\ asleep = FALSE
        /\ batch = {} /\ error = FALSE

Move(fs, to) == [f \in Futures |-> IF f \in fs THEN to ELSE promise[f]]

-----------------------------------------------------------------------------
\* Requests of any thread.  Answer(f, w): its future is ready or waits.
Answer(f, w) == /\ promise[f] = "new"
                /\ promise' = [promise EXCEPT ![f] = w]
NotifyOne == asleep' = FALSE

AsyncPause(f) ==
  /\ \/ /\ state = "Running"
        /\ state' = "Pausing"
        /\ NotifyOne
        /\ Answer(f, "pause")
     \/ /\ state = "Resuming"
        /\ state' = "Paused"
        /\ promise[f] = "new"
        /\ promise' = [Move(List("resume"), "outdated") EXCEPT ![f] = "ready"]
        /\ UNCHANGED asleep
     \/ /\ state \in {"Pausing", "Stopping"}
        /\ Answer(f, "pause")
        /\ UNCHANGED <<state, asleep>>
     \/ /\ state \in {"Paused", "WaitForStart", "Stopped"}
        /\ Answer(f, "ready")
        /\ UNCHANGED <<state, asleep>>
  /\ UNCHANGED <<wpc, batch, error>>

\* Mutant: the pauses that a resume undoes stay in their list.
ResumeKeepsPauses(f) ==
  /\ \/ /\ state \in {"Stopping", "Running", "Stopped"}
        /\ Answer(f, "ready")
        /\ UNCHANGED <<state, asleep>>
     \/ /\ state = "Pausing"
        /\ state' = "Running"
        /\ Answer(f, "ready")
        /\ UNCHANGED asleep
     \/ /\ state = "Resuming"
        /\ Answer(f, "resume")
        /\ UNCHANGED <<state, asleep>>
     \/ /\ state = "WaitForStart"
        /\ state' = "Running"
        /\ Answer(f, "ready")
        /\ NotifyOne
     \/ /\ state = "Paused"
        /\ state' = "Resuming"
        /\ NotifyOne
        /\ Answer(f, "resume")
  /\ UNCHANGED <<wpc, batch, error>>

AsyncResume(f) ==
  /\ \/ /\ state \in {"Stopping", "Running", "Stopped"}
        /\ Answer(f, "ready")
        /\ UNCHANGED <<state, asleep>>
     \/ /\ state = "Pausing"
        /\ state' = "Running"
        /\ promise[f] = "new"
        /\ promise' = [Move(List("pause"), "outdated") EXCEPT ![f] = "ready"]
        /\ UNCHANGED asleep
     \/ /\ state = "Resuming"
        /\ Answer(f, "resume")
        /\ UNCHANGED <<state, asleep>>
     \/ /\ state = "WaitForStart"
        /\ state' = "Running"
        /\ Answer(f, "ready")
        /\ NotifyOne
     \/ /\ state = "Paused"
        /\ state' = "Resuming"
        /\ NotifyOne
        /\ Answer(f, "resume")
  /\ UNCHANGED <<wpc, batch, error>>

\* The promises a request took out of a list are resolved after its unlock.
ResolveOutdated(f) ==
  /\ promise[f] = "outdated"
  /\ promise' = [promise EXCEPT ![f] = "ready"]
  /\ UNCHANGED <<state, wpc, asleep, batch, error>>

\* Mutant: a stop does not notify the thread.
AsyncStopQuietly ==
  /\ state \notin {"Stopping", "Stopped"}
  /\ state' = "Stopping"
  /\ UNCHANGED <<promise, wpc, asleep, batch, error>>

\* asyncStop; so does ~ManageableTaskImpl, which then joins the thread.
AsyncStop ==
  /\ state \notin {"Stopping", "Stopped"}
  /\ state' = "Stopping"
  /\ NotifyOne
  /\ UNCHANGED <<promise, wpc, batch, error>>

AsyncWaitForStopped(f) ==
  /\ Answer(f, IF state = "Stopped" THEN "ready" ELSE "stop")
  /\ UNCHANGED <<state, wpc, asleep, batch, error>>

-----------------------------------------------------------------------------
\* The work thread: run() waits for the start, ...
WaitForStart ==
  /\ wpc = "start" /\ ~asleep
  /\ IF state \in {"Running", "Stopping", "Pausing"}
     THEN wpc' = "enter" /\ UNCHANGED asleep
     ELSE asleep' = TRUE /\ UNCHANGED wpc
  /\ UNCHANGED <<state, promise, batch, error>>

\* ... and calls the function, which calls checkPoint now and then and leaves
\* when it says so.  checkPoint: go on, if the task is Running or m_beforePause,
\* which the function may have set, refuses the pause, ...
AtCheckPoint == wpc \in {"enter", "check"}

GoOn ==
  /\ AtCheckPoint
  /\ state = "Running" \/ (state = "Pausing" /\ wpc = "check")
  /\ wpc' = "function"
  /\ UNCHANGED <<state, promise, asleep, batch, error>>

\* ... pause, if m_beforePause allows it (beginPause), ...
BeginPause ==
  /\ AtCheckPoint
  /\ state = "Pausing"
  /\ state' = "Paused"
  /\ batch' = List("pause")
  /\ promise' = Move(List("pause"), "moved")
  /\ wpc' = "pause.resolve"
  /\ UNCHANGED <<asleep, error>>

\* ... stop, or throw "Invalid state".
StopWorking ==
  /\ AtCheckPoint
  /\ state \notin {"Running", "Pausing"}
  /\ error' = (error \/ state # "Stopping")
  /\ wpc' = "stopped"
  /\ UNCHANGED <<state, promise, asleep, batch>>

\* resolvePromises with the mutex unlocked.
Resolve(from, to) ==
  /\ wpc = from
  /\ promise' = Move(batch, "ready")
  /\ batch' = {}
  /\ wpc' = to
  /\ UNCHANGED <<state, asleep, error>>

\* Mutant: the thread takes every wake-up for a resume.
EndPauseOnWakeUp ==
  /\ wpc = "paused" /\ ~asleep
  /\ state' = IF state = "Resuming" THEN "Running" ELSE state
  /\ batch' = List("resume")
  /\ promise' = Move(List("resume"), "moved")
  /\ wpc' = "resume.resolve"
  /\ UNCHANGED <<asleep, error>>

\* doPause sleeps while the state is Paused; then endPause.
EndPause ==
  /\ wpc = "paused" /\ ~asleep
  /\ IF state = "Paused"
     THEN asleep' = TRUE /\ UNCHANGED <<state, promise, batch, wpc>>
     ELSE /\ state' = IF state = "Resuming" THEN "Running" ELSE state
          /\ batch' = List("resume")
          /\ promise' = Move(List("resume"), "moved")
          /\ wpc' = "resume.resolve"
          /\ UNCHANGED asleep
  /\ UNCHANGED error

\* checkPoint returns after the pause, by what the state is now.
AfterPause ==
  /\ wpc = "resumed"
  /\ wpc' = IF state = "Stopping" THEN "stopped" ELSE "function"
  /\ UNCHANGED <<state, promise, asleep, batch, error>>

\* The function comes to a check point; or it returns or throws.
CallCheckPoint ==
  /\ wpc = "function"
  /\ wpc' = "check"
  /\ UNCHANGED <<state, promise, asleep, batch, error>>

FunctionReturns(throws) ==
  /\ wpc = "function"
  /\ wpc' = "stopped"
  /\ error' = throws
  /\ UNCHANGED <<state, promise, asleep, batch>>

\* Mutant: stopped() forgets the pauses that came too late.
StoppedForgetsPauses ==
  /\ wpc = "stopped"
  /\ state' = "Stopped"
  /\ batch' = List("resume") \cup List("stop")
  /\ promise' = Move(batch', "moved")
  /\ wpc' = "stopped.resolve"
  /\ UNCHANGED <<asleep, error>>

\* stopped(): whatever is still asked for is answered.
Stopped ==
  /\ wpc = "stopped"
  /\ state' = "Stopped"
  /\ batch' = List("pause") \cup List("resume") \cup List("stop")
  /\ promise' = Move(batch', "moved")
  /\ wpc' = "stopped.resolve"
  /\ UNCHANGED <<asleep, error>>

-----------------------------------------------------------------------------
Resolves == \/ Resolve("pause.resolve", "paused")
            \/ Resolve("resume.resolve", "resumed")
            \/ Resolve("stopped.resolve", "done")
WorkStep == \/ WaitForStart \/ GoOn \/ BeginPause \/ StopWorking \/ Resolves
            \/ EndPause \/ AfterPause \/ CallCheckPoint \/ Stopped

\* The task is over and every request is answered.
Quiescent == /\ wpc = "done" /\ state = "Stopped"
             /\ List("ready") = Futures
             /\ UNCHANGED vars

Next == \/ \E f \in Futures : \/ AsyncPause(f) \/ AsyncResume(f)
                              \/ ResolveOutdated(f) \/ AsyncWaitForStopped(f)
        \/ AsyncStop
        \/ WorkStep
        \/ \E throws \in BOOLEAN : FunctionReturns(throws)
        \/ Quiescent

Spec == Init /\ [][Next]_vars

\* The threads run; the function comes to check points for ever or returns,
\* and m_beforePause does not refuse every time it is asked.
Fairness == /\ WF_vars(WorkStep)
            /\ SF_vars(BeginPause)
            /\ \A f \in Futures : WF_vars(ResolveOutdated(f))
FairSpec == Spec /\ Fairness

-----------------------------------------------------------------------------
\* The variables are in their ranges; a promise in the thread's hands is not
\* yet resolved, so none is resolved twice.
TypeOK ==
  /\ state \in States
  /\ promise \in [Futures -> {"new", "pause", "resume", "stop", "outdated",
                              "moved", "ready"}]
  /\ wpc \in {"start", "enter", "check", "function", "pause.resolve", "paused",
              "resume.resolve", "resumed", "stopped", "stopped.resolve", "done"}
  /\ asleep \in BOOLEAN /\ error \in BOOLEAN
  /\ batch = List("moved")

\* A request waits only while somebody is going to answer it: a pause in
\* Pausing, a resume in Resuming, each of them until a stop is over.
PromisesMatchState ==
  /\ List("pause") # {} => state \in {"Pausing", "Stopping"}
  /\ List("resume") # {} => state \in {"Resuming", "Stopping"}
  /\ List("stop") # {} => state # "Stopped"

\* While the task is Paused or about to resume, its function is held inside
\* checkPoint: requests that overtake each other in the unlocked windows of
\* beginPause and endPause never let it run, and checkPoint never meets a state
\* it does not know ("Invalid state", manageable-task.cpp:224).
PausedFunctionIsHeld ==
  /\ state \in {"Paused", "Resuming"} => wpc \in {"pause.resolve", "paused"}
  /\ state = "Stopped" <=> wpc \in {"stopped.resolve", "done"}

\* No wake-up is lost: the thread sleeps only while there is nothing to do.
NoLostWakeUp ==
  asleep => \/ wpc = "start" /\ state = "WaitForStart"
            \/ wpc = "paused" /\ state = "Paused"

\* Every pause and resume is answered, whatever overtakes it.
RequestsAreAnswered ==
  \A f \in Futures :
    promise[f] \in {"pause", "resume", "outdated", "moved"} ~> promise[f] = "ready"

\* A task that is told to stop stops, paused or not started though it may be,
\* so the join of the destructor returns.
StopIsObeyed == state = "Stopping" ~> wpc = "done"

\* No request is ever in vain: a pause or a resume is answered, a stop obeyed.
RequestsAreServed == RequestsAreAnswered /\ StopIsObeyed
=============================================================================
