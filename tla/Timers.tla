------------------------------- MODULE Timers -------------------------------
(***************************************************************************)
(* setTimeout and setInterval (timer.cpp, timer.h): timers that delete     *)
(* themselves when they have fired or when their context closes, while the *)
(* closure that wakes them up holds a plain pointer.  An interval timer    *)
(* has a context of its own, named as the timer is, below "root".          *)
(***************************************************************************)
EXTENDS WorkContext, Naturals

CONSTANTS
  AllTimers,
  TimerPlans,   \* what kind of timer each is, "none" if it is not set
  Outcomes      \* what a handler does

\* "single" is setTimeout with a handler, "promise" the one with a future,
\* "timed" setTimeout of a Future, "interval" setInterval.
TimerKinds == {"none", "single", "promise", "timed", "interval"}
ASSUME TimerPlansAssumption == TimerPlans \subseteq [AllTimers -> TimerKinds]
ASSUME RootAssumption == "root" \notin AllTimers
\* Not among the outcomes: a handler that closes the context and throws.
ASSUME OutcomesAssumption == Outcomes \subseteq {"continue", "stop", "throw", "close"}

VARIABLES
  kind,       \* for good
  timer,      \* "none", "refused", "waiting", "expired", "calling", "deleted"
  error,      \* the error code that asio gave
  calls,      \* how often the handler was called, 2 is often
  answer,     \* the future of setTimeout
  source,     \* "timed": the future it watches, whether it is cancelled,
  sourceCancelled, timed,  \* and the future it returns
  aborted,    \* timers that were cancelled and that asio has still to report
  misused     \* a deleted timer was used

timerVars == <<kind, timer, error, calls, answer, source, sourceCancelled, timed, aborted, misused>>

TimersInit(used) ==
  /\ kind \in IF used THEN TimerPlans ELSE {[t \in AllTimers |-> "none"]}
  /\ timer = [t \in AllTimers |-> "none"] /\ error = [t \in AllTimers |-> FALSE]
  /\ calls = [t \in AllTimers |-> 0]
  /\ answer = [t \in AllTimers |-> "none"] /\ source = answer /\ timed = answer
  /\ sourceCancelled = {} /\ aborted = {} /\ misused = FALSE

Own(t) == IF kind[t] = "interval" THEN t ELSE "root"
Alive(t) == timer[t] \in {"waiting", "expired", "calling"}
HasFuture(t) == kind[t] \in {"promise", "timed"}

\* The timer is made; startCancellableTask throws if the context is closed.
SetTimer(t) ==
  /\ kind[t] # "none" /\ timer[t] = "none"
  /\ timer' = [timer EXCEPT ![t] = IF "root" \in open THEN "waiting" ELSE "refused"]
  /\ open' = IF kind[t] = "interval" /\ "root" \in open THEN open \cup {t} ELSE open
  /\ IF "root" \in open /\ HasFuture(t)
     THEN /\ answer' = [answer EXCEPT ![t] = "pending"]
          /\ source' = IF kind[t] = "timed" THEN [source EXCEPT ![t] = "pending"] ELSE source
     ELSE UNCHANGED <<answer, source>>
  /\ UNCHANGED <<works, kind, error, calls, sourceCancelled, timed, aborted, misused>>

\* asio reports the timer, in time, with an error, or because it was cancelled.
Reported(t) ==
  \/ /\ timer[t] = "waiting" /\ timer' = [timer EXCEPT ![t] = "expired"]
     /\ \E e \in BOOLEAN : error' = [error EXCEPT ![t] = e]
     /\ UNCHANGED aborted
  \/ /\ t \in aborted /\ aborted' = aborted \ {t} /\ UNCHANGED <<timer, error>>

\* Mutants: the wakeup goes to the executor whether or not the context is open;
\* a timer that fails is not reported.
ExpireUnguarded(t) ==
  /\ Reported(t)
  /\ works' = Append(works, [ctx |-> Own(t), work |-> [timer |-> t]])
  /\ UNCHANGED <<open, kind, calls, answer, source, sourceCancelled, timed, misused>>
ExpireIgnoresErrors(t) ==
  /\ Reported(t)
  /\ works' = IF error'[t] THEN works ELSE Exec(works, Own(t), [timer |-> t])
  /\ UNCHANGED <<open, kind, calls, answer, source, sourceCancelled, timed, misused>>

\* Its callback runs on whichever thread: exec of the wakeup, which the context
\* refuses when it is closed.
Expire(t) ==
  /\ Reported(t)
  /\ works' = Exec(works, Own(t), [timer |-> t])
  /\ UNCHANGED <<open, kind, calls, answer, source, sourceCancelled, timed, misused>>

\* The contexts cs close, with q left in the executor: aoContextClose of each of
\* their timers rejects its promise and deletes it, and the fail of setTimeout
\* cancels the source.  The timers `done' have deleted themselves.
Closed(cs, q, done) ==
  LET gone == {t \in AllTimers \ done : Alive(t) /\ Own(t) \in cs} IN
  /\ open' = open \ cs /\ works' = Without(q, cs)
  /\ timer' = [t \in AllTimers |-> IF t \in gone \cup done THEN "deleted" ELSE timer[t]]
  /\ answer' = [t \in AllTimers |-> IF t \in gone /\ HasFuture(t) THEN "cancelled" ELSE answer[t]]
  /\ sourceCancelled' = sourceCancelled \cup {t \in gone : kind[t] = "timed"}
  /\ aborted' = aborted \cup {t \in gone : timer[t] = "waiting"}
AllContexts == {"root"} \cup AllTimers

Called(t) == calls' = [calls EXCEPT ![t] = IF @ < 2 THEN @ + 1 ELSE @]
Busy == \E t \in AllTimers : timer[t] = "calling"
Wakes(t, kinds) == kind[t] \in kinds /\ Runs(Own(t), [timer |-> t]) /\ ~Busy
                   /\ misused' = (misused \/ ~Alive(t))

\* SingleTimer::wakeup deletes the timer before it calls the handler, which may
\* close the context.
WakeSingle(t) ==
  /\ Wakes(t, {"single"}) /\ Called(t)
  /\ \E o \in Outcomes :
       Closed(IF o = "close" THEN AllContexts ELSE {}, Tail(works), {t})
  /\ UNCHANGED <<kind, error, source, timed>>

\* PromiseTimer::wakeup; the then of setTimeout(future) cancels the source, its
\* fail does nothing for an error of the timer.
WakePromise(t) ==
  /\ Wakes(t, {"promise", "timed"})
  /\ timer' = [timer EXCEPT ![t] = "deleted"] /\ works' = Tail(works)
  /\ answer' = [answer EXCEPT ![t] = IF error[t] THEN "error" ELSE "value"]
  /\ sourceCancelled' = IF kind[t] = "timed" /\ ~error[t] THEN sourceCancelled \cup {t} ELSE sourceCancelled
  /\ UNCHANGED <<open, kind, error, calls, source, timed, aborted>>

\* IntervalTimer::wakeup takes the handler out and calls it ...
WakeInterval(t) ==
  /\ Wakes(t, {"interval"}) /\ Called(t)
  /\ timer' = [timer EXCEPT ![t] = "calling"] /\ works' = Tail(works)
  /\ UNCHANGED <<open, kind, error, answer, source, sourceCancelled, timed, aborted>>

\* ... which may close everything, and then the timer is gone; otherwise it stops,
\* or goes on with the next tick, after an exception in any case.
HandlerReturns(t) ==
  /\ timer[t] = "calling"
  /\ \E o \in Outcomes :
       IF o = "close" THEN Closed(AllContexts, works, {}) /\ UNCHANGED misused
       ELSE IF o = "stop" \/ (o = "continue" /\ error[t]) THEN Closed({t}, works, {}) /\ UNCHANGED misused
       ELSE /\ timer' = [timer EXCEPT ![t] = "waiting"]
            /\ misused' = (misused \/ t \notin open)
            /\ UNCHANGED <<open, works, answer, sourceCancelled, aborted>>
  /\ UNCHANGED <<kind, error, calls, source, timed>>

\* The source of a timed future is resolved by whoever has its promise; a value
\* that comes after the cancel is turned into an exception by then.
SourceEnds(t) ==
  /\ source[t] = "pending"
  /\ \E o \in {"value", "error"} :
       /\ source' = [source EXCEPT ![t] = o]
       /\ timed' = [timed EXCEPT ![t] =
                      IF o = "value" /\ t \in sourceCancelled THEN "cancelled" ELSE o]
  /\ UNCHANGED <<contextVars, kind, timer, error, calls, answer, sourceCancelled, aborted, misused>>

\* The root context is closed from outside, between two works; the constructor
\* of AOContext with a timeout does it from the handler of a timer ("close").
CloseRoot ==
  /\ \E t \in AllTimers : kind[t] # "none"
  /\ "root" \in open /\ ~Busy
  /\ Closed(AllContexts, works, {})
  /\ UNCHANGED <<kind, error, calls, source, timed, misused>>

Wake(t) == WakeSingle(t) \/ WakePromise(t) \/ WakeInterval(t) \/ HandlerReturns(t)
TimersNext == CloseRoot \/ \E t \in AllTimers : SetTimer(t) \/ Expire(t) \/ Wake(t) \/ SourceEnds(t)

TimersSpec ==
  /\ open = {"root"} /\ works = <<>> /\ TimersInit(TRUE)
  /\ [][TimersNext]_<<contextVars, timerVars>>

\* asio reports every timer in time, and the executor runs its works.
TimersFairness == \A t \in AllTimers : WF_<<contextVars, timerVars>>(Expire(t))
                                       /\ WF_<<contextVars, timerVars>>(Wake(t))

-----------------------------------------------------------------------------
\* The wakeup never finds its timer deleted, though the timer may expire while
\* another work, or a handler of the timer itself, closes the context.
NoTimerUsedAfterDelete ==
  /\ ~misused
  /\ \A i \in DOMAIN works : \A t \in AllTimers :
       works[i].work = [timer |-> t] => timer[t] = "expired"

\* Every future of setTimeout is answered, whatever closes when.
TimersEnd == \A t \in AllTimers : answer[t] = "pending" ~> answer[t] # "pending"
=============================================================================
