---------------------------- MODULE StateObserver ----------------------------
(***************************************************************************)
(* StateObserver (state-observer.h): a local copy of a remote state, set   *)
(* by setState and polled with a timer.  Its calls run in m_stateAOCtx,    *)
(* here 0; the setter, the getter's answers and the poll timer run   *)
(* in m_updateAOCtx, a child that setState replaces: the contexts 1, 2,    *)
(* ....  The futures of setter and getter end in whichever thread.         *)
(***************************************************************************)
EXTENDS WorkContext, Integers

CONSTANTS
  States,    \* values of T; "failure" stands for any exception_ptr
  MaxSets    \* bound: calls of setState and changes of the remote state

VARIABLES
  remote,            \* the state at the other end
  observed,          \* m_state, with where it comes from
  seen,              \* what the consumers were told last
  generation,        \* the current m_updateAOCtx
  asked,             \* setters and getters that have not answered
  sleeping,          \* the poll timers that run
  sets,              \* how much of MaxSets is used
  destroyed

observerVars == <<remote, observed, seen, generation, asked, sleeping, sets, destroyed>>

Initial == [value |-> "uninitialized", by |-> "nobody", at |-> 0]

ObserverInit(used) ==
  /\ remote \in Choice(used, States)
  /\ observed = Initial /\ seen = "uninitialized"
  /\ generation = 1 /\ asked = {} /\ sleeping = {} /\ sets = 0
  /\ destroyed = ~used

\* The contexts and the first work as the constructor leaves them.
ObserverContexts == {0, 1}
ObserverWorks == <<[ctx |-> 1, work |-> [do |-> "update"]]>>

\* setNewState tells the consumers if the state changes; two exceptions differ.
SetNewState(v, by, at) ==
  /\ observed' = [value |-> v, by |-> by, at |-> at]
  /\ seen' = IF v # observed.value \/ v = "failure" THEN v ELSE seen

Doing(w) == works # <<>> /\ Head(works).work = w

SetState(v) ==
  /\ ~destroyed /\ sets < MaxSets /\ sets' = sets + 1
  /\ works' = Exec(works, 0, [do |-> "set", value |-> v])
  /\ UNCHANGED <<open, remote, observed, seen, generation, asked, sleeping, destroyed>>

\* Mutant: the context of the polls is not replaced.
DoSetInPlace(v) ==
  /\ Doing([do |-> "set", value |-> v])
  /\ SetNewState(v, "set", generation + 1)
  /\ generation' = generation + 1 /\ open' = open \cup {generation'}
  /\ works' = Append(Tail(works), [ctx |-> generation', work |-> [do |-> "setter", value |-> v]])
  /\ UNCHANGED <<remote, asked, sleeping, sets, destroyed>>

\* The work of setState: the value counts at once, and a new context for what
\* follows closes the old one with all that it still had to do.
DoSet(v) ==
  /\ Doing([do |-> "set", value |-> v])
  /\ SetNewState(v, "set", generation + 1)
  /\ generation' = generation + 1
  /\ open' = (open \ {generation}) \cup {generation'}
  /\ works' = Append(Without(Tail(works), {generation}),
                     [ctx |-> generation', work |-> [do |-> "setter", value |-> v]])
  /\ sleeping' = sleeping \ {generation}
  /\ UNCHANGED <<remote, asked, sets, destroyed>>

CallSetter(v) ==
  /\ Doing([do |-> "setter", value |-> v])
  /\ asked' = asked \cup {[op |-> "set", value |-> v, at |-> generation]}
  /\ works' = Tail(works)
  /\ UNCHANGED <<open, remote, observed, seen, generation, sleeping, sets, destroyed>>

\* The setter's future ends, and its callback goes to the context of its time.
SetterAnswers ==
  \E q \in asked : \E failed \in BOOLEAN :
    /\ q.op = "set" /\ asked' = asked \ {q}
    /\ remote' = IF failed THEN remote ELSE q.value
    /\ works' = Exec(works, q.at, [do |-> "applied", failed |-> failed])
    /\ UNCHANGED <<open, observed, seen, generation, sleeping, sets, destroyed>>

\* Mutant: a getter that throws is not asked again.
UpdateStateOnce ==
  \/ /\ asked' = asked \cup {[op |-> "get", at |-> generation]}
     /\ UNCHANGED <<observed, seen, sleeping>>
  \/ SetNewState("failure", "get", generation) /\ UNCHANGED <<asked, sleeping>>

\* updateState calls the getter; one that throws is a failure, and is asked again
\* when the timer says so.
UpdateState ==
  \/ /\ asked' = asked \cup {[op |-> "get", at |-> generation]}
     /\ UNCHANGED <<observed, seen, sleeping>>
  \/ /\ SetNewState("failure", "get", generation)
     /\ sleeping' = sleeping \cup {generation} /\ UNCHANGED asked

\* fail and then of setState: the failure of the setter shows until the answer of
\* the getter.
Applied(failed) ==
  /\ Doing([do |-> "applied", failed |-> failed])
  /\ IF failed THEN SetNewState("failure", "setter", generation) ELSE UNCHANGED <<observed, seen>>
  /\ works' = Append(Tail(works), [ctx |-> generation, work |-> [do |-> "update"]])
  /\ UNCHANGED <<open, remote, generation, asked, sleeping, sets, destroyed>>

Update ==
  /\ Doing([do |-> "update"])
  /\ UpdateState /\ works' = Tail(works)
  /\ UNCHANGED <<open, remote, generation, sets, destroyed>>

GetterAnswers ==
  \E q \in asked : \E v \in {remote, "failure"} :
    /\ q.op = "get" /\ asked' = asked \ {q}
    /\ works' = Exec(works, q.at, [do |-> "answer", value |-> v, at |-> q.at])
    /\ UNCHANGED <<open, remote, observed, seen, generation, sleeping, sets, destroyed>>

\* then, fail and then of updateState: the answer, and the next poll.
Answered(v, at) ==
  /\ Doing([do |-> "answer", value |-> v, at |-> at])
  /\ SetNewState(v, "get", at)
  /\ sleeping' = sleeping \cup {generation} /\ works' = Tail(works)
  /\ UNCHANGED <<open, remote, generation, asked, sets, destroyed>>

PollTimer(g) ==
  /\ g \in sleeping /\ sleeping' = sleeping \ {g}
  /\ works' = Exec(works, g, [do |-> "update"])
  /\ UNCHANGED <<open, remote, observed, seen, generation, asked, sets, destroyed>>

\* The remote state changes by itself.
RemoteChanges ==
  /\ ~destroyed /\ sets < MaxSets /\ remote' \in States \ {remote} /\ sets' = sets + 1
  /\ UNCHANGED <<open, works, observed, seen, generation, asked, sleeping, destroyed>>

\* ~StateObserver closes m_stateAOCtx, and its child with it.
DestroyObserver ==
  /\ ~destroyed /\ destroyed' = TRUE
  /\ open' = open \ {0, generation} /\ works' = Without(works, {0, generation})
  /\ sleeping' = {}
  /\ UNCHANGED <<remote, observed, seen, generation, asked, sets>>

Gens == 1..(MaxSets + 1)
Results == States \cup {"failure"}
ObserverWork ==
  \/ Update \/ \E v \in Results : DoSet(v) \/ CallSetter(v) \/ \E g \in Gens : Answered(v, g)
  \/ \E b \in BOOLEAN : Applied(b)
Answers == SetterAnswers \/ GetterAnswers
ObserverNext ==
  \/ \E v \in States : SetState(v)
  \/ ObserverWork \/ Answers \/ RemoteChanges \/ DestroyObserver
  \/ \E g \in Gens : PollTimer(g)

ObserverSpec ==
  /\ open = ObserverContexts /\ works = ObserverWorks /\ ObserverInit(TRUE)
  /\ [][ObserverNext]_<<contextVars, observerVars>>

\* The executor runs its works, setter and getter answer, timers expire.
ObserverFairness ==
  LET v == <<contextVars, observerVars>> IN
  WF_v(ObserverWork) /\ WF_v(Answers) /\ \A g \in Gens : WF_v(PollTimer(g))

-----------------------------------------------------------------------------
\* What was set stays until a call made after it is answered: no answer to a poll
\* or a setter from before the last setState comes through.
LateAnswerIgnored ==
  /\ observed.by # "nobody" => observed.at = generation
  /\ \A i \in DOMAIN works : works[i].ctx \in open

\* As long as it lives the observer asks again and again, after answers, failures
\* and new values alike.
KeepsPolling == <>destroyed \/ []<><<Update>>_<<contextVars, observerVars>>
=============================================================================
