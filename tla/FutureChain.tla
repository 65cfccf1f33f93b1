----------------------------- MODULE FutureChain -----------------------------
(***************************************************************************)
(* Future::then and fail with an AOContext, and asyncInvoke (future.h,     *)
(* detail/future-state.h): a state S with its callback, the next state N   *)
(* that the callback resolves, and the AOContext the callback runs in,     *)
(* which may close at any moment.  The context is the gate of CloseGate,   *)
(* which AOContext implements; setFlag is one step, as FutureState shows.  *)
(*                                                                         *)
(* S lives as long as a reference to it is held: by the Promise, by the    *)
(* thread in then, by the closure that waits in the executor.  With S goes *)
(* its callback, whose destructor takes it off the list of close handlers. *)
(***************************************************************************)
EXTENDS FiniteSets

\* What becomes of the Promise of S: its owner "keeps" it for good, or "drops"
\* it some time; or there is "none": makeReadyFuture made S.
CONSTANT Owners

Threads == {"producer", "caller", "worker", "closer"}

VARIABLES
  phase, inside, closer,   \* the AOContext, as a CloseGate
  op, owner,               \* "then" or "fail"; one of Owners; for good
  pc,                      \* where each thread is
  holders,                 \* the references to S
  flags, result,           \* m_flags and the result of S
  handler,                 \* the callback as a close handler of the context
  hasNext,                 \* m_nextFutureState of the callback is set
  alive,                   \* S and its callback are not deleted
  cancelled,               \* the cancel flag that S and N share
  closure,                 \* the closure futureReady posts
  outcome                  \* the result of N

gate == <<phase, inside, closer>>
chain == <<op, owner>>
vars == <<gate, chain, pc, holders, flags, result, handler, hasNext, alive,
          cancelled, closure, outcome>>

Gate == INSTANCE CloseGate WITH Nobody <- "nobody"

\* The calls of a Future that take a context and make a chain.
ChainCalls == {"then", "fail"}

Init ==
  /\ Gate!Init
  /\ op \in ChainCalls /\ owner \in Owners
  /\ pc = [t \in Threads |-> IF t = "producer" /\ owner = "none" THEN "done" ELSE "client"]
  /\ holders = IF owner = "none" THEN {"caller"} ELSE {"caller", "producer"}
  /\ flags = IF owner = "none" THEN {"HasResult"} ELSE {}
  /\ result = IF owner = "none" THEN "Value" ELSE "none"
  /\ handler = "none" /\ hasNext = TRUE /\ alive = TRUE
  /\ cancelled = FALSE
  /\ closure = "none"
  /\ outcome = "none"

Goto(t, from, to) == pc[t] = from /\ pc' = [pc EXCEPT ![t] = to]

-----------------------------------------------------------------------------
\* The promise is satisfied: the thread that sets the second flag calls
\* futureReady.
SetResult(kind) ==
  /\ result' = kind
  /\ flags' = flags \cup {"HasResult"}
  /\ Goto("producer", "client", IF "HasCallback" \in flags THEN "exec" ELSE "release")
  /\ UNCHANGED <<gate, chain, holders, handler, hasNext, alive, cancelled, closure, outcome>>

\* then: the callback's constructor adds it to the close handlers, or throws
\* AOContextClosed, and S goes with the reference of the caller.
AddCloseHandler ==
  /\ IF phase = "open" THEN Gate!Enter("caller") /\ Goto("caller", "client", "insert")
                       ELSE UNCHANGED gate /\ Goto("caller", "client", "release")
  /\ UNCHANGED <<chain, holders, flags, result, handler, hasNext, alive, cancelled,
                 closure, outcome>>

InsertHandler ==
  /\ Goto("caller", "insert", "callback")
  /\ handler' = "listed"
  /\ Gate!Leave("caller")
  /\ UNCHANGED <<chain, holders, flags, result, hasNext, alive, cancelled, closure, outcome>>

SetCallback ==
  /\ flags' = flags \cup {"HasCallback"}
  /\ Goto("caller", "callback", IF "HasResult" \in flags THEN "exec" ELSE "release")
  /\ UNCHANGED <<gate, chain, holders, result, handler, hasNext, alive, cancelled,
                 closure, outcome>>

\* The owner of N cancels: it sets the flag S and N share.
Cancel ==
  /\ ~cancelled
  /\ cancelled' = TRUE
  /\ UNCHANGED <<gate, chain, pc, holders, flags, result, handler, hasNext, alive,
                 closure, outcome>>

\* futureReady: exec does nothing in a context that is closing.
Exec(t) ==
  /\ IF phase = "open" THEN Gate!Enter(t) /\ Goto(t, "exec", "post")
                       ELSE UNCHANGED gate /\ Goto(t, "exec", "release")
  /\ UNCHANGED <<chain, holders, flags, result, handler, hasNext, alive, cancelled,
                 closure, outcome>>

Post(t) ==
  /\ Goto(t, "post", "release")
  /\ closure' = "queued"
  /\ holders' = holders \cup {"worker"}
  /\ Gate!Leave(t)
  /\ UNCHANGED <<chain, flags, result, handler, hasNext, alive, cancelled, outcome>>

-----------------------------------------------------------------------------
\* The executor runs the closure: it enters the context again or gives up.
RunClosure ==
  /\ closure = "queued"
  /\ closure' = "taken"
  /\ IF phase = "open" THEN Gate!Enter("worker") /\ Goto("worker", "client", "run")
                       ELSE UNCHANGED gate /\ Goto("worker", "client", "release")
  /\ UNCHANGED <<chain, holders, flags, result, handler, hasNext, alive, cancelled, outcome>>

\* FutureThenCallback and FutureFailCallback::futureReady: N is taken out ...
CallFn ==
  /\ Goto("worker", "run", "fn")
  /\ hasNext' = FALSE
  /\ UNCHANGED <<gate, chain, holders, flags, result, handler, alive, cancelled,
                 closure, outcome>>

\* ... and resolved: a failure goes past then, a value past fail, a cancelled
\* then is not called; otherwise fn returns or throws.
Outcomes == IF op = "then"
            THEN IF result = "Exception" THEN {"Exception"}
                 ELSE IF cancelled THEN {"Cancelled"} ELSE {"Value", "Exception"}
            ELSE IF result = "Value" THEN {"Value"} ELSE {"Value", "Exception"}

\* Mutant: a failure of S is not passed on.
FnReturnsNothing ==
  /\ Goto("worker", "fn", "release")
  /\ IF op = "then" /\ result = "Exception" THEN UNCHANGED outcome ELSE outcome' \in Outcomes
  /\ Gate!Leave("worker")
  /\ UNCHANGED <<chain, holders, flags, result, handler, hasNext, alive, cancelled, closure>>

FnReturns ==
  /\ Goto("worker", "fn", "release")
  /\ outcome' \in Outcomes
  /\ Gate!Leave("worker")
  /\ UNCHANGED <<chain, holders, flags, result, handler, hasNext, alive, cancelled, closure>>

-----------------------------------------------------------------------------
\* A reference to S goes: the Promise is destroyed, then returns or throws,
\* the closure is deleted.
Release(t) ==
  /\ t = "producer" => owner # "keeps"
  /\ holders' = holders \ {t}
  /\ Goto(t, "release", IF holders = {t} THEN "destroy" ELSE "done")
  /\ UNCHANGED <<gate, chain, flags, result, handler, hasNext, alive, cancelled,
                 closure, outcome>>

\* With the last one go S and its callback.  removeCloseHandler waits while
\* the handler is being called.
\* Mutant: it does not wait.
DestroyAtOnce(t) ==
  /\ handler' = IF handler = "listed" THEN "removed" ELSE handler
  /\ alive' = FALSE
  /\ Goto(t, "destroy", "done")
  /\ UNCHANGED <<gate, chain, holders, flags, result, hasNext, cancelled, closure, outcome>>

Destroy(t) ==
  /\ handler # "called"
  /\ handler' = IF handler = "listed" THEN "removed" ELSE handler
  /\ alive' = FALSE
  /\ Goto(t, "destroy", "done")
  /\ UNCHANGED <<gate, chain, holders, flags, result, hasNext, cancelled, closure, outcome>>

-----------------------------------------------------------------------------
\* AOContext::close, by a thread outside the context.
StartClose ==
  /\ Goto("closer", "client", "wait")
  /\ Gate!Prepare("closer")
  /\ UNCHANGED <<chain, holders, flags, result, handler, hasNext, alive, cancelled,
                 closure, outcome>>

WaitForClosing ==
  /\ Goto("closer", "wait", "pop")
  /\ Gate!BeginClosing
  /\ UNCHANGED <<chain, holders, flags, result, handler, hasNext, alive, cancelled,
                 closure, outcome>>

\* callCloseHandlers takes the callback off the list, or finds it gone.
PopHandler ==
  /\ IF handler = "listed"
     THEN handler' = "called" /\ Goto("closer", "pop", "call") /\ UNCHANGED gate
     ELSE Gate!FinishClosing /\ Goto("closer", "pop", "done") /\ UNCHANGED handler
  /\ UNCHANGED <<chain, holders, flags, result, hasNext, alive, cancelled, closure, outcome>>

\* aoContextClose -> futureCancelled.
\* Mutant: it resolves N whether the callback still has it or not.
FutureCancelledAgain ==
  /\ Goto("closer", "call", "mark")
  /\ outcome' = "Cancelled"
  /\ hasNext' = FALSE
  /\ UNCHANGED <<gate, chain, holders, flags, result, handler, alive, cancelled, closure>>

FutureCancelled ==
  /\ Goto("closer", "call", "mark")
  /\ outcome' = IF hasNext THEN "Cancelled" ELSE outcome
  /\ hasNext' = FALSE
  /\ UNCHANGED <<gate, chain, holders, flags, result, handler, alive, cancelled, closure>>

\* m_done: who waits in removeCloseHandler may delete the callback.
MarkDone ==
  /\ Goto("closer", "mark", "pop")
  /\ handler' = "done"
  /\ UNCHANGED <<gate, chain, holders, flags, result, hasNext, alive, cancelled,
                 closure, outcome>>

-----------------------------------------------------------------------------
CloserStep == WaitForClosing \/ PopHandler \/ FutureCancelled \/ MarkDone
ThreadStep(t) == Exec(t) \/ Post(t) \/ Release(t) \/ Destroy(t)
ThenStep == InsertHandler \/ SetCallback
WorkerStep == RunClosure \/ CallFn \/ FnReturns

\* Everybody is done, or keeps the Promise; no closure waits.
Quiescent == /\ pc["caller"] = "done" /\ pc["closer"] = "done"
             /\ pc["producer"] = IF owner = "keeps" THEN "release" ELSE "done"
             /\ pc["worker"] \in {"client", "done"} /\ closure # "queued"
             /\ UNCHANGED vars

Next == \/ \E kind \in {"Value", "Exception"} : SetResult(kind)
        \/ AddCloseHandler \/ ThenStep \/ Cancel
        \/ \E t \in Threads : ThreadStep(t)
        \/ WorkerStep
        \/ StartClose \/ CloserStep
        \/ Quiescent

Spec == Init /\ [][Next]_vars

\* Threads run on, the executor runs its closures, and a Promise is satisfied
\* at last (by its destructor, if by nothing else).  Nobody has to call then,
\* cancel or close.
Fairness == /\ WF_vars(\E kind \in {"Value", "Exception"} : SetResult(kind))
            /\ WF_vars(ThenStep) /\ WF_vars(WorkerStep) /\ WF_vars(CloserStep)
            /\ \A t \in Threads : WF_vars(ThreadStep(t))
FairSpec == Spec /\ Fairness

-----------------------------------------------------------------------------
\* The close handler and the callback's run never use a deleted callback,
\* and never use it at the same time; it is deleted without references only.
CallbackIsUsedAlone ==
  /\ ~alive => holders = {}
  /\ pc["closer"] \in {"call", "mark"} \/ pc["worker"] \in {"run", "fn"} => alive
  /\ ~(pc["closer"] = "call" /\ pc["worker"] \in {"run", "fn"})

\* One callback serves one future once, and lives as long as it is used: the next
\* future gets one result, however the callback's run races with the close of its
\* context (assert(!hasResult()), future-state.h:193).
CallbackServesOnce ==
  [][(outcome # "none" => outcome' = outcome) /\ CallbackIsUsedAlone']_vars

\* A chain that was made is resolved, unless its context closes.
ResolvesWhileOpen == handler # "none" ~> outcome # "none" \/ phase # "open"

\* While the owner of the Promise keeps it, so that the state and its callback
\* live, a chain that was made is resolved: by the callback or by the close.
ChainResolvesIfKept ==
  owner = "keeps" /\ handler # "none" ~> outcome # "none"

\* Whoever waits at the end of a chain is answered while its context is open,
\* and, if the promise is kept, also when it closes.
ChainResolvesUnlessDropped == ResolvesWhileOpen /\ ChainResolvesIfKept

\* A chain that was made is resolved: by its callback, or by the close of its
\* context (tests/async/async-invoke-tests.cpp:152).
ChainResolves == handler # "none" ~> outcome # "none"
=============================================================================
