------------------------------ MODULE CallQueue ------------------------------
(***************************************************************************)
(* CallQueue (call-queue.h): asynchronous calls made one after the other.  *)
(* Each call is three callbacks on the future of the call before it: the   *)
(* function, the result, and the fail that leaves the chain without an     *)
(* exception for the next.  Every call has a context, which may close.     *)
(***************************************************************************)
EXTENDS WorkContext, Integers, FiniteSets

CONSTANTS
  MaxPushes,      \* bound: how many calls are pushed
  CallContexts    \* the contexts they are pushed with

ASSUME MaxPushesAssumption == MaxPushes \in Nat

VARIABLES
  pushed,         \* how many calls were pushed; they are 1, 2, ...
  callCtx,        \* the context of each; for good
  stage,          \* "none", "waiting" for the one before, "running", "ended"
  called,         \* the calls whose function was called
  outcome,        \* the future of the function
  link,           \* the future of the chain behind the call
  result,         \* the future that push returned
  cancelled       \* ~CallQueue was called

callVars == <<pushed, callCtx, stage, called, outcome, link, result, cancelled>>

QueuedCalls == 1..MaxPushes

CallQueueInit(used) ==
  /\ pushed = 0 /\ callCtx \in Choice(used, [QueuedCalls -> CallContexts])
  /\ stage = [c \in QueuedCalls |-> "none"] /\ called = {}
  /\ outcome = stage /\ link = stage /\ result = stage
  /\ cancelled = ~used

\* The future in front of call c: ready for the first.
Before(c) == IF c = 1 THEN "ready" ELSE link[c - 1]
Follow(q, c) ==
  IF c <= MaxPushes /\ stage'[c] = "waiting"
  THEN Exec(q, callCtx[c], [call |-> c, step |-> "start"]) ELSE q

\* push with an open context: a closed one throws, and takes the chain with it.
Push(c) ==
  /\ ~cancelled /\ c = pushed + 1 /\ callCtx[c] \in open
  /\ pushed' = c
  /\ stage' = [stage EXCEPT ![c] = "waiting"] /\ result' = [result EXCEPT ![c] = "pending"]
  /\ link' = [link EXCEPT ![c] = "pending"]
  /\ works' = IF Before(c) = "pending" THEN works ELSE Follow(works, c)
  /\ UNCHANGED <<open, callCtx, called, outcome, cancelled>>

\* Mutant: a call starts though the one before it is not through.
StartCallEarly(c) ==
  /\ stage[c] = "waiting" /\ callCtx[c] \in open
  /\ stage' = [stage EXCEPT ![c] = "running"] /\ called' = called \cup {c}
  /\ outcome' = [outcome EXCEPT ![c] = "pending"]
  /\ works' = SelectSeq(works, LAMBDA w : w.work.call # c)
  /\ UNCHANGED <<open, pushed, callCtx, link, result, cancelled>>

\* The function is called, unless the chain failed or was cancelled: then the
\* call fails without it.
StartCall(c) ==
  /\ Runs(callCtx[c], [call |-> c, step |-> "start"])
  /\ IF Before(c) = "ready" /\ ~cancelled
     THEN /\ stage' = [stage EXCEPT ![c] = "running"] /\ called' = called \cup {c}
          /\ outcome' = [outcome EXCEPT ![c] = "pending"] /\ works' = Tail(works)
     ELSE /\ stage' = [stage EXCEPT ![c] = "ended"]
          /\ outcome' = [outcome EXCEPT ![c] = "cancelled"] /\ UNCHANGED called
          /\ works' = Exec(Tail(works), callCtx[c], [call |-> c, step |-> "finish"])
  /\ UNCHANGED <<open, pushed, callCtx, link, result, cancelled>>

\* The function's future ends; with its context closed only the promise of the
\* result is left, and breaks.
CallEnds(c) ==
  /\ stage[c] = "running" /\ outcome[c] = "pending"
  /\ stage' = [stage EXCEPT ![c] = "ended"]
  /\ \E o \in {"value", "error"} : outcome' = [outcome EXCEPT ![c] = o]
  /\ works' = Exec(works, callCtx[c], [call |-> c, step |-> "finish"])
  /\ result' = IF callCtx[c] \in open THEN result ELSE [result EXCEPT ![c] = "broken"]
  /\ UNCHANGED <<open, pushed, callCtx, called, link, cancelled>>

\* Mutant: the fail is missing; an exception leaves the result and the chain.
FinishCallThen(c) ==
  /\ Runs(callCtx[c], [call |-> c, step |-> "finish"])
  /\ IF outcome[c] = "value"
     THEN result' = [result EXCEPT ![c] = "value"] /\ link' = [link EXCEPT ![c] = "ready"]
     ELSE link' = [link EXCEPT ![c] = "cancelled"] /\ UNCHANGED result
  /\ stage' = [stage EXCEPT ![c] = "done"] /\ works' = Follow(Tail(works), c + 1)
  /\ UNCHANGED <<open, pushed, callCtx, called, outcome, cancelled>>

\* The second then, or the fail, sets the result; the chain goes on.
FinishCall(c) ==
  /\ Runs(callCtx[c], [call |-> c, step |-> "finish"])
  /\ result' = [result EXCEPT ![c] = IF outcome[c] = "value" /\ cancelled
                                     THEN "cancelled" ELSE outcome[c]]
  /\ link' = [link EXCEPT ![c] = "ready"]
  /\ stage' = [stage EXCEPT ![c] = "done"]
  /\ works' = Follow(Tail(works), c + 1)
  /\ UNCHANGED <<open, pushed, callCtx, called, outcome, cancelled>>

\* A context closes: what its calls leave in the chain is cancelled, and so are
\* the promises of results, but for those that a running function still holds.
CloseCalls(x) ==
  LET gone == {c \in QueuedCalls : callCtx[c] = x /\ link[c] = "pending"}
      failed(c) == c \in gone /\ stage[c] # "running"
  IN
  /\ pushed > 0 /\ x \in open /\ open' = open \ {x}
  /\ link' = [c \in QueuedCalls |-> IF c \in gone THEN "cancelled" ELSE link[c]]
  /\ result' = [c \in QueuedCalls |-> IF failed(c) THEN "broken" ELSE result[c]]
  /\ stage' = [c \in QueuedCalls |-> IF failed(c) THEN "done" ELSE stage[c]]
  /\ LET next == {c \in QueuedCalls : c - 1 \in gone /\ stage'[c] = "waiting"}
         start(c) == [ctx |-> callCtx[c], work |-> [call |-> c, step |-> "start"]]
     IN works' = Without(works, {x}) \o [i \in DOMAIN InOrder(next) |-> start(InOrder(next)[i])]
  /\ UNCHANGED <<pushed, callCtx, called, outcome, cancelled>>

\* ~CallQueue cancels the chain; what was pushed is still answered.
DestroyQueue ==
  /\ ~cancelled /\ pushed > 0 /\ cancelled' = TRUE
  /\ UNCHANGED <<contextVars, pushed, callCtx, stage, called, outcome, link, result>>

CallStep(c) == StartCall(c) \/ CallEnds(c) \/ FinishCall(c)
CallQueueNext ==
  \/ \E c \in QueuedCalls : Push(c) \/ CallStep(c)
  \/ \E x \in CallContexts : CloseCalls(x)
  \/ DestroyQueue

CallQueueSpec ==
  /\ open = CallContexts /\ works = <<>> /\ CallQueueInit(TRUE)
  /\ [][CallQueueNext]_<<contextVars, callVars>>

\* The executor runs its works and every function's future ends.
CallQueueFairness == \A c \in QueuedCalls : WF_<<contextVars, callVars>>(CallStep(c))

-----------------------------------------------------------------------------
\* The calls are made in the order of push and never overlap.  Only a closed
\* context in between breaks the chain: the call behind it fails, but the one
\* after that is made though calls before it may still run.
CallsDoNotOverlap ==
  \A c, d \in QueuedCalls :
    c < d /\ d \in called /\ (\A b \in c..(d - 1) : callCtx[b] \in open) => stage[c] = "done"

\* Every call is answered, whichever contexts close and whether the queue lives.
CallsAreAnswered == \A c \in QueuedCalls : result[c] = "pending" ~> result[c] # "pending"
=============================================================================
