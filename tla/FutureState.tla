----------------------------- MODULE FutureState -----------------------------
(***************************************************************************)
(* detail::FutureState (include/nhope/async/detail/future-state.h): the    *)
(* handshake of a Promise with the thread that waits for its Future.       *)
(* Result and callback are plain fields; m_flags says which of them is     *)
(* set, and whoever sets the second flag calls the callback.  The callback *)
(* here is the one of wait, waitFor and get: it sets an Event.             *)
(*                                                                         *)
(* The compare-exchange of setFlag publishes what was written before it;   *)
(* the store of both flags is memory_order_relaxed and publishes nothing.  *)
(* On a machine that keeps stores in order (WeakMemory = FALSE) it does    *)
(* all the same; otherwise a thread that learns from that store that there *)
(* is a result may still see the result's field as it was before.          *)
(***************************************************************************)
EXTENDS Naturals

CONSTANTS WeakMemory,   \* the machine may delay plain stores
          MaxWaits      \* bound on the calls of wait and waitFor

ASSUME WeakMemoryAssumption == WeakMemory \in BOOLEAN
ASSUME MaxWaitsAssumption == MaxWaits \in Nat

Actors == {"promise", "future"}
Kinds == {"Value", "Exception", "BrokenPromise"}

VARIABLES
  flags,        \* m_flags
  storage,      \* m_resultStorage, as the promise's thread wrote it
  callback,     \* m_futureReadyEvent and m_callback are set
  event,        \* the Event is signaled
  pc,           \* where each actor is
  call,         \* the future's current call
  synced,       \* the future's thread sees the result's field as written
  result,       \* what get returned: "none" before it did
  fired,        \* history: calls of futureReady
  waits         \* calls of wait and waitFor so far

vars == <<flags, storage, callback, event, pc, call, synced, result, fired, waits>>

FlagOf(a) == IF a = "promise" THEN "HasResult" ELSE "HasCallback"

Init == /\ flags = {} /\ storage = "Nothing"
        /\ callback = FALSE /\ event = FALSE
        /\ pc = [a \in Actors |-> "client"] /\ call = "none"
        /\ synced = FALSE /\ result = "none"
        /\ fired = 0 /\ waits = 0

Goto(a, to) == pc' = [pc EXCEPT ![a] = to]

\* An acquiring read of m_flags.  The promise learns of the callback from the
\* compare-exchange only; the future learns of the result from it if that is
\* the only flag, else from the relaxed store.
Acquire(a) == synced' = (synced \/ /\ a = "future"
                                   /\ "HasResult" \in flags
                                   /\ ~WeakMemory \/ flags = {"HasResult"})

\* Where setFlag returns to: a future's thread set it in order to wait.
AfterSetFlag(a) == IF a = "promise" THEN "done" ELSE "waiting"

-----------------------------------------------------------------------------
\* Promise::setValue, setException, or ~Promise with BrokenPromiseError;
\* m_satisfiedFlag lets one of them through.
Satisfy(kind) ==
  /\ pc["promise"] = "client"
  /\ storage' = kind
  /\ Goto("promise", "load")
  /\ UNCHANGED <<flags, callback, event, call, synced, result, fired, waits>>

\* setFlag: the load decides whether to try the exchange ...
LoadFlags(a) ==
  /\ pc[a] = "load"
  /\ Acquire(a)
  /\ Goto(a, IF flags = {} THEN "exchange" ELSE "both")
  /\ UNCHANGED <<flags, storage, callback, event, call, result, fired, waits>>

\* Mutant: the result of the exchange is not looked at.
ExchangeUnchecked(a) ==
  /\ pc[a] = "exchange"
  /\ flags' = flags \cup {FlagOf(a)}
  /\ Acquire(a)
  /\ Goto(a, AfterSetFlag(a))
  /\ UNCHANGED <<storage, callback, event, call, result, fired, waits>>

\* Mutant: the outcome of the exchange is read the wrong way round.
ExchangeInverted(a) ==
  /\ pc[a] = "exchange"
  /\ Acquire(a)
  /\ flags' = IF flags = {} THEN {FlagOf(a)} ELSE flags
  /\ Goto(a, IF flags = {} THEN "both" ELSE AfterSetFlag(a))
  /\ UNCHANGED <<storage, callback, event, call, result, fired, waits>>

\* ... which succeeds only while no flag is set; then the other comes second.
CompareExchange(a) ==
  /\ pc[a] = "exchange"
  /\ Acquire(a)
  /\ flags' = IF flags = {} THEN {FlagOf(a)} ELSE flags
  /\ Goto(a, IF flags = {} THEN AfterSetFlag(a) ELSE "both")
  /\ UNCHANGED <<storage, callback, event, call, result, fired, waits>>

\* The other flag is set: this actor is the second one ...
StoreBoth(a) ==
  /\ pc[a] = "both"
  /\ flags' = {"HasResult", "HasCallback"}
  /\ Goto(a, "fire")
  /\ UNCHANGED <<storage, callback, event, call, synced, result, fired, waits>>

\* ... and calls SetEventFutureCallback::futureReady.
FutureReady(a) ==
  /\ pc[a] = "fire"
  /\ event' = TRUE
  /\ fired' = fired + 1
  /\ Goto(a, AfterSetFlag(a))
  /\ UNCHANGED <<flags, storage, callback, call, synced, result, waits>>

-----------------------------------------------------------------------------
\* makeWaitFuture: the first call sets the callback.
MakeWaitFuture(c) ==
  /\ call' = c
  /\ callback' = TRUE
  /\ Goto("future", IF callback THEN "waiting" ELSE "load")

\* wait and waitFor.
Wait(c) ==
  /\ pc["future"] = "client"
  /\ waits < MaxWaits
  /\ waits' = waits + 1
  /\ MakeWaitFuture(c)
  /\ UNCHANGED <<flags, storage, event, synced, result, fired>>

\* Mutant: get asks for the callback's flag instead of the result's.
GetAsksWrongFlag ==
  /\ pc["future"] = "client"
  /\ IF "HasCallback" \in flags
     THEN Acquire("future") /\ Goto("future", "read") /\ call' = "get" /\ UNCHANGED callback
     ELSE Acquire("future") /\ MakeWaitFuture("get")
  /\ UNCHANGED <<flags, storage, event, result, fired, waits>>

\* get: the result is there, or the thread waits for it.
Get ==
  /\ pc["future"] = "client"
  /\ Acquire("future")
  /\ IF "HasResult" \in flags
     THEN call' = "get" /\ Goto("future", "read") /\ UNCHANGED callback
     ELSE MakeWaitFuture("get")
  /\ UNCHANGED <<flags, storage, event, result, fired, waits>>

\* The event was set, under its mutex.
WakeUp ==
  /\ pc["future"] = "waiting"
  /\ event
  /\ synced' = TRUE
  /\ Goto("future", IF call = "get" THEN "read" ELSE "client")
  /\ UNCHANGED <<flags, storage, callback, event, call, result, fired, waits>>

\* waitFor gives up: the future may be asked again.
TimeOut ==
  /\ pc["future"] = "waiting"
  /\ call = "waitFor"
  /\ Goto("future", "client")
  /\ UNCHANGED <<flags, storage, callback, event, call, synced, result, fired, waits>>

\* get reads value() or exception(), as far as this thread sees the field.
Read ==
  /\ pc["future"] = "read"
  /\ result' \in {storage} \cup (IF synced THEN {} ELSE {"Nothing"})
  /\ Goto("future", "done")
  /\ UNCHANGED <<flags, storage, callback, event, call, synced, fired, waits>>

-----------------------------------------------------------------------------
SetFlag(a) == LoadFlags(a) \/ CompareExchange(a) \/ StoreBoth(a) \/ FutureReady(a)

\* The result is stored and was got.
Quiescent == /\ \A a \in Actors : pc[a] = "done"
             /\ UNCHANGED vars

Next == \/ \E kind \in Kinds : Satisfy(kind)
        \/ \E a \in Actors : SetFlag(a)
        \/ \E c \in {"wait", "waitFor"} : Wait(c)
        \/ Get \/ WakeUp \/ TimeOut \/ Read
        \/ Quiescent

Spec == Init /\ [][Next]_vars

\* A promise is satisfied at last, if only by its destructor; threads run on.
\* No call of the client is taken for granted, and no time-out.
Fairness == /\ WF_vars(\E kind \in Kinds : Satisfy(kind))
            /\ \A a \in Actors : WF_vars(SetFlag(a))
            /\ WF_vars(WakeUp) /\ WF_vars(Read)
FairSpec == Spec /\ Fairness

-----------------------------------------------------------------------------
\* The callback is called at most once, and only when the result is stored and
\* both sides have set their flags: however the two race through setFlag,
\* neither calls it early and they never both call it.
CallbackFiresOnce ==
  /\ fired <= 1
  /\ fired = 1 => flags = {"HasResult", "HasCallback"} /\ storage # "Nothing"

\* No wake-up is lost: once both sides have left setFlag, the event is set.
\* The window is between the load of the flags and the exchange.
NoLostWakeUp ==
  pc["promise"] = "done" /\ callback /\ pc["future"] \in {"waiting", "client"} => event

\* What get returns is the result the promise stored.
\* (assert(m_curVariant == ContentVariants::Value), future-state.h:111.)
GetReturnsTheResult == result # "none" => result = storage /\ result # "Nothing"

\* A call of wait or get returns, however it races with the promise.
WaitEnds == pc["future"] = "waiting" /\ call # "waitFor"
            ~> pc["future"] \in {"client", "done"}
=============================================================================
