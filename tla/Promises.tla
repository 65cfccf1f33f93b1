------------------------------ MODULE Promises ------------------------------
(***************************************************************************)
(* Promise and Future as objects (future.h) over a pool of states: states  *)
(* are made by promises and by then and fail, a state's callback resolves  *)
(* the next one, and unwrap follows a future that is the value of another. *)
(* What one state does is in FutureState, what a context adds to a         *)
(* callback in FutureChain; here callbacks run where the result is set.    *)
(***************************************************************************)
EXTENDS Integers

CONSTANTS
  MaxStates,   \* bound: the states that are made
  Slots        \* variables of type Promise

ASSUME MaxStatesAssumption == MaxStates \in Nat

States == 1..MaxStates

VARIABLES
  made,       \* how many states are made; the first ones
  result,     \* per state: "pending", "value", "error", "broken", "cancelled", or
              \*   "future"
  inside,     \* the state of the future that is the value of a nested one
  nested,     \* the states of a Future<Future<T>>
  callback,   \* per state, m_callback: kind "none", "then", "fail", "unwrap"; the
              \*   state that it resolves
  fired,      \* the states whose callback has run
  token,      \* per state, the cancel flag it shares, named by its first owner
  cancelled,  \* the flags that are set
  promise,    \* per slot: m_state (0: none), m_satisfiedFlag, m_retrievedFlag
  held        \* the states that a Future of the program has

vars == <<made, result, inside, nested, callback, fired, token, cancelled, promise, held>>

NoCallback == [kind |-> "none", next |-> 0]
Failures == {"error", "broken", "cancelled"}
NewPromise(s, now) == [state |-> s, satisfied |-> FALSE, retrieved |-> now]
MovedFrom == [state |-> 0, satisfied |-> TRUE, retrieved |-> TRUE]

Init ==
  /\ made = 0 /\ result = [s \in States |-> "pending"]
  /\ inside = [s \in States |-> 0] /\ nested = {} /\ fired = {} /\ cancelled = {} /\ held = {}
  /\ callback = [s \in States |-> NoCallback]
  /\ token = [s \in States |-> s]
  /\ promise = [p \in Slots |-> MovedFrom]

\* The states that are there, and the one that makeRefPtr makes next.
Used == 1..made
First == made + 1

-----------------------------------------------------------------------------
\* Promise(): the program may ask for the future later, or at once (makePromise,
\* toThread); a slot is free when its promise was destroyed or moved.
MakePromise(p) ==
  /\ promise[p].state = 0 /\ First \in States
  /\ made' = First
  /\ \E now \in BOOLEAN :
       /\ promise' = [promise EXCEPT ![p] = NewPromise(First, now)]
       /\ held' = IF now THEN held \cup {First} ELSE held
  /\ UNCHANGED <<result, inside, nested, callback, fired, token, cancelled>>

\* future() gives the future once.
GetFuture(p) ==
  /\ ~promise[p].retrieved
  /\ promise' = [promise EXCEPT ![p].retrieved = TRUE]
  /\ held' = held \cup {promise[p].state}
  /\ UNCHANGED <<made, result, inside, nested, callback, fired, token, cancelled>>

\* setValue and setException throw when the promise is satisfied.
Satisfy(p, r) ==
  /\ promise[p].state # 0 /\ ~promise[p].satisfied
  /\ result' = [result EXCEPT ![promise[p].state] = r]
  /\ promise' = [promise EXCEPT ![p].satisfied = TRUE]
  /\ UNCHANGED <<made, inside, nested, callback, fired, token, cancelled, held>>

\* resolvePromises and rejectPromises: all in a list, which is cleared.
ResolvePromises(ps, r) ==
  /\ \A p \in ps : promise[p].state # 0 /\ ~promise[p].satisfied
  /\ LET them == {promise[p].state : p \in ps} IN
     result' = [s \in States |-> IF s \in them THEN r ELSE result[s]]
  /\ promise' = [p \in Slots |-> IF p \in ps THEN MovedFrom ELSE promise[p]]
  /\ UNCHANGED <<made, inside, nested, callback, fired, token, cancelled, held>>

\* ~Promise breaks a promise that is not satisfied.
DestroyPromise(p) ==
  LET s == promise[p].state IN
  /\ s # 0 /\ promise' = [promise EXCEPT ![p] = MovedFrom]
  /\ result' = IF promise[p].satisfied THEN result ELSE [result EXCEPT ![s] = "broken"]
  /\ UNCHANGED <<made, inside, nested, callback, fired, token, cancelled, held>>

\* Mutant: the flag of the other promise is left as it is.
MovePromiseKeeping(p, q) ==
  /\ p # q /\ promise[p].state # 0 /\ promise[q].satisfied
  /\ promise' = [promise EXCEPT ![q] = promise[p]]
  /\ UNCHANGED <<made, result, inside, nested, callback, fired, token, cancelled, held>>

\* Promise moved into a variable whose promise is satisfied (or moved from): one
\* that is not would be forgotten.
MovePromise(p, q) ==
  /\ p # q /\ promise[p].state # 0 /\ promise[q].satisfied
  /\ promise' = [promise EXCEPT ![q] = promise[p], ![p] = MovedFrom]
  /\ UNCHANGED <<made, result, inside, nested, callback, fired, token, cancelled, held>>

-----------------------------------------------------------------------------
\* then and fail: the future of s is used up, the next state shares its flag.
\* Is it a function that gives a future, unwrap adds a state for the value of that.
Hang(s, kind) ==
  /\ s \in held /\ First \in States
  /\ made' = First
  /\ callback' = [callback EXCEPT ![s] = [kind |-> kind, next |-> First]]
  /\ token' = [token EXCEPT ![First] = token[s]]
  /\ held' = (held \ {s}) \cup {First}
  /\ UNCHANGED <<result, inside, nested, fired, cancelled, promise>>

ThenUnwrap(s) ==
  LET last == First + 1 IN
  /\ s \in held /\ last \in States
  /\ made' = last
  /\ nested' = nested \cup {First}
  /\ callback' = [callback EXCEPT ![s] = [kind |-> "then", next |-> First],
                                  ![First] = [kind |-> "unwrap", next |-> last]]
  /\ token' = [token EXCEPT ![First] = token[s], ![last] = token[s]]
  /\ held' = (held \ {s}) \cup {last}
  /\ UNCHANGED <<result, inside, fired, cancelled, promise>>

\* Future::cancel.
Cancel(s) ==
  /\ s \in held /\ token[s] \notin cancelled
  /\ cancelled' = cancelled \cup {token[s]}
  /\ UNCHANGED <<made, result, inside, nested, callback, fired, token, promise, held>>

-----------------------------------------------------------------------------
\* The result and the callback of s are there: futureReady.
Fires(s, kind) ==
  /\ callback[s].kind = kind /\ s \notin fired /\ result[s] # "pending"
  /\ fired' = fired \cup {s}
Resolve(s, r) == result' = [result EXCEPT ![callback[s].next] = r]

\* The states that wait for s, in turn, or for the value of which s is.
Behind(s) == LET behind[k \in 0..MaxStates] ==
                   IF k = 0 THEN s
                   ELSE IF behind[k - 1] = 0 THEN 0 ELSE callback[behind[k - 1]].next
             IN {behind[k] : k \in 0..MaxStates}

\* FutureThenCallback: a failure is passed on, a function that was cancelled is
\* not called; it gives a value, or a future that does not wait for itself, or
\* throws.
FireThen(s) ==
  LET n == callback[s].next IN
  /\ Fires(s, "then")
  /\ \/ result[s] \in Failures /\ Resolve(s, result[s]) /\ UNCHANGED <<inside, held>>
     \/ result[s] = "value" /\ token[n] \in cancelled
        /\ Resolve(s, "cancelled") /\ UNCHANGED <<inside, held>>
     \/ /\ result[s] = "value" /\ token[n] \notin cancelled
        /\ \/ Resolve(s, "error") /\ UNCHANGED <<inside, held>>
           \/ n \notin nested /\ Resolve(s, "value") /\ UNCHANGED <<inside, held>>
           \/ n \in nested /\ \E i \in held \ Behind(s) :
                /\ Resolve(s, "future") /\ inside' = [inside EXCEPT ![n] = i]
                /\ held' = held \ {i}
  /\ UNCHANGED <<made, nested, callback, token, cancelled, promise>>

\* FutureFailCallback: a value is passed on, the function makes up for a failure.
FireFail(s) ==
  /\ Fires(s, "fail")
  /\ \/ result[s] = "value" /\ Resolve(s, "value")
     \/ result[s] \in Failures /\ \E r \in {"value", "error"} : Resolve(s, r)
  /\ UNCHANGED <<made, inside, nested, callback, token, cancelled, promise, held>>

\* Mutant: the future inside keeps its own flag.
FireUnwrapOwnFlag(s) ==
  LET last == callback[s].next IN
  /\ Fires(s, "unwrap")
  /\ IF result[s] = "future"
     THEN LET i == inside[s] IN
          /\ callback' = [callback EXCEPT ![i] = [kind |-> "unwrap", next |-> last]]
          /\ UNCHANGED <<token, result>>
     ELSE Resolve(s, result[s]) /\ UNCHANGED <<callback, token>>
  /\ UNCHANGED <<made, inside, nested, cancelled, promise, held>>

\* UnwrapperFutureCallback: the future that is the value gets the flag of the
\* last state and a callback of the same kind; a value or failure is passed on.
FireUnwrap(s) ==
  LET last == callback[s].next IN
  /\ Fires(s, "unwrap")
  /\ IF result[s] = "future"
     THEN LET i == inside[s] IN
          /\ callback' = [callback EXCEPT ![i] = [kind |-> "unwrap", next |-> last]]
          /\ token' = [token EXCEPT ![i] = token[last]] /\ UNCHANGED result
     ELSE Resolve(s, result[s]) /\ UNCHANGED <<callback, token>>
  /\ UNCHANGED <<made, inside, nested, cancelled, promise, held>>

Next ==
  \/ \E p \in Slots : \/ MakePromise(p) \/ GetFuture(p) \/ DestroyPromise(p)
                      \/ \E r \in {"value", "error"} : Satisfy(p, r)
                      \/ \E q \in Slots : MovePromise(p, q)
  \/ \E r \in {"value", "error"}, ps \in SUBSET Slots : ps # {} /\ ResolvePromises(ps, r)
  \/ \E s \in States : \/ Hang(s, "then") \/ Hang(s, "fail") \/ ThenUnwrap(s)
                       \/ Cancel(s)
                       \/ FireThen(s) \/ FireFail(s) \/ FireUnwrap(s)

Spec == Init /\ [][Next]_vars

-----------------------------------------------------------------------------
\* Who is to resolve a state: the promises that are not satisfied, callbacks that
\* have not run.
Resolvers(s) ==
  {<<"promise", p>> : p \in {q \in Slots : promise[q].state = s /\ ~promise[q].satisfied}}
    \cup {<<"callback", c>> : c \in {q \in States : callback[q].next = s /\ q \notin fired}}

\* Every state that waits for a result has exactly one that will bring it, and
\* one that has a result has none: through moves of promises, chains and unwrap no
\* future is forgotten and none is resolved twice (assert, future-state.h:193).
OneResolver ==
  \A s \in Used : IF result[s] = "pending" THEN \E r \in Resolvers(s) : Resolvers(s) = {r}
                   ELSE Resolvers(s) = {}

\* Cancelling the last future of a chain reaches the promise it hangs on (the
\* test of unwrap, tests/async/future-tests.cpp:601), over unwrapped futures too:
\* along a chain all share one flag, but for what is in front of a future
\* that a function gave and that hung on another itself.
Given(s) == callback[s].kind = "unwrap" /\ s \notin nested
CancelReaches ==
  \A s \in Used : callback[s].kind # "none" /\ s \notin fired /\ ~Given(callback[s].next) =>
    token[s] = token[callback[s].next]
=============================================================================
